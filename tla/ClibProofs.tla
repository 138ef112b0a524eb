----------------------------- MODULE ClibProofs -----------------------------
(* Proofs about the handle registry, Clib, for any sets of threads, engines *)
(* and sources: its invariants, and that it implements ClibSpec.            *)
EXTENDS Clib, TLAPS

(* The inductive invariant, in named parts.                                 *)

Writing(t) == pc[t] \in LoadHolds \cup FreeHolds

\* Who holds reg, and how, can be read off the program counters.
RegistryHeld ==
    \A t \in Threads :
        /\ regWriter = t <=> Writing(t) \/ pc[t] \in {"load drain", "free drain"}
        /\ t \in regReaders <=> pc[t] \in ReadHolds
        /\ Writing(t) => regReaders = {}

\* A thread in the mutex's section holds the mutex of the engine it looked up;
\* before and after it a parse has found one.
MutexHeld ==
    \A t \in Threads :
        /\ pc[t] \in {"mu lock", "make reply"} => engine[t] # NoEngine
        /\ pc[t] \in MuHolds => engine[t] # NoEngine /\ mu[engine[t]] = t

\* Between the increment and the insertion the counter is one ahead of the
\* table, and the handle about to be inserted is the counter's value.
IdAhead ==
    \A t \in Threads :
        /\ pc[t] \in {"take id", "insert"} => nextID # 0 /\ nextID \notin DOMAIN loaded
        /\ pc[t] = "insert" => handle[t] = nextID

\* What the locals of a call hold where a later step relies on it.
LocalsOK ==
    \A t \in Threads :
        /\ pc[t] \in {"load unlock"} => handle[t] \in Nat
        /\ pc[t] \in {"read lock", "lookup"} \cup Decided => source[t] \in Sources
        /\ pc[t] \in Building => engine[t] \in built
        /\ pc[t] \in {"mu unlock", "make reply"} => reply[t] = Brought(Verdict[source[t]])

IInv == TypeOK /\ RegistryHeld /\ MutexHeld /\ IdAhead /\ LocalsOK /\ NeverTorn /\ EnginePrivate


\* The replies core.go composes are replies.
LEMMA RepliesHold ==
    /\ Silent \in Replies
    /\ \A c \in {"usage", "grammar", "handle", "internal"} : Failed(c) \in Replies
    /\ \A h \in Nat : Loaded(h) \in Replies
    /\ \A v \in Verdicts : Answer(v) \in Replies
    /\ NoHandle \in Int
<1>1. /\ Silent \in Replies
      /\ \A c \in Codes : Failed(c) \in Replies
      /\ \A v \in Verdicts : Answer(v) \in Replies
  BY DEF Replies
<1>2. \A h \in Nat : Loaded(h) \in [ok : {TRUE}, handle : Nat]
  BY DEF Loaded
<1>3. \A h \in Nat : Loaded(h) \in Replies
  BY <1>2 DEF Replies
<1> QED
  BY <1>1, <1>3 DEF Codes, NoHandle

\* What a parse brought back can be read off again.
LEMMA BroughtBack == \A v : Brought(v).verdict = v
  BY DEF Brought

\* The handle counter steps within its type.
LEMMA Counter ==
  ASSUME NEW n \in Nat
  PROVE  /\ n + 1 \in Nat
         /\ n \in Int
         /\ 1..n \subseteq 1..(n + 1)
         /\ n # 0 => n \in 1..n
         /\ n + 1 # 0 /\ n + 1 \notin 1..n
  OBVIOUS

\* Every step of a call keeps the types: handles in the table were issued,
\* and locals hold what the next step reads.
LEMMA TypeStep == IInv /\ [Next]_vars => TypeOK'
<1> SUFFICES ASSUME IInv, [Next]_vars PROVE TypeOK'
  OBVIOUS
<1> USE ClibAssumption, VerdictAssumption, RepliesHold
    DEF IInv, TypeOK, globals, heap, locals
<1> USE DEF Labels, LoadHolds, FreeHolds, ReadHolds, MuHolds
<1>1. ASSUME NEW t \in Threads, NEW opts \in Options, CallGrammar(t, opts) PROVE TypeOK'
  <2>1. CASE OptionsUsable(opts)
    BY <1>1, <2>1 DEF CallGrammar, Go
  <2>2. CASE ~OptionsUsable(opts)
    <3>1. Finish(t, "idle", Failed("usage")) /\ UNCHANGED <<globals, heap>>
      BY <1>1, <2>2 DEF CallGrammar
    <3> QED
      BY <3>1 DEF Go, Finish
  <2> QED
    BY <2>1, <2>2
<1>2. ASSUME NEW t \in Threads, NEW h \in CallerHandles, NEW s \in Sources, CallParse(t, h, s) PROVE TypeOK'
  BY <1>2 DEF CallParse, Go
<1>3. ASSUME NEW t \in Threads, CallParseBadBuffer(t) PROVE TypeOK'
  BY <1>3 DEF CallParseBadBuffer, Go, Finish
<1>4. ASSUME NEW t \in Threads, NEW h \in CallerHandles, CallFree(t, h) PROVE TypeOK'
  BY <1>4 DEF CallFree, Go
<1>5. ASSUME NEW t \in Threads, LoadBuild(t) PROVE TypeOK'
  BY <1>5 DEF LoadBuild, Go
<1>6. ASSUME NEW t \in Threads, LoadFails(t) PROVE TypeOK'
  BY <1>6 DEF LoadFails, Go, Finish
<1>7. ASSUME NEW t \in Threads, LoadLock(t) PROVE TypeOK'
  BY <1>7 DEF LoadLock, Go, WriterAnnounces
<1>8. ASSUME NEW t \in Threads, LoadDrain(t) PROVE TypeOK'
  BY <1>8 DEF LoadDrain, Go, WriterEnters
<1>9. ASSUME NEW t \in Threads, LoadIncrement(t) PROVE TypeOK'
  <2>1. nextID' \in Nat /\ 1..nextID \subseteq 1..nextID'
    BY <1>9, Counter, Zenon DEF LoadIncrement
  <2>2. /\ DOMAIN loaded' \subseteq 1..nextID'
        /\ loaded' \in [DOMAIN loaded' -> built']
    BY <1>9, <2>1 DEF LoadIncrement
  <2> QED
    BY <1>9, <2>1, <2>2 DEF LoadIncrement, Go
<1>10. ASSUME NEW t \in Threads, LoadTakeId(t) PROVE TypeOK'
  <2>1. nextID \in Int
    BY Counter
  <2>2. handle' \in [Threads -> Int]
    BY <1>10, <2>1, Zenon DEF LoadTakeId
  <2> QED
    BY <1>10, <2>2 DEF LoadTakeId, Go
<1>11. ASSUME NEW t \in Threads, LoadInsert(t) PROVE TypeOK'
  <2>1. /\ handle[t] = nextID
        /\ nextID # 0
        /\ engine[t] \in built
    BY <1>11 DEF LoadInsert, Go, IdAhead, LocalsOK, Building
  <2>2. /\ DOMAIN loaded' = DOMAIN loaded \cup {handle[t]}
        /\ loaded' \in [DOMAIN loaded' -> built]
    BY <1>11, <2>1 DEF LoadInsert
  <2>3. handle[t] \in 1..nextID
    BY <2>1, Counter
  <2>4. DOMAIN loaded' \subseteq 1..nextID
    BY <2>2, <2>3, Zenon
  <2> QED
    BY <1>11, <2>2, <2>4 DEF LoadInsert, Go
<1>12. ASSUME NEW t \in Threads, LoadUnlock(t) PROVE TypeOK'
  BY <1>12 DEF LocalsOK, LoadUnlock, Go, Finish
<1>13. ASSUME NEW t \in Threads, ParseReadLock(t) PROVE TypeOK'
  BY <1>13 DEF ParseReadLock, Go
<1>14. ASSUME NEW t \in Threads, ParseLookup(t) PROVE TypeOK'
  BY <1>14 DEF ParseLookup, Go, Lookup
<1>15. ASSUME NEW t \in Threads, ParseReadUnlock(t) PROVE TypeOK'
  <2>1. CASE engine[t] = NoEngine
    <3>1. Finish(t, "read unlock", Failed("handle")) /\ UNCHANGED <<nextID, loaded, regWriter, built, mu, torn>>
      BY <1>15, <2>1 DEF ParseReadUnlock
    <3> QED
      BY <1>15, <3>1 DEF ParseReadUnlock, Go, Finish
  <2>2. CASE engine[t] # NoEngine
    BY <1>15, <2>2 DEF ParseReadUnlock, Go
  <2> QED
    BY <2>1, <2>2
<1>16. ASSUME NEW t \in Threads, ParseLock(t) PROVE TypeOK'
  BY <1>16 DEF ParseLock, Go
<1>17. ASSUME NEW t \in Threads, ParseEnter(t) PROVE TypeOK'
  BY <1>17 DEF ParseEnter, Go, Intruders
<1>18. ASSUME NEW t \in Threads, ParseLeave(t) PROVE TypeOK'
  <2>1. source[t] \in Sources
    BY <1>18 DEF ParseLeave, Go, LocalsOK, Decided
  <2>2. PICK v \in Verdicts : reply' = [reply EXCEPT ![t] = Brought(v)]
    BY <1>18, <2>1 DEF ParseLeave
  <2> QED
    BY <1>18, <2>2 DEF ParseLeave, Go
<1>19. ASSUME NEW t \in Threads, ParseUnlock(t) PROVE TypeOK'
  BY <1>19 DEF ParseUnlock, Go
<1>26. ASSUME NEW t \in Threads, ParseReply(t) PROVE TypeOK'
  <2>1. source[t] \in Sources /\ reply[t] = Brought(Verdict[source[t]])
    BY <1>26 DEF ParseReply, Finish, Go, LocalsOK, Decided
  <2>2. reply[t].verdict = Verdict[source[t]]
    BY <2>1, BroughtBack, Zenon
  <2>3. Answer(reply[t].verdict) \in Replies
    <3>1. Verdict[source[t]] \in Verdicts
      BY <2>1
    <3> QED
      BY <2>2, <3>1
  <2> QED
    BY <1>26, <2>3 DEF ParseReply, Go, Finish
<1>20. ASSUME NEW t \in Threads, FreeLock(t) PROVE TypeOK'
  BY <1>20 DEF FreeLock, Go, WriterAnnounces
<1>21. ASSUME NEW t \in Threads, FreeDrain(t) PROVE TypeOK'
  BY <1>21 DEF FreeDrain, Go, WriterEnters
<1>22. ASSUME NEW t \in Threads, FreeDelete(t) PROVE TypeOK'
  BY <1>22 DEF FreeDelete, Go
<1>23. ASSUME NEW t \in Threads, FreeUnlock(t) PROVE TypeOK'
  BY <1>23 DEF FreeUnlock, Go, Finish
<1>24. ASSUME NEW t \in Threads, Return(t) PROVE TypeOK'
  BY <1>24 DEF Return, Go
<1>25. CASE UNCHANGED vars
  BY <1>25 DEF vars
<1> QED
  BY <1>1, <1>2, <1>3, <1>4, <1>5, <1>6, <1>7, <1>8, <1>9, <1>10, <1>11, <1>12, <1>13, <1>14, <1>15, <1>16, <1>17, <1>18, <1>19, <1>20, <1>21, <1>22, <1>23, <1>24, <1>25, <1>26 DEF Next, Call, Load, Parse, Free

\* Every step keeps the registry lock with those whose program counter says so.
LEMMA RegistryStep == IInv /\ [Next]_vars => RegistryHeld'
<1> SUFFICES ASSUME pc \in [Threads -> Labels], regWriter \in Threads \cup {NoThread}, regReaders \subseteq Threads, RegistryHeld,
                    [Next]_vars
             PROVE  RegistryHeld'
  BY DEF IInv, TypeOK
<1> USE ClibAssumption DEF RegistryHeld, Writing, LoadHolds, FreeHolds, ReadHolds, globals, heap, locals
<1>1. ASSUME NEW t \in Threads, NEW opts \in Options, CallGrammar(t, opts) PROVE RegistryHeld'
  BY <1>1 DEF CallGrammar, Go, Finish
<1>2. ASSUME NEW t \in Threads, NEW h \in CallerHandles, NEW s \in Sources, CallParse(t, h, s) PROVE RegistryHeld'
  BY <1>2 DEF CallParse, Go
<1>3. ASSUME NEW t \in Threads, CallParseBadBuffer(t) PROVE RegistryHeld'
  BY <1>3 DEF CallParseBadBuffer, Go, Finish
<1>4. ASSUME NEW t \in Threads, NEW h \in CallerHandles, CallFree(t, h) PROVE RegistryHeld'
  BY <1>4 DEF CallFree, Go
<1>5. ASSUME NEW t \in Threads, LoadBuild(t) PROVE RegistryHeld'
  BY <1>5 DEF LoadBuild, Go
<1>6. ASSUME NEW t \in Threads, LoadFails(t) PROVE RegistryHeld'
  BY <1>6 DEF LoadFails, Go, Finish
<1>7. ASSUME NEW t \in Threads, LoadLock(t) PROVE RegistryHeld'
  BY <1>7 DEF LoadLock, Go, WriterAnnounces
<1>8. ASSUME NEW t \in Threads, LoadDrain(t) PROVE RegistryHeld'
  BY <1>8 DEF LoadDrain, Go, WriterEnters
<1>9. ASSUME NEW t \in Threads, LoadIncrement(t) PROVE RegistryHeld'
  BY <1>9 DEF LoadIncrement, Go
<1>10. ASSUME NEW t \in Threads, LoadTakeId(t) PROVE RegistryHeld'
  BY <1>10 DEF LoadTakeId, Go
<1>11. ASSUME NEW t \in Threads, LoadInsert(t) PROVE RegistryHeld'
  BY <1>11 DEF LoadInsert, Go
<1>12. ASSUME NEW t \in Threads, LoadUnlock(t) PROVE RegistryHeld'
  BY <1>12 DEF LoadUnlock, Go, Finish
<1>13. ASSUME NEW t \in Threads, ParseReadLock(t) PROVE RegistryHeld'
  BY <1>13 DEF ParseReadLock, Go
<1>14. ASSUME NEW t \in Threads, ParseLookup(t) PROVE RegistryHeld'
  BY <1>14 DEF ParseLookup, Go
<1>15. ASSUME NEW t \in Threads, ParseReadUnlock(t) PROVE RegistryHeld'
  BY <1>15 DEF ParseReadUnlock, Go, Finish
<1>16. ASSUME NEW t \in Threads, ParseLock(t) PROVE RegistryHeld'
  BY <1>16 DEF ParseLock, Go
<1>17. ASSUME NEW t \in Threads, ParseEnter(t) PROVE RegistryHeld'
  BY <1>17 DEF ParseEnter, Go
<1>18. ASSUME NEW t \in Threads, ParseLeave(t) PROVE RegistryHeld'
  BY <1>18 DEF ParseLeave, Go
<1>19. ASSUME NEW t \in Threads, ParseUnlock(t) PROVE RegistryHeld'
  BY <1>19 DEF ParseUnlock, Go
<1>26. ASSUME NEW t \in Threads, ParseReply(t) PROVE RegistryHeld'
  BY <1>26 DEF ParseReply, Go, Finish
<1>20. ASSUME NEW t \in Threads, FreeLock(t) PROVE RegistryHeld'
  BY <1>20 DEF FreeLock, Go, WriterAnnounces
<1>21. ASSUME NEW t \in Threads, FreeDrain(t) PROVE RegistryHeld'
  BY <1>21 DEF FreeDrain, Go, WriterEnters
<1>22. ASSUME NEW t \in Threads, FreeDelete(t) PROVE RegistryHeld'
  BY <1>22 DEF FreeDelete, Go
<1>23. ASSUME NEW t \in Threads, FreeUnlock(t) PROVE RegistryHeld'
  BY <1>23 DEF FreeUnlock, Go, Finish
<1>24. ASSUME NEW t \in Threads, Return(t) PROVE RegistryHeld'
  BY <1>24 DEF Return, Go
<1>25. CASE UNCHANGED vars
  BY <1>25 DEF vars
<1> QED
  BY <1>1, <1>2, <1>3, <1>4, <1>5, <1>6, <1>7, <1>8, <1>9, <1>10, <1>11, <1>12, <1>13, <1>14, <1>15, <1>16, <1>17, <1>18, <1>19, <1>20, <1>21, <1>22, <1>23, <1>24, <1>25, <1>26 DEF Next, Call, Load, Parse, Free

\* Every step keeps an engine's mutex with the thread inside its section.
LEMMA MutexStep == IInv /\ [Next]_vars => MutexHeld'
<1> SUFFICES ASSUME pc \in [Threads -> Labels], mu \in [Engines -> Threads \cup {NoThread}], engine \in [Threads -> built \cup {NoEngine}], built \subseteq Engines, MutexHeld,
                    [Next]_vars
             PROVE  MutexHeld'
  BY DEF IInv, TypeOK
<1> USE ClibAssumption DEF MutexHeld, MuHolds, globals, heap, locals
<1>1. ASSUME NEW t \in Threads, NEW opts \in Options, CallGrammar(t, opts) PROVE MutexHeld'
  BY <1>1 DEF CallGrammar, Go, Finish
<1>2. ASSUME NEW t \in Threads, NEW h \in CallerHandles, NEW s \in Sources, CallParse(t, h, s) PROVE MutexHeld'
  BY <1>2 DEF CallParse, Go
<1>3. ASSUME NEW t \in Threads, CallParseBadBuffer(t) PROVE MutexHeld'
  BY <1>3 DEF CallParseBadBuffer, Go, Finish
<1>4. ASSUME NEW t \in Threads, NEW h \in CallerHandles, CallFree(t, h) PROVE MutexHeld'
  BY <1>4 DEF CallFree, Go
<1>5. ASSUME NEW t \in Threads, LoadBuild(t) PROVE MutexHeld'
  BY <1>5 DEF LoadBuild, Go
<1>6. ASSUME NEW t \in Threads, LoadFails(t) PROVE MutexHeld'
  BY <1>6 DEF LoadFails, Go, Finish
<1>7. ASSUME NEW t \in Threads, LoadLock(t) PROVE MutexHeld'
  BY <1>7 DEF LoadLock, Go, WriterAnnounces
<1>8. ASSUME NEW t \in Threads, LoadDrain(t) PROVE MutexHeld'
  BY <1>8 DEF LoadDrain, Go, WriterEnters
<1>9. ASSUME NEW t \in Threads, LoadIncrement(t) PROVE MutexHeld'
  BY <1>9 DEF LoadIncrement, Go
<1>10. ASSUME NEW t \in Threads, LoadTakeId(t) PROVE MutexHeld'
  BY <1>10 DEF LoadTakeId, Go
<1>11. ASSUME NEW t \in Threads, LoadInsert(t) PROVE MutexHeld'
  BY <1>11 DEF LoadInsert, Go
<1>12. ASSUME NEW t \in Threads, LoadUnlock(t) PROVE MutexHeld'
  BY <1>12 DEF LoadUnlock, Go, Finish
<1>13. ASSUME NEW t \in Threads, ParseReadLock(t) PROVE MutexHeld'
  BY <1>13 DEF ParseReadLock, Go
<1>14. ASSUME NEW t \in Threads, ParseLookup(t) PROVE MutexHeld'
  BY <1>14 DEF ParseLookup, Go, Lookup
<1>15. ASSUME NEW t \in Threads, ParseReadUnlock(t) PROVE MutexHeld'
  BY <1>15 DEF ParseReadUnlock, Go, Finish
<1>16. ASSUME NEW t \in Threads, ParseLock(t) PROVE MutexHeld'
  BY <1>16 DEF ParseLock, Go
<1>17. ASSUME NEW t \in Threads, ParseEnter(t) PROVE MutexHeld'
  BY <1>17 DEF ParseEnter, Go
<1>18. ASSUME NEW t \in Threads, ParseLeave(t) PROVE MutexHeld'
  BY <1>18 DEF ParseLeave, Go
<1>19. ASSUME NEW t \in Threads, ParseUnlock(t) PROVE MutexHeld'
  BY <1>19 DEF ParseUnlock, Go
<1>26. ASSUME NEW t \in Threads, ParseReply(t) PROVE MutexHeld'
  BY <1>26 DEF ParseReply, Go, Finish
<1>20. ASSUME NEW t \in Threads, FreeLock(t) PROVE MutexHeld'
  BY <1>20 DEF FreeLock, Go, WriterAnnounces
<1>21. ASSUME NEW t \in Threads, FreeDrain(t) PROVE MutexHeld'
  BY <1>21 DEF FreeDrain, Go, WriterEnters
<1>22. ASSUME NEW t \in Threads, FreeDelete(t) PROVE MutexHeld'
  BY <1>22 DEF FreeDelete, Go
<1>23. ASSUME NEW t \in Threads, FreeUnlock(t) PROVE MutexHeld'
  BY <1>23 DEF FreeUnlock, Go, Finish
<1>24. ASSUME NEW t \in Threads, Return(t) PROVE MutexHeld'
  BY <1>24 DEF Return, Go
<1>25. CASE UNCHANGED vars
  BY <1>25 DEF vars
<1> QED
  BY <1>1, <1>2, <1>3, <1>4, <1>5, <1>6, <1>7, <1>8, <1>9, <1>10, <1>11, <1>12, <1>13, <1>14, <1>15, <1>16, <1>17, <1>18, <1>19, <1>20, <1>21, <1>22, <1>23, <1>24, <1>25, <1>26 DEF Next, Call, Load, Parse, Free

\* Every step keeps the counter ahead of the table during a load.
LEMMA IdStep == IInv /\ [Next]_vars => IdAhead'
<1> SUFFICES ASSUME pc \in [Threads -> Labels], handle \in [Threads -> Int], nextID \in Nat, DOMAIN loaded \subseteq 1..nextID, RegistryHeld, IdAhead,
                    [Next]_vars
             PROVE  IdAhead'
  BY DEF IInv, TypeOK
<1> USE ClibAssumption DEF IdAhead, RegistryHeld, Writing, LoadHolds, FreeHolds, globals, heap, locals
<1>1. ASSUME NEW t \in Threads, NEW opts \in Options, CallGrammar(t, opts) PROVE IdAhead'
  BY <1>1 DEF CallGrammar, Go, Finish
<1>2. ASSUME NEW t \in Threads, NEW h \in CallerHandles, NEW s \in Sources, CallParse(t, h, s) PROVE IdAhead'
  BY <1>2 DEF CallParse, Go
<1>3. ASSUME NEW t \in Threads, CallParseBadBuffer(t) PROVE IdAhead'
  BY <1>3 DEF CallParseBadBuffer, Go, Finish
<1>4. ASSUME NEW t \in Threads, NEW h \in CallerHandles, CallFree(t, h) PROVE IdAhead'
  BY <1>4 DEF CallFree, Go
<1>5. ASSUME NEW t \in Threads, LoadBuild(t) PROVE IdAhead'
  BY <1>5 DEF LoadBuild, Go
<1>6. ASSUME NEW t \in Threads, LoadFails(t) PROVE IdAhead'
  BY <1>6 DEF LoadFails, Go, Finish
<1>7. ASSUME NEW t \in Threads, LoadLock(t) PROVE IdAhead'
  BY <1>7 DEF LoadLock, Go, WriterAnnounces
<1>8. ASSUME NEW t \in Threads, LoadDrain(t) PROVE IdAhead'
  BY <1>8 DEF LoadDrain, Go, WriterEnters
<1>9. ASSUME NEW t \in Threads, LoadIncrement(t) PROVE IdAhead'
  <2>1. nextID' # 0 /\ nextID' \notin 1..nextID
    BY <1>9, Counter DEF LoadIncrement
  <2>2. nextID' \notin DOMAIN loaded
    BY <2>1
  <2>3. \A u \in Threads : pc[u] \in {"take id", "insert"} => u = t
    BY <1>9 DEF LoadIncrement, Go
  <2> QED
    BY <1>9, <2>1, <2>2, <2>3 DEF LoadIncrement, Go
<1>10. ASSUME NEW t \in Threads, LoadTakeId(t) PROVE IdAhead'
  BY <1>10 DEF LoadTakeId, Go
<1>11. ASSUME NEW t \in Threads, LoadInsert(t) PROVE IdAhead'
  BY <1>11 DEF LoadInsert, Go
<1>12. ASSUME NEW t \in Threads, LoadUnlock(t) PROVE IdAhead'
  BY <1>12 DEF LoadUnlock, Go, Finish
<1>13. ASSUME NEW t \in Threads, ParseReadLock(t) PROVE IdAhead'
  BY <1>13 DEF ParseReadLock, Go
<1>14. ASSUME NEW t \in Threads, ParseLookup(t) PROVE IdAhead'
  BY <1>14 DEF ParseLookup, Go
<1>15. ASSUME NEW t \in Threads, ParseReadUnlock(t) PROVE IdAhead'
  BY <1>15 DEF ParseReadUnlock, Go, Finish
<1>16. ASSUME NEW t \in Threads, ParseLock(t) PROVE IdAhead'
  BY <1>16 DEF ParseLock, Go
<1>17. ASSUME NEW t \in Threads, ParseEnter(t) PROVE IdAhead'
  BY <1>17 DEF ParseEnter, Go
<1>18. ASSUME NEW t \in Threads, ParseLeave(t) PROVE IdAhead'
  BY <1>18 DEF ParseLeave, Go
<1>19. ASSUME NEW t \in Threads, ParseUnlock(t) PROVE IdAhead'
  BY <1>19 DEF ParseUnlock, Go
<1>26. ASSUME NEW t \in Threads, ParseReply(t) PROVE IdAhead'
  BY <1>26 DEF ParseReply, Go, Finish
<1>20. ASSUME NEW t \in Threads, FreeLock(t) PROVE IdAhead'
  BY <1>20 DEF FreeLock, Go, WriterAnnounces
<1>21. ASSUME NEW t \in Threads, FreeDrain(t) PROVE IdAhead'
  BY <1>21 DEF FreeDrain, Go, WriterEnters
<1>22. ASSUME NEW t \in Threads, FreeDelete(t) PROVE IdAhead'
  BY <1>22 DEF FreeDelete, Go
<1>23. ASSUME NEW t \in Threads, FreeUnlock(t) PROVE IdAhead'
  BY <1>23 DEF FreeUnlock, Go, Finish
<1>24. ASSUME NEW t \in Threads, Return(t) PROVE IdAhead'
  BY <1>24 DEF Return, Go
<1>25. CASE UNCHANGED vars
  BY <1>25 DEF vars
<1> QED
  BY <1>1, <1>2, <1>3, <1>4, <1>5, <1>6, <1>7, <1>8, <1>9, <1>10, <1>11, <1>12, <1>13, <1>14, <1>15, <1>16, <1>17, <1>18, <1>19, <1>20, <1>21, <1>22, <1>23, <1>24, <1>25, <1>26 DEF Next, Call, Load, Parse, Free

\* Every step keeps the locals a later step of the same call relies on.
LEMMA LocalsStep == IInv /\ [Next]_vars => LocalsOK'
<1> SUFFICES ASSUME pc \in [Threads -> Labels], handle \in [Threads -> Int], nextID \in Nat, source \in [Threads -> Sources \cup {NoSource}], engine \in [Threads -> built \cup {NoEngine}], reply \in [Threads -> Replies \cup {Brought(v) : v \in Verdicts}], IdAhead, LocalsOK, NeverTorn,
                    [Next]_vars
             PROVE  LocalsOK'
  BY DEF IInv, TypeOK
<1> USE ClibAssumption DEF LocalsOK, NeverTorn, Decided, Building, globals, heap, locals
<1>1. ASSUME NEW t \in Threads, NEW opts \in Options, CallGrammar(t, opts) PROVE LocalsOK'
  <2>1. CASE OptionsUsable(opts)
    BY <1>1, <2>1 DEF CallGrammar, Go
  <2>2. CASE ~OptionsUsable(opts)
    <3>1. Finish(t, "idle", Failed("usage")) /\ UNCHANGED <<globals, heap>>
      BY <1>1, <2>2 DEF CallGrammar
    <3> QED
      BY <3>1 DEF Finish, Go
  <2> QED
    BY <2>1, <2>2
<1>2. ASSUME NEW t \in Threads, NEW h \in CallerHandles, NEW s \in Sources, CallParse(t, h, s) PROVE LocalsOK'
  BY <1>2 DEF CallParse, Go
<1>3. ASSUME NEW t \in Threads, CallParseBadBuffer(t) PROVE LocalsOK'
  BY <1>3 DEF CallParseBadBuffer, Go, Finish
<1>4. ASSUME NEW t \in Threads, NEW h \in CallerHandles, CallFree(t, h) PROVE LocalsOK'
  BY <1>4 DEF CallFree, Go
<1>5. ASSUME NEW t \in Threads, LoadBuild(t) PROVE LocalsOK'
  BY <1>5 DEF LoadBuild, Go
<1>6. ASSUME NEW t \in Threads, LoadFails(t) PROVE LocalsOK'
  BY <1>6 DEF LoadFails, Go, Finish
<1>7. ASSUME NEW t \in Threads, LoadLock(t) PROVE LocalsOK'
  BY <1>7 DEF LoadLock, Go, WriterAnnounces
<1>8. ASSUME NEW t \in Threads, LoadDrain(t) PROVE LocalsOK'
  BY <1>8 DEF LoadDrain, Go, WriterEnters
<1>9. ASSUME NEW t \in Threads, LoadIncrement(t) PROVE LocalsOK'
  BY <1>9 DEF LoadIncrement, Go
<1>10. ASSUME NEW t \in Threads, LoadTakeId(t) PROVE LocalsOK'
  BY <1>10 DEF LoadTakeId, Go
<1>11. ASSUME NEW t \in Threads, LoadInsert(t) PROVE LocalsOK'
  BY <1>11 DEF LoadInsert, Go, IdAhead
<1>12. ASSUME NEW t \in Threads, LoadUnlock(t) PROVE LocalsOK'
  BY <1>12 DEF LoadUnlock, Go, Finish
<1>13. ASSUME NEW t \in Threads, ParseReadLock(t) PROVE LocalsOK'
  BY <1>13 DEF ParseReadLock, Go
<1>14. ASSUME NEW t \in Threads, ParseLookup(t) PROVE LocalsOK'
  BY <1>14 DEF ParseLookup, Go
<1>15. ASSUME NEW t \in Threads, ParseReadUnlock(t) PROVE LocalsOK'
  <2>1. CASE engine[t] = NoEngine
    <3>1. Finish(t, "read unlock", Failed("handle")) /\ UNCHANGED built
      BY <1>15, <2>1 DEF ParseReadUnlock
    <3> QED
      BY <3>1 DEF Finish, Go
  <2>2. CASE engine[t] # NoEngine
    <3>1. Go(t, "read unlock", "mu lock") /\ UNCHANGED <<built, handle, source, engine, reply>>
      BY <1>15, <2>2 DEF ParseReadUnlock
    <3>2. engine[t] \in built
      BY <2>2
    <3> QED
      BY <3>1, <3>2 DEF Go
  <2> QED
    BY <2>1, <2>2
<1>16. ASSUME NEW t \in Threads, ParseLock(t) PROVE LocalsOK'
  BY <1>16 DEF ParseLock, Go
<1>17. ASSUME NEW t \in Threads, ParseEnter(t) PROVE LocalsOK'
  BY <1>17 DEF ParseEnter, Go
<1>18. ASSUME NEW t \in Threads, ParseLeave(t) PROVE LocalsOK'
  <2>1. source[t] \in Sources /\ t \notin torn
    BY <1>18 DEF ParseLeave, Go
  <2>2. reply' = [reply EXCEPT ![t] = Brought(Verdict[source[t]])]
    BY <1>18, <2>1 DEF ParseLeave
  <2> QED
    BY <1>18, <2>1, <2>2 DEF ParseLeave, Go
<1>19. ASSUME NEW t \in Threads, ParseUnlock(t) PROVE LocalsOK'
  BY <1>19 DEF ParseUnlock, Go
<1>26. ASSUME NEW t \in Threads, ParseReply(t) PROVE LocalsOK'
  BY <1>26 DEF ParseReply, Go, Finish
<1>20. ASSUME NEW t \in Threads, FreeLock(t) PROVE LocalsOK'
  BY <1>20 DEF FreeLock, Go, WriterAnnounces
<1>21. ASSUME NEW t \in Threads, FreeDrain(t) PROVE LocalsOK'
  BY <1>21 DEF FreeDrain, Go, WriterEnters
<1>22. ASSUME NEW t \in Threads, FreeDelete(t) PROVE LocalsOK'
  BY <1>22 DEF FreeDelete, Go
<1>23. ASSUME NEW t \in Threads, FreeUnlock(t) PROVE LocalsOK'
  BY <1>23 DEF FreeUnlock, Go, Finish
<1>24. ASSUME NEW t \in Threads, Return(t) PROVE LocalsOK'
  BY <1>24 DEF Return, Go
<1>25. CASE UNCHANGED vars
  BY <1>25 DEF vars
<1> QED
  BY <1>1, <1>2, <1>3, <1>4, <1>5, <1>6, <1>7, <1>8, <1>9, <1>10, <1>11, <1>12, <1>13, <1>14, <1>15, <1>16, <1>17, <1>18, <1>19, <1>20, <1>21, <1>22, <1>23, <1>24, <1>25, <1>26 DEF Next, Call, Load, Parse, Free

\* No step lets a second thread into an engine: the mutex of a looked-up engine
\* admits one thread, whatever became of the handle.
LEMMA TornStep == IInv /\ [Next]_vars => NeverTorn'
<1> SUFFICES ASSUME pc \in [Threads -> Labels], MutexHeld, NeverTorn,
                    [Next]_vars
             PROVE  NeverTorn'
  BY DEF IInv, TypeOK
<1> USE ClibAssumption DEF MutexHeld, MuHolds, NeverTorn, globals, heap, locals
<1>1. ASSUME NEW t \in Threads, NEW opts \in Options, CallGrammar(t, opts) PROVE NeverTorn'
  BY <1>1 DEF CallGrammar, Go, Finish
<1>2. ASSUME NEW t \in Threads, NEW h \in CallerHandles, NEW s \in Sources, CallParse(t, h, s) PROVE NeverTorn'
  BY <1>2 DEF CallParse, Go
<1>3. ASSUME NEW t \in Threads, CallParseBadBuffer(t) PROVE NeverTorn'
  BY <1>3 DEF CallParseBadBuffer, Go, Finish
<1>4. ASSUME NEW t \in Threads, NEW h \in CallerHandles, CallFree(t, h) PROVE NeverTorn'
  BY <1>4 DEF CallFree, Go
<1>5. ASSUME NEW t \in Threads, LoadBuild(t) PROVE NeverTorn'
  BY <1>5 DEF LoadBuild, Go
<1>6. ASSUME NEW t \in Threads, LoadFails(t) PROVE NeverTorn'
  BY <1>6 DEF LoadFails, Go, Finish
<1>7. ASSUME NEW t \in Threads, LoadLock(t) PROVE NeverTorn'
  BY <1>7 DEF LoadLock, Go, WriterAnnounces
<1>8. ASSUME NEW t \in Threads, LoadDrain(t) PROVE NeverTorn'
  BY <1>8 DEF LoadDrain, Go, WriterEnters
<1>9. ASSUME NEW t \in Threads, LoadIncrement(t) PROVE NeverTorn'
  BY <1>9 DEF LoadIncrement, Go
<1>10. ASSUME NEW t \in Threads, LoadTakeId(t) PROVE NeverTorn'
  BY <1>10 DEF LoadTakeId, Go
<1>11. ASSUME NEW t \in Threads, LoadInsert(t) PROVE NeverTorn'
  BY <1>11 DEF LoadInsert, Go
<1>12. ASSUME NEW t \in Threads, LoadUnlock(t) PROVE NeverTorn'
  BY <1>12 DEF LoadUnlock, Go, Finish
<1>13. ASSUME NEW t \in Threads, ParseReadLock(t) PROVE NeverTorn'
  BY <1>13 DEF ParseReadLock, Go
<1>14. ASSUME NEW t \in Threads, ParseLookup(t) PROVE NeverTorn'
  BY <1>14 DEF ParseLookup, Go
<1>15. ASSUME NEW t \in Threads, ParseReadUnlock(t) PROVE NeverTorn'
  BY <1>15 DEF ParseReadUnlock, Go, Finish
<1>16. ASSUME NEW t \in Threads, ParseLock(t) PROVE NeverTorn'
  BY <1>16 DEF ParseLock, Go
<1>17. ASSUME NEW t \in Threads, ParseEnter(t) PROVE NeverTorn'
  BY <1>17 DEF ParseEnter, Go, Intruders
<1>18. ASSUME NEW t \in Threads, ParseLeave(t) PROVE NeverTorn'
  BY <1>18 DEF ParseLeave, Go
<1>19. ASSUME NEW t \in Threads, ParseUnlock(t) PROVE NeverTorn'
  BY <1>19 DEF ParseUnlock, Go
<1>26. ASSUME NEW t \in Threads, ParseReply(t) PROVE NeverTorn'
  BY <1>26 DEF ParseReply, Go, Finish
<1>20. ASSUME NEW t \in Threads, FreeLock(t) PROVE NeverTorn'
  BY <1>20 DEF FreeLock, Go, WriterAnnounces
<1>21. ASSUME NEW t \in Threads, FreeDrain(t) PROVE NeverTorn'
  BY <1>21 DEF FreeDrain, Go, WriterEnters
<1>22. ASSUME NEW t \in Threads, FreeDelete(t) PROVE NeverTorn'
  BY <1>22 DEF FreeDelete, Go
<1>23. ASSUME NEW t \in Threads, FreeUnlock(t) PROVE NeverTorn'
  BY <1>23 DEF FreeUnlock, Go, Finish
<1>24. ASSUME NEW t \in Threads, Return(t) PROVE NeverTorn'
  BY <1>24 DEF Return, Go
<1>25. CASE UNCHANGED vars
  BY <1>25 DEF vars
<1> QED
  BY <1>1, <1>2, <1>3, <1>4, <1>5, <1>6, <1>7, <1>8, <1>9, <1>10, <1>11, <1>12, <1>13, <1>14, <1>15, <1>16, <1>17, <1>18, <1>19, <1>20, <1>21, <1>22, <1>23, <1>24, <1>25, <1>26 DEF Next, Call, Load, Parse, Free

\* Every step keeps one engine per handle: safeNew built it for this load alone.
LEMMA PrivateStep == IInv /\ [Next]_vars => EnginePrivate'
<1> SUFFICES ASSUME pc \in [Threads -> Labels], handle \in [Threads -> Int], engine \in [Threads -> built \cup {NoEngine}], loaded \in [DOMAIN loaded -> built], built \subseteq Engines, LocalsOK, EnginePrivate,
                    [Next]_vars
             PROVE  EnginePrivate'
  BY DEF IInv, TypeOK
<1> USE ClibAssumption DEF EnginePrivate, Building, globals, heap, locals
<1>0. /\ \A u \in Threads : pc[u] \in Building => engine[u] \in built /\ engine[u] # NoEngine
      /\ \A h \in DOMAIN loaded : loaded[h] \in built /\ loaded[h] # NoEngine
  BY DEF LocalsOK
<1>1. ASSUME NEW t \in Threads, NEW opts \in Options, CallGrammar(t, opts) PROVE EnginePrivate'
  <2>1. CASE OptionsUsable(opts)
    BY <1>1, <2>1 DEF CallGrammar, Go
  <2>2. CASE ~OptionsUsable(opts)
    <3>1. Finish(t, "idle", Failed("usage")) /\ UNCHANGED <<globals, heap>>
      BY <1>1, <2>2 DEF CallGrammar
    <3> QED
      BY <1>0, <3>1 DEF Finish, Go
  <2> QED
    BY <2>1, <2>2
<1>2. ASSUME NEW t \in Threads, NEW h \in CallerHandles, NEW s \in Sources, CallParse(t, h, s) PROVE EnginePrivate'
  BY <1>2 DEF CallParse, Go
<1>3. ASSUME NEW t \in Threads, CallParseBadBuffer(t) PROVE EnginePrivate'
  BY <1>0, <1>3 DEF CallParseBadBuffer, Go, Finish
<1>4. ASSUME NEW t \in Threads, NEW h \in CallerHandles, CallFree(t, h) PROVE EnginePrivate'
  BY <1>4 DEF CallFree, Go
<1>5. ASSUME NEW t \in Threads, LoadBuild(t) PROVE EnginePrivate'
  <2>1. PICK e \in Engines \ built : engine' = [engine EXCEPT ![t] = e]
    BY <1>5 DEF LoadBuild
  <2>2. e \in Engines /\ e \notin built /\ e # NoEngine
    BY <2>1
  <2>3. \A u \in Threads : engine[u] # e
    BY <2>2
  <2> QED
    BY <1>0, <1>5, <2>1, <2>2, <2>3 DEF LoadBuild, Go
<1>6. ASSUME NEW t \in Threads, LoadFails(t) PROVE EnginePrivate'
  BY <1>0, <1>6 DEF LoadFails, Go, Finish
<1>7. ASSUME NEW t \in Threads, LoadLock(t) PROVE EnginePrivate'
  BY <1>7 DEF LoadLock, Go, WriterAnnounces
<1>8. ASSUME NEW t \in Threads, LoadDrain(t) PROVE EnginePrivate'
  BY <1>8 DEF LoadDrain, Go, WriterEnters
<1>9. ASSUME NEW t \in Threads, LoadIncrement(t) PROVE EnginePrivate'
  BY <1>9 DEF LoadIncrement, Go
<1>10. ASSUME NEW t \in Threads, LoadTakeId(t) PROVE EnginePrivate'
  BY <1>10 DEF LoadTakeId, Go
<1>11. ASSUME NEW t \in Threads, LoadInsert(t) PROVE EnginePrivate'
  BY <1>11, ZenonT(60) DEF LoadInsert, Go, LocalsOK
<1>12. ASSUME NEW t \in Threads, LoadUnlock(t) PROVE EnginePrivate'
  BY <1>0, <1>12 DEF LoadUnlock, Go, Finish
<1>13. ASSUME NEW t \in Threads, ParseReadLock(t) PROVE EnginePrivate'
  BY <1>13 DEF ParseReadLock, Go
<1>14. ASSUME NEW t \in Threads, ParseLookup(t) PROVE EnginePrivate'
  BY <1>0, <1>14 DEF ParseLookup, Go, Lookup
<1>15. ASSUME NEW t \in Threads, ParseReadUnlock(t) PROVE EnginePrivate'
  BY <1>15, ZenonT(60) DEF ParseReadUnlock, Go, Finish
<1>16. ASSUME NEW t \in Threads, ParseLock(t) PROVE EnginePrivate'
  BY <1>16 DEF ParseLock, Go
<1>17. ASSUME NEW t \in Threads, ParseEnter(t) PROVE EnginePrivate'
  BY <1>17 DEF ParseEnter, Go
<1>18. ASSUME NEW t \in Threads, ParseLeave(t) PROVE EnginePrivate'
  BY <1>18 DEF ParseLeave, Go
<1>19. ASSUME NEW t \in Threads, ParseUnlock(t) PROVE EnginePrivate'
  BY <1>0, <1>19 DEF ParseUnlock, Go
<1>26. ASSUME NEW t \in Threads, ParseReply(t) PROVE EnginePrivate'
  BY <1>0, <1>26 DEF ParseReply, Go, Finish
<1>20. ASSUME NEW t \in Threads, FreeLock(t) PROVE EnginePrivate'
  BY <1>20 DEF FreeLock, Go, WriterAnnounces
<1>21. ASSUME NEW t \in Threads, FreeDrain(t) PROVE EnginePrivate'
  BY <1>21 DEF FreeDrain, Go, WriterEnters
<1>22. ASSUME NEW t \in Threads, FreeDelete(t) PROVE EnginePrivate'
  BY <1>22 DEF FreeDelete, Go
<1>23. ASSUME NEW t \in Threads, FreeUnlock(t) PROVE EnginePrivate'
  BY <1>0, <1>23 DEF FreeUnlock, Go, Finish
<1>24. ASSUME NEW t \in Threads, Return(t) PROVE EnginePrivate'
  BY <1>24 DEF Return, Go
<1>25. CASE UNCHANGED vars
  BY <1>25 DEF vars
<1> QED
  BY <1>1, <1>2, <1>3, <1>4, <1>5, <1>6, <1>7, <1>8, <1>9, <1>10, <1>11, <1>12, <1>13, <1>14, <1>15, <1>16, <1>17, <1>18, <1>19, <1>20, <1>21, <1>22, <1>23, <1>24, <1>25, <1>26 DEF Next, Call, Load, Parse, Free

\* The fresh library satisfies the invariant.
LEMMA InitInv == Init => IInv
<1> SUFFICES ASSUME Init PROVE IInv
  OBVIOUS
<1>1. TypeOK
  BY RepliesHold DEF Init, TypeOK, Labels
<1>2. RegistryHeld /\ MutexHeld /\ IdAhead /\ LocalsOK /\ NeverTorn /\ EnginePrivate
  BY ClibAssumption
     DEF Init, RegistryHeld, MutexHeld, IdAhead, LocalsOK, NeverTorn, EnginePrivate,
         Writing, Building, Decided, LoadHolds, FreeHolds, ReadHolds, MuHolds
<1> QED
  BY <1>1, <1>2 DEF IInv

\* The inductive invariant holds in every reachable state.
THEOREM Inductive == Spec => []IInv
<1>1. IInv /\ [Next]_vars => IInv'
  BY TypeStep, RegistryStep, MutexStep, IdStep, LocalsStep, TornStep, PrivateStep DEF IInv
<1> QED
  BY InitInv, <1>1, PTL DEF Spec

\* Every variable of the registry keeps its type; in particular the table
\* only ever holds handles that were issued.
THEOREM TypeCorrect == Spec => []TypeOK
  BY Inductive, PTL DEF IInv

\* Two threads never drive one engine at once, so no parse is ever torn
\* (instance.mu in parseWith).
THEOREM NoParseTorn == Spec => []NeverTorn
  BY Inductive, PTL DEF IInv

\* No two handles share an engine (loadGrammar).
THEOREM EnginesPrivate == Spec => []EnginePrivate
  BY Inductive, PTL DEF IInv

\* The table and the counter change only while no other thread is between
\* taking and releasing reg.
THEOREM TableIsStable == Spec => TableStable
<1> DEFINE Alone == \A t, u \in Threads : AtTable(t) /\ AtTable(u) /\ t # u => UNCHANGED <<loaded, nextID>>
<1>1. IInv /\ [Next]_vars => Alone
  <2> SUFFICES ASSUME RegistryHeld, [Next]_vars,
                      NEW t \in Threads, NEW u \in Threads, AtTable(t), AtTable(u), t # u
               PROVE  UNCHANGED <<loaded, nextID>>
    BY DEF IInv
  <2>1. pc[t] \in ReadHolds /\ pc[u] \in ReadHolds
    BY DEF AtTable, RegistryHeld, Writing, ReadHolds
  <2>2. regReaders # {} /\ \A v \in Threads : ~Writing(v)
    BY <2>1 DEF RegistryHeld
  <2>3. ASSUME NEW v \in Threads, LoadIncrement(v) \/ LoadInsert(v) \/ FreeDelete(v)
        PROVE  Writing(v)
    BY <2>3 DEF LoadIncrement, LoadInsert, FreeDelete, Go, Writing, LoadHolds, FreeHolds
  <2>4. CASE UNCHANGED vars
    BY <2>4 DEF vars
  <2>5. ASSUME NEW v \in Threads, Call(v)
        PROVE  UNCHANGED <<loaded, nextID>>
    BY <2>5 DEF Call, CallGrammar, CallParse, CallParseBadBuffer, CallFree, globals
  <2>6. ASSUME NEW v \in Threads, Load(v)
        PROVE  UNCHANGED <<loaded, nextID>>
    BY <2>2, <2>3, <2>6
       DEF Load, LoadBuild, LoadFails, LoadLock, LoadDrain, LoadTakeId, LoadUnlock,
           WriterAnnounces, WriterEnters, globals
  <2>7. ASSUME NEW v \in Threads, Parse(v)
        PROVE  UNCHANGED <<loaded, nextID>>
    BY <2>7 DEF Parse, ParseReadLock, ParseLookup, ParseReadUnlock, ParseLock, ParseEnter,
                ParseLeave, ParseUnlock, ParseReply, globals
  <2>8. ASSUME NEW v \in Threads, Free(v)
        PROVE  UNCHANGED <<loaded, nextID>>
    BY <2>2, <2>3, <2>8 DEF Free, FreeLock, FreeDrain, FreeUnlock, WriterAnnounces, WriterEnters, globals
  <2>9. ASSUME NEW v \in Threads, Return(v)
        PROVE  UNCHANGED <<loaded, nextID>>
    BY <2>9 DEF Return, globals
  <2> QED
    BY <2>4, <2>5, <2>6, <2>7, <2>8, <2>9 DEF Next
<1> QED
  BY <1>1, Inductive, PTL DEF Spec, TableStable

----------------------------------------------------------------------------
(* Clib implements the atomic handle table of ClibSpec.                     *)

\* What the refinement mapping makes of each program counter.
LEMMA Phases ==
  /\ PhaseAt("idle") = "idle"
  /\ \A l \in {"build", "load lock", "load drain", "increment", "take id", "insert"} : PhaseAt(l) = "grammar"
  /\ \A l \in {"read lock", "lookup"} : PhaseAt(l) = "parse"
  /\ \A l \in {"free lock", "free drain", "delete"} : PhaseAt(l) = "free"
  /\ \A l \in {"load unlock", "free unlock", "returning", "read unlock", "mu lock", "enter engine", "in engine", "mu unlock",
           "make reply"} :
        PhaseAt(l) = "answered"
  BY DEF PhaseAt, Building

\* What the refinement mapping makes of a call's answer.
LEMMA Answers ==
  ASSUME NEW h, NEW e, NEW s, NEW r
  PROVE  /\ AnswerAt("load unlock", h, e, s, r) = Loaded(h)
         /\ \A l \in Decided : AnswerAt(l, h, e, s, r) =
               IF e = NoEngine THEN Failed("handle") ELSE Answer(Verdict[s])
         /\ AnswerAt("free unlock", h, e, s, r) = Silent
         /\ \A l \in Labels \ (Decided \cup {"load unlock", "free unlock"}) : AnswerAt(l, h, e, s, r) = r
  BY DEF AnswerAt, Decided

\* Thread t steps, and the locals of the other threads stay.
Steps(t, from, to) ==
    /\ Go(t, from, to)
    /\ \A u \in Threads \ {t} : /\ handle'[u] = handle[u]
                                /\ source'[u] = source[u]
                                /\ engine'[u] = engine[u]
                                /\ reply'[u]  = reply[u]

\* A step of thread t moves the mapped variables at t and nowhere else.
LEMMA BarsMove ==
  ASSUME NEW t \in Threads, NEW from, NEW to, pc \in [Threads -> Labels], Steps(t, from, to)
  PROVE  /\ PhaseBar[t] = PhaseAt(from)
         /\ ArgBar[t] = ArgAt(from, handle[t])
         /\ TextBar[t] = TextAt(from, source[t])
         /\ AnswerBar[t] = AnswerAt(from, handle[t], engine[t], source[t], reply[t])
         /\ PhaseBar' = [PhaseBar EXCEPT ![t] = PhaseAt(to)]
         /\ ArgBar' = [ArgBar EXCEPT ![t] = ArgAt(to, handle'[t])]
         /\ TextBar' = [TextBar EXCEPT ![t] = TextAt(to, source'[t])]
         /\ AnswerBar' = [AnswerBar EXCEPT ![t] =
                            AnswerAt(to, handle'[t], engine'[t], source'[t], reply'[t])]
<1>1. pc[t] = from /\ pc'[t] = to /\ \A u \in Threads \ {t} : pc'[u] = pc[u]
  BY DEF Steps, Go
<1>2. /\ PhaseBar[t] = PhaseAt(from)
      /\ PhaseBar' = [PhaseBar EXCEPT ![t] = PhaseAt(to)]
  BY <1>1 DEF PhaseBar
<1>3. /\ ArgBar[t] = ArgAt(from, handle[t])
      /\ ArgBar' = [ArgBar EXCEPT ![t] = ArgAt(to, handle'[t])]
  BY <1>1 DEF ArgBar, Steps
<1>4. /\ TextBar[t] = TextAt(from, source[t])
      /\ TextBar' = [TextBar EXCEPT ![t] = TextAt(to, source'[t])]
  BY <1>1 DEF TextBar, Steps
<1>5. /\ AnswerBar[t] = AnswerAt(from, handle[t], engine[t], source[t], reply[t])
      /\ AnswerBar' = [AnswerBar EXCEPT ![t] =
                         AnswerAt(to, handle'[t], engine'[t], source'[t], reply'[t])]
  BY <1>1 DEF AnswerBar, Steps
<1> QED
  BY <1>2, <1>3, <1>4, <1>5

\* Setting a mapped variable to the value it has changes nothing.
LEMMA BarsStay ==
  ASSUME NEW t \in Threads
  PROVE  /\ PhaseBar = [PhaseBar EXCEPT ![t] = PhaseBar[t]]
         /\ ArgBar = [ArgBar EXCEPT ![t] = ArgBar[t]]
         /\ TextBar = [TextBar EXCEPT ![t] = TextBar[t]]
         /\ AnswerBar = [AnswerBar EXCEPT ![t] = AnswerBar[t]]
  BY DEF PhaseBar, ArgBar, TextBar, AnswerBar

\* A step that leaves the mapped argument or source of its own thread alone
\* leaves all of them alone.
LEMMA ArgStays ==
  ASSUME NEW t \in Threads, NEW from, NEW to, pc \in [Threads -> Labels], Steps(t, from, to),
         ArgAt(from, handle[t]) = ArgAt(to, handle'[t])
  PROVE  ArgBar' = ArgBar
  BY BarsMove, BarsStay

\* The same of the mapped source.
LEMMA TextStays ==
  ASSUME NEW t \in Threads, NEW from, NEW to, pc \in [Threads -> Labels], Steps(t, from, to),
         TextAt(from, source[t]) = TextAt(to, source'[t])
  PROVE  TextBar' = TextBar
  BY BarsMove, BarsStay

\* The mapping of a step that changes no mapped variable.
LEMMA Stutter ==
  ASSUME NEW t \in Threads, NEW from, NEW to, pc \in [Threads -> Labels], Steps(t, from, to),
         PhaseAt(from) = PhaseAt(to),
         PhaseAt(from) \in {"parse", "free"} => handle'[t] = handle[t],
         PhaseAt(from) = "parse" => source'[t] = source[t],
         AnswerAt(from, handle[t], engine[t], source[t], reply[t])
            = AnswerAt(to, handle'[t], engine'[t], source'[t], reply'[t])
  PROVE  PhaseBar' = PhaseBar /\ ArgBar' = ArgBar /\ TextBar' = TextBar /\ AnswerBar' = AnswerBar
<1>1. /\ ArgAt(from, handle[t]) = ArgAt(to, handle'[t])
      /\ TextAt(from, source[t]) = TextAt(to, source'[t])
  BY DEF ArgAt, TextAt
<1> QED
  BY <1>1, BarsMove, BarsStay

\* While no thread enters or leaves the two steps between the increment and
\* the insertion, the mapped counter moves with nextID.
LEMMA IssuedStays ==
  ASSUME NEW t \in Threads, NEW from, NEW to, pc \in [Threads -> Labels], Go(t, from, to),
         from \in InFlight <=> to \in InFlight, nextID' = nextID
  PROVE  IssuedBar' = IssuedBar
<1>1. \A u \in Threads : pc'[u] \in InFlight <=> pc[u] \in InFlight
  BY DEF Go
<1> QED
  BY <1>1 DEF IssuedBar

\* The answers of ClibSpec are those of Clib.
LEMMA SameAnswers ==
  /\ Atomic!NoHandle = NoHandle
  /\ Atomic!NoSource = NoSource
  /\ Atomic!Silent = Silent
  /\ \A c : Atomic!Failed(c) = Failed(c)
  /\ \A h : Atomic!Loaded(h) = Loaded(h)
  /\ \A v : Atomic!Answer(v) = Answer(v)
  BY DEF Atomic!NoHandle, NoHandle, Atomic!NoSource, NoSource, Atomic!Silent, Silent,
         Atomic!Failed, Failed, Atomic!Loaded, Loaded, Atomic!Answer, Answer,
         Atomic!Accepted, Accepted

\* A step that moves neither a phase nor an answer, and leaves the table
\* alone, is a stuttering step of the atomic table.
LEMMA SilentStep ==
  ASSUME NEW t \in Threads, NEW from, NEW to,
         pc \in [Threads -> Labels], Steps(t, from, to),
         PhaseAt(from) = PhaseAt(to),
         PhaseAt(from) \in {"parse", "free"} => handle'[t] = handle[t],
         PhaseAt(from) = "parse" => source'[t] = source[t],
         AnswerAt(from, handle[t], engine[t], source[t], reply[t])
            = AnswerAt(to, handle'[t], engine'[t], source'[t], reply'[t]),
         IssuedBar' = IssuedBar, DOMAIN loaded' = DOMAIN loaded
  PROVE  UNCHANGED Atomic!specVars
<1>1. PhaseBar' = PhaseBar /\ ArgBar' = ArgBar /\ TextBar' = TextBar /\ AnswerBar' = AnswerBar
  BY Stutter
<1> QED
  BY <1>1, Zenon DEF Atomic!specVars

\* A step into "answered" makes the mapped call take effect.
LEMMA EffectStep ==
  ASSUME NEW t \in Threads, NEW from, NEW to,
         pc \in [Threads -> Labels], Steps(t, from, to),
         NEW op, PhaseAt(from) = op, PhaseAt(to) = "answered",
         NEW r, AnswerAt(to, handle'[t], engine'[t], source'[t], reply'[t]) = r
  PROVE  Atomic!Effect(t, op, r)
<1>1. ArgAt(to, handle'[t]) = NoHandle /\ TextAt(to, source'[t]) = NoSource
  BY DEF ArgAt, TextAt
<1>2. Atomic!Move(t, op, "answered")
  BY BarsMove DEF Atomic!Move
<1> QED
  BY <1>1, <1>2, BarsMove, SameAnswers DEF Atomic!Effect

\* A step into a call's phase invokes the mapped call.
LEMMA InvokeStep ==
  ASSUME NEW t \in Threads, NEW from, NEW to,
         pc \in [Threads -> Labels], Steps(t, from, to),
         NEW op, PhaseAt(from) = "idle", PhaseAt(to) = op,
         AnswerAt(from, handle[t], engine[t], source[t], reply[t])
            = AnswerAt(to, handle'[t], engine'[t], source'[t], reply'[t])
  PROVE  /\ Atomic!Move(t, "idle", op)
         /\ ArgBar'  = [ArgBar EXCEPT ![t] = ArgAt(to, handle'[t])]
         /\ TextBar' = [TextBar EXCEPT ![t] = TextAt(to, source'[t])]
         /\ AnswerBar' = AnswerBar
  BY BarsMove, BarsStay DEF Atomic!Move

-----------------------------------------------------------------------------
(* The steps that are none of the atomic table. *)
\* The steps of a call before and after the one it takes effect with change
\* nothing a caller can tell.
LEMMA SilentSteps ==
  ASSUME IInv, NEW t \in Threads
  PROVE  /\ LoadBuild(t) => UNCHANGED Atomic!specVars
         /\ LoadLock(t) => UNCHANGED Atomic!specVars
         /\ LoadDrain(t) => UNCHANGED Atomic!specVars
         /\ LoadTakeId(t) => UNCHANGED Atomic!specVars
         /\ LoadUnlock(t) => UNCHANGED Atomic!specVars
         /\ ParseReadLock(t) => UNCHANGED Atomic!specVars
         /\ ParseLock(t) => UNCHANGED Atomic!specVars
         /\ ParseEnter(t) => UNCHANGED Atomic!specVars
         /\ ParseLeave(t) => UNCHANGED Atomic!specVars
         /\ ParseUnlock(t) => UNCHANGED Atomic!specVars
         /\ ParseReply(t) => UNCHANGED Atomic!specVars
         /\ FreeLock(t) => UNCHANGED Atomic!specVars
         /\ FreeDrain(t) => UNCHANGED Atomic!specVars
         /\ FreeUnlock(t) => UNCHANGED Atomic!specVars
<1> USE DEF globals, heap, locals
<1> DEFINE Stays(from, to) ==
             /\ Steps(t, from, to) /\ nextID' = nextID /\ DOMAIN loaded' = DOMAIN loaded
<1>0. pc \in [Threads -> Labels]
  BY DEF IInv, TypeOK
<1>1. ASSUME LoadBuild(t) PROVE UNCHANGED Atomic!specVars
  <2>1. Steps(t, "build", "load lock") /\ nextID' = nextID /\ loaded' = loaded
    BY <1>1 DEF LoadBuild, Steps, Go, IInv, TypeOK
  <2>2. IssuedBar' = IssuedBar
    BY <1>0, <2>1, IssuedStays DEF Steps, InFlight
  <2>3. AnswerAt("build", handle[t], engine[t], source[t], reply[t])
          = AnswerAt("load lock", handle'[t], engine'[t], source'[t], reply'[t])
    <3>1. reply'[t] = reply[t]
      BY <1>1 DEF LoadBuild, IInv, TypeOK
    <3> QED
      BY <3>1 DEF AnswerAt, Decided
  <2>4. PhaseAt("build") \in {"parse", "free"} => handle'[t] = handle[t] /\ source'[t] = source[t]
    BY <1>1, Phases DEF LoadBuild, Go
  <2> QED
    BY <1>0, <2>1, <2>2, <2>3, <2>4, Phases, SilentStep
    DEF Labels, LoadHolds, FreeHolds, ReadHolds, MuHolds
<1>2. ASSUME LoadLock(t) PROVE UNCHANGED Atomic!specVars
  <2>1. Steps(t, "load lock", "load drain") /\ nextID' = nextID /\ loaded' = loaded
    BY <1>2 DEF LoadLock, WriterAnnounces, Steps, Go, IInv, TypeOK
  <2>2. IssuedBar' = IssuedBar
    BY <1>0, <2>1, IssuedStays DEF Steps, InFlight
  <2>3. AnswerAt("load lock", handle[t], engine[t], source[t], reply[t])
          = AnswerAt("load drain", handle'[t], engine'[t], source'[t], reply'[t])
    <3>1. reply'[t] = reply[t]
      BY <1>2 DEF LoadLock, WriterAnnounces, IInv, TypeOK
    <3> QED
      BY <3>1 DEF AnswerAt, Decided
  <2>4. PhaseAt("load lock") \in {"parse", "free"} => handle'[t] = handle[t] /\ source'[t] = source[t]
    BY <1>2, Phases DEF LoadLock, WriterAnnounces, Go
  <2> QED
    BY <1>0, <2>1, <2>2, <2>3, <2>4, Phases, SilentStep
    DEF Labels, LoadHolds, FreeHolds, ReadHolds, MuHolds
<1>3. ASSUME LoadDrain(t) PROVE UNCHANGED Atomic!specVars
  <2>1. Steps(t, "load drain", "increment") /\ nextID' = nextID /\ loaded' = loaded
    BY <1>3 DEF LoadDrain, WriterEnters, Steps, Go, IInv, TypeOK
  <2>2. IssuedBar' = IssuedBar
    BY <1>0, <2>1, IssuedStays DEF Steps, InFlight
  <2>3. AnswerAt("load drain", handle[t], engine[t], source[t], reply[t])
          = AnswerAt("increment", handle'[t], engine'[t], source'[t], reply'[t])
    <3>1. reply'[t] = reply[t]
      BY <1>3 DEF LoadDrain, WriterEnters, IInv, TypeOK
    <3> QED
      BY <3>1 DEF AnswerAt, Decided
  <2>4. PhaseAt("load drain") \in {"parse", "free"} => handle'[t] = handle[t] /\ source'[t] = source[t]
    BY <1>3, Phases DEF LoadDrain, WriterEnters, Go
  <2> QED
    BY <1>0, <2>1, <2>2, <2>3, <2>4, Phases, SilentStep
    DEF Labels, LoadHolds, FreeHolds, ReadHolds, MuHolds
<1>4. ASSUME LoadTakeId(t) PROVE UNCHANGED Atomic!specVars
  <2>1. Steps(t, "take id", "insert") /\ nextID' = nextID /\ loaded' = loaded
    BY <1>4 DEF LoadTakeId, Steps, Go, IInv, TypeOK
  <2>2. IssuedBar' = IssuedBar
    BY <1>0, <2>1, IssuedStays DEF Steps, InFlight
  <2>3. AnswerAt("take id", handle[t], engine[t], source[t], reply[t])
          = AnswerAt("insert", handle'[t], engine'[t], source'[t], reply'[t])
    <3>1. reply'[t] = reply[t]
      BY <1>4 DEF LoadTakeId, IInv, TypeOK
    <3> QED
      BY <3>1 DEF AnswerAt, Decided
  <2>4. PhaseAt("take id") \in {"parse", "free"} => handle'[t] = handle[t] /\ source'[t] = source[t]
    BY <1>4, Phases DEF LoadTakeId, Go
  <2> QED
    BY <1>0, <2>1, <2>2, <2>3, <2>4, Phases, SilentStep
    DEF Labels, LoadHolds, FreeHolds, ReadHolds, MuHolds
<1>5. ASSUME LoadUnlock(t) PROVE UNCHANGED Atomic!specVars
  <2>1. Steps(t, "load unlock", "returning") /\ nextID' = nextID /\ loaded' = loaded
    BY <1>5 DEF LoadUnlock, Finish, Steps, Go, IInv, TypeOK
  <2>2. IssuedBar' = IssuedBar
    BY <1>0, <2>1, IssuedStays DEF Steps, InFlight
  <2>3. AnswerAt("load unlock", handle[t], engine[t], source[t], reply[t])
          = AnswerAt("returning", handle'[t], engine'[t], source'[t], reply'[t])
    <3>1. reply'[t] = Loaded(handle[t])
      BY <1>5 DEF LoadUnlock, Finish, IInv, TypeOK
    <3> QED
      BY <3>1 DEF AnswerAt, Decided
  <2>4. PhaseAt("load unlock") \in {"parse", "free"} => handle'[t] = handle[t] /\ source'[t] = source[t]
    BY <1>5, Phases DEF LoadUnlock, Finish, Go
  <2> QED
    BY <1>0, <2>1, <2>2, <2>3, <2>4, Phases, SilentStep
    DEF Labels, LoadHolds, FreeHolds, ReadHolds, MuHolds
<1>6. ASSUME ParseReadLock(t) PROVE UNCHANGED Atomic!specVars
  <2>1. Steps(t, "read lock", "lookup") /\ nextID' = nextID /\ loaded' = loaded
    BY <1>6 DEF ParseReadLock, Steps, Go, IInv, TypeOK
  <2>2. IssuedBar' = IssuedBar
    BY <1>0, <2>1, IssuedStays DEF Steps, InFlight
  <2>3. AnswerAt("read lock", handle[t], engine[t], source[t], reply[t])
          = AnswerAt("lookup", handle'[t], engine'[t], source'[t], reply'[t])
    <3>1. reply'[t] = reply[t]
      BY <1>6 DEF ParseReadLock, IInv, TypeOK
    <3> QED
      BY <3>1 DEF AnswerAt, Decided
  <2>4. PhaseAt("read lock") \in {"parse", "free"} => handle'[t] = handle[t] /\ source'[t] = source[t]
    BY <1>6, Phases DEF ParseReadLock, Go
  <2> QED
    BY <1>0, <2>1, <2>2, <2>3, <2>4, Phases, SilentStep
    DEF Labels, LoadHolds, FreeHolds, ReadHolds, MuHolds
<1>7. ASSUME ParseLock(t) PROVE UNCHANGED Atomic!specVars
  <2>1. Steps(t, "mu lock", "enter engine") /\ nextID' = nextID /\ loaded' = loaded
    BY <1>7 DEF ParseLock, Steps, Go, IInv, TypeOK
  <2>2. IssuedBar' = IssuedBar
    BY <1>0, <2>1, IssuedStays DEF Steps, InFlight
  <2>3. AnswerAt("mu lock", handle[t], engine[t], source[t], reply[t])
          = AnswerAt("enter engine", handle'[t], engine'[t], source'[t], reply'[t])
    <3>1. engine'[t] = engine[t] /\ source'[t] = source[t]
      BY <1>7 DEF ParseLock, IInv, TypeOK
    <3> QED
      BY <3>1 DEF AnswerAt, Decided
  <2>4. PhaseAt("mu lock") \in {"parse", "free"} => handle'[t] = handle[t] /\ source'[t] = source[t]
    BY <1>7, Phases DEF ParseLock, Go
  <2> QED
    BY <1>0, <2>1, <2>2, <2>3, <2>4, Phases, SilentStep
    DEF Labels, LoadHolds, FreeHolds, ReadHolds, MuHolds
<1>8. ASSUME ParseEnter(t) PROVE UNCHANGED Atomic!specVars
  <2>1. Steps(t, "enter engine", "in engine") /\ nextID' = nextID /\ loaded' = loaded
    BY <1>8 DEF ParseEnter, Steps, Go, IInv, TypeOK
  <2>2. IssuedBar' = IssuedBar
    BY <1>0, <2>1, IssuedStays DEF Steps, InFlight
  <2>3. AnswerAt("enter engine", handle[t], engine[t], source[t], reply[t])
          = AnswerAt("in engine", handle'[t], engine'[t], source'[t], reply'[t])
    <3>1. engine'[t] = engine[t] /\ source'[t] = source[t]
      BY <1>8 DEF ParseEnter, IInv, TypeOK
    <3> QED
      BY <3>1 DEF AnswerAt, Decided
  <2>4. PhaseAt("enter engine") \in {"parse", "free"} => handle'[t] = handle[t] /\ source'[t] = source[t]
    BY <1>8, Phases DEF ParseEnter, Go
  <2> QED
    BY <1>0, <2>1, <2>2, <2>3, <2>4, Phases, SilentStep
    DEF Labels, LoadHolds, FreeHolds, ReadHolds, MuHolds
<1>9. ASSUME ParseLeave(t) PROVE UNCHANGED Atomic!specVars
  <2>1. Steps(t, "in engine", "mu unlock") /\ nextID' = nextID /\ loaded' = loaded
    BY <1>9 DEF ParseLeave, Steps, Go, IInv, TypeOK
  <2>2. IssuedBar' = IssuedBar
    BY <1>0, <2>1, IssuedStays DEF Steps, InFlight
  <2>3. AnswerAt("in engine", handle[t], engine[t], source[t], reply[t])
          = AnswerAt("mu unlock", handle'[t], engine'[t], source'[t], reply'[t])
    <3>1. engine'[t] = engine[t] /\ source'[t] = source[t]
      BY <1>9 DEF ParseLeave
    <3> QED
      BY <3>1 DEF AnswerAt, Decided
  <2>4. PhaseAt("in engine") \in {"parse", "free"} => handle'[t] = handle[t] /\ source'[t] = source[t]
    BY <1>9, Phases DEF ParseLeave, Go
  <2> QED
    BY <1>0, <2>1, <2>2, <2>3, <2>4, Phases, SilentStep
    DEF Labels, LoadHolds, FreeHolds, ReadHolds, MuHolds
<1>10. ASSUME ParseUnlock(t) PROVE UNCHANGED Atomic!specVars
  <2>1. Steps(t, "mu unlock", "make reply") /\ nextID' = nextID /\ loaded' = loaded
    BY <1>10 DEF ParseUnlock, Steps, Go, IInv, TypeOK
  <2>2. IssuedBar' = IssuedBar
    BY <1>0, <2>1, IssuedStays DEF Steps, InFlight
  <2>3. AnswerAt("mu unlock", handle[t], engine[t], source[t], reply[t])
          = AnswerAt("make reply", handle'[t], engine'[t], source'[t], reply'[t])
    <3>1. engine'[t] = engine[t] /\ source'[t] = source[t]
      BY <1>10 DEF ParseUnlock
    <3> QED
      BY <3>1 DEF AnswerAt, Decided
  <2>4. PhaseAt("mu unlock") \in {"parse", "free"} => handle'[t] = handle[t] /\ source'[t] = source[t]
    BY <1>10, Phases DEF ParseUnlock, Go
  <2> QED
    BY <1>0, <2>1, <2>2, <2>3, <2>4, Phases, SilentStep
    DEF Labels, LoadHolds, FreeHolds, ReadHolds, MuHolds
<1>14. ASSUME ParseReply(t) PROVE UNCHANGED Atomic!specVars
  <2>1. Steps(t, "make reply", "returning") /\ nextID' = nextID /\ loaded' = loaded
    BY <1>14 DEF ParseReply, Finish, Steps, Go, IInv, TypeOK
  <2>2. IssuedBar' = IssuedBar
    BY <1>0, <2>1, IssuedStays DEF Steps, InFlight
  <2>3. AnswerAt("make reply", handle[t], engine[t], source[t], reply[t])
          = AnswerAt("returning", handle'[t], engine'[t], source'[t], reply'[t])
    <3>1. engine[t] # NoEngine /\ reply[t] = Brought(Verdict[source[t]])
      BY <1>14 DEF ParseReply, Finish, Go, IInv, MutexHeld, LocalsOK
    <3>2. reply'[t] = Answer(reply[t].verdict)
      BY <1>14 DEF ParseReply, Finish, IInv, TypeOK
    <3>3. reply[t].verdict = Verdict[source[t]]
      BY <3>1, BroughtBack, Zenon
    <3> QED
      BY <3>1, <3>2, <3>3 DEF AnswerAt, Decided
  <2>4. PhaseAt("make reply") \in {"parse", "free"} => handle'[t] = handle[t] /\ source'[t] = source[t]
    BY Phases
  <2> QED
    BY <1>0, <2>1, <2>2, <2>3, <2>4, Phases, SilentStep
    DEF Labels, LoadHolds, FreeHolds, ReadHolds, MuHolds
<1>11. ASSUME FreeLock(t) PROVE UNCHANGED Atomic!specVars
  <2>1. Steps(t, "free lock", "free drain") /\ nextID' = nextID /\ loaded' = loaded
    BY <1>11 DEF FreeLock, WriterAnnounces, Steps, Go, IInv, TypeOK
  <2>2. IssuedBar' = IssuedBar
    BY <1>0, <2>1, IssuedStays DEF Steps, InFlight
  <2>3. AnswerAt("free lock", handle[t], engine[t], source[t], reply[t])
          = AnswerAt("free drain", handle'[t], engine'[t], source'[t], reply'[t])
    <3>1. reply'[t] = reply[t]
      BY <1>11 DEF FreeLock, WriterAnnounces, IInv, TypeOK
    <3> QED
      BY <3>1 DEF AnswerAt, Decided
  <2>4. PhaseAt("free lock") \in {"parse", "free"} => handle'[t] = handle[t] /\ source'[t] = source[t]
    BY <1>11, Phases DEF FreeLock, WriterAnnounces, Go
  <2> QED
    BY <1>0, <2>1, <2>2, <2>3, <2>4, Phases, SilentStep
    DEF Labels, LoadHolds, FreeHolds, ReadHolds, MuHolds
<1>12. ASSUME FreeDrain(t) PROVE UNCHANGED Atomic!specVars
  <2>1. Steps(t, "free drain", "delete") /\ nextID' = nextID /\ loaded' = loaded
    BY <1>12 DEF FreeDrain, WriterEnters, Steps, Go, IInv, TypeOK
  <2>2. IssuedBar' = IssuedBar
    BY <1>0, <2>1, IssuedStays DEF Steps, InFlight
  <2>3. AnswerAt("free drain", handle[t], engine[t], source[t], reply[t])
          = AnswerAt("delete", handle'[t], engine'[t], source'[t], reply'[t])
    <3>1. reply'[t] = reply[t]
      BY <1>12 DEF FreeDrain, WriterEnters, IInv, TypeOK
    <3> QED
      BY <3>1 DEF AnswerAt, Decided
  <2>4. PhaseAt("free drain") \in {"parse", "free"} => handle'[t] = handle[t] /\ source'[t] = source[t]
    BY <1>12, Phases DEF FreeDrain, WriterEnters, Go
  <2> QED
    BY <1>0, <2>1, <2>2, <2>3, <2>4, Phases, SilentStep
    DEF Labels, LoadHolds, FreeHolds, ReadHolds, MuHolds
<1>13. ASSUME FreeUnlock(t) PROVE UNCHANGED Atomic!specVars
  <2>1. Steps(t, "free unlock", "returning") /\ nextID' = nextID /\ loaded' = loaded
    BY <1>13 DEF FreeUnlock, Finish, Steps, Go, IInv, TypeOK
  <2>2. IssuedBar' = IssuedBar
    BY <1>0, <2>1, IssuedStays DEF Steps, InFlight
  <2>3. AnswerAt("free unlock", handle[t], engine[t], source[t], reply[t])
          = AnswerAt("returning", handle'[t], engine'[t], source'[t], reply'[t])
    <3>1. reply'[t] = Silent
      BY <1>13 DEF FreeUnlock, Finish, IInv, TypeOK
    <3> QED
      BY <3>1 DEF AnswerAt, Decided
  <2>4. PhaseAt("free unlock") \in {"parse", "free"} => handle'[t] = handle[t] /\ source'[t] = source[t]
    BY <1>13, Phases DEF FreeUnlock, Finish, Go
  <2> QED
    BY <1>0, <2>1, <2>2, <2>3, <2>4, Phases, SilentStep
    DEF Labels, LoadHolds, FreeHolds, ReadHolds, MuHolds
<1> QED
  BY <1>1, <1>2, <1>3, <1>4, <1>5, <1>6, <1>7, <1>8, <1>9, <1>10, <1>11, <1>12, <1>13, <1>14

-----------------------------------------------------------------------------
(* The steps at which calls begin, take effect and return. *)
\* The increment of nextID is not yet a handle issued: the load that did it
\* is alone with the counter until it has inserted (the lock around both).
LEMMA IncrementStep ==
  ASSUME IInv, NEW t \in Threads, LoadIncrement(t)
  PROVE  UNCHANGED Atomic!specVars
<1>0. pc \in [Threads -> Labels] /\ nextID \in Nat
  BY DEF IInv, TypeOK
<1>1. Steps(t, "increment", "take id") /\ nextID' = nextID + 1 /\ loaded' = loaded
  BY DEF LoadIncrement, Steps, Go, locals
<1>2. \A u \in Threads : pc[u] \notin InFlight
  <2>1. \A u \in Threads : pc[u] \in InFlight => regWriter = u
    BY DEF InFlight, IInv, RegistryHeld, Writing, LoadHolds
  <2>2. regWriter = t
    BY <1>1 DEF Steps, Go, IInv, RegistryHeld, Writing, LoadHolds
  <2> QED
    BY <1>1, <2>1, <2>2 DEF Steps, Go, InFlight
<1>3. pc'[t] \in InFlight
  BY <1>0, <1>1 DEF Steps, Go, InFlight
<1>4. IssuedBar = nextID /\ IssuedBar' = nextID' - 1
  BY <1>2, <1>3 DEF IssuedBar
<1>5. IssuedBar' = IssuedBar
  <2>1. \A n \in Nat : (n + 1) - 1 = n
    OBVIOUS
  <2> QED
    BY <1>0, <1>1, <1>4, <2>1, Zenon
<1>6. AnswerAt("increment", handle[t], engine[t], source[t], reply[t])
        = AnswerAt("take id", handle'[t], engine'[t], source'[t], reply'[t])
  <2>1. reply'[t] = reply[t]
    BY DEF LoadIncrement, locals
  <2> QED
    BY <2>1 DEF AnswerAt, Decided
<1> QED
  BY <1>0, <1>1, <1>5, <1>6, Phases, SilentStep DEF Labels, LoadHolds

\* After the lookup both outcomes of the call are decided: releasing reg
\* shows a caller nothing.
LEMMA ReadUnlockStep ==
  ASSUME IInv, NEW t \in Threads, ParseReadUnlock(t)
  PROVE  UNCHANGED Atomic!specVars
<1>0. pc \in [Threads -> Labels]
  BY DEF IInv, TypeOK
<1>1. PICK to \in {"returning", "mu lock"} :
        /\ Steps(t, "read unlock", to)
        /\ to = "returning" => engine[t] = NoEngine /\ reply'[t] = Failed("handle")
        /\ to = "mu lock" => engine[t] # NoEngine /\ UNCHANGED locals
  <2>1. CASE engine[t] = NoEngine
    <3>1. Finish(t, "read unlock", Failed("handle"))
      BY <2>1 DEF ParseReadUnlock
    <3>2. Steps(t, "read unlock", "returning")
      BY <3>1 DEF Finish, Steps, IInv, TypeOK
    <3>3. reply'[t] = Failed("handle")
      BY <3>1 DEF Finish, IInv, TypeOK
    <3> QED
      BY <2>1, <3>2, <3>3
  <2>2. CASE engine[t] # NoEngine
    <3>1. Go(t, "read unlock", "mu lock") /\ UNCHANGED locals
      BY <2>2 DEF ParseReadUnlock
    <3>2. Steps(t, "read unlock", "mu lock")
      BY <3>1 DEF Steps, locals
    <3> QED
      BY <2>2, <3>1, <3>2
  <2> QED
    BY <2>1, <2>2
<1>2. nextID' = nextID /\ loaded' = loaded
  BY DEF ParseReadUnlock
<1>3. IssuedBar' = IssuedBar
  BY <1>0, <1>1, <1>2, IssuedStays DEF Steps, InFlight
<1>4. AnswerAt("read unlock", handle[t], engine[t], source[t], reply[t])
        = AnswerAt(to, handle'[t], engine'[t], source'[t], reply'[t])
  BY <1>1 DEF AnswerAt, Decided, locals
<1>5. to \in Labels /\ PhaseAt(to) = PhaseAt("read unlock") /\ PhaseAt(to) = "answered"
  BY <1>1, Phases DEF Labels, MuHolds
<1> QED
  BY <1>0, <1>1, <1>2, <1>3, <1>4, <1>5, SilentStep DEF Labels, ReadHolds

\* A refused call has its answer at once and touches nothing.
LEMMA RefuseStep ==
  ASSUME IInv, NEW t \in Threads, Finish(t, "idle", Failed("usage")), UNCHANGED <<globals, heap>>
  PROVE  Atomic!Refuse(t)
<1>0. pc \in [Threads -> Labels]
  BY DEF IInv, TypeOK
<1>1. Steps(t, "idle", "returning") /\ nextID' = nextID /\ loaded' = loaded
  BY DEF Finish, Steps, IInv, TypeOK, globals
<1>2. IssuedBar' = IssuedBar
  BY <1>0, <1>1, IssuedStays DEF Steps, InFlight
<1>3. AnswerAt("returning", handle'[t], engine'[t], source'[t], reply'[t]) = Failed("usage")
  <2>1. reply'[t] = Failed("usage")
    BY DEF Finish, IInv, TypeOK
  <2> QED
    BY <2>1 DEF AnswerAt, Decided
<1>4. Atomic!Effect(t, "idle", Failed("usage"))
  BY <1>0, <1>1, <1>3, Phases, EffectStep DEF Labels, LoadHolds, FreeHolds, ReadHolds, MuHolds
<1> QED
  BY <1>1, <1>2, <1>4, SameAnswers DEF Atomic!Refuse

\* A call with usable options is under way; any other is refused.
LEMMA CallGrammarStep ==
  ASSUME IInv, NEW t \in Threads, NEW opts \in Options, CallGrammar(t, opts)
  PROVE  Atomic!InvokeGrammar(t) \/ Atomic!Refuse(t)
<1>0. pc \in [Threads -> Labels]
  BY DEF IInv, TypeOK
<1>1. CASE OptionsUsable(opts)
  <2>1. Steps(t, "idle", "build") /\ nextID' = nextID /\ loaded' = loaded /\ UNCHANGED locals
    BY <1>1 DEF CallGrammar, Steps, Go, globals, locals
  <2>2. IssuedBar' = IssuedBar
    BY <1>0, <2>1, IssuedStays DEF Steps, InFlight
  <2>3. AnswerAt("idle", handle[t], engine[t], source[t], reply[t])
          = AnswerAt("build", handle'[t], engine'[t], source'[t], reply'[t])
    BY <2>1 DEF AnswerAt, Decided, locals
  <2>4. /\ Atomic!Move(t, "idle", "grammar")
        /\ ArgBar'  = [ArgBar EXCEPT ![t] = ArgAt("build", handle'[t])]
        /\ TextBar' = [TextBar EXCEPT ![t] = TextAt("build", source'[t])]
        /\ AnswerBar' = AnswerBar
    <3>1. PhaseAt("idle") = "idle" /\ PhaseAt("build") = "grammar"
      BY Phases
    <3> QED
      BY <1>0, <2>1, <2>3, <3>1, InvokeStep, Zenon
  <2>5. ArgBar' = ArgBar /\ TextBar' = TextBar
    <3>1. /\ ArgAt("build", handle'[t]) = ArgAt("idle", handle[t])
          /\ TextAt("build", source'[t]) = TextAt("idle", source[t])
      BY Phases DEF ArgAt, TextAt
    <3> QED
      BY <1>0, <2>1, <3>1, ArgStays, TextStays
  <2> QED
    BY <2>1, <2>2, <2>4, <2>5 DEF Atomic!InvokeGrammar
<1>2. CASE ~OptionsUsable(opts)
  <2>1. Finish(t, "idle", Failed("usage")) /\ UNCHANGED <<globals, heap>>
    BY <1>2 DEF CallGrammar
  <2> QED
    BY <2>1, RefuseStep
<1> QED
  BY <1>1, <1>2

\* A parse is under way with the arguments it was called with.
LEMMA CallParseStep ==
  ASSUME IInv, NEW t \in Threads, NEW h \in CallerHandles, NEW s \in Sources, CallParse(t, h, s)
  PROVE  Atomic!InvokeParse(t, h, s)
<1>0. pc \in [Threads -> Labels]
  BY DEF IInv, TypeOK
<1>1. Steps(t, "idle", "read lock") /\ nextID' = nextID /\ loaded' = loaded
  BY DEF CallParse, Steps, globals, IInv, TypeOK
<1>2. IssuedBar' = IssuedBar
  BY <1>0, <1>1, IssuedStays DEF Steps, InFlight
<1>3. handle'[t] = h /\ source'[t] = s /\ reply'[t] = reply[t]
  BY DEF CallParse, IInv, TypeOK
<1>4. AnswerAt("idle", handle[t], engine[t], source[t], reply[t])
        = AnswerAt("read lock", handle'[t], engine'[t], source'[t], reply'[t])
  BY <1>3 DEF AnswerAt, Decided
<1>5. /\ Atomic!Move(t, "idle", "parse")
      /\ ArgBar'  = [ArgBar EXCEPT ![t] = ArgAt("read lock", handle'[t])]
      /\ TextBar' = [TextBar EXCEPT ![t] = TextAt("read lock", source'[t])]
      /\ AnswerBar' = AnswerBar
  <2>1. PhaseAt("idle") = "idle" /\ PhaseAt("read lock") = "parse"
    BY Phases
  <2> QED
    BY <1>0, <1>1, <1>4, <2>1, InvokeStep, Zenon
<1>6. ArgAt("read lock", handle'[t]) = h /\ TextAt("read lock", source'[t]) = s
  BY <1>3, Phases DEF ArgAt, TextAt
<1> QED
  BY <1>1, <1>2, <1>5, <1>6 DEF Atomic!InvokeParse

\* A free is under way with the arguments it was called with.
LEMMA CallFreeStep ==
  ASSUME IInv, NEW t \in Threads, NEW h \in CallerHandles, CallFree(t, h)
  PROVE  Atomic!InvokeFree(t, h)
<1>0. pc \in [Threads -> Labels]
  BY DEF IInv, TypeOK
<1>1. Steps(t, "idle", "free lock") /\ nextID' = nextID /\ loaded' = loaded
  BY DEF CallFree, Steps, globals, IInv, TypeOK
<1>2. IssuedBar' = IssuedBar
  BY <1>0, <1>1, IssuedStays DEF Steps, InFlight
<1>3. handle'[t] = h /\ reply'[t] = reply[t]
  BY DEF CallFree, IInv, TypeOK
<1>4. AnswerAt("idle", handle[t], engine[t], source[t], reply[t])
        = AnswerAt("free lock", handle'[t], engine'[t], source'[t], reply'[t])
  BY <1>3 DEF AnswerAt, Decided
<1>5. /\ Atomic!Move(t, "idle", "free")
      /\ ArgBar'  = [ArgBar EXCEPT ![t] = ArgAt("free lock", handle'[t])]
      /\ TextBar' = [TextBar EXCEPT ![t] = TextAt("free lock", source'[t])]
      /\ AnswerBar' = AnswerBar
  <2>1. PhaseAt("idle") = "idle" /\ PhaseAt("free lock") = "free"
    BY Phases
  <2> QED
    BY <1>0, <1>1, <1>4, <2>1, InvokeStep, Zenon
<1>6. ArgAt("free lock", handle'[t]) = h
  BY <1>3, Phases DEF ArgAt
<1>7. TextBar' = TextBar
  <2>1. TextAt("free lock", source'[t]) = TextAt("idle", source[t])
    BY Phases DEF TextAt
  <2> QED
    BY <1>0, <1>1, <2>1, TextStays
<1> QED
  BY <1>1, <1>2, <1>5, <1>6, <1>7 DEF Atomic!InvokeFree

\* A load that fails takes effect as a failure.
LEMMA LoadFailsStep ==
  ASSUME IInv, NEW t \in Threads, LoadFails(t)
  PROVE  Atomic!GrammarFails(t)
<1>0. pc \in [Threads -> Labels]
  BY DEF IInv, TypeOK
<1>1. Steps(t, "build", "returning") /\ nextID' = nextID /\ loaded' = loaded
  BY DEF LoadFails, Finish, Steps, IInv, TypeOK, globals
<1>2. IssuedBar' = IssuedBar
  BY <1>0, <1>1, IssuedStays DEF Steps, InFlight
<1>3. AnswerAt("returning", handle'[t], engine'[t], source'[t], reply'[t]) = Failed("grammar")
  <2>1. reply'[t] = Failed("grammar")
    BY DEF LoadFails, Finish, IInv, TypeOK
  <2> QED
    BY <2>1 DEF AnswerAt, Decided
<1>4. Atomic!Effect(t, "grammar", Failed("grammar"))
  BY <1>0, <1>1, <1>3, Phases, EffectStep DEF Labels, LoadHolds, FreeHolds, ReadHolds, MuHolds
<1> QED
  BY <1>1, <1>2, <1>4, SameAnswers DEF Atomic!GrammarFails

\* A load takes effect when its engine enters the table.
LEMMA LoadInsertStep ==
  ASSUME IInv, NEW t \in Threads, LoadInsert(t)
  PROVE  Atomic!Grammar(t)
<1>0. pc \in [Threads -> Labels]
  BY DEF IInv, TypeOK
<1>1. Steps(t, "insert", "load unlock") /\ nextID' = nextID
  BY DEF LoadInsert, Steps, locals
<1>2. handle[t] = nextID /\ handle'[t] = nextID /\ nextID \in Nat
  <2>1. pc[t] = "insert" /\ handle' = handle
    BY DEF LoadInsert, Go, locals
  <2> QED
    BY <2>1 DEF IInv, IdAhead, TypeOK
<1>3. IssuedBar = nextID - 1 /\ IssuedBar' = nextID
  <2>1. pc[t] \in InFlight /\ regWriter = t
    BY <1>1 DEF Steps, Go, InFlight, IInv, RegistryHeld, Writing, LoadHolds
  <2>2. \A u \in Threads : pc[u] \in InFlight => u = t
    BY <2>1 DEF InFlight, IInv, RegistryHeld, Writing, LoadHolds
  <2>3. \A u \in Threads : pc'[u] \notin InFlight
    BY <1>0, <1>1, <2>2 DEF Steps, Go, InFlight
  <2> QED
    BY <1>1, <2>1, <2>3 DEF IssuedBar
<1>4. IssuedBar' = IssuedBar + 1 /\ IssuedBar + 1 = nextID
  BY <1>2, <1>3
<1>5. DOMAIN loaded' = DOMAIN loaded \cup {nextID}
  BY <1>2 DEF LoadInsert
<1>6. AnswerAt("load unlock", handle'[t], engine'[t], source'[t], reply'[t]) = Loaded(nextID)
  BY <1>2 DEF AnswerAt, Decided
<1>7. Atomic!Effect(t, "grammar", Loaded(nextID))
  BY <1>0, <1>1, <1>6, Phases, EffectStep DEF Labels, LoadHolds, FreeHolds, ReadHolds, MuHolds
<1> QED
  BY <1>4, <1>5, <1>7, SameAnswers DEF Atomic!Grammar

\* A parse takes effect at its lookup: what it will answer is settled then.
LEMMA LookupStep ==
  ASSUME IInv, NEW t \in Threads, ParseLookup(t)
  PROVE  Atomic!Parse(t)
<1>0. pc \in [Threads -> Labels]
  BY DEF IInv, TypeOK
<1>1. Steps(t, "lookup", "read unlock") /\ nextID' = nextID /\ loaded' = loaded
  BY DEF ParseLookup, Steps, IInv, TypeOK, globals
<1>2. IssuedBar' = IssuedBar
  BY <1>0, <1>1, IssuedStays DEF Steps, InFlight
<1>3. /\ engine'[t] = Lookup(handle[t])
      /\ source'[t] = source[t]
  BY DEF ParseLookup, IInv, TypeOK
<1>4. Lookup(handle[t]) = NoEngine <=> handle[t] \notin DOMAIN loaded
  BY ClibAssumption DEF Lookup, IInv, TypeOK
<1>5. ArgBar[t] = handle[t] /\ TextBar[t] = source[t]
  <2>1. pc[t] = "lookup"
    BY <1>1 DEF Steps, Go
  <2> QED
    BY <2>1, Phases DEF ArgBar, TextBar, ArgAt, TextAt
<1>6. AnswerAt("read unlock", handle'[t], engine'[t], source'[t], reply'[t])
        = IF ArgBar[t] \in DOMAIN loaded THEN Answer(Verdict[TextBar[t]]) ELSE Failed("handle")
  BY <1>3, <1>4, <1>5 DEF AnswerAt, Decided
<1>7. Atomic!Effect(t, "parse",
        IF ArgBar[t] \in DOMAIN loaded THEN Answer(Verdict[TextBar[t]]) ELSE Failed("handle"))
  BY <1>0, <1>1, <1>6, Phases, EffectStep DEF Labels, LoadHolds, FreeHolds, ReadHolds, MuHolds
<1> QED
  BY <1>1, <1>2, <1>7, SameAnswers DEF Atomic!Parse

\* A free takes effect when the handle leaves the table.
LEMMA FreeDeleteStep ==
  ASSUME IInv, NEW t \in Threads, FreeDelete(t)
  PROVE  Atomic!Free(t)
<1>0. pc \in [Threads -> Labels]
  BY DEF IInv, TypeOK
<1>1. Steps(t, "delete", "free unlock") /\ nextID' = nextID
  BY DEF FreeDelete, Steps, locals
<1>2. IssuedBar' = IssuedBar
  BY <1>0, <1>1, IssuedStays DEF Steps, InFlight
<1>3. ArgBar[t] = handle[t]
  <2>1. pc[t] = "delete"
    BY <1>1 DEF Steps, Go
  <2> QED
    BY <2>1, Phases DEF ArgBar, ArgAt
<1>4. DOMAIN loaded' = DOMAIN loaded \ {ArgBar[t]}
  BY <1>3 DEF FreeDelete
<1>5. AnswerAt("free unlock", handle'[t], engine'[t], source'[t], reply'[t]) = Silent
  BY DEF AnswerAt, Decided
<1>6. Atomic!Effect(t, "free", Silent)
  BY <1>0, <1>1, <1>5, Phases, EffectStep DEF Labels, LoadHolds, FreeHolds, ReadHolds, MuHolds
<1> QED
  BY <1>2, <1>4, <1>6, SameAnswers DEF Atomic!Free

\* A call comes back with its answer.
LEMMA ReturnStep ==
  ASSUME IInv, NEW t \in Threads, Return(t)
  PROVE  Atomic!Return(t)
<1>0. pc \in [Threads -> Labels]
  BY DEF IInv, TypeOK
<1>1. Steps(t, "returning", "idle") /\ nextID' = nextID /\ loaded' = loaded
  BY DEF Return, Steps, IInv, TypeOK, globals
<1>2. IssuedBar' = IssuedBar
  BY <1>0, <1>1, IssuedStays DEF Steps, InFlight
<1>3. AnswerAt("idle", handle'[t], engine'[t], source'[t], reply'[t]) = Silent
  <2>1. reply'[t] = Silent
    BY DEF Return, IInv, TypeOK
  <2> QED
    BY <2>1 DEF AnswerAt, Decided
<1>4. Atomic!Move(t, "answered", "idle") /\ AnswerBar' = [AnswerBar EXCEPT ![t] = Silent]
  <2>1. AnswerBar' = [AnswerBar EXCEPT ![t] = Silent]
    BY <1>0, <1>1, <1>3, BarsMove
  <2>2. /\ PhaseBar[t] = PhaseAt("returning")
        /\ PhaseBar' = [PhaseBar EXCEPT ![t] = PhaseAt("idle")]
    BY <1>0, <1>1, BarsMove
  <2> QED
    BY <2>1, <2>2, Phases DEF Atomic!Move
<1>5. ArgBar' = ArgBar /\ TextBar' = TextBar
  <2>1. /\ ArgAt("idle", handle'[t]) = ArgAt("returning", handle[t])
        /\ TextAt("idle", source'[t]) = TextAt("returning", source[t])
    BY Phases DEF ArgAt, TextAt
  <2> QED
    BY <1>0, <1>1, <2>1, ArgStays, TextStays
<1> QED
  BY <1>1, <1>2, <1>4, <1>5, SameAnswers DEF Atomic!Return

\* Every step of the locked registry is a step of the atomic table, or none.
LEMMA RefineStep == IInv /\ [Next]_vars => [Atomic!SpecNext]_(Atomic!specVars)
<1> SUFFICES ASSUME IInv, [Next]_vars PROVE Atomic!SpecNext \/ UNCHANGED Atomic!specVars
  BY Zenon
<1>1. CASE UNCHANGED vars
  BY <1>1 DEF vars, Atomic!specVars, IssuedBar, PhaseBar, ArgBar, TextBar, AnswerBar
<1>2. ASSUME NEW t \in Threads, Call(t) PROVE Atomic!SpecNext
  <2>1. ASSUME NEW opts \in Options, CallGrammar(t, opts) PROVE Atomic!SpecNext
    BY <2>1, CallGrammarStep DEF Atomic!SpecNext
  <2>2. ASSUME NEW h \in CallerHandles, NEW s \in Sources, CallParse(t, h, s) PROVE Atomic!SpecNext
    BY <2>2, CallParseStep DEF Atomic!SpecNext
  <2>3. ASSUME CallParseBadBuffer(t) PROVE Atomic!SpecNext
    BY <2>3, RefuseStep DEF CallParseBadBuffer, Atomic!SpecNext
  <2>4. ASSUME NEW h \in CallerHandles, CallFree(t, h) PROVE Atomic!SpecNext
    BY <2>4, CallFreeStep DEF Atomic!SpecNext
  <2> QED
    BY <1>2, <2>1, <2>2, <2>3, <2>4 DEF Call
<1>3. ASSUME NEW t \in Threads, Load(t) PROVE Atomic!SpecNext \/ UNCHANGED Atomic!specVars
  BY <1>3, SilentSteps, IncrementStep, LoadFailsStep, LoadInsertStep DEF Load, Atomic!SpecNext
<1>4. ASSUME NEW t \in Threads, Parse(t) PROVE Atomic!SpecNext \/ UNCHANGED Atomic!specVars
  BY <1>4, SilentSteps, ReadUnlockStep, LookupStep DEF Parse, Atomic!SpecNext
<1>5. ASSUME NEW t \in Threads, Free(t) PROVE Atomic!SpecNext \/ UNCHANGED Atomic!specVars
  BY <1>5, SilentSteps, FreeDeleteStep DEF Free, Atomic!SpecNext
<1>6. ASSUME NEW t \in Threads, Return(t) PROVE Atomic!SpecNext
  BY <1>6, ReturnStep DEF Atomic!SpecNext
<1> QED
  BY <1>1, <1>2, <1>3, <1>4, <1>5, <1>6 DEF Next

\* The empty registry is the empty table.
LEMMA RefineInit == Init => Atomic!SpecInit
<1> SUFFICES ASSUME Init PROVE Atomic!SpecInit
  OBVIOUS
<1>1. PhaseBar = [t \in Threads |-> "idle"]
  BY Phases DEF Init, PhaseBar
<1>2. IssuedBar = 0 /\ DOMAIN loaded = {}
  BY DEF Init, IssuedBar, InFlight
<1>3. ArgBar = [t \in Threads |-> NoHandle] /\ TextBar = [t \in Threads |-> NoSource]
  BY Phases DEF Init, ArgBar, TextBar, ArgAt, TextAt
<1>4. AnswerBar = [t \in Threads |-> Silent]
  BY DEF Init, AnswerBar, AnswerAt, Decided
<1> QED
  BY <1>1, <1>2, <1>3, <1>4, SameAnswers DEF Atomic!SpecInit

\* loadGrammar, parseWith and freeGrammar, with their locks, implement the
\* atomic handle table: for any number of threads, engines and inputs every
\* call takes effect at one instant between its invocation and its return.
THEOREM Refinement == Spec => Linearizable
<1>1. Init => Atomic!SpecInit
  BY RefineInit
<1>2. IInv /\ [Next]_vars => [Atomic!SpecNext]_(Atomic!specVars)
  BY RefineStep
<1> QED
  BY <1>1, <1>2, Inductive, PTL DEF Spec, Linearizable, Atomic!AtomicTable
=============================================================================
