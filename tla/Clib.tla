-------------------------------- MODULE Clib --------------------------------
(***************************************************************************)
(* The handle registry of the C shared library, go/clib/core.go with its   *)
(* shim tabnas_c.go: loadGrammar, parseWith and freeGrammar called from    *)
(* any number of threads at once, with the read-write lock `reg` over the  *)
(* handle table and one mutex per engine.                                  *)
(*                                                                         *)
(* A call is a walk through program counters: one action per step another  *)
(* thread can observe.  Each thread keeps the locals of its call: the      *)
(* handle (the argument of a parse or a free, `id` of a load), the source  *)
(* and the engine it built or looked up.                                   *)
(***************************************************************************)
EXTENDS Integers, FiniteSets, ClibAnswers

CONSTANTS Threads,        \* the caller's threads
          Engines,        \* the instances there is room to build (bounds loads)
          CallerHandles   \* the handles callers pass, loaded or not

NoThread == "no thread"
NoEngine == "no engine"

ASSUME ClibAssumption ==
    /\ CallerHandles \subseteq Int
    /\ NoThread \notin Threads
    /\ NoEngine \notin Engines

VARIABLES
    \* package globals
    nextID,      \* the last handle issued
    loaded,      \* handle -> engine, for the handles loaded and not freed
    regWriter,   \* who holds reg for writing, or has announced it will
    regReaders,  \* who holds reg for reading
    \* the instances
    built,       \* the engines built so far
    mu,          \* engine -> who holds its mutex
    torn,        \* threads whose engine another thread drove during their parse
    \* each thread's call
    pc, handle, source, engine, reply

globals == <<nextID, loaded, regWriter, regReaders>>
heap    == <<built, mu, torn>>
locals  == <<handle, source, engine, reply>>
vars    == <<nextID, loaded, regWriter, regReaders, built, mu, torn,
             pc, handle, source, engine, reply>>

\* Where a thread holds reg for writing, and where it has a handle of its
\* own that is not in the table yet.
LoadHolds == {"increment", "take id", "insert", "load unlock"}
FreeHolds == {"delete", "free unlock"}
ReadHolds == {"lookup", "read unlock"}
MuHolds   == {"enter engine", "in engine", "mu unlock"}

Labels == {"idle", "returning",
           "build", "load lock", "load drain", "free lock", "free drain",
           "read lock", "mu lock", "make reply"}
          \cup LoadHolds \cup FreeHolds \cup ReadHolds \cup MuHolds

Init ==
    /\ nextID     = 0
    /\ loaded     = <<>>
    /\ regWriter  = NoThread
    /\ regReaders = {}
    /\ built      = {}
    /\ mu         = [e \in Engines |-> NoThread]
    /\ torn       = {}
    /\ pc         = [t \in Threads |-> "idle"]
    /\ handle     = [t \in Threads |-> NoHandle]
    /\ source     = [t \in Threads |-> NoSource]
    /\ engine     = [t \in Threads |-> NoEngine]
    /\ reply      = [t \in Threads |-> Silent]

\* What safeParse brought back, which a call has in the place of its reply
\* until it makes one of it.
Brought(verdict) == [verdict |-> verdict]

Go(t, from, to) ==
    /\ pc[t] = from
    /\ pc' = [pc EXCEPT ![t] = to]

\* The call has its reply: its locals go out of scope.
Finish(t, from, answer) ==
    /\ Go(t, from, "returning")
    /\ handle' = [handle EXCEPT ![t] = NoHandle]
    /\ source' = [source EXCEPT ![t] = NoSource]
    /\ engine' = [engine EXCEPT ![t] = NoEngine]
    /\ reply'  = [reply EXCEPT ![t] = answer]

Return(t) ==
    /\ Go(t, "returning", "idle")
    /\ reply' = [reply EXCEPT ![t] = Silent]
    /\ UNCHANGED <<globals, heap, handle, source, engine>>

-----------------------------------------------------------------------------
(* sync.RWMutex: a writer first announces itself, which stops new readers, *)
(* and then waits for the readers already in.                              *)

\* Mutant: the writer's lock forgotten.
AnnouncesUnlocked(t, from, to) ==
    /\ Go(t, from, to)
    /\ regWriter' = t
    /\ UNCHANGED <<nextID, loaded, regReaders, heap, locals>>

\* Mutant: a writer does not wait for the readers.
EntersAtOnce(t, from, to) ==
    /\ Go(t, from, to)
    /\ UNCHANGED <<globals, heap, locals>>

WriterAnnounces(t, from, to) ==
    /\ regWriter = NoThread
    /\ Go(t, from, to)
    /\ regWriter' = t
    /\ UNCHANGED <<nextID, loaded, regReaders, heap, locals>>

WriterEnters(t, from, to) ==
    /\ regReaders = {}
    /\ Go(t, from, to)
    /\ UNCHANGED <<globals, heap, locals>>

-----------------------------------------------------------------------------
(* tabnas_grammar and loadGrammar.                                         *)

\* What the options argument can be, told apart as the code tells it.
Options == {"none", "{}", "members", "not an object", "bad buffer"}

\* goBytes takes the buffer, and the reservation admits only nothing or {}.
OptionsUsable(opts) == opts \in {"none", "{}"}

CallGrammar(t, opts) ==
    IF OptionsUsable(opts)
    THEN /\ built # Engines
         /\ Go(t, "idle", "build")
         /\ UNCHANGED <<globals, heap, locals>>
    ELSE /\ Finish(t, "idle", Failed("usage"))
         /\ UNCHANGED <<globals, heap>>

\* Mutant: an engine built before is handed out again.
LoadShared(t) ==
    /\ Go(t, "build", "load lock")
    /\ \E e \in Engines :
        /\ built'  = built \cup {e}
        /\ engine' = [engine EXCEPT ![t] = e]
    /\ UNCHANGED <<globals, mu, torn, handle, source, reply>>

\* safeNew builds an engine of its own for the handle to come.
LoadBuild(t) ==
    /\ Go(t, "build", "load lock")
    /\ \E e \in Engines \ built :
        /\ built'  = built \cup {e}
        /\ engine' = [engine EXCEPT ![t] = e]
    /\ UNCHANGED <<globals, mu, torn, handle, source, reply>>

\* The construction fails, or panics and safeNew recovers the panic.
LoadFails(t) ==
    /\ Finish(t, "build", Failed("grammar"))
    /\ UNCHANGED <<globals, heap>>

LoadLock(t)  == WriterAnnounces(t, "load lock", "load drain")
LoadDrain(t) == WriterEnters(t, "load drain", "increment")

LoadIncrement(t) ==
    /\ Go(t, "increment", "take id")
    /\ nextID' = nextID + 1
    /\ UNCHANGED <<loaded, regWriter, regReaders, heap, locals>>

LoadTakeId(t) ==
    /\ Go(t, "take id", "insert")
    /\ handle' = [handle EXCEPT ![t] = nextID]
    /\ UNCHANGED <<globals, heap, source, engine, reply>>

LoadInsert(t) ==
    /\ Go(t, "insert", "load unlock")
    /\ loaded' = [h \in DOMAIN loaded \cup {handle[t]} |->
                    IF h = handle[t] THEN engine[t] ELSE loaded[h]]
    /\ UNCHANGED <<nextID, regWriter, regReaders, heap, locals>>

LoadUnlock(t) ==
    /\ Finish(t, "load unlock", Loaded(handle[t]))
    /\ regWriter' = NoThread
    /\ UNCHANGED <<nextID, loaded, regReaders, heap>>

-----------------------------------------------------------------------------
(* tabnas_parse and parseWith.                                             *)

CallParse(t, h, s) ==
    /\ Go(t, "idle", "read lock")
    /\ handle' = [handle EXCEPT ![t] = h]
    /\ source' = [source EXCEPT ![t] = s]
    /\ UNCHANGED <<globals, heap, engine, reply>>

\* goBytes refuses a negative length, or a length with no buffer.
CallParseBadBuffer(t) ==
    /\ Finish(t, "idle", Failed("usage"))
    /\ UNCHANGED <<globals, heap>>

ParseReadLock(t) ==
    /\ regWriter = NoThread
    /\ Go(t, "read lock", "lookup")
    /\ regReaders' = regReaders \cup {t}
    /\ UNCHANGED <<nextID, loaded, regWriter, heap, locals>>

\* A Go map answers nil for a key it does not hold.
Lookup(h) == IF h \in DOMAIN loaded THEN loaded[h] ELSE NoEngine

ParseLookup(t) ==
    /\ Go(t, "lookup", "read unlock")
    /\ engine' = [engine EXCEPT ![t] = Lookup(handle[t])]
    /\ UNCHANGED <<globals, heap, handle, source, reply>>

\* Mutant: only the early return releases the registry.
ParseKeepsReading(t) ==
    /\ UNCHANGED <<nextID, loaded, regWriter, heap>>
    /\ \/ /\ engine[t] = NoEngine
          /\ regReaders' = regReaders \ {t}
          /\ Finish(t, "read unlock", Failed("handle"))
       \/ /\ engine[t] # NoEngine
          /\ UNCHANGED regReaders
          /\ Go(t, "read unlock", "mu lock")
          /\ UNCHANGED locals

ParseReadUnlock(t) ==
    /\ regReaders' = regReaders \ {t}
    /\ UNCHANGED <<nextID, loaded, regWriter, heap>>
    /\ \/ /\ engine[t] = NoEngine
          /\ Finish(t, "read unlock", Failed("handle"))
       \/ /\ engine[t] # NoEngine
          /\ Go(t, "read unlock", "mu lock")
          /\ UNCHANGED locals

\* Mutant: the instance mutex does not exclude.
ParseUnlocked(t) ==
    /\ Go(t, "mu lock", "enter engine")
    /\ mu' = [mu EXCEPT ![engine[t]] = t]
    /\ UNCHANGED <<globals, built, torn, locals>>

\* The registry is not held here: a free may take the handle away between
\* the lookup and this lock, or while the engine runs.
ParseLock(t) ==
    /\ Go(t, "mu lock", "enter engine")
    /\ mu[engine[t]] = NoThread
    /\ mu' = [mu EXCEPT ![engine[t]] = t]
    /\ UNCHANGED <<globals, built, torn, locals>>

\* "Engines are not safe for concurrent Parse": two threads in one engine
\* spoil each other's parse.
Intruders(t) == {u \in Threads \ {t} : pc[u] = "in engine" /\ engine[u] = engine[t]}

ParseEnter(t) ==
    /\ Go(t, "enter engine", "in engine")
    /\ torn' = IF Intruders(t) = {} THEN torn ELSE torn \cup Intruders(t) \cup {t}
    /\ UNCHANGED <<globals, built, mu, locals>>

\* safeParse comes back, by return or by a recovered panic, with what the
\* engine says of this source, or anything at all when the parse was torn.
ParseLeave(t) ==
    /\ Go(t, "in engine", "mu unlock")
    /\ \E v \in IF t \in torn THEN Verdicts ELSE {Verdict[source[t]]} :
          reply' = [reply EXCEPT ![t] = Brought(v)]
    /\ torn' = torn \ {t}
    /\ UNCHANGED <<globals, built, mu, handle, source, engine>>

\* Mutant: the instance stays locked when its parse was recovered.
ParseUnlockUnlessPanicked(t) ==
    /\ Go(t, "mu unlock", "make reply")
    /\ mu' = [mu EXCEPT ![engine[t]] = IF reply[t] = Brought("panic") THEN t ELSE NoThread]
    /\ UNCHANGED <<globals, built, torn, locals>>

ParseUnlock(t) ==
    /\ Go(t, "mu unlock", "make reply")
    /\ mu' = [mu EXCEPT ![engine[t]] = NoThread]
    /\ UNCHANGED <<globals, built, torn, locals>>

\* The errors are told apart, and acceptDoc walks and encodes the value, with
\* the engine's mutex let go.
ParseReply(t) ==
    /\ Finish(t, "make reply", Answer(reply[t].verdict))
    /\ UNCHANGED <<globals, heap>>

-----------------------------------------------------------------------------
(* tabnas_grammar_free and freeGrammar.                                    *)

CallFree(t, h) ==
    /\ Go(t, "idle", "free lock")
    /\ handle' = [handle EXCEPT ![t] = h]
    /\ UNCHANGED <<globals, heap, source, engine, reply>>

FreeLock(t)  == WriterAnnounces(t, "free lock", "free drain")
FreeDrain(t) == WriterEnters(t, "free drain", "delete")

\* Deleting a key the map does not hold is no operation.
FreeDelete(t) ==
    /\ Go(t, "delete", "free unlock")
    /\ loaded' = [h \in DOMAIN loaded \ {handle[t]} |-> loaded[h]]
    /\ UNCHANGED <<nextID, regWriter, regReaders, heap, locals>>

FreeUnlock(t) ==
    /\ Finish(t, "free unlock", Silent)
    /\ regWriter' = NoThread
    /\ UNCHANGED <<nextID, loaded, regReaders, heap>>

-----------------------------------------------------------------------------
Load(t) ==
    \/ LoadBuild(t) \/ LoadFails(t) \/ LoadLock(t) \/ LoadDrain(t)
    \/ LoadIncrement(t) \/ LoadTakeId(t) \/ LoadInsert(t) \/ LoadUnlock(t)

Parse(t) ==
    \/ ParseReadLock(t) \/ ParseLookup(t) \/ ParseReadUnlock(t)
    \/ ParseLock(t) \/ ParseEnter(t) \/ ParseLeave(t) \/ ParseUnlock(t) \/ ParseReply(t)

Free(t) ==
    \/ FreeLock(t) \/ FreeDrain(t) \/ FreeDelete(t) \/ FreeUnlock(t)

Call(t) ==
    \/ \E opts \in Options : CallGrammar(t, opts)
    \/ \E h \in CallerHandles, s \in Sources : CallParse(t, h, s)
    \/ CallParseBadBuffer(t)
    \/ \E h \in CallerHandles : CallFree(t, h)

Next == \E t \in Threads : Call(t) \/ Load(t) \/ Parse(t) \/ Free(t) \/ Return(t)

Spec == Init /\ [][Next]_vars

(* Fairness.  A goroutine that can run is scheduled.  The locks of package  *)
(* sync admit every waiter in turn: a Mutex hands itself over after a       *)
(* millisecond of waiting, and an RWMutex stops new readers for a waiting   *)
(* writer and lets the waiting readers in before the next writer, so an     *)
(* acquisition enabled again and again happens.  Nothing obliges a caller   *)
(* to call.                                                                 *)
OutsideEngine(t) ==
    \/ Load(t) \/ Free(t) \/ Return(t)
    \/ ParseReadLock(t) \/ ParseLookup(t) \/ ParseReadUnlock(t)
    \/ ParseLock(t) \/ ParseEnter(t) \/ ParseUnlock(t) \/ ParseReply(t)

Acquires(t) == LoadLock(t) \/ FreeLock(t) \/ ParseReadLock(t) \/ ParseLock(t)

Scheduling == \A t \in Threads : WF_vars(OutsideEngine(t)) /\ SF_vars(Acquires(t))

\* An engine may run for ever on some input.
FairSpec == Spec /\ Scheduling

\* Every parse comes back.
EnginesReturn == \A t \in Threads : WF_vars(ParseLeave(t))

-----------------------------------------------------------------------------
(* Properties.                                                             *)

\* Every variable has its type; in particular a handle in the table has been
\* issued and its engine built (the package globals of core.go).
TypeOK ==
    /\ nextID \in Nat
    /\ DOMAIN loaded \subseteq 1..nextID
    /\ loaded \in [DOMAIN loaded -> built]
    /\ regWriter \in Threads \cup {NoThread}
    /\ regReaders \subseteq Threads
    /\ built \subseteq Engines
    /\ mu \in [Engines -> Threads \cup {NoThread}]
    /\ torn \subseteq Threads
    /\ pc \in [Threads -> Labels]
    /\ handle \in [Threads -> Int]
    /\ source \in [Threads -> Sources \cup {NoSource}]
    /\ engine \in [Threads -> built \cup {NoEngine}]
    /\ reply \in [Threads -> Replies \cup {Brought(v) : v \in Verdicts}]

\* No parse is ever spoiled by another thread in the same engine, whatever
\* is loaded, freed and parsed meanwhile: the instance mutex does its work
\* although it is taken after the registry lock is let go (parseWith).
NeverTorn == torn = {}

\* An engine belongs to one handle: no engine is in the table twice, and one
\* a load is about to insert is neither in the table nor in use (loadGrammar
\* builds "one ready-to-parse engine" per call).
Building == {"load lock", "load drain", "increment", "take id", "insert"}

EnginePrivate ==
    /\ \A g, h \in DOMAIN loaded : loaded[g] = loaded[h] => g = h
    /\ \A t \in Threads : pc[t] \in Building =>
        /\ \A h \in DOMAIN loaded : loaded[h] # engine[t]
        /\ \A u \in Threads \ {t} : engine[u] # engine[t]

\* The handle table and its counter change only in the hands of a thread
\* that is alone with them: nobody else is between taking and releasing reg
\* (loadGrammar's and freeGrammar's Lock, parseWith's RLock).
AtTable(t) == pc[t] \in LoadHolds \cup FreeHolds \cup ReadHolds

TableStable ==
    [][\A t, u \in Threads :
          AtTable(t) /\ AtTable(u) /\ t # u => UNCHANGED <<loaded, nextID>>]_vars

\* The calls of all threads look as if each took effect at one instant on an
\* atomic table (ClibSpec): a handle is never issued twice, a parse answers
\* for its own source and for a handle live at one instant of the call, and
\* a free is final.  A load takes effect at its insertion, a parse at its
\* lookup, a free at its deletion.
InFlight == {"take id", "insert"}
Decided  == {"read unlock", "mu lock", "enter engine", "in engine", "mu unlock", "make reply"}

PhaseAt(label) ==
    CASE label = "idle"                                -> "idle"
      [] label \in Building \cup {"build"}             -> "grammar"
      [] label \in {"read lock", "lookup"}             -> "parse"
      [] label \in {"free lock", "free drain", "delete"} -> "free"
      [] OTHER                                         -> "answered"

ArgAt(label, h)  == IF PhaseAt(label) \in {"parse", "free"} THEN h ELSE NoHandle
TextAt(label, s) == IF PhaseAt(label) = "parse" THEN s ELSE NoSource

AnswerAt(label, h, e, s, r) ==
    CASE label = "load unlock" -> Loaded(h)
      [] label = "free unlock" -> Silent
      [] label \in Decided     -> IF e = NoEngine THEN Failed("handle") ELSE Answer(Verdict[s])
      [] OTHER                 -> r

IssuedBar == IF \E t \in Threads : pc[t] \in InFlight THEN nextID - 1 ELSE nextID
PhaseBar  == [t \in Threads |-> PhaseAt(pc[t])]
ArgBar    == [t \in Threads |-> ArgAt(pc[t], handle[t])]
TextBar   == [t \in Threads |-> TextAt(pc[t], source[t])]
AnswerBar == [t \in Threads |-> AnswerAt(pc[t], handle[t], engine[t], source[t], reply[t])]

Atomic == INSTANCE ClibSpec WITH
    issued <- IssuedBar, live <- DOMAIN loaded,
    phase <- PhaseBar, arg <- ArgBar, text <- TextBar, answer <- AnswerBar

Linearizable == Atomic!AtomicTable

\* Every call comes back, where every parse does: no order of lock
\* acquisitions leaves callers waiting on each other, and a panic in an engine
\* releases its mutex.
EveryCallReturns ==
    EnginesReturn => \A t \in Threads : pc[t] # "idle" ~> pc[t] = "idle"

\* A parse that never comes back holds up only its own engine: loads and
\* frees take effect and so does every lookup, since parseWith lets the
\* registry go before it waits for the instance.  Parses of the handle that
\* hangs do wait for it, after their lookup.
HungParseHarmsNoRegistry ==
    \A t \in Threads :
        PhaseAt(pc[t]) \in {"grammar", "parse", "free"} ~> PhaseAt(pc[t]) = "answered"
=============================================================================
