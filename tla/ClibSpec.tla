------------------------------ MODULE ClibSpec ------------------------------
(***************************************************************************)
(* What libtabnaszon promises its callers: an atomic table of live handles *)
(* shared by any number of threads.  A call is invoked, takes effect at    *)
(* one instant between its invocation and its return, and returns the      *)
(* answer of that instant.  Locks, engines and the steps of the Go code do *)
(* not appear here; Clib.tla shows that they implement this.               *)
(***************************************************************************)
EXTENDS Integers, ClibAnswers

CONSTANTS Threads,        \* the caller's threads
          CallerHandles   \* the handles callers pass, loaded or not

VARIABLES issued,   \* how many handles have been handed out
          live,     \* the handles loaded and not yet freed
          phase,    \* where each thread's call is
          arg,      \* the handle a parse or a free was called with
          text,     \* the source a parse was called with
          answer    \* the reply a call took effect with

specVars == <<issued, live, phase, arg, text, answer>>

Phases == {"idle", "grammar", "parse", "free", "answered"}

SpecInit ==
    /\ issued = 0
    /\ live   = {}
    /\ phase  = [t \in Threads |-> "idle"]
    /\ arg    = [t \in Threads |-> NoHandle]
    /\ text   = [t \in Threads |-> NoSource]
    /\ answer = [t \in Threads |-> Silent]

Move(t, from, to) ==
    /\ phase[t] = from
    /\ phase' = [phase EXCEPT ![t] = to]

Effect(t, op, reply) ==
    /\ Move(t, op, "answered")
    /\ answer' = [answer EXCEPT ![t] = reply]
    /\ arg'    = [arg EXCEPT ![t] = NoHandle]
    /\ text'   = [text EXCEPT ![t] = NoSource]

-----------------------------------------------------------------------------
(* Invocations. *)

InvokeGrammar(t) ==
    /\ Move(t, "idle", "grammar")
    /\ UNCHANGED <<issued, live, arg, text, answer>>

InvokeParse(t, h, s) ==
    /\ Move(t, "idle", "parse")
    /\ arg'  = [arg EXCEPT ![t] = h]
    /\ text' = [text EXCEPT ![t] = s]
    /\ UNCHANGED <<issued, live, answer>>

InvokeFree(t, h) ==
    /\ Move(t, "idle", "free")
    /\ arg' = [arg EXCEPT ![t] = h]
    /\ UNCHANGED <<issued, live, text, answer>>

\* A call whose buffer or options are unusable is refused and has no effect.
Refuse(t) ==
    /\ Effect(t, "idle", Failed("usage"))
    /\ UNCHANGED <<issued, live>>

-----------------------------------------------------------------------------
(* The instants at which calls take effect. *)

\* A loaded grammar gets the next handle, one no call has had before.
Grammar(t) ==
    /\ Effect(t, "grammar", Loaded(issued + 1))
    /\ issued' = issued + 1
    /\ live'   = live \cup {issued + 1}

GrammarFails(t) ==
    /\ Effect(t, "grammar", Failed("grammar"))
    /\ UNCHANGED <<issued, live>>

\* A parse answers for its own source when its handle is live at the
\* instant, and reports an unknown handle otherwise.
Parse(t) ==
    /\ Effect(t, "parse",
              IF arg[t] \in live THEN Answer(Verdict[text[t]]) ELSE Failed("handle"))
    /\ UNCHANGED <<issued, live>>

\* Freeing a handle that is not live, twice freed or never issued, does
\* nothing.
Free(t) ==
    /\ Effect(t, "free", Silent)
    /\ live' = live \ {arg[t]}
    /\ UNCHANGED issued

Return(t) ==
    /\ Move(t, "answered", "idle")
    /\ answer' = [answer EXCEPT ![t] = Silent]
    /\ UNCHANGED <<issued, live, arg, text>>

SpecNext ==
    \E t \in Threads :
        \/ InvokeGrammar(t)
        \/ \E h \in CallerHandles, s \in Sources : InvokeParse(t, h, s)
        \/ \E h \in CallerHandles : InvokeFree(t, h)
        \/ Refuse(t)
        \/ Grammar(t)
        \/ GrammarFails(t)
        \/ Parse(t)
        \/ Free(t)
        \/ Return(t)

AtomicTable == SpecInit /\ [][SpecNext]_specVars
=============================================================================
