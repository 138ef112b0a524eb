------------------------------ MODULE MCValues ------------------------------
(***************************************************************************)
(* The two walks over a value: the render on short streams, and the check  *)
(* of the C library on parse results of three containers that hold each    *)
(* other in every way.  They share no state and are run side by side.      *)
(***************************************************************************)
EXTENDS RenderTree, ClibWalk, SequencesExt

CONSTANTS a, b, c

VARIABLE checking  \* which of the two it is

NoWalk == /\ heap = [x \in Nodes |-> <<>>] /\ root = Ref(a, 0)
          /\ path = <<>> /\ onPath = {} /\ answer = "walking"

MCInit == Init /\ checking \in BOOLEAN /\ (IF checking THEN WalkInit ELSE NoWalk)
Rendering == ~checking /\ Next /\ UNCHANGED <<checking, walkVars>>
Walk      == checking /\ WalkNext /\ UNCHANGED <<checking, vars>>
MCSpec == MCInit /\ [][Rendering \/ Walk]_<<checking, vars, walkVars>> /\ WF_<<checking, vars, walkVars>>(Walk)

\* The check answers, also on a value that contains itself.
CheckEnds == checking => WalkEnds

-----------------------------------------------------------------------------

\* Characters, words standing for themselves.
MCChars == {"$", "NUL", "empty", "json:", "big", "x", "quote", "u0000"}

MCEmptyName  == <<"$", "empty">>
MCJsonPrefix == <<"$", "json:">>
MCBig        == <<"$", "big">>

FewNames == {<<"x">>, <<"$", "big">>, <<>>, <<"$", "empty">>}

\* The JSON form of a name, as atoms.
MCQuoted == [n \in Names |->
    <<"quote">> \o [i \in DOMAIN n |-> IF n[i] = "NUL" THEN "u0000" ELSE n[i]] \o <<"quote">>]

FewValues  == {[kind |-> "string", text |-> "12"], [kind |-> "string", text |-> "-0"],
               [kind |-> "number", text |-> "-0"]}

Leaves == {[leaf |-> l] : l \in {"fit", "bytes", "big number"}}
Wide   == BoundedSeq(Leaves \cup {Ref(a, 0), Ref(a, 1), Ref(a, 2), Ref(b, 1), Ref(b, 2), Ref(c, 1)}, 2)
Narrow == BoundedSeq({[leaf |-> "opaque"], Ref(a, 2), Ref(b, 1), Ref(b, 2), Ref(c, 1)}, 1)

AllHeaps == {h \in {[x \in Nodes |-> CASE x = a -> p [] x = b -> q [] x = c -> r] :
                        p \in Wide, q \in Wide, r \in Narrow} : IsHeap(h)}
=============================================================================
