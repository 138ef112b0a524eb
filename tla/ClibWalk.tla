------------------------------ MODULE ClibWalk ------------------------------
(***************************************************************************)
(* jsonUnsafe, go/clib/core.go: the walk over a parse result that decides, *)
(* before it is encoded, whether JSON could hold it.  The result is a heap *)
(* of containers, each the sequence of what JSON would emit of it, keys    *)
(* among the values, in the order it would be emitted; a struct's fields   *)
(* that are not emitted are not in it.  Containers may be shared, and may  *)
(* hold themselves.                                                        *)
(***************************************************************************)
EXTENDS Integers, Sequences, FiniteSets

CONSTANTS Nodes,  \* the addresses of containers
          Roots,  \* bound: those walked from
          Heaps   \* bound: the heaps walked, [Nodes -> Seq(HeapItem)]

\* What makes a value unfit; "fit" stands for every other.
Corrupted == {"bytes", "big number", "opaque"}

\* A reference is to the first `n` items of a container: a slice may be
\* shorter than the array it is of.
Ref(x, n) == [to |-> x, n |-> n]
IsRef(item) == "to" \in DOMAIN item

HeapItem == [leaf : Corrupted \cup {"fit"}] \cup [to : Nodes, n : Nat]

\* No reference is to more than its container holds.
IsHeap(h) == /\ h \in [Nodes -> Seq(HeapItem)]
             /\ \A x \in Nodes : \A i \in DOMAIN h[x] : IsRef(h[x][i]) => h[x][i].n <= Len(h[h[x][i].to])

\* A process holds finitely many containers.
ASSUME HeapsAssumption ==
    /\ IsFiniteSet(Nodes) /\ Roots \subseteq Nodes
    /\ \A h \in Heaps : IsHeap(h)

\* Why a value is withheld for a leaf.
Reason == [f \in Corrupted |-> CASE f = "bytes" -> "unsafeUTF8" [] f = "big number" -> "unsafeNumber"
                                 [] f = "opaque" -> "unsafeOpaque"]

\* Mutant: a big number is taken for a struct of no exported fields.
UnfitBytes == Corrupted \ {"big number"}

\* The leaves the walk knows.
Unfit == Corrupted

VARIABLES heap,    \* the parse result
          root,    \* what is walked
          path,    \* the containers being walked, [ref, next], innermost last
          onPath,  \* the path keys of the containers between the root and here
          answer   \* "walking", "" once the value is safe, or a reason

walkVars == <<heap, root, path, onPath, answer>>

-----------------------------------------------------------------------------
Innermost == path[Len(path)]
Walking == answer = "walking"

\* Mutant: the address alone.
AddressOnly(ref) == [to |-> ref.to, n |-> 0]

\* A container by its address and its length.  pathKey has the type as well,
\* which tells a struct from its first field: no container here begins with
\* another, so that the two cannot be at one address.
PathKey(ref) == ref

\* The items still to be walked of the innermost container.
Pending == Walking /\ path # <<>> /\ Innermost.next <= Innermost.ref.n
Item == heap[Innermost.ref.to][Innermost.next]
Advanced == [path EXCEPT ![Len(path)].next = @ + 1]

Answer(why) == answer' = why /\ UNCHANGED <<heap, root, path, onPath>>

\* A string, a number: nothing to report, or the walk ends with the reason.
FitLeaf == /\ Pending /\ ~IsRef(Item) /\ Item.leaf \notin Unfit
           /\ path' = Advanced /\ UNCHANGED <<heap, root, onPath, answer>>
Report == Pending /\ ~IsRef(Item) /\ Item.leaf \in Unfit /\ Answer(Reason[Item.leaf])

\* Nil and empty containers, which encode as they are.
Empty == /\ Pending /\ IsRef(Item) /\ Item.n = 0
         /\ path' = Advanced /\ UNCHANGED <<heap, root, onPath, answer>>

\* A container on the path contains itself; one only seen before does not.
Cycle == Pending /\ IsRef(Item) /\ Item.n > 0 /\ PathKey(Item) \in onPath /\ Answer("unsafeCycle")

\* Mutant: the container entered comes next once more.
EnterAgain == /\ Pending /\ IsRef(Item) /\ Item.n > 0 /\ PathKey(Item) \notin onPath
              /\ path' = Append(path, [ref |-> Item, next |-> 1])
              /\ onPath' = onPath \cup {PathKey(Item)}
              /\ UNCHANGED <<heap, root, answer>>

Enter == /\ Pending /\ IsRef(Item) /\ Item.n > 0 /\ PathKey(Item) \notin onPath
         /\ path' = Append(Advanced, [ref |-> Item, next |-> 1])
         /\ onPath' = onPath \cup {PathKey(Item)}
         /\ UNCHANGED <<heap, root, answer>>

\* The deferred delete.
WithoutPath(ref) == onPath \ {PathKey(ref)}

Leave == /\ Walking /\ path # <<>> /\ Innermost.next > Innermost.ref.n
         /\ onPath' = WithoutPath(Innermost.ref)
         /\ path' = SubSeq(path, 1, Len(path) - 1)
         /\ answer' = IF Len(path) = 1 THEN "" ELSE answer
         /\ UNCHANGED <<heap, root>>

WalkInit == /\ heap \in Heaps /\ root \in {Ref(x, Len(heap[x])) : x \in Roots}
            /\ path = <<[ref |-> root, next |-> 1]>> /\ onPath = {PathKey(root)}
            /\ answer = "walking"

WalkNext == FitLeaf \/ Report \/ Empty \/ Cycle \/ Enter \/ Leave

\* The walk is a function of one thread and runs to its end.
WalkSpec == WalkInit /\ [][WalkNext]_walkVars /\ WF_walkVars(WalkNext)

-----------------------------------------------------------------------------
(* What the value holds, whichever way it is walked.                       *)

Seen(ref) == {heap[ref.to][i] : i \in 1..ref.n}
Children(refs) == {i \in UNION {Seen(r) : r \in refs} : IsRef(i)}

\* The references met within n steps of those of `refs`, themselves included.
Reach(refs, n) ==
    LET f[k \in 0..n] == IF k = 0 THEN refs ELSE f[k - 1] \cup Children(f[k - 1])
    IN f[n]
Views == Cardinality(UNION {Seen(Ref(x, Len(heap[x]))) : x \in Nodes}) + 1
Reachable == Reach({root}, Views)

Flaws == {Reason[i.leaf] : i \in {i \in UNION {Seen(v) : v \in Reachable} : ~IsRef(i) /\ i.leaf \in Corrupted}}
            \cup {"unsafeCycle" : v \in {v \in Reachable : v \in Reach(Children({v}), Views)}}

-----------------------------------------------------------------------------
(* Properties.                                                             *)

\* "A check that stops at the containers it knows passes whatever the others
\* hold": a value found safe holds nothing unfit and nothing that contains
\* itself, at any depth, so encoding it ends and corrupts nothing.  And it is
\* withheld only for what it holds: a container shared by two others, or a
\* slice and a shorter slice of one array, is no cycle.
Withheld ==
    /\ answer = "" => Flaws = {}
    /\ answer \notin {"walking", ""} => answer \in Flaws

\* "A value that contains itself is reported instead of walked forever".
WalkEnds == <>(answer # "walking")
=============================================================================
