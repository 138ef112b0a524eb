----------------------------- MODULE RenderTree -----------------------------
(***************************************************************************)
(* What the streaming render is for, stated over whole trees: the tree     *)
(* that a stream of events walks, read by recursive descent, and the text  *)
(* it is written as.  The render holds a stack of markers and never looks  *)
(* ahead; the descent holds the whole stream and looks wherever it likes.  *)
(***************************************************************************)
EXTENDS Render

-----------------------------------------------------------------------------
(* A reading of the events from a position on: it is whole up to the next  *)
(* position, or the events ran out, or no tree has them there.  Its text   *)
(* is that of a value, or the lines of the members or items that are       *)
(* whole, the ends of records in it.                                       *)

Whole(next, written) == [ok |-> TRUE, done |-> TRUE, next |-> next, text |-> written]
Begun(lines)         == [ok |-> TRUE, done |-> FALSE, next |-> 0, text |-> lines]
NoTree               == [ok |-> FALSE, done |-> FALSE, next |-> 0, text |-> <<>>]

Indentation(depth) == <<[token |-> "indent", depth |-> depth]>>

\* The root's opening ends a record, and so does each value directly inside it.
RootOpens(depth) == IF depth = 0 THEN <<RecordEnd>> ELSE <<>>
LineEnds(depth)  == IF depth = 1 THEN <<RecordEnd>> ELSE <<>>

\* The lines of a container: that of a value, and those after it.
Lines(name, value, rest, depth) ==
    IF ~value.done THEN IF value.ok THEN Begun(<<>>) ELSE NoTree
    ELSE IF ~rest.ok THEN NoTree
    ELSE [rest EXCEPT !.text = Indentation(depth) \o name \o value.text \o <<Comma>>
                                   \o LineEnds(depth) \o @]

\* The object a reader builds for an integer no double holds, at i.
BigAt(events, i) ==
    /\ i + 2 <= Len(events)
    /\ events[i] = Event("object-start")
    /\ events[i + 1] = Key(Big)
    /\ events[i + 2].event = "scalar"
    /\ BigDigits(events[i + 2].value)
BigInteger(events, i, next) == BigAt(events, i) /\ next = i + 4

\* A container that begins at i, from what is inside it.
Container(events, i, inside, depth) ==
    LET body == IF inside.text = <<>> THEN <<EmptyContainer>>
                ELSE IF BigInteger(events, i, inside.next) THEN <<Integer(events[i + 2].value)>>
                ELSE <<Open>> \o inside.text \o Indentation(depth) \o <<Close>>
    IN  IF inside.done THEN Whole(inside.next, RootOpens(depth) \o body) ELSE inside

\* The value at i, and the members and the items from i on, read off those at
\* later positions.
ReadValue(events, read, i, depth) ==
    IF i > Len(events) THEN Begun(<<>>)
    ELSE CASE events[i].event = "scalar" -> Whole(i + 1, <<ScalarToken(events[i].value)>>)
           [] events[i].event = "object-start" ->
                 Container(events, i, read[i + 1].members[depth + 1], depth)
           [] events[i].event = "array-start" ->
                 Container(events, i, read[i + 1].items[depth + 1], depth)
           [] OTHER -> NoTree

ReadMembers(events, read, i, depth) ==
    IF i > Len(events) THEN Begun(<<>>)
    ELSE CASE events[i].event = "object-end" -> Whole(i + 1, <<>>)
           [] events[i].event = "key" ->
                 LET value == read[i + 1].value[depth]
                 IN  Lines(<<FieldToken(events[i].name), Assign>>, value,
                           read[value.next].members[depth], depth)
           [] OTHER -> NoTree

ReadItems(events, read, i, depth) ==
    IF i > Len(events) THEN Begun(<<>>)
    ELSE IF events[i].event = "array-end" THEN Whole(i + 1, <<>>)
    ELSE LET value == ReadValue(events, read, i, depth)
         IN  Lines(<<>>, value, read[value.next].items[depth], depth)

Descent(events) ==
    LET read[i \in 1..(Len(events) + 1)] ==
            [value   |-> [depth \in Nat |-> ReadValue(events, read, i, depth)],
             members |-> [depth \in Nat |-> ReadMembers(events, read, i, depth)],
             items   |-> [depth \in Nat |-> ReadItems(events, read, i, depth)]]
    IN  read

\* The reading of a whole stream, which holds one tree and nothing more.
Reading(events) ==
    LET root == Descent(events)[1].value[0]
    IN  IF root.done /\ root.next <= Len(events) THEN NoTree ELSE root

-----------------------------------------------------------------------------
(* The text of a stream, and its records.                                  *)

Document(events) == Reading(events).text \o <<Newline, RecordEnd>>

\* The records of a stream begun: nothing when the root opens, then each
\* value directly inside it, the first with the root's own opening, then the
\* rest of the document.  The digits of a root that may yet be a big integer,
\* three events into it, are held.
Records(events) ==
    LET reading == Reading(events)
    IN  IF events = <<>> THEN <<>>
        ELSE IF reading.done THEN Document(events)
        ELSE IF reading.text = <<>> \/ (BigAt(events, 1) /\ Len(events) = 3) THEN <<RecordEnd>>
        ELSE <<RecordEnd, Open>> \o reading.text

\* What a host's writer has let through: the text to the end of a record.
LetThrough(n) == n \in 1..Len(text) => text[n] = RecordEnd
RecordsWritten ==
    SubSeq(text, 1, CHOOSE n \in 0..Len(text) :
                        LetThrough(n) /\ \A m \in (n + 1)..Len(text) : text[m] # RecordEnd)

\* The events the render took, without one it refused.
Taken == IF status = "refused" THEN SubSeq(seen, 1, Len(seen) - 1) ELSE seen

-----------------------------------------------------------------------------
(* Properties.                                                             *)

\* The render takes a stream exactly as far as it is the stream of a tree
\* ("Events no tree has fail with PROTOCOL_ORDER_ERROR"), and finishes it
\* exactly when the tree is complete ("nothing may follow" the root value).
TreeEventsOnly ==
    LET reading == Reading(seen)
    IN  CASE status = "running"   -> reading.ok
          [] status = "refused"   -> ~reading.ok
          [] status = "cut short" -> reading.ok /\ ~reading.done
          [] status = "finished"  -> reading.done

\* The text of a finished stream is the document of the tree the stream was
\* of: `.{}` for an empty container, the digits for a big integer, every
\* value on its line at its depth, every bracket closed (the profile).
WritesTheTree == status = "finished" => text = Document(seen)

\* "Each value directly inside the root struct or tuple is a record of the
\* text": whenever a run stops, what its records hold is whole values of the
\* root and all of those completed, but for digits still held (zon-to,
\* zon-big-field).
WholeRecords == RecordsWritten = Records(Taken)
=============================================================================
