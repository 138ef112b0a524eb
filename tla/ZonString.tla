----------------------------- MODULE ZonString -----------------------------
(***************************************************************************)
(* The scanner of a quoted string's body, go/zon.go: Zig's escapes, and    *)
(* the runs of `\xNN` escapes, which are runs of bytes, decoded as UTF-8   *)
(* once the run ends.  A body is a sequence of items, an item one thing as *)
(* it is spelled; a decoded character is the sequence of its bytes.        *)
(***************************************************************************)
EXTENDS Integers, SequencesExt

CONSTANTS Bodies  \* bound: the bodies scanned

Bytes == 0..255

Item == [kind : {"plain", "escape", "byte"}, is : Bytes]
            \cup [kind : {"point"}, is : {"scalar", "surrogate", "beyond", "empty", "unbraced"}]
            \cup [kind : {"quote", "line end", "control", "bad escape", "bad hex"}, is : {0}]

VARIABLES body,     \* the body, as it is written
          at,       \* the item the scanner is at
          out,      \* the characters decoded
          pending,  \* the bytes of consecutive `\xNN` escapes
          answer    \* "", "decoded", or the code of a fault

vars == <<body, at, out, pending, answer>>

-----------------------------------------------------------------------------
(* UTF-8, as the standard library knows it: the well-formed sequences, by  *)
(* the ranges their bytes are in.                                          *)

Cont == 128..191
WellFormed == { << 0..127 >>, << 194..223, Cont >>,
                << {224}, 160..191, Cont >>, << (225..236) \cup {238, 239}, Cont, Cont >>,
                << {237}, 128..159, Cont >>, << {240}, 144..191, Cont, Cont >>,
                << 241..243, Cont, Cont, Cont >>, << {244}, 128..143, Cont, Cont >> }

\* The first n bytes of b begin a well-formed sequence; are one.
Begins(b, n) == \E row \in WellFormed : n <= Len(row) /\ \A k \in 1..n : b[k] \in row[k]
IsRune(b, n) == \E row \in WellFormed : n = Len(row) /\ \A k \in 1..n : b[k] \in row[k]

Replacement == <<239, 191, 189>>

\* The size of the rune at the head of b, 0 if it is ill-formed.
RuneSize(b) == IF \E n \in 1..Len(b) : IsRune(b, n) THEN CHOOSE n \in 1..Len(b) : IsRune(b, n) ELSE 0

\* The continuation bytes a lead byte needs, and the range of the first.
Lead(c) ==
    CASE c \in 194..223 -> [need |-> 1, first |-> 128..191]
      [] c = 224        -> [need |-> 2, first |-> 160..191]
      [] c \in (225..236) \cup {238, 239} -> [need |-> 2, first |-> 128..191]
      [] c = 237        -> [need |-> 2, first |-> 128..159]
      [] c = 240        -> [need |-> 3, first |-> 144..191]
      [] c \in 241..243 -> [need |-> 3, first |-> 128..191]
      [] c = 244        -> [need |-> 3, first |-> 128..143]
      [] OTHER          -> [need |-> 0, first |-> {}]

\* Mutant: any continuation byte may come first.
PrefixLenLoose(b) ==
    CHOOSE n \in 1..Len(b) :
        /\ n <= Lead(b[1]).need + 1
        /\ \A k \in 2..n : b[k] \in 128..191
        /\ n < Len(b) /\ n <= Lead(b[1]).need => b[n + 1] \notin 128..191

\* The lead byte and every continuation byte that could still complete it.
InvalidPrefixLen(b) ==
    LET completes(k) == b[k] \in (IF k = 2 THEN Lead(b[1]).first ELSE 128..191)
    IN CHOOSE n \in 1..Len(b) :
           /\ n <= Lead(b[1]).need + 1
           /\ \A k \in 2..n : completes(k)
           /\ n < Len(b) /\ n <= Lead(b[1]).need => ~completes(n + 1)

\* The characters of b, one U+FFFD for each ill-formed prefix.
LossyUTF8(b) ==
    LET f[k \in 1..(Len(b) + 1)] ==
            LET rest == SubSeq(b, k, Len(b))
            IN CASE rest = <<>> -> <<>>
                 [] RuneSize(rest) > 0 -> <<SubSeq(rest, 1, RuneSize(rest))>> \o f[k + RuneSize(rest)]
                 [] OTHER -> <<Replacement>> \o f[k + InvalidPrefixLen(rest)]
    IN f[1]

-----------------------------------------------------------------------------
(* The scanner.                                                            *)

Here == body[at]
Scanning == answer = "" /\ at <= Len(body)
Flushed == out \o LossyUTF8(pending)

\* A character, the pending bytes flushed before it.
Write(char) ==
    out' = Append(Flushed, char) /\ pending' = <<>> /\ at' = at + 1 /\ UNCHANGED <<body, answer>>

Fault(code) == answer' = code /\ UNCHANGED <<body, at, out, pending>>

PlainChar == Scanning /\ Here.kind = "plain" /\ Write(<<Here.is>>)

\* `\n`, `\r` and `\t` name another character, the rest themselves.
Named == [c \in {110, 114, 116} |-> CASE c = 110 -> 10 [] c = 114 -> 13 [] c = 116 -> 9]
Escape == Scanning /\ Here.kind = "escape" /\ Write(<<IF Here.is \in DOMAIN Named THEN Named[Here.is]
                                                     ELSE Here.is>>)
ByteEscape ==
    /\ Scanning /\ Here.kind = "byte"
    /\ pending' = Append(pending, Here.is) /\ at' = at + 1
    /\ UNCHANGED <<body, out, answer>>

IsScalarValue(point) == point = "scalar"

ScalarChar == <<195, 169>>

UnicodeEscape ==
    /\ Scanning /\ Here.kind = "point"
    /\ IF IsScalarValue(Here.is) THEN Write(ScalarChar) ELSE Fault("invalid_unicode")

FaultCode == [kind \in {"line end", "control", "bad escape", "bad hex"} |->
                CASE kind = "line end" -> "unterminated_string" [] kind = "control" -> "unprintable"
                  [] kind = "bad escape" -> "unexpected"        [] kind = "bad hex" -> "invalid_ascii"]
Malformed == Scanning /\ Here.kind \in DOMAIN FaultCode /\ Fault(FaultCode[Here.kind])

Unterminated == answer = "" /\ at > Len(body) /\ Fault("unterminated_string")

Close == /\ Scanning /\ Here.kind = "quote"
         /\ out' = Flushed /\ pending' = <<>> /\ answer' = "decoded"
         /\ UNCHANGED <<body, at>>

Start(b) == body = b /\ at = 1 /\ out = <<>> /\ pending = <<>> /\ answer = ""
Init == \E b \in Bodies : Start(b)

Next == PlainChar \/ Escape \/ ByteEscape \/ UnicodeEscape \/ Malformed \/ Unterminated \/ Close

Spec == Init /\ [][Next]_vars

-----------------------------------------------------------------------------
(* Properties.                                                             *)

\* The maximal subpart of the Unicode standard: the longest prefix of b that
\* begins a well-formed sequence, one byte if none does.
MaximalSubpart(b) ==
    IF Begins(b, 1) THEN CHOOSE n \in 1..Len(b) : Begins(b, n) /\ (n = Len(b) \/ ~Begins(b, n + 1))
    ELSE 1
Subparts(b) ==
    LET f[k \in 1..(Len(b) + 1)] ==
            LET rest == SubSeq(b, k, Len(b))
                n == MaximalSubpart(rest)
            IN IF rest = <<>> THEN <<>>
               ELSE <<IF IsRune(rest, n) THEN SubSeq(rest, 1, n) ELSE Replacement>> \o f[k + n]
    IN f[1]

Character(item) ==
    CASE item.kind = "point" -> ScalarChar
      [] item.kind = "escape" /\ item.is \in DOMAIN Named -> <<Named[item.is]>>
      [] OTHER -> <<item.is>>

\* What the items before the quote spell, a run of bytes at a time.
Spelt(its) ==
    LET f[k \in 1..(Len(its) + 1)] ==
            LET end == CHOOSE e \in k..(Len(its) + 1) :
                           /\ \A j \in k..(e - 1) : its[j].kind = "byte"
                           /\ e <= Len(its) => its[e].kind # "byte"
            IN IF k > Len(its) THEN <<>>
               ELSE IF end > k THEN Subparts([j \in 1..(end - k) |-> its[k + j - 1].is]) \o f[end]
               ELSE <<Character(its[k])>> \o f[k + 1]
    IN f[1]

\* "A run of `\xNN` escapes is a run of BYTES, as it is in Zig, decoded as
\* UTF-8 once the run ends", an ill-formed sequence becoming "one U+FFFD per
\* maximal subpart" (go/zon.go): the decoded string is what the items spell,
\* in their order, with no run cut and none joined over another character;
\* and the items up to the quote are all Zig's, a surrogate's escape not one.
DecodesRuns ==
    answer = "decoded" =>
        /\ out = Spelt(SubSeq(body, 1, at - 1))
        /\ \A k \in 1..(at - 1) : \/ body[k].kind \in {"plain", "escape", "byte"}
                                  \/ body[k] = [kind |-> "point", is |-> "scalar"]
=============================================================================
