----------------------------- MODULE NumberProofs -----------------------------
(***************************************************************************)
(* Proofs about the numbers of ZON, as ZonScalars runs them: the integers  *)
(* of ZonBigUint, for any literals and any widths of a limb and of a       *)
(* chunk, and the scanner of ZonNumber, for any source.                    *)
(***************************************************************************)
EXTENDS ScalarsProofs


-----------------------------------------------------------------------------
(* Numerals.                                                               *)

LEMMA Products ==
    ASSUME NEW x \in Nat, NEW y \in Nat
    PROVE  x * y \in Nat /\ x + y \in Nat /\ x * 0 = 0 /\ x * 1 = x
  OBVIOUS

\* The values of s from each place on.
Horner(f, b, s, high) ==
    f = [k \in 1..(Len(s) + 1) |-> IF k > Len(s) THEN high ELSE s[k] + b * f[k + 1]]

LEMMA HornerIs ==
    ASSUME NEW s \in Seq(Nat), NEW b, NEW high, NEW f
    PROVE  Horner(f, b, s, high) <=> /\ f = [k \in 1..(Len(s) + 1) |-> f[k]]
                                     /\ f[Len(s) + 1] = high
                                     /\ \A k \in 1..Len(s) : f[k] = s[k] + b * f[k + 1]
<1> DEFINE n == Len(s)
<1>1. n \in Nat
  OBVIOUS
<1>2. \A k \in 1..(n + 1) : (k > n <=> k = n + 1) /\ (k # n + 1 => k \in 1..n)
  BY <1>1
<1>3. \A k \in 1..n : k \in 1..(n + 1) /\ ~(k > n)
  BY <1>1
<1>4. n + 1 \in 1..(n + 1) /\ n + 1 > n
  BY <1>1
<1> HIDE DEF n
<1>5. ASSUME Horner(f, b, s, high)
      PROVE  f = [k \in 1..(n + 1) |-> f[k]] /\ f[n + 1] = high /\ \A k \in 1..n : f[k] = s[k] + b * f[k + 1]
  <2>1. f = [k \in 1..(n + 1) |-> IF k > n THEN high ELSE s[k] + b * f[k + 1]]
    BY <1>5 DEF Horner, n
  <2> QED
    BY <1>3, <1>4, <2>1
<1>6. ASSUME f = [k \in 1..(n + 1) |-> f[k]], f[n + 1] = high, \A k \in 1..n : f[k] = s[k] + b * f[k + 1]
      PROVE  Horner(f, b, s, high)
  <2>1. \A k \in 1..(n + 1) : f[k] = IF k > n THEN high ELSE s[k] + b * f[k + 1]
    BY <1>2, <1>6
  <2>2. f = [k \in 1..(n + 1) |-> IF k > n THEN high ELSE s[k] + b * f[k + 1]]
    BY <1>6, <2>1
  <2> QED
    BY <2>2 DEF Horner, n
<1> QED
  BY <1>5, <1>6 DEF n

Climbs(f, b, s, high) == f[Len(s) + 1] = high /\ \A k \in 1..Len(s) : f[k] = s[k] + b * f[k + 1]

LEMMA HornerClimbs ==
    ASSUME NEW s \in Seq(Nat), NEW b, NEW high, NEW f, Horner(f, b, s, high)
    PROVE  Climbs(f, b, s, high)
  BY HornerIs DEF Climbs

\* A recursion that comes back from the end of a sequence has a solution.
HasSolution(n, step, high) ==
    \E f \in [1..(n + 1) -> Nat] : f[n + 1] = high /\ \A k \in 1..n : f[k] = step[k][f[k + 1]]

LEMMA BackFrom ==
    ASSUME NEW n \in Nat, NEW step \in [1..n -> [Nat -> Nat]], NEW high \in Nat
    PROVE  HasSolution(n, step, high)
<1> DEFINE From(g, m) == g[n + 1] = high /\ \A k \in m..n : g[k] = step[k][g[k + 1]]
           T == {m \in 1..(n + 1) : \E g \in [1..(n + 1) -> Nat] : From(g, m)}
<1>1. n + 1 \in T
  <2> DEFINE g == [k \in 1..(n + 1) |-> high]
  <2>1. g \in [1..(n + 1) -> Nat] /\ From(g, n + 1)
    OBVIOUS
  <2>2. n + 1 \in 1..(n + 1)
    OBVIOUS
  <2> HIDE DEF g, From
  <2> QED
    BY <2>1, <2>2
<1>2. PICK m \in T : \A k \in T : m <= k
  <2>1. T \in SUBSET Nat
    OBVIOUS
  <2> HIDE DEF T
  <2> QED
    BY <1>1, <2>1, LeastOf, Zenon
<1>3. PICK g \in [1..(n + 1) -> Nat] : From(g, m)
  BY <1>2
<1>4. m = 1
  <2> SUFFICES ASSUME m # 1 PROVE m - 1 \in T
    <3>1. m \in 1..(n + 1)
      BY <1>2
    <3> HIDE DEF T
    <3> QED
      BY <1>2, <3>1
  <2>1. m \in 2..(n + 1) /\ m - 1 \in 1..n /\ m - 1 \in 1..(n + 1) /\ m \in 1..(n + 1) /\ (m - 1) + 1 = m
    BY <1>2
  <2> DEFINE x == step[m - 1][g[m]]
             h == [g EXCEPT ![m - 1] = x]
  <2>2. x \in Nat
    BY <2>1
  <2> HIDE DEF x
  <2>3. h \in [1..(n + 1) -> Nat]
    BY <2>2
  <2>4. h[m - 1] = x /\ \A k \in 1..(n + 1) : k # m - 1 => h[k] = g[k]
    BY <2>1
  <2>5. ASSUME NEW k \in (m - 1)..n PROVE h[k] = step[k][h[k + 1]]
    <3>1. k + 1 \in 1..(n + 1) /\ k + 1 # m - 1 /\ k \in 1..(n + 1)
      BY <2>1
    <3>2. k # m - 1 => k \in m..n
      BY <2>1
    <3> HIDE DEF h
    <3>3. CASE k = m - 1
      BY <2>1, <2>4, <3>1, <3>3 DEF x
    <3>4. CASE k # m - 1
      BY <1>3, <2>4, <3>1, <3>2, <3>4
    <3> QED
      BY <3>3, <3>4
  <2>6. h[n + 1] = high
    BY <1>3, <2>1, <2>4
  <2> HIDE DEF h
  <2> QED
    BY <2>1, <2>3, <2>5, <2>6
<1> QED
  BY <1>3, <1>4 DEF HasSolution

LEMMA HornerExists ==
    ASSUME NEW s \in Seq(Nat), NEW b \in Nat, NEW high \in Nat
    PROVE  \E f \in [1..(Len(s) + 1) -> Nat] : Horner(f, b, s, high)
<1> DEFINE n == Len(s)
           step == [k \in 1..n |-> [x \in Nat |-> s[k] + b * x]]
<1>1. n \in Nat /\ \A k \in 1..n : s[k] \in Nat
  OBVIOUS
<1>2. step \in [1..n -> [Nat -> Nat]]
  <2>1. ASSUME NEW k \in 1..n, NEW x \in Nat PROVE s[k] + b * x \in Nat
    <3>1. PICK y \in Nat : y = s[k]
      BY <1>1
    <3> QED
      BY <3>1, Products
  <2> QED
    BY <2>1
<1>3. \A k \in 1..n, x \in Nat : step[k][x] = s[k] + b * x
  OBVIOUS
<1> HIDE DEF step
<1>4. PICK f \in [1..(n + 1) -> Nat] : f[n + 1] = high /\ \A k \in 1..n : f[k] = step[k][f[k + 1]]
  <2>1. HasSolution(n, step, high)
    BY <1>1, <1>2, BackFrom
  <2> QED
    BY <2>1 DEF HasSolution
<1>5. \A k \in 1..n : f[k] = s[k] + b * f[k + 1]
  <2>1. \A k \in 1..n : k + 1 \in 1..(n + 1)
    BY <1>1
  <2> QED
    BY <1>3, <1>4, <2>1
<1>6. f = [k \in 1..(n + 1) |-> f[k]]
  OBVIOUS
<1>7. Horner(f, b, s, high)
  BY <1>4, <1>5, <1>6, HornerIs
<1> QED
  BY <1>7

\* What a numeral is, by any of its solutions.
LEMMA NumeralBy ==
    ASSUME NEW s \in Seq(Nat), NEW b, NEW high, NEW f, Horner(f, b, s, high)
    PROVE  Big!Numeral(b, s, high) = f[1]
<1> DEFINE g == CHOOSE g : Horner(g, b, s, high)
           n == Len(s)
<1>1. Horner(g, b, s, high)
  OBVIOUS
<1>2. Big!Numeral(b, s, high) = g[1]
  BY DEF Big!Numeral, Horner
<1> HIDE DEF g
<1>3. n \in Nat
  OBVIOUS
<1> HIDE DEF n
<1>4. /\ f[n + 1] = g[n + 1]
      /\ \A k \in 1..n : f[k] = s[k] + b * f[k + 1] /\ g[k] = s[k] + b * g[k + 1]
  BY <1>1, HornerIs DEF n
<1> DEFINE T == {k \in 1..n : f[k] = g[k]}
<1>5. ASSUME NEW k \in 1..n, \A j \in (k + 1)..n : j \in T PROVE k \in T
  <2>1. k + 1 = n + 1 \/ k + 1 \in (k + 1)..n
    BY <1>3
  <2>2. f[k + 1] = g[k + 1]
    BY <1>4, <1>5, <2>1
  <2> QED
    BY <1>4, <2>2
<1>6. \A k \in 1..n : k \in T
  <2> HIDE DEF T
  <2> QED
    BY <1>3, <1>5, Backward, Zenon
<1>7. f[1] = g[1]
  <2>1. 1 \in 1..n \/ n = 0
    BY <1>3
  <2>2. CASE n = 0
    BY <1>4, <2>2
  <2> QED
    BY <1>6, <2>1, <2>2
<1> QED
  BY <1>2, <1>7

LEMMA NumeralIs ==
    ASSUME NEW s \in Seq(Nat), NEW b \in Nat, NEW high \in Nat
    PROVE  /\ Big!Numeral(b, s, high) \in Nat
           /\ \E f \in [1..(Len(s) + 1) -> Nat] : Climbs(f, b, s, high) /\ Big!Numeral(b, s, high) = f[1]
<1>1. PICK f \in [1..(Len(s) + 1) -> Nat] : Horner(f, b, s, high)
  BY HornerExists
<1>2. Big!Numeral(b, s, high) = f[1]
  BY <1>1, NumeralBy
<1>3. 1 \in 1..(Len(s) + 1)
  OBVIOUS
<1>4. Climbs(f, b, s, high)
  BY <1>1, HornerClimbs
<1> QED
  BY <1>1, <1>2, <1>3, <1>4

\* The last digit is a part of what is above the others.
LEMMA NumeralAppend ==
    ASSUME NEW s \in Seq(Nat), NEW x \in Nat, NEW b \in Nat, NEW high \in Nat
    PROVE  Big!Numeral(b, Append(s, x), high) = Big!Numeral(b, s, x + b * high)
<1> DEFINE t == Append(s, x)
           n == Len(s)
<1>1. t \in Seq(Nat)
  OBVIOUS
<1>2. n \in Nat /\ Len(t) = n + 1 /\ t[n + 1] = x /\ \A k \in 1..n : t[k] = s[k]
  OBVIOUS
<1> HIDE DEF t
<1>3. PICK f \in [1..(Len(t) + 1) -> Nat] : Climbs(f, b, t, high) /\ Big!Numeral(b, t, high) = f[1]
  BY <1>1, NumeralIs, Zenon
<1>4. f[(n + 1) + 1] = high /\ \A k \in 1..(n + 1) : f[k] = t[k] + b * f[k + 1]
  BY <1>2, <1>3 DEF Climbs
<1> DEFINE g == [k \in 1..(n + 1) |-> f[k]]
<1>5. g[n + 1] = x + b * high
  <2>1. n + 1 \in 1..(n + 1)
    BY <1>2
  <2> QED
    BY <1>2, <1>4, <2>1
<1>6. \A k \in 1..n : g[k] = s[k] + b * g[k + 1]
  <2>1. \A k \in 1..n : k \in 1..(n + 1) /\ k + 1 \in 1..(n + 1)
    BY <1>2
  <2> QED
    BY <1>2, <1>4, <2>1
<1>7. g = [k \in 1..(n + 1) |-> g[k]] /\ g[1] = f[1]
  BY <1>2
<1> HIDE DEF g
<1>8. Horner(g, b, s, x + b * high)
  BY <1>5, <1>6, <1>7, HornerIs
<1>9. Big!Numeral(b, s, x + b * high) = g[1]
  BY <1>8, NumeralBy
<1> QED
  BY <1>3, <1>7, <1>9 DEF t

\* Zeros on top count for nothing.
LEMMA NumeralTrim ==
    ASSUME NEW s \in Seq(Nat), NEW b \in Nat, NEW m \in 0..Len(s), \A k \in (m + 1)..Len(s) : s[k] = 0
    PROVE  Big!Numeral(b, SubSeq(s, 1, m), 0) = Big!Numeral(b, s, 0)
<1> DEFINE n == Len(s)
           t == SubSeq(s, 1, m)
<1>1. t \in Seq(Nat) /\ Len(t) = m /\ \A k \in 1..m : t[k] = s[k]
  BY SubSeqProperties
<1>0. n \in Nat /\ m \in Nat /\ m <= n
  OBVIOUS
<1> HIDE DEF t
<1>z. 0 \in Nat
  OBVIOUS
<1>2. PICK f \in [1..(n + 1) -> Nat] : Climbs(f, b, s, 0) /\ Big!Numeral(b, s, 0) = f[1]
  BY <1>z, NumeralIs, Zenon
<1>3. f[n + 1] = 0 /\ \A k \in 1..n : f[k] = s[k] + b * f[k + 1]
  BY <1>2 DEF Climbs
<1> HIDE DEF n
<1> DEFINE T == {k \in 1..n : k > m => f[k] = 0}
<1>4. ASSUME NEW k \in 1..n, \A j \in (k + 1)..n : j \in T PROVE k \in T
  <2> SUFFICES ASSUME k > m PROVE f[k] = 0
    OBVIOUS
  <2>1. k + 1 = n + 1 \/ (k + 1 \in (k + 1)..n /\ k + 1 > m)
    BY <1>0
  <2>2. f[k + 1] = 0
    BY <1>3, <1>4, <2>1
  <2>3. s[k] = 0 /\ b * 0 = 0
    BY <1>0, Products DEF n
  <2> QED
    BY <1>3, <2>2, <2>3
<1>5. \A k \in 1..n : k \in T
  <2> HIDE DEF T
  <2> QED
    BY <1>0, <1>4, Backward, Zenon
<1>6. f[m + 1] = 0
  <2>1. m + 1 = n + 1 \/ (m + 1 \in 1..n /\ m + 1 > m)
    BY <1>0
  <2> QED
    BY <1>3, <1>5, <2>1
<1> DEFINE g == [k \in 1..(m + 1) |-> f[k]]
<1>7. g[m + 1] = 0 /\ g[1] = f[1]
  BY <1>0, <1>6
<1>8. \A k \in 1..m : g[k] = t[k] + b * g[k + 1]
  <2>1. \A k \in 1..m : k \in 1..(m + 1) /\ k + 1 \in 1..(m + 1) /\ k \in 1..n
    BY <1>0
  <2> QED
    BY <1>1, <1>3, <2>1
<1>9. g = [k \in 1..(m + 1) |-> g[k]]
  OBVIOUS
<1> HIDE DEF g
<1>10. Horner(g, b, t, 0)
  BY <1>1, <1>7, <1>8, <1>9, HornerIs
<1>11. Big!Numeral(b, t, 0) = g[1]
  BY <1>1, <1>10, NumeralBy
<1> QED
  BY <1>2, <1>7, <1>11 DEF t

LEMMA Ring ==
    ASSUME NEW y \in Nat, NEW b \in Nat, NEW g \in Nat, NEW h \in Nat, NEW p \in Nat
    PROVE  /\ y + b * (g + h * p) = (y + b * g) + h * (0 + b * p)
           /\ b * (g + h) = b * g + b * h
           /\ b * g = g * b /\ b * (g * h) = (b * g) * h
  OBVIOUS

\* What is above the digits counts as many times as they have places.
LEMMA NumeralShift ==
    ASSUME NEW s \in Seq(Nat), NEW b \in Nat, NEW high \in Nat
    PROVE  Big!Numeral(b, s, high) = Big!Numeral(b, s, 0) + high * Big!Power(b, Len(s))
<1> DEFINE n == Len(s)
           z == [k \in 1..n |-> 0]
<1>0. n \in Nat /\ 0 \in Nat /\ 1 \in Nat
  OBVIOUS
<1>1. z \in Seq(Nat) /\ Len(z) = n /\ \A k \in 1..n : z[k] = 0
  <2>1. z \in [1..n -> Nat]
    OBVIOUS
  <2> QED
    BY <1>0, <2>1
<1>2. Big!Power(b, n) = Big!Numeral(b, z, 1)
  BY DEF Big!Power
<1>3. \A k \in 1..n : s[k] \in Nat
  OBVIOUS
<1>4. PICK f \in [1..(n + 1) -> Nat] : Climbs(f, b, s, high) /\ Big!Numeral(b, s, high) = f[1]
  BY <1>0, NumeralIs, Zenon
<1>5. PICK g \in [1..(n + 1) -> Nat] : Climbs(g, b, s, 0) /\ Big!Numeral(b, s, 0) = g[1]
  BY <1>0, NumeralIs, Zenon
<1> HIDE DEF z
<1>6. PICK p \in [1..(Len(z) + 1) -> Nat] : Climbs(p, b, z, 1) /\ Big!Numeral(b, z, 1) = p[1]
  BY <1>0, <1>1, NumeralIs, Zenon
<1>7. f[n + 1] = high /\ \A k \in 1..n : f[k] = s[k] + b * f[k + 1]
  BY <1>4 DEF Climbs
<1>8. g[n + 1] = 0 /\ \A k \in 1..n : g[k] = s[k] + b * g[k + 1]
  BY <1>5 DEF Climbs
<1>9. p[Len(z) + 1] = 1 /\ \A k \in 1..Len(z) : p[k] = z[k] + b * p[k + 1]
  BY <1>1, <1>6 DEF Climbs
<1>10. p \in [1..(n + 1) -> Nat] /\ p[n + 1] = 1 /\ \A k \in 1..n : p[k] = 0 + b * p[k + 1]
  BY <1>1, <1>6, <1>9
<1> HIDE DEF n
<1> DEFINE T == {k \in 1..n : f[k] = g[k] + high * p[k]}
<1>11. ASSUME NEW k \in 1..n, \A j \in (k + 1)..n : j \in T PROVE k \in T
  <2>1. f[k + 1] = g[k + 1] + high * p[k + 1]
    <3>1. CASE k + 1 = n + 1
      <4>1. high = 0 + high * 1
        BY Products
      <4> QED
        BY <1>7, <1>8, <1>10, <3>1, <4>1
    <3>2. k + 1 = n + 1 \/ k + 1 \in (k + 1)..n
      BY <1>0
    <3> QED
      BY <1>11, <3>1, <3>2
  <2>2. PICK y \in Nat, u \in Nat, v \in Nat : y = s[k] /\ u = g[k + 1] /\ v = p[k + 1]
    <3>1. k + 1 \in 1..(n + 1)
      BY <1>0
    <3>2. s[k] \in Nat /\ g[k + 1] \in Nat /\ p[k + 1] \in Nat
      BY <1>3, <1>10, <3>1
    <3> QED
      BY <3>2
  <2>3. f[k] = y + b * (u + high * v) /\ g[k] = y + b * u /\ p[k] = 0 + b * v
    BY <1>7, <1>8, <1>10, <2>1, <2>2
  <2>4. y + b * (u + high * v) = (y + b * u) + high * (0 + b * v)
    BY Ring
  <2> QED
    BY <2>3, <2>4
<1>12. \A k \in 1..n : k \in T
  <2> HIDE DEF T
  <2> QED
    BY <1>0, <1>11, Backward, Zenon
<1>13. f[1] = g[1] + high * p[1]
  <2>1. 1 \in 1..n \/ n = 0
    BY <1>0
  <2>2. CASE n = 0
    <3>1. high = 0 + high * 1
      BY Products
    <3> QED
      BY <1>7, <1>8, <1>10, <2>2, <3>1
  <2> QED
    BY <1>12, <2>1, <2>2
<1> QED
  BY <1>2, <1>4, <1>5, <1>6, <1>13 DEF n

LEMMA NumeralNone ==
    ASSUME NEW b \in Nat, NEW high \in Nat
    PROVE  Big!Numeral(b, <<>>, high) = high
<1>1. <<>> \in Seq(Nat) /\ Len(<<>>) = 0
  OBVIOUS
<1>2. PICK f \in [1..(Len(<<>>) + 1) -> Nat] : Climbs(f, b, <<>>, high) /\ Big!Numeral(b, <<>>, high) = f[1]
  BY <1>1, NumeralIs, Zenon
<1> QED
  BY <1>1, <1>2 DEF Climbs

\* The powers of b.
LEMMA PowerNext ==
    ASSUME NEW b \in Nat, NEW n \in Nat
    PROVE  Big!Power(b, n) \in Nat /\ Big!Power(b, 0) = 1 /\ Big!Power(b, n + 1) = b * Big!Power(b, n)
<1> DEFINE z == [k \in 1..n |-> 0]
           t == [k \in 1..(n + 1) |-> 0]
<1>0. 0 \in Nat /\ 1 \in Nat
  OBVIOUS
<1>1. z \in Seq(Nat) /\ Len(z) = n
  <2>1. z \in [1..n -> Nat]
    OBVIOUS
  <2> QED
    BY <2>1
<1>2. t = Append(z, 0)
  <2>1. t \in [1..(n + 1) -> Nat]
    OBVIOUS
  <2>2. t \in Seq(Nat) /\ Len(t) = n + 1
    BY <2>1
  <2>3. Append(z, 0) \in Seq(Nat) /\ Len(Append(z, 0)) = n + 1
    BY <1>1
  <2>4. \A k \in 1..(n + 1) : t[k] = 0
    OBVIOUS
  <2>5. \A k \in 1..(n + 1) : Append(z, 0)[k] = 0
    BY <1>1
  <2> HIDE DEF t, z
  <2> QED
    BY <2>2, <2>3, <2>4, <2>5, SeqEqual
<1>3. Big!Power(b, n) = Big!Numeral(b, z, 1) /\ Big!Power(b, n + 1) = Big!Numeral(b, t, 1)
  BY DEF Big!Power
<1>4. Big!Power(b, 0) = 1
  <2>1. [k \in 1..0 |-> 0] = <<>>
    OBVIOUS
  <2>2. Big!Numeral(b, <<>>, 1) = 1
    BY <1>0, NumeralNone, Zenon
  <2> QED
    BY <2>1, <2>2 DEF Big!Power
<1>5. Big!Numeral(b, z, 0) = 0
  <2>1. SubSeq(z, 1, 0) = <<>> /\ 0 \in 0..Len(z) /\ \A k \in (0 + 1)..Len(z) : z[k] = 0
    BY <1>1
  <2> HIDE DEF z
  <2>2. Big!Numeral(b, SubSeq(z, 1, 0), 0) = Big!Numeral(b, z, 0)
    BY <1>1, <2>1, NumeralTrim
  <2>3. Big!Numeral(b, <<>>, 0) = 0
    BY <1>0, NumeralNone, Zenon
  <2> QED
    BY <2>1, <2>2, <2>3
<1> HIDE DEF z, t
<1>6. Big!Numeral(b, t, 1) = Big!Numeral(b, z, 0 + b * 1)
  BY <1>0, <1>1, <1>2, NumeralAppend
<1>7. 0 + b * 1 = b
  BY Products
<1>8. Big!Numeral(b, z, b) = 0 + b * Big!Power(b, n)
  BY <1>1, <1>5, NumeralShift
<1>9. Big!Power(b, n) \in Nat
  BY <1>0, <1>1, <1>3, NumeralIs
<1>10. b * Big!Power(b, n) \in Nat /\ 0 + b * Big!Power(b, n) = b * Big!Power(b, n)
  BY <1>9, Products
<1> QED
  BY <1>3, <1>4, <1>6, <1>7, <1>8, <1>9, <1>10

\* Positive, and adding up.
LEMMA PowerIs ==
    ASSUME NEW b \in Nat \ {0}, NEW n \in Nat
    PROVE  Big!Power(b, n) \in Nat \ {0}
<1> DEFINE T == {m \in Nat : Big!Power(b, m) = 0}
<1>1. T = {}
  <2> SUFFICES ASSUME T # {} PROVE FALSE
    OBVIOUS
  <2>1. PICK m \in T : \A k \in T : m <= k
    <3>1. T \in SUBSET Nat
      OBVIOUS
    <3> HIDE DEF T
    <3> QED
      BY <3>1, LeastOf, Zenon
  <2>2. m # 0
    BY PowerNext
  <2>3. PICK k \in Nat : m = k + 1
    <3>1. m - 1 \in Nat /\ m = (m - 1) + 1
      BY <2>2
    <3> QED
      BY <3>1
  <2>4. Big!Power(b, k) \in Nat /\ Big!Power(b, m) = b * Big!Power(b, k)
    BY <2>3, PowerNext
  <2>5. Big!Power(b, k) # 0
    BY <2>1, <2>3
  <2> DEFINE p == Big!Power(b, k)
  <2>6. b * p # 0
    <3> HIDE DEF p
    <3>1. p \in Nat \ {0}
      BY <2>4, <2>5 DEF p
    <3> QED
      BY <3>1
  <2> QED
    BY <2>1, <2>4, <2>6
<1> QED
  BY <1>1, PowerNext

LEMMA PowerSum ==
    ASSUME NEW b \in Nat, NEW m \in Nat, NEW n \in Nat
    PROVE  Big!Power(b, m + n) = Big!Power(b, m) * Big!Power(b, n)
<1> DEFINE T == {k \in Nat : Big!Power(b, m + k) # Big!Power(b, m) * Big!Power(b, k)}
<1>1. T = {}
  <2> SUFFICES ASSUME T # {} PROVE FALSE
    OBVIOUS
  <2>1. PICK l \in T : \A k \in T : l <= k
    <3>1. T \in SUBSET Nat
      OBVIOUS
    <3> HIDE DEF T
    <3> QED
      BY <3>1, LeastOf, Zenon
  <2>2. PICK p \in Nat : p = Big!Power(b, m)
    BY PowerNext
  <2>3. l # 0
    <3>1. p * 1 = p
      BY Products
    <3>2. m + 0 = m /\ Big!Power(b, 0) = 1
      BY PowerNext
    <3> QED
      BY <2>1, <2>2, <3>1, <3>2
  <2>4. PICK k \in Nat : l = k + 1
    <3>1. l - 1 \in Nat /\ l = (l - 1) + 1
      BY <2>3
    <3> QED
      BY <3>1
  <2>5. Big!Power(b, m + k) = Big!Power(b, m) * Big!Power(b, k)
    BY <2>1, <2>4
  <2>6. PICK q \in Nat : q = Big!Power(b, k)
    BY PowerNext
  <2>7. Big!Power(b, l) = b * q
    BY <2>4, <2>6, PowerNext
  <2>8. Big!Power(b, m + l) = b * (p * q)
    <3>1. m + l = (m + k) + 1 /\ m + k \in Nat
      BY <2>4
    <3>2. Big!Power(b, (m + k) + 1) = b * Big!Power(b, m + k)
      BY <3>1, PowerNext
    <3> QED
      BY <2>2, <2>5, <2>6, <3>1, <3>2
  <2>9. b * (p * q) = p * (b * q)
    OBVIOUS
  <2> QED
    BY <2>1, <2>2, <2>7, <2>8, <2>9
<1> QED
  BY <1>1

\* A larger exponent, a larger power.
LEMMA PowerGrows ==
    ASSUME NEW b \in Nat \ {0}, NEW m \in Nat, NEW n \in Nat, m <= n
    PROVE  Big!Power(b, m) <= Big!Power(b, n)
<1>1. PICK k \in Nat : n = m + k
  <2>1. n - m \in Nat /\ n = m + (n - m)
    OBVIOUS
  <2> QED
    BY <2>1
<1>2. PICK p \in Nat \ {0}, q \in Nat \ {0} : p = Big!Power(b, m) /\ q = Big!Power(b, k)
  BY PowerIs
<1>3. Big!Power(b, n) = p * q
  BY <1>1, <1>2, PowerSum
<1>4. p <= p * q
  OBVIOUS
<1> QED
  BY <1>2, <1>3, <1>4

LEMMA DivMod ==
    ASSUME NEW a \in Nat, NEW m \in Nat \ {0}
    PROVE  a \div m \in Nat /\ a % m \in 0..(m - 1) /\ (a % m) + m * (a \div m) = a
  BY SMTT(30)

\* What is below p * m is below p when m is divided off.
LEMMA DivBelow ==
    ASSUME NEW a \in Nat, NEW m \in Nat \ {0}, NEW p \in Nat, a < p * m
    PROVE  a \div m < p
<1>1. PICK q \in Nat, r \in Nat : q = a \div m /\ r + m * q = a
  BY DivMod
<1>2. q >= p => m * q >= m * p
  OBVIOUS
<1>3. m * p = p * m /\ m * q \in Nat /\ p * m \in Nat
  OBVIOUS
<1> DEFINE x == m * q
           y == p * m
<1> HIDE DEF x, y
<1>4. q >= p => x >= y
  BY <1>2, <1>3 DEF x, y
<1>5. r + x = a /\ a < y /\ x \in Nat /\ y \in Nat
  BY <1>1, <1>3 DEF x, y
<1> QED
  BY <1>1, <1>4, <1>5

\* A digit above what is below p is below as many times p.
LEMMA DigitAbove ==
    ASSUME NEW a \in Nat, NEW p \in Nat, NEW b \in Nat, NEW d \in 0..(b - 1), a < p
    PROVE  a + d * p \in Nat /\ a + d * p < p * b
<1>1. d \in Nat /\ d + 1 <= b
  OBVIOUS
<1>2. (d + 1) * p <= b * p
  BY <1>1
<1>3. (d + 1) * p = d * p + p /\ b * p = p * b /\ d * p \in Nat
  BY <1>1
<1> DEFINE x == d * p
           y == p * b
<1> HIDE DEF x, y
<1> QED
  BY <1>2, <1>3 DEF x, y

\* The zeros trimmed off are those on top, and count for nothing.
LEMMA TrimmedIs ==
    ASSUME NEW s \in Seq(Nat), NEW b \in Nat
    PROVE  /\ Big!Trimmed(s) \in Seq(Nat)
           /\ Big!Numeral(b, Big!Trimmed(s), 0) = Big!Numeral(b, s, 0)
<1> DEFINE n == Len(s)
           Cuts(m) == /\ ~Big!LastIsZero(SubSeq(s, 1, m))
                      /\ \A k \in (m + 1)..n : s[k] = 0
           T == {m \in 0..n : \A k \in (m + 1)..n : s[k] = 0}
           m == CHOOSE m \in 0..n : Cuts(m)
<1>0. n \in Nat
  OBVIOUS
<1>1. \E l \in 0..n : Cuts(l)
  <2>1. n \in T
    BY <1>0
  <2>2. PICK l \in T : \A k \in T : l <= k
    <3>1. T \in SUBSET Nat
      OBVIOUS
    <3> HIDE DEF T
    <3> QED
      BY <2>1, <3>1, LeastOf, Zenon
  <2>3. l \in 0..n /\ \A k \in (l + 1)..n : s[k] = 0
    BY <2>2
  <2>4. ~Big!LastIsZero(SubSeq(s, 1, l))
    <3>1. SUFFICES ASSUME SubSeq(s, 1, l) # <<>>, SubSeq(s, 1, l)[Len(SubSeq(s, 1, l))] = 0 PROVE FALSE
      BY DEF Big!LastIsZero
    <3>2. Len(SubSeq(s, 1, l)) = l /\ (l # 0 => SubSeq(s, 1, l)[l] = s[l])
      BY <1>0, <2>3
    <3>3. l # 0
      BY <3>1, <3>2
    <3>4. s[l] = 0
      BY <3>1, <3>2, <3>3
    <3>5. l - 1 \in T
      <4>1. l - 1 \in 0..n
        BY <1>0, <2>3, <3>3
      <4>2. ASSUME NEW k \in ((l - 1) + 1)..n PROVE s[k] = 0
        <5>1. k = l \/ k \in (l + 1)..n
          BY <1>0, <2>3
        <5> QED
          BY <2>3, <3>4, <5>1
      <4> QED
        BY <4>1, <4>2
    <3> HIDE DEF T
    <3> QED
      BY <2>2, <2>3, <3>5
  <2> HIDE DEF T
  <2> QED
    BY <2>3, <2>4
<1>2. m \in 0..n /\ Cuts(m)
  <2> HIDE DEF Cuts
  <2> QED
    BY <1>1, Zenon
<1>3. Big!Trimmed(s) = SubSeq(s, 1, m)
  BY DEF Big!Trimmed
<1> HIDE DEF m
<1>4. SubSeq(s, 1, m) \in Seq(Nat)
  BY <1>0, <1>2, SubSeqProperties
<1>5. Big!Numeral(b, SubSeq(s, 1, m), 0) = Big!Numeral(b, s, 0)
  BY <1>2, NumeralTrim
<1> QED
  BY <1>3, <1>4, <1>5

\* The literal's digits, one more of them.
LEMMA ReverseSub ==
    ASSUME NEW D \in SUBSET Nat, NEW s \in Seq(D), NEW k \in 1..Len(s)
    PROVE  /\ Big!Reverse(SubSeq(s, k + 1, Len(s))) \in Seq(Nat)
           /\ Len(Big!Reverse(SubSeq(s, k + 1, Len(s)))) = Len(s) - k
           /\ Big!Reverse(SubSeq(s, k, Len(s))) = Append(Big!Reverse(SubSeq(s, k + 1, Len(s))), s[k])
<1> DEFINE n == Len(s)
           t == SubSeq(s, k, n)
           u == SubSeq(s, k + 1, n)
<1>1. n \in Nat /\ k \in 1..n /\ k \in Nat /\ k <= n /\ n - k \in Nat /\ \A p \in 1..n : s[p] \in Nat
  <2>1. n \in Nat /\ k \in 1..n /\ k \in Nat /\ k <= n /\ n - k \in Nat
    OBVIOUS
  <2>2. \A p \in 1..n : s[p] \in D
    OBVIOUS
  <2>3. \A x \in D : x \in Nat
    OBVIOUS
  <2> HIDE DEF n
  <2> QED
    BY <2>1, <2>2, <2>3
<1>2. /\ t \in Seq(D) /\ Len(t) = n - k + 1 /\ \A p \in 1..(n - k + 1) : t[p] = s[k + p - 1]
  BY <1>1
<1>3. /\ u \in Seq(D) /\ Len(u) = n - k /\ \A p \in 1..(n - k) : u[p] = s[k + p]
  BY <1>1
<1> HIDE DEF t, u, n
<1> DEFINE rt == [p \in 1..(n - k + 1) |-> t[(n - k + 1 - p) + 1]]
           ru == [p \in 1..(n - k) |-> u[(n - k - p) + 1]]
<1>4. Big!Reverse(t) = rt /\ Big!Reverse(u) = ru
  BY <1>2, <1>3, SMTT(30) DEF Big!Reverse
<1>5. \A p \in 1..(n - k + 1) : rt[p] = s[n - p + 1]
  <2> TAKE p \in 1..(n - k + 1)
  <2>1. (n - k + 1 - p) + 1 \in 1..(n - k + 1) /\ k + ((n - k + 1 - p) + 1) - 1 = n - p + 1
    BY <1>1
  <2> QED
    BY <1>2, <2>1
<1>6. \A p \in 1..(n - k) : ru[p] = s[n - p + 1]
  <2> TAKE p \in 1..(n - k)
  <2>1. PICK j \in 1..(n - k) : j = (n - k - p) + 1
    <3>1. (n - k - p) + 1 \in 1..(n - k)
      BY <1>1
    <3> QED
      BY <3>1
  <2>2. k + j = n - p + 1
    BY <1>1, <2>1
  <2>3. u[j] = s[k + j]
    BY <1>3
  <2>4. ru[p] = u[j]
    BY <2>1
  <2> QED
    BY <2>2, <2>3, <2>4
<1>7. ru \in Seq(Nat) /\ Len(ru) = n - k
  <2>1. \A p \in 1..(n - k) : n - p + 1 \in 1..n
    BY <1>1
  <2>2. \A p \in 1..(n - k) : ru[p] \in Nat
    BY <1>1, <1>6, <2>1
  <2>3. ru \in [1..(n - k) -> Nat] /\ n - k \in Nat
    BY <1>1, <2>2
  <2> HIDE DEF ru
  <2> QED
    BY <2>3
<1>8. rt \in Seq(Nat) /\ Len(rt) = n - k + 1
  <2>1. \A p \in 1..(n - k + 1) : n - p + 1 \in 1..n
    BY <1>1
  <2>2. \A p \in 1..(n - k + 1) : rt[p] \in Nat
    BY <1>1, <1>5, <2>1
  <2>3. rt \in [1..(n - k + 1) -> Nat] /\ n - k + 1 \in Nat
    BY <1>1, <2>2
  <2> HIDE DEF rt
  <2> QED
    BY <2>3
<1> HIDE DEF rt, ru
<1>9. PICK d \in Nat : d = s[k]
  BY <1>1
<1>10. /\ Append(ru, d) \in Seq(Nat) /\ Len(Append(ru, d)) = n - k + 1
       /\ \A p \in 1..(n - k) : Append(ru, d)[p] = ru[p]
       /\ Append(ru, d)[n - k + 1] = d
  BY <1>7, SMTT(30)
<1>11. rt = Append(ru, d)
  <2>1. ASSUME NEW p \in 1..(n - k + 1) PROVE rt[p] = Append(ru, d)[p]
    <3>1. CASE p = n - k + 1
      <4>1. n - p + 1 = k
        BY <1>1, <3>1
      <4> QED
        BY <1>5, <1>9, <1>10, <3>1, <4>1
    <3>2. CASE p # n - k + 1
      <4>1. p \in 1..(n - k)
        BY <1>1, <3>2
      <4> QED
        BY <1>5, <1>6, <1>10, <4>1
    <3> QED
      BY <3>1, <3>2
  <2> QED
    BY <1>8, <1>10, <2>1, SeqEqual
<1> QED
  BY <1>4, <1>7, <1>9, <1>11 DEF t, u, n

-----------------------------------------------------------------------------
(* Packing digits into limbs, and dividing chunks off.                     *)

\* A limb and a chunk are not zero.
LEMMA LimbIs == Big!Limb \in Nat \ {0} /\ Big!Chunk \in Nat \ {0} /\ LimbBits \in Nat \ {0}
<1>1. LimbBits \in Nat \ {0} /\ ChunkDigits \in Nat \ {0}
  BY WidthsAssumption
<1>2. Big!Power(2, LimbBits) \in Nat \ {0} /\ Big!Power(10, ChunkDigits) \in Nat \ {0}
  BY <1>1, PowerIs
<1> QED
  BY <1>1, <1>2 DEF Big!Limb, Big!Chunk

\* The limbs and the bits above them, fewer than g, are the n digits R.
Packs(ls, a, g, B, R, n) ==
    /\ a \in Nat /\ a < Big!Power(2, g)
    /\ Big!Power(2, g) * Big!Power(Big!Limb, Len(ls)) = Big!Power(B, n)
    /\ Big!Numeral(Big!Limb, ls, a) = Big!Numeral(B, R, 0)

\* A digit put above the bits packed so far.
LEMMA DigitPacked ==
    ASSUME NEW ls \in Seq(Nat), NEW a \in Nat, NEW f \in Nat, NEW bits \in Nat, NEW B, B = Big!Power(2, bits),
           NEW d \in 0..(B - 1), NEW R \in Seq(Nat), Packs(ls, a, f, B, R, Len(R))
    PROVE  Packs(ls, a + d * Big!Power(2, f), f + bits, B, Append(R, d), Len(R) + 1)
<1> USE LimbIs
<1>1. PICK p \in Nat, q \in Nat, r \in Nat, M \in Nat :
          p = Big!Power(2, f) /\ M = Big!Limb /\ q = Big!Power(M, Len(ls)) /\ r = Big!Power(B, Len(R))
  <2>1. B \in Nat
    BY PowerIs
  <2>2. 2 \in Nat /\ Len(ls) \in Nat /\ Len(R) \in Nat /\ Big!Limb \in Nat
    OBVIOUS
  <2>3. Big!Power(2, f) \in Nat /\ Big!Power(Big!Limb, Len(ls)) \in Nat /\ Big!Power(B, Len(R)) \in Nat
    BY <2>1, <2>2, PowerNext, Zenon
  <2> QED
    BY <2>2, <2>3
<1>2. B \in Nat /\ d \in Nat /\ d \in 0..(B - 1)
  <2>1. B \in Nat
    BY PowerIs
  <2> QED
    BY <2>1
<1>3. Big!Power(2, f + bits) = p * B
  BY <1>1, PowerSum, SMTT(30)
<1>4. a + d * p \in Nat /\ a + d * p < p * B
  BY <1>1, <1>2, DigitAbove DEF Packs
<1>5. p * q = r
  BY <1>1 DEF Packs
<1>6. (p * B) * q = B * r
  <2>1. (p * B) * q = B * (p * q)
    BY <1>2
  <2> QED
    BY <1>5, <2>1
<1>7. Big!Power(B, Len(R) + 1) = B * r
  BY <1>1, <1>2, PowerNext, SMTT(30)
<1>8. Big!Numeral(M, ls, a + d * p) = Big!Numeral(B, Append(R, d), 0)
  <2>1. PICK z \in Nat, x \in Nat : z = Big!Numeral(M, ls, 0) /\ x = Big!Numeral(B, R, 0)
    <3>1. 0 \in Nat
      OBVIOUS
    <3> QED
      BY <1>2, <3>1, NumeralIs
  <2>2. Big!Numeral(M, ls, a + d * p) = z + (a + d * p) * q
    BY <1>1, <1>4, <2>1, NumeralShift
  <2>3. x = z + a * q
    BY <1>1, <2>1, NumeralShift DEF Packs
  <2>4. Big!Numeral(B, Append(R, d), 0) = Big!Numeral(B, R, d)
    <3>1. 0 \in Nat /\ d + B * 0 = d
      BY <1>2, Products
    <3> QED
      BY <1>2, <3>1, NumeralAppend
  <2>5. Big!Numeral(B, R, d) = x + d * r
    BY <1>1, <1>2, <2>1, NumeralShift
  <2>6. z + (a + d * p) * q = (z + a * q) + d * (p * q)
    BY <1>2
  <2> QED
    BY <1>5, <2>2, <2>3, <2>4, <2>5, <2>6
<1> QED
  BY <1>1, <1>3, <1>4, <1>6, <1>7, <1>8 DEF Packs

\* A limb taken off the bottom of the bits, where they fill one.
LEMMA LimbTaken ==
    ASSUME NEW ls \in Seq(Nat), NEW sum \in Nat, NEW g \in Nat, NEW B, NEW R, NEW n, g >= LimbBits, Packs(ls, sum, g, B, R, n)
    PROVE  /\ Append(ls, sum % Big!Limb) \in Seq(Nat)
           /\ Packs(Append(ls, sum % Big!Limb), sum \div Big!Limb, g - LimbBits, B, R, n)
<1> USE LimbIs
<1>1. PICK e \in Nat : e = g - LimbBits /\ g = e + LimbBits
  <2>1. g - LimbBits \in Nat /\ g = (g - LimbBits) + LimbBits
    OBVIOUS
  <2> QED
    BY <2>1
<1>2. PICK p \in Nat, M \in Nat \ {0}, q \in Nat :
          p = Big!Power(2, e) /\ M = Big!Limb /\ q = Big!Power(M, Len(ls))
  <2>0. 2 \in Nat /\ Len(ls) \in Nat /\ Big!Limb \in Nat
    OBVIOUS
  <2>1. Big!Power(2, e) \in Nat /\ Big!Power(Big!Limb, Len(ls)) \in Nat
    BY <2>0, PowerNext, Zenon
  <2> QED
    BY <2>1
<1>3. Big!Power(2, g) = p * M
  BY <1>1, <1>2, PowerSum DEF Big!Limb
<1>4. sum \div M < p
  BY <1>2, <1>3, DivBelow DEF Packs
<1>5. Big!Power(M, Len(ls) + 1) = M * q
  BY <1>2, PowerNext
<1>6. p * (M * q) = (p * M) * q
  OBVIOUS
<1>7. PICK h \in Nat, l \in Nat : h = sum \div M /\ l = sum % M /\ l + M * h = sum
  <2>1. sum \div M \in Nat /\ sum % M \in 0..(M - 1) /\ (sum % M) + M * (sum \div M) = sum
    BY DivMod
  <2>2. sum % M \in Nat
    BY <2>1
  <2> QED
    BY <2>1, <2>2
<1>8. Big!Numeral(M, Append(ls, l), h) = Big!Numeral(M, ls, sum)
  <2>1. M \in Nat /\ Big!Numeral(M, Append(ls, l), h) = Big!Numeral(M, ls, l + M * h)
    BY NumeralAppend
  <2> QED
    BY <1>7, <2>1
<1>9. Append(ls, l) \in Seq(Nat) /\ Len(Append(ls, l)) = Len(ls) + 1
  OBVIOUS
<1>10. Big!Power(2, e) * Big!Power(M, Len(Append(ls, l))) = Big!Power(B, n)
  BY <1>2, <1>3, <1>5, <1>6, <1>9 DEF Packs
<1>11. Packs(Append(ls, l), h, e, B, R, n)
  BY <1>2, <1>4, <1>7, <1>8, <1>10 DEF Packs
<1> QED
  BY <1>1, <1>2, <1>7, <1>9, <1>11

\* Long division by a chunk.
Remains(r, s) ==
    r = [k \in 1..(Len(s) + 1) |-> IF k > Len(s) THEN 0 ELSE (r[k + 1] * Big!Limb + s[k]) % Big!Chunk]
Divided(r, s) == [k \in DOMAIN s |-> (r[k + 1] * Big!Limb + s[k]) \div Big!Chunk]

LEMMA RemainsGives ==
    ASSUME NEW s \in Seq(Nat), NEW r
    PROVE  Remains(r, s) <=> /\ r = [k \in 1..(Len(s) + 1) |-> r[k]]
                             /\ r[Len(s) + 1] = 0
                             /\ \A k \in 1..Len(s) : r[k] = (r[k + 1] * Big!Limb + s[k]) % Big!Chunk
<1> DEFINE n == Len(s)
           v(k) == (r[k + 1] * Big!Limb + s[k]) % Big!Chunk
<1>1. n \in Nat
  OBVIOUS
<1>2. Remains(r, s) <=> r = [k \in 1..(n + 1) |-> IF k > n THEN 0 ELSE v(k)]
  BY DEF Remains
<1> HIDE DEF n, v
<1>3. \A k \in 1..(n + 1) : (k > n <=> k = n + 1) /\ (k # n + 1 => k \in 1..n)
  BY <1>1
<1>4. \A k \in 1..n : k \in 1..(n + 1) /\ ~(k > n)
  BY <1>1
<1>5. n + 1 \in 1..(n + 1) /\ n + 1 > n
  BY <1>1
<1>6. ASSUME r = [k \in 1..(n + 1) |-> IF k > n THEN 0 ELSE v(k)]
      PROVE  r = [k \in 1..(n + 1) |-> r[k]] /\ r[n + 1] = 0 /\ \A k \in 1..n : r[k] = v(k)
  BY <1>4, <1>5, <1>6
<1>7. ASSUME r = [k \in 1..(n + 1) |-> r[k]], r[n + 1] = 0, \A k \in 1..n : r[k] = v(k)
      PROVE  r = [k \in 1..(n + 1) |-> IF k > n THEN 0 ELSE v(k)]
  <2>1. \A k \in 1..(n + 1) : r[k] = IF k > n THEN 0 ELSE v(k)
    BY <1>3, <1>7
  <2> QED
    BY <1>7, <2>1
<1>8. Remains(r, s) <=> /\ r = [k \in 1..(n + 1) |-> r[k]] /\ r[n + 1] = 0 /\ \A k \in 1..n : r[k] = v(k)
  BY <1>2, <1>6, <1>7
<1> QED
  BY <1>8 DEF n, v

LEMMA RemainsExists ==
    ASSUME NEW s \in Seq(Nat)
    PROVE  \E r : Remains(r, s)
<1> DEFINE n == Len(s)
           step == [k \in 1..n |-> [x \in Nat |-> (x * Big!Limb + s[k]) % Big!Chunk]]
<1> USE LimbIs
<1>1. n \in Nat /\ 0 \in Nat /\ \A k \in 1..n : s[k] \in Nat
  OBVIOUS
<1>2. step \in [1..n -> [Nat -> Nat]]
  <2>1. ASSUME NEW k \in 1..n, NEW x \in Nat PROVE (x * Big!Limb + s[k]) % Big!Chunk \in Nat
    <3>1. PICK y \in Nat, M \in Nat, C \in Nat \ {0} : y = s[k] /\ M = Big!Limb /\ C = Big!Chunk
      BY <1>1
    <3>2. x * M + y \in Nat
      BY Products
    <3>3. (x * M + y) % C \in 0..(C - 1)
      BY <3>2, DivMod
    <3> QED
      BY <3>1, <3>3
  <2> QED
    BY <2>1
<1>3. \A k \in 1..n, x \in Nat : step[k][x] = (x * Big!Limb + s[k]) % Big!Chunk
  OBVIOUS
<1> HIDE DEF step
<1>4. PICK r \in [1..(n + 1) -> Nat] : r[n + 1] = 0 /\ \A k \in 1..n : r[k] = step[k][r[k + 1]]
  <2>1. HasSolution(n, step, 0)
    BY <1>1, <1>2, BackFrom
  <2> QED
    BY <2>1 DEF HasSolution
<1>5. \A k \in 1..n : r[k] = (r[k + 1] * Big!Limb + s[k]) % Big!Chunk
  <2>1. \A k \in 1..n : k + 1 \in 1..(n + 1)
    BY <1>1
  <2> QED
    BY <1>3, <1>4, <2>1
<1>6. r = [k \in 1..(n + 1) |-> r[k]]
  OBVIOUS
<1>7. Remains(r, s)
  BY <1>4, <1>5, <1>6, RemainsGives
<1> QED
  BY <1>7

\* One step of it.
Divides(y, M, C, q, r) == y + M * (r + C * q) = ((r * M + y) % C) + C * (((r * M + y) \div C) + M * q)

LEMMA LongDivision ==
    ASSUME NEW y \in Nat, NEW M \in Nat, NEW C \in Nat \ {0}, NEW q \in Nat, NEW r \in Nat
    PROVE  /\ (r * M + y) \div C \in Nat /\ (r * M + y) % C \in Nat
           /\ Divides(y, M, C, q, r)
<1>1. PICK v \in Nat : v = r * M + y
  BY Products
<1>2. v \div C \in Nat /\ v % C \in 0..(C - 1) /\ (v % C) + C * (v \div C) = v
  BY DivMod
<1>3. PICK a \in Nat, b \in Nat : a = v % C /\ b = v \div C /\ a + C * b = v
  <2>1. v % C \in Nat
    BY <1>2
  <2> QED
    BY <1>2, <2>1
<1>4. y + M * (r + C * q) = (r * M + y) + C * (M * q)
  OBVIOUS
<1>5. a + C * (b + M * q) = (a + C * b) + C * (M * q)
  OBVIOUS
<1> QED
  BY <1>1, <1>3, <1>4, <1>5 DEF Divides

LEMMA DivisionIs ==
    ASSUME NEW s \in Seq(Nat), NEW r, Remains(r, s)
    PROVE  /\ Divided(r, s) \in Seq(Nat) /\ r[1] \in Nat
           /\ r[1] + Big!Chunk * Big!Numeral(Big!Limb, Divided(r, s), 0) = Big!Numeral(Big!Limb, s, 0)
<1> USE LimbIs
<1> DEFINE n == Len(s)
           Q == Divided(r, s)
<1>0. PICK M \in Nat, C \in Nat \ {0} : M = Big!Limb /\ C = Big!Chunk
  OBVIOUS
<1>1. n \in Nat /\ 0 \in Nat /\ DOMAIN s = 1..n /\ \A k \in 1..n : s[k] \in Nat
  OBVIOUS
<1>2. r[n + 1] = 0 /\ \A k \in 1..n : r[k] = (r[k + 1] * M + s[k]) % C
  BY <1>0, RemainsGives
<1>3. PICK f \in [1..(n + 1) -> Nat] : Climbs(f, M, s, 0) /\ Big!Numeral(M, s, 0) = f[1]
  BY <1>1, NumeralIs, Zenon
<1>4. f[n + 1] = 0 /\ \A k \in 1..n : f[k] = s[k] + M * f[k + 1]
  BY <1>3 DEF Climbs
<1> HIDE DEF n
<1> DEFINE T == {k \in 1..n : r[k] \in Nat}
<1>5. ASSUME NEW k \in 1..n, \A j \in (k + 1)..n : j \in T PROVE k \in T
  <2>1. r[k + 1] \in Nat
    <3>1. k + 1 = n + 1 \/ k + 1 \in (k + 1)..n
      BY <1>1
    <3> QED
      BY <1>1, <1>2, <1>5, <3>1
  <2>2. PICK y \in Nat, x \in Nat : y = s[k] /\ x = r[k + 1]
    BY <1>1, <2>1
  <2>3. (x * M + y) % C \in Nat
    BY LongDivision
  <2> QED
    BY <1>2, <2>2, <2>3
<1>6. \A k \in 1..n : k \in T
  <2> HIDE DEF T
  <2> QED
    BY <1>1, <1>5, Backward, Zenon
<1>7. \A k \in 1..(n + 1) : r[k] \in Nat
  <2> TAKE k \in 1..(n + 1)
  <2>1. k = n + 1 \/ k \in 1..n
    BY <1>1
  <2> QED
    BY <1>1, <1>2, <1>6, <2>1
<1>8. Q = [k \in 1..n |-> (r[k + 1] * M + s[k]) \div C]
  BY <1>0, <1>1 DEF Divided
<1> HIDE DEF Q
<1>9. Q \in [1..n -> Nat]
  <2>1. ASSUME NEW k \in 1..n PROVE (r[k + 1] * M + s[k]) \div C \in Nat
    <3>1. k + 1 \in 1..(n + 1)
      BY <1>1
    <3>2. PICK y \in Nat, x \in Nat : y = s[k] /\ x = r[k + 1]
      BY <1>1, <1>7, <3>1
    <3>3. (x * M + y) \div C \in Nat
      BY LongDivision
    <3> QED
      BY <3>2, <3>3
  <2> QED
    BY <1>8, <2>1
<1>10. Q \in Seq(Nat) /\ Len(Q) = n
  BY <1>1, <1>9
<1>11. PICK g \in [1..(Len(Q) + 1) -> Nat] : Climbs(g, M, Q, 0) /\ Big!Numeral(M, Q, 0) = g[1]
  BY <1>1, <1>10, NumeralIs, Zenon
<1>12. g \in [1..(n + 1) -> Nat] /\ g[n + 1] = 0 /\ \A k \in 1..n : g[k] = Q[k] + M * g[k + 1]
  BY <1>10, <1>11 DEF Climbs
<1> DEFINE U == {k \in 1..n : f[k] = r[k] + C * g[k]}
<1>13. f[n + 1] = r[n + 1] + C * g[n + 1]
  <2>1. C * 0 = 0
    OBVIOUS
  <2> QED
    BY <1>2, <1>4, <1>12, <2>1
<1>14. ASSUME NEW k \in 1..n, \A j \in (k + 1)..n : j \in U PROVE k \in U
  <2>0. k + 1 \in 1..(n + 1)
    BY <1>1
  <2>1. f[k + 1] = r[k + 1] + C * g[k + 1]
    <3>1. k + 1 = n + 1 \/ k + 1 \in (k + 1)..n
      BY <1>1
    <3> QED
      BY <1>13, <1>14, <3>1
  <2>2. PICK y \in Nat, x \in Nat, z \in Nat : y = s[k] /\ x = r[k + 1] /\ z = g[k + 1]
    <3>1. s[k] \in Nat /\ r[k + 1] \in Nat /\ g[k + 1] \in Nat
      BY <1>1, <1>7, <1>12, <2>0
    <3> QED
      BY <3>1
  <2>3. y + M * (x + C * z) = ((x * M + y) % C) + C * (((x * M + y) \div C) + M * z)
    <3>1. Divides(y, M, C, z, x)
      BY LongDivision
    <3> QED
      BY <3>1 DEF Divides
  <2>4. f[k] = y + M * (x + C * z) /\ r[k] = (x * M + y) % C
    BY <1>2, <1>4, <2>1, <2>2
  <2>5. g[k] = ((x * M + y) \div C) + M * z
    BY <1>8, <1>12, <2>2
  <2> QED
    BY <2>3, <2>4, <2>5
<1>15. \A k \in 1..n : k \in U
  <2> HIDE DEF U
  <2> QED
    BY <1>1, <1>14, Backward, Zenon
<1>16. f[1] = r[1] + C * g[1]
  <2>1. 1 \in 1..n \/ n = 0
    BY <1>1
  <2>2. CASE n = 0
    BY <1>13, <2>2
  <2> QED
    BY <1>15, <2>1, <2>2
<1>17. r[1] \in Nat
  <2>1. 1 \in 1..(n + 1)
    BY <1>1
  <2> QED
    BY <1>7, <2>1
<1> QED
  BY <1>0, <1>3, <1>10, <1>11, <1>16, <1>17 DEF Q

-----------------------------------------------------------------------------
(* The invariant, and the steps that keep it.                              *)

LiteralOk ==
    /\ literal.bits \in 1..LimbBits
    /\ literal.digits \in Seq(0..(Big!Power(2, literal.bits) - 1))

\* While the digits are packed.
Packing ==
    /\ left \in 0..Len(literal.digits) /\ limbs \in Seq(Nat) /\ filled \in 0..(LimbBits - 1) /\ chunks = <<>>
    /\ Packs(limbs, acc, filled, Big!Power(2, literal.bits),
             Big!Reverse(SubSeq(literal.digits, left + 1, Len(literal.digits))), Len(literal.digits) - left)

\* Once they are.
PastPacking ==
    /\ left \in Int /\ ~(left >= 0)
    /\ limbs \in Seq(Nat) /\ chunks \in Seq(Nat)
    /\ Big!Numeral(Big!Chunk, chunks, Big!Value(limbs)) = Big!Number

IntegerInv == LiteralOk /\ (Packing \/ PastPacking)

LEMMA IntegerGives == IntegerInv => KeepsTheNumber
<1>1. CASE LiteralOk /\ Packing
  <2>1. left >= 0
    BY <1>1 DEF Packing
  <2> QED
    BY <1>1, <2>1 DEF Packing, Packs, KeepsTheNumber, Big!KeepsTheNumber, Big!Denotes
<1>2. CASE PastPacking
  BY <1>2 DEF PastPacking, KeepsTheNumber, Big!KeepsTheNumber
<1> QED
  BY <1>1, <1>2 DEF IntegerInv

\* A literal before its first digit is packed.
LEMMA IntegerStarts ==
    ASSUME NEW l, l.bits \in 1..LimbBits, l.digits \in Seq(0..(Big!Power(2, l.bits) - 1)), Big!Start(l)
    PROVE  IntegerInv
<1> USE LimbIs
<1>1. LiteralOk
  BY DEF LiteralOk, Big!Start
<1>2. left = Len(literal.digits) /\ acc = 0 /\ filled = 0 /\ limbs = <<>> /\ chunks = <<>>
  BY DEF Big!Start
<1>3. Len(literal.digits) \in Nat /\ Len(literal.digits) - left = 0 /\ Len(limbs) = 0
  BY <1>1, <1>2 DEF LiteralOk
<1>4. PICK B \in Nat : B = Big!Power(2, literal.bits)
  <2>1. 2 \in Nat /\ literal.bits \in Nat
    BY <1>1 DEF LiteralOk
  <2>2. Big!Power(2, literal.bits) \in Nat
    BY <2>1, PowerNext, Zenon
  <2> QED
    BY <2>2
<1>5. Big!Power(2, 0) = 1 /\ Big!Power(Big!Limb, 0) = 1 /\ Big!Power(B, 0) = 1
  <2>1. 2 \in Nat /\ 0 \in Nat /\ Big!Limb \in Nat
    OBVIOUS
  <2> QED
    BY <2>1, PowerNext, Zenon
<1>6. Big!Numeral(Big!Limb, <<>>, 0) = 0 /\ Big!Numeral(B, <<>>, 0) = 0
  BY NumeralNone
<1>7. Big!Reverse(SubSeq(literal.digits, left + 1, Len(literal.digits))) = <<>>
  <2>1. SubSeq(literal.digits, Len(literal.digits) + 1, Len(literal.digits)) = <<>>
    BY <1>1, <1>3 DEF LiteralOk
  <2>2. Big!Reverse(<<>>) = <<>>
    BY DEF Big!Reverse
  <2> QED
    BY <1>2, <2>1, <2>2
<1>8. Packs(<<>>, 0, 0, B, <<>>, 0)
  BY <1>5, <1>6 DEF Packs
<1>9. Packing
  BY <1>2, <1>3, <1>4, <1>7, <1>8 DEF Packing
<1> QED
  BY <1>1, <1>9 DEF IntegerInv

LEMMA PackDigitKeeps == IntegerInv /\ Big!PackDigit => IntegerInv'
<1> SUFFICES ASSUME IntegerInv, Big!PackDigit PROVE IntegerInv'
  OBVIOUS
<1> USE LimbIs
<1>1. LiteralOk /\ Packing /\ left > 0
  <2>1. left > 0
    BY DEF Big!PackDigit
  <2>2. ~PastPacking
    BY <2>1 DEF PastPacking
  <2> QED
    BY <2>1, <2>2 DEF IntegerInv
<1> DEFINE digits == literal.digits
           n == Len(digits)
           bits == literal.bits
           B == Big!Power(2, bits)
           d == digits[left]
           R == Big!Reverse(SubSeq(digits, left + 1, n))
           sum == acc + d * Big!Power(2, filled)
<1>2. bits \in Nat /\ bits \in 1..LimbBits /\ B \in Nat /\ n \in Nat /\ left \in 1..n /\ left \in 0..n
  <2>1. bits \in Nat /\ bits \in 1..LimbBits /\ n \in Nat /\ left \in 1..n /\ left \in 0..n
    BY <1>1 DEF LiteralOk, Packing
  <2> HIDE DEF bits
  <2>2. B \in Nat
    BY <2>1, PowerNext
  <2> QED
    BY <2>1, <2>2
<1>3. d \in 0..(B - 1)
  BY <1>1, <1>2, SMTT(30) DEF LiteralOk
<1>4. R \in Seq(Nat) /\ Len(R) = n - left /\ Big!Reverse(SubSeq(digits, left, n)) = Append(R, d)
  <2> DEFINE D == 0..(B - 1)
  <2>1. digits \in Seq(D) /\ D \in SUBSET Nat
    BY <1>1 DEF LiteralOk
  <2> HIDE DEF D, digits
  <2> QED
    BY <1>2, <2>1, ReverseSub
<1>5. /\ limbs \in Seq(Nat) /\ acc \in Nat /\ filled \in 0..(LimbBits - 1) /\ filled \in Nat
      /\ Packs(limbs, acc, filled, B, R, Len(R))
  <2>1. Packs(limbs, acc, filled, B, R, n - left)
    BY <1>1 DEF Packing
  <2>2. limbs \in Seq(Nat) /\ filled \in 0..(LimbBits - 1)
    BY <1>1 DEF Packing
  <2>3. acc \in Nat
    BY <2>1 DEF Packs
  <2> HIDE DEF R, n, B
  <2> QED
    BY <1>4, <2>1, <2>2, <2>3
<1>6. B = Big!Power(2, bits)
  OBVIOUS
<1>7. /\ literal' = literal /\ chunks' = chunks /\ left' = left - 1
      /\ IF filled + bits >= LimbBits
         THEN limbs' = Append(limbs, sum % Big!Limb) /\ acc' = sum \div Big!Limb /\ filled' = filled + bits - LimbBits
         ELSE acc' = sum /\ filled' = filled + bits /\ limbs' = limbs
  BY DEF Big!PackDigit, Big!Carry
<1> HIDE DEF digits, n, bits, B, d, R
<1>8. Packs(limbs, sum, filled + bits, B, Append(R, d), Len(R) + 1)
  BY <1>2, <1>3, <1>4, <1>5, <1>6, DigitPacked
<1> HIDE DEF sum
<1>9. sum \in Nat
  BY <1>8 DEF Packs
<1>10. limbs' \in Seq(Nat) /\ filled' \in 0..(LimbBits - 1) /\ Packs(limbs', acc', filled', B, Append(R, d), Len(R) + 1)
  <2>1. CASE filled + bits >= LimbBits
    <3>1. PICK g \in Nat : g = filled + bits /\ g >= LimbBits
      BY <1>2, <1>5, <2>1
    <3>2. Packs(limbs, sum, g, B, Append(R, d), Len(R) + 1)
      BY <1>8, <3>1
    <3>3. /\ Append(limbs, sum % Big!Limb) \in Seq(Nat)
          /\ Packs(Append(limbs, sum % Big!Limb), sum \div Big!Limb, g - LimbBits, B, Append(R, d), Len(R) + 1)
      BY <1>5, <1>9, <3>1, <3>2, LimbTaken
    <3>4. g - LimbBits \in 0..(LimbBits - 1)
      BY <1>2, <1>5, <3>1
    <3>5. limbs' = Append(limbs, sum % Big!Limb) /\ acc' = sum \div Big!Limb /\ filled' = g - LimbBits
      <4>1. limbs' = Append(limbs, sum % Big!Limb) /\ acc' = sum \div Big!Limb /\ filled' = filled + bits - LimbBits
        BY <1>7, <2>1, Zenon
      <4>2. filled + bits - LimbBits = g - LimbBits
        <5>1. bits \in Nat /\ filled \in Nat /\ LimbBits \in Nat
          BY <1>2, <1>5
        <5> QED
          BY <3>1, <5>1
      <4> QED
        BY <4>1, <4>2
    <3> QED
      BY <3>3, <3>4, <3>5
  <2>2. CASE ~(filled + bits >= LimbBits)
    <3>1. filled + bits \in 0..(LimbBits - 1)
      BY <1>2, <1>5, <2>2
    <3> QED
      BY <1>5, <1>7, <1>8, <2>2, <3>1
  <2> QED
    BY <2>1, <2>2
<1>11. LiteralOk'
  BY <1>1, <1>7 DEF LiteralOk
<1>12. Len(R) + 1 = n - (left - 1) /\ left - 1 \in 0..n /\ (left - 1) + 1 = left
  BY <1>2, <1>4
<1>13. chunks = <<>>
  BY <1>1 DEF Packing
<1>14. Packing'
  <2>1. left' \in 0..n /\ left' + 1 = left /\ n - left' = Len(R) + 1
    BY <1>7, <1>12
  <2>2. Packs(limbs', acc', filled', B, Big!Reverse(SubSeq(digits, left' + 1, n)), n - left')
    BY <1>4, <1>10, <2>1
  <2> QED
    BY <1>7, <1>10, <1>13, <2>1, <2>2 DEF Packing, digits, n, bits, B
<1> QED
  BY <1>11, <1>14 DEF IntegerInv

LEMMA PackRestKeeps == IntegerInv /\ Big!PackRest => IntegerInv'
<1> SUFFICES ASSUME IntegerInv, Big!PackRest PROVE IntegerInv'
  OBVIOUS
<1> USE LimbIs
<1> DEFINE digits == literal.digits
           n == Len(digits)
           B == Big!Power(2, literal.bits)
           R == Big!Reverse(SubSeq(digits, 1, n))
           top == IF filled > 0 THEN Append(limbs, acc % Big!Limb) ELSE limbs
<1>1. LiteralOk /\ Packing /\ left = 0
  <2>1. left = 0
    BY DEF Big!PackRest
  <2>2. ~PastPacking
    BY <2>1 DEF PastPacking
  <2> QED
    BY <2>1, <2>2 DEF IntegerInv
<1>2. limbs \in Seq(Nat) /\ filled \in 0..(LimbBits - 1) /\ filled \in Nat /\ chunks = <<>>
  BY <1>1 DEF Packing
<1>3. Packs(limbs, acc, filled, B, R, n)
  <2>1. Packs(limbs, acc, filled, B, Big!Reverse(SubSeq(digits, left + 1, n)), n - left)
    BY <1>1 DEF Packing
  <2>2. left + 1 = 1 /\ n - left = n
    BY <1>1 DEF LiteralOk
  <2> QED
    BY <2>1, <2>2
<1>4. Big!Number = Big!Numeral(B, R, 0)
  BY DEF Big!Number, Big!Denotes
<1> HIDE DEF digits, n, B, R
<1>5. top \in Seq(Nat) /\ Big!Numeral(Big!Limb, top, 0) = Big!Numeral(Big!Limb, limbs, acc)
  <2>1. acc \in Nat /\ acc < Big!Power(2, filled)
    BY <1>3 DEF Packs
  <2>2. CASE filled > 0
    <3>1. Big!Power(2, filled) <= Big!Limb /\ Big!Power(2, filled) \in Nat
      <4>1. filled <= LimbBits /\ 2 \in Nat \ {0} /\ LimbBits \in Nat
        BY <1>2
      <4>2. Big!Power(2, filled) <= Big!Power(2, LimbBits) /\ Big!Power(2, filled) \in Nat
        BY <1>2, <4>1, PowerGrows, PowerNext
      <4> QED
        BY <4>2 DEF Big!Limb
    <3>2. acc % Big!Limb = acc
      BY <2>1, <3>1
    <3>3. top = Append(limbs, acc)
      BY <2>2, <3>2
    <3>4. acc + Big!Limb * 0 = acc /\ 0 \in Nat
      BY <2>1, Products
    <3>5. Big!Numeral(Big!Limb, Append(limbs, acc), 0) = Big!Numeral(Big!Limb, limbs, acc)
      BY <1>2, <2>1, <3>4, NumeralAppend
    <3> QED
      BY <1>2, <2>1, <3>3, <3>5
  <2>3. CASE ~(filled > 0)
    <3>1. filled = 0
      BY <1>2, <2>3
    <3>2. Big!Power(2, 0) = 1
      BY PowerNext
    <3>3. acc = 0
      BY <2>1, <3>1, <3>2
    <3> QED
      BY <1>2, <2>3, <3>3
  <2> QED
    BY <2>2, <2>3
<1>6. limbs' = Big!Trimmed(top) /\ left' = -1 /\ literal' = literal /\ chunks' = chunks
  BY DEF Big!PackRest, Big!WithoutTop
<1> HIDE DEF top
<1>7. left' \in Int /\ ~(left' >= 0)
  BY <1>6
<1>8. limbs' \in Seq(Nat) /\ Big!Numeral(Big!Limb, limbs', 0) = Big!Numeral(Big!Limb, top, 0)
  BY <1>5, <1>6, TrimmedIs
<1>9. Big!Numeral(Big!Chunk, <<>>, Big!Numeral(Big!Limb, limbs', 0)) = Big!Numeral(Big!Limb, limbs', 0)
  <2>1. Big!Numeral(Big!Limb, limbs', 0) \in Nat
    <3>1. 0 \in Nat
      OBVIOUS
    <3> QED
      BY <1>8, <3>1, NumeralIs
  <2> QED
    BY <2>1, NumeralNone
<1>10. Big!Numeral(Big!Limb, limbs, acc) = Big!Number
  BY <1>3, <1>4 DEF Packs
<1>11. Big!Number' = Big!Number
  BY <1>6 DEF Big!Number, Big!Denotes
<1>12. LiteralOk'
  BY <1>1, <1>6 DEF LiteralOk
<1>13. PastPacking'
  <2>1. chunks' = <<>> /\ chunks' \in Seq(Nat)
    BY <1>2, <1>6
  <2> QED
    BY <1>5, <1>7, <1>8, <1>9, <1>10, <1>11, <2>1 DEF PastPacking, Big!Value
<1> QED
  BY <1>12, <1>13 DEF IntegerInv

LEMMA DivideChunkKeeps == IntegerInv /\ Big!DivideChunk => IntegerInv'
<1> SUFFICES ASSUME IntegerInv, Big!DivideChunk PROVE IntegerInv'
  OBVIOUS
<1> USE LimbIs
<1>1. LiteralOk /\ PastPacking
  <2>1. left = -1
    BY DEF Big!DivideChunk, Big!Packed
  <2>2. left \notin Nat
    BY <2>1
  <2>3. ~Packing
    BY <2>2 DEF Packing, LiteralOk
  <2> QED
    BY <2>3 DEF IntegerInv
<1>2. limbs \in Seq(Nat) /\ chunks \in Seq(Nat) /\ 0 \in Nat
  BY <1>1 DEF PastPacking
<1> DEFINE r == CHOOSE r : Remains(r, limbs)
<1>3. Remains(r, limbs)
  BY <1>2, RemainsExists
<1>4. limbs' = Big!Trimmed(Divided(r, limbs)) /\ chunks' = Append(chunks, r[1]) /\ literal' = literal /\ left' = left
  BY DEF Big!DivideChunk, Remains, Divided
<1> HIDE DEF r
<1>5. /\ Divided(r, limbs) \in Seq(Nat) /\ r[1] \in Nat
      /\ r[1] + Big!Chunk * Big!Numeral(Big!Limb, Divided(r, limbs), 0) = Big!Numeral(Big!Limb, limbs, 0)
  BY <1>2, <1>3, DivisionIs
<1>6. /\ limbs' \in Seq(Nat)
      /\ Big!Numeral(Big!Limb, limbs', 0) = Big!Numeral(Big!Limb, Divided(r, limbs), 0)
  BY <1>4, <1>5, TrimmedIs
<1>7. PICK x \in Nat, v \in Nat : x = r[1] /\ v = Big!Numeral(Big!Limb, limbs', 0)
  BY <1>2, <1>5, <1>6, NumeralIs
<1>8. Big!Numeral(Big!Chunk, Append(chunks, x), v) = Big!Numeral(Big!Chunk, chunks, x + Big!Chunk * v)
  BY <1>2, NumeralAppend
<1>9. chunks' \in Seq(Nat) /\ Big!Numeral(Big!Chunk, chunks', Big!Value(limbs)') = Big!Numeral(Big!Chunk, chunks, Big!Value(limbs))
  BY <1>2, <1>4, <1>5, <1>6, <1>7, <1>8 DEF Big!Value
<1>10. Big!Number' = Big!Number
  BY <1>4 DEF Big!Number, Big!Denotes
<1>11. PastPacking'
  BY <1>1, <1>4, <1>6, <1>9, <1>10 DEF PastPacking, Big!Value
<1>12. LiteralOk'
  BY <1>1, <1>4 DEF LiteralOk
<1> QED
  BY <1>11, <1>12 DEF IntegerInv

\* Every step of the lexer and of its scanners.
LEMMA IntegerNext == IntegerInv /\ [Next]_vars => IntegerInv'
<1> SUFFICES ASSUME IntegerInv, [Next]_vars PROVE IntegerInv'
  OBVIOUS
<1>1. CASE UNCHANGED <<literal, left, acc, filled, limbs, chunks>>
  <2>1. LiteralOk' = LiteralOk
    BY <1>1 DEF LiteralOk
  <2>2. Packing' = Packing
    BY <1>1 DEF Packing, Packs
  <2>3. PastPacking' = PastPacking
    BY <1>1 DEF PastPacking, Big!Number, Big!Denotes, Big!Value
  <2> QED
    BY <2>1, <2>2, <2>3 DEF IntegerInv
<1>2. CASE Big!Next
  <2>1. CASE Big!Exact \/ Big!Spell \/ Big!HexFloat
    BY <1>1, <2>1 DEF Big!Exact, Big!Spell, Big!HexFloat, Big!Answer
  <2> QED
    BY <1>2, <2>1, PackDigitKeeps, PackRestKeeps, DivideChunkKeeps DEF Big!Next
<1>3. CASE UNCHANGED bigVars
  BY <1>1, <1>3 DEF bigVars
<1>4. Big!Next \/ UNCHANGED bigVars
  BY DEF Next, Token, String, Number, Integer, Character, Spelling, vars
<1> QED
  BY <1>2, <1>3, <1>4

\* No bit of a literal is lost or counted twice, from its digits through the
\* limbs to the decimal chunks, whatever the base and the limbs' width.
THEOREM IntegersKeepTheirNumber == Spec => []KeepsTheNumber
<1>1. Init => IntegerInv
  <2> SUFFICES ASSUME Init PROVE IntegerInv
    OBVIOUS
  <2>1. CASE \E l \in Literals : Big!Start(l)
    <3>1. PICK l \in Literals : Big!Start(l)
      BY <2>1
    <3>2. l.bits \in 1..LimbBits /\ l.digits \in Seq(0..(Big!Power(2, l.bits) - 1))
      BY WidthsAssumption, DigitsAssumption
    <3> QED
      BY <3>1, <3>2, IntegerStarts
  <2>2. CASE Big!Start(NoLiteral)
    <3>1. NoLiteral.bits \in 1..LimbBits /\ NoLiteral.digits \in Seq(0..(Big!Power(2, NoLiteral.bits) - 1))
      <4>1. NoLiteral.bits = 1 /\ NoLiteral.digits = <<>>
        BY DEF NoLiteral
      <4>2. 1 \in 1..LimbBits
        BY LimbIs
      <4> QED
        BY <4>1, <4>2
    <3> QED
      BY <2>2, <3>1, IntegerStarts
  <2> QED
    BY <2>1, <2>2 DEF Init, Big!Init
<1>2. QED
  BY <1>1, IntegerNext, IntegerGives, PTL DEF Spec

-----------------------------------------------------------------------------
(* The number scanner: the literals of ZON by where their parts end.       *)

Bases == {2, 8, 10, 16}

\* What a run of base b is made of.
RunOf(b) == Num!DigitsOf(b) \cup {"_"}

\* The digits of each base, its letters, and that none is another's.
LEMMA DigitSets ==
    /\ Num!DigitsOf(2) = {"0", "1"} /\ Num!DigitsOf(8) = {"0", "1"}
    /\ Num!DigitsOf(10) = {"0", "1", "8"} /\ Num!DigitsOf(16) = {"0", "1", "8", "b", "e"}
<1> DEFINE D == {"0", "1", "8", "b", "e"}
           v(c) == CASE c = "0" -> 0 [] c = "1" -> 1 [] c = "8" -> 8 [] c = "b" -> 11 [] c = "e" -> 14
<1>1. v("0") = 0 /\ v("1") = 1 /\ v("8") = 8 /\ v("b") = 11 /\ v("e") = 14
  OBVIOUS
<1>2. DOMAIN Num!Digit = D /\ \A c \in D : Num!Digit[c] = v(c)
  BY DEF Num!Digit
<1>3. \A b : Num!DigitsOf(b) = {c \in D : v(c) < b}
  BY <1>2 DEF Num!DigitsOf
<1> HIDE DEF v
<1> QED
  BY <1>1, <1>3

LEMMA BasesAre ==
    /\ 10 \in Bases /\ DOMAIN Num!BasePrefix = {"x", "o", "b"}
    /\ \A c \in DOMAIN Num!BasePrefix : Num!BasePrefix[c] \in Bases \ {10}
  BY DEF Bases, Num!BasePrefix

LEMMA IdContIs == Num!IdCont = {"0", "1", "8", "b", "e", "x", "o", "X", "p", "_", "inf", "nan"}
  BY DEF Num!IdCont, Num!Digit, Num!BasePrefix, Num!UpperPrefix

LEMMA Letters ==
    ASSUME NEW b \in Bases
    PROVE  /\ RunOf(b) \subseteq Num!IdCont /\ "." \notin RunOf(b)
           /\ Num!ExpChar(b) \subseteq Num!IdCont /\ "." \notin Num!ExpChar(b)
           /\ \A c \in RunOf(b) : c \notin Num!ExpChar(b)
           /\ Num!EOF \notin RunOf(b) /\ Num!EOF \notin Num!ExpChar(b) /\ Num!EOF # "."
           /\ "+" \notin RunOf(b) /\ "-" \notin RunOf(b)
           /\ Num!DigitsOf(b) = RunOf(b) \ {"_"}
<1>1. b = 2 \/ b = 8 \/ b = 10 \/ b = 16
  BY DEF Bases
<1>2. Num!ExpChar(16) = {"p"} /\ Num!ExpChar(10) = {"e"} /\ Num!ExpChar(8) = {} /\ Num!ExpChar(2) = {}
  BY DEF Num!ExpChar
<1>3. CASE b = 2
  BY <1>2, <1>3, DigitSets, IdContIs DEF RunOf, Num!EOF
<1>4. CASE b = 8
  BY <1>2, <1>4, DigitSets, IdContIs DEF RunOf, Num!EOF
<1>5. CASE b = 10
  BY <1>2, <1>5, DigitSets, IdContIs DEF RunOf, Num!EOF
<1>6. CASE b = 16
  BY <1>2, <1>6, DigitSets, IdContIs DEF RunOf, Num!EOF
<1> QED
  BY <1>1, <1>3, <1>4, <1>5, <1>6

-----------------------------------------------------------------------------
(* The grammar, at its places in the source.                               *)

\* s[a..z] is a run, with every separator between two digits.
Clean(s, a, z, b) ==
    /\ a <= z
    /\ \A k \in a..z : s[k] \in RunOf(b)
    /\ \A k \in a..z : s[k] = "_" => k # a /\ k # z /\ s[k + 1] # "_"

\* A piece of a source is a run where the source is clean.
LEMMA IsRunAt ==
    ASSUME NEW S, NEW s \in Seq(S), NEW b, NEW a \in 1..(Len(s) + 1), NEW z \in Int, a - 1 <= z, z <= Len(s)
    PROVE  Num!IsRun(SubSeq(s, a, z), b) <=> Clean(s, a, z, b)
<1> DEFINE q == SubSeq(s, a, z)
           n == (z - a) + 1
<1>0. n \in Nat /\ a \in Nat /\ n = (z - a) + 1
  OBVIOUS
<1>1. n \in Nat /\ a \in Nat /\ Len(q) = n /\ DOMAIN q = 1..n /\ \A k \in 1..n : q[k] = s[(a + k) - 1]
  <2>1. n \in Nat /\ a \in Nat /\ Len(s) \in Nat
    OBVIOUS
  <2>2. Len(q) = n /\ \A k \in 1..n : q[k] = s[(a + k) - 1]
    BY <2>1, SMTT(30)
  <2>3. q \in Seq(S)
    BY <2>1
  <2>4. DOMAIN q = 1..n
    BY <2>2, <2>3
  <2> QED
    BY <2>1, <2>2, <2>4
<1>2. q = <<>> <=> n = 0
  <2>1. q \in Seq(S)
    BY <1>1
  <2> HIDE DEF q
  <2> QED
    BY <1>1, <2>1, EmptySeq
<1> HIDE DEF q
<1>3. ASSUME n > 0
      PROVE  Num!IsRun(q, b) <=> Clean(s, a, z, b)
  <2>1. /\ \A k \in a..z : (k - a) + 1 \in 1..n /\ (a + ((k - a) + 1)) - 1 = k
        /\ \A k \in 1..n : (a + k) - 1 \in a..z /\ ((a + k) - 1) + 1 = (a + (k + 1)) - 1
    BY <1>1
  <2>2. ASSUME Num!IsRun(q, b) PROVE Clean(s, a, z, b)
    <3>1. \A k \in a..z : s[k] = q[(k - a) + 1]
      BY <1>1, <2>1
    <3>2. ASSUME NEW k \in a..z PROVE s[k] \in RunOf(b)
      BY <1>1, <2>1, <2>2, <3>1 DEF Num!IsRun, RunOf
    <3>3. ASSUME NEW k \in a..z, s[k] = "_" PROVE k # a /\ k # z /\ s[k + 1] # "_"
      <4>1. PICK j \in 1..n : j = (k - a) + 1
        BY <2>1
      <4>2. q[j] = "_"
        BY <3>1, <3>3, <4>1
      <4>3. j \in DOMAIN q /\ Len(q) = n
        BY <1>1
      <4>4. j # 1 /\ j # n /\ q[j + 1] # "_"
        BY <2>2, <4>2, <4>3 DEF Num!IsRun
      <4> HIDE DEF n
      <4>n. j # 1 /\ j # n
        BY <4>4
      <4>5. k = (a + j) - 1 /\ k # a /\ k # z
        BY <1>0, <4>1, <4>n
      <4>6. PICK h \in 1..n : h = j + 1
        BY <1>0, <4>n
      <4>7. q[h] = s[k + 1]
        BY <1>1, <4>5, <4>6
      <4> QED
        BY <4>4, <4>5, <4>6, <4>7
    <3>4. a <= z
      BY <1>1, <1>3
    <3> QED
      BY <3>2, <3>3, <3>4 DEF Clean
  <2>3. ASSUME Clean(s, a, z, b) PROVE Num!IsRun(q, b)
    <3>1. ASSUME NEW k \in 1..n PROVE q[k] \in Num!DigitsOf(b) \cup {"_"}
      BY <1>1, <2>1, <2>3 DEF Clean, RunOf
    <3>2. ASSUME NEW k \in 1..n, q[k] = "_" PROVE k # 1 /\ k # n /\ q[k + 1] # "_"
      <4>1. PICK j \in a..z : j = (a + k) - 1
        BY <2>1
      <4>2. s[j] = "_"
        BY <1>1, <3>2, <4>1
      <4>3. j # a /\ j # z /\ s[j + 1] # "_"
        BY <2>3, <4>2 DEF Clean
      <4>n. j # a /\ j # z
        BY <4>3
      <4>4. k # 1 /\ k # n
        BY <1>0, <4>1, <4>n
      <4>5. PICK h \in 1..n : h = k + 1
        BY <1>0, <4>4
      <4>6. q[h] = s[j + 1]
        BY <1>1, <4>1, <4>5
      <4> QED
        BY <4>3, <4>4, <4>5, <4>6
    <3>3. q # <<>> /\ Len(q) = n /\ DOMAIN q = 1..n
      BY <1>1, <1>2, <1>3
    <3>4. \A k \in 1..n : q[k] = "_" => k \notin {1, n} /\ q[k + 1] # "_"
      BY <3>2
    <3> QED
      BY <3>1, <3>3, <3>4 DEF Num!IsRun
  <2> QED
    BY <2>2, <2>3
<1>4. ASSUME n = 0
      PROVE  Num!IsRun(q, b) <=> Clean(s, a, z, b)
  <2>1. ~(a <= z)
    BY <1>1, <1>4
  <2> QED
    BY <1>2, <1>4, <2>1 DEF Num!IsRun, Clean
<1> QED
  BY <1>1, <1>3, <1>4 DEF q

\* s[p + 1..w] is the integer part of a literal of base b, s[w + 1..f] its
\* fraction or nothing, and s[f + 1..e] its exponent or nothing.
WholeOf(s, p, b, w) == Clean(s, p + 1, w, b) \/ (w = p /\ b # 10)
FractionOf(s, b, w, f) ==
    f = w \/ (f > w /\ s[w + 1] = "." /\ b \in {10, 16} /\ (f = w + 1 \/ Clean(s, w + 2, f, b)))
Signs == {"+", "-"}
\* Where the exponent's digits begin, behind its letter and its sign.
Power(s, f) == IF f + 2 <= Len(s) /\ s[f + 2] \in Signs THEN f + 3 ELSE f + 2
PowerOf(s, b, f, e) == e = f \/ (e > f /\ s[f + 1] \in Num!ExpChar(b) /\ Clean(s, Power(s, f), e, 10))

\* s[p + 1..e] is a body whose integer part ends at w and its fraction at f, or
\* has no fraction, where f = w, and no exponent, where e = f.
Parts(s, p, b, w, f, e) ==
    /\ p <= w /\ w <= f /\ f <= e
    /\ WholeOf(s, p, b, w) /\ FractionOf(s, b, w, f) /\ PowerOf(s, b, f, e)
    /\ w > p \/ f > w + 1
    /\ f = w + 1 => e > f
    /\ b = 10 /\ w > p + 1 => s[p + 1] # "0"

\* The grammar's own places.
BodyAt(s, b, dot, mark) ==
        LET whole == SubSeq(s, 1, IF dot = 0 THEN mark - 1 ELSE dot - 1)
            part  == IF dot = 0 THEN <<>> ELSE SubSeq(s, dot + 1, mark - 1)
            power == SubSeq(s, mark + 1, Len(s))
            signed == power # <<>> /\ power[1] \in {"+", "-"}
        IN /\ dot < mark
           /\ dot # 0 => s[dot] = "." /\ b \in {10, 16}
           /\ Num!IsRun(whole, b) \/ (whole = <<>> /\ b # 10)
           /\ part = <<>> \/ Num!IsRun(part, b)
           /\ whole # <<>> \/ part # <<>>
           /\ dot # 0 /\ part = <<>> => mark <= Len(s)
           /\ mark <= Len(s) => /\ s[mark] \in Num!ExpChar(b)
                                /\ Num!IsRun(IF signed THEN Tail(power) ELSE power, 10)
           /\ b = 10 /\ Len(whole) > 1 => whole[1] # "0"

\* The body of a number, at those places.
LEMMA BodyIsAt ==
    ASSUME NEW s, NEW b
    PROVE  Num!IsBody(s, b) <=> \E dot \in 0..Len(s), mark \in 1..(Len(s) + 1) : BodyAt(s, b, dot, mark)
  BY Zenon DEF Num!IsBody, BodyAt

\* A piece of a sequence, and a piece of a piece.
LEMMA SubSeqIs ==
    ASSUME NEW S, NEW s \in Seq(S), NEW a \in Nat \ {0}, NEW z \in Int, a - 1 <= z, z <= Len(s)
    PROVE  /\ SubSeq(s, a, z) \in Seq(S) /\ Len(SubSeq(s, a, z)) = (z - a) + 1
           /\ \A k \in 1..((z - a) + 1) : SubSeq(s, a, z)[k] = s[(a + k) - 1]
           /\ SubSeq(s, a, z) = <<>> <=> z = a - 1
<1> DEFINE q == SubSeq(s, a, z)
<1>1. q \in Seq(S) /\ Len(q) = (z - a) + 1 /\ \A k \in 1..((z - a) + 1) : q[k] = s[(a + k) - 1]
  <2>1. Len(s) \in Nat /\ (z - a) + 1 \in Nat
    OBVIOUS
  <2> QED
    BY <2>1
<1> HIDE DEF q
<1>2. q = <<>> <=> Len(q) = 0
  BY <1>1, EmptySeq
<1>3. Len(q) = 0 <=> z = a - 1
  BY <1>1
<1> QED
  BY <1>1, <1>2, <1>3 DEF q

LEMMA SubSub ==
    ASSUME NEW S, NEW s \in Seq(S), NEW p \in Nat, NEW e \in Int, p <= e, e <= Len(s),
           NEW u \in Nat, NEW v \in Int, u <= v, v <= e - p
    PROVE  SubSeq(SubSeq(s, p + 1, e), u + 1, v) = SubSeq(s, (p + u) + 1, p + v)
<1> DEFINE q == SubSeq(s, p + 1, e)
           x == SubSeq(q, u + 1, v)
           y == SubSeq(s, (p + u) + 1, p + v)
<1>1. q \in Seq(S) /\ Len(q) = e - p /\ \A k \in 1..(e - p) : q[k] = s[p + k]
  <2>1. p + 1 \in Nat \ {0} /\ (p + 1) - 1 <= e /\ (e - (p + 1)) + 1 = e - p
    OBVIOUS
  <2>2. q \in Seq(S) /\ Len(q) = (e - (p + 1)) + 1 /\ \A k \in 1..((e - (p + 1)) + 1) : q[k] = s[((p + 1) + k) - 1]
    BY <2>1, SubSeqIs
  <2>3. \A k \in 1..(e - p) : ((p + 1) + k) - 1 = p + k
    OBVIOUS
  <2> QED
    BY <2>1, <2>2, <2>3
<1> HIDE DEF q
<1>2. x \in Seq(S) /\ Len(x) = v - u /\ \A k \in 1..(v - u) : x[k] = q[u + k]
  <2>1. u + 1 \in Nat \ {0} /\ (u + 1) - 1 <= v /\ (v - (u + 1)) + 1 = v - u /\ v <= Len(q)
    BY <1>1
  <2>2. x \in Seq(S) /\ Len(x) = (v - (u + 1)) + 1 /\ \A k \in 1..((v - (u + 1)) + 1) : x[k] = q[((u + 1) + k) - 1]
    BY <1>1, <2>1, SubSeqIs
  <2>3. \A k \in 1..(v - u) : ((u + 1) + k) - 1 = u + k
    OBVIOUS
  <2> QED
    BY <2>1, <2>2, <2>3
<1>3. y \in Seq(S) /\ Len(y) = v - u /\ \A k \in 1..(v - u) : y[k] = s[p + (u + k)]
  <2> DEFINE a == (p + u) + 1
             z == p + v
  <2>1. a \in Nat \ {0} /\ z \in Int /\ a - 1 <= z /\ (z - a) + 1 = v - u /\ z <= Len(s)
    OBVIOUS
  <2>2. \A k \in 1..(v - u) : (a + k) - 1 = p + (u + k)
    OBVIOUS
  <2> HIDE DEF a, z
  <2>3. SubSeq(s, a, z) \in Seq(S) /\ Len(SubSeq(s, a, z)) = (z - a) + 1
        /\ \A k \in 1..((z - a) + 1) : SubSeq(s, a, z)[k] = s[(a + k) - 1]
    BY <2>1, SubSeqIs
  <2>4. y = SubSeq(s, a, z)
    BY DEF a, z
  <2> HIDE DEF y
  <2> QED
    BY <2>1, <2>2, <2>3, <2>4
<1> HIDE DEF x, y
<1>4. \A k \in 1..(v - u) : u + k \in 1..(e - p)
  OBVIOUS
<1>5. \A k \in 1..(v - u) : x[k] = y[k]
  BY <1>1, <1>2, <1>3, <1>4
<1>6. x = y
  BY <1>2, <1>3, <1>5
<1> QED
  BY <1>6 DEF x, y, q

\* The grammar's conditions, of any pieces of a source.
Conditions(s, b, dot, mark, whole, part, digits) ==
    /\ dot < mark
    /\ dot # 0 => s[dot] = "." /\ b \in {10, 16}
    /\ Num!IsRun(whole, b) \/ (whole = <<>> /\ b # 10)
    /\ part = <<>> \/ Num!IsRun(part, b)
    /\ whole # <<>> \/ part # <<>>
    /\ dot # 0 /\ part = <<>> => mark <= Len(s)
    /\ mark <= Len(s) => s[mark] \in Num!ExpChar(b) /\ Num!IsRun(digits, 10)
    /\ b = 10 /\ Len(whole) > 1 => whole[1] # "0"

LEMMA CleanRange == ASSUME NEW s, NEW a, NEW z, NEW b, Clean(s, a, z, b) PROVE a <= z
  BY DEF Clean

\* What SubSeq(s, p + 1, e) has from u + 1 to v.
Within(s, p, e, b, u, v) ==
    /\ Num!IsRun(SubSeq(SubSeq(s, p + 1, e), u + 1, v), b) <=> Clean(s, (p + u) + 1, p + v, b)
    /\ SubSeq(SubSeq(s, p + 1, e), u + 1, v) = <<>> <=> u = v
    /\ Len(SubSeq(SubSeq(s, p + 1, e), u + 1, v)) = v - u
    /\ \A k \in 1..(v - u) : SubSeq(SubSeq(s, p + 1, e), u + 1, v)[k] = s[p + (u + k)]

LEMMA RunWithin ==
    ASSUME NEW S, NEW s \in Seq(S), NEW p \in Nat, NEW e \in Int, p <= e, e <= Len(s), NEW b,
           NEW u \in Nat, NEW v \in Int, u <= v, v <= e - p
    PROVE  Within(s, p, e, b, u, v)
<1> DEFINE a == (p + u) + 1
           z == p + v
<1>1. SubSeq(SubSeq(s, p + 1, e), u + 1, v) = SubSeq(s, a, z)
  BY SubSub
<1>2. a \in Nat \ {0} /\ a \in 1..(Len(s) + 1) /\ z \in Int /\ a - 1 <= z /\ z <= Len(s)
  BY LenProperties
<1>3. (z - a) + 1 = v - u /\ (z = a - 1 <=> u = v) /\ \A k \in 1..(v - u) : (a + k) - 1 = p + (u + k)
  OBVIOUS
<1> HIDE DEF a, z
<1>4. Num!IsRun(SubSeq(s, a, z), b) <=> Clean(s, a, z, b)
  BY <1>2, IsRunAt
<1>5. /\ Len(SubSeq(s, a, z)) = (z - a) + 1
      /\ \A k \in 1..((z - a) + 1) : SubSeq(s, a, z)[k] = s[(a + k) - 1]
      /\ SubSeq(s, a, z) = <<>> <=> z = a - 1
  BY <1>2, SubSeqIs
<1>6. \A k \in 1..(v - u) : SubSeq(s, a, z)[k] = s[p + (u + k)]
  BY <1>3, <1>5
<1>7. Clean(s, a, z, b) <=> Clean(s, (p + u) + 1, p + v, b)
  BY DEF a, z
<1> QED
  BY <1>1, <1>3, <1>4, <1>5, <1>6, <1>7 DEF Within

\* What stands for the exponent's digits.
Digits(q, mark) ==
    LET power == SubSeq(q, mark + 1, Len(q))
        signed == power # <<>> /\ power[1] \in {"+", "-"}
    IN IF signed THEN Tail(power) ELSE power
\* The pieces of the integer part and of the fraction.
WholeTo(q, dot, mark) == SubSeq(q, 1, IF dot = 0 THEN mark - 1 ELSE dot - 1)
PartOf(q, dot, mark) == IF dot = 0 THEN <<>> ELSE SubSeq(q, dot + 1, mark - 1)

LEMMA BodyConditions ==
    ASSUME NEW q, NEW b, NEW dot, NEW mark
    PROVE  BodyAt(q, b, dot, mark)
             <=> Conditions(q, b, dot, mark, WholeTo(q, dot, mark), PartOf(q, dot, mark), Digits(q, mark))
  BY Zenon DEF BodyAt, Conditions, WholeTo, PartOf, Digits

\* The digits of an exponent.
LEMMA DigitsAre ==
    ASSUME NEW S, NEW s \in Seq(S), NEW p \in Nat, NEW e \in Int, p <= e, e <= Len(s),
           NEW mark \in Nat \ {0}, mark <= e - p
    PROVE  Num!IsRun(Digits(SubSeq(s, p + 1, e), mark), 10) <=> Clean(s, Power(s, p + mark - 1), e, 10)
<1> DEFINE q == SubSeq(s, p + 1, e)
           n == e - p
           power == SubSeq(q, mark + 1, n)
           f == p + mark - 1
<1>1. n \in Nat /\ mark \in Nat /\ mark <= n /\ f \in Nat /\ f = (p + mark) - 1 /\ p + n = e
      /\ (p + mark) + 1 = f + 2 /\ f + 1 <= e
  OBVIOUS
<1>2. q \in Seq(S) /\ Len(q) = n
  <2>1. p + 1 \in Nat \ {0} /\ (p + 1) - 1 <= e /\ (e - (p + 1)) + 1 = e - p
    OBVIOUS
  <2> QED
    BY <2>1, SubSeqIs
<1>3. /\ Num!IsRun(power, 10) <=> Clean(s, (p + mark) + 1, p + n, 10)
      /\ power = <<>> <=> mark = n
      /\ Len(power) = n - mark
      /\ \A k \in 1..(n - mark) : power[k] = s[p + (mark + k)]
  <2> HIDE DEF n
  <2>1. n <= e - p /\ n \in Int /\ mark \in Nat /\ mark <= n
    BY <1>1 DEF n
  <2> QED
    <3>1. Within(s, p, e, 10, mark, n)
      BY <2>1, RunWithin
    <3> QED
      BY <3>1, Zenon DEF Within
<1>4. Num!IsRun(power, 10) <=> Clean(s, f + 2, e, 10)
  BY <1>1, <1>3
<1> DEFINE Goal == Num!IsRun(Digits(q, mark), 10) <=> Clean(s, Power(s, f), e, 10)
<1>5. ASSUME mark = n PROVE Goal
  <2>1. power = <<>> /\ f + 2 > e
    BY <1>1, <1>3, <1>5
  <2>2. Digits(q, mark) = power
    BY <1>2, <2>1 DEF Digits
  <2>3. ~Clean(s, f + 2, e, 10) /\ ~Clean(s, f + 3, e, 10)
    <3>1. ~(f + 2 <= e) /\ ~(f + 3 <= e)
      BY <1>1, <2>1
    <3> QED
      BY <3>1, CleanRange
  <2>4. Power(s, f) = f + 2 \/ Power(s, f) = f + 3
    BY DEF Power
  <2> QED
    BY <1>4, <2>2, <2>3, <2>4
<1>6. ASSUME mark < n PROVE Goal
  <2> HIDE DEF n, f
  <2>n. mark # n /\ f + 2 <= e
    BY <1>1, <1>6
  <2>1. power # <<>> /\ f + 2 <= e
    BY <1>3, <2>n
  <2>2. power[1] = s[f + 2]
    <3>1. 1 \in 1..(n - mark) /\ p + (mark + 1) = f + 2
      BY <1>1, <1>6
    <3> QED
      BY <1>3, <3>1
  <2>3. f + 2 <= Len(s)
    BY <1>1, <2>1, LenProperties
  <2>4. CASE s[f + 2] \in Signs
    <3>1. Digits(q, mark) = Tail(power)
      BY <1>2, <2>1, <2>2, <2>4 DEF Digits, Signs
    <3>2. Power(s, f) = f + 3
      BY <2>3, <2>4 DEF Power
    <3>3. Tail(power) = SubSeq(q, (mark + 1) + 1, n)
      <4>1. power \in Seq(S)
        BY <1>1, <1>2, SubSeqIs
      <4>2. Tail(power) = SubSeq(power, 2, Len(power))
        BY <2>1, <4>1, TailIsSubSeq
      <4>3. SubSeq(power, 1 + 1, n - mark) = SubSeq(q, (mark + 1) + 1, mark + (n - mark))
        <5> HIDE DEF n, q
        <5>1. 1 \in Nat /\ n - mark \in Int /\ 1 <= n - mark /\ n - mark <= n - mark /\ n <= Len(q) /\ mark <= n /\ n \in Int
          BY <1>1, <1>2, <1>6
        <5> QED
          BY <1>1, <1>2, <5>1, SubSub
      <4>4. mark + (n - mark) = n /\ 1 + 1 = 2
        BY <1>1
      <4> QED
        BY <1>3, <4>2, <4>3, <4>4
    <3>4. Num!IsRun(SubSeq(q, (mark + 1) + 1, n), 10) <=> Clean(s, (p + (mark + 1)) + 1, p + n, 10)
      <4> HIDE DEF n
      <4>1. mark + 1 \in Nat /\ mark + 1 <= n /\ n \in Int /\ n <= e - p
        BY <1>1, <1>6 DEF n
      <4>2. Within(s, p, e, 10, mark + 1, n)
        BY <4>1, RunWithin
      <4> QED
        BY <4>2 DEF Within
    <3>5. (p + (mark + 1)) + 1 = f + 3
      BY <1>1
    <3> QED
      BY <1>1, <3>1, <3>2, <3>3, <3>4, <3>5
  <2>5. CASE s[f + 2] \notin Signs
    <3>1. Digits(q, mark) = power
      BY <1>2, <2>1, <2>2, <2>5 DEF Digits, Signs
    <3>2. Power(s, f) = f + 2
      BY <2>5 DEF Power
    <3> QED
      BY <1>4, <3>1, <3>2
  <2> QED
    BY <2>4, <2>5
<1> QED
  BY <1>1, <1>5, <1>6

\* Where the integer part and the fraction end that the grammar's places name.
WholeEnd(p, dot, mark) == IF dot = 0 THEN (p + mark) - 1 ELSE (p + dot) - 1

\* The pieces of a body are a literal's parts, and its parts are pieces of a body.
LEMMA BodyAtIs ==
    ASSUME NEW S, NEW s \in Seq(S), NEW p \in Nat, NEW e \in Int, p <= e, e <= Len(s), NEW b,
           NEW dot \in Nat, NEW mark \in Nat, dot < mark, mark <= (e - p) + 1
    PROVE  BodyAt(SubSeq(s, p + 1, e), b, dot, mark) <=> Parts(s, p, b, WholeEnd(p, dot, mark), (p + mark) - 1, e)
<1> DEFINE q == SubSeq(s, p + 1, e)
           n == e - p
           whole == WholeTo(q, dot, mark)
           part == PartOf(q, dot, mark)
           digits == Digits(q, mark)
<1>1. PICK w \in Nat, f \in Nat : w = WholeEnd(p, dot, mark) /\ f = (p + mark) - 1
  BY DEF WholeEnd
<1>2. /\ n \in Nat /\ p <= w /\ w <= f /\ f <= e /\ w <= e
      /\ (dot = 0 <=> f = w) /\ (dot # 0 => dot = (w + 1) - p /\ w + 1 <= f)
      /\ (w + 1) - p = (w - p) + 1 /\ (mark <= n <=> f < e)
  BY <1>1 DEF WholeEnd
<1>3. q \in Seq(S) /\ Len(q) = n /\ \A k \in 1..n : q[k] = s[p + k]
  <2>1. p + 1 \in Nat \ {0} /\ (p + 1) - 1 <= e /\ (e - (p + 1)) + 1 = n
    OBVIOUS
  <2>2. q \in Seq(S) /\ Len(q) = (e - (p + 1)) + 1 /\ \A k \in 1..((e - (p + 1)) + 1) : q[k] = s[((p + 1) + k) - 1]
    BY <2>1, SubSeqIs
  <2>3. \A k \in 1..n : ((p + 1) + k) - 1 = p + k
    OBVIOUS
  <2> QED
    BY <2>1, <2>2, <2>3
<1>4. /\ Num!IsRun(whole, b) <=> Clean(s, p + 1, w, b)
      /\ whole = <<>> <=> w = p
      /\ Len(whole) > 1 <=> w > p + 1
      /\ w > p => whole[1] = s[p + 1]
  <2>1. PICK v \in Int : v = w - p
    BY <1>1
  <2>2. whole = SubSeq(SubSeq(s, p + 1, e), 0 + 1, v)
    <3>1. v = IF dot = 0 THEN mark - 1 ELSE dot - 1
      BY <1>1, <2>1 DEF WholeEnd
    <3>2. 0 + 1 = 1
      OBVIOUS
    <3> QED
      BY <3>1, <3>2 DEF WholeTo
  <2>3. Within(s, p, e, b, 0, v)
    <3>1. 0 \in Nat /\ 0 <= v /\ v <= e - p
      BY <1>2, <2>1
    <3> QED
      BY <3>1, RunWithin
  <2> HIDE DEF whole
  <2>4. /\ Num!IsRun(whole, b) <=> Clean(s, (p + 0) + 1, p + v, b)
        /\ whole = <<>> <=> 0 = v
        /\ Len(whole) = v - 0
        /\ \A k \in 1..(v - 0) : whole[k] = s[p + (0 + k)]
    BY <2>2, <2>3 DEF Within
  <2>5. (p + 0) + 1 = p + 1 /\ p + v = w /\ (0 = v <=> w = p) /\ v - 0 = v /\ (v > 1 <=> w > p + 1)
    <3>1. v \in Nat /\ w \in Nat /\ v = w - p
      BY <1>1, <1>2, <2>1
    <3> QED
      BY <3>1
  <2>n. w > p => 1 \in 1..(v - 0) /\ p + (0 + 1) = p + 1
    <3>1. v \in Int /\ (w > p => v >= 1)
      BY <1>1, <1>2, <2>1
    <3> QED
      BY <3>1
  <2>6. w > p => whole[1] = s[p + 1]
    BY <2>4, <2>n
  <2> QED
    BY <2>4, <2>5, <2>6
<1>5. ASSUME dot # 0
      PROVE  /\ Num!IsRun(part, b) <=> Clean(s, w + 2, f, b)
             /\ part = <<>> <=> f = w + 1
             /\ q[dot] = s[w + 1]
  <2>1. PICK v \in Int : v = mark - 1
    BY <1>1
  <2>2. part = SubSeq(SubSeq(s, p + 1, e), dot + 1, v)
    BY <1>5, <2>1 DEF PartOf
  <2>3. Within(s, p, e, b, dot, v)
    <3>1. dot \in Nat /\ dot <= v /\ v <= e - p
      BY <1>2, <2>1
    <3> QED
      BY <3>1, RunWithin
  <2> HIDE DEF part
  <2>4. /\ Num!IsRun(part, b) <=> Clean(s, (p + dot) + 1, p + v, b)
        /\ part = <<>> <=> dot = v
    BY <2>2, <2>3 DEF Within
  <2>5. (p + dot) + 1 = w + 2 /\ p + v = f /\ (dot = v <=> f = w + 1)
    BY <1>1, <1>2, <1>5, <2>1, SMTT(30)
  <2>6. dot \in 1..n /\ p + dot = w + 1
    BY <1>1, <1>2, <1>5, SMTT(30)
  <2> QED
    BY <1>3, <2>4, <2>5, <2>6
<1>6. ASSUME mark <= n
      PROVE  /\ q[mark] = s[f + 1]
             /\ Num!IsRun(digits, 10) <=> Clean(s, Power(s, f), e, 10)
  <2>1. mark \in 1..n /\ p + mark = f + 1 /\ p + mark - 1 = f /\ mark \in Nat \ {0}
    BY <1>1, <1>6
  <2>2. Num!IsRun(digits, 10) <=> Clean(s, Power(s, p + mark - 1), e, 10)
    BY <1>6, <2>1, DigitsAre
  <2> QED
    BY <1>3, <2>1, <2>2
<1> HIDE DEF q, n, whole, part, digits
<1>7. BodyAt(q, b, dot, mark) <=> Conditions(q, b, dot, mark, whole, part, digits)
  BY BodyConditions DEF whole, part, digits
<1>8. dot = 0 => part = <<>>
  BY DEF part, PartOf
<1>9. f > w <=> f # w
  BY <1>2
<1>10. w > p <=> w # p
  BY <1>2
<1>11. e > f <=> e # f
  BY <1>2
<1>12. f > w + 1 <=> f # w /\ f # w + 1
  BY <1>2
<1>13. w > p + 1 => w > p
  BY <1>2
<1>14. CASE dot = 0
  <2>1. f = w /\ part = <<>> /\ ~(f > w + 1) /\ f # w + 1
    BY <1>2, <1>8, <1>14
  <2>2. FractionOf(s, b, w, f)
    BY <2>1 DEF FractionOf
  <2>3. Conditions(q, b, dot, mark, whole, part, digits) <=>
          /\ WholeOf(s, p, b, w) /\ w # p /\ (b = 10 /\ w > p + 1 => s[p + 1] # "0")
          /\ mark <= n => s[f + 1] \in Num!ExpChar(b) /\ Clean(s, Power(s, f), e, 10)
    BY <1>3, <1>4, <1>6, <1>13, <1>14, <2>1, Zenon DEF Conditions, WholeOf
  <2> QED
    BY <1>1, <1>2, <1>7, <1>10, <1>11, <2>1, <2>2, <2>3 DEF Parts, PowerOf, q
<1>15. CASE dot # 0
  <2>1. f # w /\ (f > w + 1 <=> part # <<>>)
    BY <1>2, <1>5, <1>12, <1>15
  <2>2. FractionOf(s, b, w, f) <=> s[w + 1] = "." /\ b \in {10, 16} /\ (part = <<>> \/ Clean(s, w + 2, f, b))
    BY <1>5, <1>9, <1>15, <2>1 DEF FractionOf
  <2>3. Conditions(q, b, dot, mark, whole, part, digits) <=>
          /\ WholeOf(s, p, b, w) /\ FractionOf(s, b, w, f)
          /\ (w # p \/ part # <<>>) /\ (part = <<>> => mark <= n) /\ (b = 10 /\ w > p + 1 => s[p + 1] # "0")
          /\ mark <= n => s[f + 1] \in Num!ExpChar(b) /\ Clean(s, Power(s, f), e, 10)
    BY <1>3, <1>4, <1>5, <1>6, <1>13, <1>15, <2>2, Zenon DEF Conditions, WholeOf
  <2> QED
    BY <1>1, <1>2, <1>5, <1>7, <1>10, <1>11, <1>15, <2>1, <2>3 DEF Parts, PowerOf, q
<1> QED
  BY <1>14, <1>15

\* A body is one at some places of the source.
LEMMA BodyIs ==
    ASSUME NEW S, NEW s \in Seq(S), NEW p \in Nat, NEW e \in Int, p <= e, e <= Len(s), NEW b
    PROVE  Num!IsBody(SubSeq(s, p + 1, e), b) <=> \E w, f \in Nat : Parts(s, p, b, w, f, e)
<1> DEFINE q == SubSeq(s, p + 1, e)
           n == e - p
<1>1. n \in Nat /\ Len(q) = n
  <2>1. p + 1 \in Nat \ {0} /\ (p + 1) - 1 <= e /\ (e - (p + 1)) + 1 = n
    OBVIOUS
  <2> QED
    BY <2>1, SubSeqIs
<1>2. ASSUME Num!IsBody(q, b) PROVE \E w, f \in Nat : Parts(s, p, b, w, f, e)
  <2> HIDE DEF q, n
  <2>1. PICK dot \in 0..n, mark \in 1..(n + 1) : BodyAt(q, b, dot, mark)
    BY <1>1, <1>2, BodyIsAt
  <2>2. dot < mark
    BY <2>1, Zenon DEF BodyAt
  <2>3. dot \in Nat /\ mark \in Nat /\ mark <= (e - p) + 1
    BY <1>1 DEF n
  <2>4. Parts(s, p, b, WholeEnd(p, dot, mark), (p + mark) - 1, e)
    BY <2>1, <2>2, <2>3, BodyAtIs DEF q
  <2>5. WholeEnd(p, dot, mark) \in Nat /\ (p + mark) - 1 \in Nat
    BY <2>2, <2>3 DEF WholeEnd
  <2> QED
    BY <2>4, <2>5
<1>3. ASSUME NEW w \in Nat, NEW f \in Nat, Parts(s, p, b, w, f, e) PROVE Num!IsBody(q, b)
  <2> HIDE DEF q, n
  <2>1. p <= w /\ w <= f /\ f <= e
    BY <1>3 DEF Parts
  <2>2. PICK dot \in Nat, mark \in Nat : dot = (IF f = w THEN 0 ELSE (w + 1) - p) /\ mark = (f + 1) - p
    <3>1. (w + 1) - p \in Nat /\ (f + 1) - p \in Nat
      BY <2>1
    <3> QED
      BY <3>1
  <2>3. dot < mark /\ mark <= (e - p) + 1 /\ WholeEnd(p, dot, mark) = w /\ (p + mark) - 1 = f
        /\ dot \in 0..n /\ mark \in 1..(n + 1)
    BY <2>1, <2>2 DEF WholeEnd, n
  <2>4. BodyAt(q, b, dot, mark)
    BY <1>3, <2>3, BodyAtIs DEF q
  <2> QED
    BY <1>1, <2>3, <2>4, BodyIsAt
<1> QED
  BY <1>2, <1>3

-----------------------------------------------------------------------------
(* What the scanner finds, and that a literal has its parts where it does. *)

\* s[a..z] is all of a run of digits and separators.
Maximal(s, a, z, b) ==
    /\ a - 1 <= z /\ z <= Len(s) /\ \A k \in a..z : s[k] \in RunOf(b)
    /\ z < Len(s) => s[z + 1] \notin RunOf(b)

\* The digits of a literal begin behind p characters.
Headed(s, p, b) ==
    \/ /\ p = 2 /\ Len(s) >= 2 /\ s[1] = "0"
       /\ s[2] \in DOMAIN Num!BasePrefix /\ b = Num!BasePrefix[s[2]]
    \/ /\ p = 0 /\ Len(s) >= 1 /\ b = 10 /\ s[1] \in {"0", "1", "8"}
       /\ s[1] = "0" /\ Len(s) >= 2 => s[2] \notin DOMAIN Num!BasePrefix \cup Num!UpperPrefix \cup {"_", "0", "1", "8"}

\* A fraction is begun behind w, and an exponent behind f.
Starts(s, b, w) == w + 2 <= Len(s) /\ s[w + 1] = "." /\ s[w + 2] \in Num!DigitsOf(b) \cup Num!ExpChar(b)
Raises(s, b, f) == f + 1 <= Len(s) /\ s[f + 1] \in Num!ExpChar(b)

\* A literal may end at e that is scanned to m: it goes on, or nothing that is
\* part of it follows.
Possible(s, e, m) == e > m \/ ((e < Len(s) => s[e + 1] \notin Num!IdCont) /\ ~Num!Asks(s, e))

LEMMA HeadedBase == ASSUME NEW s, NEW p, NEW b, Headed(s, p, b) 
    PROVE  /\ b \in Bases /\ p \in Nat
           /\ (p = 0 /\ b = 10) \/ (p = 2 /\ b \in Bases \ {10})
<1>1. (p = 0 /\ b = 10) \/ (p = 2 /\ s[2] \in DOMAIN Num!BasePrefix /\ b = Num!BasePrefix[s[2]])
  BY Zenon DEF Headed
<1>2. (p = 0 /\ b = 10) \/ (p = 2 /\ b \in Bases \ {10})
  BY <1>1, BasesAre, Zenon
<1> QED
  BY <1>2, BasesAre

\* What is scanned to m, where a literal may end at e, is that literal's: its
\* integer part ends where the run does, and so do its fraction and its exponent.
LEMMA SameWhole ==
    ASSUME NEW S, NEW s \in Seq(S), NEW p \in Nat, NEW b \in Bases, NEW w \in Nat, NEW f \in Nat, NEW e \in Nat,
           e <= Len(s), Parts(s, p, b, w, f, e), NEW m \in Nat, Maximal(s, p + 1, m, b), Possible(s, e, m)
    PROVE  w = m
<1>1. p <= w /\ w <= f /\ f <= e /\ p <= m /\ m <= Len(s) /\ Len(s) \in Nat
  <2>1. p <= w /\ w <= f /\ f <= e
    BY DEF Parts
  <2>2. p <= m
    BY DEF Maximal
  <2> QED
    BY <2>1, <2>2 DEF Maximal
<1>2. ASSUME m < w PROVE FALSE
  <2>1. m + 1 \in (p + 1)..w /\ m < Len(s) /\ w # p
    BY <1>1, <1>2
  <2>2. Clean(s, p + 1, w, b)
    BY <2>1 DEF Parts, WholeOf
  <2>3. s[m + 1] \in RunOf(b)
    BY <2>1, <2>2 DEF Clean
  <2> QED
    BY <2>1, <2>3 DEF Maximal
<1>3. ASSUME w < m PROVE FALSE
  <2>1. w + 1 \in (p + 1)..m
    BY <1>1, <1>3
  <2>2. s[w + 1] \in RunOf(b)
    BY <2>1 DEF Maximal
  <2>3. s[w + 1] # "." /\ s[w + 1] \notin Num!ExpChar(b) /\ s[w + 1] \in Num!IdCont
    BY <2>2, Letters
  <2>4. f = w
    BY <2>3 DEF Parts, FractionOf
  <2>5. e = w
    BY <2>3, <2>4 DEF Parts, PowerOf
  <2>6. ~(e > m) /\ e < Len(s)
    BY <1>1, <1>3, <2>5
  <2> QED
    BY <2>3, <2>5, <2>6 DEF Possible
<1> QED
  BY <1>1, <1>2, <1>3

\* The base a point asks for a fraction in.
AskBase(s, e) == IF e > 2 /\ s[2] \in DOMAIN Num!BasePrefix THEN Num!BasePrefix[s[2]] ELSE 10

LEMMA AskBaseIs ==
    ASSUME NEW s, NEW p, NEW b, Headed(s, p, b), NEW e \in Nat, e > p,
           p = 0 /\ e > 2 => s[2] \notin DOMAIN Num!BasePrefix
    PROVE  AskBase(s, e) = b
<1>1. p = 2 => e > 2
  OBVIOUS
<1> QED
  BY <1>1 DEF AskBase, Headed

LEMMA AsksIs ==
    ASSUME NEW s, NEW e
    PROVE  Num!Asks(s, e) <=>
             /\ \A k \in 1..e : s[k] # "." /\ (k > 2 => s[k] \notin Num!ExpChar(AskBase(s, e)))
                                /\ (AskBase(s, e) = 10 => s[k] \notin Num!ExpChar(AskBase(s, e)))
             /\ e + 2 <= Len(s) /\ s[e + 1] = "." /\ s[e + 2] \in Num!DigitsOf(AskBase(s, e)) \cup Num!ExpChar(AskBase(s, e))
  BY Zenon DEF Num!Asks, AskBase

\* A whole number before a point asks for the fraction.
LEMMA PointAsks ==
    ASSUME NEW S, NEW s \in Seq(S), NEW p, NEW b, Headed(s, p, b), NEW w \in Nat, w > p,
           Maximal(s, p + 1, w, b), Starts(s, b, w)
    PROVE  Num!Asks(s, w)
<1>1. p \in Nat /\ b \in Bases
  BY HeadedBase
<1>2. \A k \in (p + 1)..w : s[k] \in RunOf(b)
  BY DEF Maximal
<1>3. p = 0 \/ p = 2
  BY DEF Headed
<1>4. p = 0 => b = 10
  BY HeadedBase
<1>5. p = 2 => s[1] = "0" /\ s[2] \in {"x", "o", "b"} /\ b # 10
  BY BasesAre DEF Headed
<1>6. AskBase(s, w) = b
  <2>1. ASSUME p = 0, w > 2 PROVE s[2] \notin DOMAIN Num!BasePrefix
    <3>1. 2 \in (p + 1)..w
      BY <2>1
    <3>2. s[2] \in RunOf(10)
      BY <1>2, <1>4, <2>1, <3>1
    <3> QED
      BY <3>2, BasesAre, DigitSets DEF RunOf
  <2> QED
    BY <2>1, AskBaseIs
<1>7. ASSUME NEW k \in 1..w PROVE s[k] # "." /\ (k > 2 => s[k] \notin Num!ExpChar(b)) /\ (b = 10 => s[k] \notin Num!ExpChar(b))
  <2>1. CASE k \in (p + 1)..w
    BY <1>1, <1>2, <2>1, Letters
  <2>2. CASE ~(k \in (p + 1)..w)
    <3>1. p = 2 /\ (k = 1 \/ k = 2) /\ ~(k > 2)
      BY <1>1, <1>3, <2>2
    <3>2. s[k] # "." /\ b # 10
      BY <1>5, <3>1
    <3> QED
      BY <3>1, <3>2
  <2> QED
    BY <2>1, <2>2
<1>8. w + 2 <= Len(s) /\ s[w + 1] = "." /\ s[w + 2] \in Num!DigitsOf(b) \cup Num!ExpChar(b)
  BY DEF Starts
<1> QED
  BY <1>6, <1>7, <1>8, AsksIs

LEMMA SameFraction ==
    ASSUME NEW S, NEW s \in Seq(S), NEW p, NEW b, Headed(s, p, b), NEW w \in Nat, NEW f \in Nat, NEW e \in Nat,
           e <= Len(s), Parts(s, p, b, w, f, e), Maximal(s, p + 1, w, b), Possible(s, e, w)
    PROVE  Starts(s, b, w) <=> f > w
<1>1. p \in Nat /\ b \in Bases
  BY HeadedBase
<1>2. p <= w /\ w <= f /\ f <= e /\ Len(s) \in Nat
  BY DEF Parts
<1>3. ASSUME Starts(s, b, w), f = w PROVE FALSE
  <2>1. s[w + 1] \notin Num!ExpChar(b)
    BY <1>1, <1>3, Letters DEF Starts
  <2>2. e = w
    BY <1>3, <2>1 DEF Parts, PowerOf
  <2>3. w > p
    BY <1>2, <1>3 DEF Parts
  <2>4. Num!Asks(s, w)
    BY <1>3, <2>3, PointAsks
  <2> QED
    BY <2>2, <2>4 DEF Possible
<1>4. ASSUME f > w PROVE Starts(s, b, w)
  <2>1. s[w + 1] = "." /\ (f = w + 1 \/ Clean(s, w + 2, f, b))
    BY <1>2, <1>4 DEF Parts, FractionOf
  <2>2. CASE f = w + 1
    <3>1. e > f
      BY <2>2 DEF Parts
    <3>2. e # f /\ f + 1 = w + 2 /\ w + 2 <= Len(s)
      BY <1>2, <2>2, <3>1
    <3>3. s[w + 2] \in Num!ExpChar(b)
      BY <3>2 DEF Parts, PowerOf
    <3> QED
      BY <2>1, <3>2, <3>3 DEF Starts
  <2>3. CASE f # w + 1
    <3>1. w + 2 \in (w + 2)..f /\ w + 2 <= Len(s)
      BY <1>2, <1>4, <2>3
    <3>2. s[w + 2] \in RunOf(b) /\ s[w + 2] # "_"
      BY <2>1, <2>3, <3>1 DEF Clean
    <3>3. s[w + 2] \in Num!DigitsOf(b)
      BY <1>1, <3>2, Letters
    <3> QED
      BY <2>1, <3>1, <3>3 DEF Starts
  <2> QED
    BY <2>2, <2>3
<1> QED
  BY <1>2, <1>3, <1>4

LEMMA SameFractionEnd ==
    ASSUME NEW S, NEW s \in Seq(S), NEW p, NEW b \in Bases, NEW w \in Nat, NEW f \in Nat, NEW e \in Nat, f > w,
           e <= Len(s), Parts(s, p, b, w, f, e), NEW m \in Nat, Maximal(s, w + 2, m, b), Possible(s, e, m)
    PROVE  f = m
<1>1. w <= f /\ f <= e /\ w + 1 <= m /\ m <= Len(s) /\ Len(s) \in Nat
  <2>1. w <= f /\ f <= e
    BY DEF Parts
  <2>2. w + 1 <= m
    BY DEF Maximal
  <2> QED
    BY <2>1, <2>2 DEF Maximal
<1>2. ASSUME m < f PROVE FALSE
  <2>1. m + 1 \in (w + 2)..f /\ m < Len(s) /\ f # w + 1 /\ f # w
    BY <1>1, <1>2
  <2>2. Clean(s, w + 2, f, b)
    BY <2>1 DEF Parts, FractionOf
  <2>3. s[m + 1] \in RunOf(b)
    BY <2>1, <2>2 DEF Clean
  <2> QED
    BY <2>1, <2>3 DEF Maximal
<1>3. ASSUME f < m PROVE FALSE
  <2>1. f + 1 \in (w + 2)..m
    BY <1>1, <1>3
  <2>2. s[f + 1] \in RunOf(b)
    BY <2>1 DEF Maximal
  <2>3. s[f + 1] \notin Num!ExpChar(b) /\ s[f + 1] \in Num!IdCont
    BY <2>2, Letters
  <2>4. e = f
    BY <2>3 DEF Parts, PowerOf
  <2>5. ~(e > m) /\ e < Len(s)
    BY <1>1, <1>3, <2>4
  <2> QED
    BY <2>3, <2>4, <2>5 DEF Possible
<1> QED
  BY <1>1, <1>2, <1>3

LEMMA SamePower ==
    ASSUME NEW S, NEW s \in Seq(S), NEW p, NEW b \in Bases, NEW w \in Nat, NEW f \in Nat, NEW e \in Nat,
           e <= Len(s), Parts(s, p, b, w, f, e), Possible(s, e, f)
    PROVE  Raises(s, b, f) <=> e > f
<1>1. f <= e /\ Len(s) \in Nat
  BY DEF Parts
<1>2. ASSUME Raises(s, b, f), e = f PROVE FALSE
  <2>1. s[e + 1] \in Num!IdCont /\ e + 1 <= Len(s)
    BY <1>2, Letters DEF Raises
  <2>2. e < Len(s) /\ ~(e > f)
    BY <1>1, <1>2, <2>1
  <2> QED
    BY <2>1, <2>2 DEF Possible
<1>3. ASSUME e > f PROVE Raises(s, b, f)
  <2>1. e # f /\ f + 1 <= Len(s)
    BY <1>1, <1>3
  <2> QED
    BY <2>1 DEF Parts, PowerOf, Raises
<1> QED
  BY <1>1, <1>2, <1>3

LEMMA SamePowerEnd ==
    ASSUME NEW S, NEW s \in Seq(S), NEW p, NEW b, NEW w \in Nat, NEW f \in Nat, NEW e \in Nat, e > f,
           e <= Len(s), Parts(s, p, b, w, f, e), NEW m \in Nat, Maximal(s, Power(s, f), m, 10), Possible(s, e, m)
    PROVE  e = m
<1>1. PICK a \in Nat : a = Power(s, f)
  BY DEF Power
<1>2. Clean(s, a, e, 10)
  <2>1. e # f
    OBVIOUS
  <2> QED
    BY <1>1, <2>1 DEF Parts, PowerOf
<1>3. a <= e /\ a - 1 <= m /\ m <= Len(s) /\ Len(s) \in Nat
  <2>1. a - 1 <= m
    BY <1>1 DEF Maximal
  <2>2. a <= e
    BY <1>2, CleanRange
  <2>3. m <= Len(s) /\ Len(s) \in Nat
    BY DEF Maximal
  <2> QED
    BY <2>1, <2>2, <2>3
<1>4. ASSUME m < e PROVE FALSE
  <2>1. m + 1 \in a..e /\ m < Len(s)
    BY <1>3, <1>4
  <2>2. s[m + 1] \in RunOf(10)
    BY <1>2, <2>1 DEF Clean
  <2> QED
    BY <1>1, <2>1, <2>2 DEF Maximal
<1>5. ASSUME e < m PROVE FALSE
  <2>1. e + 1 \in a..m /\ e < Len(s) /\ ~(e > m)
    BY <1>3, <1>5
  <2>2. s[e + 1] \in RunOf(10)
    BY <1>1, <2>1 DEF Maximal
  <2>3. s[e + 1] \in Num!IdCont
    BY <2>2, BasesAre, Letters
  <2> QED
    BY <2>1, <2>3 DEF Possible
<1> QED
  BY <1>3, <1>4, <1>5

LEMMA PartsIs ==
    ASSUME NEW s, NEW p \in Nat, NEW b, NEW w \in Nat, NEW f \in Nat, NEW e \in Nat, Parts(s, p, b, w, f, e)
    PROVE  p <= w /\ w <= f /\ f <= e /\ e > p
  BY DEF Parts

\* The prefix of a source that a literal is, decimal or behind a base prefix.
LEMMA FromFirst ==
    ASSUME NEW S, NEW s \in Seq(S), NEW e \in 1..Len(s)
    PROVE  /\ e \in Nat /\ Len(SubSeq(s, 1, e)) = e /\ SubSeq(s, 1, e)[1] = s[1]
           /\ e >= 2 => SubSeq(s, 1, e)[2] = s[2]
           /\ \A b : Num!IsBody(SubSeq(s, 1, e), b) <=> \E w, f \in Nat : Parts(s, 0, b, w, f, e)
           /\ e > 2 => \A b : Num!IsBody(SubSeq(SubSeq(s, 1, e), 3, e), b) <=> \E w, f \in Nat : Parts(s, 2, b, w, f, e)
<1>1. e \in Nat /\ e \in Int /\ 0 \in Nat /\ 0 <= e /\ e <= Len(s) /\ 1 \in Nat \ {0} /\ 1 - 1 <= e /\ (e - 1) + 1 = e /\ 0 + 1 = 1
  BY LenProperties
<1>2. Len(SubSeq(s, 1, e)) = e /\ \A k \in 1..e : SubSeq(s, 1, e)[k] = s[(1 + k) - 1]
  BY <1>1, SubSeqIs
<1>3. \A b : Num!IsBody(SubSeq(s, 0 + 1, e), b) <=> \E w, f \in Nat : Parts(s, 0, b, w, f, e)
  BY <1>1, BodyIs, Zenon
<1>4. ASSUME e > 2
      PROVE \A b : Num!IsBody(SubSeq(SubSeq(s, 1, e), 3, e), b) <=> \E w, f \in Nat : Parts(s, 2, b, w, f, e)
  <2>1. 2 \in Nat /\ 2 <= e /\ e <= e - 0 /\ (0 + 2) + 1 = 3 /\ 0 + e = e /\ 2 + 1 = 3
    BY <1>1, <1>4
  <2>2. SubSeq(SubSeq(s, 0 + 1, e), 2 + 1, e) = SubSeq(s, (0 + 2) + 1, 0 + e)
    BY <1>1, <2>1, SubSub
  <2>3. SubSeq(SubSeq(s, 1, e), 3, e) = SubSeq(s, 3, e)
    BY <1>1, <2>1, <2>2
  <2>4. \A b : Num!IsBody(SubSeq(s, 2 + 1, e), b) <=> \E w, f \in Nat : Parts(s, 2, b, w, f, e)
    BY <1>1, <2>1, BodyIs, Zenon
  <2> QED
    BY <2>1, <2>3, <2>4, Zenon
<1>5. 1 \in 1..e /\ (e >= 2 => 2 \in 1..e) /\ (1 + 1) - 1 = 1 /\ (1 + 2) - 1 = 2
  BY <1>1
<1>6. SubSeq(s, 1, e)[1] = s[1] /\ (e >= 2 => SubSeq(s, 1, e)[2] = s[2])
  BY <1>2, <1>5
<1>7. \A b : Num!IsBody(SubSeq(s, 1, e), b) <=> \E w, f \in Nat : Parts(s, 0, b, w, f, e)
  BY <1>1, <1>3, Zenon
<1> QED
  BY <1>1, <1>2, <1>4, <1>6, <1>7, Zenon

\* Behind a prefix the decimal digits are one zero.
LEMMA OneZero ==
    ASSUME NEW s, s[2] \in DOMAIN Num!BasePrefix, NEW w \in Nat, NEW f \in Nat, NEW e \in Nat,
           Parts(s, 0, 10, w, f, e)
    PROVE  e = 1
<1>1. Clean(s, 1, w, 10)
  <2>1. 0 + 1 = 1
    OBVIOUS
  <2> QED
    BY <2>1 DEF Parts, WholeOf
<1>2. s[2] \notin RunOf(10) /\ s[2] # "." /\ s[2] \notin Num!ExpChar(10)
  BY BasesAre, DigitSets DEF RunOf, Num!ExpChar
<1>3. w = 1
  <2>1. 1 <= w
    BY <1>1, CleanRange
  <2>2. ASSUME w >= 2 PROVE FALSE
    <3>1. 2 \in 1..w
      BY <2>2
    <3> QED
      BY <1>1, <1>2, <3>1 DEF Clean
  <2> QED
    BY <2>1, <2>2
<1>4. f = w
  <2>1. w + 1 = 2
    BY <1>3
  <2> QED
    BY <1>2, <2>1 DEF Parts, FractionOf
<1>5. e = f
  <2>1. f + 1 = 2
    BY <1>3, <1>4
  <2> QED
    BY <1>2, <2>1 DEF Parts, PowerOf
<1> QED
  BY <1>3, <1>4, <1>5

LEMMA UnsignedHas ==
    ASSUME NEW S, NEW s \in Seq(S), NEW p, NEW b, Headed(s, p, b), NEW e \in 1..Len(s),
           Num!IsUnsigned(SubSeq(s, 1, e)), ~(p = 2 /\ e = 1)
    PROVE  \E w, f \in Nat : Parts(s, p, b, w, f, e)
<1>1. CASE Num!IsBody(SubSeq(s, 1, e), 10)
  <2>1. PICK w \in Nat, f \in Nat : Parts(s, 0, 10, w, f, e)
    BY <1>1, FromFirst
  <2>2. CASE p = 0
    BY <2>1, <2>2, HeadedBase
  <2>3. CASE p = 2
    <3>1. s[2] \in DOMAIN Num!BasePrefix
      BY <2>3 DEF Headed
    <3>2. e \in Nat
      BY FromFirst
    <3>3. e = 1
      BY <2>1, <3>1, <3>2, OneZero
    <3> QED
      BY <2>3, <3>3
  <2> QED
    BY <2>2, <2>3, HeadedBase
<1>2. CASE ~Num!IsBody(SubSeq(s, 1, e), 10)
  <2> DEFINE t == SubSeq(s, 1, e)
  <2>1. /\ Len(t) > 2 /\ t[1] = "0" /\ t[2] \in DOMAIN Num!BasePrefix
        /\ Num!IsBody(SubSeq(t, 3, Len(t)), Num!BasePrefix[t[2]])
    BY <1>2 DEF Num!IsUnsigned
  <2>2. Len(t) = e /\ t[1] = s[1] /\ e \in Nat
    BY FromFirst
  <2>3. e > 2 /\ e >= 2
    BY <2>1, <2>2
  <2>4. t[2] = s[2]
    BY <2>3, FromFirst
  <2>5. PICK w \in Nat, f \in Nat : Parts(s, 2, Num!BasePrefix[s[2]], w, f, e)
    BY <2>1, <2>2, <2>3, <2>4, FromFirst
  <2>6. s[1] = "0" /\ s[2] \in DOMAIN Num!BasePrefix /\ Len(s) >= 2
    BY <2>1, <2>2, <2>3, <2>4, LenProperties
  <2>7. p = 2 /\ b = Num!BasePrefix[s[2]]
    BY <2>6, Zenon DEF Headed
  <2> QED
    BY <2>5, <2>7
<1> QED
  BY <1>1, <1>2

LEMMA HasUnsigned ==
    ASSUME NEW S, NEW s \in Seq(S), NEW p, NEW b, Headed(s, p, b), NEW e \in 1..Len(s),
           NEW w \in Nat, NEW f \in Nat, Parts(s, p, b, w, f, e)
    PROVE  Num!IsUnsigned(SubSeq(s, 1, e))
<1> DEFINE t == SubSeq(s, 1, e)
<1>1. e \in Nat /\ Len(t) = e /\ t[1] = s[1] /\ (e >= 2 => t[2] = s[2])
  BY FromFirst
<1>2. CASE p = 0
  <2>1. b = 10
    BY <1>2, HeadedBase
  <2>2. Num!IsBody(t, 10)
    BY <1>2, <2>1, FromFirst
  <2> QED
    BY <2>2 DEF Num!IsUnsigned
<1>3. CASE p = 2
  <2>1. s[1] = "0" /\ s[2] \in DOMAIN Num!BasePrefix /\ b = Num!BasePrefix[s[2]]
    BY <1>3 DEF Headed
  <2>2. e > 2 /\ e >= 2
    BY <1>1, <1>3, PartsIs
  <2>3. Num!IsBody(SubSeq(t, 3, e), b)
    BY <1>3, <2>2, FromFirst
  <2> QED
    BY <1>1, <2>1, <2>2, <2>3 DEF Num!IsUnsigned
<1> QED
  BY <1>2, <1>3, HeadedBase

-----------------------------------------------------------------------------
(* The stages of a scan, and what they leave of the literals there may be. *)

\* What the scanner has accepted: the integer part to w, the fraction from
\* there to f, and the exponent from there to m, each all of its run.
WholeAt(s, p, b, w) == Maximal(s, p + 1, w, b) /\ (w = p \/ Clean(s, p + 1, w, b))
FractionAt(s, b, w, f) ==
    IF Starts(s, b, w) THEN b \in {10, 16} /\ Maximal(s, w + 2, f, b) /\ (f = w + 1 \/ Clean(s, w + 2, f, b))
                       ELSE f = w
PowerAt(s, b, f, m) ==
    IF Raises(s, b, f) THEN Maximal(s, Power(s, f), m, 10) /\ Clean(s, Power(s, f), m, 10) ELSE m = f

\* An unsigned number ends at e, whose parts do at w and f, as far as a scan
\* to m can tell.
Open(s, p, b, w, f, e, m) ==
    /\ w \in Nat /\ f \in Nat /\ e \in Nat /\ e <= Len(s)
    /\ Parts(s, p, b, w, f, e) /\ Possible(s, e, m)

LEMMA OpenEarlier ==
    ASSUME NEW s, NEW p, NEW b, NEW w, NEW f, NEW e, NEW m \in Nat, Open(s, p, b, w, f, e, m), NEW k \in Nat, k <= m
    PROVE  Open(s, p, b, w, f, e, k)
  BY DEF Open, Possible

LEMMA WholeAgrees ==
    ASSUME NEW S, NEW s \in Seq(S), NEW p, NEW b, Headed(s, p, b), NEW w, NEW f, NEW e, NEW m \in Nat,
           Maximal(s, p + 1, m, b), Open(s, p, b, w, f, e, m)
    PROVE  w = m
  BY HeadedBase, SameWhole DEF Open

LEMMA FractionAgrees ==
    ASSUME NEW S, NEW s \in Seq(S), NEW p, NEW b, Headed(s, p, b), NEW w, NEW f, NEW e, NEW v \in Nat, NEW m \in Nat,
           Maximal(s, p + 1, v, b), Starts(s, b, v), Maximal(s, v + 2, m, b), Open(s, p, b, w, f, e, m)
    PROVE  w = v /\ f = m /\ f > w
<1>1. v <= m
  <2>1. (v + 2) - 1 <= m
    BY DEF Maximal
  <2> QED
    BY <2>1
<1>2. Open(s, p, b, w, f, e, v)
  BY <1>1, OpenEarlier
<1>3. w = v
  BY <1>2, WholeAgrees
<1>4. f > w
  BY <1>2, <1>3, SameFraction DEF Open
<1> QED
  BY <1>3, <1>4, HeadedBase, SameFractionEnd DEF Open

LEMMA NoFractionAgrees ==
    ASSUME NEW S, NEW s \in Seq(S), NEW p, NEW b, Headed(s, p, b), NEW w, NEW f, NEW e, NEW m \in Nat,
           Maximal(s, p + 1, m, b), ~Starts(s, b, m), Open(s, p, b, w, f, e, m)
    PROVE  w = m /\ f = m
<1>1. w = m
  BY WholeAgrees
<1>2. ~(f > w)
  BY <1>1, SameFraction DEF Open
<1>3. w <= f /\ w \in Nat /\ f \in Nat
  BY DEF Open, Parts
<1> QED
  BY <1>1, <1>2, <1>3

LEMMA FractionAtAgrees ==
    ASSUME NEW S, NEW s \in Seq(S), NEW p, NEW b, Headed(s, p, b), NEW w, NEW f, NEW e, NEW v \in Nat, NEW m \in Nat,
           WholeAt(s, p, b, v), FractionAt(s, b, v, m), Open(s, p, b, w, f, e, m)
    PROVE  w = v /\ f = m
<1>1. CASE Starts(s, b, v)
  BY <1>1, FractionAgrees DEF WholeAt, FractionAt
<1>2. CASE ~Starts(s, b, v)
  BY <1>2, NoFractionAgrees DEF WholeAt, FractionAt
<1> QED
  BY <1>1, <1>2

LEMMA PowerAgrees ==
    ASSUME NEW S, NEW s \in Seq(S), NEW p, NEW b, Headed(s, p, b), NEW w, NEW f, NEW e,
           NEW v \in Nat, NEW x \in Nat, NEW m \in Nat,
           WholeAt(s, p, b, v), FractionAt(s, b, v, x), Raises(s, b, x), Maximal(s, Power(s, x), m, 10),
           Open(s, p, b, w, f, e, m)
    PROVE  w = v /\ f = x /\ e = m /\ e > f
<1>1. x <= m
  <2>1. Power(s, x) - 1 <= m
    BY DEF Maximal
  <2>2. Power(s, x) = x + 2 \/ Power(s, x) = x + 3
    BY DEF Power
  <2> QED
    BY <2>1, <2>2
<1>2. Open(s, p, b, w, f, e, x)
  BY <1>1, OpenEarlier
<1>3. w = v /\ f = x
  BY <1>2, FractionAtAgrees
<1>4. e > f
  BY <1>2, <1>3, HeadedBase, SamePower DEF Open
<1> QED
  BY <1>3, <1>4, SamePowerEnd DEF Open

LEMMA NoPowerAgrees ==
    ASSUME NEW S, NEW s \in Seq(S), NEW p, NEW b, Headed(s, p, b), NEW w, NEW f, NEW e, NEW v \in Nat, NEW m \in Nat,
           WholeAt(s, p, b, v), FractionAt(s, b, v, m), ~Raises(s, b, m), Open(s, p, b, w, f, e, m)
    PROVE  w = v /\ f = m /\ e = m
<1>1. w = v /\ f = m
  BY FractionAtAgrees
<1>2. ~(e > f)
  BY <1>1, HeadedBase, SamePower DEF Open
<1>3. f <= e /\ e \in Nat /\ f \in Nat
  BY DEF Open, Parts
<1> QED
  BY <1>1, <1>2, <1>3

LEMMA PowerAtAgrees ==
    ASSUME NEW S, NEW s \in Seq(S), NEW p, NEW b, Headed(s, p, b), NEW w, NEW f, NEW e,
           NEW v \in Nat, NEW x \in Nat, NEW m \in Nat,
           WholeAt(s, p, b, v), FractionAt(s, b, v, x), PowerAt(s, b, x, m), Open(s, p, b, w, f, e, m)
    PROVE  w = v /\ f = x /\ e = m
<1>1. CASE Raises(s, b, x)
  BY <1>1, PowerAgrees DEF PowerAt
<1>2. CASE ~Raises(s, b, x)
  BY <1>2, NoPowerAgrees DEF PowerAt
<1> QED
  BY <1>1, <1>2

\* Every literal is open to any scan.
LEMMA LiteralIsOpen ==
    ASSUME NEW S, NEW s \in Seq(S), NEW p, NEW b, Headed(s, p, b), NEW e \in Num!LiteralEnds(s), NEW m
    PROVE  \E w, f : Open(s, p, b, w, f, e, m)
<1>1. /\ e \in 1..Len(s) /\ Num!IsUnsigned(SubSeq(s, 1, e))
      /\ (e < Len(s) => s[e + 1] \notin Num!IdCont) /\ ~Num!Asks(s, e)
  BY Zenon DEF Num!LiteralEnds
<1>2. e \in Nat /\ e <= Len(s)
  BY <1>1, LenProperties
<1>3. ASSUME p = 2, e = 1 PROVE FALSE
  <2>1. s[2] \in Num!IdCont /\ Len(s) >= 2
    <3>1. s[2] \in DOMAIN Num!BasePrefix /\ Len(s) >= 2
      BY <1>3 DEF Headed
    <3> QED
      BY <3>1 DEF Num!IdCont
  <2>2. e < Len(s) /\ e + 1 = 2
    BY <1>3, <2>1, LenProperties
  <2> QED
    BY <1>1, <2>1, <2>2
<1>4. PICK w \in Nat, f \in Nat : Parts(s, p, b, w, f, e)
  BY <1>1, <1>3, UnsignedHas
<1>5. Possible(s, e, m)
  BY <1>1, Zenon DEF Possible
<1> QED
  BY <1>2, <1>4, <1>5 DEF Open

LEMMA LongerIsOpen ==
    ASSUME NEW S, NEW s \in Seq(S), NEW p, NEW b, Headed(s, p, b), NEW m \in Nat, m >= p, NEW e \in (m + 1)..Len(s),
           Num!IsUnsigned(SubSeq(s, 1, e))
    PROVE  \E w, f : Open(s, p, b, w, f, e, m)
<1>1. p \in Nat /\ Len(s) \in Nat
  BY HeadedBase
<1>2. e \in Nat /\ e \in 1..Len(s) /\ e <= Len(s) /\ e > m /\ ~(p = 2 /\ e = 1)
  BY <1>1
<1>3. PICK w \in Nat, f \in Nat : Parts(s, p, b, w, f, e)
  BY <1>2, UnsignedHas
<1> QED
  BY <1>2, <1>3 DEF Open, Possible

\* A refusal leaves no literal.
NoLiteralIn(s) == \A e : e \notin Num!LiteralEnds(s)

\* A run with a misplaced separator, in any part, belongs to no literal, nor
\* does an exponent with no digit or a fraction in a base that has none.
LEMMA BadWhole ==
    ASSUME NEW S, NEW s \in Seq(S), NEW p, NEW b, Headed(s, p, b), NEW m \in Nat, m > p,
           Maximal(s, p + 1, m, b), ~Clean(s, p + 1, m, b)
    PROVE  NoLiteralIn(s)
<1> SUFFICES ASSUME NEW e \in Num!LiteralEnds(s) PROVE FALSE
  BY DEF NoLiteralIn
<1>1. PICK w, f : Open(s, p, b, w, f, e, m)
  BY LiteralIsOpen
<1>2. w = m
  BY <1>1, WholeAgrees
<1>3. w # p
  BY <1>2, HeadedBase
<1> QED
  BY <1>1, <1>2, <1>3 DEF Open, Parts, WholeOf

LEMMA BadFraction ==
    ASSUME NEW S, NEW s \in Seq(S), NEW p, NEW b, Headed(s, p, b), NEW v \in Nat,
           WholeAt(s, p, b, v), Starts(s, b, v), NEW m \in Nat, Maximal(s, v + 2, m, b),
           b \in {10, 16} => m > v + 1 /\ ~Clean(s, v + 2, m, b)
    PROVE  NoLiteralIn(s)
<1> SUFFICES ASSUME NEW e \in Num!LiteralEnds(s) PROVE FALSE
  BY DEF NoLiteralIn
<1>1. PICK w, f : Open(s, p, b, w, f, e, m)
  BY LiteralIsOpen
<1>2. w = v /\ f = m /\ f > w
  BY <1>1, FractionAgrees DEF WholeAt
<1>3. f # w
  BY <1>1, <1>2 DEF Open
<1>4. b \in {10, 16} /\ (f = w + 1 \/ Clean(s, w + 2, f, b))
  BY <1>1, <1>3 DEF Open, Parts, FractionOf
<1>5. m # v + 1
  BY <1>4
<1> QED
  BY <1>2, <1>4, <1>5

LEMMA BadPower ==
    ASSUME NEW S, NEW s \in Seq(S), NEW p, NEW b, Headed(s, p, b), NEW v \in Nat, NEW x \in Nat,
           WholeAt(s, p, b, v), FractionAt(s, b, v, x), Raises(s, b, x),
           NEW m \in Nat, Maximal(s, Power(s, x), m, 10), ~Clean(s, Power(s, x), m, 10)
    PROVE  NoLiteralIn(s)
<1> SUFFICES ASSUME NEW e \in Num!LiteralEnds(s) PROVE FALSE
  BY DEF NoLiteralIn
<1>1. PICK w, f : Open(s, p, b, w, f, e, m)
  BY LiteralIsOpen
<1>2. w = v /\ f = x /\ e = m /\ e > f
  BY <1>1, PowerAgrees
<1>3. e # f
  BY <1>1, <1>2 DEF Open
<1> QED
  BY <1>1, <1>2, <1>3 DEF Open, Parts, PowerOf

LEMMA EndsThere ==
    ASSUME NEW S, NEW s \in Seq(S), NEW p, NEW b, Headed(s, p, b), NEW v \in Nat, NEW x \in Nat, NEW m \in Nat,
           WholeAt(s, p, b, v), FractionAt(s, b, v, x), PowerAt(s, b, x, m), NEW e \in Num!LiteralEnds(s)
    PROVE  e = m /\ (v > p \/ x > v + 1) /\ (m < Len(s) => s[m + 1] \notin Num!IdCont)
<1>1. PICK w, f : Open(s, p, b, w, f, e, m)
  BY LiteralIsOpen
<1>2. w = v /\ f = x /\ e = m
  BY <1>1, PowerAtAgrees
<1>3. v > p \/ x > v + 1
  BY <1>1, <1>2 DEF Open, Parts
<1>4. e < Len(s) => s[e + 1] \notin Num!IdCont
  BY Zenon DEF Num!LiteralEnds
<1> QED
  BY <1>2, <1>3, <1>4

\* A zero before a digit, a separator or an uppercase prefix begins no literal.
ZeroLeads(s) == s[1] = "0" /\ s[2] \in Num!UpperPrefix \cup {"_", "0", "1", "8"}

LEMMA NoLeadingZero ==
    ASSUME NEW S, NEW s \in Seq(S), Len(s) >= 2, ZeroLeads(s)
    PROVE  NoLiteralIn(s)
<1> SUFFICES ASSUME NEW e \in Num!LiteralEnds(s) PROVE FALSE
  BY DEF NoLiteralIn
<1>1. e \in 1..Len(s) /\ Num!IsUnsigned(SubSeq(s, 1, e)) /\ (e < Len(s) => s[e + 1] \notin Num!IdCont)
  BY Zenon DEF Num!LiteralEnds
<1>2. /\ s[2] \in Num!IdCont /\ s[2] # "." /\ s[2] \notin Num!ExpChar(10) /\ s[2] \notin DOMAIN Num!BasePrefix
  BY IdContIs, BasesAre DEF Num!ExpChar, Num!UpperPrefix, ZeroLeads
<1>3. e \in Nat /\ Len(s) \in Nat
  BY <1>1, LenProperties
<1>4. PICK w \in Nat, f \in Nat : Parts(s, 0, 10, w, f, e)
  <2>1. CASE Num!IsBody(SubSeq(s, 1, e), 10)
    BY <1>1, <2>1, FromFirst
  <2>2. CASE ~Num!IsBody(SubSeq(s, 1, e), 10)
    <3>1. Len(SubSeq(s, 1, e)) > 2 /\ SubSeq(s, 1, e)[2] \in DOMAIN Num!BasePrefix
      BY <1>1, <2>2 DEF Num!IsUnsigned
    <3>2. Len(SubSeq(s, 1, e)) = e /\ (e >= 2 => SubSeq(s, 1, e)[2] = s[2])
      BY <1>1, FromFirst
    <3>3. e >= 2
      BY <1>3, <3>1, <3>2
    <3> QED
      BY <1>2, <3>1, <3>2, <3>3
  <2> QED
    BY <2>1, <2>2
<1>5. w = 1
  <2>1. Clean(s, 0 + 1, w, 10)
    BY <1>4 DEF Parts, WholeOf
  <2>2. 0 + 1 <= w
    BY <2>1, CleanRange
  <2>3. 0 + 1 = 1
    OBVIOUS
  <2>4. w > 0 + 1 => s[0 + 1] # "0"
    BY <1>4 DEF Parts
  <2>5. ~(w > 0 + 1)
    BY <2>3, <2>4 DEF ZeroLeads
  <2> QED
    BY <2>2, <2>5
<1>6. f = w
  <2>1. w + 1 = 2
    BY <1>5
  <2> QED
    BY <1>2, <1>4, <2>1 DEF Parts, FractionOf
<1>7. e = f
  <2>1. f + 1 = 2
    BY <1>5, <1>6
  <2> QED
    BY <1>2, <1>4, <2>1 DEF Parts, PowerOf
<1>8. e < Len(s) /\ e + 1 = 2
  BY <1>3, <1>5, <1>6, <1>7
<1> QED
  BY <1>1, <1>2, <1>8

\* What is scanned to its end is a literal.
LEMMA ScannedParts ==
    ASSUME NEW S, NEW s \in Seq(S), NEW p, NEW b, Headed(s, p, b), NEW v \in Nat, NEW x \in Nat, NEW m \in Nat,
           WholeAt(s, p, b, v), FractionAt(s, b, v, x), PowerAt(s, b, x, m), v > p \/ x > v + 1
    PROVE  Parts(s, p, b, v, x, m) /\ m <= Len(s)
<1>1. p \in Nat /\ b \in Bases /\ Len(s) \in Nat
  BY HeadedBase
<1>2. p <= v /\ v <= Len(s)
  <2>1. (p + 1) - 1 <= v /\ v <= Len(s)
    BY DEF WholeAt, Maximal
  <2> QED
    BY <1>1, <2>1
<1>3. v <= x /\ x <= Len(s) /\ (x # v => Starts(s, b, v)) /\ (Starts(s, b, v) => v < x)
  <2>1. CASE Starts(s, b, v)
    <3>1. (v + 2) - 1 <= x /\ x <= Len(s)
      BY <2>1 DEF FractionAt, Maximal
    <3> QED
      BY <2>1, <3>1
  <2>2. CASE ~Starts(s, b, v)
    BY <1>2, <2>2 DEF FractionAt
  <2> QED
    BY <2>1, <2>2
<1>4. x <= m /\ m <= Len(s) /\ (m # x => Raises(s, b, x)) /\ (Raises(s, b, x) => x < m)
  <2>1. CASE Raises(s, b, x)
    <3>1. Clean(s, Power(s, x), m, 10) /\ m <= Len(s)
      BY <2>1 DEF PowerAt, Maximal
    <3>2. Power(s, x) <= m
      BY <3>1, CleanRange
    <3>3. Power(s, x) = x + 2 \/ Power(s, x) = x + 3
      BY DEF Power
    <3>4. x < m
      BY <3>2, <3>3
    <3> QED
      BY <2>1, <3>1, <3>4
  <2>2. CASE ~Raises(s, b, x)
    BY <1>3, <2>2 DEF PowerAt
  <2> QED
    BY <2>1, <2>2
<1>5. WholeOf(s, p, b, v)
  <2>1. ASSUME v = p, b = 10 PROVE FALSE
    <3>1. p = 0 /\ s[1] \in {"0", "1", "8"} /\ Len(s) >= 1
      <4>1. p # 2
        BY <2>1, HeadedBase
      <4> QED
        BY <4>1, Zenon DEF Headed
    <3>2. v < Len(s) /\ v + 1 = 1
      BY <1>1, <2>1, <3>1
    <3>3. s[1] \notin RunOf(10)
      BY <2>1, <3>2 DEF WholeAt, Maximal
    <3> QED
      BY <3>1, <3>3, DigitSets DEF RunOf
  <2> QED
    BY <2>1 DEF WholeAt, WholeOf
<1>6. FractionOf(s, b, v, x)
  <2>1. CASE Starts(s, b, v)
    <3>1. x > v
      BY <1>3, <2>1
    <3> QED
      BY <2>1, <3>1 DEF FractionAt, FractionOf, Starts
  <2>2. CASE ~Starts(s, b, v)
    BY <1>3, <2>2 DEF FractionOf
  <2> QED
    BY <2>1, <2>2
<1>7. PowerOf(s, b, x, m)
  <2>1. CASE Raises(s, b, x)
    <3>1. m > x
      BY <1>4, <2>1
    <3> QED
      BY <2>1, <3>1 DEF PowerAt, PowerOf, Raises
  <2>2. CASE ~Raises(s, b, x)
    BY <1>4, <2>2 DEF PowerOf
  <2> QED
    BY <2>1, <2>2
<1>8. ASSUME x = v + 1 PROVE m > x
  <2>1. Starts(s, b, v)
    BY <1>3, <1>8
  <2>2. v + 2 <= Len(s) /\ s[v + 2] \in Num!DigitsOf(b) \cup Num!ExpChar(b) /\ Maximal(s, v + 2, x, b)
    BY <2>1 DEF Starts, FractionAt
  <2>3. x < Len(s) /\ x + 1 = v + 2
    BY <1>1, <1>8, <2>2
  <2>4. s[v + 2] \notin RunOf(b)
    BY <2>2, <2>3 DEF Maximal
  <2>5. s[v + 2] \in Num!ExpChar(b)
    BY <1>1, <2>2, <2>4, Letters
  <2>6. Raises(s, b, x)
    BY <2>2, <2>3, <2>5 DEF Raises
  <2> QED
    BY <1>4, <2>6
<1>9. ASSUME b = 10, v > p + 1 PROVE s[p + 1] # "0"
  <2>1. p = 0
    BY <1>9, HeadedBase
  <2>2. 2 \in (p + 1)..v /\ Len(s) >= 2 /\ p + 1 = 1
    BY <1>1, <1>2, <1>9, <2>1
  <2>3. s[2] \in RunOf(10)
    BY <1>9, <2>2 DEF WholeAt, Maximal
  <2>4. s[2] \in {"_", "0", "1", "8"}
    BY <2>3, DigitSets DEF RunOf
  <2>5. p # 2
    BY <2>1
  <2>6. s[1] # "0"
    BY <2>2, <2>4, <2>5, Zenon DEF Headed
  <2> QED
    BY <2>2, <2>6
<1> QED
  BY <1>2, <1>3, <1>4, <1>5, <1>6, <1>7, <1>8, <1>9 DEF Parts

\* A point after such a literal asks for nothing that was not scanned.
LEMMA AsksNothing ==
    ASSUME NEW S, NEW s \in Seq(S), NEW p, NEW b, Headed(s, p, b), NEW v \in Nat, NEW x \in Nat, NEW m \in Nat,
           WholeAt(s, p, b, v), FractionAt(s, b, v, x), PowerAt(s, b, x, m), Parts(s, p, b, v, x, m)
    PROVE  ~Num!Asks(s, m)
<1> SUFFICES ASSUME Num!Asks(s, m) PROVE FALSE
  OBVIOUS
<1>1. p \in Nat /\ b \in Bases /\ p <= v /\ v <= x /\ x <= m /\ m > p
  BY HeadedBase, PartsIs
<1>2. AskBase(s, m) = b
  <2>1. ASSUME p = 0, m > 2, s[2] \in DOMAIN Num!BasePrefix PROVE FALSE
    <3>1. b = 10
      BY <2>1, HeadedBase
    <3>2. m = 1
      BY <2>1, <3>1, OneZero
    <3> QED
      BY <2>1, <3>2
  <2> QED
    BY <1>1, <2>1, AskBaseIs
<1>3. /\ \A k \in 1..m : s[k] # "." /\ (k > 2 => s[k] \notin Num!ExpChar(b)) /\ (b = 10 => s[k] \notin Num!ExpChar(b))
      /\ m + 2 <= Len(s) /\ s[m + 1] = "." /\ s[m + 2] \in Num!DigitsOf(b) \cup Num!ExpChar(b)
  BY <1>2, AsksIs
<1>4. x = v
  <2>1. ASSUME Starts(s, b, v) PROVE FALSE
    <3>1. (v + 2) - 1 <= x
      BY <2>1 DEF FractionAt, Maximal
    <3>2. v + 1 \in 1..m
      BY <1>1, <3>1
    <3> QED
      BY <1>3, <2>1, <3>2 DEF Starts
  <2> QED
    BY <2>1 DEF FractionAt
<1>5. m = x
  <2>1. ASSUME Raises(s, b, x) PROVE FALSE
    <3>1. Power(s, x) <= m
      BY <2>1, CleanRange DEF PowerAt
    <3>2. Power(s, x) = x + 2 \/ Power(s, x) = x + 3
      BY DEF Power
    <3>3. x + 1 \in 1..m
      BY <1>1, <3>1, <3>2
    <3>4. x + 1 > 2 \/ b = 10
      <4>1. CASE p = 0
        BY <4>1, HeadedBase
      <4>2. CASE p = 2
        BY <1>1, <4>2
      <4> QED
        BY <4>1, <4>2, HeadedBase
    <3>5. s[x + 1] \notin Num!ExpChar(b)
      BY <1>3, <3>3, <3>4
    <3> QED
      BY <2>1, <3>5 DEF Raises
  <2> QED
    BY <2>1 DEF PowerAt
<1>6. Starts(s, b, v)
  BY <1>3, <1>4, <1>5 DEF Starts
<1>7. v < x
  <2>1. (v + 2) - 1 <= x
    BY <1>6 DEF FractionAt, Maximal
  <2> QED
    BY <2>1
<1> QED
  BY <1>4, <1>7

\* What is scanned to its end, with a digit and nothing alphanumeric behind
\* it, is a literal, and none ends later.
LEMMA ScannedIsLiteral ==
    ASSUME NEW S, NEW s \in Seq(S), NEW p, NEW b, Headed(s, p, b), NEW v \in Nat, NEW x \in Nat, NEW m \in Nat,
           WholeAt(s, p, b, v), FractionAt(s, b, v, x), PowerAt(s, b, x, m), v > p \/ x > v + 1,
           m < Len(s) => s[m + 1] \notin Num!IdCont
    PROVE  m \in Num!LiteralEnds(s)
<1>1. Parts(s, p, b, v, x, m) /\ m <= Len(s)
  BY ScannedParts
<1>2. p \in Nat /\ m > p /\ Len(s) \in Nat
  BY <1>1, HeadedBase, PartsIs
<1>3. m \in 1..Len(s)
  BY <1>1, <1>2
<1>4. Num!IsUnsigned(SubSeq(s, 1, m))
  BY <1>1, <1>3, HasUnsigned
<1>5. ~Num!Asks(s, m)
  BY <1>1, AsksNothing
<1>6. ASSUME NEW e \in (m + 1)..Len(s), Num!IsUnsigned(SubSeq(s, 1, e)) PROVE FALSE
  <2>1. PICK w, f : Open(s, p, b, w, f, e, m)
    BY <1>2, <1>6, LongerIsOpen
  <2>2. e = m
    BY <2>1, PowerAtAgrees
  <2> QED
    BY <1>6, <2>2
<1> QED
  BY <1>3, <1>4, <1>5, <1>6, Zenon DEF Num!LiteralEnds

-----------------------------------------------------------------------------
(* Runs of digits.                                                         *)

\* There is one such run from every place.
LEMMA RunEnds ==
    ASSUME NEW S, NEW s \in Seq(S), NEW k \in Nat, k <= Len(s), NEW b
    PROVE  \E z \in k..Len(s) : Maximal(s, k + 1, z, b)
<1> DEFINE T == {z \in k..Len(s) : z < Len(s) => s[z + 1] \notin RunOf(b)}
<1>1. Len(s) \in Nat
  OBVIOUS
<1>2. Len(s) \in T /\ T \in SUBSET Nat
  BY <1>1
<1>3. PICK z \in T : \A y \in T : z <= y
  <2> HIDE DEF T
  <2> QED
    BY <1>2, LeastOf, Zenon
<1>4. ASSUME NEW j \in (k + 1)..z PROVE s[j] \in RunOf(b)
  <2>1. j - 1 \in k..Len(s) /\ j - 1 < z /\ (j - 1) + 1 = j
    BY <1>1
  <2>2. ASSUME j - 1 \in T PROVE FALSE
    <3> HIDE DEF T
    <3>1. z <= j - 1
      BY <1>3, <2>2, Zenon
    <3>2. z \in Nat
      BY <1>2
    <3> QED
      BY <2>1, <3>1, <3>2
  <2> QED
    BY <2>1, <2>2
<1>5. (k + 1) - 1 <= z /\ z <= Len(s) /\ z \in k..Len(s)
  BY <1>1
<1> QED
  BY <1>4, <1>5 DEF Maximal

\* Where the scanner's choice falls.
RunStops(k, b, e) ==
    /\ \A j \in (k + 1)..e : text[j] \in Num!DigitsOf(b) \cup {"_"}
    /\ e < Len(text) => text[e + 1] \notin Num!DigitsOf(b) \cup {"_"}
RunStop(k, b) == CHOOSE e \in k..Len(text) : RunStops(k, b, e)

LEMMA RunOfText ==
    ASSUME NEW S, text \in Seq(S), NEW k \in Nat, k <= Len(text), NEW b
    PROVE  \E z \in k..Len(text) : Maximal(text, k + 1, z, b) /\ Num!Run(k, b) = SubSeq(text, k + 1, z)
<1>1. \E e \in k..Len(text) : RunStops(k, b, e)
  <2>1. PICK e \in k..Len(text) : Maximal(text, k + 1, e, b)
    BY RunEnds
  <2>2. RunStops(k, b, e)
    BY <2>1, Zenon DEF Maximal, RunOf, RunStops
  <2> QED
    BY <2>2
<1>2. RunStop(k, b) \in k..Len(text) /\ RunStops(k, b, RunStop(k, b))
  BY <1>1, Zenon DEF RunStop
<1>3. Num!Run(k, b) = SubSeq(text, k + 1, RunStop(k, b))
  BY Zenon DEF Num!Run, RunStop, RunStops
<1>4. PICK z \in k..Len(text) : z = RunStop(k, b)
  BY <1>2
<1>5. (k + 1) - 1 <= z /\ z <= Len(text)
  BY LenProperties
<1>6. Maximal(text, k + 1, z, b)
  BY <1>2, <1>4, <1>5, Zenon DEF Maximal, RunOf, RunStops
<1> QED
  BY <1>3, <1>4, <1>6

\* Of a run its digits are kept.
Kept(c) == IF c = "_" THEN <<>> ELSE <<c>>
Collects(f, q) ==
    f = [k \in 1..(Len(q) + 1) |-> IF k > Len(q) THEN <<>> ELSE (IF q[k] = "_" THEN <<>> ELSE <<q[k]>>) \o f[k + 1]]
KeptAt(q) == [k \in 1..Len(q) |-> Kept(q[k])]
Onward(q) == [k \in 1..Len(q) |-> k + 1]

LEMMA CollectsIs ==
    ASSUME NEW S, NEW q \in Seq(S), NEW g
    PROVE  Collects(g, q) <=> Gathers(g, Len(q), KeptAt(q), Onward(q))
<1> DEFINE L == Len(q)
           Item(k) == IF k > L THEN <<>> ELSE (IF q[k] = "_" THEN <<>> ELSE <<q[k]>>) \o g[k + 1]
<1>1. L \in Nat
  OBVIOUS
<1>2. Collects(g, q) <=> g = [k \in 1..(L + 1) |-> Item(k)]
  BY Zenon DEF Collects
<1>3. Item(L + 1) = <<>>
  <2>1. L + 1 > L
    BY <1>1
  <2> QED
    BY <2>1
<1>4. \A k \in 1..L : Item(k) = KeptAt(q)[k] \o g[Onward(q)[k]]
  <2> SUFFICES ASSUME NEW k \in 1..L PROVE Item(k) = KeptAt(q)[k] \o g[Onward(q)[k]]
    OBVIOUS
  <2>1. ~(k > L)
    BY <1>1
  <2>2. KeptAt(q)[k] = Kept(q[k]) /\ Onward(q)[k] = k + 1
    BY DEF KeptAt, Onward
  <2> QED
    BY <2>1, <2>2, Zenon DEF Kept
<1> HIDE DEF Item
<1> DEFINE rule == [k \in 1..(L + 1) |-> Item(k)]
<1>5. /\ rule = [k \in 1..(L + 1) |-> rule[k]] /\ rule[L + 1] = <<>>
      /\ \A k \in 1..L : rule[k] = KeptAt(q)[k] \o g[Onward(q)[k]]
  <2>1. rule = [k \in 1..(L + 1) |-> rule[k]]
    OBVIOUS
  <2>2. L + 1 \in 1..(L + 1) /\ \A k \in 1..L : k \in 1..(L + 1)
    BY <1>1
  <2>3. rule[L + 1] = <<>>
    BY <1>3, <2>2
  <2>4. \A k \in 1..L : rule[k] = Item(k)
    BY <2>2
  <2> HIDE DEF rule
  <2>5. \A k \in 1..L : rule[k] = KeptAt(q)[k] \o g[Onward(q)[k]]
    BY <1>4, <2>4, Zenon
  <2> QED
    BY <2>1, <2>3, <2>5
<1> HIDE DEF rule
<1>6. g = rule <=> Gathers(g, L, KeptAt(q), Onward(q))
  BY <1>1, <1>5, GathersBy
<1> QED
  BY <1>2, <1>6 DEF rule

\* c is one of the sequence's.
Holds(t, c) == \E j \in DOMAIN t : t[j] = c

LEMMA HoldsEither ==
    ASSUME NEW S, NEW t \in Seq(S), NEW u \in Seq(S), NEW c, Holds(t, c) \/ Holds(u, c)
    PROVE  Holds(t \o u, c)
<1>1. t \o u \in Seq(S) /\ Len(t) \in Nat /\ Len(u) \in Nat /\ Len(t \o u) = Len(t) + Len(u)
  BY ConcatProperties
<1>2. DOMAIN (t \o u) = 1..(Len(t) + Len(u)) /\ DOMAIN t = 1..Len(t) /\ DOMAIN u = 1..Len(u)
  BY <1>1
<1>3. ASSUME NEW j \in DOMAIN t, t[j] = c PROVE Holds(t \o u, c)
  <2>1. j \in 1..(Len(t) + Len(u)) /\ j <= Len(t)
    BY <1>1, <1>2
  <2>2. (t \o u)[j] = t[j]
    BY <2>1, ConcatProperties
  <2> QED
    BY <1>2, <1>3, <2>1, <2>2 DEF Holds
<1>4. ASSUME NEW j \in DOMAIN u, u[j] = c PROVE Holds(t \o u, c)
  <2>1. Len(t) + j \in 1..(Len(t) + Len(u)) /\ ~(Len(t) + j <= Len(t)) /\ (Len(t) + j) - Len(t) = j
    BY <1>1, <1>2
  <2>2. (t \o u)[Len(t) + j] = u[j]
    BY <2>1, ConcatProperties
  <2> QED
    BY <1>2, <1>4, <2>1, <2>2 DEF Holds
<1> QED
  BY <1>3, <1>4 DEF Holds

\* What a run's digits are.
DigitsKept(q, d, S) ==
    /\ d \in Seq(S)
    /\ q = <<>> => d = <<>>
    /\ \A k \in DOMAIN q : q[k] # "_" => Holds(d, q[k])

\* Every digit of a run is kept, and something is kept only of a run.
LEMMA DigitsInIs ==
    ASSUME NEW S, NEW q \in Seq(S)
    PROVE  DigitsKept(q, Num!DigitsIn(q), S)
<1> DEFINE f == CHOOSE f : Collects(f, q)
           L == Len(q)
<1>1. Num!DigitsIn(q) = f[1]
  BY Zenon DEF Num!DigitsIn, Collects
<1>2. L \in Nat /\ DOMAIN q = 1..L
  OBVIOUS
<1>3. \A k \in 1..L : Onward(q)[k] \in (k + 1)..(L + 1) /\ Onward(q)[k] = k + 1
  BY <1>2 DEF Onward
<1>4. \E g : Gathers(g, L, KeptAt(q), Onward(q))
  BY <1>2, <1>3, Gather
<1>5. Collects(f, q)
  BY <1>4, CollectsIs, Zenon
<1> HIDE DEF f
<1>6. Gathers(f, L, KeptAt(q), Onward(q))
  BY <1>5, CollectsIs
<1>7. \A k \in 1..L : KeptAt(q)[k] = Kept(q[k]) /\ Kept(q[k]) \in Seq(S)
  <2> SUFFICES ASSUME NEW k \in 1..L PROVE KeptAt(q)[k] = Kept(q[k]) /\ Kept(q[k]) \in Seq(S)
    OBVIOUS
  <2>1. KeptAt(q)[k] = Kept(q[k])
    BY DEF KeptAt
  <2>2. q[k] \in S
    BY <1>2
  <2>3. Kept(q[k]) = <<>> \/ Kept(q[k]) = <<q[k]>>
    BY DEF Kept
  <2>4. <<>> \in Seq(S) /\ <<q[k]>> \in Seq(S)
    BY <2>2
  <2> QED
    BY <2>1, <2>3, <2>4
<1>8. \A k \in 1..(L + 1) : f[k] \in Seq(S)
  BY <1>2, <1>3, <1>6, <1>7, GathersOf
<1>9. f[L + 1] = <<>> /\ \A k \in 1..L : f[k] = Kept(q[k]) \o f[k + 1]
  BY <1>3, <1>6, <1>7 DEF Gathers
<1>10. ASSUME NEW h \in 1..L, q[h] # "_" PROVE Holds(f[1], q[h])
  <2> DEFINE T == {k \in 1..L : k > h \/ Holds(f[k], q[h])}
  <2>1. ASSUME NEW k \in 1..L, \A j \in (k + 1)..L : j \in T PROVE k \in T
    <3>1. k \in 1..(L + 1) /\ k + 1 \in 1..(L + 1)
      BY <1>2
    <3>2. f[k] = Kept(q[k]) \o f[k + 1] /\ Kept(q[k]) \in Seq(S) /\ f[k + 1] \in Seq(S)
      BY <1>7, <1>8, <1>9, <3>1
    <3>3. CASE k = h
      <4>1. Kept(q[k]) = <<q[h]>>
        BY <1>10, <3>3 DEF Kept
      <4>2. Holds(Kept(q[k]), q[h])
        BY <4>1 DEF Holds
      <4>h. Holds(Kept(q[k]) \o f[k + 1], q[h])
        BY <3>2, <4>2, HoldsEither
      <4> QED
        BY <3>2, <4>h
    <3>4. CASE k < h
      <4>1. k + 1 \in (k + 1)..L /\ k + 1 <= h
        BY <1>2, <3>4
      <4>2. k + 1 \in T
        BY <2>1, <4>1
      <4>3. Holds(f[k + 1], q[h])
        BY <4>1, <4>2
      <4>h. Holds(Kept(q[k]) \o f[k + 1], q[h])
        BY <3>2, <4>3, HoldsEither
      <4> QED
        BY <3>2, <4>h
    <3>5. CASE k > h
      BY <3>5
    <3> QED
      BY <3>3, <3>4, <3>5
  <2>2. \A k \in 1..L : k \in T
    <3> HIDE DEF T, L
    <3> QED
      BY <1>2, <2>1, Backward, Zenon
  <2>3. 1 \in 1..L /\ ~(1 > h)
    BY <1>2
  <2> QED
    BY <2>2, <2>3
<1>11. q = <<>> => f[1] = <<>>
  <2>1. q = <<>> => L + 1 = 1
    OBVIOUS
  <2> QED
    BY <1>9, <2>1
<1>12. f[1] \in Seq(S)
  <2>1. 1 \in 1..(L + 1)
    BY <1>2
  <2> QED
    BY <1>8, <2>1
<1> QED
  BY <1>1, <1>2, <1>10, <1>11, <1>12 DEF DigitsKept

LEMMA MisplacedIs ==
    ASSUME NEW S, NEW s \in Seq(S), NEW a \in Nat \ {0}, NEW z \in Int, NEW b, Maximal(s, a, z, b)
    PROVE  Num!Misplaced(SubSeq(s, a, z)) <=> a <= z /\ ~Clean(s, a, z, b)
<1> DEFINE q == SubSeq(s, a, z)
           n == (z - a) + 1
<1>1. a - 1 <= z /\ z <= Len(s) /\ \A k \in a..z : s[k] \in RunOf(b)
  BY DEF Maximal
<1>2. q \in Seq(S) /\ Len(q) = n /\ (\A k \in 1..n : q[k] = s[(a + k) - 1]) /\ (q = <<>> <=> z = a - 1)
  BY <1>1, SubSeqIs
<1>3. Num!IsRun(q, b) <=> Clean(s, a, z, b)
  <2>1. a \in 1..(Len(s) + 1) /\ z <= Len(s) /\ a - 1 <= z
    BY <1>1, LenProperties
  <2> QED
    BY <2>1, IsRunAt
<1>4. n \in Nat /\ DOMAIN q = 1..n
  <2>1. n \in Nat
    BY <1>1
  <2> QED
    BY <1>2, <2>1
<1>5. \A k \in 1..n : q[k] \in Num!DigitsOf(b) \cup {"_"}
  <2> SUFFICES ASSUME NEW k \in 1..n PROVE q[k] \in RunOf(b)
    BY DEF RunOf
  <2>1. (a + k) - 1 \in a..z
    BY <1>1
  <2> QED
    BY <1>1, <1>2, <2>1
<1> HIDE DEF q
<1>6. ASSUME Num!Misplaced(q), Num!IsRun(q, b) PROVE FALSE
  <2>1. PICK k \in 1..n : q[k] = "_" /\ (k \in {1, n} \/ q[k - 1] = "_")
    BY <1>2, <1>4, <1>6 DEF Num!Misplaced
  <2>2. k \notin {1, n}
    BY <1>2, <1>4, <1>6, <2>1 DEF Num!IsRun
  <2>3. q[k - 1] = "_"
    BY <2>1, <2>2
  <2>4. k # 1
    BY <2>2
  <2>5. PICK j \in 1..n : j = k - 1
    BY <1>4, <2>4
  <2>6. q[j + 1] # "_"
    BY <1>2, <1>4, <1>6, <2>3, <2>5 DEF Num!IsRun
  <2>7. j + 1 = k
    BY <2>5
  <2> QED
    BY <2>1, <2>6, <2>7
<1>7. ASSUME ~Num!Misplaced(q), q # <<>> PROVE Num!IsRun(q, b)
  <2>1. ASSUME NEW k \in 1..n, q[k] = "_" PROVE k \notin {1, n} /\ q[k + 1] # "_"
    <3>1. k \notin {1, n}
      BY <1>2, <1>4, <1>7, <2>1 DEF Num!Misplaced
    <3>n. k # n
      BY <3>1
    <3>2. PICK j \in 1..n : j = k + 1
      BY <1>4, <3>n
    <3>3. ASSUME q[j] = "_" PROVE FALSE
      <4>1. q[j - 1] # "_"
        BY <1>2, <1>4, <1>7, <3>3 DEF Num!Misplaced
      <4>2. j - 1 = k
        BY <3>2
      <4> QED
        BY <2>1, <4>1, <4>2
    <3> QED
      BY <3>1, <3>2, <3>3
  <2> QED
    BY <1>2, <1>4, <1>5, <1>7, <2>1 DEF Num!IsRun
<1>8. ASSUME q = <<>> PROVE ~Num!Misplaced(q)
  <2>1. n = 0
    BY <1>2, <1>8
  <2>2. DOMAIN q = {}
    BY <1>4, <2>1
  <2> QED
    BY <2>2 DEF Num!Misplaced
<1>9. q # <<>> <=> a <= z
  <2>1. z # a - 1 <=> a <= z
    BY <1>1
  <2> QED
    BY <1>2, <2>1
<1> QED
  BY <1>3, <1>6, <1>7, <1>8, <1>9 DEF q

-----------------------------------------------------------------------------
(* Places of the source and of the text behind its sign.                   *)

\* The sign and its blanks end within the text.
LeadStops(k) == /\ \A j \in 2..k : text[j] = Num!Blank
                /\ k < Len(text) => text[k + 1] # Num!Blank

LEMMA LeadIs == ASSUME NEW S, text \in Seq(S) PROVE Num!Lead \in Nat /\ Num!Lead <= Len(text)
<1>1. Len(text) \in Nat /\ DOMAIN text = 1..Len(text)
  OBVIOUS
<1>2. CASE text = <<>> \/ text[1] # "-"
  <2>1. Num!Lead = 0
    BY <1>2 DEF Num!Lead
  <2> QED
    BY <1>1, <2>1
<1>3. CASE ~(text = <<>> \/ text[1] # "-")
  <2> DEFINE T == {k \in 1..Len(text) : k < Len(text) => text[k + 1] # Num!Blank}
  <2>1. Len(text) \in T /\ T \in SUBSET Nat
    <3>1. Len(text) # 0
      BY <1>3, EmptySeq
    <3> QED
      BY <1>1, <3>1
  <2>2. PICK k \in T : \A j \in T : k <= j
    <3> HIDE DEF T
    <3> QED
      BY <2>1, LeastOf, Zenon
  <2>3. ASSUME NEW j \in 2..k PROVE text[j] = Num!Blank
    <3>1. j - 1 \in 1..Len(text) /\ j - 1 < k /\ (j - 1) + 1 = j /\ k \in Nat
      BY <1>1
    <3>2. ASSUME j - 1 \in T PROVE FALSE
      <4> HIDE DEF T
      <4>1. k <= j - 1
        BY <2>2, <3>2, Zenon
      <4> QED
        BY <3>1, <4>1
    <3> QED
      BY <3>1, <3>2
  <2>4. k \in DOMAIN text /\ LeadStops(k)
    BY <1>1, <2>3 DEF LeadStops
  <2>5. Num!Lead = CHOOSE h \in DOMAIN text : LeadStops(h)
    BY <1>3, Zenon DEF Num!Lead, LeadStops
  <2>6. Num!Lead \in DOMAIN text
    BY <2>4, <2>5, Zenon
  <2> QED
    BY <1>1, <2>6
<1> QED
  BY <1>2, <1>3

LEMMA BodyOf ==
    ASSUME NEW S, text \in Seq(S)
    PROVE  /\ Num!Body \in Seq(S) /\ Len(Num!Body) = Len(text) - Num!Lead
           /\ \A k \in 1..Len(Num!Body) : Num!Body[k] = text[Num!Lead + k]
<1> DEFINE L == Num!Lead
           n == Len(text)
<1>1. L \in Nat /\ L <= n /\ n \in Nat
  BY LeadIs
<1> HIDE DEF L
<1>2. L + 1 \in Nat \ {0} /\ n \in Int /\ (L + 1) - 1 <= n /\ n <= n /\ (n - (L + 1)) + 1 = n - L
  BY <1>1
<1>3. /\ SubSeq(text, L + 1, n) \in Seq(S) /\ Len(SubSeq(text, L + 1, n)) = (n - (L + 1)) + 1
      /\ \A k \in 1..((n - (L + 1)) + 1) : SubSeq(text, L + 1, n)[k] = text[((L + 1) + k) - 1]
  BY <1>2, SubSeqIs
<1>4. \A k \in 1..(n - L) : ((L + 1) + k) - 1 = L + k
  BY <1>1
<1> QED
  BY <1>2, <1>3, <1>4 DEF Num!Body, L

LEMMA PeekIs ==
    ASSUME NEW S, text \in Seq(S), NEW m \in Nat, i = Num!Lead + m, NEW k \in Nat \ {0}
    PROVE  Num!Peek(k) = IF m + k <= Len(Num!Body) THEN Num!Body[m + k] ELSE Num!EOF
<1>1. PICK L \in Nat : L = Num!Lead
  BY LeadIs
<1>2. DOMAIN text = 1..Len(text) /\ Len(text) \in Nat /\ L <= Len(text)
  BY <1>1, LeadIs
<1>3. Len(Num!Body) = Len(text) - L /\ \A j \in 1..Len(Num!Body) : Num!Body[j] = text[L + j]
  BY <1>1, BodyOf
<1>4. i + k = L + (m + k) /\ (i + k \in DOMAIN text <=> m + k <= Len(Num!Body))
      /\ (m + k <= Len(Num!Body) => m + k \in 1..Len(Num!Body))
  BY <1>1, <1>2, <1>3
<1>5. m + k <= Len(Num!Body) => text[i + k] = Num!Body[m + k]
  BY <1>3, <1>4
<1> QED
  BY <1>4, <1>5 DEF Num!Peek

LEMMA RunOfBody ==
    ASSUME NEW S, text \in Seq(S), NEW m \in Nat, m <= Len(Num!Body), NEW b
    PROVE  \E z \in Nat : Maximal(Num!Body, m + 1, z, b) /\ Num!Run(Num!Lead + m, b) = SubSeq(Num!Body, m + 1, z)
<1>1. PICK L \in Nat : L = Num!Lead
  BY LeadIs
<1> DEFINE s == Num!Body
           n == Len(text)
<1>2. n \in Nat /\ L <= n
  BY <1>1, LeadIs
<1>3. s \in Seq(S) /\ Len(s) = n - L /\ \A j \in 1..Len(s) : s[j] = text[L + j]
  BY <1>1, BodyOf
<1>4. s = SubSeq(text, L + 1, n)
  BY <1>1 DEF Num!Body
<1> HIDE DEF s
<1>5. L + m \in Nat /\ L + m <= n
  BY <1>2, <1>3 DEF s
<1>6. PICK e \in (L + m)..n : Maximal(text, (L + m) + 1, e, b) /\ Num!Run(L + m, b) = SubSeq(text, (L + m) + 1, e)
  BY <1>5, RunOfText
<1>7. PICK z \in Nat : z = e - L
  BY <1>2
<1>8. m <= z /\ z <= Len(s) /\ L + z = e /\ e <= n /\ m + 1 \in Nat /\ z <= n - L
  BY <1>2, <1>3, <1>7
<1>9. Maximal(s, m + 1, z, b)
  <2>1. (m + 1) - 1 <= z
    BY <1>8
  <2>2. ASSUME NEW k \in (m + 1)..z PROVE s[k] \in RunOf(b)
    <3>1. L + k \in ((L + m) + 1)..e /\ k \in 1..Len(s)
      BY <1>2, <1>3, <1>8
    <3> QED
      BY <1>3, <1>6, <3>1 DEF Maximal
  <2>3. ASSUME z < Len(s) PROVE s[z + 1] \notin RunOf(b)
    <3>1. e < n /\ z + 1 \in 1..Len(s) /\ L + (z + 1) = e + 1
      BY <1>2, <1>3, <1>8, <2>3
    <3> QED
      BY <1>3, <1>6, <3>1 DEF Maximal
  <2> QED
    BY <1>8, <2>1, <2>2, <2>3 DEF Maximal
<1>10. SubSeq(s, m + 1, z) = SubSeq(text, (L + m) + 1, e)
  <2>1. L \in Nat /\ n \in Int /\ L <= n /\ n <= Len(text) /\ z \in Int /\ m <= z /\ z <= n - L
    BY <1>2, <1>8
  <2>2. SubSeq(SubSeq(text, L + 1, n), m + 1, z) = SubSeq(text, (L + m) + 1, L + z)
    BY <2>1, SubSub
  <2> QED
    BY <1>4, <1>8, <2>2
<1> QED
  BY <1>1, <1>6, <1>9, <1>10 DEF s

-----------------------------------------------------------------------------
(* The stages of the scanner.                                              *)

\* What is kept of a fraction.
FractionDigits(s, b, v, x) ==
    IF Starts(s, b, v) THEN <<".">> \o Num!DigitsIn(SubSeq(s, v + 2, x)) ELSE <<>>

\* s is scanned to m, and wh, fr and ex are what was kept of it.
FractionStage(s, m, b, wh) ==
    \E p : Headed(s, p, b) /\ WholeAt(s, p, b, m) /\ wh = Num!DigitsIn(SubSeq(s, p + 1, m))
ExponentStage(s, m, b, wh, fr) ==
    \E p : \E v \in Nat :
        /\ Headed(s, p, b) /\ WholeAt(s, p, b, v) /\ wh = Num!DigitsIn(SubSeq(s, p + 1, v))
        /\ FractionAt(s, b, v, m) /\ fr = FractionDigits(s, b, v, m)
EndStage(s, m, b, wh, fr, ex) ==
    \E p : \E v, x \in Nat :
        /\ Headed(s, p, b) /\ WholeAt(s, p, b, v) /\ wh = Num!DigitsIn(SubSeq(s, p + 1, v))
        /\ FractionAt(s, b, v, x) /\ fr = FractionDigits(s, b, v, x)
        /\ PowerAt(s, b, x, m) /\ (ex = <<>> <=> ~Raises(s, b, x))

\* A base prefix is within the source.
LEMMA HeadedLength ==
    ASSUME NEW S, NEW s \in Seq(S), NEW p, NEW b, Headed(s, p, b)
    PROVE  p \in Nat /\ p <= Len(s)
<1>1. (p = 0 \/ p = 2) /\ Len(s) \in Nat
  BY HeadedBase
<1>2. ASSUME p = 2 PROVE Len(s) >= 2
  <2>1. p # 0
    BY <1>2
  <2> QED
    BY <2>1, Zenon DEF Headed
<1> QED
  BY <1>1, <1>2

\* A run has a digit, and nothing has none.
HoldsAll(s, a, z, d) == \A k \in a..z : s[k] # "_" => Holds(d, s[k])
RunKept(s, a, z, b, d) ==
    (Clean(s, a, z, b) => d # <<>>) /\ (z = a - 1 => d = <<>>) /\ HoldsAll(s, a, z, d)

LEMMA RunKeeps ==
    ASSUME NEW S, NEW s \in Seq(S), NEW a \in Nat \ {0}, NEW z \in Int, a - 1 <= z, z <= Len(s), NEW b
    PROVE  Num!DigitsIn(SubSeq(s, a, z)) \in Seq(S) /\ RunKept(s, a, z, b, Num!DigitsIn(SubSeq(s, a, z)))
<1> DEFINE q == SubSeq(s, a, z)
           d == Num!DigitsIn(q)
           n == (z - a) + 1
<1>1. q \in Seq(S) /\ Len(q) = n /\ (\A k \in 1..n : q[k] = s[(a + k) - 1]) /\ (q = <<>> <=> z = a - 1)
  BY SubSeqIs
<1>2. n \in Nat /\ DOMAIN q = 1..n
  <2>1. n \in Nat
    OBVIOUS
  <2> QED
    BY <1>1, <2>1
<1> HIDE DEF q
<1>3. d \in Seq(S) /\ (q = <<>> => d = <<>>) /\ \A k \in DOMAIN q : q[k] # "_" => Holds(d, q[k])
  BY <1>1, DigitsInIs DEF DigitsKept
<1> HIDE DEF d
<1>4. ASSUME NEW k \in a..z, s[k] # "_" PROVE Holds(d, s[k])
  <2>1. PICK j \in 1..n : j = (k - a) + 1
    BY <1>2
  <2>2. (a + j) - 1 = k
    BY <2>1
  <2>3. q[j] = s[k]
    BY <1>1, <2>2
  <2> QED
    BY <1>2, <1>3, <1>4, <2>3
<1>5. ASSUME Clean(s, a, z, b) PROVE d # <<>>
  <2>1. a \in a..z
    BY <1>5, CleanRange
  <2>2. s[a] # "_"
    BY <1>5, <2>1 DEF Clean
  <2>3. Holds(d, s[a])
    BY <1>4, <2>1, <2>2
  <2>4. ~Holds(<<>>, s[a])
    BY DEF Holds
  <2> QED
    BY <2>3, <2>4
<1>6. RunKept(s, a, z, b, d)
  BY <1>1, <1>3, <1>4, <1>5 DEF RunKept, HoldsAll
<1> QED
  BY <1>3, <1>6 DEF d, q

\* What the scanner looks ahead at.
LEMMA StartsIs ==
    ASSUME NEW S, text \in Seq(S), NEW m \in Nat, i = Num!Lead + m, base \in Bases
    PROVE  Num!Peek(1) = "." /\ Num!StartsFraction(Num!Peek(2)) <=> Starts(Num!Body, base, m)
<1> DEFINE s == Num!Body
<1>1. s \in Seq(S) /\ Len(s) \in Nat
  <2>1. s \in Seq(S)
    BY BodyOf
  <2> QED
    BY <2>1, LenProperties
<1> HIDE DEF s
<1>2. /\ Num!Peek(1) = IF m + 1 <= Len(s) THEN s[m + 1] ELSE Num!EOF
      /\ Num!Peek(2) = IF m + 2 <= Len(s) THEN s[m + 2] ELSE Num!EOF
  BY PeekIs DEF s
<1>3. Num!EOF # "." /\ Num!EOF \notin Num!DigitsOf(base) \cup Num!ExpChar(base)
  BY Letters
<1>4. m + 2 <= Len(s) => m + 1 <= Len(s)
  BY <1>1
<1> QED
  BY <1>2, <1>3, <1>4, Zenon DEF Num!StartsFraction, Starts, s

LEMMA RaisesIs ==
    ASSUME NEW S, text \in Seq(S), NEW m \in Nat, i = Num!Lead + m, base \in Bases
    PROVE  Num!Peek(1) \in Num!ExpChar(base) <=> Raises(Num!Body, base, m)
<1>1. Num!Peek(1) = IF m + 1 <= Len(Num!Body) THEN Num!Body[m + 1] ELSE Num!EOF
  BY PeekIs
<1>2. Num!EOF \notin Num!ExpChar(base)
  BY Letters
<1> QED
  BY <1>1, <1>2, Zenon DEF Raises

LEMMA SignIs ==
    ASSUME NEW S, text \in Seq(S), NEW m \in Nat, i = Num!Lead + m
    PROVE  Power(Num!Body, m) = IF Num!Peek(2) \in {"+", "-"} THEN m + 3 ELSE m + 2
<1>1. Num!Peek(2) = IF m + 2 <= Len(Num!Body) THEN Num!Body[m + 2] ELSE Num!EOF
  BY PeekIs, SMTT(30)
<1>2. Num!EOF \notin {"+", "-"}
  BY DEF Num!EOF
<1> QED
  BY <1>1, <1>2, Zenon DEF Power, Signs

LEMMA FollowsIs ==
    ASSUME NEW S, text \in Seq(S), NEW m \in Nat, i = Num!Lead + m
    PROVE  Num!Peek(1) \in Num!IdCont <=> (m < Len(Num!Body) /\ Num!Body[m + 1] \in Num!IdCont)
<1>1. Num!Peek(1) = IF m + 1 <= Len(Num!Body) THEN Num!Body[m + 1] ELSE Num!EOF
  BY PeekIs
<1>2. Num!EOF \notin Num!IdCont
  BY IdContIs DEF Num!EOF
<1>3. m + 1 <= Len(Num!Body) <=> m < Len(Num!Body)
  <2>1. Num!Body \in Seq(S)
    BY BodyOf
  <2> QED
    BY <2>1, LenProperties
<1> QED
  BY <1>1, <1>2, <1>3, Zenon

\* Where the scanner stands at each stage: what was scanned is accepted part
\* by part, each with all of its run, and kept.
Nothing == int = <<>> /\ frac = <<>> /\ exp = <<>>
AtSign == i = 0 /\ base = 10 /\ Nothing
AtHead == i = Num!Lead /\ base = 10 /\ Nothing
AtInteger == \E m \in Nat : i = Num!Lead + m /\ Headed(Num!Body, m, base) /\ Nothing
AtFraction == \E m \in Nat : i = Num!Lead + m /\ FractionStage(Num!Body, m, base, int) /\ frac = <<>> /\ exp = <<>>
AtExponent == \E m \in Nat : i = Num!Lead + m /\ ExponentStage(Num!Body, m, base, int, frac) /\ exp = <<>>
AtEnd == \E m \in Nat : i = Num!Lead + m /\ EndStage(Num!Body, m, base, int, frac, exp)

\* No number is answered with yet.
Unanswered == scanned.is = ""
Staged ==
    /\ stage = "sign" => AtSign
    /\ stage = "head" => AtHead
    /\ stage = "integer" => AtInteger
    /\ stage = "fraction" => AtFraction
    /\ stage = "exponent" => AtExponent
    /\ stage = "end" => AtEnd

\* A scan that is going on stands at a stage it has come to.
NumberInv == text \in Seq(Num!Char) /\ IF Unanswered THEN Staged ELSE ScansLiterals

\* Steps of a kind: the scan goes on, ends where no digit leads, or refuses
\* what no literal is.
LEMMA SameBody == text' = text => Num!Body' = Num!Body /\ Num!Lead' = Num!Lead
  BY DEF Num!Body, Num!Lead

LEMMA GoesOn ==
    ASSUME NumberInv, text' = text, scanned' = scanned, Unanswered,
           \/ stage' = "head" /\ AtHead'
           \/ stage' = "integer" /\ AtInteger'
           \/ stage' = "fraction" /\ AtFraction'
           \/ stage' = "exponent" /\ AtExponent'
           \/ stage' = "end" /\ AtEnd'
    PROVE  NumberInv'
<1>1. Unanswered'
  BY DEF Unanswered
<1>2. Staged'
  BY DEF Staged
<1> QED
  BY <1>1, <1>2 DEF NumberInv

DigitLeads == Num!Body # <<>> /\ Num!Body[1] \in {"0", "1", "8"}
Answered(is, end) == scanned' = [is |-> is, end |-> end] /\ UNCHANGED <<text, i, neg, base, int, frac, exp, stage>>

LEMMA AnswerIs == ASSUME NEW is, NEW end, Num!Answer(is, end) PROVE Answered(is, end)
  BY DEF Num!Answer, Num!scanned, Answered

LEMMA NotANumber ==
    ASSUME NumberInv, ~DigitLeads, NEW is \in {"none", "bad", "float", "int"}, NEW end, Answered(is, end)
    PROVE  NumberInv'
<1>1. text' = text /\ ~Unanswered'
  BY DEF Answered, Unanswered
<1>2. ~DigitLeads'
  BY <1>1, SameBody DEF DigitLeads
<1>3. ScansLiterals'
  BY <1>2 DEF DigitLeads, ScansLiterals, Num!ScansLiterals
<1> QED
  BY <1>1, <1>3 DEF NumberInv

LEMMA Refuses ==
    ASSUME NumberInv, NoLiteralIn(Num!Body), NEW end, Answered("bad", end)
    PROVE  NumberInv'
<1>1. text' = text /\ ~Unanswered' /\ scanned'.is = "bad"
  BY DEF Answered, Unanswered
<1>2. \A e : e \notin Num!LiteralEnds(Num!Body')
  BY <1>1, SameBody DEF NoLiteralIn
<1>3. ScansLiterals'
  BY <1>1, <1>2 DEF ScansLiterals, Num!ScansLiterals
<1> QED
  BY <1>1, <1>3 DEF NumberInv

LEMMA BodyTypes ==
    ASSUME NumberInv
    PROVE  /\ text \in Seq(Num!Char) /\ Num!Body \in Seq(Num!Char) /\ Len(Num!Body) \in Nat /\ Num!Lead \in Nat
           /\ Num!Body # <<>> <=> 1 <= Len(Num!Body)
<1>1. text \in Seq(Num!Char)
  BY DEF NumberInv
<1>2. Num!Body \in Seq(Num!Char)
  BY <1>1, BodyOf
<1>3. Len(Num!Body) \in Nat
  BY <1>2, LenProperties
<1>4. Num!Body # <<>> <=> 1 <= Len(Num!Body)
  BY <1>2, <1>3, EmptySeq
<1> QED
  BY <1>1, <1>2, <1>3, <1>4, LeadIs

\* The first characters.
LEMMA HeadPeeks ==
    ASSUME NumberInv, AtHead
    PROVE  /\ Num!Peek(1) = IF 1 <= Len(Num!Body) THEN Num!Body[1] ELSE Num!EOF
           /\ Num!Peek(2) = IF 2 <= Len(Num!Body) THEN Num!Body[2] ELSE Num!EOF
<1>1. i = Num!Lead + 0 /\ 0 \in Nat /\ 0 + 1 = 1 /\ 0 + 2 = 2 /\ 1 \in Nat \ {0} /\ 2 \in Nat \ {0}
  BY BodyTypes DEF AtHead
<1>2. /\ Num!Peek(1) = IF 0 + 1 <= Len(Num!Body) THEN Num!Body[0 + 1] ELSE Num!EOF
      /\ Num!Peek(2) = IF 0 + 2 <= Len(Num!Body) THEN Num!Body[0 + 2] ELSE Num!EOF
  BY <1>1, BodyTypes, PeekIs
<1> QED
  BY <1>1, <1>2

LEMMA EOFIsNone ==
    /\ Num!EOF \notin {"0", "1", "8"} /\ Num!EOF \notin {"inf", "nan"} /\ Num!EOF \notin DOMAIN Num!BasePrefix
    /\ Num!EOF \notin Num!UpperPrefix \cup {"_", "0", "1", "8"}
  BY BasesAre DEF Num!EOF, Num!UpperPrefix

LEMMA SignKeeps == NumberInv /\ Num!Sign => NumberInv'
<1> SUFFICES ASSUME NumberInv, Num!Sign PROVE NumberInv'
  OBVIOUS
<1>1. Unanswered /\ stage = "sign" /\ AtSign
  BY DEF Num!Sign, Num!Going, Unanswered, NumberInv, Staged
<1>2. text' = text /\ scanned' = scanned /\ i' = Num!Lead /\ stage' = "head"
      /\ base' = base /\ int' = int /\ frac' = frac /\ exp' = exp
  BY DEF Num!Sign, Num!scanned
<1>3. AtHead'
  BY <1>1, <1>2, SameBody DEF AtHead, AtSign, Nothing
<1> QED
  BY <1>1, <1>2, <1>3, GoesOn

LEMMA HeadKeeps == NumberInv /\ (Num!Keyword \/ Num!NoNumber \/ Num!Prefix \/ Num!LeadingZero \/ Num!Decimal) => NumberInv'
<1> SUFFICES ASSUME NumberInv, Num!Keyword \/ Num!NoNumber \/ Num!Prefix \/ Num!LeadingZero \/ Num!Decimal
             PROVE  NumberInv'
  OBVIOUS
<1> DEFINE s == Num!Body
<1>1. Unanswered /\ stage = "head" /\ AtHead
  <2>1. Num!Going("head")
    BY DEF Num!Keyword, Num!NoNumber, Num!Prefix, Num!LeadingZero, Num!Decimal
  <2> QED
    BY <2>1 DEF Num!Going, Unanswered, NumberInv, Staged
<1>2. /\ Num!Peek(1) = IF 1 <= Len(s) THEN s[1] ELSE Num!EOF
      /\ Num!Peek(2) = IF 2 <= Len(s) THEN s[2] ELSE Num!EOF
  BY <1>1, HeadPeeks
<1>3. s \in Seq(Num!Char) /\ (s # <<>> <=> 1 <= Len(s)) /\ Len(s) \in Nat
  BY BodyTypes
<1> HIDE DEF s
<1>n. 2 <= Len(s) => 1 <= Len(s)
  BY <1>3
<1>4. DigitLeads <=> 1 <= Len(s) /\ s[1] \in {"0", "1", "8"}
  BY <1>3 DEF DigitLeads, s
<1>5. DigitLeads <=> Num!Peek(1) \in {"0", "1", "8"}
  BY <1>2, <1>4, EOFIsNone
<1>6. CASE Num!Keyword
  <2>1. ~DigitLeads
    BY <1>5, <1>6 DEF Num!Keyword
  <2>2. PICK is \in {"float", "bad"} : Answered(is, i + 1)
    BY <1>6, AnswerIs DEF Num!Keyword
  <2> QED
    BY <2>1, <2>2, NotANumber
<1>7. CASE Num!NoNumber
  <2>1. ~DigitLeads
    BY <1>5, <1>7 DEF Num!NoNumber
  <2>2. Answered("none", 0)
    BY <1>7, AnswerIs DEF Num!NoNumber
  <2> QED
    BY <2>1, <2>2, NotANumber
<1>8. CASE Num!Prefix
  <2>1. Num!Peek(1) = "0" /\ Num!Peek(2) \in DOMAIN Num!BasePrefix
    BY <1>8 DEF Num!Prefix
  <2>2. 2 <= Len(s) /\ s[2] = Num!Peek(2)
    BY <1>2, <2>1, EOFIsNone
  <2>3. s[1] = "0"
    BY <1>2, <1>n, <2>1, <2>2
  <2>4. Headed(s, 2, Num!BasePrefix[s[2]])
    BY <2>1, <2>2, <2>3 DEF Headed
  <2>5. /\ text' = text /\ scanned' = scanned /\ i' = i + 2 /\ stage' = "integer"
        /\ base' = Num!BasePrefix[s[2]] /\ int' = int /\ frac' = frac /\ exp' = exp
    BY <1>8, <2>2 DEF Num!Prefix, Num!Then
  <2>6. AtInteger'
    <3>1. i' = Num!Lead + 2
      BY <1>1, <2>5 DEF AtHead
    <3>2. Nothing'
      BY <1>1, <2>5 DEF AtHead, Nothing
    <3> QED
      BY <2>4, <2>5, <3>1, <3>2, SameBody DEF AtInteger, s
  <2> QED
    BY <1>1, <2>5, <2>6, GoesOn
<1>9. CASE Num!LeadingZero
  <2>1. Num!Peek(1) = "0" /\ Num!Peek(2) \in Num!UpperPrefix \cup {"_", "0", "1", "8"}
    BY <1>9 DEF Num!LeadingZero
  <2>2. 2 <= Len(s) /\ s[2] = Num!Peek(2)
    BY <1>2, <2>1, EOFIsNone
  <2>3. s[1] = "0"
    BY <1>2, <1>n, <2>1, <2>2
  <2>4. ZeroLeads(s) /\ Len(s) >= 2
    BY <1>3, <2>1, <2>2, <2>3 DEF ZeroLeads
  <2>5. NoLiteralIn(s)
    BY <1>3, <2>4, NoLeadingZero
  <2>6. Answered("bad", Num!TokenEnd)
    BY <1>9, AnswerIs DEF Num!LeadingZero, Num!Bad
  <2> QED
    BY <2>5, <2>6, Refuses DEF s
<1>10. CASE Num!Decimal
  <2>1. /\ Num!Peek(1) \in {"0", "1", "8"}
        /\ Num!Peek(1) = "0" => Num!Peek(2) \notin DOMAIN Num!BasePrefix \cup Num!UpperPrefix \cup {"_", "0", "1", "8"}
    BY <1>10 DEF Num!Decimal
  <2>2. 1 <= Len(s) /\ s[1] = Num!Peek(1)
    BY <1>2, <2>1, EOFIsNone
  <2>3. 2 <= Len(s) => s[2] = Num!Peek(2)
    BY <1>2
  <2>4. Headed(s, 0, 10)
    BY <1>3, <2>1, <2>2, <2>3 DEF Headed
  <2>5. /\ text' = text /\ scanned' = scanned /\ i' = i /\ stage' = "integer"
        /\ base' = base /\ int' = int /\ frac' = frac /\ exp' = exp
    BY <1>10 DEF Num!Decimal, Num!Then, Num!scanned
  <2>6. AtInteger'
    <3>1. i' = Num!Lead + 0 /\ 0 \in Nat
      BY <1>1, <2>5, BodyTypes DEF AtHead
    <3>2. Nothing' /\ base' = 10
      BY <1>1, <2>5 DEF AtHead, Nothing
    <3> QED
      BY <2>4, <2>5, <3>1, <3>2, SameBody DEF AtInteger, s
  <2> QED
    BY <1>1, <2>5, <2>6, GoesOn
<1> QED
  BY <1>6, <1>7, <1>8, <1>9, <1>10

\* The integer part is refused where its separators are misplaced, and else
\* the fraction or the exponent is next.
LEMMA IntegerPartKeeps == NumberInv /\ Num!IntegerPart => NumberInv'
<1> SUFFICES ASSUME NumberInv, Num!IntegerPart PROVE NumberInv'
  OBVIOUS
<1> DEFINE s == Num!Body
           run == Num!Run(i, base)
<1>1. Unanswered /\ AtInteger
  BY DEF Num!IntegerPart, Num!Going, Unanswered, NumberInv, Staged
<1>2. PICK m \in Nat : i = Num!Lead + m /\ Headed(s, m, base) /\ Nothing
  BY <1>1 DEF AtInteger
<1>3. IF Num!Misplaced(run) THEN Num!Bad
      ELSE /\ int' = Num!DigitsIn(run) /\ i' = i + Len(run) /\ stage' = "fraction"
           /\ text' = text /\ scanned' = scanned /\ base' = base /\ frac' = frac /\ exp' = exp
  BY DEF Num!IntegerPart, Num!Then
<1>4. text \in Seq(Num!Char) /\ s \in Seq(Num!Char) /\ Num!Lead \in Nat
  BY BodyTypes
<1>5. m <= Len(s)
  BY <1>2, <1>4, HeadedLength
<1>6. PICK z \in Nat : Maximal(s, m + 1, z, base) /\ run = SubSeq(s, m + 1, z)
  BY <1>2, <1>4, <1>5, RunOfBody
<1> HIDE DEF s, run
<1>7. m + 1 \in Nat \ {0} /\ m <= z /\ z <= Len(s) /\ (m + 1) - 1 <= z
  BY <1>6 DEF Maximal
<1>8. Num!Misplaced(run) <=> m + 1 <= z /\ ~Clean(s, m + 1, z, base)
  BY <1>4, <1>6, <1>7, MisplacedIs
<1>9. CASE Num!Misplaced(run)
  <2>1. z > m
    BY <1>8, <1>9
  <2>2. NoLiteralIn(s)
    BY <1>2, <1>4, <1>6, <1>8, <1>9, <2>1, BadWhole
  <2>3. Answered("bad", Num!TokenEnd)
    BY <1>3, <1>9, AnswerIs DEF Num!Bad
  <2> QED
    BY <2>2, <2>3, Refuses DEF s
<1>10. CASE ~Num!Misplaced(run)
  <2>1. WholeAt(s, m, base, z)
    <3>1. m + 1 <= z \/ z = m
      BY <1>7
    <3> QED
      BY <1>6, <1>8, <1>10, <3>1 DEF WholeAt
  <2>2. i' = Num!Lead + z
    <3>1. Len(run) = (z - (m + 1)) + 1
      BY <1>4, <1>6, <1>7, SubSeqIs
    <3>2. i' = i + Len(run)
      BY <1>3, <1>10
    <3> QED
      BY <1>2, <1>4, <1>7, <3>1, <3>2
  <2>3. FractionStage(s, z, base, Num!DigitsIn(run))
    BY <1>2, <1>6, <2>1 DEF FractionStage, s
  <2>4. AtFraction'
    BY <1>2, <1>3, <1>10, <2>2, <2>3, SameBody DEF AtFraction, Nothing, s
  <2> QED
    BY <1>1, <1>3, <1>10, <2>4, GoesOn
<1> QED
  BY <1>9, <1>10

LEMMA FractionKeeps == NumberInv /\ (Num!NoFraction \/ Num!FractionPart) => NumberInv'
<1> SUFFICES ASSUME NumberInv, Num!NoFraction \/ Num!FractionPart PROVE NumberInv'
  OBVIOUS
<1> DEFINE s == Num!Body
           run == Num!Run(i + 1, base)
<1>1. Unanswered /\ AtFraction
  <2>1. Num!Going("fraction")
    BY DEF Num!NoFraction, Num!FractionPart
  <2> QED
    BY <2>1 DEF Num!Going, Unanswered, NumberInv, Staged
<1>2. PICK m \in Nat : i = Num!Lead + m /\ FractionStage(s, m, base, int) /\ frac = <<>> /\ exp = <<>>
  BY <1>1 DEF AtFraction
<1>3. PICK p : Headed(s, p, base) /\ WholeAt(s, p, base, m) /\ int = Num!DigitsIn(SubSeq(s, p + 1, m))
  BY <1>2 DEF FractionStage
<1>4. text \in Seq(Num!Char) /\ s \in Seq(Num!Char) /\ Num!Lead \in Nat /\ base \in Bases /\ p \in Nat /\ Len(s) \in Nat
  BY <1>3, BodyTypes, HeadedBase
<1>5. Num!Peek(1) = "." /\ Num!StartsFraction(Num!Peek(2)) <=> Starts(s, base, m)
  BY <1>2, <1>4, StartsIs
<1>6. CASE Num!NoFraction
  <2>1. ~Starts(s, base, m)
    BY <1>5, <1>6 DEF Num!NoFraction
  <2>2. /\ text' = text /\ scanned' = scanned /\ i' = i /\ stage' = "exponent"
        /\ base' = base /\ int' = int /\ frac' = frac /\ exp' = exp
    BY <1>6 DEF Num!NoFraction, Num!Then, Num!scanned
  <2>3. FractionAt(s, base, m, m) /\ frac = FractionDigits(s, base, m, m)
    BY <1>2, <2>1 DEF FractionAt, FractionDigits
  <2>4. ExponentStage(s, m, base, int, frac)
    BY <1>2, <1>3, <2>3 DEF ExponentStage
  <2>5. AtExponent'
    BY <1>2, <2>2, <2>4, SameBody DEF AtExponent
  <2> QED
    BY <1>1, <2>2, <2>5, GoesOn
<1>7. CASE Num!FractionPart
  <2>1. Starts(s, base, m)
    BY <1>5, <1>7 DEF Num!FractionPart
  <2>2. IF base \notin {10, 16} \/ Num!Misplaced(run) THEN Num!Bad
        ELSE /\ frac' = <<".">> \o Num!DigitsIn(run) /\ i' = i + 1 + Len(run) /\ stage' = "exponent"
             /\ text' = text /\ scanned' = scanned /\ base' = base /\ int' = int /\ exp' = exp
    BY <1>7 DEF Num!FractionPart, Num!Then
  <2>3. m + 1 \in Nat /\ m + 1 <= Len(s) /\ i + 1 = Num!Lead + (m + 1) /\ (m + 1) + 1 = m + 2 /\ m + 2 \in Nat \ {0}
    <3>1. m + 2 <= Len(s)
      BY <2>1 DEF Starts
    <3> QED
      BY <1>2, <1>4, <3>1
  <2>4. PICK z \in Nat : Maximal(s, m + 2, z, base) /\ run = SubSeq(s, m + 2, z)
    <3>1. PICK z \in Nat : Maximal(s, (m + 1) + 1, z, base) /\ Num!Run(Num!Lead + (m + 1), base) = SubSeq(s, (m + 1) + 1, z)
      BY <1>4, <2>3, RunOfBody
    <3> QED
      BY <2>3, <3>1
  <2> HIDE DEF s, run
  <2>5. (m + 2) - 1 <= z /\ z <= Len(s) /\ m + 1 <= z
    <3>1. (m + 2) - 1 <= z /\ z <= Len(s)
      BY <2>4 DEF Maximal
    <3> QED
      BY <3>1
  <2>6. Num!Misplaced(run) <=> m + 2 <= z /\ ~Clean(s, m + 2, z, base)
    BY <1>4, <2>3, <2>4, MisplacedIs
  <2>7. CASE base \notin {10, 16} \/ Num!Misplaced(run)
    <3>1. base \in {10, 16} => z > m + 1 /\ ~Clean(s, m + 2, z, base)
      <4>1. m + 2 <= z => z > m + 1
        OBVIOUS
      <4> QED
        BY <2>6, <2>7, <4>1
    <3>2. NoLiteralIn(s)
      BY <1>3, <1>4, <2>1, <2>4, <3>1, BadFraction DEF s
    <3>3. Answered("bad", Num!TokenEnd)
      BY <2>2, <2>7, AnswerIs DEF Num!Bad
    <3> QED
      BY <3>2, <3>3, Refuses DEF s
  <2>8. CASE ~(base \notin {10, 16} \/ Num!Misplaced(run))
    <3>1. FractionAt(s, base, m, z)
      <4>1. m + 2 <= z \/ z = m + 1
        BY <2>5
      <4> QED
        BY <2>1, <2>4, <2>6, <2>8, <4>1 DEF FractionAt
    <3>2. <<".">> \o Num!DigitsIn(run) = FractionDigits(s, base, m, z)
      BY <2>1, <2>4 DEF FractionDigits
    <3>3. i' = Num!Lead + z
      <4>1. Len(run) = (z - (m + 2)) + 1
        BY <1>4, <2>3, <2>4, <2>5, SubSeqIs, SMTT(30)
      <4>2. i' = i + 1 + Len(run)
        BY <2>2, <2>8
      <4> QED
        BY <1>2, <1>4, <2>5, <4>1, <4>2
    <3>4. ExponentStage(s, z, base, int, <<".">> \o Num!DigitsIn(run))
      BY <1>3, <3>1, <3>2 DEF ExponentStage, s
    <3>5. AtExponent'
      BY <1>2, <2>2, <2>8, <3>3, <3>4, SameBody DEF AtExponent, s
    <3> QED
      BY <1>1, <2>2, <2>8, <3>5, GoesOn
  <2> QED
    BY <2>7, <2>8
<1> QED
  BY <1>6, <1>7

\* The exponent's digits begin behind its letter and its sign.
LEMMA ExponentBegins ==
    ASSUME NEW S, NEW s \in Seq(S), NEW b, NEW x \in Nat, Raises(s, b, x)
    PROVE  \E m \in Nat : m + 1 = Power(s, x) /\ x + 1 <= m /\ m <= Len(s)
<1>1. x + 1 <= Len(s) /\ Len(s) \in Nat
  <2>1. x + 1 <= Len(s)
    BY DEF Raises
  <2> QED
    BY <2>1, LenProperties
<1>2. CASE x + 2 <= Len(s) /\ s[x + 2] \in Signs
  <2>1. Power(s, x) = x + 3 /\ x + 2 <= Len(s)
    BY <1>2 DEF Power
  <2>2. x + 2 \in Nat /\ (x + 2) + 1 = x + 3 /\ x + 1 <= x + 2
    OBVIOUS
  <2> QED
    BY <2>1, <2>2
<1>3. CASE ~(x + 2 <= Len(s) /\ s[x + 2] \in Signs)
  <2>1. Power(s, x) = x + 2
    BY <1>3 DEF Power
  <2>2. x + 1 \in Nat /\ (x + 1) + 1 = x + 2 /\ x + 1 <= x + 1
    OBVIOUS
  <2> QED
    BY <1>1, <2>1, <2>2
<1> QED
  BY <1>2, <1>3

EmptyRange(s, a, z) == SubSeq(s, a, z) = <<>> <=> z = a - 1

LEMMA RangeEmpty ==
    ASSUME NEW S, NEW s \in Seq(S), NEW a \in Nat \ {0}, NEW z \in Int, a - 1 <= z, z <= Len(s)
    PROVE  EmptyRange(s, a, z)
<1>1. SubSeq(s, a, z) = <<>> <=> z = a - 1
  BY SubSeqIs
<1> QED
  BY <1>1 DEF EmptyRange

LEMMA ExponentKeeps == NumberInv /\ (Num!NoExponent \/ Num!ExponentPart) => NumberInv'
<1> SUFFICES ASSUME NumberInv, Num!NoExponent \/ Num!ExponentPart PROVE NumberInv'
  OBVIOUS
<1> DEFINE s == Num!Body
           sign == IF Num!Peek(2) \in {"+", "-"} THEN 1 ELSE 0
           run == Num!Run(i + 1 + sign, 10)
           mark == SubSeq(text, i + 1, i + 1 + sign)
<1>1. Unanswered /\ AtExponent
  <2>1. Num!Going("exponent")
    BY DEF Num!NoExponent, Num!ExponentPart
  <2> QED
    BY <2>1 DEF Num!Going, Unanswered, NumberInv, Staged
<1>2. PICK x \in Nat : i = Num!Lead + x /\ ExponentStage(s, x, base, int, frac) /\ exp = <<>>
  BY <1>1 DEF AtExponent
<1>3. PICK p, v \in Nat :
          /\ Headed(s, p, base) /\ WholeAt(s, p, base, v) /\ int = Num!DigitsIn(SubSeq(s, p + 1, v))
          /\ FractionAt(s, base, v, x) /\ frac = FractionDigits(s, base, v, x)
  BY <1>2, HeadedBase DEF ExponentStage
<1>4. text \in Seq(Num!Char) /\ s \in Seq(Num!Char) /\ Num!Lead \in Nat /\ base \in Bases /\ Len(s) \in Nat
  BY <1>3, BodyTypes, HeadedBase
<1>5. Num!Peek(1) \in Num!ExpChar(base) <=> Raises(s, base, x)
  BY <1>2, <1>4, RaisesIs
<1>6. CASE Num!NoExponent
  <2>1. ~Raises(s, base, x)
    BY <1>5, <1>6 DEF Num!NoExponent
  <2>2. /\ text' = text /\ scanned' = scanned /\ i' = i /\ stage' = "end"
        /\ base' = base /\ int' = int /\ frac' = frac /\ exp' = exp
    BY <1>6 DEF Num!NoExponent, Num!Then, Num!scanned
  <2>3. PowerAt(s, base, x, x) /\ (exp = <<>> <=> ~Raises(s, base, x))
    BY <1>2, <2>1 DEF PowerAt
  <2>4. EndStage(s, x, base, int, frac, exp)
    BY <1>3, <2>3 DEF EndStage
  <2>5. AtEnd'
    BY <1>2, <2>2, <2>4, SameBody DEF AtEnd
  <2> QED
    BY <1>1, <2>2, <2>5, GoesOn
<1>7. CASE Num!ExponentPart
  <2>1. Raises(s, base, x)
    BY <1>5, <1>7, SMTT(30) DEF Num!ExponentPart
  <2>2. IF Num!Misplaced(run) \/ run = <<>> THEN Num!Bad
        ELSE /\ exp' = mark \o Num!DigitsIn(run) /\ i' = i + 1 + sign + Len(run) /\ stage' = "end"
             /\ text' = text /\ scanned' = scanned /\ base' = base /\ int' = int /\ frac' = frac
    BY <1>7 DEF Num!ExponentPart, Num!Then
  <2>3. PICK m \in Nat : m + 1 = Power(s, x) /\ x + 1 <= m /\ m <= Len(s)
    BY <1>4, <2>1, ExponentBegins
  <2>4. Power(s, x) = (IF Num!Peek(2) \in {"+", "-"} THEN x + 3 ELSE x + 2)
    BY <1>2, <1>4, SignIs
  <2>5. sign \in {0, 1} /\ Power(s, x) = (x + 2) + sign
    BY <2>4
  <2> HIDE DEF s, sign
  <2>6. i + 1 + sign = Num!Lead + m
    BY <1>2, <1>4, <2>3, <2>5
  <2>7. PICK z \in Nat : Maximal(s, m + 1, z, 10) /\ run = SubSeq(s, m + 1, z)
    BY <1>4, <2>3, <2>6, RunOfBody DEF s
  <2>8. m + 1 \in Nat \ {0} /\ (m + 1) - 1 <= z /\ m <= z /\ z <= Len(s)
    <3>1. (m + 1) - 1 <= z /\ z <= Len(s)
      BY <2>7 DEF Maximal
    <3> QED
      BY <3>1
  <2>m. mark \in Seq(Num!Char) /\ mark # <<>>
    <3>1. Len(text) \in Nat /\ Len(s) = Len(text) - Num!Lead /\ Num!Lead <= Len(text)
      BY <1>4, BodyOf, LeadIs, LenProperties DEF s
    <3>2. i + 1 \in Nat \ {0} /\ i + 1 + sign \in Int /\ (i + 1) - 1 <= i + 1 + sign /\ i + 1 + sign <= Len(text)
          /\ i + 1 + sign # (i + 1) - 1
      BY <1>2, <1>4, <2>3, <2>5, <2>6, <3>1
    <3> HIDE DEF sign
    <3> QED
      BY <1>4, <3>2, SubSeqIs
  <2> HIDE DEF run, mark
  <2>9. (Num!Misplaced(run) <=> m + 1 <= z /\ ~Clean(s, m + 1, z, 10)) /\ (run = <<>> <=> z = (m + 1) - 1)
    <3>1. Num!Misplaced(SubSeq(s, m + 1, z)) <=> m + 1 <= z /\ ~Clean(s, m + 1, z, 10)
      BY <1>4, <2>7, <2>8, MisplacedIs
    <3>2. SubSeq(s, m + 1, z) = <<>> <=> z = (m + 1) - 1
      <4>1. EmptyRange(s, m + 1, z)
        BY <1>4, <2>8, RangeEmpty
      <4> QED
        BY <4>1 DEF EmptyRange
    <3> QED
      BY <2>7, <3>1, <3>2
  <2>10. (z = (m + 1) - 1 => ~(m + 1 <= z)) /\ (z # (m + 1) - 1 => m + 1 <= z)
    BY <2>8
  <2>11. CASE Num!Misplaced(run) \/ run = <<>>
    <3>1. ~Clean(s, m + 1, z, 10)
      BY <2>9, <2>10, <2>11, CleanRange
    <3>2. Maximal(s, Power(s, x), z, 10) /\ ~Clean(s, Power(s, x), z, 10)
      BY <2>3, <2>7, <3>1
    <3>3. NoLiteralIn(s)
      BY <1>3, <1>4, <2>1, <3>2, BadPower DEF s
    <3>4. Answered("bad", Num!TokenEnd)
      BY <2>2, <2>11, AnswerIs DEF Num!Bad
    <3> QED
      BY <3>3, <3>4, Refuses DEF s
  <2>12. CASE ~(Num!Misplaced(run) \/ run = <<>>)
    <3>1. PowerAt(s, base, x, z)
      BY <2>1, <2>3, <2>7, <2>9, <2>10, <2>12 DEF PowerAt
    <3>2. i' = Num!Lead + z
      <4>1. Len(run) = (z - (m + 1)) + 1
        BY <1>4, <2>7, <2>8, SubSeqIs
      <4>2. i' = i + 1 + sign + Len(run)
        BY <2>2, <2>12
      <4> QED
        BY <1>4, <2>6, <2>8, <4>1, <4>2
    <3>3. exp' # <<>>
      <4>1. Num!DigitsIn(run) \in Seq(Num!Char)
        <5>1. run \in Seq(Num!Char)
          BY <1>4, <2>7, <2>8, SubSeqIs
        <5> QED
          BY <5>1, DigitsInIs DEF DigitsKept
      <4>2. exp' = mark \o Num!DigitsIn(run)
        BY <2>2, <2>12
      <4>3. Len(mark) \in Nat /\ Len(mark) # 0 /\ Len(Num!DigitsIn(run)) \in Nat
        BY <2>m, <4>1, LenProperties, EmptySeq
      <4>4. Len(exp') = Len(mark) + Len(Num!DigitsIn(run)) /\ exp' \in Seq(Num!Char)
        BY <2>m, <4>1, <4>2, ConcatProperties
      <4>5. Len(exp') # 0
        BY <4>3, <4>4
      <4> QED
        BY <4>4, <4>5, EmptySeq
    <3>4. EndStage(s, z, base, int, frac, exp')
      BY <1>3, <2>1, <3>1, <3>3 DEF EndStage, s
    <3>5. AtEnd'
      BY <1>2, <2>2, <2>12, <3>2, <3>4, SameBody DEF AtEnd, s
    <3> QED
      BY <1>1, <2>2, <2>12, <3>5, GoesOn
  <2> QED
    BY <2>11, <2>12, SMTT(30)
<1> QED
  BY <1>6, <1>7

\* There are digits where something was kept of them.
PartsSaid(s, p, b, v, x, wh, fr) ==
    /\ (wh = <<>> /\ Len(fr) < 2) <=> ~(v > p \/ x > v + 1)
    /\ fr = <<>> <=> ~Starts(s, b, v)
    /\ HoldsAll(s, p + 1, v, wh)

LEMMA PartsKept ==
    ASSUME NEW S, NEW s \in Seq(S), NEW p, NEW b, Headed(s, p, b), NEW v \in Nat, NEW x \in Nat,
           WholeAt(s, p, b, v), FractionAt(s, b, v, x), NEW wh, wh = Num!DigitsIn(SubSeq(s, p + 1, v)),
           NEW fr, fr = FractionDigits(s, b, v, x), "." \in S
    PROVE  PartsSaid(s, p, b, v, x, wh, fr)
<1>r. PartsSaid(s, p, b, v, x, wh, fr) <=>
        /\ (wh = <<>> /\ Len(fr) < 2) <=> ~(v > p \/ x > v + 1)
        /\ fr = <<>> <=> ~Starts(s, b, v)
        /\ HoldsAll(s, p + 1, v, wh)
  BY DEF PartsSaid
<1>1. p \in Nat /\ b \in Bases /\ Len(s) \in Nat
  BY HeadedBase, LenProperties
<1>2. p + 1 \in Nat \ {0} /\ (p + 1) - 1 <= v /\ v <= Len(s) /\ (v = (p + 1) - 1 <=> v = p) /\ p <= v
  <2>1. (p + 1) - 1 <= v /\ v <= Len(s)
    BY DEF WholeAt, Maximal
  <2> QED
    BY <1>1, <2>1
<1>3. /\ Clean(s, p + 1, v, b) => wh # <<>>
      /\ v = (p + 1) - 1 => wh = <<>>
      /\ HoldsAll(s, p + 1, v, wh)
  <2>1. RunKept(s, p + 1, v, b, Num!DigitsIn(SubSeq(s, p + 1, v)))
    BY <1>1, <1>2, RunKeeps
  <2> QED
    BY <2>1 DEF RunKept
<1>4. wh = <<>> <=> v = p
  BY <1>2, <1>3 DEF WholeAt
<1>5. CASE Starts(s, b, v)
  <2> DEFINE d == Num!DigitsIn(SubSeq(s, v + 2, x))
  <2>1. v + 2 \in Nat \ {0} /\ (v + 2) - 1 <= x /\ x <= Len(s) /\ (x = (v + 2) - 1 <=> x = v + 1) /\ v + 1 <= x
    <3>1. (v + 2) - 1 <= x /\ x <= Len(s)
      BY <1>5 DEF FractionAt, Maximal
    <3> QED
      BY <3>1
  <2>2. /\ d \in Seq(S)
        /\ Clean(s, v + 2, x, b) => d # <<>>
        /\ x = (v + 2) - 1 => d = <<>>
    <3>1. d \in Seq(S) /\ RunKept(s, v + 2, x, b, d)
      BY <2>1, RunKeeps
    <3> HIDE DEF d
    <3> QED
      BY <3>1 DEF RunKept
  <2>3. fr = <<".">> \o d
    BY <1>5 DEF FractionDigits
  <2> HIDE DEF d
  <2>4. d = <<>> <=> x = v + 1
    BY <1>5, <2>1, <2>2 DEF FractionAt
  <2>5. Len(d) \in Nat /\ (Len(d) = 0 <=> d = <<>>)
    BY <2>2, LenProperties, EmptySeq
  <2>6. Len(fr) = 1 + Len(d) /\ fr \in Seq(S)
    <3>1. <<".">> \in Seq(S) /\ Len(<<".">>) = 1
      OBVIOUS
    <3> QED
      BY <2>2, <2>3, <3>1, ConcatProperties
  <2>7. Len(fr) < 2 <=> Len(d) = 0
    BY <2>5, <2>6
  <2>8. Len(fr) # 0
    BY <2>5, <2>6
  <2>9. fr # <<>>
    BY <2>8, EmptySeq
  <2>10. (v > p <=> v # p) /\ (x > v + 1 <=> x # v + 1)
    BY <1>1, <1>2, <2>1
  <2> QED
    BY <1>r, <1>3, <1>4, <1>5, <2>4, <2>5, <2>7, <2>9, <2>10
<1>6. CASE ~Starts(s, b, v)
  <2>1. fr = <<>> /\ x = v
    BY <1>6 DEF FractionDigits, FractionAt
  <2>2. Len(fr) < 2
    BY <2>1
  <2>3. (v > p <=> v # p) /\ ~(x > v + 1)
    BY <1>1, <1>2, <2>1
  <2> QED
    BY <1>r, <1>3, <1>4, <1>6, <2>1, <2>2, <2>3
<1> QED
  BY <1>5, <1>6

\* A zero of no fraction and no exponent.
IsZero(c) == c \in {"0", "_"}
Zeros(s, e) == \A k \in 1..e : IsZero(s[k]) \/ (k = 2 /\ s[k] \in DOMAIN Num!BasePrefix)

AllZero(d) == \A k \in DOMAIN d : d[k] = "0"

LEMMA AllZeros ==
    ASSUME NEW S, NEW s \in Seq(S), NEW p, NEW b, Headed(s, p, b), NEW v \in Nat, NEW wh,
           HoldsAll(s, p + 1, v, wh), AllZero(wh)
    PROVE  Zeros(s, v)
<1>1. p \in Nat /\ (p # 0 => p = 2)
  BY HeadedBase
<1>2. \A k \in (p + 1)..v : IsZero(s[k])
  BY DEF HoldsAll, AllZero, Holds, IsZero
<1>3. ASSUME p # 0 PROVE IsZero(s[1]) /\ s[2] \in DOMAIN Num!BasePrefix
  BY <1>1, <1>3 DEF Headed, IsZero
<1>4. ASSUME NEW k \in 1..v PROVE IsZero(s[k]) \/ (k = 2 /\ s[k] \in DOMAIN Num!BasePrefix)
  <2>1. CASE p = 0
    <3>1. k \in (p + 1)..v
      BY <2>1
    <3> QED
      BY <1>2, <3>1
  <2>2. CASE p # 0
    <3>1. k = 1 \/ k = 2 \/ k \in (p + 1)..v
      BY <1>1, <2>2
    <3> QED
      BY <1>2, <1>3, <2>2, <3>1
  <2> QED
    BY <2>1, <2>2
<1> QED
  BY <1>4 DEF Zeros

LEMMA EndKeeps == NumberInv /\ Num!End => NumberInv'
<1> SUFFICES ASSUME NumberInv, Num!End PROVE NumberInv'
  OBVIOUS
<1> DEFINE s == Num!Body
<1>1. Unanswered /\ AtEnd
  BY DEF Num!End, Num!Going, Unanswered, NumberInv, Staged
<1>2. PICK m \in Nat : i = Num!Lead + m /\ EndStage(s, m, base, int, frac, exp)
  BY <1>1 DEF AtEnd
<1>3. PICK p, v, x \in Nat :
          /\ Headed(s, p, base) /\ WholeAt(s, p, base, v) /\ int = Num!DigitsIn(SubSeq(s, p + 1, v))
          /\ FractionAt(s, base, v, x) /\ frac = FractionDigits(s, base, v, x)
          /\ PowerAt(s, base, x, m) /\ (exp = <<>> <=> ~Raises(s, base, x))
  BY <1>2, HeadedBase DEF EndStage
<1>4. text \in Seq(Num!Char) /\ s \in Seq(Num!Char) /\ Num!Lead \in Nat /\ base \in Bases /\ Len(s) \in Nat
  BY <1>3, BodyTypes, HeadedBase
<1>5. Num!Peek(1) \in Num!IdCont <=> (m < Len(s) /\ s[m + 1] \in Num!IdCont)
  BY <1>2, <1>4, FollowsIs
<1>6. /\ (int = <<>> /\ Len(frac) < 2) <=> ~(v > p \/ x > v + 1)
      /\ frac = <<>> <=> ~Starts(s, base, v)
      /\ HoldsAll(s, p + 1, v, int)
  <2>1. "." \in Num!Char
    BY DEF Num!Char
  <2>2. PartsSaid(s, p, base, v, x, int, frac)
    BY <1>3, <1>4, <2>1, PartsKept
  <2> QED
    BY <2>2 DEF PartsSaid
<1>7. IF (int = <<>> /\ Len(frac) < 2) \/ Num!Peek(1) \in Num!IdCont THEN Num!Bad
      ELSE IF ~Num!SignFits THEN Num!Answer("bad", i)
      ELSE Num!Answer(IF Num!IsFloat THEN "float" ELSE "int", i)
  BY DEF Num!End
<1> HIDE DEF s
<1>8. ASSUME NEW e \in Num!LiteralEnds(s)
      PROVE  e = m /\ (v > p \/ x > v + 1) /\ (m < Len(s) => s[m + 1] \notin Num!IdCont)
  BY <1>3, <1>4, <1>8, EndsThere
<1>9. CASE (int = <<>> /\ Len(frac) < 2) \/ Num!Peek(1) \in Num!IdCont
  <2>1. NoLiteralIn(s)
    BY <1>5, <1>6, <1>8, <1>9 DEF NoLiteralIn
  <2>2. Answered("bad", Num!TokenEnd)
    BY <1>7, <1>9, AnswerIs DEF Num!Bad
  <2> QED
    BY <2>1, <2>2, Refuses DEF s
<1>10. CASE ~((int = <<>> /\ Len(frac) < 2) \/ Num!Peek(1) \in Num!IdCont) /\ ~Num!SignFits
  <2>1. Answered("bad", i)
    BY <1>7, <1>10, AnswerIs
  <2>2. neg /\ frac = <<>> /\ exp = <<>> /\ AllZero(int)
    BY <1>10, Zenon DEF Num!SignFits, Num!IsFloat, AllZero
  <2>3. m = v
    BY <1>3, <1>6, <2>2 DEF FractionAt, PowerAt
  <2>4. Zeros(s, v)
    BY <1>3, <1>4, <1>6, <2>2, AllZeros
  <2>5. \A e \in Num!LiteralEnds(s) : neg /\ Zeros(s, e)
    BY <1>8, <2>2, <2>3, <2>4
  <2>6. text' = text /\ neg' = neg /\ ~Unanswered' /\ scanned'.is = "bad"
    BY <2>1 DEF Answered, Unanswered
  <2>7. Num!Body' = s
    BY <2>6, SameBody DEF s
  <2>8. ScansLiterals'
    BY <2>5, <2>6, <2>7 DEF ScansLiterals, Num!ScansLiterals, Zeros, IsZero
  <2> QED
    BY <2>6, <2>8 DEF NumberInv
<1>11. CASE ~((int = <<>> /\ Len(frac) < 2) \/ Num!Peek(1) \in Num!IdCont) /\ Num!SignFits
  <2>1. PICK is \in {"float", "int"} : Answered(is, i) /\ (is = "int" => ~Num!IsFloat)
    BY <1>7, <1>11, AnswerIs
  <2>2. m \in Num!LiteralEnds(s)
    BY <1>3, <1>4, <1>5, <1>6, <1>11, ScannedIsLiteral
  <2>3. neg /\ is = "int" => \E k \in DOMAIN int : int[k] # "0"
    BY <1>11, <2>1, Zenon DEF Num!SignFits
  <2>4. /\ text' = text /\ neg' = neg /\ int' = int /\ ~Unanswered'
        /\ scanned'.is = is /\ scanned'.end = i
    BY <2>1 DEF Answered, Unanswered
  <2>5. Num!Body' = s /\ Num!Lead' = Num!Lead
    BY <2>4, SameBody DEF s
  <2>6. i - Num!Lead = m
    BY <1>2, <1>4
  <2>7. scanned'.end - Num!Lead' \in Num!LiteralEnds(Num!Body')
    BY <2>2, <2>4, <2>5, <2>6
  <2>8. scanned'.is \in {"int", "float"}
    BY <2>4
  <2>9. neg' /\ scanned'.is = "int" => \E k \in DOMAIN int' : int'[k] # "0"
    BY <2>3, <2>4
  <2>10. ScansLiterals'
    BY <2>7, <2>8, <2>9, Zenon DEF ScansLiterals, Num!ScansLiterals
  <2> QED
    BY <1>4, <2>4, <2>10 DEF NumberInv
<1> QED
  BY <1>9, <1>10, <1>11

\* The scanner's steps.
LEMMA NumberNext == NumberInv /\ [Next]_vars => NumberInv'
<1> SUFFICES ASSUME NumberInv, [Next]_vars PROVE NumberInv'
  OBVIOUS
<1>1. CASE UNCHANGED numVars
  <2>1. /\ text' = text /\ i' = i /\ neg' = neg /\ base' = base /\ int' = int
        /\ frac' = frac /\ exp' = exp /\ stage' = stage /\ scanned' = scanned
    BY <1>1 DEF numVars
  <2>2. Num!Body' = Num!Body /\ Num!Lead' = Num!Lead
    BY <2>1, SameBody
  <2>3. ScansLiterals' = ScansLiterals
    BY <2>1, <2>2 DEF ScansLiterals, Num!ScansLiterals
  <2>4. Staged' = Staged /\ Unanswered' = Unanswered
    BY <2>1, <2>2 DEF Staged, Unanswered, AtSign, AtHead, AtInteger, AtFraction, AtExponent, AtEnd, Nothing
  <2> QED
    BY <2>1, <2>3, <2>4 DEF NumberInv
<1>2. CASE Num!Next
  BY <1>2, SignKeeps, HeadKeeps, IntegerPartKeeps, FractionKeeps, ExponentKeeps, EndKeeps DEF Num!Next
<1>3. Num!Next \/ UNCHANGED numVars
  BY DEF Next, Token, String, Number, Integer, Character, Spelling, vars
<1> QED
  BY <1>1, <1>2, <1>3

\* Where a digit leads, what is scanned as a number is a literal of ZON, all of
\* it, and every literal is scanned but a zero with a sign, however long the source.
THEOREM NumbersAreLiterals == Spec => []ScansLiterals
<1>1. Init => NumberInv
  <2> SUFFICES ASSUME Init PROVE NumberInv
    OBVIOUS
  <2>1. PICK s \in Seq(Num!Char) : Num!Start(s)
    <3>1. CASE \E s \in Numerals : Num!Start(s)
      BY <3>1, NumeralsAssumption
    <3>2. CASE Num!Start(<<>>)
      <4>1. <<>> \in Seq(Num!Char)
        OBVIOUS
      <4> QED
        BY <3>2, <4>1
    <3>3. (\E s \in Numerals : Num!Start(s)) \/ Num!Start(<<>>)
      BY DEF Init, Num!Init
    <3> QED
      BY <3>1, <3>2, <3>3
  <2>2. /\ text = s /\ i = 0 /\ stage = "sign" /\ base = 10 /\ int = <<>> /\ frac = <<>> /\ exp = <<>>
        /\ scanned.is = ""
    BY <2>1 DEF Num!Start
  <2>3. AtSign
    BY <2>2 DEF AtSign, Nothing
  <2>4. Staged /\ Unanswered
    BY <2>2, <2>3 DEF Staged, Unanswered
  <2> QED
    BY <2>1, <2>2, <2>4 DEF NumberInv
<1>2. NumberInv => ScansLiterals
  BY DEF NumberInv, Unanswered, ScansLiterals, Num!ScansLiterals
<1> QED
  BY <1>1, <1>2, NumberNext, PTL DEF Spec
=============================================================================
