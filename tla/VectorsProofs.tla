--------------------------- MODULE VectorsProofs ---------------------------
(***************************************************************************)
(* Proofs about Vectors, for vectors of any length with elements of any    *)
(* length.                                                                 *)
(*                                                                         *)
(* The bytes of a vector are a concatenation of its elements, and where    *)
(* each begins is a sum of lengths: what these two recursive definitions   *)
(* compute is proved first, by induction, which is done with the least     *)
(* number that is not in a set.  Then it is said of each kind of step      *)
(* which bytes it moves.  The inductive invariant says that, unless a call *)
(* was cut short, the first n bytes were moved and no others, what n is at *)
(* each place of each call, and where the two positions of process_vm_...  *)
(* are: equally far from the beginnings of their vectors.                  *)
(***************************************************************************)
EXTENDS Vectors, FiniteSetTheorems, SequenceTheorems, WellFoundedInduction,
        TLAPS

-----------------------------------------------------------------------------
(* Numbers and recursion.                                                  *)

\* A set of numbers has a least one, and so induction can be done with sets.
LEMMA Least ==
  ASSUME NEW S \in SUBSET Nat, S # {}
  PROVE  \E x \in S : \A y \in S : x <= y
<1> DEFINE R == {p \in Nat \X Nat : p[1] < p[2]}
<1>1. IsWellFoundedOn(R, Nat)
  BY NatLessThanWellFounded DEF OpToRel
<1>2. \A x, y \in S : ~(<<y, x>> \in R) => x =< y
  OBVIOUS
<1> HIDE DEF R
<1>3. PICK x \in S : \A y \in S : ~(<<y, x>> \in R)
  BY <1>1, WFMin
<1> QED
  BY <1>2, <1>3

LEMMA Induction ==
  ASSUME NEW S, 0 \in S, \A n \in Nat : n \in S => n + 1 \in S
  PROVE  Nat \subseteq S
<1> SUFFICES ASSUME Nat \ S # {} PROVE FALSE
  OBVIOUS
<1>1. PICK k \in Nat \ S : \A y \in Nat \ S : k <= y
  BY Least
<1>2. k # 0 /\ k - 1 \in Nat /\ ~(k <= k - 1)
  OBVIOUS
<1> QED
  BY <1>1, <1>2

\* f begins with a and goes on by g.
Follows(f, n, T, a, g) ==
  /\ f \in [0..n -> T] /\ f[0] = a
  /\ \A i \in 1..n : f[i] = g[<<i - 1, f[i - 1]>>]

Steps(n, T) == [(0..n - 1) \X T -> T]

LEMMA Recursion ==
  ASSUME NEW n \in Nat, NEW T, NEW a \in T, NEW g \in Steps(n, T)
  PROVE  \E f : Follows(f, n, T, a, g)
<1> DEFINE Good(f, m) == Follows(f, m, T, a, g)
           S == {m \in Nat : m <= n => \E f : Good(f, m)}
<1>1. 0 \in S
  <2>1. Good([i \in 0..0 |-> a], 0)
    BY DEF Follows
  <2> QED
    BY <2>1
<1>2. ASSUME NEW m \in Nat, m \in S
      PROVE  m + 1 \in S
  <2> SUFFICES ASSUME m + 1 <= n
               PROVE  \E f : Good(f, m + 1)
    OBVIOUS
  <2>1. PICK f : Good(f, m)
    BY <1>2
  <2> DEFINE b == g[<<m, f[m]>>]
             h == [i \in 0..m + 1 |-> IF i = m + 1 THEN b ELSE f[i]]
  <2>2. b \in T
    BY <2>1 DEF Follows, Steps
  <2> HIDE DEF b
  <2>3. h \in [0..m + 1 -> T] /\ h[0] = a
    BY <2>1, <2>2 DEF Follows
  <2>4. ASSUME NEW i \in 1..m + 1
        PROVE  h[i] = g[<<i - 1, h[i - 1]>>]
    <3>1. i - 1 \in 0..m /\ h[i - 1] = f[i - 1]
      OBVIOUS
    <3>2. CASE i = m + 1
      <4>1. h[i] = b /\ i - 1 = m
        BY <3>2
      <4> HIDE DEF h
      <4> QED
        BY <3>1, <4>1 DEF b
    <3>3. CASE i # m + 1
      <4>1. h[i] = f[i] /\ i \in 1..m
        BY <3>3
      <4> HIDE DEF h
      <4> QED
        BY <2>1, <3>1, <4>1 DEF Follows
    <3> QED
      BY <3>2, <3>3
  <2> HIDE DEF h
  <2>5. Good(h, m + 1)
    BY <2>3, <2>4 DEF Follows
  <2> QED
    BY <2>5
<1>3. Nat \subseteq S
  <2> HIDE DEF S
  <2> QED
    BY <1>1, <1>2, Induction
<1> QED
  BY <1>3

-----------------------------------------------------------------------------
(* The lengths of a vector up to each element.                             *)

LengthSeqs == Seq(Nat)

LEMMA VectorsAre ==
  ASSUME NEW v \in LengthSeqs
  PROVE  /\ Len(v) \in Nat /\ DOMAIN v = 1..Len(v)
         /\ \A i \in 1..Len(v) : v[i] \in Nat
BY DEF LengthSeqs

\* s is the running sum of v, which has n elements.
IsSums(s, v, n) ==
  /\ n \in Nat /\ s \in [0..n -> Nat] /\ s[0] = 0
  /\ \A i \in 1..n : v[i] \in Nat /\ s[i] = s[i - 1] + v[i]

LEMMA SumsAre ==
  ASSUME NEW v \in LengthSeqs
  PROVE  IsSums(Sums(v), v, Len(v))
<1> DEFINE n == Len(v)
           g == [p \in (0..n - 1) \X Nat |-> p[2] + v[p[1] + 1]]
           IsSum(f) == f = [i \in 0..n |-> IF i = 0 THEN 0 ELSE f[i - 1] + v[i]]
<1>1. n \in Nat /\ \A i \in 1..n : v[i] \in Nat
  BY VectorsAre
<1>2. g \in Steps(n, Nat)
  BY <1>1 DEF Steps
<1>3. \A i \in 1..n : \A x \in Nat : g[<<i - 1, x>>] = x + v[i]
  BY <1>1
<1> HIDE DEF g
<1>4. PICK f : Follows(f, n, Nat, 0, g)
  BY <1>1, <1>2, Recursion
<1>5. f \in [0..n -> Nat] /\ f[0] = 0
  BY <1>4 DEF Follows
<1>6. \A i \in 1..n : f[i] = f[i - 1] + v[i]
  <2> SUFFICES ASSUME NEW i \in 1..n
               PROVE  f[i] = f[i - 1] + v[i]
    OBVIOUS
  <2>1. f[i] = g[<<i - 1, f[i - 1]>>]
    BY <1>4 DEF Follows
  <2>2. f[i - 1] \in Nat
    BY <1>1, <1>5
  <2> QED
    BY <1>3, <2>1, <2>2
<1>7. IsSum(f)
  BY <1>1, <1>5, <1>6
<1>8. IsSum(CHOOSE h : IsSum(h))
  BY <1>7
<1>9. Sums(v) = CHOOSE h : IsSum(h)
  BY DEF Sums
<1>10. Sums(v) = [i \in 0..n |-> IF i = 0 THEN 0 ELSE Sums(v)[i - 1] + v[i]]
  BY <1>9, <1>8
<1> DEFINE S == {m \in Nat : m <= n => Sums(v)[m] \in Nat}
<1>11. 0 \in S
  BY <1>1, <1>10
<1>12. \A m \in Nat : m \in S => m + 1 \in S
  BY <1>1, <1>10
<1>13. Nat \subseteq S
  <2> HIDE DEF S
  <2> QED
    BY <1>11, <1>12, Induction
<1>14. \A i \in 0..n : Sums(v)[i] \in Nat
  BY <1>1, <1>13
<1> HIDE DEF n
<1>15. Sums(v)[0] = 0 /\ \A i \in 1..n : Sums(v)[i] = Sums(v)[i - 1] + v[i]
  BY <1>1, <1>10
<1>16. Sums(v) \in [0..n -> Nat]
  BY <1>10, <1>14
<1>17. IsSums(Sums(v), v, n)
  BY <1>1, <1>15, <1>16 DEF IsSums
<1> QED
  BY <1>17 DEF n

\* They grow.
LEMMA SumsGrow ==
  ASSUME NEW s, NEW v, NEW n, IsSums(s, v, n), NEW i \in 0..n, NEW j \in i..n
  PROVE  s[i] <= s[j]
<1> DEFINE S == {m \in Nat : \A k \in i..n : k = i + m => s[i] <= s[k]}
<1>1. /\ n \in Nat /\ \A k \in 0..n : s[k] \in Nat
      /\ \A k \in 1..n : v[k] \in Nat /\ s[k] = s[k - 1] + v[k]
  BY DEF IsSums
<1>2. 0 \in S
  BY <1>1
<1>3. ASSUME NEW m \in Nat, m \in S
      PROVE  m + 1 \in S
  <2> SUFFICES ASSUME NEW k \in i..n, k = i + m + 1
               PROVE  s[i] <= s[k]
    OBVIOUS
  <2>1. k \in 1..n /\ k - 1 \in i..n /\ k - 1 = i + m
    BY <1>1
  <2>2. s[i] <= s[k - 1]
    BY <1>3, <2>1
  <2> QED
    BY <1>1, <2>1, <2>2
<1>4. Nat \subseteq S
  <2> HIDE DEF S
  <2> QED
    BY <1>2, <1>3, Induction
<1>5. j - i \in Nat /\ j = i + (j - i)
  BY <1>1
<1> QED
  BY <1>4, <1>5

\* Every place of a vector is in one of its elements, ...
LEMMA PlaceIsSomewhere ==
  ASSUME NEW s, NEW v, NEW n, IsSums(s, v, n),
         NEW p \in 0..s[n] - 1
  PROVE  \E i \in 1..n : \E k \in 0..v[i] - 1 : p = s[i - 1] + k
<1> DEFINE Within(m) == \A q \in 0..s[m] - 1 :
                          \E i \in 1..m : \E k \in 0..v[i] - 1 :
                            q = s[i - 1] + k
           S == {m \in Nat : m <= n => Within(m)}
<1>1. /\ n \in Nat /\ s[0] = 0
      /\ \A k \in 0..n : s[k] \in Nat
      /\ \A k \in 1..n : v[k] \in Nat /\ s[k] = s[k - 1] + v[k]
  BY DEF IsSums
<1>2. 0 \in S
  BY <1>1
<1>3. ASSUME NEW m \in Nat, m \in S
      PROVE  m + 1 \in S
  <2> SUFFICES ASSUME m + 1 <= n, NEW q \in 0..s[m + 1] - 1
               PROVE  \E i \in 1..m + 1 : \E k \in 0..v[i] - 1 :
                        q = s[i - 1] + k
    OBVIOUS
  <2>1. /\ m + 1 \in 1..n /\ m \in 0..n /\ m + 1 - 1 = m
        /\ s[m] \in Nat /\ v[m + 1] \in Nat
        /\ s[m + 1] = s[m] + v[m + 1]
    BY <1>1
  <2>2. CASE q < s[m]
    <3>1. Within(m) /\ q \in 0..s[m] - 1
      BY <1>3, <2>1, <2>2
    <3>2. PICK i \in 1..m : \E k \in 0..v[i] - 1 : q = s[i - 1] + k
      BY <3>1
    <3> QED
      BY <3>2
  <2>3. CASE q >= s[m]
    <3>1. q - s[m] \in 0..v[m + 1] - 1
      BY <2>1, <2>3
    <3>2. q = s[m + 1 - 1] + (q - s[m])
      BY <2>1
    <3> QED
      BY <3>1, <3>2, <2>1
  <2> QED
    BY <2>1, <2>2, <2>3
<1>4. Nat \subseteq S
  <2> HIDE DEF S
  <2> QED
    BY <1>2, <1>3, Induction
<1> QED
  BY <1>1, <1>4

\* ... and in no other.
LEMMA PlaceIsOnce ==
  ASSUME NEW s, NEW v, NEW n, IsSums(s, v, n),
         NEW i \in 1..n, NEW k \in 0..v[i] - 1,
         NEW j \in 1..n, NEW l \in 0..v[j] - 1,
         s[i - 1] + k = s[j - 1] + l
  PROVE  i = j /\ k = l
<1>1. /\ n \in Nat /\ \A m \in 0..n : s[m] \in Nat
      /\ \A m \in 1..n : v[m] \in Nat /\ s[m] = s[m - 1] + v[m]
  BY DEF IsSums
<1>2. i < j => s[i] <= s[j - 1]
  <2>1. i < j => i \in 0..n /\ j - 1 \in i..n
    BY <1>1
  <2> QED
    BY <2>1, SumsGrow
<1>3. j < i => s[j] <= s[i - 1]
  <2>1. j < i => j \in 0..n /\ i - 1 \in j..n
    BY <1>1
  <2> QED
    BY <2>1, SumsGrow
<1>4. i = j
  BY <1>1, <1>2, <1>3
<1> QED
  BY <1>1, <1>4

-----------------------------------------------------------------------------
(* The bytes of a vector, one after the other.                             *)

Bytes == Seq(Nat \X Nat)
Row(v, i) == [k \in 1..v[i] |-> <<i, k - 1>>]
Rows(v) == [i \in DOMAIN v |-> Row(v, i)]

\* f[m] are the bytes of the first m elements.
IsFlat(f, v, n) ==
  \A m \in 1..n :
    f[m] \in Bytes /\ f[m] = IF m = 1 THEN Row(v, 1) ELSE f[m - 1] \o Row(v, m)

LEMMA RowIs ==
  ASSUME NEW v \in LengthSeqs, NEW i \in 1..Len(v)
  PROVE  /\ Row(v, i) \in Bytes /\ Len(Row(v, i)) = v[i] /\ v[i] \in Nat
         /\ \A k \in 0..v[i] - 1 : Row(v, i)[k + 1] = <<i, k>>
<1>1. v[i] \in Nat /\ i \in Nat
  BY VectorsAre
<1>2. \A k \in 1..v[i] : <<i, k - 1>> \in Nat \X Nat
  BY <1>1
<1>3. Row(v, i) \in Bytes
  BY <1>1, <1>2, IsASeq DEF Row, Bytes
<1>4. Len(Row(v, i)) = v[i]
  BY <1>1 DEF Row
<1>5. \A k \in 0..v[i] - 1 : k + 1 \in 1..v[i] /\ k + 1 - 1 = k
  BY <1>1
<1> QED
  BY <1>1, <1>3, <1>4, <1>5 DEF Row

LEMMA ConcatIs ==
  ASSUME NEW a \in Bytes, NEW b \in Bytes
  PROVE  /\ a \o b \in Bytes /\ Len(a) \in Nat /\ Len(a \o b) = Len(a) + Len(b)
         /\ \A j \in 1..Len(a) : (a \o b)[j] = a[j]
         /\ \A k \in 1..Len(b) : (a \o b)[Len(a) + k] = b[k]
BY ConcatProperties DEF Bytes

LEMMA FlatExists ==
  ASSUME NEW v \in LengthSeqs, Len(v) # 0
  PROVE  \E f : IsFlat(f, v, Len(v)) /\ f = [m \in 1..Len(v) |->
                  IF m = 1 THEN Row(v, 1) ELSE f[m - 1] \o Row(v, m)]
<1> DEFINE n == Len(v)
           g == [p \in (0..n - 2) \X Bytes |-> p[2] \o Row(v, p[1] + 2)]
<1>1. n \in Nat /\ n - 1 \in Nat /\ 1 \in 1..n /\ n - 1 - 1 = n - 2
  BY VectorsAre
<1>2. Row(v, 1) \in Bytes
  BY <1>1, RowIs
<1>3. ASSUME NEW i \in 0..n - 2, NEW b \in Bytes
      PROVE  g[<<i, b>>] = b \o Row(v, i + 2) /\ g[<<i, b>>] \in Bytes
  <2>1. i + 2 \in 1..n
    BY <1>1
  <2> QED
    BY <2>1, RowIs, ConcatIs
<1>4. g \in Steps(n - 1, Bytes)
  BY <1>1, <1>3 DEF Steps
<1> HIDE DEF g
<1>5. PICK f : Follows(f, n - 1, Bytes, Row(v, 1), g)
  BY <1>1, <1>2, <1>4, Recursion
<1> DEFINE h == [m \in 1..n |-> f[m - 1]]
<1>6. ASSUME NEW m \in 1..n
      PROVE  /\ h[m] \in Bytes
             /\ h[m] = IF m = 1 THEN Row(v, 1) ELSE h[m - 1] \o Row(v, m)
  <2>1. m - 1 \in 0..n - 1 /\ h[m] = f[m - 1]
    BY <1>1
  <2>2. h[m] \in Bytes
    BY <1>5, <2>1 DEF Follows
  <2>3. CASE m = 1
    BY <1>5, <2>1, <2>2, <2>3 DEF Follows
  <2>4. CASE m # 1
    <3>1. /\ m - 1 \in 1..n - 1 /\ m - 1 \in 1..n /\ m - 2 \in 0..n - 2
          /\ m - 1 - 1 = m - 2 /\ m - 2 + 2 = m
      BY <1>1, <2>4
    <3>2. f[m - 1] = g[<<m - 2, f[m - 2]>>] /\ f[m - 2] \in Bytes
      BY <1>5, <3>1 DEF Follows
    <3>3. h[m - 1] = f[m - 2]
      BY <3>1
    <3>4. g[<<m - 2, f[m - 2]>>] = f[m - 2] \o Row(v, m)
      BY <1>3, <3>1, <3>2
    <3> QED
      BY <2>1, <2>2, <2>4, <3>2, <3>3, <3>4
  <2> QED
    BY <2>3, <2>4
<1>7. h = [m \in 1..n |-> IF m = 1 THEN Row(v, 1) ELSE h[m - 1] \o Row(v, m)]
  BY <1>6
<1> HIDE DEF h
<1> QED
  BY <1>6, <1>7 DEF IsFlat

\* The k-th byte of element i comes after the bytes of the elements before.
LEMMA FlatIs ==
  ASSUME NEW v \in LengthSeqs, NEW i \in 1..Len(v), NEW k \in 0..v[i] - 1
  PROVE  Flat(v)[Sums(v)[i - 1] + k + 1] = <<i, k>>
<1> DEFINE n == Len(v)
           s == Sums(v)
           rows == Rows(v)
           IsIt(f) == f = [m \in 1..Len(rows) |-> IF m = 1 THEN rows[m]
                                                  ELSE f[m - 1] \o rows[m]]
           F == CHOOSE f : IsIt(f)
<1>1. n \in Nat /\ n # 0 /\ IsSums(s, v, n) /\ n \in 1..n
  BY VectorsAre, SumsAre
<1>2. Len(rows) = n /\ \A m \in 1..n : rows[m] = Row(v, m)
  BY VectorsAre DEF Rows
<1>3. Flat(v) = FlattenSeq(rows)
  BY DEF Flat, Rows, Row
<1> HIDE DEF rows, n
<1>4. Flat(v) = F[n]
  BY <1>1, <1>2, <1>3 DEF FlattenSeq
<1>5. PICK f : IsFlat(f, v, n) /\ f = [m \in 1..n |->
                 IF m = 1 THEN Row(v, 1) ELSE f[m - 1] \o Row(v, m)]
  BY <1>1, FlatExists DEF n
<1>6. f = [m \in 1..n |-> IF m = 1 THEN rows[m] ELSE f[m - 1] \o rows[m]]
  BY <1>1, <1>2, <1>5
<1>7. IsIt(f)
  BY <1>2, <1>6
<1>8. F = [m \in 1..n |-> IF m = 1 THEN rows[m] ELSE F[m - 1] \o rows[m]]
  <2>1. IsIt(F)
    BY <1>7
  <2> QED
    BY <1>2, <2>1
<1>9. \A m \in 1..n :
        F[m] = IF m = 1 THEN Row(v, 1) ELSE F[m - 1] \o Row(v, m)
  <2> HIDE DEF F
  <2> QED
    BY <1>2, <1>8
<1> HIDE DEF F, s
\* The first m elements are where they should be.
<1> DEFINE Placed(m) ==
             /\ F[m] \in Bytes /\ Len(F[m]) = s[m]
             /\ \A j \in 1..m : \A l \in 0..v[j] - 1 :
                  F[m][s[j - 1] + l + 1] = <<j, l>>
           S == {m \in Nat : \A q \in 1..n : q = m + 1 => Placed(q)}
<1>10. 0 \in S
  <2>1. F[1] = Row(v, 1) /\ 1 \in 1..n
    BY <1>1, <1>9
  <2>2. s[0] = 0 /\ s[1] = v[1]
    <3>1. s[1] = s[1 - 1] + v[1] /\ s[0] = 0 /\ v[1] \in Nat
      BY <2>1, <1>1 DEF IsSums
    <3> QED
      BY <3>1
  <2>3. /\ Row(v, 1) \in Bytes /\ Len(Row(v, 1)) = v[1] /\ v[1] \in Nat
        /\ \A l \in 0..v[1] - 1 : Row(v, 1)[l + 1] = <<1, l>>
    BY <2>1, RowIs DEF n
  <2>4. \A j \in 1..1 : \A l \in 0..v[j] - 1 : F[1][s[j - 1] + l + 1] = <<j, l>>
    BY <2>1, <2>2, <2>3
  <2> QED
    BY <2>1, <2>2, <2>3, <2>4
<1>11. ASSUME NEW m \in Nat, m \in S
       PROVE  m + 1 \in S
  <2> HIDE DEF Placed
  <2> SUFFICES ASSUME NEW q \in 1..n, q = m + 1 + 1
               PROVE  Placed(q)
    OBVIOUS
  <2> DEFINE a == F[q - 1]
             b == Row(v, q)
  <2>1. q - 1 \in 1..n /\ q - 1 = m + 1 /\ q # 1
    BY <1>1
  <2>2. Placed(q - 1)
    BY <1>11, <2>1
  <2>3. F[q] = a \o b
    BY <1>9, <2>1
  <2>4. /\ b \in Bytes /\ Len(b) = v[q] /\ v[q] \in Nat
        /\ \A l \in 0..v[q] - 1 : b[l + 1] = <<q, l>>
    BY RowIs DEF n
  <2>5. /\ a \in Bytes /\ Len(a) = s[q - 1]
        /\ \A j \in 1..q - 1 : \A l \in 0..v[j] - 1 :
             a[s[j - 1] + l + 1] = <<j, l>>
    BY <2>2 DEF Placed
  <2> HIDE DEF a, b
  <2>6. /\ a \o b \in Bytes /\ Len(a) \in Nat /\ Len(a \o b) = Len(a) + Len(b)
        /\ \A j \in 1..Len(a) : (a \o b)[j] = a[j]
        /\ \A l \in 1..Len(b) : (a \o b)[Len(a) + l] = b[l]
    BY <2>4, <2>5, ConcatIs
  <2>7. s[q] = s[q - 1] + v[q]
    BY <1>1 DEF IsSums
  <2>8. ASSUME NEW j \in 1..q, NEW l \in 0..v[j] - 1
        PROVE  (a \o b)[s[j - 1] + l + 1] = <<j, l>>
    <3>1. CASE j = q
      <4>1. l \in 0..v[q] - 1 /\ s[j - 1] = s[q - 1] /\ q - 1 \in 0..n
        BY <1>1, <2>1, <3>1
      <4>2. l \in Nat /\ l + 1 \in 1..Len(b)
        <5> DEFINE w == v[q]
        <5>1. w \in Nat /\ l \in 0..w - 1 /\ Len(b) = w
          BY <2>4, <4>1
        <5> HIDE DEF w
        <5> QED
          BY <5>1
      <4>3. s[j - 1] + l + 1 = Len(a) + (l + 1)
        <5> DEFINE x == s[j - 1]
        <5>1. x = Len(a) /\ x \in Nat
          BY <2>5, <2>6, <4>1
        <5> HIDE DEF x
        <5>2. x + l + 1 = Len(a) + (l + 1)
          BY <4>2, <5>1
        <5> QED
          BY <5>2 DEF x
      <4>4. (a \o b)[Len(a) + (l + 1)] = b[l + 1]
        BY <2>6, <4>2
      <4> QED
        BY <2>4, <3>1, <4>1, <4>4, <4>3
    <3>2. CASE j # q
      <4>1. j \in 1..q - 1 /\ j \in 1..n /\ q - 1 \in j..n
        BY <1>1, <2>1, <3>2
      <4>2. j \in 0..n /\ j - 1 \in 0..n /\ q - 1 \in 0..n
        BY <1>1, <4>1
      <4>3. s[j] <= s[q - 1]
        BY <1>1, <4>1, <4>2, SumsGrow
      <4>4. /\ s[j] = s[j - 1] + v[j] /\ v[j] \in Nat /\ s[j - 1] \in Nat
            /\ s[q - 1] \in Nat
        BY <1>1, <4>1, <4>2 DEF IsSums
      <4>5. s[j - 1] + l + 1 \in 1..s[q - 1]
        <5> DEFINE x == s[j - 1]
                   y == s[j]
                   z == s[q - 1]
                   w == v[j]
        <5>1. x \in Nat /\ z \in Nat /\ w \in Nat /\ y = x + w /\ y <= z
          BY <4>3, <4>4
        <5>2. l \in 0..w - 1
          OBVIOUS
        <5> HIDE DEF x, y, z, w
        <5>3. x + l + 1 \in 1..z
          BY <5>1, <5>2
        <5> QED
          BY <5>3 DEF x, z
      <4>6. s[j - 1] + l + 1 \in 1..Len(a)
        BY <2>5, <4>5
      <4>7. a[s[j - 1] + l + 1] = <<j, l>>
        BY <2>5, <4>1
      <4> QED
        BY <2>6, <4>6, <4>7
    <3> QED
      BY <3>1, <3>2
  <2>9. Len(a \o b) = s[q]
    BY <2>4, <2>5, <2>6, <2>7
  <2> QED
    BY <2>3, <2>6, <2>8, <2>9 DEF Placed
<1>12. Nat \subseteq S
  <2> HIDE DEF S
  <2> QED
    BY <1>10, <1>11, Induction
<1>13. Placed(n)
  <2>1. n - 1 \in Nat /\ n - 1 + 1 = n
    BY <1>1
  <2>2. n - 1 \in S
    BY <1>12, <2>1
  <2> HIDE DEF Placed
  <2> QED
    BY <1>1, <2>1, <2>2
<1>14. i \in 1..n
  BY DEF n
<1> QED
  BY <1>4, <1>13, <1>14 DEF s

-----------------------------------------------------------------------------
(* What is moved: the first n bytes.                                       *)

Place(c, r, k) == IF c \in ProcessVm THEN Flat(r)[k] ELSE <<1, k - 1>>
Moves(c, l, r, n) == {<<Flat(l)[k], Place(c, r, k)>> : k \in 1..n}

LEMMA TotalIs ==
  ASSUME NEW v \in LengthSeqs
  PROVE  /\ Total(v) \in Nat /\ Total(v) = Sums(v)[Len(v)]
         /\ \A i \in 0..Len(v) : Sums(v)[i] \in 0..Total(v)
<1> DEFINE n == Len(v)
           s == Sums(v)
<1>1. n \in Nat /\ IsSums(s, v, n)
  BY VectorsAre, SumsAre
<1>2. Total(v) = s[n]
  BY DEF Total
<1> HIDE DEF s, n
<1>3. \A i \in 0..n : s[i] \in Nat
  BY <1>1 DEF IsSums
<1>4. \A i \in 0..n : n \in i..n
  BY <1>1
<1>5. \A i \in 0..n : s[i] <= s[n]
  BY <1>1, <1>4, SumsGrow
<1>6. n \in 0..n
  BY <1>1
<1> QED
  BY <1>2, <1>3, <1>5, <1>6 DEF s, n

\* No two places of a vector have the same byte.
LEMMA FlatIsOnce ==
  ASSUME NEW v \in LengthSeqs, NEW p \in 1..Total(v), NEW q \in 1..Total(v),
         Flat(v)[p] = Flat(v)[q]
  PROVE  p = q
<1> DEFINE n == Len(v)
           s == Sums(v)
<1>1. IsSums(s, v, n) /\ Total(v) = s[n] /\ s[n] \in Nat
  BY SumsAre, TotalIs
<1>2. ASSUME NEW x \in 1..Total(v)
      PROVE  \E i \in 1..n : \E k \in 0..v[i] - 1 :
               x = s[i - 1] + k + 1 /\ Flat(v)[x] = <<i, k>>
  <2>1. x - 1 \in 0..s[n] - 1
    BY <1>1
  <2>2. \E i \in 1..n : \E k \in 0..v[i] - 1 : x - 1 = s[i - 1] + k
    <3> HIDE DEF s, n
    <3> QED
      BY <1>1, <2>1, PlaceIsSomewhere
  <2>3. PICK i \in 1..n : \E k \in 0..v[i] - 1 : x - 1 = s[i - 1] + k
    BY <2>2
  <2>4. PICK k \in 0..v[i] - 1 : x - 1 = s[i - 1] + k
    BY <2>3
  <2>5. Flat(v)[s[i - 1] + k + 1] = <<i, k>>
    BY FlatIs
  <2> HIDE DEF s
  <2>6. i - 1 \in 0..n /\ v[i] \in Nat
    BY <1>1 DEF IsSums
  <2>7. s[i - 1] \in Nat
    BY <1>1, <2>6 DEF IsSums
  <2>8. x = s[i - 1] + k + 1
    BY <2>4, <2>6, <2>7
  <2> QED
    BY <2>5, <2>8
<1>3. PICK i \in 1..n : \E k \in 0..v[i] - 1 :
        p = s[i - 1] + k + 1 /\ Flat(v)[p] = <<i, k>>
  BY <1>2
<1>4. PICK j \in 1..n : \E k \in 0..v[j] - 1 :
        q = s[j - 1] + k + 1 /\ Flat(v)[q] = <<j, k>>
  BY <1>2
<1> QED
  BY <1>3, <1>4

\* The first n bytes are n pairs.
LEMMA MovesCount ==
  ASSUME NEW c, NEW l \in LengthSeqs, NEW r, NEW n \in 0..Total(l)
  PROVE  IsFiniteSet(Moves(c, l, r, n)) /\ Cardinality(Moves(c, l, r, n)) = n
<1> DEFINE T == Moves(c, l, r, n)
           f == [k \in 1..n |-> <<Flat(l)[k], Place(c, r, k)>>]
<1>1. Total(l) \in Nat /\ n \in Nat
  BY TotalIs
<1>2. \A p, q \in 1..n : f[p] = f[q] => p = q
  <2> SUFFICES ASSUME NEW p \in 1..n, NEW q \in 1..n, f[p] = f[q]
               PROVE  p = q
    OBVIOUS
  <2>1. Flat(l)[p] = Flat(l)[q]
    OBVIOUS
  <2>2. p \in 1..Total(l) /\ q \in 1..Total(l)
    BY <1>1
  <2> QED
    BY <2>1, <2>2, FlatIsOnce
<1>3. f \in [1..n -> T] /\ \A t \in T : \E k \in 1..n : f[k] = t
  BY DEF Moves
<1> HIDE DEF f, T
<1>4. f \in Bijection(1..n, T)
  BY <1>2, <1>3 DEF Bijection, Injection, Surjection, IsInjective
<1>5. ExistsBijection(1..n, T)
  BY <1>4 DEF ExistsBijection
<1>6. IsFiniteSet(1..n) /\ Cardinality(1..n) = n
  BY <1>1, FS_Interval
<1>7. IsFiniteSet(T) /\ Cardinality(T) = n
  BY <1>5, <1>6, FS_Bijection
<1> QED
  BY <1>7 DEF T

\* The d bytes after the first n.
Then(c, l, r, n, d) ==
  {<<Flat(l)[n + k + 1], Place(c, r, n + k + 1)>> : k \in 0..d - 1}

\* m is n and d together.
Adds(n, d, m) == n \in Nat /\ d \in Nat /\ m = n + d

LEMMA MovesMore ==
  ASSUME NEW c, NEW l, NEW r, NEW n, NEW d, NEW m, Adds(n, d, m)
  PROVE  Moves(c, l, r, m) = Moves(c, l, r, n) \cup Then(c, l, r, n, d)
<1> DEFINE b(k) == <<Flat(l)[k], Place(c, r, k)>>
<1>1. n \in Nat /\ d \in Nat /\ m = n + d
  BY DEF Adds
<1>2. \A k \in 1..n : k \in 1..n + d
  BY <1>1
<1>3. \A k \in 0..d - 1 : n + k + 1 \in 1..n + d
  BY <1>1
<1>4. \A k \in 1..n + d :
        k \in 1..n \/ (k - n - 1 \in 0..d - 1 /\ k = n + (k - n - 1) + 1)
  BY <1>1
<1>5. {b(k) : k \in 1..n + d} =
        {b(k) : k \in 1..n} \cup {b(n + k + 1) : k \in 0..d - 1}
  <2> HIDE DEF b
  <2> QED
    BY <1>2, <1>3, <1>4
<1> QED
  BY <1>5, <1>1 DEF Moves, Then

LEMMA MovesNone == \A c, l, r : Moves(c, l, r, 0) = {}
BY DEF Moves

-----------------------------------------------------------------------------
(* One step of each kind.                                                  *)

\* The position off in element i of v is n bytes from its beginning, and no
\* element before is empty.
At(v, i, off, n) ==
  /\ i \in 1..Len(v) + 1 /\ off \in Nat /\ n \in Nat
  /\ n = Sums(v)[i - 1] + off
  /\ i \in 1..Len(v) => off < v[i] \/ off = 0
  /\ i = Len(v) + 1 => off = 0
  /\ \A j \in 1..i - 1 : v[j] > 0

\* Such a position is in the vector, or at its end.
LEMMA AtIs ==
  ASSUME NEW v \in LengthSeqs, NEW i, NEW off, NEW n, At(v, i, off, n)
  PROVE  /\ n \in 0..Total(v) /\ i \in Nat /\ Len(v) \in Nat
         /\ i \in 1..Len(v) => /\ v[i] \in Nat /\ off \in 0..v[i]
                               /\ Sums(v)[i] = Sums(v)[i - 1] + v[i]
                               /\ Sums(v)[i - 1] \in Nat
<1> DEFINE m == Len(v)
           s == Sums(v)
<1>1. m \in Nat /\ IsSums(s, v, m) /\ \A j \in 0..m : s[j] \in 0..Total(v)
  BY VectorsAre, SumsAre, TotalIs
<1>2. Total(v) \in Nat
  BY TotalIs
<1>3. /\ i \in 1..m + 1 /\ off \in Nat /\ n = s[i - 1] + off
      /\ i \in 1..m => off < v[i] \/ off = 0
      /\ i = m + 1 => off = 0
  BY DEF At
<1> HIDE DEF m, s
<1>4. i \in Nat /\ i - 1 \in 0..m /\ s[i - 1] \in 0..Total(v)
  BY <1>1, <1>3
<1>5. CASE i = m + 1
  BY <1>1, <1>2, <1>3, <1>4, <1>5 DEF m, s
<1>6. CASE i \in 1..m
  <2>1. v[i] \in Nat /\ s[i] = s[i - 1] + v[i] /\ s[i] \in 0..Total(v)
    BY <1>1, <1>6 DEF IsSums
  <2>2. off \in 0..v[i]
    BY <1>3, <1>6, <2>1
  <2>3. s[i - 1] + off \in 0..Total(v)
    <3> DEFINE x == s[i - 1]
               y == s[i]
               w == v[i]
    <3>1. /\ x \in Nat /\ w \in Nat /\ y = x + w
          /\ y \in 0..Total(v) /\ off \in 0..w
      BY <1>2, <1>4, <2>1, <2>2
    <3> HIDE DEF x, y, w
    <3>2. x + off \in 0..Total(v)
      BY <1>2, <3>1
    <3> QED
      BY <3>2 DEF x
  <2> QED
    BY <1>1, <1>3, <1>4, <2>1, <2>2, <2>3 DEF m, s
<1> QED
  BY <1>1, <1>3, <1>5, <1>6

\* A copy of d bytes takes those at the position and advances it by d.
LEMMA AdvanceIs ==
  ASSUME NEW v \in LengthSeqs, NEW i, NEW off, NEW n, At(v, i, off, n),
         i \in 1..Len(v), NEW d \in Nat, d > 0, d <= v[i] - off
  PROVE  LET a == Advance(v, i, off + d)
         IN /\ At(v, a[1], a[2], n + d)
            /\ \A k \in 0..d - 1 : Flat(v)[n + k + 1] = <<i, off + k>>
<1> DEFINE m == Len(v)
           s == Sums(v)
           a == Advance(v, i, off + d)
<1>1. /\ m \in Nat /\ i \in Nat /\ off \in Nat /\ n \in Nat /\ v[i] \in Nat
      /\ n = s[i - 1] + off /\ s[i] = s[i - 1] + v[i] /\ s[i - 1] \in Nat
      /\ i \in 1..m
  BY AtIs DEF At
<1>2. \A j \in 1..i - 1 : v[j] > 0
  BY DEF At
<1> HIDE DEF m, s
<1> DEFINE x == s[i - 1]
           w == v[i]
<1>3. \A k \in 0..d - 1 : Flat(v)[n + k + 1] = <<i, off + k>>
  <2> SUFFICES ASSUME NEW k \in 0..d - 1
               PROVE  Flat(v)[n + k + 1] = <<i, off + k>>
    OBVIOUS
  <2>1. off + k \in 0..v[i] - 1
    BY <1>1
  <2>2. Flat(v)[s[i - 1] + (off + k) + 1] = <<i, off + k>>
    BY <2>1, FlatIs DEF s
  <2>3. s[i - 1] + (off + k) + 1 = n + k + 1
    BY <1>1
  <2> QED
    BY <2>2, <2>3
<1>4. CASE off + d = w
  <2>1. a = <<i + 1, 0>>
    BY <1>4 DEF Advance
  <2>2. /\ i + 1 \in 1..m + 1 /\ i + 1 - 1 = i /\ n + d \in Nat
        /\ \A j \in 1..i : j \in 1..i - 1 \/ j = i
    BY <1>1
  <2>3. n + d = s[i + 1 - 1] + 0 /\ w > 0
    <3> DEFINE y == s[i + 1 - 1]
    <3>1. /\ x \in Nat /\ w \in Nat /\ off \in Nat /\ n = x + off
          /\ y = x + w /\ off + d = w
      BY <1>1, <1>4, <2>2
    <3> HIDE DEF x, w, y
    <3>2. n + d = y + 0 /\ w > 0
      BY <3>1
    <3> QED
      BY <3>2 DEF y
  <2>4. At(v, i + 1, 0, n + d)
    BY <1>2, <2>2, <2>3 DEF At, m, s
  <2> QED
    BY <1>3, <2>1, <2>4
<1>5. CASE off + d # w
  <2>1. a = <<i, off + d>>
    BY <1>5 DEF Advance
  <2>2. i \in 1..m + 1 /\ off + d \in Nat /\ n + d \in Nat /\ i # m + 1
    BY <1>1
  <2>3. off + d < w
    BY <1>1, <1>5
  <2>4. n + d = x + (off + d)
    <3>1. x \in Nat /\ n = x + off
      BY <1>1
    <3> HIDE DEF x
    <3> QED
      BY <1>1, <3>1
  <2>5. At(v, i, off + d, n + d)
    BY <1>2, <2>2, <2>3, <2>4 DEF At, m, s
  <2> QED
    BY <1>3, <2>1, <2>5
<1> QED
  BY <1>4, <1>5

\* A call for element i that moves n of its bytes, after all x bytes before.
LEMMA MoveIs ==
  ASSUME lvec \in LengthSeqs, call \notin ProcessVm, NEW i \in 1..Len(lvec),
         NEW n \in 0..lvec[i], NEW x, x = Sums(lvec)[i - 1],
         moved = Moves(call, lvec, rvec, x), Move(i, n)
  PROVE  /\ x \in Nat /\ x + n \in 0..Total(lvec)
         /\ lvec[i] \in Nat /\ Sums(lvec)[i] = x + lvec[i]
         /\ moved' = Moves(call, lvec, rvec, x + n)
<1> DEFINE m == Len(lvec)
           s == Sums(lvec)
<1>1. /\ m \in Nat /\ i \in 1..m /\ IsSums(s, lvec, m)
      /\ \A j \in 0..m : s[j] \in 0..Total(lvec)
      /\ Total(lvec) \in Nat /\ x = s[i - 1]
  BY VectorsAre, SumsAre, TotalIs
<1> HIDE DEF m, s
<1>2. i - 1 \in 0..m /\ i \in 0..m
  BY <1>1
<1>3. /\ x \in 0..Total(lvec) /\ s[i] \in 0..Total(lvec)
      /\ lvec[i] \in Nat /\ s[i] = x + lvec[i]
  BY <1>1, <1>2 DEF IsSums
<1>4. x \in Nat /\ n \in Nat /\ x + n \in 0..Total(lvec)
  <2> DEFINE w == lvec[i]
             z == s[i]
             t == Total(lvec)
  <2>1. /\ t \in Nat /\ x \in 0..t /\ z \in 0..t /\ w \in Nat
        /\ z = x + w /\ n \in 0..w
    BY <1>1, <1>3
  <2> HIDE DEF w, z, t
  <2>2. x \in Nat /\ n \in Nat /\ x + n \in 0..t
    BY <2>1
  <2> QED
    BY <2>2 DEF t
<1>5. Cardinality(moved) = x
  BY <1>3, MovesCount
<1>6. moved' = moved \cup {<<<<i, k>>, <<1, x + k>>>> : k \in 0..n - 1}
  BY <1>5 DEF Move
<1>7. \A k \in 0..n - 1 : /\ Flat(lvec)[x + k + 1] = <<i, k>>
                          /\ Place(call, rvec, x + k + 1) = <<1, x + k>>
  <2> SUFFICES ASSUME NEW k \in 0..n - 1
               PROVE  /\ Flat(lvec)[x + k + 1] = <<i, k>>
                      /\ Place(call, rvec, x + k + 1) = <<1, x + k>>
    OBVIOUS
  <2>1. k \in 0..lvec[i] - 1
    BY <1>3, <1>4
  <2>2. Flat(lvec)[x + k + 1] = <<i, k>>
    BY <1>1, <2>1, FlatIs DEF s
  <2> DEFINE q == x + k + 1
  <2>3. q - 1 = x + k
    BY <1>4
  <2> HIDE DEF q
  <2>4. Place(call, rvec, q) = <<1, q - 1>>
    BY DEF Place
  <2> QED
    BY <2>2, <2>3, <2>4 DEF q
<1>8. moved' = Moves(call, lvec, rvec, x + n)
  <2> DEFINE y == x + n
  <2>1. y = x + n
    OBVIOUS
  <2> HIDE DEF y
  <2>2. Adds(x, n, y)
    BY <1>4, <2>1 DEF Adds
  <2>3. Moves(call, lvec, rvec, y) =
          Moves(call, lvec, rvec, x) \cup Then(call, lvec, rvec, x, n)
    BY <2>2, MovesMore
  <2>4. Then(call, lvec, rvec, x, n) =
          {<<<<i, k>>, <<1, x + k>>>> : k \in 0..n - 1}
    <3> DEFINE f(k) == <<Flat(lvec)[x + k + 1], Place(call, rvec, x + k + 1)>>
               g(k) == <<<<i, k>>, <<1, x + k>>>>
    <3>1. \A k \in 0..n - 1 : f(k) = g(k)
      BY <1>7
    <3> HIDE DEF f, g
    <3>2. {f(k) : k \in 0..n - 1} = {g(k) : k \in 0..n - 1}
      BY <3>1
    <3> QED
      BY <3>2 DEF f, g, Then
  <2> QED
    BY <1>6, <2>1, <2>3, <2>4
<1> QED
  BY <1>3, <1>4, <1>8 DEF s

\* A call for element i adds the bytes it moves, although one before was short.
LEMMA MoveCounts ==
  ASSUME lvec \in LengthSeqs, NEW i \in 1..Len(lvec), NEW n \in 0..lvec[i],
         Move(i, n), IsFiniteSet(moved), \A e \in moved : e[1][1] \in 1..i - 1
  PROVE  /\ IsFiniteSet(moved') /\ Cardinality(moved') = Cardinality(moved) + n
         /\ \A e \in moved' : e[1][1] \in 1..i
<1> DEFINE next == Cardinality(moved)
           b(k) == <<<<i, k>>, <<1, next + k>>>>
           T == {b(k) : k \in 0..n - 1}
<1>1. Len(lvec) \in Nat /\ lvec[i] \in Nat
  BY VectorsAre
<1>2. n \in Nat /\ i \in Nat /\ i > 0
  BY <1>1
<1>3. moved' = moved \cup T
  BY DEF Move
<1>4. IsFiniteSet(0..n - 1) /\ Cardinality(0..n - 1) = n
  <2> DEFINE m == n - 1
  <2>1. 0 \in Int /\ m \in Int /\ (IF 0 > m THEN 0 ELSE m - 0 + 1) = n
    BY <1>2
  <2> HIDE DEF m
  <2>2. IsFiniteSet(0..m) /\ Cardinality(0..m) = n
    BY <2>1, FS_Interval
  <2> QED
    BY <2>2 DEF m
<1>5. IsFiniteSet(T) /\ Cardinality(T) = n
  <2> DEFINE f == [k \in 0..n - 1 |-> b(k)]
  <2>1. \A p, q \in 0..n - 1 : f[p] = f[q] => p = q
    OBVIOUS
  <2>2. f \in [0..n - 1 -> T] /\ \A t \in T : \E k \in 0..n - 1 : f[k] = t
    OBVIOUS
  <2> HIDE DEF f, T
  <2>3. f \in Bijection(0..n - 1, T)
    BY <2>1, <2>2 DEF Bijection, Injection, Surjection, IsInjective
  <2>4. ExistsBijection(0..n - 1, T)
    BY <2>3 DEF ExistsBijection
  <2> QED
    BY <1>4, <2>4, FS_Bijection
<1>6. \A e \in T : e[1][1] = i
  OBVIOUS
<1>7. moved \cap T = {}
  <2> HIDE DEF T
  <2> QED
    BY <1>2, <1>6
<1> HIDE DEF T
<1>8. IsFiniteSet(moved \cup T) /\
      Cardinality(moved \cup T) = Cardinality(moved) + Cardinality(T) - 0
  BY <1>5, <1>7, FS_Union, FS_EmptySet
<1>9. Cardinality(moved) \in Nat
  BY FS_CardinalityType
<1>10. \A e \in moved \cup T : e[1][1] \in 1..i
  <2> SUFFICES ASSUME NEW e \in moved \cup T
               PROVE  e[1][1] \in 1..i
    OBVIOUS
  <2>1. CASE e \in T
    BY <1>2, <1>6, <2>1
  <2>2. CASE e \in moved
    BY <1>2, <2>2
  <2> QED
    BY <2>1, <2>2
<1> QED
  BY <1>3, <1>5, <1>8, <1>9, <1>10

-----------------------------------------------------------------------------
(* The buffer all elements were copied to, and the end of the reach.       *)

\* The buffer holds the bytes of the vector in order.
LEMMA GatheredIs ==
  ASSUME lvec \in LengthSeqs, NEW p \in 0..Total(lvec) - 1
  PROVE  Gathered[p] = Flat(lvec)[p + 1]
<1> DEFINE m == Len(lvec)
           s == Sums(lvec)
           over == {i \in DOMAIN lvec :
                      p \in Offset(i)..Offset(i) + lvec[i] - 1}
           last == CHOOSE i \in over : \A j \in over : j <= i
<1>1. /\ m \in Nat /\ DOMAIN lvec = 1..m /\ IsSums(s, lvec, m)
      /\ Total(lvec) = s[m] /\ s[m] \in Nat
  BY VectorsAre, SumsAre, TotalIs
<1>2. Gathered[p] = <<last, p - Offset(last)>>
  BY DEF Gathered
<1>3. \A i : Offset(i) = s[i - 1]
  BY DEF Offset
<1> HIDE DEF m, s
<1>4. /\ \A i \in 1..m : lvec[i] \in Nat /\ s[i - 1] \in Nat
      /\ p \in Nat
  BY <1>1 DEF IsSums
<1>5. PICK i \in 1..m : \E k \in 0..lvec[i] - 1 : p = s[i - 1] + k
  BY <1>1, PlaceIsSomewhere
<1>6. PICK k \in 0..lvec[i] - 1 : p = s[i - 1] + k
  BY <1>5
<1>7. p \in s[i - 1]..s[i - 1] + lvec[i] - 1 /\ p - s[i - 1] = k
  BY <1>4, <1>6
<1>8. i \in over
  BY <1>1, <1>3, <1>7
<1>9. ASSUME NEW j \in over
      PROVE  j = i
  <2>1. j \in 1..m /\ p \in s[j - 1]..s[j - 1] + lvec[j] - 1
    BY <1>1, <1>3
  <2>2. p - s[j - 1] \in 0..lvec[j] - 1 /\ s[j - 1] + (p - s[j - 1]) = p
    BY <1>4, <2>1
  <2> QED
    BY <1>1, <1>6, <2>1, <2>2, PlaceIsOnce
<1> HIDE DEF over
<1>10. last = i
  <2>1. \A j \in over : j <= i
    BY <1>1, <1>9
  <2>2. last \in over
    BY <1>8, <2>1
  <2> QED
    BY <1>9, <2>2
<1>11. Gathered[p] = <<i, k>>
  BY <1>2, <1>3, <1>7, <1>10
<1>12. Flat(lvec)[s[i - 1] + k + 1] = <<i, k>>
  BY FlatIs DEF s, m
<1>13. s[i - 1] + k + 1 = p + 1
  BY <1>6
<1> QED
  BY <1>11, <1>12, <1>13

LEMMA GatheredMoves ==
  ASSUME lvec \in LengthSeqs, call \notin ProcessVm, NEW n \in 0..Total(lvec)
  PROVE  {<<Gathered[p], <<1, p>>>> : p \in 0..n - 1} =
           Moves(call, lvec, rvec, n)
<1>1. n \in Nat /\ \A p \in 0..n - 1 : p \in 0..Total(lvec) - 1 /\ p \in Nat
  BY TotalIs
<1>2. Adds(0, n, n)
  BY <1>1 DEF Adds
<1>3. Moves(call, lvec, rvec, n) = Then(call, lvec, rvec, 0, n)
  BY <1>2, MovesMore, MovesNone
<1> DEFINE f(p) == <<Gathered[p], <<1, p>>>>
           g(p) == <<Flat(lvec)[0 + p + 1], Place(call, rvec, 0 + p + 1)>>
<1>4. \A p \in 0..n - 1 : f(p) = g(p)
  <2> SUFFICES ASSUME NEW p \in 0..n - 1
               PROVE  f(p) = g(p)
    OBVIOUS
  <2> DEFINE q == 0 + p + 1
  <2>1. q = p + 1 /\ q - 1 = p
    BY <1>1
  <2>2. Gathered[p] = Flat(lvec)[p + 1]
    BY <1>1, GatheredIs
  <2> HIDE DEF q
  <2>3. Place(call, rvec, q) = <<1, q - 1>>
    BY DEF Place
  <2> QED
    BY <2>1, <2>2, <2>3 DEF q
<1> HIDE DEF f, g
<1>5. {f(p) : p \in 0..n - 1} = {g(p) : p \in 0..n - 1}
  BY <1>4
<1> QED
  BY <1>3, <1>5 DEF f, g, Then

\* No position is beyond the reach, and those where the loop ends are at it.
LEMMA ReachIs ==
  ASSUME NEW v \in LengthSeqs, NEW i, NEW off, NEW n, At(v, i, off, n)
  PROVE  /\ n \in Nat /\ Reach(v) \in Nat /\ n <= Reach(v)
         /\ (i > Len(v) \/ v[i] - off = 0) => n = Reach(v)
<1> DEFINE m == Len(v)
           s == Sums(v)
           empty == {j \in DOMAIN v : v[j] = 0}
           first == CHOOSE j \in empty : \A k \in empty : j <= k
<1>1. /\ m \in Nat /\ DOMAIN v = 1..m /\ IsSums(s, v, m)
      /\ Total(v) = s[m]
  BY VectorsAre, SumsAre, TotalIs
<1>2. /\ n \in Nat /\ n \in 0..Total(v) /\ i \in Nat
      /\ i \in 1..m + 1 /\ off \in Nat /\ n = s[i - 1] + off
      /\ i \in 1..m => /\ off < v[i] \/ off = 0
                       /\ v[i] \in Nat /\ off \in 0..v[i]
                       /\ s[i] = s[i - 1] + v[i] /\ s[i - 1] \in Nat
      /\ i = m + 1 => off = 0
      /\ \A j \in 1..i - 1 : v[j] > 0
  BY AtIs DEF At
<1>3. Reach(v) = IF empty = {} THEN Total(v) ELSE s[first - 1]
  BY DEF Reach
<1>4. Total(v) \in Nat
  BY TotalIs
<1>5. empty \in SUBSET Nat
  BY <1>1
<1>6. \A j \in 0..m : s[j] \in Nat
  BY <1>1 DEF IsSums
<1> HIDE DEF s, m
<1>7. \A j \in empty : j \in 1..m /\ v[j] = 0
  BY <1>1
<1>8. \A j \in 1..m : v[j] = 0 => j \in empty
  BY <1>1
<1>9. i > m => i = m + 1 /\ i - 1 = m /\ n = s[m]
  <2> SUFFICES ASSUME i > m
               PROVE  i = m + 1 /\ i - 1 = m /\ n = s[m]
    OBVIOUS
  <2>1. i = m + 1 /\ i - 1 = m
    BY <1>1, <1>2
  <2>2. m \in 0..m
    BY <1>1
  <2>3. s[m] \in Nat
    BY <1>6, <2>2
  <2> QED
    BY <1>2, <2>1, <2>3
<1>10. CASE empty = {}
  <2>1. Reach(v) = Total(v)
    BY <1>3, <1>10
  <2>2. i \in 1..m => v[i] - off # 0
    BY <1>2, <1>8, <1>10
  <2>3. i \in 1..m \/ i > m
    BY <1>1, <1>2
  <2>4. (i > m \/ v[i] - off = 0) => n = Total(v)
    BY <1>1, <1>9, <2>2, <2>3
  <2> QED
    BY <1>2, <1>4, <2>1, <2>4 DEF m
<1>11. CASE empty # {}
  <2> HIDE DEF empty
  <2>1. \E j \in empty : \A k \in empty : j <= k
    BY <1>5, <1>11, Least
  <2>2. first \in empty /\ \A k \in empty : first <= k
    BY <2>1
  <2> HIDE DEF first
  <2>3. Reach(v) = s[first - 1] /\ first \in 1..m /\ v[first] = 0
    BY <1>3, <1>7, <1>11, <2>2
  <2>4. first - 1 \in 0..m /\ s[first - 1] \in Nat
    BY <1>1, <1>6, <2>3
  <2>5. ~(first < i)
    BY <1>2, <2>3
  <2>6. i \in 1..m /\ i <= first
    BY <1>1, <1>2, <2>3, <2>5
  <2>7. CASE i = first
    <3>1. off = 0
      BY <1>2, <2>3, <2>6, <2>7
    <3>2. n = s[first - 1]
      BY <1>2, <2>4, <2>7, <3>1
    <3> QED
      BY <1>2, <2>3, <2>4, <3>2
  <2>8. CASE i < first
    <3>1. s[i] <= s[first - 1]
      <4>1. i \in 0..m /\ first - 1 \in i..m
        BY <1>1, <2>3, <2>6, <2>8
      <4> QED
        BY <1>1, <4>1, SumsGrow
    <3>2. n <= s[i] /\ s[i] \in Nat
      <4> DEFINE x == s[i - 1]
                 y == s[i]
                 w == v[i]
      <4>1. x \in Nat /\ w \in Nat /\ y = x + w /\ off \in 0..w /\ n = x + off
        BY <1>2, <2>6
      <4> HIDE DEF x, y, w
      <4>2. n <= y /\ y \in Nat
        BY <4>1
      <4> QED
        BY <4>2 DEF y
    <3>3. ~(i > m) /\ v[i] - off # 0
      <4>1. v[i] # 0
        BY <1>1, <1>2, <1>8, <2>2, <2>3, <2>6, <2>8
      <4>2. off < v[i]
        BY <1>2, <2>6, <4>1
      <4> QED
        BY <1>1, <1>2, <2>6, <4>2
    <3> DEFINE z == s[first - 1]
               y == s[i]
    <3>4. z \in Nat /\ y \in Nat /\ n \in Nat /\ n <= y /\ y <= z
      BY <1>2, <2>4, <3>1, <3>2
    <3> HIDE DEF z, y
    <3>5. n <= z /\ z \in Nat
      BY <3>4
    <3> QED
      BY <1>2, <2>3, <3>3, <3>5 DEF z, m
  <2>9. i = first \/ i < first
    BY <1>1, <1>2, <2>3, <2>6
  <2> QED
    BY <2>7, <2>8, <2>9
<1> QED
  BY <1>10, <1>11

-----------------------------------------------------------------------------
(* The inductive invariant.                                                *)

Typed == lvec \in LengthSeqs /\ rvec \in LengthSeqs /\ call \in Calls

\* What is held, by the place of the call.
HeldInv ==
  /\ pc \in {"start", "each", "done"} => held = {}
  /\ pc = "copy" => held \subseteq {"process"}
  /\ pc \in {"gathered", "free"} => held \subseteq {"buffer"}
  /\ pc = "send" => held \subseteq {"wsabufs"}

\* Unless a call was cut short, the first n bytes were moved.
UpTo(n) == ~gap => moved = Moves(call, lvec, rvec, n)
InOrder == \E n \in 0..Total(lvec) : UpTo(n)

Nothing == moved = {} /\ ~gap

\* Before anything was done, and in the loop of readv
StartInv ==
  pc = "start" =>
    /\ iLvec \in 1..Len(lvec) + 1
    /\ bytes = Sums(lvec)[iLvec - 1]
    /\ UpTo(bytes)
    /\ call # "readv" =>
         /\ bytes = 0 /\ Nothing
         /\ iLvec = 1 /\ offLvec = 0 /\ iRvec = 1 /\ offRvec = 0

\* The loop of process_vm_...: the two positions are equally far from the
\* beginning, and length is what the shorter of the two elements has left.
LengthIs ==
  iLvec <= Len(lvec) /\ iRvec <= Len(rvec) =>
    length = Smaller(lvec[iLvec] - offLvec, rvec[iRvec] - offRvec)
CopyInv ==
  pc = "copy" =>
    /\ At(lvec, iLvec, offLvec, bytes)
    /\ At(rvec, iRvec, offRvec, bytes)
    /\ LengthIs
    /\ UpTo(bytes)

\* The loop of writev
EachInv ==
  pc = "each" =>
    /\ iLvec \in 1..Len(lvec) + 1
    /\ IsFiniteSet(moved) /\ Cardinality(moved) = bytes
    /\ \A e \in moved : e[1][1] \in 1..iLvec - 1
    /\ UpTo(Sums(lvec)[iLvec - 1])

\* The buffer of writev and the array of sendmsg
GatherInv ==
  /\ pc \in {"gathered", "send"} => Nothing
  /\ pc = "free" =>
       /\ bytes \in 0..Total(lvec) \cup {-1}
       /\ bytes >= 0 => ~gap /\ UpTo(bytes)

VecInv ==
  /\ Typed /\ InOrder /\ StartInv /\ CopyInv /\ EachInv /\ GatherInv
  /\ CountsWhatMoved

LEMMA VecsAre == Vecs \subseteq LengthSeqs
<1> SUFFICES ASSUME NEW v \in Vecs
             PROVE  v \in LengthSeqs
  OBVIOUS
<1>1. PICK count \in 0..MaxCount : v \in [1..count -> 0..MaxLength]
  BY DEF Vecs
<1>2. MaxLength \in Nat /\ count \in Nat
  BY ConstantsAssumption DEF ConstantsAssumption
<1>3. \A x \in 0..MaxLength : x \in Nat
  BY <1>2
<1>4. v \in [1..count -> Nat]
  BY <1>1, <1>3
<1> QED
  BY <1>2, <1>4, SeqDef DEF LengthSeqs

LEMMA AtStart ==
  ASSUME NEW v \in LengthSeqs
  PROVE  At(v, 1, 0, 0) /\ Sums(v)[1 - 1] = 0 /\ 1 \in 1..Len(v) + 1
<1>1. Len(v) \in Nat /\ Sums(v)[0] = 0
  BY VectorsAre, SumsAre DEF IsSums
<1>2. 1 \in 1..Len(v) + 1 /\ 1 - 1 = 0 /\ ~(\E j \in 1..0 : TRUE)
  BY <1>1
<1>3. Sums(v)[1 - 1] = 0 + 0
  BY <1>1, <1>2
<1> QED
  BY <1>1, <1>2, <1>3 DEF At

LEMMA HeldStarts == Init => HeldInv
BY DEF Init, HeldInv

LEMMA HeldStays == HeldInv /\ [Next]_vars => HeldInv'
<1> SUFFICES ASSUME HeldInv, [Next]_vars
             PROVE  HeldInv'
  OBVIOUS
<1>1. CASE readv
  BY <1>1 DEF HeldInv, readv, ReadOne, ReadReturns, Call
<1>2. CASE writev
  <2>1. CASE WriteAllocates
    BY <2>1 DEF HeldInv, WriteAllocates, Call
  <2>2. CASE WriteGathered
    BY <2>2 DEF HeldInv, WriteGathered, Call
  <2>3. CASE WriteFrees
    BY <2>3 DEF HeldInv, WriteFrees, Call
  <2>4. CASE WriteOne
    BY <2>4 DEF HeldInv, WriteOne, Call
  <2>5. CASE WriteOneFails \/ WriteReturns
    BY <2>5 DEF HeldInv, WriteOneFails, WriteReturns, Call
  <2> QED
    BY <1>2, <2>1, <2>2, <2>3, <2>4, <2>5 DEF writev
<1>3. CASE sendmsg
  <2>1. CASE SendGivesUp
    BY <2>1 DEF HeldInv, SendGivesUp, SendFails, Call
  <2>2. CASE SendOne
    BY <2>2 DEF HeldInv, SendOne, SendFails, Call
  <2>3. CASE SendAllocates
    BY <2>3 DEF HeldInv, SendAllocates, Call
  <2>4. CASE SendMsg
    <3>1. pc = "send" /\ pc' = "done"
      BY <2>4 DEF SendMsg, Call
    <3>2. held' = held \ {"wsabufs"}
      BY <2>4 DEF SendMsg, SendReleases
    <3> QED
      BY <3>1, <3>2 DEF HeldInv
  <2> QED
    BY <1>3, <2>1, <2>2, <2>3, <2>4 DEF sendmsg
<1>4. ASSUME NEW c, process_vm(c)
      PROVE  HeldInv'
  <2>1. CASE VmOpen(c)
    BY <2>1 DEF HeldInv, VmOpen, Call
  <2>2. CASE VmCopy(c)
    BY <2>2 DEF HeldInv, VmCopy, Call
  <2>3. CASE VmClose(c)
    BY <2>3 DEF HeldInv, VmClose, Call
  <2> QED
    BY <1>4, <2>1, <2>2, <2>3 DEF process_vm
<1>5. CASE UNCHANGED vars
  BY <1>5 DEF HeldInv, vars
<1> QED
  BY <1>1, <1>2, <1>3, <1>4, <1>5 DEF Next

LEMMA VecStarts == Init => VecInv
<1> SUFFICES ASSUME Init
             PROVE  VecInv
  OBVIOUS
<1>1. Typed
  <2>1. rvec \in Vecs \cup {<<>>} /\ lvec \in Vecs /\ call \in Calls
    BY DEF Init
  <2>2. <<>> \in LengthSeqs
    BY DEF LengthSeqs
  <2> QED
    BY <2>1, <2>2, VecsAre DEF Typed
<1>2. /\ pc = "start" /\ moved = {} /\ ~gap /\ bytes = 0
      /\ iLvec = 1 /\ offLvec = 0 /\ iRvec = 1 /\ offRvec = 0
  BY DEF Init
<1>3. Sums(lvec)[1 - 1] = 0 /\ 1 \in 1..Len(lvec) + 1
  BY <1>1, AtStart DEF Typed
<1>4. UpTo(0)
  BY <1>2, MovesNone DEF UpTo
<1>5. StartInv
  BY <1>2, <1>3, <1>4 DEF StartInv, Nothing
<1>6. InOrder
  <2>1. 0 \in 0..Total(lvec)
    BY <1>1, TotalIs DEF Typed
  <2> QED
    BY <1>4, <2>1 DEF InOrder
<1>7. CopyInv /\ EachInv /\ GatherInv /\ CountsWhatMoved
  BY <1>2 DEF CopyInv, EachInv, GatherInv, CountsWhatMoved
<1> QED
  BY <1>1, <1>5, <1>6, <1>7 DEF VecInv

\* After a call for element i, before which all elements had been done.
LEMMA NextElement ==
  ASSUME lvec \in LengthSeqs, call \notin ProcessVm, NEW i \in 1..Len(lvec),
         NEW x, x = Sums(lvec)[i - 1], UpTo(x),
         NEW n \in 0..lvec[i], Move(i, n),
         gap' = (gap \/ n < lvec[i]), UNCHANGED <<call, lvec, rvec>>
  PROVE  /\ x \in Nat /\ x + lvec[i] = Sums(lvec)[i] /\ lvec[i] \in Nat
         /\ Sums(lvec)[i] \in 0..Total(lvec)
         /\ i + 1 \in 1..Len(lvec) + 1 /\ i + 1 - 1 = i
         /\ ~gap' => moved' = Moves(call, lvec, rvec, Sums(lvec)[i])
<1>1. Len(lvec) \in Nat /\ IsSums(Sums(lvec), lvec, Len(lvec))
  BY VectorsAre, SumsAre
<1>2. i \in 0..Len(lvec) /\ i - 1 \in 0..Len(lvec)
  BY <1>1
<1>3. /\ x \in Nat /\ x + lvec[i] = Sums(lvec)[i] /\ lvec[i] \in Nat
      /\ Sums(lvec)[i] \in 0..Total(lvec)
  BY <1>1, <1>2, TotalIs DEF IsSums
<1>4. i + 1 \in 1..Len(lvec) + 1 /\ i + 1 - 1 = i
  BY <1>1
<1>5. ASSUME ~gap'
      PROVE  moved' = Moves(call, lvec, rvec, Sums(lvec)[i])
  <2>1. ~gap /\ n = lvec[i]
    <3>1. ~(gap \/ n < lvec[i])
      BY <1>5, Zenon
    <3>2. n = lvec[i]
      BY <1>3, <3>1
    <3> QED
      BY <3>1, <3>2
  <2>2. moved = Moves(call, lvec, rvec, x)
    BY <2>1 DEF UpTo
  <2>3. moved' = Moves(call, lvec, rvec, x + n)
    BY <2>2, MoveIs
  <2> QED
    BY <1>3, <2>1, <2>3
<1> QED
  BY <1>3, <1>4, <1>5

-----------------------------------------------------------------------------
(* Each action keeps the invariant.                                        *)

LEMMA ReadvKeeps ==
  ASSUME VecInv, readv
  PROVE  VecInv'
<1>1. /\ call = "readv" /\ pc = "start" /\ call \notin ProcessVm
      /\ UNCHANGED <<call, lvec, rvec>>
  BY DEF readv, ReadOne, ReadReturns, Call, ProcessVm
<1>2. /\ lvec \in LengthSeqs /\ iLvec \in 1..Len(lvec) + 1
      /\ bytes = Sums(lvec)[iLvec - 1] /\ UpTo(bytes) /\ InOrder
  BY <1>1 DEF VecInv, Typed, StartInv
<1>3. Typed'
  BY <1>1 DEF VecInv, Typed
<1>4. CASE ReadOne
  <2>1. /\ iLvec <= Len(lvec) /\ pc' = "start"
        /\ bytes' = bytes + lvec[iLvec] /\ iLvec' = iLvec + 1
    BY <1>4 DEF ReadOne, Call
  <2>2. PICK n \in 0..lvec[iLvec] :
          Move(iLvec, n) /\ gap' = (gap \/ n < lvec[iLvec])
    BY <1>4 DEF ReadOne
  <2>3. iLvec \in 1..Len(lvec)
    BY <1>2, <2>1, VectorsAre
  <2>4. /\ bytes + lvec[iLvec] = Sums(lvec)[iLvec]
        /\ Sums(lvec)[iLvec] \in 0..Total(lvec)
        /\ iLvec + 1 \in 1..Len(lvec) + 1 /\ iLvec + 1 - 1 = iLvec
        /\ ~gap' => moved' = Moves(call, lvec, rvec, Sums(lvec)[iLvec])
    BY <1>1, <1>2, <2>2, <2>3, NextElement
  <2>5. bytes' = Sums(lvec)[iLvec] /\ iLvec' - 1 = iLvec
    <3>1. iLvec \in Int
      BY <1>2, <2>3, VectorsAre
    <3> QED
      BY <2>1, <2>4, <3>1
  <2>6. UpTo(bytes)' /\ bytes' \in 0..Total(lvec')
    BY <1>1, <2>4, <2>5 DEF UpTo
  <2>7. InOrder'
    BY <2>6 DEF InOrder, UpTo
  <2>8. StartInv'
    BY <1>1, <2>1, <2>4, <2>5, <2>6 DEF StartInv
  <2> QED
    BY <1>3, <2>1, <2>7, <2>8
    DEF VecInv, CopyInv, EachInv, GatherInv, CountsWhatMoved
<1>5. CASE ReadReturns
  <2>1. /\ iLvec > Len(lvec) /\ pc' = "done" /\ result' = bytes
        /\ moved' = moved /\ gap' = gap
    BY <1>5 DEF ReadReturns, Call, Returns
  <2>2. InOrder'
    BY <1>1, <1>2, <2>1 DEF InOrder, UpTo
  <2>3. ~gap => Cardinality(moved) = bytes
    <3>1. Len(lvec) \in Nat
      BY <1>2, VectorsAre
    <3>2. iLvec - 1 \in 0..Len(lvec)
      BY <1>2, <3>1
    <3>3. bytes \in 0..Total(lvec)
      BY <1>2, <3>2, TotalIs
    <3> QED
      BY <1>2, <3>3, MovesCount DEF UpTo
  <2>4. CountsWhatMoved'
    BY <1>1, <2>1, <2>3 DEF CountsWhatMoved
  <2> QED
    BY <1>3, <2>1, <2>2, <2>4 DEF VecInv, StartInv, CopyInv, EachInv, GatherInv
<1> QED
  BY <1>4, <1>5 DEF readv

LEMMA WritevKeeps ==
  ASSUME VecInv, writev
  PROVE  VecInv'
<1>1. call = "writev" /\ call \notin ProcessVm /\ UNCHANGED <<call, lvec, rvec>>
  BY DEF writev, WriteAllocates, WriteGathered, WriteFrees, WriteOne,
         WriteOneFails, WriteReturns, Call, ProcessVm
<1>2. lvec \in LengthSeqs /\ InOrder
  BY DEF VecInv, Typed
<1>3. Typed'
  BY <1>1 DEF VecInv, Typed
<1>4. CASE WriteAllocates
  <2>1. /\ pc = "start" /\ pc' \in {"gathered", "each"}
        /\ iLvec' = iLvec /\ bytes' = bytes /\ moved' = moved /\ gap' = gap
    BY <1>4 DEF WriteAllocates, Call, position
  <2>2. moved = {} /\ ~gap /\ bytes = 0 /\ iLvec = 1
    BY <1>1, <2>1 DEF VecInv, StartInv, Nothing
  <2>3. Sums(lvec)[1 - 1] = 0 /\ 1 \in 1..Len(lvec) + 1
    BY <1>2, AtStart
  <2>4. UpTo(Sums(lvec)[iLvec - 1])' /\ InOrder'
    BY <1>1, <1>2, <2>1, <2>2, <2>3, MovesNone DEF UpTo, InOrder
  <2>5. EachInv'
    BY <1>1, <2>1, <2>2, <2>3, <2>4, FS_EmptySet DEF EachInv
  <2> QED
    BY <1>3, <2>1, <2>2, <2>4, <2>5
    DEF VecInv, StartInv, CopyInv, GatherInv, Nothing, CountsWhatMoved
<1>5. CASE WriteGathered
  <2>1. /\ pc = "gathered" /\ pc' = "free" /\ gap' = gap
    BY <1>5 DEF WriteGathered, Call
  <2>2. moved = {} /\ ~gap
    BY <2>1 DEF VecInv, GatherInv, Nothing
  <2>3. CASE bytes' = -1 /\ UNCHANGED moved
    BY <1>1, <1>2, <1>3, <2>1, <2>3
    DEF VecInv, InOrder, UpTo, StartInv, CopyInv, EachInv, GatherInv,
        CountsWhatMoved
  <2>4. ASSUME NEW n \in 0..Total(lvec), bytes' = n,
               moved' = {<<Gathered[p], <<1, p>>>> : p \in 0..n - 1}
        PROVE  VecInv'
    <3>1. moved' = Moves(call, lvec, rvec, n)
      BY <1>1, <1>2, <2>4, GatheredMoves
    <3>2. UpTo(n)' /\ InOrder'
      BY <1>1, <3>1 DEF UpTo, InOrder
    <3>3. GatherInv'
      BY <1>1, <2>1, <2>2, <2>4, <3>2 DEF GatherInv
    <3> QED
      BY <1>3, <2>1, <3>2, <3>3
      DEF VecInv, StartInv, CopyInv, EachInv, CountsWhatMoved
  <2> QED
    BY <1>5, <2>3, <2>4 DEF WriteGathered
<1>6. CASE WriteFrees
  <2>1. /\ pc = "free" /\ pc' = "done" /\ result' = bytes
        /\ moved' = moved /\ gap' = gap
    BY <1>6 DEF WriteFrees, Call, Returns
  <2>2. InOrder'
    BY <1>1, <1>2, <2>1 DEF InOrder, UpTo
  <2>3. bytes >= 0 => Cardinality(moved) = bytes
    <3>1. /\ bytes \in 0..Total(lvec) \cup {-1}
          /\ bytes >= 0 => ~gap /\ UpTo(bytes)
      BY <2>1 DEF VecInv, GatherInv
    <3>2. bytes >= 0 => bytes \in 0..Total(lvec)
      BY <3>1
    <3> QED
      BY <1>2, <3>1, <3>2, MovesCount DEF UpTo
  <2>4. CountsWhatMoved'
    BY <1>1, <2>1, <2>3 DEF CountsWhatMoved
  <2> QED
    BY <1>3, <2>1, <2>2, <2>4 DEF VecInv, StartInv, CopyInv, EachInv, GatherInv
<1>7. CASE WriteOne
  <2>1. /\ iLvec <= Len(lvec) /\ iLvec' = iLvec + 1
        /\ pc = "each" /\ pc' = "each"
    BY <1>7 DEF WriteOne, Call
  <2>2. PICK n \in 0..lvec[iLvec] :
          /\ Move(iLvec, n) /\ gap' = (gap \/ n < lvec[iLvec])
          /\ bytes' = bytes + n
    BY <1>7 DEF WriteOne, Written
  <2>3. /\ iLvec \in 1..Len(lvec) + 1 /\ IsFiniteSet(moved)
        /\ Cardinality(moved) = bytes
        /\ \A e \in moved : e[1][1] \in 1..iLvec - 1
        /\ UpTo(Sums(lvec)[iLvec - 1])
    BY <2>1 DEF VecInv, EachInv
  <2>4. iLvec \in 1..Len(lvec)
    BY <1>2, <2>1, <2>3, VectorsAre
  <2>5. /\ Sums(lvec)[iLvec] \in 0..Total(lvec)
        /\ iLvec + 1 \in 1..Len(lvec) + 1 /\ iLvec + 1 - 1 = iLvec
        /\ ~gap' => moved' = Moves(call, lvec, rvec, Sums(lvec)[iLvec])
    BY <1>1, <1>2, <2>2, <2>3, <2>4, NextElement
  <2>6. /\ IsFiniteSet(moved') /\ Cardinality(moved') = Cardinality(moved) + n
        /\ \A e \in moved' : e[1][1] \in 1..iLvec
    BY <1>2, <2>2, <2>3, <2>4, MoveCounts
  <2>7. iLvec' - 1 = iLvec /\ iLvec' \in 1..Len(lvec') + 1
    <3>1. iLvec \in Int
      BY <1>2, <2>4, VectorsAre
    <3> QED
      BY <1>1, <2>1, <2>5, <3>1
  <2>8. UpTo(Sums(lvec)[iLvec - 1])' /\ InOrder'
    BY <1>1, <2>5, <2>7 DEF UpTo, InOrder
  <2>9. EachInv'
    BY <2>2, <2>3, <2>6, <2>7, <2>8 DEF EachInv
  <2> QED
    BY <1>3, <2>1, <2>8, <2>9
    DEF VecInv, StartInv, CopyInv, GatherInv, CountsWhatMoved
<1>8. CASE WriteOneFails
  <2>1. pc' = "done" /\ result' = -1 /\ moved' = moved /\ gap' = gap
    BY <1>8 DEF WriteOneFails, Call, Returns
  <2> QED
    BY <1>1, <1>2, <1>3, <2>1
    DEF VecInv, InOrder, UpTo, StartInv, CopyInv, EachInv, GatherInv,
        CountsWhatMoved
<1>9. CASE WriteReturns
  <2>1. /\ pc = "each" /\ pc' = "done" /\ result' = bytes
        /\ moved' = moved /\ gap' = gap
    BY <1>9 DEF WriteReturns, Call, Returns
  <2>2. InOrder'
    BY <1>1, <1>2, <2>1 DEF InOrder, UpTo
  <2>3. CountsWhatMoved'
    BY <1>1, <2>1 DEF VecInv, EachInv, CountsWhatMoved
  <2> QED
    BY <1>3, <2>1, <2>2, <2>3 DEF VecInv, StartInv, CopyInv, EachInv, GatherInv
<1> QED
  BY <1>4, <1>5, <1>6, <1>7, <1>8, <1>9 DEF writev

LEMMA SendmsgKeeps ==
  ASSUME VecInv, sendmsg
  PROVE  VecInv'
<1>1. /\ call = "sendmsg" /\ call \notin ProcessVm
      /\ UNCHANGED <<call, lvec, rvec>>
  BY DEF sendmsg, SendGivesUp, SendOne, SendAllocates, SendMsg, Call, ProcessVm
<1>2. lvec \in LengthSeqs /\ InOrder
  BY DEF VecInv, Typed
<1>3. Typed'
  BY <1>1 DEF VecInv, Typed
<1>4. pc = "start" => moved = {} /\ ~gap
  BY <1>1 DEF VecInv, StartInv, Nothing
<1>5. ASSUME pc' = "done", result' = -1, moved' = moved, gap' = gap
      PROVE  VecInv'
  BY <1>1, <1>2, <1>3, <1>5
  DEF VecInv, InOrder, UpTo, StartInv, CopyInv, EachInv, GatherInv,
      CountsWhatMoved
<1>6. ASSUME pc' = "done", NEW n \in 0..Total(lvec), result' = n,
             moved' = Moves(call, lvec, rvec, n)
      PROVE  VecInv'
  <2>1. InOrder'
    BY <1>1, <1>6 DEF InOrder, UpTo
  <2>2. Cardinality(moved') = n
    BY <1>2, <1>6, MovesCount
  <2>3. CountsWhatMoved'
    BY <1>1, <1>6, <2>2 DEF CountsWhatMoved
  <2> QED
    BY <1>3, <1>6, <2>1, <2>3 DEF VecInv, StartInv, CopyInv, EachInv, GatherInv
<1>7. CASE SendGivesUp
  <2>1. pc' = "done" /\ result' = -1 /\ moved' = moved /\ gap' = gap
    BY <1>7 DEF SendGivesUp, SendFails, Call, Returns
  <2> QED
    BY <1>5, <2>1
<1>8. CASE SendOne
  <2>1. Len(lvec) = 1 /\ pc = "start" /\ pc' = "done"
    BY <1>8 DEF SendOne, Call
  <2>2. CASE SendFails
    <3>1. result' = -1 /\ moved' = moved /\ gap' = gap
      BY <2>2 DEF SendFails, Returns
    <3> QED
      BY <1>5, <2>1, <3>1
  <2>3. ASSUME NEW n \in 0..lvec[1], Move(1, n), result' = n
        PROVE  VecInv'
    <3>1. 1 \in 1..Len(lvec)
      BY <2>1
    <3>2. 0 = Sums(lvec)[1 - 1]
      BY <1>2, AtStart
    <3>3. moved = Moves(call, lvec, rvec, 0)
      BY <1>4, <2>1, MovesNone
    <3>4. 0 + n \in 0..Total(lvec) /\ moved' = Moves(call, lvec, rvec, 0 + n)
          /\ lvec[1] \in Nat
      BY <1>1, <1>2, <2>3, <3>1, <3>2, <3>3, MoveIs
    <3>5. 0 + n = n
      BY <3>4
    <3> QED
      BY <1>6, <2>1, <2>3, <3>4, <3>5
  <2> QED
    BY <1>8, <2>2, <2>3 DEF SendOne, Returns
<1>9. CASE SendAllocates
  <2>1. pc = "start" /\ pc' = "send" /\ moved' = moved /\ gap' = gap
    BY <1>9 DEF SendAllocates, Call
  <2> QED
    BY <1>1, <1>2, <1>3, <1>4, <2>1
    DEF VecInv, InOrder, UpTo, StartInv, CopyInv, EachInv, GatherInv, Nothing,
        CountsWhatMoved
<1>10. CASE SendMsg
  <2>1. pc' = "done" /\ gap' = gap
    BY <1>10 DEF SendMsg, Call
  <2>2. ASSUME NEW n \in 0..Total(lvec), result' = n,
               moved' = {<<Gathered[p], <<1, p>>>> : p \in 0..n - 1}
        PROVE  VecInv'
    <3>1. moved' = Moves(call, lvec, rvec, n)
      BY <1>1, <1>2, <2>2, GatheredMoves
    <3> QED
      BY <1>6, <2>1, <2>2, <3>1
  <2>3. CASE Returns(-1) /\ UNCHANGED moved
    BY <1>5, <2>1, <2>3 DEF Returns
  <2> QED
    BY <1>10, <2>2, <2>3 DEF SendMsg, Returns
<1> QED
  BY <1>7, <1>8, <1>9, <1>10 DEF sendmsg

\* The d bytes of a copy are the next ones of both vectors.
LEMMA CopyIs ==
  ASSUME NEW c \in ProcessVm, NEW v \in LengthSeqs, NEW w \in LengthSeqs,
         NEW i, NEW off, NEW j, NEW at, NEW n, NEW d \in Nat,
         At(v, i, off, n), At(w, j, at, n),
         i \in 1..Len(v), j \in 1..Len(w),
         d > 0, d <= v[i] - off, d <= w[j] - at
  PROVE  Then(c, v, w, n, d) =
           {<<<<i, off + k>>, <<j, at + k>>>> : k \in 0..d - 1}
<1> DEFINE f(k) == <<Flat(v)[n + k + 1], Place(c, w, n + k + 1)>>
           g(k) == <<<<i, off + k>>, <<j, at + k>>>>
<1>1. \A k \in 0..d - 1 : Flat(v)[n + k + 1] = <<i, off + k>>
  BY AdvanceIs
<1>2. \A k \in 0..d - 1 : Flat(w)[n + k + 1] = <<j, at + k>>
  BY AdvanceIs
<1>3. \A k \in 0..d - 1 : f(k) = g(k)
  BY <1>1, <1>2 DEF Place
<1> HIDE DEF f, g
<1>4. {f(k) : k \in 0..d - 1} = {g(k) : k \in 0..d - 1}
  BY <1>3
<1> QED
  BY <1>4 DEF f, g, Then

LEMMA ProcessVmKeeps ==
  ASSUME VecInv, NEW c \in ProcessVm, process_vm(c)
  PROVE  VecInv'
<1>1. call = c /\ call \in ProcessVm /\ UNCHANGED <<call, lvec, rvec>>
  BY DEF process_vm, VmOpen, VmCopy, VmClose, Call
<1>2. /\ lvec \in LengthSeqs /\ rvec \in LengthSeqs /\ InOrder
      /\ DOMAIN lvec = 1..Len(lvec) /\ DOMAIN rvec = 1..Len(rvec)
      /\ Len(lvec) \in Nat /\ Len(rvec) \in Nat
  BY VectorsAre DEF VecInv, Typed
<1>3. Typed'
  BY <1>1 DEF VecInv, Typed
<1>4. call # "readv"
  BY <1>1 DEF ProcessVm
\* length is right wherever the positions are
<1>5. ASSUME NEW l \in LengthAt(lvec, iLvec'), NEW r \in LengthAt(rvec, iRvec'),
             length' = Smaller(l - offLvec', r - offRvec'),
             iLvec' \in 1..Len(lvec) + 1, iRvec' \in 1..Len(rvec) + 1
      PROVE  LengthIs'
  <2> SUFFICES ASSUME iLvec' <= Len(lvec), iRvec' <= Len(rvec)
               PROVE  length' = Smaller(lvec[iLvec'] - offLvec',
                                        rvec[iRvec'] - offRvec')
    BY <1>1 DEF LengthIs
  <2>1. iLvec' \in DOMAIN lvec /\ iRvec' \in DOMAIN rvec
    BY <1>2, <1>5
  <2>2. l = lvec[iLvec'] /\ r = rvec[iRvec']
    BY <2>1 DEF LengthAt
  <2> QED
    BY <1>5, <2>2
<1>6. CASE VmOpen(c)
  <2>1. /\ pc = "start" /\ pc' = "copy" /\ bytes' = bytes
        /\ iLvec' = iLvec /\ offLvec' = offLvec
        /\ iRvec' = iRvec /\ offRvec' = offRvec
        /\ moved' = moved /\ gap' = gap
    BY <1>6 DEF VmOpen, Call
  <2>2. /\ bytes = 0 /\ moved = {} /\ ~gap
        /\ iLvec = 1 /\ offLvec = 0 /\ iRvec = 1 /\ offRvec = 0
    BY <1>4, <2>1 DEF VecInv, StartInv, Nothing
  <2>3. /\ At(lvec, 1, 0, 0) /\ 1 \in 1..Len(lvec) + 1
        /\ At(rvec, 1, 0, 0) /\ 1 \in 1..Len(rvec) + 1
    BY <1>2, AtStart
  <2>4. At(lvec, iLvec, offLvec, bytes)' /\ At(rvec, iRvec, offRvec, bytes)'
    BY <1>1, <2>1, <2>2, <2>3
  <2>5. UpTo(bytes)' /\ InOrder'
    BY <1>1, <1>2, <2>1, <2>2, MovesNone DEF UpTo, InOrder
  <2>6. LengthIs'
    <3>1. PICK l \in LengthAt(lvec, 1), r \in LengthAt(rvec, 1) :
            length' = Smaller(l, r)
      BY <1>6 DEF VmOpen
    <3>2. \A x \in LengthAt(lvec, 1) \cup LengthAt(rvec, 1) : x \in Nat
      BY <1>2, ConstantsAssumption DEF LengthAt, ConstantsAssumption, LengthSeqs
    <3>3. l - 0 = l /\ r - 0 = r
      BY <3>2
    <3> QED
      BY <1>5, <2>1, <2>2, <2>3, <3>1, <3>3
  <2>7. CopyInv'
    BY <2>4, <2>5, <2>6 DEF CopyInv
  <2> QED
    BY <1>3, <2>1, <2>5, <2>7
    DEF VecInv, StartInv, EachInv, GatherInv, CountsWhatMoved
<1>7. CASE VmCopy(c)
  <2>1. /\ pc = "copy" /\ pc' = "copy" /\ bytes' = bytes + length
        /\ iLvec <= Len(lvec) /\ iRvec <= Len(rvec) /\ length # 0
    BY <1>7 DEF VmCopy, Call, More
  <2>2. /\ At(lvec, iLvec, offLvec, bytes) /\ At(rvec, iRvec, offRvec, bytes)
        /\ length = Smaller(lvec[iLvec] - offLvec, rvec[iRvec] - offRvec)
        /\ UpTo(bytes)
    BY <2>1 DEF VecInv, CopyInv, LengthIs
  <2>3. iLvec \in 1..Len(lvec) /\ iRvec \in 1..Len(rvec) /\ bytes \in Nat
    BY <1>2, <2>1, <2>2 DEF At
  <2>4. /\ lvec[iLvec] \in Nat /\ offLvec \in 0..lvec[iLvec]
        /\ rvec[iRvec] \in Nat /\ offRvec \in 0..rvec[iRvec]
    BY <1>2, <2>2, <2>3, AtIs
  <2>5. /\ length \in Nat /\ length > 0
        /\ length <= lvec[iLvec] - offLvec /\ length <= rvec[iRvec] - offRvec
    <3> DEFINE x == lvec[iLvec] - offLvec
               y == rvec[iRvec] - offRvec
    <3>1. x \in Nat /\ y \in Nat
      BY <2>4
    <3>2. length = Smaller(x, y) /\ length # 0
      BY <2>1, <2>2
    <3> HIDE DEF x, y
    <3>3. length \in Nat /\ length > 0 /\ length <= x /\ length <= y
      BY <3>1, <3>2 DEF Smaller
    <3> QED
      BY <3>3 DEF x, y
  <2>6. /\ iLvec' = Advance(lvec, iLvec, offLvec + length)[1]
        /\ offLvec' = Advance(lvec, iLvec, offLvec + length)[2]
        /\ iRvec' = Advance(rvec, iRvec, offRvec + length)[1]
        /\ offRvec' = Advance(rvec, iRvec, offRvec + length)[2]
    BY <1>7 DEF VmCopy
  <2>7. At(lvec, iLvec', offLvec', bytes + length)
    BY <1>2, <2>2, <2>3, <2>5, <2>6, AdvanceIs
  <2>8. At(rvec, iRvec', offRvec', bytes + length)
    BY <1>2, <2>2, <2>3, <2>5, <2>6, AdvanceIs
  <2>9. LengthIs'
    <3>1. iLvec' \in 1..Len(lvec) + 1 /\ iRvec' \in 1..Len(rvec) + 1
      BY <2>7, <2>8 DEF At
    <3> QED
      BY <1>5, <1>7, <3>1 DEF VmCopy
  <2>10. UpTo(bytes)'
    <3> SUFFICES ASSUME ~gap'
                 PROVE  moved' = Moves(call, lvec, rvec, bytes')
      BY <1>1 DEF UpTo
    <3>1. /\ ~gap
          /\ moved' = moved \cup
                {<<<<iLvec, offLvec + k>>, <<iRvec, offRvec + k>>>>
                   : k \in 0..length - 1}
      BY <1>7 DEF VmCopy
    <3>2. moved = Moves(call, lvec, rvec, bytes)
      BY <2>2, <3>1 DEF UpTo
    <3>3. Adds(bytes, length, bytes')
      BY <2>1, <2>3, <2>5 DEF Adds
    <3>4. Moves(call, lvec, rvec, bytes') =
            moved \cup Then(call, lvec, rvec, bytes, length)
      BY <3>2, <3>3, MovesMore
    <3>5. Then(call, lvec, rvec, bytes, length) =
            {<<<<iLvec, offLvec + k>>, <<iRvec, offRvec + k>>>>
               : k \in 0..length - 1}
      BY <1>1, <1>2, <2>2, <2>3, <2>5, CopyIs
    <3> QED
      BY <3>1, <3>4, <3>5
  <2>11. CopyInv'
    BY <1>1, <2>1, <2>7, <2>8, <2>9, <2>10 DEF CopyInv
  <2>12. InOrder'
    <3>1. bytes' \in 0..Total(lvec')
      BY <1>1, <1>2, <2>1, <2>7, AtIs
    <3> QED
      BY <2>10, <3>1 DEF InOrder, UpTo
  <2> QED
    BY <1>3, <2>1, <2>11, <2>12
    DEF VecInv, StartInv, EachInv, GatherInv, CountsWhatMoved
<1>8. CASE VmClose(c)
  <2>1. /\ pc = "copy" /\ pc' = "done" /\ result' = bytes
        /\ moved' = moved /\ gap' = gap
        /\ ~(iLvec <= Len(lvec) /\ iRvec <= Len(rvec) /\ length # 0)
    BY <1>8 DEF VmClose, Call, Returns, More
  <2>2. /\ At(lvec, iLvec, offLvec, bytes) /\ At(rvec, iRvec, offRvec, bytes)
        /\ LengthIs /\ UpTo(bytes)
    BY <2>1 DEF VecInv, CopyInv
  <2>3. InOrder'
    BY <1>1, <1>2, <2>1 DEF InOrder, UpTo
  <2>4. ~gap => Cardinality(moved) = bytes
    <3>1. bytes \in 0..Total(lvec)
      BY <1>2, <2>2, AtIs
    <3> QED
      BY <1>2, <2>2, <3>1, MovesCount DEF UpTo
  <2>5. bytes = Smaller(Reach(lvec), Reach(rvec))
    <3>1. /\ bytes \in Nat /\ Reach(lvec) \in Nat /\ bytes <= Reach(lvec)
          /\ (iLvec > Len(lvec) \/ lvec[iLvec] - offLvec = 0)
               => bytes = Reach(lvec)
      BY <1>2, <2>2, ReachIs
    <3>2. /\ Reach(rvec) \in Nat /\ bytes <= Reach(rvec)
          /\ (iRvec > Len(rvec) \/ rvec[iRvec] - offRvec = 0)
               => bytes = Reach(rvec)
      BY <1>2, <2>2, ReachIs
    <3>3. iLvec \in Nat /\ iRvec \in Nat
      BY <1>2, <2>2, AtIs
    <3>4. CASE iLvec <= Len(lvec) /\ iRvec <= Len(rvec)
      <4>1. Smaller(lvec[iLvec] - offLvec, rvec[iRvec] - offRvec) = 0
        BY <2>1, <2>2, <3>4 DEF LengthIs
      <4>2. lvec[iLvec] - offLvec = 0 \/ rvec[iRvec] - offRvec = 0
        BY <4>1 DEF Smaller
      <4> QED
        BY <3>1, <3>2, <4>2 DEF Smaller
    <3>5. CASE iLvec > Len(lvec) \/ iRvec > Len(rvec)
      BY <3>1, <3>2, <3>5 DEF Smaller
    <3> QED
      BY <1>2, <3>3, <3>4, <3>5
  <2>6. CountsWhatMoved'
    BY <1>1, <2>1, <2>4, <2>5 DEF CountsWhatMoved, ProcessVm
  <2> QED
    BY <1>3, <2>1, <2>3, <2>6 DEF VecInv, StartInv, CopyInv, EachInv, GatherInv
<1> QED
  BY <1>6, <1>7, <1>8 DEF process_vm

LEMMA VecStays == VecInv /\ [Next]_vars => VecInv'
<1> SUFFICES ASSUME VecInv, [Next]_vars
             PROVE  VecInv'
  OBVIOUS
<1>1. CASE UNCHANGED vars
  BY <1>1
  DEF vars, position, VecInv, Typed, UpTo, InOrder, Nothing, StartInv, LengthIs,
      CopyInv, EachInv, GatherInv, CountsWhatMoved
<1> QED
  BY <1>1, ReadvKeeps, WritevKeeps, SendmsgKeeps, ProcessVmKeeps
  DEF Next, ProcessVm

-----------------------------------------------------------------------------
(* The theorems.                                                           *)

\* Whichever way a call of readv, writev, sendmsg or process_vm_... ends, with
\* a failure or without, it holds no buffer, array or handle any more.
THEOREM ReleasedAlways == Spec => []Released
<1>1. HeldInv => Released
  BY DEF HeldInv, Released
<1> QED
  BY <1>1, HeldStarts, HeldStays, PTL DEF Spec

\* Unless a call for one element was cut short, the bytes moved are at any
\* time the first of the vector, each from or to the place of its own in the
\* file or in the other vector, however the two vectors are cut into elements.
THEOREM BytesStayInOrder == Spec => []BytesInOrder
<1>1. VecInv => BytesInOrder
  <2> SUFFICES ASSUME VecInv, ~gap
               PROVE  moved = {<<Flat(lvec)[k], Places[k]>>
                                 : k \in 1..Cardinality(moved)}
    BY DEF BytesInOrder
  <2>1. PICK n \in 0..Total(lvec) : moved = Moves(call, lvec, rvec, n)
    BY DEF VecInv, InOrder, UpTo
  <2>2. lvec \in LengthSeqs
    BY DEF VecInv, Typed
  <2>3. Cardinality(moved) = n
    BY <2>1, <2>2, MovesCount
  <2> DEFINE f(k) == <<Flat(lvec)[k], Place(call, rvec, k)>>
             g(k) == <<Flat(lvec)[k], Places[k]>>
  <2>4. \A k \in 1..n : f(k) = g(k)
    <3>1. \A k \in 1..n : k \in 1..Total(lvec)
      BY <2>2, TotalIs
    <3> QED
      BY <3>1 DEF Place, Places
  <2> HIDE DEF f, g
  <2>5. {f(k) : k \in 1..n} = {g(k) : k \in 1..n}
    BY <2>4
  <2> QED
    BY <2>1, <2>3, <2>5 DEF f, g, Moves
<1> QED
  BY <1>1, VecStarts, VecStays, PTL DEF Spec

\* What a call that did not fail returns is the number of bytes it moved, and
\* process_vm_... go exactly as far as the shorter of the two vectors, each of
\* which ends at its first empty element.
THEOREM CountIsRight == Spec => []CountsWhatMoved
<1>1. VecInv => CountsWhatMoved
  BY DEF VecInv
<1> QED
  BY <1>1, VecStarts, VecStays, PTL DEF Spec
=============================================================================
