--------------------------- MODULE MadviseProofs ---------------------------
(***************************************************************************)
(* Proofs about Madvise, for any memory, any range and any multipliers.    *)
(* The two walks are recursive functions over what is left of the range.   *)
(* They are first shown to be what their equations say, by induction on    *)
(* what is left, and then to be sums over regions, which are compared with *)
(* each other by induction from the end of memory.                         *)
(***************************************************************************)
EXTENDS Madvise, SequenceTheorems, WellFoundedInduction, TLAPS

-----------------------------------------------------------------------------
(* Numbers.                                                                *)

\* A set of numbers has a least one, and so induction can be done with sets.
LEMMA Least ==
  ASSUME NEW S \in SUBSET Nat, S # {}
  PROVE  \E x \in S : \A y \in S : x <= y
<1> DEFINE R == {p \in Nat \X Nat : p[1] < p[2]}
<1>1. IsWellFoundedOn(R, Nat)
  BY NatLessThanWellFounded DEF OpToRel
<1>2. \A x, y \in S : ~(<<y, x>> \in R) => x =< y
  OBVIOUS
<1> HIDE DEF R
<1>3. PICK x \in S : \A y \in S : ~(<<y, x>> \in R)
  BY <1>1, WFMin
<1> QED
  BY <1>2, <1>3

LEMMA Induction ==
  ASSUME NEW S, 0 \in S, \A n \in Nat : n \in S => n + 1 \in S
  PROVE  Nat \subseteq S
<1> SUFFICES ASSUME Nat \ S # {} PROVE FALSE
  OBVIOUS
<1>1. PICK k \in Nat \ S : \A y \in Nat \ S : k <= y
  BY Least
<1>2. k # 0 /\ k - 1 \in Nat /\ ~(k <= k - 1)
  OBVIOUS
<1> QED
  BY <1>1, <1>2

LEMMA Times ==
  ASSUME NEW x \in Int, NEW y \in Int, NEW d \in Nat
  PROVE  /\ x * d \in Int /\ (x + y) * d = x * d + y * d
         /\ (x - y) * d = x * d - y * d
         /\ x <= y => x * d <= y * d
         /\ x < y /\ d > 0 => x * d < y * d
         /\ x * d < y * d => x < y
BY SMT

LEMMA Division ==
  ASSUME NEW n \in Nat, NEW d \in Nat, d > 0
  PROVE  /\ n \div d \in Nat /\ n % d \in 0..d - 1
         /\ n = (n \div d) * d + (n % d)
BY SMT

LEMMA Strides ==
  /\ Stride \in Nat /\ Stride > 0 /\ Page \in Nat /\ Page > 0
  /\ Top \in Nat /\ Top > 0 /\ SizeMax \in Nat /\ SizeMax > 0
BY ConstantsAssumption

\* As many strides as it takes to cover n bytes.
LEMMA CeilCovers ==
  ASSUME NEW n \in Nat
  PROVE  /\ Ceil(n) \in Nat /\ n \div Stride \in Nat /\ n % Stride \in 0..Stride - 1
         /\ n = (n \div Stride) * Stride + (n % Stride)
         /\ n <= Ceil(n) * Stride
         /\ n > 0 => Ceil(n) > 0
         /\ n = 0 => Ceil(n) = 0
         /\ \A k \in 1..Ceil(n) : (k - 1) * Stride \in 0..n - 1
<1>1. /\ n \div Stride \in Nat /\ n % Stride \in 0..Stride - 1
      /\ n = (n \div Stride) * Stride + (n % Stride)
  BY Strides, Division
<1> DEFINE q == n \div Stride
           r == n % Stride
<1>2. Ceil(n) = q + (IF r # 0 THEN 1 ELSE 0)
  BY DEF Ceil
<1> HIDE DEF q, r
<1>3. q \in Nat /\ r \in 0..Stride - 1 /\ n = q * Stride + r /\ Stride \in Nat /\ Stride > 0
  BY <1>1, Strides DEF q, r
<1>4. (q + 1) * Stride = q * Stride + Stride /\ q * Stride \in Int
  BY <1>3, Times
<1>5. Ceil(n) \in Nat /\ n <= Ceil(n) * Stride
  BY <1>2, <1>3, <1>4
<1>6. n > 0 => Ceil(n) > 0
  BY <1>2, <1>3, <1>4
<1>7. ASSUME NEW k \in 1..Ceil(n)
      PROVE  (k - 1) * Stride \in 0..n - 1
  <2>1. (k - 1) * Stride \in Int /\ 0 * Stride <= (k - 1) * Stride /\ 0 * Stride = 0
    BY <1>3, <1>5, Times
  <2>2. CASE r # 0
    <3>1. k - 1 <= q
      BY <1>2, <1>3, <2>2
    <3>2. (k - 1) * Stride <= q * Stride
      BY <1>3, <3>1, Times
    <3> QED BY <1>3, <1>4, <2>1, <2>2, <3>2
  <2>3. CASE r = 0
    <3>1. k - 1 < q
      BY <1>2, <1>3, <2>3
    <3>2. (k - 1) * Stride < q * Stride
      BY <1>3, <3>1, Times
    <3> QED BY <1>3, <1>4, <2>1, <2>3, <3>2
  <2> QED BY <2>2, <2>3
<1>8. n = 0 => Ceil(n) = 0
  <2> SUFFICES ASSUME n = 0 PROVE Ceil(n) = 0
    OBVIOUS
  <2>1. q = 0
    <3> SUFFICES ASSUME q >= 1 PROVE FALSE
      BY <1>3
    <3>1. 1 * Stride <= q * Stride
      BY <1>3, Times
    <3> QED BY <1>3, <1>4, <3>1
  <2> QED BY <1>2, <1>3, <2>1
<1> QED BY <1>1, <1>5, <1>6, <1>7, <1>8

LEMMA CeilGrows ==
  ASSUME NEW a \in Nat, NEW b \in Nat, a <= b
  PROVE  Ceil(a) <= Ceil(b)
<1>1. Ceil(a) \in Nat /\ Ceil(b) \in Nat /\ b <= Ceil(b) * Stride
  BY CeilCovers
<1>2. CASE Ceil(a) = 0
  BY <1>1, <1>2
<1>3. CASE Ceil(a) # 0
  <2>1. Ceil(a) \in 1..Ceil(a)
    BY <1>1, <1>3
  <2>2. (Ceil(a) - 1) * Stride \in 0..a - 1
    BY <2>1, CeilCovers
  <2>3. Ceil(b) * Stride \in Int /\ (Ceil(a) - 1) * Stride < Ceil(b) * Stride
    BY <1>1, <2>2, Strides, Times
  <2>4. Ceil(a) - 1 < Ceil(b)
    BY <1>1, <2>3, Strides, Times
  <2> QED BY <1>1, <2>4
<1> QED BY <1>2, <1>3

-----------------------------------------------------------------------------
(* Regions.                                                                *)

Memory == [Pages -> PageKinds]

\* Page e is the first after the region that page p begins.
Ends(M, p, e) ==
  /\ e \in p + 1..Top
  /\ \A q \in p..e - 1 : M[q] = M[p]
  /\ e = Top \/ M[e] # M[p]

\* Every page is in one region, which ends somewhere.
LEMMA RegionEnds ==
  ASSUME NEW M, NEW p \in Pages
  PROVE  \E e \in p + 1..Top : Ends(M, p, e)
<1> DEFINE S == {e \in p + 1..Top : e = Top \/ M[e] # M[p]}
<1>1. p \in Nat /\ Top \in Nat /\ p < Top /\ Top \in S /\ S \subseteq Nat
  BY Strides DEF Pages
<1>2. PICK e \in S : \A f \in S : e <= f
  BY <1>1, Least
<1>3. ASSUME NEW q \in p..e - 1
      PROVE  M[q] = M[p]
  <2>1. q \notin S
    BY <1>1, <1>2
  <2> QED BY <1>1, <2>1
<1> QED BY <1>2, <1>3 DEF Ends

LEMMA OneEnd ==
  ASSUME NEW M, NEW p \in Pages, NEW e, NEW f, Ends(M, p, e), Ends(M, p, f)
  PROVE  e = f
<1>1. p \in Nat /\ Top \in Nat /\ e \in p + 1..Top /\ f \in p + 1..Top
  BY Strides DEF Pages, Ends
<1>2. ~(e < f)
  BY <1>1 DEF Ends
<1>3. ~(f < e)
  BY <1>1 DEF Ends
<1> QED BY <1>1, <1>2, <1>3

\* Addresses, the pages they are in and where these begin.
LEMMA PageOf ==
  ASSUME NEW a \in 0..Top * Page - 1
  PROVE  /\ a \div Page \in Pages
         /\ (a \div Page) * Page \in Nat
         /\ a - (a \div Page) * Page \in 0..Page - 1
         /\ a % Page = a - (a \div Page) * Page
<1>1. Top * Page \in Int
  BY Strides, Times
<1>2. a \in Nat
  BY <1>1
<1>3. a \div Page \in Nat /\ a % Page \in 0..Page - 1 /\ a = (a \div Page) * Page + (a % Page)
  BY <1>2, Strides, Division
<1> DEFINE p == a \div Page
<1> HIDE DEF p
<1>4. p \in Nat /\ p * Page \in Int /\ 0 * Page <= p * Page /\ 0 * Page = 0
  BY <1>3, Strides, Times DEF p
<1>5. p * Page < Top * Page
  BY <1>1, <1>2, <1>3, <1>4 DEF p
<1>6. p < Top
  BY <1>4, <1>5, Strides, Times
<1> QED BY <1>2, <1>3, <1>4, <1>6, Strides DEF Pages, p

\* What VirtualQuery says of an address, in pages.
LEMMA QueryIs ==
  ASSUME NEW a \in 0..Top * Page - 1
  PROVE  \E e \in (a \div Page) + 1..Top :
           /\ Ends(mem, a \div Page, e)
           /\ Query(a) = [base |-> (a \div Page) * Page,
                          size |-> (e - a \div Page) * Page,
                          kind |-> mem[a \div Page]]
<1> DEFINE p == a \div Page
           Is(k) == /\ \A q \in p..p + k - 1 : mem[q] = mem[p]
                    /\ p + k = Top \/ mem[p + k] # mem[p]
           n == CHOOSE k \in 1..Top - p : Is(k)
<1>1. p \in Pages /\ p \in Nat /\ Top \in Nat
  BY PageOf, Strides DEF Pages
<1>2. Query(a) = [base |-> p * Page, size |-> n * Page, kind |-> mem[p]]
  BY DEF Query
<1> HIDE DEF p
<1>3. PICK f \in p + 1..Top : Ends(mem, p, f)
  BY <1>1, RegionEnds
<1>4. f - p \in 1..Top - p /\ p + (f - p) = f
  BY <1>1, <1>3
<1>5. Is(f - p)
  <2>1. p..p + (f - p) - 1 = p..f - 1
    BY <1>1, <1>3
  <2> QED BY <1>3, <1>4, <2>1 DEF Ends
<1>6. \E k \in 1..Top - p : Is(k)
  BY <1>4, <1>5
<1>7. n \in 1..Top - p /\ Is(n)
  <2> HIDE DEF Is
  <2> QED BY <1>6
<1> HIDE DEF n
<1>8. p + n \in p + 1..Top /\ (p + n) - p = n
  BY <1>1, <1>7
<1>9. Ends(mem, p, p + n)
  BY <1>1, <1>7, <1>8 DEF Ends
<1> QED BY <1>2, <1>8, <1>9 DEF p

-----------------------------------------------------------------------------
(* Entries.                                                                *)

\* Byte u is in an entry.
Covers(s, u) == \E i \in DOMAIN s : u \in s[i].at..s[i].at + s[i].bytes - 1

\* The entries for n bytes from a: whole strides, and one with the rest.
LEMMA ChunksAre ==
  ASSUME NEW a \in Int, NEW n \in Nat, NEW last \in 0..Stride - 1
  PROVE  /\ Chunks(a, n, last) \in Seq([at: a..a + n - 1, bytes: 0..Stride])
         /\ Len(Chunks(a, n, last)) = Ceil(n)
<1> DEFINE s == Chunks(a, n, last)
           E == [at: a..a + n - 1, bytes: 0..Stride]
           q == n \div Stride
<1>1. /\ Ceil(n) \in Nat
      /\ \A k \in 1..Ceil(n) : (k - 1) * Stride \in 0..n - 1
  BY CeilCovers
<1>2. s = [k \in 1..Ceil(n) |->
             [at |-> a + (k - 1) * Stride,
              bytes |-> IF k <= q THEN Stride ELSE last]]
  BY DEF Chunks
<1> HIDE DEF s, q
<1>3. ASSUME NEW k \in 1..Ceil(n)
      PROVE  s[k] \in E
  <2>1. a + (k - 1) * Stride \in a..a + n - 1
    BY <1>1
  <2>2. (IF k <= q THEN Stride ELSE last) \in 0..Stride
    BY Strides
  <2> QED BY <1>2, <2>1, <2>2
<1> HIDE DEF E
<1>4. s \in [1..Ceil(n) -> E]
  BY <1>2, <1>3
<1>5. s \in Seq(E) /\ Len(s) = Ceil(n)
  BY <1>1, <1>4, LenProperties
<1> QED BY <1>5 DEF s, E

\* They cover the bytes, if the last is given what remains.
LEMMA ChunksCover ==
  ASSUME NEW a \in Int, NEW n \in Nat, NEW u \in a..a + n - 1
  PROVE  Covers(Chunks(a, n, n % Stride), u)
<1> DEFINE s == Chunks(a, n, n % Stride)
           q == n \div Stride
           r == n % Stride
           x == u - a
           j == x \div Stride
<1>1. /\ s = [k \in 1..Ceil(n) |->
                [at |-> a + (k - 1) * Stride,
                 bytes |-> IF k <= q THEN Stride ELSE r]]
      /\ Ceil(n) = q + (IF r # 0 THEN 1 ELSE 0)
  BY DEF Chunks, Ceil
<1>2. x \in Nat /\ x < n
  OBVIOUS
<1> HIDE DEF s, x
<1>3. q \in Nat /\ r \in 0..Stride - 1 /\ n = q * Stride + r
  BY CeilCovers
<1>4. j \in Nat /\ x % Stride \in 0..Stride - 1 /\ x = j * Stride + (x % Stride)
  BY <1>2, Strides, Division
<1> HIDE DEF q, r, j
<1>5. j * Stride \in Int /\ (q + 1) * Stride = q * Stride + Stride /\ q * Stride \in Int
  BY <1>3, <1>4, Strides, Times
<1>6. j < q + 1
  <2>1. j * Stride < (q + 1) * Stride
    BY <1>2, <1>3, <1>4, <1>5, Strides
  <2> QED BY <1>3, <1>4, <2>1, Strides, Times
<1>7. j = q => r # 0
  BY <1>2, <1>3, <1>4, <1>5
<1>8. j + 1 \in 1..Ceil(n) /\ (j + 1) - 1 = j
  BY <1>1, <1>3, <1>4, <1>6, <1>7
<1>9. s[j + 1].at = a + j * Stride /\ s[j + 1].bytes = (IF j + 1 <= q THEN Stride ELSE r)
  BY <1>1, <1>8
<1>10. x < j * Stride + (IF j + 1 <= q THEN Stride ELSE r)
  BY <1>2, <1>3, <1>4, <1>5, <1>6, Strides
<1>11. u \in s[j + 1].at..s[j + 1].at + s[j + 1].bytes - 1
  <2>1. u = a + x /\ x \in Nat /\ x >= j * Stride
    BY <1>4, <1>5, <1>2 DEF x
  <2> QED BY <1>3, <1>5, <1>9, <1>10, <2>1, Strides
<1>12. DOMAIN s = 1..Ceil(n)
  BY <1>1
<1> QED BY <1>8, <1>11, <1>12 DEF Covers, s, r

LEMMA JoinCovers ==
  ASSUME NEW S, NEW s \in Seq(S), NEW t \in Seq(S), NEW u,
         Covers(s, u) \/ Covers(t, u)
  PROVE  Covers(s \o t, u)
<1>1. /\ s \o t \in Seq(S) /\ Len(s \o t) = Len(s) + Len(t)
      /\ \A i \in 1..Len(s) + Len(t) :
           (s \o t)[i] = IF i <= Len(s) THEN s[i] ELSE t[i - Len(s)]
  BY ConcatProperties
<1>2. Len(s) \in Nat /\ Len(t) \in Nat /\ DOMAIN s = 1..Len(s)
      /\ DOMAIN t = 1..Len(t) /\ DOMAIN (s \o t) = 1..Len(s) + Len(t)
  BY <1>1, LenProperties
<1>3. CASE Covers(s, u)
  <2>1. PICK i \in 1..Len(s) : u \in s[i].at..s[i].at + s[i].bytes - 1
    BY <1>2, <1>3 DEF Covers
  <2>2. i \in DOMAIN (s \o t) /\ (s \o t)[i] = s[i]
    BY <1>1, <1>2, <2>1
  <2> QED BY <2>1, <2>2 DEF Covers
<1>4. CASE Covers(t, u)
  <2>1. PICK i \in 1..Len(t) : u \in t[i].at..t[i].at + t[i].bytes - 1
    BY <1>2, <1>4 DEF Covers
  <2>2. Len(s) + i \in DOMAIN (s \o t) /\ (s \o t)[Len(s) + i] = t[i]
    BY <1>1, <1>2, <2>1
  <2> QED BY <2>1, <2>2 DEF Covers
<1> QED BY <1>3, <1>4

-----------------------------------------------------------------------------
(* The walks.                                                              *)

\* What the arguments are, until madvise returns.
Arguments ==
  /\ addr \in 0..Top * Page - 1
  /\ len \in Nat /\ addr + len <= Top * Page
  /\ mem \in Memory

\* The page of addr, the size the code takes its region for when page e ends
\* it, and where the walk over the other regions ends.
FirstPage == addr \div Page
Reach(e)  == addr - 2 * (FirstPage * Page) + e * Page
End       == 2 * (FirstPage * Page) + len - addr

\* The walk's first step in pages.
LEMMA FirstIs ==
  ASSUME Arguments
  PROVE  \E e \in FirstPage + 1..Top :
           /\ Ends(mem, FirstPage, e)
           /\ FirstSize = Reach(e) /\ WalkEnd = End
           /\ Query(addr).base = FirstPage * Page
           /\ Query(addr).size = e * Page - FirstPage * Page
<1>1. addr \in 0..Top * Page - 1
  BY DEF Arguments
<1>2. PICK e \in FirstPage + 1..Top :
        /\ Ends(mem, FirstPage, e)
        /\ Query(addr) = [base |-> FirstPage * Page,
                          size |-> (e - FirstPage) * Page,
                          kind |-> mem[FirstPage]]
  BY <1>1, QueryIs DEF FirstPage
<1>3. FirstPage \in Nat /\ FirstPage * Page \in Int
  BY <1>1, PageOf DEF FirstPage, Pages
<1>4. e \in Int /\ e * Page \in Int /\ (e - FirstPage) * Page = e * Page - FirstPage * Page
  BY <1>2, <1>3, Strides, Times
<1>5. addr \in Int /\ len \in Int
  BY <1>1, Strides, Times DEF Arguments
<1>6. Query(addr).base = FirstPage * Page /\ Query(addr).size = e * Page - FirstPage * Page
  BY <1>2, <1>4
<1>7. FirstSize = Reach(e)
  BY <1>3, <1>4, <1>5, <1>6 DEF FirstSize, Reach
<1>8. WalkEnd = End
  BY <1>3, <1>4, <1>5, <1>6, <1>7 DEF WalkEnd, End, Reach
<1> QED BY <1>2, <1>6, <1>7, <1>8

\* Where the walk can be.
LEMMA WalkIsInRange ==
  ASSUME Arguments, FirstSize < len
  PROVE  /\ len - FirstSize \in Nat
         /\ \A left \in 0..len - FirstSize :
              WalkEnd - left \in Nat /\ WalkEnd - left > addr
<1>1. PICK e \in FirstPage + 1..Top :
        FirstSize = Reach(e) /\ WalkEnd = End
  BY FirstIs
<1>2. addr \in 0..Top * Page - 1 /\ addr \in Nat /\ len \in Nat
  BY Strides, Times DEF Arguments
<1>3. /\ FirstPage \in Nat /\ FirstPage * Page \in Nat
      /\ addr - FirstPage * Page \in 0..Page - 1
  BY <1>2, PageOf DEF FirstPage, Pages
<1>4. /\ e \in Int /\ e * Page \in Int /\ (FirstPage + 1) * Page <= e * Page
      /\ (FirstPage + 1) * Page = FirstPage * Page + 1 * Page /\ 1 * Page = Page
  BY <1>1, <1>3, Strides, Times
<1> DEFINE b == FirstPage * Page
           x == e * Page
<1>5. /\ FirstSize = addr - 2 * b + x /\ WalkEnd = 2 * b + len - addr
      /\ b \in Nat /\ x \in Int /\ addr - b \in 0..Page - 1 /\ b + Page <= x
  BY <1>1, <1>3, <1>4 DEF Reach, End
<1> HIDE DEF b, x
<1> QED BY <1>2, <1>5, Strides

\* As long as there is a region at the place of the walk, it goes on.
LEMMA WalkGoesOn ==
  ASSUME Arguments, FirstSize < len, NEW left \in 1..len - FirstSize,
         Exists(WalkEnd - left)
  PROVE  Query(WalkEnd - left).size \in Nat /\ Query(WalkEnd - left).size > 0
<1> DEFINE a == WalkEnd - left
<1>1. a \in 0..Top * Page - 1
  BY WalkIsInRange, Strides, Times DEF Exists
<1> HIDE DEF a
<1>2. PICK e \in (a \div Page) + 1..Top :
        Query(a).size = (e - a \div Page) * Page
  BY <1>1, QueryIs
<1>3. a \div Page \in Nat
  BY <1>1, PageOf DEF Pages
<1>4. e - (a \div Page) \in Int /\ 1 <= e - (a \div Page)
  BY <1>2, <1>3, Strides
<1> DEFINE n == e - (a \div Page)
<1>5. n \in Int /\ 1 <= n /\ Query(a).size = n * Page
  BY <1>2, <1>4
<1> HIDE DEF n
<1>6. n * Page \in Int /\ 1 * Page <= n * Page /\ 1 * Page = Page
  BY <1>5, Strides, Times
<1> QED BY <1>5, <1>6, Strides DEF a

\* The equation of CountRest.
CountBody(f, left) ==
  IF left = 0 \/ ~Exists(WalkEnd - left) THEN 0
  ELSE LET r == Query(WalkEnd - left) IN
       (IF ~Committed(r) THEN 0
        ELSE IF r.size < left THEN Ceil(r.size) ELSE Ceil(left))
       + (IF r.size < left THEN f[left - r.size] ELSE 0)

\* A recursive function of the walk: what is left determines its value.
LEMMA CountBodyLocal ==
  ASSUME Arguments, FirstSize < len, NEW left \in 0..len - FirstSize,
         NEW f, NEW g, \A k \in 0..left - 1 : f[k] = g[k]
  PROVE  CountBody(f, left) = CountBody(g, left)
<1>1. CASE left = 0 \/ ~Exists(WalkEnd - left)
  BY <1>1 DEF CountBody
<1>2. CASE ~(left = 0 \/ ~Exists(WalkEnd - left))
  <2> DEFINE r == Query(WalkEnd - left)
  <2>1. left \in 1..len - FirstSize /\ left \in Nat
    BY <1>2, WalkIsInRange
  <2>2. r.size \in Nat /\ r.size > 0
    BY <1>2, <2>1, WalkGoesOn
  <2> HIDE DEF r
  <2>3. r.size < left => f[left - r.size] = g[left - r.size]
    BY <2>1, <2>2
  <2> QED BY <1>2, <2>3 DEF CountBody, r
<1> QED BY <1>1, <1>2

\* There is a function with this equation, and so CountRest is one.
LEMMA CountRestIs ==
  ASSUME Arguments, FirstSize < len
  PROVE  \A left \in 0..len - FirstSize :
           CountRest[left] = CountBody(CountRest, left)
<1> DEFINE D == len - FirstSize
           Is(f) == f = [left \in 0..D |-> CountBody(f, left)]
           Good(f, n) == \A k \in 0..n : f[k] = CountBody(f, k)
           S == {n \in Nat : n <= D => \E f : Good(f, n)}
<1>1. D \in Nat
  BY WalkIsInRange
<1>2. 0 \in S
  <2> DEFINE f == [k \in 0..0 |-> 0]
  <2>1. Good(f, 0)
    BY DEF CountBody
  <2> HIDE DEF f
  <2> QED BY <2>1
<1>3. ASSUME NEW n \in Nat, n \in S
      PROVE  n + 1 \in S
  <2> SUFFICES ASSUME n + 1 <= D PROVE \E f : Good(f, n + 1)
    OBVIOUS
  <2>1. PICK f : Good(f, n)
    BY <1>1, <1>3
  <2> DEFINE g == [k \in 0..n + 1 |-> IF k = n + 1 THEN CountBody(f, n + 1) ELSE f[k]]
  <2>2. g[n + 1] = CountBody(f, n + 1) /\ \A k \in 0..n : g[k] = f[k]
    OBVIOUS
  <2> HIDE DEF g
  <2>3. ASSUME NEW k \in 0..n + 1
        PROVE  g[k] = CountBody(g, k)
    <3>1. k \in 0..D /\ (\A j \in 0..k - 1 : f[j] = g[j])
      BY <1>1, <2>2
    <3>2. CountBody(f, k) = CountBody(g, k)
      BY <3>1, CountBodyLocal
    <3>3. g[k] = CountBody(f, k)
      BY <2>1, <2>2
    <3> QED BY <3>2, <3>3
  <2>4. Good(g, n + 1)
    BY <2>3
  <2> QED BY <2>4
<1>4. Nat \subseteq S
  <2> HIDE DEF S
  <2> QED BY <1>2, <1>3, Induction
<1>5. PICK f : Good(f, D)
  BY <1>1, <1>4
<1> DEFINE g == [k \in 0..D |-> f[k]]
<1>6. \A k \in 0..D : g[k] = f[k]
  OBVIOUS
<1> HIDE DEF D
<1>7. ASSUME NEW k \in 0..D
      PROVE  g[k] = CountBody(g, k)
  <2>1. \A j \in 0..k - 1 : f[j] = g[j]
    BY <1>1, <1>6
  <2> HIDE DEF g
  <2>2. CountBody(f, k) = CountBody(g, k)
    BY <1>7, <2>1, CountBodyLocal DEF D
  <2> QED BY <1>5, <1>6, <2>2
<1>8. Is(g)
  <2>1. g = [k \in 0..D |-> g[k]]
    OBVIOUS
  <2> HIDE DEF g
  <2> QED BY <1>7, <2>1
<1>9. CountRest = CHOOSE h : Is(h)
  BY DEF CountRest, CountBody, D
<1>10. Is(CountRest)
  <2> HIDE DEF Is, g
  <2> QED BY <1>8, <1>9
<1> QED BY <1>10 DEF D

\* The equation of FillRest.
FillBody(f, left) ==
  IF left = 0 \/ ~Exists(WalkEnd - left) THEN <<>>
  ELSE LET r == Query(WalkEnd - left) IN
       (IF ~Committed(r) \/ r.kind \in {"block", "table"} THEN <<>>
        ELSE IF r.size < left THEN Middle(r) ELSE Last(r, left))
       \o (IF r.size < left THEN f[left - r.size] ELSE <<>>)

LEMMA FillBodyLocal ==
  ASSUME Arguments, FirstSize < len, NEW left \in 0..len - FirstSize,
         NEW f, NEW g, \A k \in 0..left - 1 : f[k] = g[k]
  PROVE  FillBody(f, left) = FillBody(g, left)
<1>1. CASE left = 0 \/ ~Exists(WalkEnd - left)
  BY <1>1 DEF FillBody
<1>2. CASE ~(left = 0 \/ ~Exists(WalkEnd - left))
  <2> DEFINE r == Query(WalkEnd - left)
  <2>1. left \in 1..len - FirstSize /\ left \in Nat
    BY <1>2, WalkIsInRange
  <2>2. r.size \in Nat /\ r.size > 0
    BY <1>2, <2>1, WalkGoesOn
  <2> HIDE DEF r
  <2>3. r.size < left => f[left - r.size] = g[left - r.size]
    BY <2>1, <2>2
  <2> QED BY <1>2, <2>3 DEF FillBody, r
<1> QED BY <1>1, <1>2

\* Likewise FillRest.
LEMMA FillRestIs ==
  ASSUME Arguments, FirstSize < len
  PROVE  \A left \in 0..len - FirstSize :
           FillRest[left] = FillBody(FillRest, left)
<1> DEFINE D == len - FirstSize
           Is(f) == f = [left \in 0..D |-> FillBody(f, left)]
           Good(f, n) == \A k \in 0..n : f[k] = FillBody(f, k)
           S == {n \in Nat : n <= D => \E f : Good(f, n)}
<1>1. D \in Nat
  BY WalkIsInRange
<1>2. 0 \in S
  <2> DEFINE f == [k \in 0..0 |-> <<>>]
  <2>1. Good(f, 0)
    BY DEF FillBody
  <2> HIDE DEF f
  <2> QED BY <2>1
<1>3. ASSUME NEW n \in Nat, n \in S
      PROVE  n + 1 \in S
  <2> SUFFICES ASSUME n + 1 <= D PROVE \E f : Good(f, n + 1)
    OBVIOUS
  <2>1. PICK f : Good(f, n)
    BY <1>1, <1>3
  <2> DEFINE g == [k \in 0..n + 1 |-> IF k = n + 1 THEN FillBody(f, n + 1) ELSE f[k]]
  <2>2. g[n + 1] = FillBody(f, n + 1) /\ \A k \in 0..n : g[k] = f[k]
    OBVIOUS
  <2> HIDE DEF g
  <2>3. ASSUME NEW k \in 0..n + 1
        PROVE  g[k] = FillBody(g, k)
    <3>1. k \in 0..D /\ (\A j \in 0..k - 1 : f[j] = g[j])
      BY <1>1, <2>2
    <3>2. FillBody(f, k) = FillBody(g, k)
      BY <3>1, FillBodyLocal
    <3>3. g[k] = FillBody(f, k)
      BY <2>1, <2>2
    <3> QED BY <3>2, <3>3
  <2>4. Good(g, n + 1)
    BY <2>3
  <2> QED BY <2>4
<1>4. Nat \subseteq S
  <2> HIDE DEF S
  <2> QED BY <1>2, <1>3, Induction
<1>5. PICK f : Good(f, D)
  BY <1>1, <1>4
<1> DEFINE g == [k \in 0..D |-> f[k]]
<1>6. \A k \in 0..D : g[k] = f[k]
  OBVIOUS
<1> HIDE DEF D
<1>7. ASSUME NEW k \in 0..D
      PROVE  g[k] = FillBody(g, k)
  <2>1. \A j \in 0..k - 1 : f[j] = g[j]
    BY <1>1, <1>6
  <2> HIDE DEF g
  <2>2. FillBody(f, k) = FillBody(g, k)
    BY <1>7, <2>1, FillBodyLocal DEF D
  <2> QED BY <1>5, <1>6, <2>2
<1>8. Is(g)
  <2>1. g = [k \in 0..D |-> g[k]]
    OBVIOUS
  <2> HIDE DEF g
  <2> QED BY <1>7, <2>1
<1>9. FillRest = CHOOSE h : Is(h)
  BY DEF FillRest, FillBody, D
<1>10. Is(FillRest)
  <2> HIDE DEF Is, g
  <2> QED BY <1>8, <1>9
<1> QED BY <1>10 DEF D

-----------------------------------------------------------------------------
(* The walks, region by region.                                            *)

LEMMA PageStarts ==
  ASSUME NEW q \in Pages
  PROVE  /\ q * Page \in 0..Top * Page - 1
         /\ (q * Page) \div Page = q
<1>1. q \in Nat /\ q < Top /\ Top \in Nat
  BY Strides DEF Pages
<1>2. /\ q * Page \in Int /\ Top * Page \in Int /\ q * Page < Top * Page
      /\ 0 * Page <= q * Page /\ 0 * Page = 0
  BY <1>1, Strides, Times
<1> DEFINE x == q * Page
           d == x \div Page
<1>3. x \in Nat
  BY <1>2
<1>4. d \in Nat /\ x % Page \in 0..Page - 1 /\ x = d * Page + (x % Page)
  BY <1>3, Strides, Division
<1> HIDE DEF x, d
<1>5. (d + 1) * Page = d * Page + 1 * Page /\ 1 * Page = Page /\ d * Page \in Int
  BY <1>4, Strides, Times
<1>6. d * Page <= x /\ x < (d + 1) * Page
  BY <1>3, <1>4, <1>5, Strides
<1>7. q < d + 1
  BY <1>1, <1>4, <1>6, Strides, Times DEF x
<1>8. d <= q
  <2> SUFFICES ASSUME q < d PROVE FALSE
    BY <1>1, <1>4
  <2>1. q * Page < d * Page
    BY <1>1, <1>4, Strides, Times
  <2> QED BY <1>2, <1>5, <1>6, <2>1 DEF x
<1> QED BY <1>1, <1>2, <1>4, <1>7, <1>8 DEF d, x

\* What VirtualQuery says of the first byte of a page.
LEMMA QueryPage ==
  ASSUME NEW q \in Pages, NEW e, Ends(mem, q, e)
  PROVE  Query(q * Page) = [base |-> q * Page, size |-> e * Page - q * Page,
                            kind |-> mem[q]]
<1>1. q * Page \in 0..Top * Page - 1 /\ (q * Page) \div Page = q
  BY PageStarts
<1>2. PICK f \in q + 1..Top :
        /\ Ends(mem, q, f)
        /\ Query(q * Page) = [base |-> q * Page, size |-> (f - q) * Page,
                              kind |-> mem[q]]
  BY <1>1, QueryIs
<1>3. f = e
  BY <1>2, OneEnd
<1>4. q \in Int /\ f \in Int
  BY <1>2, Strides DEF Pages
<1>5. (f - q) * Page = f * Page - q * Page
  BY <1>4, Strides, Times
<1> QED BY <1>2, <1>3, <1>5

\* The bytes of the region of page q, which page e ends, in the walk.
Part(q, e) == IF e * Page < End THEN e * Page - q * Page ELSE End - q * Page

\* Counts[q] is what a walk over memory M counts from page q on, for the pages
\* from page b on.
CountsFrom(M, b, Counts) ==
  \A q \in b..Top :
    /\ q = Top \/ q * Page >= End => Counts[q] = 0
    /\ \A e \in q + 1..Top :
         q * Page < End /\ Ends(M, q, e) =>
           Counts[q] = (IF M[q] = "free" THEN 0 ELSE Ceil(Part(q, e)))
                       + Counts[e]

\* n is what the first walk counts in memory M.
CountedFor(M, n) ==
  \E Counts, e :
    /\ e \in FirstPage + 1..Top /\ Ends(M, FirstPage, e)
    /\ CountsFrom(M, e, Counts)
    /\ n = IF e * Page < End THEN Ceil(Reach(e)) + Counts[e] ELSE Ceil(len)

\* ... and Fills[q] is what the second walk writes.
RegionFill(M, q, e) ==
  IF M[q] \in {"free", "block", "table"} THEN <<>>
  ELSE IF e * Page < End
       THEN Chunks(q * Page, e * Page - q * Page, (e * Page - q * Page) % Stride)
       ELSE Chunks(addr, End - q * Page,
                   (addr - q * Page + (e * Page - q * Page)) % Stride)

FillsFrom(M, b, Fills) ==
  \A q \in b..Top :
    /\ q = Top \/ q * Page >= End => Fills[q] = <<>>
    /\ \A e \in q + 1..Top :
         q * Page < End /\ Ends(M, q, e) =>
           Fills[q] = RegionFill(M, q, e) \o Fills[e]

\* s is what the second walk writes in memory M.
FilledFor(M, s) ==
  \E Fills, e :
    /\ e \in FirstPage + 1..Top /\ Ends(M, FirstPage, e)
    /\ FillsFrom(M, e, Fills)
    /\ s = IF e * Page < End
           THEN Chunks(addr, Reach(e), Reach(e) % Stride) \o Fills[e]
           ELSE Chunks(addr, len, Reach(e) % Stride)

\* The places of the walks are numbers.
LEMMA PlacesAreNumbers ==
  ASSUME Arguments
  PROVE  /\ addr \in Nat /\ len \in Nat /\ FirstPage \in Pages /\ FirstPage \in Nat
         /\ FirstPage * Page \in Nat /\ End \in Int
         /\ addr - FirstPage * Page \in 0..Page - 1
         /\ End <= addr + len
         /\ \A e \in Int : e * Page \in Int /\ Reach(e) \in Int
                           /\ len - Reach(e) = End - e * Page
         /\ \A q, e \in Int : q < e => q * Page < e * Page
<1>1. addr \in 0..Top * Page - 1 /\ addr \in Nat /\ len \in Nat
  BY Strides, Times DEF Arguments
<1>2. /\ FirstPage \in Pages /\ FirstPage \in Nat /\ FirstPage * Page \in Nat
      /\ addr - FirstPage * Page \in 0..Page - 1
  BY <1>1, PageOf DEF FirstPage, Pages
<1>3. \A e \in Int : e * Page \in Int
  BY Strides, Times
<1>4. \A q, e \in Int : q < e => q * Page < e * Page
  BY Strides, Times
<1> DEFINE b == FirstPage * Page
<1>5. End = 2 * b + len - addr /\ \A e : Reach(e) = addr - 2 * b + e * Page
  BY DEF End, Reach
<1>6. b \in Nat /\ addr - b \in 0..Page - 1
  BY <1>2
<1> HIDE DEF b
<1>7. End \in Int /\ End <= addr + len
  BY <1>1, <1>5, <1>6, Strides
<1>8. ASSUME NEW e \in Int
      PROVE  Reach(e) \in Int /\ len - Reach(e) = End - e * Page
  <2> DEFINE x == e * Page
  <2>1. x \in Int /\ Reach(e) = addr - 2 * b + x
    BY <1>3, <1>5
  <2> HIDE DEF x
  <2>2. Reach(e) \in Int /\ len - Reach(e) = End - x
    BY <1>1, <1>5, <1>6, <2>1
  <2> QED BY <2>2 DEF x
<1> QED BY <1>1, <1>2, <1>3, <1>4, <1>7, <1>8

\* The first walk of the model in these terms.
LEMMA CountIs ==
  ASSUME Arguments
  PROVE  CountedFor(mem, EntryCount)
<1>1. PICK b \in FirstPage + 1..Top :
        Ends(mem, FirstPage, b) /\ FirstSize = Reach(b) /\ WalkEnd = End
  BY FirstIs
<1>2. b \in Nat /\ Top \in Nat /\ FirstSize \in Int /\ End \in Int /\ len \in Nat
      /\ len - FirstSize = End - b * Page /\ b * Page \in Int
  BY <1>1, PlacesAreNumbers, Strides
<1> DEFINE Counts == [q \in b..Top |-> IF q = Top \/ q * Page >= End THEN 0
                                       ELSE CountRest[End - q * Page]]
<1>3. \A q \in b..Top : q = Top \/ q * Page >= End => Counts[q] = 0
  OBVIOUS
<1>4. \A q \in b..Top : ~(q = Top \/ q * Page >= End)
                          => Counts[q] = CountRest[End - q * Page]
  OBVIOUS
<1> HIDE DEF Counts
<1>5. ASSUME NEW q \in b..Top, NEW e \in q + 1..Top, q * Page < End,
             Ends(mem, q, e)
      PROVE  Counts[q] = (IF mem[q] = "free" THEN 0 ELSE Ceil(Part(q, e)))
                         + Counts[e]
  <2>1. /\ q \in Pages /\ q \in Int /\ e \in Int /\ e \in b..Top /\ q < e
        /\ q # Top /\ b <= q
    BY <1>1, <1>2, Strides DEF Pages, Ends
  <2>2. /\ q * Page \in Int /\ e * Page \in Int /\ q * Page < e * Page
        /\ b * Page <= q * Page
    BY <1>2, <2>1, Strides, Times
  <2> DEFINE left == End - q * Page
  <2>3. FirstSize < len /\ left \in 1..len - FirstSize /\ WalkEnd - left = q * Page
    BY <1>1, <1>2, <1>5, <2>2
  <2>4. Exists(q * Page)
    BY <2>1, PageStarts, Strides, Times DEF Exists
  <2>5. Query(q * Page) = [base |-> q * Page, size |-> e * Page - q * Page,
                           kind |-> mem[q]]
    BY <1>5, <2>1, QueryPage
  <2>6. Counts[q] = CountRest[left] /\ CountRest[left] = CountBody(CountRest, left)
    BY <1>2, <1>4, <1>5, <2>1, <2>2, <2>3, CountRestIs
  <2> HIDE DEF left
  <2>7. CountBody(CountRest, left)
          = (IF mem[q] = "free" THEN 0
             ELSE IF e * Page - q * Page < left THEN Ceil(e * Page - q * Page) ELSE Ceil(left))
            + (IF e * Page - q * Page < left THEN CountRest[left - (e * Page - q * Page)] ELSE 0)
    BY <2>3, <2>4, <2>5 DEF CountBody, Committed
  <2>8. /\ e * Page - q * Page < left <=> e * Page < End
        /\ left - (e * Page - q * Page) = End - e * Page
    BY <1>2, <2>2 DEF left
  <2>9. CASE e * Page < End
    <3>1. e # Top \/ Counts[e] = 0
      BY <1>3, <2>1
    <3>2. CASE e # Top
      <4>1. Counts[e] = CountRest[End - e * Page]
        BY <1>2, <1>4, <2>1, <2>2, <2>9, <3>2
      <4> QED BY <2>6, <2>7, <2>8, <2>9, <4>1 DEF Part
    <3>3. CASE e = Top
      <4>1. CountRest[End - e * Page] = 0
        <5>1. End - e * Page \in 0..len - FirstSize /\ WalkEnd - (End - e * Page) = Top * Page
          BY <1>1, <1>2, <2>2, <2>9, <3>3
        <5>2. ~Exists(Top * Page)
          BY Strides, Times DEF Exists
        <5> QED BY <2>3, <5>1, <5>2, CountRestIs DEF CountBody
      <4> QED BY <2>6, <2>7, <2>8, <2>9, <3>1, <3>3, <4>1 DEF Part
    <3> QED BY <3>2, <3>3
  <2>10. CASE ~(e * Page < End)
    <3>1. Counts[e] = 0
      BY <1>2, <1>3, <2>1, <2>2, <2>10
    <3> QED BY <2>6, <2>7, <2>8, <2>10, <3>1 DEF Part, left
  <2> QED BY <2>9, <2>10
<1>6. CountsFrom(mem, b, Counts)
  BY <1>3, <1>5 DEF CountsFrom
<1>7. b * Page < End <=> FirstSize < len
  BY <1>2
<1>8. FirstSize < len => Counts[b] = CountRest[len - FirstSize]
  <2> SUFFICES ASSUME FirstSize < len PROVE Counts[b] = CountRest[len - FirstSize]
    OBVIOUS
  <2>1. CASE b # Top
    BY <1>1, <1>2, <1>4, <1>7, <2>1
  <2>2. CASE b = Top
    <3>1. len - FirstSize \in 0..len - FirstSize /\ WalkEnd - (len - FirstSize) = Top * Page
      BY <1>1, <1>2, <2>2
    <3>2. ~Exists(Top * Page)
      BY Strides, Times DEF Exists
    <3>3. CountRest[len - FirstSize] = 0
      BY <3>1, <3>2, CountRestIs DEF CountBody
    <3> QED BY <1>1, <1>2, <1>3, <2>2, <3>3
  <2> QED BY <2>1, <2>2
<1>9. EntryCount = IF b * Page < End THEN Ceil(Reach(b)) + Counts[b] ELSE Ceil(len)
  BY <1>1, <1>7, <1>8 DEF EntryCount
<1> QED BY <1>1, <1>6, <1>9 DEF CountedFor

\* ... and the second.
LEMMA FillIs ==
  ASSUME Arguments
  PROVE  FilledFor(mem, Filled)
<1>1. PICK b \in FirstPage + 1..Top :
        Ends(mem, FirstPage, b) /\ FirstSize = Reach(b) /\ WalkEnd = End
  BY FirstIs
<1>2. b \in Nat /\ Top \in Nat /\ FirstSize \in Int /\ End \in Int /\ len \in Nat
      /\ len - FirstSize = End - b * Page /\ b * Page \in Int
  BY <1>1, PlacesAreNumbers, Strides
<1> DEFINE Fills == [q \in b..Top |-> IF q = Top \/ q * Page >= End THEN <<>>
                                       ELSE FillRest[End - q * Page]]
<1>3. \A q \in b..Top : q = Top \/ q * Page >= End => Fills[q] = <<>>
  OBVIOUS
<1>4. \A q \in b..Top : ~(q = Top \/ q * Page >= End)
                          => Fills[q] = FillRest[End - q * Page]
  OBVIOUS
<1> HIDE DEF Fills
<1>5. ASSUME NEW q \in b..Top, NEW e \in q + 1..Top, q * Page < End,
             Ends(mem, q, e)
      PROVE  Fills[q] = RegionFill(mem, q, e) \o Fills[e]
  <2>1. /\ q \in Pages /\ q \in Int /\ e \in Int /\ e \in b..Top /\ q < e
        /\ q # Top /\ b <= q
    BY <1>1, <1>2, Strides DEF Pages, Ends
  <2>2. /\ q * Page \in Int /\ e * Page \in Int /\ q * Page < e * Page
        /\ b * Page <= q * Page
    BY <1>2, <2>1, Strides, Times
  <2> DEFINE left == End - q * Page
  <2>3. FirstSize < len /\ left \in 1..len - FirstSize /\ WalkEnd - left = q * Page
    BY <1>1, <1>2, <1>5, <2>2
  <2>4. Exists(q * Page)
    BY <2>1, PageStarts, Strides, Times DEF Exists
  <2>5. Query(q * Page) = [base |-> q * Page, size |-> e * Page - q * Page,
                           kind |-> mem[q]]
    BY <1>5, <2>1, QueryPage
  <2>6. Fills[q] = FillRest[left] /\ FillRest[left] = FillBody(FillRest, left)
    BY <1>2, <1>4, <1>5, <2>1, <2>2, <2>3, FillRestIs
  <2> HIDE DEF left
  <2>7. FillBody(FillRest, left)
          = (IF mem[q] \in {"free", "block", "table"} THEN <<>>
             ELSE IF e * Page - q * Page < left
                  THEN Chunks(q * Page, e * Page - q * Page, (e * Page - q * Page) % Stride)
                  ELSE Chunks(addr, left, (addr - q * Page + (e * Page - q * Page)) % Stride))
            \o (IF e * Page - q * Page < left THEN FillRest[left - (e * Page - q * Page)] ELSE <<>>)
    <3> DEFINE r == Query(q * Page)
    <3>1. r.size = e * Page - q * Page /\ r.base = q * Page /\ r.kind = mem[q]
      BY <2>5
    <3> HIDE DEF r
    <3>2. /\ Middle(r) = Chunks(q * Page, e * Page - q * Page,
                              (e * Page - q * Page) % Stride)
          /\ Last(r, left) = Chunks(addr, left,
                                 (addr - q * Page + (e * Page - q * Page)) % Stride)
      BY <3>1 DEF Middle, Last
    <3>3. left # 0 /\ Exists(WalkEnd - left) /\ Query(WalkEnd - left) = r
      BY <2>3, <2>4 DEF r
    <3>4. FillBody(FillRest, left)
            = (IF ~Committed(r) \/ r.kind \in {"block", "table"} THEN <<>>
               ELSE IF r.size < left THEN Middle(r) ELSE Last(r, left))
              \o (IF r.size < left THEN FillRest[left - r.size] ELSE <<>>)
      BY <3>3 DEF FillBody
    <3>5. ~Committed(r) \/ r.kind \in {"block", "table"}
            <=> mem[q] \in {"free", "block", "table"}
      BY <3>1 DEF Committed
    <3> QED BY <3>1, <3>2, <3>4, <3>5
  <2>8. /\ e * Page - q * Page < left <=> e * Page < End
        /\ left - (e * Page - q * Page) = End - e * Page
    BY <1>2, <2>2 DEF left
  <2>9. CASE e * Page < End
    <3>1. e # Top \/ Fills[e] = <<>>
      BY <1>3, <2>1
    <3>2. CASE e # Top
      <4>1. Fills[e] = FillRest[End - e * Page]
        BY <1>2, <1>4, <2>1, <2>2, <2>9, <3>2
      <4> QED BY <2>6, <2>7, <2>8, <2>9, <4>1 DEF RegionFill, left
    <3>3. CASE e = Top
      <4>1. FillRest[End - e * Page] = <<>>
        <5>1. End - e * Page \in 0..len - FirstSize /\ WalkEnd - (End - e * Page) = Top * Page
          BY <1>1, <1>2, <2>2, <2>9, <3>3
        <5>2. ~Exists(Top * Page)
          BY Strides, Times DEF Exists
        <5> QED BY <2>3, <5>1, <5>2, FillRestIs DEF FillBody
      <4> QED BY <2>6, <2>7, <2>8, <2>9, <3>1, <3>3, <4>1 DEF RegionFill, left
    <3> QED BY <3>2, <3>3
  <2>10. CASE ~(e * Page < End)
    <3>1. Fills[e] = <<>>
      BY <1>2, <1>3, <2>1, <2>2, <2>10
    <3> QED BY <2>6, <2>7, <2>8, <2>10, <3>1 DEF RegionFill, left
  <2> QED BY <2>9, <2>10
<1>6. FillsFrom(mem, b, Fills)
  BY <1>3, <1>5 DEF FillsFrom
<1>7. b * Page < End <=> FirstSize < len
  BY <1>2
<1>8. FirstSize < len => Fills[b] = FillRest[len - FirstSize]
  <2> SUFFICES ASSUME FirstSize < len PROVE Fills[b] = FillRest[len - FirstSize]
    OBVIOUS
  <2>1. CASE b # Top
    BY <1>1, <1>2, <1>4, <1>7, <2>1
  <2>2. CASE b = Top
    <3>1. len - FirstSize \in 0..len - FirstSize /\ WalkEnd - (len - FirstSize) = Top * Page
      BY <1>1, <1>2, <2>2
    <3>2. ~Exists(Top * Page)
      BY Strides, Times DEF Exists
    <3>3. FillRest[len - FirstSize] = <<>>
      BY <3>1, <3>2, FillRestIs DEF FillBody
    <3> QED BY <1>1, <1>2, <1>3, <2>2, <3>3
  <2> QED BY <2>1, <2>2
<1>9. Filled = IF b * Page < End
               THEN Chunks(addr, Reach(b), Reach(b) % Stride) \o Fills[b]
               ELSE Chunks(addr, len, Reach(b) % Stride)
  <2>1. Last(Query(addr), len) = Chunks(addr, len, FirstSize % Stride)
    BY DEF Last, FirstSize
  <2> QED BY <1>1, <1>7, <1>8, <2>1 DEF Filled
<1> QED BY <1>1, <1>6, <1>9 DEF FilledFor

-----------------------------------------------------------------------------
(* What the table says.                                                    *)

\* Induction from the end of memory.
LEMMA FromTheEnd ==
  ASSUME NEW b \in Nat, NEW Q,
         \A q \in b..Top : (\A e \in q + 1..Top : e \in Q) => q \in Q
  PROVE  b..Top \subseteq Q
<1> DEFINE S == {n \in Nat : \A q \in b..Top : Top - q <= n => q \in Q}
<1>1. Top \in Nat
  BY Strides
<1>2. 0 \in S
  <2>1. ASSUME NEW q \in b..Top, Top - q <= 0
        PROVE  q \in Q
    <3>1. q + 1..Top = {}
      BY <1>1, <2>1
    <3> QED BY <3>1
  <2> QED BY <2>1
<1>3. ASSUME NEW n \in Nat, n \in S
      PROVE  n + 1 \in S
  <2>1. ASSUME NEW q \in b..Top, Top - q <= n + 1
        PROVE  q \in Q
    <3>1. \A e \in q + 1..Top : e \in b..Top /\ Top - e <= n
      BY <1>1, <2>1
    <3> QED BY <1>3, <3>1
  <2> QED BY <2>1
<1>4. Nat \subseteq S
  <2> HIDE DEF S
  <2> QED BY <1>2, <1>3, Induction
<1>5. ASSUME NEW q \in b..Top
      PROVE  q \in Q
  <2>1. Top - q \in Nat /\ Top - q \in S
    BY <1>1, <1>4
  <2> QED BY <1>1, <2>1
<1> QED BY <1>5

LEMMA Remainder ==
  ASSUME NEW x \in Int
  PROVE  x % Stride \in 0..Stride - 1
<1>1. Stride \in Nat /\ Stride > 0
  BY Strides
<1> QED BY <1>1, SMT

\* What an entry may be.
EntrySet == [at: addr..addr + len - 1, bytes: 0..Stride]

LEMMA ChunksInRange ==
  ASSUME Arguments, NEW a \in Int, NEW n \in Nat, NEW x \in Int, addr <= a,
         a + n <= addr + len
  PROVE  /\ Chunks(a, n, x % Stride) \in Seq(EntrySet)
         /\ Len(Chunks(a, n, x % Stride)) = Ceil(n)
<1>1. addr \in Int /\ len \in Int
  BY PlacesAreNumbers
<1>2. [at: a..a + n - 1, bytes: 0..Stride] \subseteq EntrySet
  <2>1. a..a + n - 1 \subseteq addr..addr + len - 1
    BY <1>1
  <2> QED BY <2>1 DEF EntrySet
<1>3. x % Stride \in 0..Stride - 1
  BY Remainder
<1> QED BY <1>2, <1>3, ChunksAre, SeqMonotonic

\* The pages after that of addr.
LEMMA LaterPages ==
  ASSUME Arguments, NEW q \in FirstPage + 1..Top
  PROVE  /\ q \in Int /\ q * Page \in Int /\ addr < q * Page
         /\ Reach(q) \in Nat /\ Reach(q) > 0
<1>1. q \in Int /\ FirstPage \in Int
  BY PlacesAreNumbers, Strides
<1> DEFINE b == FirstPage * Page
           x == q * Page
<1>2. (FirstPage + 1) * Page <= x /\ x \in Int
      /\ (FirstPage + 1) * Page = b + 1 * Page /\ 1 * Page = Page
  BY <1>1, Strides, Times
<1>3. Reach(q) = addr - 2 * b + x
  BY DEF Reach
<1>4. b \in Nat /\ addr - b \in 0..Page - 1 /\ addr \in Nat
  BY PlacesAreNumbers
<1> HIDE DEF b, x
<1>5. addr < x /\ Reach(q) \in Nat /\ Reach(q) > 0
  BY <1>2, <1>3, <1>4, Strides
<1> QED BY <1>1, <1>2, <1>5 DEF x

LEMMA RegionFillIs ==
  ASSUME Arguments, NEW M, NEW q \in FirstPage + 1..Top, NEW e \in q + 1..Top,
         q * Page < End
  PROVE  /\ RegionFill(M, q, e) \in Seq(EntrySet)
         /\ M[q] \notin {"free", "block", "table"}
              => Len(RegionFill(M, q, e)) = Ceil(Part(q, e))
         /\ M[q] \in {"free", "block", "table"} => Len(RegionFill(M, q, e)) = 0
         /\ Part(q, e) \in Nat
<1>1. /\ q \in Int /\ e \in Int /\ q < e /\ q * Page \in Int /\ e * Page \in Int
      /\ q * Page < e * Page /\ addr < q * Page /\ addr \in Nat /\ len \in Nat
      /\ End \in Int /\ End <= addr + len
  BY LaterPages, PlacesAreNumbers, Strides
<1>2. CASE M[q] \in {"free", "block", "table"}
  <2>1. RegionFill(M, q, e) = <<>>
    BY <1>2 DEF RegionFill
  <2> QED BY <1>1, <1>2, <2>1 DEF Part
<1>3. CASE M[q] \notin {"free", "block", "table"} /\ e * Page < End
  <2>1. RegionFill(M, q, e) = Chunks(q * Page, Part(q, e), Part(q, e) % Stride)
    BY <1>3 DEF RegionFill, Part
  <2>2. Part(q, e) \in Nat /\ q * Page + Part(q, e) <= addr + len
    BY <1>1, <1>3 DEF Part
  <2>3. addr <= q * Page
    BY <1>1
  <2> DEFINE n == Part(q, e)
             a == q * Page
  <2> HIDE DEF n, a
  <2>4. Chunks(a, n, n % Stride) \in Seq(EntrySet) /\ Len(Chunks(a, n, n % Stride)) = Ceil(n)
    <3>1. a \in Int /\ n \in Nat /\ n \in Int /\ addr <= a /\ a + n <= addr + len
      BY <1>1, <2>2, <2>3 DEF a, n
    <3> QED BY <3>1, ChunksInRange
  <2> QED BY <1>3, <2>1, <2>2, <2>4 DEF a, n
<1>4. CASE M[q] \notin {"free", "block", "table"} /\ ~(e * Page < End)
  <2> DEFINE x == addr - q * Page + (e * Page - q * Page)
  <2>1. RegionFill(M, q, e) = Chunks(addr, Part(q, e), x % Stride)
    BY <1>4 DEF RegionFill, Part
  <2>2. Part(q, e) \in Nat /\ addr + Part(q, e) <= addr + len /\ x \in Int
    BY <1>1, <1>4 DEF Part
  <2> DEFINE n == Part(q, e)
  <2> HIDE DEF x, n
  <2>3. Chunks(addr, n, x % Stride) \in Seq(EntrySet) /\ Len(Chunks(addr, n, x % Stride)) = Ceil(n)
    <3>1. n \in Nat /\ x \in Int /\ addr \in Int /\ addr <= addr /\ addr + n <= addr + len
      BY <1>1, <2>2 DEF n
    <3> QED BY <3>1, ChunksInRange
  <2> QED BY <1>4, <2>1, <2>2, <2>3 DEF n
<1> QED BY <1>2, <1>3, <1>4

LEMMA FillsAre ==
  ASSUME Arguments, NEW M, NEW b \in FirstPage + 1..Top, NEW Fills,
         FillsFrom(M, b, Fills)
  PROVE  \A q \in b..Top : Fills[q] \in Seq(EntrySet)
<1> DEFINE Q == {q \in b..Top : Fills[q] \in Seq(EntrySet)}
<1>1. b \in Nat /\ FirstPage \in Nat /\ Top \in Nat
  BY PlacesAreNumbers, Strides
<1>2. ASSUME NEW q \in b..Top, \A e \in q + 1..Top : e \in Q
      PROVE  q \in Q
  <2>1. CASE q = Top \/ q * Page >= End
    <3>1. Fills[q] = <<>>
      BY <2>1 DEF FillsFrom
    <3> QED BY <3>1, EmptySeq
  <2>2. CASE ~(q = Top \/ q * Page >= End)
    <3>1. q \in FirstPage + 1..Top /\ q \in Pages
      BY <1>1, <2>2 DEF Pages
    <3>2. q * Page < End
      BY <2>2, <3>1, LaterPages, PlacesAreNumbers
    <3>3. PICK e \in q + 1..Top : Ends(M, q, e)
      BY <3>1, RegionEnds
    <3>4. Fills[q] = RegionFill(M, q, e) \o Fills[e]
      BY <3>2, <3>3 DEF FillsFrom
    <3>5. RegionFill(M, q, e) \in Seq(EntrySet) /\ Fills[e] \in Seq(EntrySet)
      BY <1>2, <3>1, <3>2, <3>3, RegionFillIs
    <3> QED BY <3>4, <3>5, ConcatProperties
  <2> QED BY <2>1, <2>2
<1> HIDE DEF Q
<1>3. b..Top \subseteq Q
  BY <1>1, <1>2, FromTheEnd
<1> QED BY <1>3 DEF Q

\* Every entry of the table is within the range and at most a stride long.
LEMMA TableIsTyped ==
  ASSUME Arguments, NEW M, NEW s, FilledFor(M, s)
  PROVE  s \in Seq(EntrySet) /\ (len > 0 => s # <<>>)
<1>1. PICK Fills, e :
        /\ e \in FirstPage + 1..Top /\ Ends(M, FirstPage, e)
        /\ FillsFrom(M, e, Fills)
        /\ s = IF e * Page < End
               THEN Chunks(addr, Reach(e), Reach(e) % Stride) \o Fills[e]
               ELSE Chunks(addr, len, Reach(e) % Stride)
  BY DEF FilledFor
<1>2. /\ addr \in Nat /\ len \in Nat /\ Reach(e) \in Nat /\ Reach(e) > 0
      /\ e \in Int /\ len - Reach(e) = End - e * Page /\ End \in Int
      /\ e * Page \in Int /\ e \in e..Top
  BY <1>1, PlacesAreNumbers, LaterPages, Strides
<1>3. CASE e * Page < End
  <2> DEFINE t == Chunks(addr, Reach(e), Reach(e) % Stride)
  <2>1. s = t \o Fills[e]
    BY <1>1, <1>3
  <2>2. t \in Seq(EntrySet) /\ Len(t) = Ceil(Reach(e))
    BY <1>2, <1>3, ChunksInRange
  <2>3. Fills[e] \in Seq(EntrySet)
    BY <1>1, <1>2, FillsAre
  <2>4. Ceil(Reach(e)) > 0 /\ Ceil(Reach(e)) \in Nat
    BY <1>2, CeilCovers
  <2> HIDE DEF t
  <2>5. s \in Seq(EntrySet) /\ Len(s) = Len(t) + Len(Fills[e])
    BY <2>1, <2>2, <2>3, ConcatProperties
  <2>6. Len(Fills[e]) \in Nat
    BY <2>3, LenProperties
  <2>7. Len(s) # 0
    BY <2>2, <2>4, <2>5, <2>6
  <2> QED BY <2>5, <2>7
<1>4. CASE ~(e * Page < End)
  <2>1. s = Chunks(addr, len, Reach(e) % Stride)
    BY <1>1, <1>4
  <2>2. s \in Seq(EntrySet) /\ Len(s) = Ceil(len)
    BY <1>2, <2>1, ChunksInRange
  <2>3. len > 0 => Len(s) # 0
    BY <1>2, <2>2, CeilCovers
  <2> QED BY <2>2, <2>3
<1> QED BY <1>3, <1>4

-----------------------------------------------------------------------------
(* The table fits.                                                         *)

\* A memory before madvise has mapped its two blocks.
Freed(M) == [p \in Pages |-> IF M[p] \in {"block", "table"} THEN "free" ELSE M[p]]

\* Blocks split free regions only.
LEMMA RegionsSplit ==
  ASSUME NEW M \in Memory, NEW p \in Pages, NEW d, NEW e,
         Ends(Freed(M), p, d), Ends(M, p, e)
  PROVE  /\ Freed(M)[p] # "free" => d = e /\ M[p] \notin {"free", "block", "table"}
                                    /\ Freed(M)[p] = M[p]
         /\ Freed(M)[p] = "free" =>
              /\ e <= d /\ M[p] \in {"free", "block", "table"}
              /\ \A q \in p..d - 1 : Freed(M)[q] = "free" /\ Ends(Freed(M), q, d)
<1> DEFINE F == Freed(M)
<1>1. /\ p \in Nat /\ Top \in Nat /\ d \in p + 1..Top /\ e \in p + 1..Top
      /\ \A q \in p..d - 1 : F[q] = F[p] /\ q \in Pages
      /\ \A q \in p..e - 1 : M[q] = M[p] /\ q \in Pages
      /\ d = Top \/ F[d] # F[p]
      /\ e = Top \/ M[e] # M[p]
      /\ d # Top => d \in Pages
      /\ e # Top => e \in Pages
  BY Strides DEF Pages, Ends
<1>2. \A q \in Pages : F[q] = IF M[q] \in {"block", "table"} THEN "free" ELSE M[q]
  BY DEF Freed
<1> HIDE DEF F
<1>3. ASSUME F[p] # "free"
      PROVE  d = e /\ M[p] \notin {"free", "block", "table"} /\ F[p] = M[p]
  <2>1. F[p] = M[p] /\ M[p] \notin {"free", "block", "table"}
    BY <1>2, <1>3
  <2>2. ~(d < e)
    BY <1>1, <1>2, <2>1
  <2>3. ~(e < d)
    BY <1>1, <1>2, <2>1
  <2> QED BY <1>1, <2>1, <2>2, <2>3
<1>4. ASSUME F[p] = "free"
      PROVE  /\ e <= d /\ M[p] \in {"free", "block", "table"}
             /\ \A q \in p..d - 1 : F[q] = "free" /\ Ends(F, q, d)
  <2>1. M[p] \in {"free", "block", "table"}
    BY <1>2, <1>4
  <2>2. ~(d < e)
    BY <1>1, <1>2, <1>4, <2>1
  <2>3. ASSUME NEW q \in p..d - 1
        PROVE  F[q] = "free" /\ Ends(F, q, d)
    <3>1. q \in Int /\ p <= q /\ q < d /\ \A r \in q..d - 1 : r \in p..d - 1
      BY <1>1
    <3> QED BY <1>1, <1>4, <3>1 DEF Ends
  <2> QED BY <1>1, <2>1, <2>2, <2>3
<1> QED BY <1>3, <1>4 DEF F

\* Region by region, the second walk writes no more than the first has counted
\* without the two blocks.
LEMMA FillsFitCounts ==
  ASSUME Arguments, NEW M \in Memory, NEW b \in FirstPage + 1..Top,
         NEW Fills, NEW Counts, NEW a \in b..Top,
         FillsFrom(M, b, Fills), CountsFrom(Freed(M), a, Counts)
  PROVE  \A q \in a..Top : Counts[q] \in Nat /\ Len(Fills[q]) <= Counts[q]
<1> DEFINE F == Freed(M)
           Q == {q \in a..Top : Counts[q] \in Nat /\ Len(Fills[q]) <= Counts[q]}
<1>1. b \in Nat /\ a \in Nat /\ FirstPage \in Nat /\ Top \in Nat /\ b <= a /\ End \in Int
  BY PlacesAreNumbers, Strides
<1>2. ASSUME NEW q \in a..Top, \A e \in q + 1..Top : e \in Q
      PROVE  Counts[q] \in Nat /\ Len(Fills[q]) <= Counts[q]
  <2>0. q \in b..Top /\ q \in FirstPage + 1..Top
    BY <1>1
  <2>1. CASE q = Top \/ q * Page >= End
    <3>1. Fills[q] = <<>> /\ Counts[q] = 0
      BY <2>0, <2>1 DEF FillsFrom, CountsFrom
    <3> QED BY <3>1, EmptySeq
  <2>2. CASE ~(q = Top \/ q * Page >= End)
    <3>1. q \in Pages /\ q * Page < End
      <4>1. q * Page \in Int
        BY <2>0, LaterPages
      <4> QED BY <1>1, <2>0, <2>2, <4>1 DEF Pages
    <3>2. PICK e \in q + 1..Top : Ends(M, q, e)
      BY <3>1, RegionEnds
    <3>3. PICK d \in q + 1..Top : Ends(F, q, d)
      BY <3>1, RegionEnds
    <3>4. Fills[q] = RegionFill(M, q, e) \o Fills[e]
      BY <2>0, <3>1, <3>2 DEF FillsFrom
    <3>5. Counts[q] = (IF F[q] = "free" THEN 0 ELSE Ceil(Part(q, d))) + Counts[d]
      BY <3>1, <3>3 DEF CountsFrom
    <3>6. /\ e \in b..Top /\ e \in a..Top /\ d \in a..Top /\ e \in Nat /\ d \in Nat
          /\ Counts[d] \in Nat /\ Counts[e] \in Nat /\ Len(Fills[e]) <= Counts[e]
          /\ Len(Fills[d]) <= Counts[d]
      BY <1>1, <1>2, <3>2, <3>3
    <3>7. RegionFill(M, q, e) \in Seq(EntrySet) /\ Fills[e] \in Seq(EntrySet)
      BY <2>0, <3>1, <3>2, <3>6, RegionFillIs, FillsAre
    <3>8. Len(Fills[q]) = Len(RegionFill(M, q, e)) + Len(Fills[e]) /\ Len(Fills[e]) \in Nat
      BY <3>4, <3>7, ConcatProperties, LenProperties
    <3>9. CASE F[q] # "free"
      <4>1. d = e /\ M[q] \notin {"free", "block", "table"}
        BY <3>1, <3>2, <3>3, <3>9, RegionsSplit
      <4>2. Len(RegionFill(M, q, e)) = Ceil(Part(q, e)) /\ Ceil(Part(q, e)) \in Nat
        BY <2>0, <3>1, <3>2, <4>1, RegionFillIs, CeilCovers
      <4> QED BY <3>5, <3>6, <3>8, <3>9, <4>1, <4>2
    <3>10. CASE F[q] = "free"
      <4>1. /\ e <= d /\ M[q] \in {"free", "block", "table"}
            /\ \A r \in q..d - 1 : F[r] = "free" /\ Ends(F, r, d)
        BY <3>1, <3>2, <3>3, <3>10, RegionsSplit
      <4>2. Len(Fills[q]) = Len(Fills[e])
        BY <2>0, <3>1, <3>2, <3>8, <4>1, RegionFillIs
      <4>3. Counts[q] = Counts[d]
        BY <3>5, <3>6, <3>10
      <4>4. CASE e = d
        BY <3>6, <4>2, <4>3, <4>4
      <4>5. CASE e # d /\ e * Page < End
        <5>1. e \in q..d - 1 /\ d \in e + 1..Top
          BY <1>1, <3>2, <3>3, <3>6, <4>1, <4>5
        <5>2. Counts[e] = 0 + Counts[d]
          BY <3>6, <4>1, <4>5, <5>1 DEF CountsFrom
        <5> QED BY <3>6, <4>2, <4>3, <5>2
      <4>6. CASE e # d /\ ~(e * Page < End)
        <5>1. e * Page >= End
          BY <1>1, <3>6, <4>6, LaterPages
        <5>2. Fills[e] = <<>>
          BY <3>6, <5>1 DEF FillsFrom
        <5> QED BY <3>6, <4>2, <4>3, <5>2, EmptySeq
      <4> QED BY <4>4, <4>5, <4>6
    <3> QED BY <3>9, <3>10
  <2> QED BY <2>1, <2>2
<1>3. \A q \in a..Top : (\A e \in q + 1..Top : e \in Q) => q \in Q
  BY <1>2
<1> HIDE DEF Q
<1>4. a..Top \subseteq Q
  BY <1>1, <1>3, FromTheEnd
<1> QED BY <1>4 DEF Q

\* In a free region the second walk writes nothing.
LEMMA FreeFillsNothing ==
  ASSUME Arguments, NEW M \in Memory, NEW b \in FirstPage + 1..Top,
         NEW Fills, NEW a \in b..Top, FillsFrom(M, b, Fills),
         Ends(Freed(M), FirstPage, a), Freed(M)[FirstPage] = "free",
         NEW n \in Nat, Len(Fills[a]) <= n
  PROVE  \A q \in b..a : Len(Fills[q]) <= n
<1> DEFINE F == Freed(M)
           Q == {q \in b..Top : q <= a => Len(Fills[q]) <= n}
<1>0. FirstPage \in Nat /\ Top \in Nat /\ End \in Int
  BY PlacesAreNumbers, Strides
<1>1. b \in Nat /\ a \in Nat /\ FirstPage \in Nat /\ Top \in Nat /\ b <= a /\ End \in Int
  BY <1>0
<1>2. ASSUME NEW q \in b..Top, \A e \in q + 1..Top : e \in Q, q < a
      PROVE  Len(Fills[q]) <= n
  <2>0. q \in Pages /\ q \in FirstPage + 1..Top /\ q \in FirstPage..a - 1
    BY <1>1, <1>2 DEF Pages
  <2>1. CASE q * Page >= End
    <3>1. Fills[q] = <<>>
      BY <2>1 DEF FillsFrom
    <3> QED BY <3>1, EmptySeq
  <2>2. CASE ~(q * Page >= End)
    <3>1. q * Page < End
      BY <1>1, <2>0, <2>2, LaterPages
    <3>2. PICK e \in q + 1..Top : Ends(M, q, e)
      BY <2>0, RegionEnds
    <3>3. Fills[q] = RegionFill(M, q, e) \o Fills[e]
      BY <3>1, <3>2 DEF FillsFrom
    <3>4. F[q] = "free" /\ Ends(F, q, a)
      <4>1. FirstPage \in Pages
        BY PlacesAreNumbers
      <4>2. PICK e1 \in FirstPage + 1..Top : Ends(M, FirstPage, e1)
        BY <4>1, RegionEnds
      <4> QED BY <2>0, <4>1, <4>2, RegionsSplit
    <3>5. e <= a /\ M[q] \in {"free", "block", "table"}
      BY <2>0, <3>2, <3>4, RegionsSplit
    <3>6. e \in b..Top /\ e \in Nat
      BY <1>1, <3>2
    <3>7. RegionFill(M, q, e) \in Seq(EntrySet) /\ Fills[e] \in Seq(EntrySet)
          /\ Len(RegionFill(M, q, e)) = 0
      BY <2>0, <3>1, <3>2, <3>5, <3>6, RegionFillIs, FillsAre
    <3>8. Len(Fills[q]) = Len(RegionFill(M, q, e)) + Len(Fills[e]) /\ Len(Fills[e]) \in Nat
      BY <3>3, <3>7, ConcatProperties, LenProperties
    <3>9. Len(Fills[e]) <= n
      BY <1>2, <3>2, <3>5
    <3> QED BY <3>7, <3>8, <3>9
  <2> QED BY <2>1, <2>2
<1>3. \A q \in b..Top : (\A e \in q + 1..Top : e \in Q) => q \in Q
  <2> SUFFICES ASSUME NEW q \in b..Top, \A e \in q + 1..Top : e \in Q, q <= a
               PROVE  Len(Fills[q]) <= n
    OBVIOUS
  <2>1. q = a \/ q < a
    BY <1>1
  <2> QED BY <1>2, <2>1
<1> HIDE DEF Q
<1>4. b..Top \subseteq Q
  BY <1>1, <1>3, FromTheEnd
<1>5. \A q \in b..a : q \in b..Top /\ q <= a
  BY <1>1
<1> QED BY <1>4, <1>5 DEF Q

\* Hence the whole table is no longer than counted, first region included.
LEMMA FillFits ==
  ASSUME Arguments, NEW M \in Memory, NEW s, NEW n,
         FilledFor(M, s), CountedFor(Freed(M), n)
  PROVE  Len(s) <= n
<1> DEFINE F == Freed(M)
<1>1. PICK Fills, e :
        /\ e \in FirstPage + 1..Top /\ Ends(M, FirstPage, e)
        /\ FillsFrom(M, e, Fills)
        /\ s = IF e * Page < End
               THEN Chunks(addr, Reach(e), Reach(e) % Stride) \o Fills[e]
               ELSE Chunks(addr, len, Reach(e) % Stride)
  BY DEF FilledFor
<1>2. PICK Counts, d :
        /\ d \in FirstPage + 1..Top /\ Ends(F, FirstPage, d)
        /\ CountsFrom(F, d, Counts)
        /\ n = IF d * Page < End THEN Ceil(Reach(d)) + Counts[d] ELSE Ceil(len)
  BY DEF CountedFor
<1> HIDE DEF F
<1>0. /\ FirstPage \in Pages /\ addr \in Nat /\ len \in Nat /\ End \in Int
      /\ FirstPage \in Nat /\ Top \in Nat
  BY PlacesAreNumbers, Strides
<1>3. /\ FirstPage \in Pages /\ addr \in Nat /\ len \in Nat /\ End \in Int
      /\ e \in Nat /\ d \in Nat /\ Top \in Nat /\ d <= Top
  BY <1>0, <1>1, <1>2
<1>4. e <= d /\ (e # d => F[FirstPage] = "free")
  <2>1. Ends(F, FirstPage, d) /\ Ends(M, FirstPage, e) /\ FirstPage \in Pages
    BY <1>1, <1>2, <1>3
  <2>2. F[FirstPage] # "free" => d = e
    BY <2>1, RegionsSplit DEF F
  <2>3. F[FirstPage] = "free" => e <= d
    BY <2>1, RegionsSplit DEF F
  <2> QED BY <1>3, <2>2, <2>3
<1>5. d \in e..Top /\ e \in e..d /\ d \in d..Top /\ e \in e..Top
  BY <1>3, <1>4
<1>6. Counts[d] \in Nat /\ Len(Fills[d]) <= Counts[d]
  BY <1>1, <1>2, <1>5, FillsFitCounts DEF F
<1>7. Fills[e] \in Seq(EntrySet) /\ Len(Fills[e]) \in Nat
  BY <1>1, <1>5, FillsAre, LenProperties
<1>8. Len(Fills[e]) <= Counts[d]
  <2>1. CASE e = d
    BY <1>6, <2>1
  <2>2. CASE e # d
    BY <1>1, <1>2, <1>4, <1>5, <1>6, <2>2, FreeFillsNothing DEF F
  <2> QED BY <2>1, <2>2
<1>9. /\ Reach(e) \in Nat /\ Reach(d) \in Nat
      /\ e * Page \in Int /\ d * Page \in Int
      /\ len - Reach(e) = End - e * Page /\ len - Reach(d) = End - d * Page
      /\ e * Page <= d * Page
  BY <1>1, <1>2, <1>3, <1>4, LaterPages, PlacesAreNumbers, Strides, Times
<1>10. Ceil(Reach(e)) \in Nat /\ Ceil(Reach(d)) \in Nat /\ Ceil(len) \in Nat
  BY <1>3, <1>9, CeilCovers
<1>11. CASE e * Page < End
  <2> DEFINE t == Chunks(addr, Reach(e), Reach(e) % Stride)
  <2>1. s = t \o Fills[e]
    BY <1>1, <1>11
  <2>2. t \in Seq(EntrySet) /\ Len(t) = Ceil(Reach(e))
    BY <1>3, <1>9, <1>11, ChunksInRange
  <2> HIDE DEF t
  <2>3. Len(s) = Ceil(Reach(e)) + Len(Fills[e])
    <3>1. Len(t \o Fills[e]) = Len(t) + Len(Fills[e])
      BY <1>7, <2>2, ConcatProperties
    <3> QED BY <2>1, <2>2, <3>1
  <2>4. CASE d * Page < End
    <3>1. Ceil(Reach(e)) <= Ceil(Reach(d))
      BY <1>3, <1>9, CeilGrows
    <3> QED BY <1>2, <1>6, <1>7, <1>8, <1>10, <2>3, <2>4, <3>1
  <2>5. CASE ~(d * Page < End)
    <3>1. Ceil(Reach(e)) <= Ceil(len)
      BY <1>3, <1>9, <1>11, CeilGrows
    <3>2. Counts[d] = 0
      <4>1. d * Page >= End
        BY <1>3, <1>9, <2>5
      <4> QED BY <1>2, <1>5, <4>1 DEF CountsFrom
    <3> QED BY <1>2, <1>7, <1>8, <1>10, <2>3, <2>5, <3>1, <3>2
  <2> QED BY <2>4, <2>5
<1>12. CASE ~(e * Page < End)
  <2>1. s = Chunks(addr, len, Reach(e) % Stride)
    BY <1>1, <1>12
  <2>2. Len(s) = Ceil(len)
    BY <1>3, <1>9, <2>1, ChunksInRange
  <2>3. ~(d * Page < End)
    BY <1>3, <1>9, <1>12
  <2> QED BY <1>2, <1>10, <2>2, <2>3
<1> QED BY <1>11, <1>12

-----------------------------------------------------------------------------
(* The table covers.                                                       *)

\* A region ends where any page of it does.
LEMMA InnerEnd ==
  ASSUME NEW M, NEW p \in Pages, NEW e, Ends(M, p, e), NEW q \in p..e - 1
  PROVE  q \in Pages /\ Ends(M, q, e) /\ M[q] = M[p]
<1>1. p \in Nat /\ Top \in Nat /\ e \in p + 1..Top
      /\ \A r \in p..e - 1 : M[r] = M[p]
      /\ (e = Top \/ M[e] # M[p])
  BY Strides DEF Pages, Ends
<1>2. q \in Int /\ p <= q /\ q < e /\ \A r \in q..e - 1 : r \in p..e - 1
  BY <1>1
<1> QED BY <1>1, <1>2 DEF Ends, Pages

\* The second walk covers the committed bytes of every region that ends before
\* the range does.
LEMMA WalkCovers ==
  ASSUME Arguments, NEW M, NEW b \in FirstPage + 1..Top, NEW Fills,
         FillsFrom(M, b, Fills),
         NEW v \in b..Top, NEW e, v \in Pages, Ends(M, v, e), e * Page < End,
         M[v] \notin {"free", "block", "table"},
         NEW u \in v * Page..e * Page - 1
  PROVE  \A q \in b..v : Covers(Fills[q], u)
<1> DEFINE Q == {q \in b..Top : q <= v => Covers(Fills[q], u)}
<1>0. FirstPage \in Nat /\ Top \in Nat /\ End \in Int
  BY PlacesAreNumbers, Strides
<1>1. /\ b \in Nat /\ v \in Nat /\ b <= v /\ e \in v + 1..Top /\ e \in Nat
      /\ v * Page \in Int /\ e * Page \in Int
  <2>1. b \in Nat /\ v \in Nat /\ b <= v /\ e \in v + 1..Top
    BY <1>0 DEF Ends
  <2> QED BY <1>0, <2>1, Strides, Times
<1>2. ASSUME NEW q \in b..Top, \A f \in q + 1..Top : f \in Q, q <= v
      PROVE  Covers(Fills[q], u)
  <2>1. q \in FirstPage + 1..Top /\ q \in Pages /\ q \in Int
    BY <1>0, <1>1, <1>2 DEF Pages
  <2>2. q * Page \in Int /\ q * Page <= v * Page /\ v * Page < e * Page
    BY <1>1, <1>2, <2>1, Strides, Times
  <2>3. q * Page < End
    BY <1>0, <1>1, <2>2
  <2>4. PICK f \in q + 1..Top : Ends(M, q, f)
    BY <2>1, RegionEnds
  <2>5. Fills[q] = RegionFill(M, q, f) \o Fills[f]
    BY <2>3, <2>4 DEF FillsFrom
  <2>6. f \in b..Top /\ f \in Int
    BY <1>0, <1>1, <2>4
  <2>7. RegionFill(M, q, f) \in Seq(EntrySet) /\ Fills[f] \in Seq(EntrySet)
    BY <2>1, <2>3, <2>4, <2>6, RegionFillIs, FillsAre
  <2>8. CASE f <= v
    <3>1. Covers(Fills[f], u)
      BY <1>2, <2>4, <2>8
    <3> QED BY <2>5, <2>7, <3>1, JoinCovers
  <2>9. CASE v < f
    <3>1. v \in q..f - 1
      BY <1>1, <1>2, <2>1, <2>6, <2>9
    <3>2. Ends(M, v, f) /\ M[v] = M[q]
      BY <2>1, <2>4, <3>1, InnerEnd
    <3>3. f = e
      BY <3>2, OneEnd
    <3>4. RegionFill(M, q, f) = Chunks(q * Page, e * Page - q * Page,
                                       (e * Page - q * Page) % Stride)
      BY <3>2, <3>3 DEF RegionFill
    <3> DEFINE x == q * Page
               y == e * Page
    <3>5. x \in Int /\ y - x \in Nat /\ u \in x..x + (y - x) - 1
      <4>1. x \in Int /\ y \in Int /\ x <= v * Page /\ v * Page < y /\ v * Page \in Int
        BY <1>1, <2>2
      <4> HIDE DEF x, y
      <4>2. u \in Int /\ v * Page <= u /\ u <= y - 1
        BY <4>1 DEF y
      <4> QED BY <4>1, <4>2
    <3> HIDE DEF x, y
    <3>6. Covers(Chunks(x, y - x, (y - x) % Stride), u)
      BY <3>5, ChunksCover
    <3>7. Covers(RegionFill(M, q, f), u)
      BY <3>4, <3>6 DEF x, y
    <3> QED BY <2>5, <2>7, <3>7, JoinCovers
  <2> QED BY <1>1, <2>6, <2>8, <2>9
<1>3. \A q \in b..Top : (\A f \in q + 1..Top : f \in Q) => q \in Q
  BY <1>2
<1> HIDE DEF Q
<1>4. b..Top \subseteq Q
  BY <1>1, <1>3, FromTheEnd
<1>5. \A q \in b..v : q \in b..Top /\ q <= v
  BY <1>0, <1>1
<1> QED BY <1>4, <1>5 DEF Q

\* And so does the table, if the range begins with a page.
LEMMA TableCovers ==
  ASSUME Arguments, NEW s, FilledFor(mem, s), addr % Page = 0, FirstSize < len,
         NEW u \in addr..addr + len - 1,
         Query(u).base + Query(u).size < addr + len,
         Query(u).kind \in {"a", "b", "c"}
  PROVE  Covers(s, u)
<1>1. PICK Fills, b :
        /\ b \in FirstPage + 1..Top /\ Ends(mem, FirstPage, b)
        /\ FillsFrom(mem, b, Fills)
        /\ s = IF b * Page < End
               THEN Chunks(addr, Reach(b), Reach(b) % Stride) \o Fills[b]
               ELSE Chunks(addr, len, Reach(b) % Stride)
  BY DEF FilledFor
<1>2. /\ FirstPage \in Pages /\ FirstPage \in Nat /\ Top \in Nat /\ addr \in Nat
      /\ len \in Nat /\ End \in Int /\ Top * Page \in Int
      /\ FirstPage * Page \in Nat
  BY PlacesAreNumbers, Strides, Times
<1>3. addr = FirstPage * Page /\ End = addr + len
  <2> DEFINE x == FirstPage * Page
  <2>1. addr \in 0..Top * Page - 1
    BY DEF Arguments
  <2>2. addr - x = 0
    BY <2>1, PageOf DEF FirstPage
  <2>3. End = 2 * x + len - addr /\ x \in Nat
    BY <1>2 DEF End
  <2> HIDE DEF x
  <2>4. addr = x /\ End = addr + len
    BY <1>2, <2>2, <2>3
  <2> QED BY <2>4 DEF x
<1>4. b \in Int /\ b * Page \in Int /\ Reach(b) \in Nat /\ Reach(b) = b * Page - addr
  <2>1. b \in Int /\ b * Page \in Int /\ Reach(b) \in Nat
    BY <1>1, LaterPages
  <2> DEFINE x == FirstPage * Page
             y == b * Page
  <2>2. Reach(b) = addr - 2 * x + y /\ addr = x
    BY <1>3 DEF Reach
  <2>3. y \in Int
    BY <2>1
  <2> HIDE DEF x, y
  <2>4. Reach(b) = y - addr
    BY <1>2, <2>2, <2>3
  <2> QED BY <2>1, <2>4 DEF y
<1>5. b * Page < End
  <2>1. FirstSize = Reach(b)
    BY <1>1, <1>2, FirstIs, OneEnd
  <2> QED BY <1>2, <1>3, <1>4, <2>1
<1>6. s = Chunks(addr, Reach(b), Reach(b) % Stride) \o Fills[b]
  BY <1>1, <1>5
<1>7. /\ Chunks(addr, Reach(b), Reach(b) % Stride) \in Seq(EntrySet)
      /\ Fills[b] \in Seq(EntrySet)
  <2>1. b \in b..Top
    BY <1>1, <1>2
  <2>2. addr + Reach(b) <= addr + len
    BY <1>2, <1>3, <1>4, <1>5
  <2>3. Reach(b) \in Nat /\ Reach(b) \in Int /\ addr \in Int /\ addr <= addr
    BY <1>2, <1>4
  <2>4. Chunks(addr, Reach(b), Reach(b) % Stride) \in Seq(EntrySet)
    BY <2>2, <2>3, ChunksInRange
  <2>5. Fills[b] \in Seq(EntrySet)
    BY <1>1, <2>1, FillsAre
  <2> QED BY <2>4, <2>5
<1> DEFINE v == u \div Page
<1>8. /\ u \in 0..Top * Page - 1 /\ u \in Nat
      /\ addr <= u
  BY <1>2 DEF Arguments
<1>9. v \in Pages /\ v * Page \in Nat /\ u - v * Page \in 0..Page - 1
  BY <1>8, PageOf
<1>10. PICK e \in v + 1..Top :
         /\ Ends(mem, v, e)
         /\ Query(u) = [base |-> v * Page, size |-> (e - v) * Page, kind |-> mem[v]]
  BY <1>8, QueryIs
<1> HIDE DEF v
<1>11. /\ v \in Nat /\ e \in Int /\ v < e /\ v < Top
       /\ (e - v) * Page = e * Page - v * Page /\ e * Page \in Int
       /\ (v + 1) * Page = v * Page + 1 * Page /\ 1 * Page = Page
       /\ (v + 1) * Page <= e * Page
  <2>1. v \in Nat /\ e \in Int /\ v < e /\ v < Top /\ v + 1 <= e
    BY <1>2, <1>9, <1>10 DEF Pages
  <2> QED BY <2>1, Strides, Times
<1>12. e * Page < End /\ mem[v] \notin {"free", "block", "table"}
  BY <1>2, <1>3, <1>9, <1>10, <1>11
<1>13. u \in v * Page..e * Page - 1
  <2> DEFINE x == v * Page
             y == e * Page
  <2>1. u - x \in 0..Page - 1 /\ x \in Nat /\ y \in Int /\ x + Page <= y
    BY <1>9, <1>11
  <2> HIDE DEF x, y
  <2>2. u \in x..y - 1
    BY <1>8, <2>1, Strides
  <2> QED BY <2>2 DEF x, y
<1>14. CASE v < b
  <2>2. u < b * Page
    <3>1. (v + 1) * Page <= b * Page
      <4>1. v + 1 <= b
        BY <1>4, <1>11, <1>14
      <4> QED BY <1>4, <1>11, <4>1, Strides, Times
    <3> DEFINE x == v * Page
               y == b * Page
    <3>2. u - x \in 0..Page - 1 /\ x \in Nat /\ y \in Int /\ x + Page <= y
      BY <1>4, <1>9, <1>11, <3>1
    <3> HIDE DEF x, y
    <3>3. u < y
      BY <1>8, <3>2, Strides
    <3> QED BY <3>3 DEF y
  <2>3. u \in addr..addr + Reach(b) - 1
    BY <1>2, <1>4, <1>8, <2>2
  <2>4. Covers(Chunks(addr, Reach(b), Reach(b) % Stride), u)
    BY <1>2, <1>4, <2>3, ChunksCover
  <2> QED BY <1>6, <1>7, <2>4, JoinCovers
<1>15. CASE ~(v < b)
  <2>1. v \in b..Top /\ b \in b..v
    BY <1>2, <1>4, <1>11, <1>15
  <2>2. Covers(Fills[b], u)
    BY <1>1, <1>9, <1>10, <1>12, <1>13, <2>1, WalkCovers
  <2> QED BY <1>6, <1>7, <2>2, JoinCovers
<1> QED BY <1>14, <1>15

\* Whatever the last entry is given, the others cover the whole strides.
LEMMA ChunksCoverStrides ==
  ASSUME NEW a \in Int, NEW n \in Nat, NEW last \in 0..Stride - 1,
         NEW u \in a..a + (n \div Stride) * Stride - 1
  PROVE  Covers(Chunks(a, n, last), u)
<1> DEFINE q == n \div Stride
           r == n % Stride
           s == Chunks(a, n, r)
           t == Chunks(a, n, last)
<1>1. /\ q \in Nat /\ r \in 0..Stride - 1 /\ n = q * Stride + r /\ q * Stride \in Int
      /\ Ceil(n) \in Nat
  BY CeilCovers, Strides, Times
<1>2. /\ DOMAIN s = 1..Ceil(n) /\ DOMAIN t = 1..Ceil(n)
      /\ \A k \in 1..Ceil(n) :
           /\ s[k] = [at |-> a + (k - 1) * Stride, bytes |-> IF k <= q THEN Stride ELSE r]
           /\ t[k] = [at |-> a + (k - 1) * Stride, bytes |-> IF k <= q THEN Stride ELSE last]
  BY DEF Chunks
<1> HIDE DEF q, r, s, t
<1>3. u \in a..a + n - 1
  BY <1>1 DEF q
<1>4. Covers(s, u)
  BY <1>3, ChunksCover DEF s, r
<1>5. PICK k \in 1..Ceil(n) : u \in s[k].at..s[k].at + s[k].bytes - 1
  BY <1>2, <1>4 DEF Covers
<1>6. k \in Int /\ (k - 1) * Stride \in Int
  BY <1>1, Strides, Times
<1>7. k <= q
  <2> SUFFICES ASSUME q <= k - 1 PROVE FALSE
    BY <1>1, <1>6
  <2>1. q * Stride <= (k - 1) * Stride
    BY <1>1, <1>6, Strides, Times
  <2>2. a + (k - 1) * Stride <= u
    BY <1>2, <1>5
  <2>3. u < a + q * Stride
    BY <1>1 DEF q
  <2> QED BY <1>1, <1>6, <2>1, <2>2, <2>3
<1>8. t[k] = s[k]
  BY <1>2, <1>7
<1> QED BY <1>2, <1>5, <1>8 DEF Covers, t

LEMMA OneRegionCovers ==
  ASSUME Arguments, NEW s, FilledFor(mem, s), FirstSize >= len,
         NEW u \in addr..addr + (len \div Stride) * Stride - 1
  PROVE  Covers(s, u)
<1>1. PICK Fills, b :
        /\ b \in FirstPage + 1..Top /\ Ends(mem, FirstPage, b)
        /\ s = IF b * Page < End
               THEN Chunks(addr, Reach(b), Reach(b) % Stride) \o Fills[b]
               ELSE Chunks(addr, len, Reach(b) % Stride)
  BY DEF FilledFor
<1>2. /\ FirstPage \in Pages /\ FirstPage \in Nat /\ Top \in Nat /\ addr \in Nat
      /\ len \in Nat /\ End \in Int /\ FirstPage * Page \in Nat
  BY PlacesAreNumbers, Strides, Times
<1>3. b \in Int /\ b * Page \in Int /\ Reach(b) \in Nat
  BY <1>1, LaterPages
<1>4. ~(b * Page < End)
  <2> DEFINE x == FirstPage * Page
             y == b * Page
  <2>1. FirstSize = Reach(b)
    BY <1>1, <1>2, FirstIs, OneEnd
  <2>2. Reach(b) = addr - 2 * x + y /\ End = 2 * x + len - addr /\ x \in Nat /\ y \in Int
    BY <1>2, <1>3 DEF Reach, End
  <2> HIDE DEF x
  <2> HIDE DEF y
  <2>3. ~(y < End)
    BY <1>2, <2>1, <2>2
  <2> QED BY <2>3 DEF y
<1>5. s = Chunks(addr, len, Reach(b) % Stride)
  BY <1>1, <1>4
<1>6. Reach(b) % Stride \in 0..Stride - 1
  BY <1>3, CeilCovers
<1> QED BY <1>2, <1>5, <1>6, ChunksCoverStrides

-----------------------------------------------------------------------------
(* The caller.                                                             *)

Early == {"count", "block", "table", "fill"}

\* What the table is at each place of the caller.  Until another thread changes
\* the memory the count is that of the memory without the two blocks.
TableInv ==
  /\ Arguments
  /\ pc \in Early \cup {"create", "returned"}
  /\ pc \in Early => entries = <<>>
  /\ pc = "count" => Freed(mem) = mem
  /\ pc \in {"block", "table", "fill"} /\ ~changed
       => CountedFor(Freed(mem), counted)
  /\ pc # "count" /\ len = 0 => counted = 0
  /\ pc \in {"fill", "create", "returned"} /\ len = 0 => table = "Null"
  /\ pc = "create" => FilledFor(mem, entries)
  /\ Ready => /\ entries \in Seq(EntrySet)
              /\ len > 0 => entries # <<>>
              /\ ~changed => Len(entries) <= counted

LEMMA TableInit == Init => TableInv
<1> SUFFICES ASSUME Init PROVE TableInv
  OBVIOUS
<1>1. mem \in [Pages -> PageKinds \ {"block", "table"}]
  BY ConstantsAssumption DEF Init
<1>2. mem \in Memory
  BY <1>1 DEF Memory
<1>3. Arguments
  BY <1>2, ConstantsAssumption DEF Init, Arguments
<1>4. Freed(mem) = mem
  BY <1>1 DEF Freed
<1> QED BY <1>3, <1>4 DEF Init, TableInv, Early, Ready

\* For an empty range nothing is counted.
LEMMA NothingCounted ==
  ASSUME Arguments, NEW M, NEW n, len = 0, CountedFor(M, n)
  PROVE  n = 0
<1>1. PICK e \in FirstPage + 1..Top :
        \E Counts : n = IF e * Page < End THEN Ceil(Reach(e)) + Counts[e] ELSE Ceil(len)
  BY DEF CountedFor
<1>2. addr < e * Page /\ e * Page \in Int
  BY <1>1, LaterPages
<1>3. End <= addr + len /\ End \in Int /\ addr \in Nat
  BY PlacesAreNumbers
<1>4. ~(e * Page < End)
  BY <1>2, <1>3
<1>5. Ceil(0) = 0
  BY CeilCovers
<1> QED BY <1>1, <1>4, <1>5

\* What madvise maps takes free pages.
LEMMA MmapFrees ==
  ASSUME mem \in Memory, NEW kind \in {"block", "table"}, NEW result,
         Mmap(kind, result)
  PROVE  mem' \in Memory /\ Freed(mem') = Freed(mem)
<1>1. CASE UNCHANGED mem
  BY <1>1
<1>2. CASE \E p \in Pages : mem[p] = "free" /\ mem' = [mem EXCEPT ![p] = kind]
  <2>1. PICK p \in Pages : mem[p] = "free" /\ mem' = [mem EXCEPT ![p] = kind]
    BY <1>2
  <2>2. mem' \in Memory
    BY <2>1 DEF Memory, PageKinds
  <2>3. \A q \in Pages : (IF mem'[q] \in {"block", "table"} THEN "free" ELSE mem'[q])
                       = (IF mem[q] \in {"block", "table"} THEN "free" ELSE mem[q])
    BY <2>1 DEF Memory
  <2> QED BY <2>2, <2>3 DEF Freed
<1> QED BY <1>1, <1>2 DEF Mmap

LEMMA WithoutIsMemory ==
  ASSUME mem \in Memory, NEW kinds
  PROVE  Without(kinds) \in Memory
BY DEF Without, Memory, PageKinds

\* What the steps of the caller and its thread do to the table.
LEMMA ArgumentsKept ==
  ASSUME Arguments, [Next]_vars
  PROVE  Arguments'
<1>1. addr' = addr /\ len' = len
  BY DEF Next, vars, caller, Count, MapBlock, MapTable, Fill, Create, CreateFails,
         OtherThread, madvise_PrefetchVirtualMemory, Starts, Prefetch, AllocateNames, OpenFile,
         GetBuffer, ReadEntry, Rename, ReadEnds, Unmap, Worker
<1>2. mem \in Memory
  BY DEF Arguments
<1>3. mem' \in Memory
  <2>1. CASE UNCHANGED mem
    BY <1>2, <2>1
  <2>2. CASE MapBlock \/ MapTable
    BY <1>2, <2>2, MmapFrees DEF MapBlock, MapTable
  <2>3. CASE CreateFails \/ Unmap
    BY <1>2, <2>3, WithoutIsMemory DEF CreateFails, Unmap
  <2>4. CASE OtherThread
    <3>1. PICK p \in Pages, k \in {"free", "c"} : mem' = [mem EXCEPT ![p] = k]
      BY <2>4 DEF OtherThread
    <3> QED BY <1>2, <3>1 DEF Memory, PageKinds
  <2>5. CASE Count \/ Fill \/ Create \/ Starts \/ Prefetch \/ AllocateNames \/ OpenFile
             \/ GetBuffer \/ ReadEntry \/ Rename \/ ReadEnds \/ UNCHANGED vars
    <3>1. UNCHANGED mem
      BY <2>5 DEF Count, Fill, Create, Starts, Prefetch, AllocateNames, OpenFile,
         GetBuffer, ReadEntry, Rename, ReadEnds, vars
    <3> QED BY <2>1, <3>1
  <2> QED
    BY <2>2, <2>3, <2>4, <2>5 DEF Next, madvise_PrefetchVirtualMemory
<1> QED BY <1>1, <1>3 DEF Arguments

LEMMA TableKept ==
  ASSUME addr' = addr, len' = len
  PROVE  /\ \A M, n : CountedFor(M, n)' <=> CountedFor(M, n)
         /\ \A M, s : FilledFor(M, s)' <=> FilledFor(M, s)
         /\ EntrySet' = EntrySet
<1>1. FirstPage' = FirstPage
  BY DEF FirstPage
<1>2. End' = End /\ \A e : Reach(e)' = Reach(e)
  BY <1>1 DEF End, Reach
<1>3. \A q, e : Part(q, e)' = Part(q, e)
  BY <1>2 DEF Part
<1>4. \A M, q, e : RegionFill(M, q, e)' = RegionFill(M, q, e)
  BY <1>2 DEF RegionFill
<1>5. \A M, b, C : CountsFrom(M, b, C)' <=> CountsFrom(M, b, C)
  BY <1>2, <1>3 DEF CountsFrom
<1>6. \A M, b, F : FillsFrom(M, b, F)' <=> FillsFrom(M, b, F)
  BY <1>2, <1>4 DEF FillsFrom
<1>7. \A M, n : CountedFor(M, n)' <=> CountedFor(M, n)
  BY <1>1, <1>2, <1>5 DEF CountedFor
<1>8. \A M, s : FilledFor(M, s)' <=> FilledFor(M, s)
  BY <1>1, <1>2, <1>6 DEF FilledFor
<1>9. EntrySet' = EntrySet
  BY DEF EntrySet
<1> QED BY <1>7, <1>8, <1>9

\* The steps of the detached thread leave the caller's variables alone, and it
\* is there only when the caller has returned.
LEMMA TableStep ==
  ASSUME TableInv, worker # "none" => pc = "returned", [Next]_vars
  PROVE  TableInv'
<1>1. addr' = addr /\ len' = len /\ Arguments'
  <2>1. Arguments'
    BY ArgumentsKept DEF TableInv
  <2> QED
    BY <2>1 DEF Next, vars, caller, Count, MapBlock, MapTable, Fill, Create, CreateFails,
         OtherThread, madvise_PrefetchVirtualMemory, Starts, Prefetch, AllocateNames, OpenFile,
         GetBuffer, ReadEntry, Rename, ReadEnds, Unmap, Worker
<1>2. /\ \A M, n : CountedFor(M, n)' <=> CountedFor(M, n)
      /\ \A M, s : FilledFor(M, s)' <=> FilledFor(M, s)
      /\ EntrySet' = EntrySet
  BY <1>1, TableKept
<1>3. Arguments /\ mem \in Memory
  BY DEF TableInv, Arguments
<1>4. CASE Count
  <2>1. counted' = EntryCount /\ CountedFor(mem, EntryCount) /\ Freed(mem) = mem
    BY <1>3, <1>4, CountIs DEF Count, TableInv
  <2>2. CountedFor(Freed(mem), EntryCount) /\ mem' = mem
    BY <1>4, <2>1 DEF Count
  <2>3. len = 0 => counted' = 0
    BY <1>3, <2>1, NothingCounted
  <2>4. (CountedFor(Freed(mem), counted))'
    BY <1>2, <2>1, <2>2
  <2> QED
    BY <1>1, <1>4, <2>3, <2>4 DEF Count, TableInv, Early, Ready
<1>5. CASE MapBlock
  <2>1. Freed(mem') = Freed(mem) /\ changed' = changed /\ counted' = counted
    BY <1>3, <1>5, MmapFrees DEF MapBlock
  <2>2. ~changed => CountedFor(Freed(mem), counted)
    BY <1>5 DEF MapBlock, TableInv
  <2>3. ~changed' => (CountedFor(Freed(mem), counted))'
    BY <1>2, <2>1, <2>2
  <2> QED
    BY <1>1, <1>5, <2>1, <2>3 DEF MapBlock, TableInv, Early, Ready
<1>6. CASE MapTable
  <2>1. Freed(mem') = Freed(mem) /\ changed' = changed /\ counted' = counted
    BY <1>3, <1>6, MmapFrees DEF MapTable
  <2>2. ~changed => CountedFor(Freed(mem), counted)
    BY <1>6 DEF MapTable, TableInv
  <2>3. ~changed' => (CountedFor(Freed(mem), counted))'
    BY <1>2, <2>1, <2>2
  <2> QED
    BY <1>1, <1>6, <2>1, <2>3 DEF MapTable, TableInv, Early, Ready
<1>7. CASE Fill
  <2>1. entries' = Filled /\ FilledFor(mem, Filled) /\ mem' = mem
    BY <1>3, <1>7, FillIs DEF Fill
  <2>2. (FilledFor(mem, entries))'
    BY <1>2, <2>1
  <2>3. Filled \in Seq(EntrySet) /\ (len > 0 => Filled # <<>>)
    BY <1>3, <2>1, TableIsTyped
  <2>4. ~changed => Len(Filled) <= counted
    BY <1>3, <1>7, <2>1, FillFits DEF Fill, TableInv
  <2>5. /\ (entries \in Seq(EntrySet))' /\ (len > 0 => entries # <<>>)'
        /\ (~changed => Len(entries) <= counted)'
    BY <1>1, <1>2, <1>7, <2>1, <2>3, <2>4 DEF Fill
  <2> QED
    BY <1>1, <1>7, <2>2, <2>5 DEF Fill, TableInv, Early, Ready
<1>8. CASE Create \/ CreateFails
  <2>1. /\ UNCHANGED <<entries, counted, changed, table>> /\ pc' = "returned"
        /\ pc = "create"
    BY <1>8 DEF Create, CreateFails
  <2>2. Ready
    BY <2>1 DEF Ready
  <2>3. (entries \in Seq(EntrySet))' /\ (len > 0 => entries # <<>>)'
        /\ (~changed => Len(entries) <= counted)'
    BY <1>1, <1>2, <2>1, <2>2 DEF TableInv
  <2> QED
    BY <1>1, <2>1, <2>3 DEF TableInv, Early, Ready
<1>9. CASE OtherThread
  BY <1>1, <1>9 DEF OtherThread, caller, TableInv, Early, Ready
<1>10. CASE madvise_PrefetchVirtualMemory \/ UNCHANGED vars
  <2>1. UNCHANGED <<caller, changed>>
    BY <1>10 DEF vars, madvise_PrefetchVirtualMemory, Starts, Prefetch, AllocateNames, OpenFile,
         GetBuffer, ReadEntry, Rename, ReadEnds, Unmap, Worker
  <2>2. CASE UNCHANGED vars
    <3>1. (CountedFor(Freed(mem), counted))' <=> CountedFor(Freed(mem), counted)
      BY <1>2, <2>2 DEF vars, caller
    <3>2. (FilledFor(mem, entries))' <=> FilledFor(mem, entries)
      BY <1>2, <2>2 DEF vars, caller
    <3> QED BY <1>1, <1>2, <2>1, <3>1, <3>2, <2>2 DEF vars, caller, TableInv, Early, Ready
  <2>3. CASE madvise_PrefetchVirtualMemory
    <3>1. pc = "returned"
      BY <2>3 DEF madvise_PrefetchVirtualMemory, Starts, Prefetch, AllocateNames, OpenFile,
         GetBuffer, ReadEntry, Rename, ReadEnds, Unmap, Worker
    <3> QED BY <1>1, <1>2, <2>1, <3>1 DEF caller, TableInv, Early, Ready
  <2> QED BY <1>10, <2>2, <2>3
<1> QED
  BY <1>4, <1>5, <1>6, <1>7, <1>8, <1>9, <1>10 DEF Next

-----------------------------------------------------------------------------
(* The detached thread.                                                    *)

Before  == {"none", "start", "prefetch", "names"}
Unread  == Before \cup {"open", "buffer"}
Named   == {"buffer", "read", "rename"}
Workers == Before \cup Named \cup {"open", "unmap", "ended"}

NoBlocks == \A p \in Pages : mem[p] \notin {"block", "table"}

\* The buffers there are: of two names that are not NULL, two.
TwoNames(a, b) ==
  /\ a \in Nat /\ b \in Nat /\ (a # b \/ a = NoName)
  /\ names = {a, b} \ {NoName}

\* The two names are the two buffers there are, until both are freed, and one
\* file is open at most.  The library is closed unless the thread reads files.
WorkerInv ==
  /\ worker \in Workers
  /\ worker # "none" => pc = "returned"
  /\ m \in DOMAIN Multipliers
  /\ worker \in Before => names = {} /\ name1 = NoName
  /\ worker \in Before \cup {"open"} => max = 0 /\ files = 0
  /\ worker = "none" => ~library
  /\ worker = "rename" /\ ~fault => fp
  /\ worker = "open" => TwoNames(cur, name2)
  /\ worker = "buffer" => max = 0
  /\ worker \in Named => /\ entries # <<>>
                         /\ TwoNames(name1, name2) /\ ReadsFiles
  /\ worker \in {"unmap", "ended"} /\ ~early =>
       /\ names = {} \/ max = 0
       /\ library \/ files # 0 => ReadsFiles
  /\ files = IF fp THEN 1 ELSE 0
  /\ pc = "returned" /\ worker \in {"none", "ended"} /\ ~early => NoBlocks
  /\ pc \in Early => ~fault
  /\ FaultsExplained

LEMMA MultipliersAre ==
  /\ DOMAIN Multipliers = 1..Len(Multipliers) /\ Len(Multipliers) \in Nat
  /\ Len(Multipliers) > 0
  /\ \A i \in DOMAIN Multipliers : Multipliers[i] \in Nat /\ Multipliers[i] > 0
<1>1. Multipliers \in Seq(Nat \ {0}) /\ Multipliers # <<>>
  BY ConstantsAssumption
<1>2. /\ DOMAIN Multipliers = 1..Len(Multipliers) /\ Len(Multipliers) \in Nat
      /\ Multipliers \in [1..Len(Multipliers) -> Nat \ {0}]
  BY <1>1, LenProperties
<1>3. Len(Multipliers) > 0
  BY <1>1, <1>2, EmptySeq
<1> QED BY <1>2, <1>3

LEMMA WorkerInit == Init => WorkerInv
<1> SUFFICES ASSUME Init PROVE WorkerInv
  OBVIOUS
<1>1. m \in DOMAIN Multipliers
  BY MultipliersAre DEF Init
<1> QED
  BY <1>1 DEF Init, WorkerInv, Workers, Before, Named, Early, FaultsExplained, ReadsFiles

\* PrefetchVirtualMemory is never asked for more entries than there are.
LEMMA CallsFit ==
  ASSUME NEW n \in Nat, NEW k \in Nat, k > 0
  PROVE  \A c \in Calls(n, k) : c.first + c.count <= n
<1> DEFINE q == n \div k
           r == n % k
<1>1. q \in Nat /\ r \in 0..k - 1 /\ n = q * k + r
  BY Division
<1>2. Calls(n, k) = {[first |-> i * k, count |-> k] : i \in 0..q - 1}
                    \cup (IF r # 0 THEN {[first |-> q * k, count |-> r]} ELSE {})
  BY DEF Calls
<1> HIDE DEF q, r
<1>3. q * k \in Int
  BY <1>1, Times
<1>4. ASSUME NEW i \in 0..q - 1
      PROVE  i * k + k <= n
  <2>1. i \in Int /\ i + 1 <= q
    BY <1>1
  <2>2. (i + 1) * k <= q * k /\ (i + 1) * k = i * k + 1 * k /\ 1 * k = k /\ i * k \in Int
    BY <1>1, <2>1, Times
  <2> QED BY <1>1, <1>3, <2>2
<1>5. q * k + r <= n
  BY <1>1, <1>3
<1> QED BY <1>2, <1>4, <1>5

\* A buffer that malloc returns is none of those allocated.
LEMMA NewNameIs ==
  ASSUME NEW a \in Nat, NEW b \in Nat, TwoNames(a, b)
  PROVE  NewName \in Nat /\ NewName > a /\ NewName > b /\ NewName # NoName
<1>1. names = {a, b} \ {0}
  BY DEF TwoNames, NoName
<1>2. CASE names = {}
  BY <1>1, <1>2 DEF NewName, NoName
<1>3. CASE names # {}
  <2> DEFINE c == IF a <= b THEN b ELSE a
             x == CHOOSE n \in names : \A k \in names : k <= n
  <2>1. c \in names /\ \A k \in names : k <= c
    BY <1>1, <1>3
  <2>2. x \in names /\ \A k \in names : k <= x
    <3> HIDE DEF c
    <3> QED BY <2>1
  <2>3. NewName = 1 + x
    BY <1>3 DEF NewName
  <2> HIDE DEF x
  <2>4. x \in Nat /\ a <= x /\ b <= x
    BY <1>1, <1>3, <2>2
  <2> QED BY <2>3, <2>4 DEF NoName
<1> QED BY <1>2, <1>3

\* The name in the buffer c, beside another buffer b: there is a buffer for it.
LEMMA NameIsThere ==
  ASSUME NEW b \in Nat, NEW c \in Nat, TwoNames(c, b), NameFits(c) \/ NameGrows(c)
  PROVE  /\ cur' \in Nat /\ cur' # NoName /\ cur' # b
         /\ names' = {cur', b} \ {NoName}
<1>1. NewName \in Nat /\ NewName > c /\ NewName > b /\ NewName # NoName
  BY NewNameIs
<1>2. CASE NameFits(c)
  BY <1>2 DEF NameFits, TwoNames
<1>3. CASE NameGrows(c)
  <2>1. NewName # b /\ cur' = NewName /\ names' = (names \ {c}) \cup {NewName}
    BY <1>1, <1>3 DEF NameGrows
  <2> QED BY <1>1, <2>1 DEF TwoNames
<1> QED BY <1>2, <1>3

\* The steps of the caller, the one that starts the thread included.
LEMMA CallerSteps ==
  ASSUME TableInv, WorkerInv,
         Count \/ MapBlock \/ MapTable \/ Fill \/ Create \/ CreateFails \/ OtherThread
  PROVE  WorkerInv'
<1>1. pc \in Early \cup {"create"} /\ worker = "none"
  BY DEF Count, MapBlock, MapTable, Fill, Create, CreateFails, OtherThread, WorkerInv, Early
<1>2. UNCHANGED <<m, names, max, cur, name1, name2, early, fp, files, library>>
  BY DEF Count, MapBlock, MapTable, Fill, Create, CreateFails, OtherThread, workerVars,
         naming, reading, file
<1>3. CASE Count \/ MapBlock \/ MapTable \/ Fill \/ OtherThread
  <2>1. worker' = worker /\ pc' \in Early \cup {"create"}
    BY <1>3 DEF Count, MapBlock, MapTable, Fill, OtherThread, workerVars, Early, caller
  <2>2. (pc \in Early => ~fault)' /\ FaultsExplained'
    <3>1. CASE Fill
      BY <3>1 DEF Fill, Early, FaultsExplained
    <3>2. CASE ~Fill
      <4>1. ~fault /\ fault' = fault
        BY <1>3, <3>2 DEF Count, MapBlock, MapTable, OtherThread, Early, WorkerInv
      <4> QED BY <4>1 DEF FaultsExplained
    <3> QED BY <3>1, <3>2
  <2> QED
    BY <1>1, <1>2, <2>1, <2>2 DEF WorkerInv, Workers, Before, Named, Early, ReadsFiles
<1>4. CASE Create
  BY <1>1, <1>2, <1>4 DEF Create, WorkerInv, Workers, Before, Named, Early, ReadsFiles, FaultsExplained
<1>5. CASE CreateFails
  <2>1. NoBlocks'
    BY <1>5 DEF CreateFails, Without, NoBlocks
  <2> QED
    BY <1>1, <1>2, <1>5, <2>1
       DEF CreateFails, workerVars, WorkerInv, Workers, Before, Named, Early, ReadsFiles, FaultsExplained
<1> QED BY <1>3, <1>4, <1>5

\* The steps of the detached thread.
LEMMA WorkerSteps ==
  ASSUME TableInv, WorkerInv, madvise_PrefetchVirtualMemory
  PROVE  WorkerInv'
<1> USE DEF Workers, Before, Named, Early, FaultsExplained, ReadsFiles
<1>1. /\ pc = "returned" /\ pc' = pc /\ ~fault
      /\ UNCHANGED <<entries, block, table, addr, len>>
      /\ worker \in {"start", "prefetch", "names", "open", "buffer", "read", "rename",
                     "unmap"}
  BY DEF madvise_PrefetchVirtualMemory, Starts, Prefetch, AllocateNames, OpenFile,
         GetBuffer, ReadEntry, Rename, ReadEnds, Unmap, Worker, caller, WorkerInv
<1>2. entries \in Seq(EntrySet) /\ (entries = <<>> => table = "Null")
  <2>1. len \in Nat
    BY DEF TableInv, Arguments
  <2> QED BY <1>1, <2>1 DEF TableInv, Ready
<1>3. CASE Starts
  BY <1>1, <1>3 DEF Starts, Worker, naming, reading, file, WorkerInv
<1>4. m < Len(Multipliers) => m + 1 \in DOMAIN Multipliers
  BY MultipliersAre DEF WorkerInv
<1>5. CASE Prefetch
  <2>1. Entries \in Nat
    BY <1>2, LenProperties DEF Entries
  <2>2. Multiplier \in Nat /\ Multiplier > 0
    BY MultipliersAre DEF Multiplier, WorkerInv
  <2>3. \A c \in Calls(Entries, Multiplier) : ~(c.first + c.count > Entries)
    <3>1. \A c \in Calls(Entries, Multiplier) : c.first + c.count <= Entries
      BY <2>1, <2>2, CallsFit
    <3>2. \A c \in Calls(Entries, Multiplier) : c.first + c.count \in Int
      <4>1. \A i \in Int : i * Multiplier \in Int
        BY <2>2, Times
      <4>2. Entries \div Multiplier \in Nat /\ Entries % Multiplier \in Nat
        BY <2>1, <2>2, Division
      <4> QED BY <2>2, <4>1, <4>2 DEF Calls
    <3> QED BY <2>1, <3>1, <3>2
  <2>4. ~fault'
    BY <1>5, <2>3 DEF Prefetch
  <2>5. /\ m' \in DOMAIN Multipliers
        /\ worker' = "prefetch" \/ (worker' = "unmap" /\ ~library')
        /\ UNCHANGED <<names, name1, max, fp, files, early>> /\ worker = "prefetch"
    <3>1. UNCHANGED <<naming, reading, early>> /\ worker = "prefetch"
      BY <1>5 DEF Prefetch, Worker
    <3>2. UNCHANGED <<names, name1, max, fp, files, early>>
      BY <3>1 DEF naming, reading, file
    <3>3. worker' = "prefetch" \/ (worker' = "unmap" /\ ~library')
      BY <1>5, <3>1 DEF Prefetch
    <3>4. m' \in DOMAIN Multipliers
      BY <1>4, <1>5 DEF Prefetch, WorkerInv
    <3> QED BY <3>1, <3>2, <3>3, <3>4
  <2> QED
    BY <1>1, <2>4, <2>5 DEF WorkerInv
<1>6. CASE AllocateNames
  <2>1. /\ worker = "names" /\ worker' = "open" /\ ~fault'
        /\ UNCHANGED <<m, max, fp, files, early, library>>
        /\ cur' \in {1, 0} /\ name2' \in {2, 0} /\ names' = {cur', name2'} \ {NoName}
    BY <1>1, <1>6 DEF AllocateNames, Worker, reading, file, NoName
  <2>2. TwoNames(cur, name2)'
    BY <2>1 DEF TwoNames, NoName
  <2> QED BY <1>1, <2>1, <2>2 DEF WorkerInv
<1>7. CASE OpenFile
  <2>1. /\ worker = "open" /\ UNCHANGED <<m, max, mem, library>>
        /\ max = 0 /\ files = 0 /\ TwoNames(cur, name2)
    BY <1>7 DEF OpenFile, Worker, WorkerInv
  <2>2. CASE fault'
    <3>1. /\ UNCHANGED <<worker, names, cur, name1, name2, fp, files, early>>
          /\ table' = "Null" \/ cur' = NoName
      BY <1>1, <1>2, <1>7, <2>2 DEF OpenFile, naming, file, NameFaults, GivesUp
    <3>2. TwoNames(cur, name2)'
      BY <2>1, <3>1 DEF TwoNames
    <3> QED BY <1>1, <2>1, <3>1, <3>2 DEF WorkerInv
  <2>3. CASE ~fault' /\ worker' = "buffer"
    <3>1. /\ NameFits(cur) \/ NameGrows(cur)
          /\ name1' = cur' /\ name2' = name2 /\ early' = early
          /\ fp' \in BOOLEAN /\ files' = files - 0 + (IF fp' THEN 1 ELSE 0)
          /\ entries # <<>>
      BY <1>1, <1>7, <2>3 DEF OpenFile, GivesUp, Opens, NameFaults, Worker
    <3>2. cur \in Nat /\ name2 \in Nat
      BY <2>1 DEF TwoNames
    <3>3. /\ cur' \in Nat /\ cur' # NoName /\ cur' # name2
          /\ names' = {cur', name2} \ {NoName}
      BY <2>1, <3>1, <3>2, NameIsThere
    <3>4. TwoNames(name1, name2)' /\ name1' # NoName
      BY <3>1, <3>2, <3>3 DEF TwoNames
    <3>5. files' = IF fp' THEN 1 ELSE 0
      BY <2>1, <3>1
    <3> QED
      BY <1>1, <2>1, <2>3, <3>1, <3>4, <3>5 DEF WorkerInv
  <2>4. CASE ~fault' /\ worker' # "buffer"
    <3>1. worker' = "ended" /\ early' /\ UNCHANGED <<fp, files>>
      BY <1>1, <1>7, <2>4 DEF OpenFile, GivesUp, NameFaults, Worker, file
    <3> QED
      BY <1>1, <2>1, <2>4, <3>1 DEF WorkerInv
  <2> QED BY <2>2, <2>3, <2>4
<1>8. CASE GetBuffer
  <2>1. /\ UNCHANGED <<names, name1, name2, fault, early, mem, fp, files, library>>
        /\ m' \in DOMAIN Multipliers /\ worker = "buffer"
        /\ \/ worker' = "read"
           \/ worker' \in {"buffer", "unmap"} /\ max' = max
    BY <1>4, <1>8 DEF GetBuffer, Worker, naming, file, WorkerInv
  <2> QED
    BY <1>1, <2>1 DEF WorkerInv, TwoNames
<1>9. CASE ReadEntry
  <2>1. /\ UNCHANGED <<names, name1, name2, early, mem, m, max, fp, files, library>>
        /\ worker = "read" /\ worker' \in {"read", "rename"}
        /\ fault' => ~fp
        /\ worker' = "rename" => (fault' <=> ~fp)
    BY <1>9 DEF ReadEntry, Worker, naming, file
  <2> QED
    BY <1>1, <2>1 DEF WorkerInv, TwoNames
<1>10. CASE Rename
  <2>1. /\ worker = "rename" /\ UNCHANGED <<mem, m, max, library>> /\ fp
        /\ TwoNames(name1, name2) /\ name1 # NoName /\ files = 1 /\ entries # <<>>
    BY <1>1, <1>10 DEF Rename, Worker, WorkerInv
  <2>2. CASE GivesUp(name2)
    BY <1>1, <2>1, <2>2 DEF GivesUp, file, WorkerInv
  <2>3. CASE fault'
    <3>1. /\ UNCHANGED <<worker, names, name1, name2, fp, files, early>>
          /\ name2' = NoName
      BY <1>1, <1>10, <2>3 DEF Rename, naming, file, NameFaults, GivesUp
    <3> QED BY <1>1, <2>1, <3>1 DEF WorkerInv, TwoNames
  <2>4. CASE ~GivesUp(name2) /\ ~fault'
    <3>1. /\ NameFits(name2) \/ NameGrows(name2)
          /\ \/ name2' = cur' /\ name1' = name1 /\ UNCHANGED <<fp, files>>
             \/ ExchangeNames(cur') /\ Opens(TRUE)
          /\ worker' = "read" /\ early' = early
      BY <1>10, <2>4 DEF Rename, NameFaults, file
    <3>2. name1 \in Nat /\ name2 \in Nat /\ TwoNames(name2, name1)
      BY <2>1 DEF TwoNames
    <3>3. /\ cur' \in Nat /\ cur' # NoName /\ cur' # name1
          /\ names' = {cur', name1} \ {NoName}
      BY <3>1, <3>2, NameIsThere
    <3>4. TwoNames(name1, name2)' /\ name1' # NoName
      <4>1. CASE name2' = cur' /\ name1' = name1
        BY <2>1, <3>2, <3>3, <4>1 DEF TwoNames
      <4>2. CASE ExchangeNames(cur')
        BY <2>1, <3>2, <3>3, <4>2 DEF ExchangeNames, TwoNames
      <4> QED BY <3>1, <4>1, <4>2
    <3>5. files' = IF fp' THEN 1 ELSE 0
      <4>1. CASE UNCHANGED <<fp, files>>
        BY <2>1, <4>1
      <4>2. CASE Opens(TRUE)
        <5>1. files' = files - 1 + (IF fp' THEN 1 ELSE 0)
          BY <4>2 DEF Opens
        <5> QED BY <2>1, <5>1
      <4> QED BY <3>1, <4>1, <4>2
    <3> QED
      BY <1>1, <2>1, <2>4, <3>1, <3>4, <3>5 DEF WorkerInv
  <2> QED BY <2>2, <2>3, <2>4
<1>11. CASE ReadEnds
  <2>1. /\ TwoNames(name1, name2) /\ name1 # NoName
        /\ worker' = "unmap" /\ UNCHANGED <<m, fp, files, library, name1>>
        /\ names' = names \ {name1, name2}
        /\ fault' = (name1 = name2 \/ ~({name1, name2} \subseteq names \cup {NoName}))
    BY <1>11 DEF ReadEnds, Worker, WorkerInv, reading, file
  <2>2. names' = {} /\ ~fault'
    BY <2>1 DEF TwoNames
  <2> QED
    BY <1>1, <2>1, <2>2 DEF WorkerInv
<1>12. CASE Unmap
  <2>1. /\ NoBlocks' /\ worker = "unmap" /\ worker' = "ended"
        /\ UNCHANGED <<m, names, name1, max, fault, early, fp, files, library>>
    BY <1>12 DEF Unmap, Worker, Without, NoBlocks, naming, reading, file
  <2> QED
    BY <1>1, <2>1 DEF WorkerInv
<1> QED
  BY <1>3, <1>5, <1>6, <1>7, <1>8, <1>9, <1>10, <1>11, <1>12
     DEF madvise_PrefetchVirtualMemory

LEMMA WorkerStep ==
  ASSUME TableInv, WorkerInv, [Next]_vars
  PROVE  WorkerInv'
<1>1. CASE UNCHANGED vars
  BY <1>1 DEF vars, caller, naming, reading, file, WorkerInv, Workers, Before, Named, Early,
              FaultsExplained, NoBlocks, TwoNames, ReadsFiles
<1> QED BY <1>1, CallerSteps, WorkerSteps DEF Next

-----------------------------------------------------------------------------
(* The reads.                                                              *)

FirstBytes == entries[1].bytes
Bounded == \A i \in DOMAIN entries : entries[i].bytes <= entries[1].bytes

\* What is to be read next comes from entries of one group.
ReadInv ==
  /\ max \in Nat /\ largest \in Nat /\ size \in Nat
  /\ Bounded => largest <= max
  /\ worker \in Unread => largest = 0
  /\ worker \in {"read", "rename"} =>
       /\ max = FirstBytes * Multiplier
       /\ at \in 1..Entries + 1
       /\ Bounded => /\ at <= Entries => size <= ((at - 1) % Multiplier) * FirstBytes
                     /\ at > Entries => size = 0

LEMMA SmallerRemainder ==
  ASSUME NEW n \in Nat, NEW d \in Nat, d > 0
  PROVE  n % d \in Nat /\ n % d <= n
<1>1. n \div d \in Nat /\ n % d \in 0..d - 1 /\ n = (n \div d) * d + (n % d)
  BY Division
<1>2. (n \div d) * d \in Nat
  BY <1>1, SMT
<1> QED BY <1>1, <1>2

LEMMA Product ==
  ASSUME NEW d \in Nat, d > 0, NEW q \in Nat, NEW r \in Nat, r < d
  PROVE  (d * q + r) % d = r
BY SMT

\* An entry that is not the last of its group, and the one after it.
LEMMA GroupGoesOn ==
  ASSUME NEW i \in 1..Entries, Entries \in Nat, Multiplier \in Nat, Multiplier > 0
  PROVE  /\ i = Entries => i = GroupEnd(i)
         /\ i # GroupEnd(i) => /\ i < Entries
                               /\ i % Multiplier = ((i - 1) % Multiplier) + 1
<1> DEFINE k == Multiplier
           q == (i - 1) \div k
           r == (i - 1) % k
<1>1. i - 1 \in Nat /\ k \in Nat /\ k > 0
  OBVIOUS
<1>2. q \in Nat /\ r \in 0..k - 1 /\ i - 1 = q * k + r
  BY <1>1, Division
<1>3. (q + 1) * k = q * k + 1 * k /\ 1 * k = k /\ q * k \in Int
  BY <1>1, <1>2, Times
<1>4. GroupEnd(i) = IF (q + 1) * k < Entries THEN (q + 1) * k ELSE Entries
  BY DEF GroupEnd
<1>5. i % k = IF r + 1 < k THEN r + 1 ELSE 0
  <2>1. CASE r + 1 < k
    <3>1. i = k * q + (r + 1)
      <4>1. k * q = q * k
        BY <1>1, <1>2
      <4> QED BY <1>2, <1>3, <4>1
    <3>2. (k * q + (r + 1)) % k = r + 1
      <4> HIDE DEF k, q, r
      <4>1. r + 1 \in Nat
        BY <1>2
      <4> QED BY <1>1, <1>2, <2>1, <4>1, Product
    <3> QED BY <2>1, <3>1, <3>2
  <2>2. CASE ~(r + 1 < k)
    <3>1. i = k * (q + 1) + 0
      <4>1. k * (q + 1) = (q + 1) * k
        BY <1>1, <1>2
      <4> QED BY <1>1, <1>2, <1>3, <2>2, <4>1
    <3>2. (k * (q + 1) + 0) % k = 0
      <4> HIDE DEF k, q, r
      <4>1. q + 1 \in Nat /\ 0 < k /\ 0 \in Nat
        BY <1>1, <1>2
      <4> QED BY <1>1, <4>1, Product
    <3> QED BY <2>2, <3>1, <3>2
  <2> QED BY <2>1, <2>2
<1> HIDE DEF k, q, r
<1>6. i = Entries => i = GroupEnd(i)
  BY <1>1, <1>2, <1>3, <1>4
<1>7. ASSUME i # GroupEnd(i)
      PROVE  i < Entries /\ i % k = r + 1
  <2>1. i # Entries
    BY <1>6, <1>7
  <2>2. i # (q + 1) * k
    BY <1>4, <1>7, <2>1
  <2>3. r + 1 # k
    BY <1>1, <1>2, <1>3, <2>2
  <2> QED BY <1>1, <1>2, <1>5, <2>1, <2>3
<1> QED BY <1>6, <1>7 DEF k, r

LEMMA ReadInit == Init => ReadInv
<1> SUFFICES ASSUME Init PROVE ReadInv
  OBVIOUS
<1> QED
  BY DEF Init, ReadInv, Unread, Before

\* A look at one entry: it is added to what is to be read, or the buffer is read.
LEMMA EntryReads ==
  ASSUME TableInv, WorkerInv, ReadInv, ReadEntry
  PROVE  ReadInv'
<1>1. /\ worker = "read" /\ worker' \in {"read", "rename"}
      /\ pc = "returned" /\ at <= Entries /\ at' = at + 1
      /\ UNCHANGED <<entries, max, m>>
  BY DEF ReadEntry, Worker, caller, WorkerInv
<1>2. entries \in Seq(EntrySet) /\ entries # <<>>
  BY <1>1 DEF TableInv, Ready, WorkerInv, Named
<1>3. /\ Entries \in Nat /\ DOMAIN entries = 1..Entries
      /\ Entries > 0 /\ \A i \in 1..Entries : entries[i] \in EntrySet
  BY <1>2, LenProperties, EmptySeq, ElementOfSeq DEF Entries
<1>4. \A i \in 1..Entries : entries[i].bytes \in Nat
  BY <1>3, Strides DEF EntrySet
<1>5. Multiplier \in Nat /\ Multiplier > 0
  BY MultipliersAre DEF Multiplier, WorkerInv
<1> DEFINE k == Multiplier
           b == FirstBytes
           full == size > max
           l == IF full THEN lpos + max ELSE lpos
           sum == (IF full THEN (max - size) % SizeMax ELSE size) + entries[at].bytes
           s == sum % SizeMax
           last == at = GroupEnd(at)
           apart == ~last /\ (l + s # entries[at + 1].at
                              \/ l + s > baseaddr + region.size)
           flush == last \/ apart
<1>6. /\ largest' = IF flush THEN Longest(s) ELSE largest
      /\ size' = IF flush THEN 0 ELSE s
  BY DEF ReadEntry
<1>7. at \in 1..Entries /\ b \in Nat /\ size \in Nat /\ max \in Nat /\ largest \in Nat
      /\ max = b * k
  BY <1>1, <1>3, <1>4 DEF ReadInv, FirstBytes
<1>8. at # GroupEnd(at) => at < Entries /\ at % k = ((at - 1) % k) + 1
  BY <1>3, <1>5, <1>7, GroupGoesOn
<1>9. at = Entries => last
  BY <1>3, <1>5, <1>7, GroupGoesOn
<1> HIDE DEF apart, full
<1>10. sum \in Nat
  <2>1. (max - size) % SizeMax \in Nat
    <3>1. max - size \in Int
      BY <1>7
    <3>2. SizeMax \in Nat /\ SizeMax > 0
      BY Strides
    <3> QED BY <3>1, <3>2, SMT
  <2> QED BY <1>4, <1>7, <2>1
<1>11. s \in Nat /\ s <= sum
  BY <1>10, Strides, SmallerRemainder
<1>12. (at - 1) % k \in 0..k - 1
  <2>1. at - 1 \in Nat
    BY <1>7
  <2> QED BY <1>5, <2>1, Division
<1> DEFINE r == (at - 1) % k
<1>13. Bounded => s <= (r + 1) * b /\ (r + 1) * b <= max
  <2> SUFFICES ASSUME Bounded PROVE s <= (r + 1) * b /\ (r + 1) * b <= max
    OBVIOUS
  <2>1. size <= r * b
    BY <1>1, <1>7 DEF ReadInv
  <2>2. entries[at].bytes <= b /\ entries[at].bytes \in Nat
    BY <1>3, <1>4, <1>7 DEF Bounded, FirstBytes
  <2> HIDE DEF r, k, b
  <2>3. r \in Int /\ k \in Int /\ r + 1 <= k /\ r <= k
    BY <1>5, <1>12 DEF r, k
  <2>4. /\ r * b \in Int /\ (r + 1) * b = r * b + 1 * b /\ 1 * b = b
        /\ (r + 1) * b <= k * b /\ r * b <= k * b /\ k * b \in Int
    BY <1>7, <2>3, Times
  <2>5. k * b = max
    BY <1>7, <2>3
  <2>6. ~full
    BY <1>7, <2>1, <2>4, <2>5 DEF full
  <2>7. sum = size + entries[at].bytes
    BY <2>6
  <2> HIDE DEF s, sum
  <2> QED
    BY <1>7, <1>10, <1>11, <2>1, <2>2, <2>4, <2>5, <2>7
<1>14. largest' \in Nat /\ size' \in Nat
  BY <1>6, <1>7, <1>11 DEF Longest
<1>15. Bounded => largest' <= max
  <2> SUFFICES ASSUME Bounded PROVE largest' <= max
    OBVIOUS
  <2>1. (r + 1) * b \in Int
    <3> HIDE DEF r, b
    <3>1. r + 1 \in Int
      BY <1>5, <1>12 DEF r
    <3> QED BY <1>7, <3>1, Times
  <2>2. s <= max
    <3> HIDE DEF s, r, b
    <3> QED BY <1>7, <1>11, <1>13, <2>1
  <2>3. largest <= max
    BY DEF ReadInv
  <2> HIDE DEF s
  <2> QED BY <1>6, <2>2, <2>3 DEF Longest
<1>16. Bounded => /\ at' <= Entries => size' <= ((at' - 1) % k) * b
                  /\ at' > Entries => size' = 0
  <2> SUFFICES ASSUME Bounded
               PROVE  /\ at' <= Entries => size' <= ((at' - 1) % k) * b
                      /\ at' > Entries => size' = 0
    OBVIOUS
  <2>1. at' - 1 = at /\ (at' > Entries => at = Entries)
    BY <1>1, <1>3, <1>7
  <2>2. CASE flush
    <3>1. size' = 0
      BY <1>6, <2>2
    <3>2. at % k \in Nat
      <4>1. at \in Nat
        BY <1>7
      <4> QED BY <1>5, <4>1, Division
    <3>3. (at % k) * b \in Int /\ 0 * b <= (at % k) * b /\ 0 * b = 0
      <4> DEFINE x == at % k
      <4>1. x \in Int /\ 0 <= x
        BY <3>2
      <4> HIDE DEF x, b
      <4> QED BY <1>7, <4>1, Times DEF x
    <3> QED BY <2>1, <3>1, <3>3
  <2>3. CASE ~flush
    <3>1. size' = s /\ ~last
      BY <1>6, <2>3
    <3>2. at < Entries /\ at % k = r + 1
      BY <1>8, <3>1
    <3>3. s <= (at % k) * b
      BY <1>13, <3>2
    <3> HIDE DEF s
    <3> QED BY <1>3, <1>7, <2>1, <3>1, <3>2, <3>3
  <2> QED BY <2>2, <2>3
<1>17. Entries' = Entries /\ FirstBytes' = b /\ Multiplier' = k /\ (Bounded' <=> Bounded)
  BY <1>1 DEF Entries, FirstBytes, Multiplier, Bounded
<1>18. at' \in 1..Entries + 1
  BY <1>1, <1>3, <1>7
<1> HIDE DEF s, flush, r, k, b
<1> QED
  BY <1>1, <1>7, <1>14, <1>15, <1>16, <1>17, <1>18 DEF ReadInv, Unread, Before

LEMMA ReadStep ==
  ASSUME TableInv, WorkerInv, ReadInv, [Next]_vars
  PROVE  ReadInv'
<1>1. CASE UNCHANGED vars
  BY <1>1 DEF vars, caller, reading, ReadInv, FirstBytes, Bounded, Multiplier, Entries
<1>2. CASE Count \/ MapBlock \/ MapTable \/ Fill \/ Create \/ CreateFails \/ OtherThread
  <2>1. worker = "none" /\ worker' \in {"none", "start"}
        /\ UNCHANGED <<max, largest, size>>
    BY <1>2 DEF Count, MapBlock, MapTable, Fill, Create, CreateFails, OtherThread,
       workerVars, reading, WorkerInv, Early
  <2>2. max = 0 /\ largest = 0
    BY <2>1 DEF WorkerInv, ReadInv, Unread, Before
  <2> QED BY <2>1, <2>2 DEF ReadInv, Unread, Before
<1>3. CASE ReadEntry
  BY <1>3, EntryReads
<1>4. CASE GetBuffer /\ worker' = "read"
  <2>1. /\ max' = entries[1].bytes * Multiplier /\ at' = 1 /\ size' = 0
        /\ UNCHANGED <<entries, m, largest>> /\ worker = "buffer" /\ pc = "returned"
    BY <1>4 DEF GetBuffer, Worker, caller, WorkerInv
  <2>2. entries \in Seq(EntrySet) /\ entries # <<>>
    BY <2>1 DEF TableInv, Ready, WorkerInv, Named
  <2>3. Entries \in Nat /\ Entries > 0 /\ entries[1] \in EntrySet
    BY <2>2, LenProperties, EmptySeq, ElementOfSeq DEF Entries
  <2>4. FirstBytes \in Nat
    BY <2>3, Strides DEF EntrySet, FirstBytes
  <2>5. Multiplier \in Nat /\ Multiplier > 0
    BY MultipliersAre DEF Multiplier, WorkerInv
  <2>6. FirstBytes * Multiplier \in Nat
    BY <2>4, <2>5, SMT
  <2>7. largest = 0
    BY <2>1 DEF ReadInv, Unread
  <2>8. (0 % Multiplier) * FirstBytes = 0
    <3>1. 0 % Multiplier = 0
      BY <2>5, SmallerRemainder
    <3> QED BY <2>4, <3>1
  <2>9. Entries' = Entries /\ FirstBytes' = FirstBytes /\ Multiplier' = Multiplier
    BY <2>1 DEF Entries, FirstBytes, Multiplier
  <2>10. max' \in Nat /\ max' = FirstBytes' * Multiplier'
    BY <2>1, <2>6, <2>9 DEF FirstBytes
  <2>11. at' \in 1..Entries' + 1 /\ at' - 1 = 0 /\ ~(at' > Entries')
    BY <2>1, <2>3, <2>9
  <2> QED
    BY <1>4, <2>1, <2>7, <2>8, <2>9, <2>10, <2>11 DEF ReadInv, Unread, Before
<1>5. CASE GetBuffer /\ worker' # "read"
  <2>1. /\ UNCHANGED <<max, largest, size, entries>> /\ worker = "buffer"
        /\ worker' \in {"buffer", "unmap"}
    BY <1>5 DEF GetBuffer, Worker, caller
  <2>2. (Bounded' <=> Bounded)
    BY <2>1 DEF Bounded
  <2> QED BY <2>1, <2>2 DEF ReadInv, Unread, Before
<1>6. CASE Starts \/ Prefetch \/ AllocateNames \/ OpenFile \/ ReadEnds \/ Unmap
  <2>1. /\ UNCHANGED <<max, largest, size, entries>>
        /\ worker \in {"start", "prefetch", "names", "open", "read", "unmap"}
        /\ worker' \in {"prefetch", "names", "open", "unmap", "buffer", "ended"}
        /\ worker' \in Unread => worker \in Unread
    BY <1>6 DEF Starts, Prefetch, AllocateNames, OpenFile, ReadEnds, Unmap, Worker, GivesUp,
       caller, reading, Unread, Before
  <2>2. (Bounded' <=> Bounded)
    BY <2>1 DEF Bounded
  <2> QED BY <2>1, <2>2 DEF ReadInv, Unread, Before
<1>7. CASE Rename
  <2>1. /\ UNCHANGED <<max, largest, size, entries, at, m>>
        /\ worker = "rename" /\ worker' \in {"rename", "read", "ended"}
    BY <1>7 DEF Rename, GivesUp, NameFaults, Worker, caller
  <2>2. /\ (Bounded' <=> Bounded) /\ FirstBytes' = FirstBytes /\ Multiplier' = Multiplier
        /\ Entries' = Entries
    BY <2>1 DEF Bounded, FirstBytes, Multiplier, Entries
  <2> QED BY <2>1, <2>2 DEF ReadInv, Unread, Before
<1> QED
  BY <1>1, <1>2, <1>3, <1>4, <1>5, <1>6, <1>7 DEF Next, madvise_PrefetchVirtualMemory

-----------------------------------------------------------------------------
(* The theorems.                                                           *)

\* The invariants hold together.
LEMMA AlwaysInv == Spec => [](TableInv /\ WorkerInv /\ ReadInv)
<1> DEFINE I == TableInv /\ WorkerInv /\ ReadInv
<1>1. Init => I
  BY TableInit, WorkerInit, ReadInit
<1>2. I /\ [Next]_vars => I'
  <2>1. WorkerInv => (worker # "none" => pc = "returned")
    BY DEF WorkerInv
  <2> QED BY <2>1, TableStep, WorkerStep, ReadStep
<1> HIDE DEF I
<1>3. Spec => []I
  BY <1>1, <1>2, PTL DEF Spec
<1> QED BY <1>3 DEF I

\* madvise never writes more entries than it has counted and mapped memory for,
\* unless another thread changes the memory between its two walks: the blocks it
\* maps itself split free regions only, for which it writes nothing.
THEOREM TableAlwaysFits == Spec => []TableFits
<1>1. TableInv => TableFits
  BY DEF TableInv, TableFits, Ready
<1> QED BY <1>1, AlwaysInv, PTL

\* Each entry of the table of madvise begins in the advised range and goes less
\* than a stride beyond it.  Of a range that begins with a page and has more than
\* one region, every committed byte of the regions before the last is in an entry;
\* of a range in one region, every byte up to its last whole stride is.  Nothing is
\* said of the last region, which the code gets wrong.
THEOREM TableCoversAllButTheLast == Spec => []CoversAllButTheLast
<1>1. TableInv => EntriesInRange
  <2> SUFFICES ASSUME TableInv, Ready, NEW i \in DOMAIN entries
               PROVE  /\ entries[i].at \in addr..addr + len - 1
                      /\ entries[i].at + entries[i].bytes < addr + len + Stride
    BY DEF EntriesInRange
  <2>1. entries[i] \in EntrySet
    BY LenProperties, ElementOfSeq DEF TableInv
  <2>2. addr \in Nat /\ len \in Nat
    BY PlacesAreNumbers DEF TableInv
  <2> QED BY <2>1, <2>2, Strides DEF EntrySet
<1>2. TableInv => RegionsCovered
  <2> SUFFICES ASSUME TableInv, pc = "create", addr % Page = 0, FirstSize < len,
                      NEW u \in addr..addr + len - 1,
                      Query(u).base + Query(u).size < addr + len,
                      Query(u).kind \in {"a", "b", "c"}
               PROVE  Advised(u)
    BY DEF RegionsCovered, Advised
  <2>1. Covers(entries, u)
    BY TableCovers DEF TableInv
  <2> QED BY <2>1 DEF Covers, Advised
<1>3. TableInv => StridesCovered
  <2> SUFFICES ASSUME TableInv, pc = "create", FirstSize >= len,
                      NEW u \in addr..addr + (len \div Stride) * Stride - 1
               PROVE  Advised(u)
    BY DEF StridesCovered
  <2>1. Covers(entries, u)
    BY OneRegionCovers DEF TableInv
  <2> QED BY <2>1 DEF Covers, Advised
<1>4. TableInv => CoversAllButTheLast
  BY <1>1, <1>2, <1>3 DEF CoversAllButTheLast
<1> QED BY <1>4, AlwaysInv, PTL

\* When madvise and its thread are over, neither of the two blocks is mapped any
\* more, no name buffer is allocated unless no read buffer could be had, and at most
\* one file is open, whichever calls failed, unless the thread gave up in the
\* middle.  The file, and the library, stay open only after a thread that has read
\* the files itself: the leak the code has.
THEOREM AllButOneFileReleased == Spec => []Released
<1>1. TableInv /\ WorkerInv => Released
  BY DEF WorkerInv, Released, Before, NoBlocks, ReadsFiles
<1> QED BY <1>1, AlwaysInv, PTL

\* The detached thread frees no buffer twice, however often it exchanges and grows
\* its two name buffers, and asks Windows for no entry beyond the table.  A NULL
\* pointer is used only after a call whose result the code does not look at: mmap,
\* fopen, or the malloc of the first or the spare name.
THEOREM FaultsAreExplained == Spec => []FaultsExplained
<1>1. WorkerInv => FaultsExplained
  BY DEF WorkerInv
<1> QED BY <1>1, AlwaysInv, PTL

\* For a table of any length and any multipliers, what the thread reads in one go
\* comes from one group of entries and fits the buffer, if no entry is longer than
\* the first.
THEOREM ReadsAlwaysFit == Spec => []ReadsFit
<1>1. ReadInv => ReadsFit
  BY DEF ReadInv, ReadsFit, Bounded
<1> QED BY <1>1, AlwaysInv, PTL
=============================================================================
