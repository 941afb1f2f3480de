--------------------------- MODULE Recipes_proofs ---------------------------
(***************************************************************************)
(* Proofs about module Recipes, for any recipe files, command lines and    *)
(* windows.                                                                *)
(***************************************************************************)
EXTENDS Recipes, WellFoundedInduction, SequenceTheorems, FiniteSetTheorems, TLAPS

(***************************************************************************)
(* Induction and recursion, with sets and functions in place of operators. *)
(***************************************************************************)

\* A set of naturals that holds 0 and the successor of each member holds all.
LEMMA SetInduction ==
    ASSUME NEW P, 0 \in P, \A n \in Nat : n \in P => n + 1 \in P
    PROVE  Nat \subseteq P
  <1> DEFINE R == OpToRel(<, Nat)
             T == Nat \ P
  <1>1. IsWellFoundedOn(R, Nat)
    BY NatLessThanWellFounded
  <1>2. \A x, y \in Nat : x < y => <<x, y>> \in R
    BY DEF OpToRel
  <1> HIDE DEF R
  <1> SUFFICES ASSUME T # {} PROVE FALSE
    OBVIOUS
  <1>3. PICK x \in T : \A y \in T : ~(<<y, x>> \in R)
    BY <1>1, WFMin
  <1>4. x \in Nat /\ x # 0 /\ x - 1 \in Nat /\ x - 1 < x /\ (x - 1) + 1 = x
    BY <1>3
  <1>5. x - 1 \in P
    BY <1>2, <1>3, <1>4
  <1> QED
    BY <1>3, <1>4, <1>5

\* A set of naturals with a member has a least one.
LEMMA LeastMember ==
    ASSUME NEW T, T \subseteq Nat, T # {}
    PROVE  \E x \in T : \A y \in T : x <= y
  <1> DEFINE R == OpToRel(<, Nat)
  <1>1. IsWellFoundedOn(R, Nat)
    BY NatLessThanWellFounded
  <1>2. \A x, y \in Nat : x < y => <<x, y>> \in R
    BY DEF OpToRel
  <1> HIDE DEF R
  <1>3. PICK x \in T : \A y \in T : ~(<<y, x>> \in R)
    BY <1>1, WFMin
  <1>4. \A y \in T : ~(y < x)
    BY <1>2, <1>3
  <1> QED
    BY <1>3, <1>4

\* A recursion over S with values in V: what H makes of f at x depends only on the
\* values of f at elements of lower rank.
Recursion(S, V, m, rank, H) ==
    /\ V # {} /\ m \in Nat /\ rank \in [S -> 0..m]
    /\ \A f \in [S -> V], x \in S : H[<<f, x>>] \in V
    /\ \A f, g \in [S -> V], x \in S :
           (\A y \in S : rank[y] < rank[x] => f[y] = g[y]) => H[<<f, x>>] = H[<<g, x>>]

\* Such a recursion has a solution.
LEMMA RecursiveFunction ==
    ASSUME NEW S, NEW V, NEW m, NEW rank, NEW H, Recursion(S, V, m, rank, H)
    PROVE  \E f \in [S -> V] : \A x \in S : f[x] = H[<<f, x>>]
  <1> DEFINE Upto(k) == \E f \in [S -> V] : \A x \in S : rank[x] < k => f[x] = H[<<f, x>>]
             P == {k \in Nat : Upto(k)}
  <1>0. /\ V # {} /\ m \in Nat /\ rank \in [S -> 0..m]
        /\ \A f \in [S -> V], x \in S : H[<<f, x>>] \in V
        /\ \A f, g \in [S -> V], x \in S :
               (\A y \in S : rank[y] < rank[x] => f[y] = g[y]) => H[<<f, x>>] = H[<<g, x>>]
    BY DEF Recursion
  <1>1. 0 \in P
    <2>1. PICK v \in V : TRUE
      BY <1>0
    <2> DEFINE f == [x \in S |-> v]
    <2>2. f \in [S -> V] /\ \A x \in S : ~(rank[x] < 0)
      BY <1>0
    <2> QED
      BY <2>2
  <1>2. ASSUME NEW n \in Nat, n \in P PROVE n + 1 \in P
    <2>1. PICK f \in [S -> V] : \A x \in S : rank[x] < n => f[x] = H[<<f, x>>]
      BY <1>2
    <2> DEFINE g == [x \in S |-> H[<<f, x>>]]
    <2>2. g \in [S -> V]
      BY <1>0
    <2>3. ASSUME NEW x \in S, rank[x] < n + 1 PROVE g[x] = H[<<g, x>>]
      <3>1. \A y \in S : rank[y] < rank[x] => rank[y] < n
        BY <1>0, <2>3
      <3>2. \A y \in S : rank[y] < rank[x] => f[y] = g[y]
        BY <2>1, <3>1
      <3>3. H[<<f, x>>] = H[<<g, x>>]
        BY <1>0, <2>2, <3>2
      <3> QED
        BY <3>3
    <2> HIDE DEF g
    <2>4. Upto(n + 1)
      BY <2>2, <2>3
    <2> QED
      BY <2>4
  <1> HIDE DEF P
  <1>3. m + 1 \in P
    BY <1>0, <1>1, <1>2, SetInduction
  <1>4. PICK f \in [S -> V] : \A x \in S : rank[x] < m + 1 => f[x] = H[<<f, x>>]
    BY <1>3 DEF P
  <1>5. \A x \in S : rank[x] < m + 1
    BY <1>0
  <1> QED
    BY <1>4, <1>5

(***************************************************************************)
(* Parameters of lines.                                                    *)
(***************************************************************************)

LEMMA HexDigit == \A c : hex2num(c) \in 0..15
  BY DEF hex2num

LEMMA EscapedByte == ASSUME NEW c \in Bytes PROVE Escaped(c) \in Bytes
  <1>1. \A e \in Escapes : e[2] \in Bytes
    BY DEF Escapes, Bytes
  <1>2. CASE \E e \in Escapes : e[1] = c
    <2>1. (CHOOSE e \in Escapes : e[1] = c) \in Escapes
      BY <1>2
    <2> QED
      BY <1>1, <1>2, <2>1 DEF Escaped
  <1>3. CASE ~\E e \in Escapes : e[1] = c
    BY <1>3 DEF Escaped
  <1> QED
    BY <1>2, <1>3

\* What string_init does at character i of src, if f is what it makes of the rest.
Unescaped(src, f, i) ==
    IF i > Len(src) THEN <<>>
    ELSE IF src[i] # Backslash THEN <<src[i]>> \o f[i + 1]
    ELSE IF i + 3 <= Len(src) /\ src[i + 1] = LetterX
         THEN <<16 * hex2num(src[i + 2]) + hex2num(src[i + 3])>> \o f[i + 4]
    ELSE <<IF i < Len(src) THEN Escaped(src[i + 1]) ELSE 0>> \o f[i + 2]

LEMMA Prepended ==
    ASSUME NEW b \in Bytes, NEW s \in Seq(Bytes) PROVE <<b>> \o s \in Seq(Bytes)
  <1>1. <<b>> \in Seq(Bytes)
    OBVIOUS
  <1> QED
    BY <1>1, ConcatProperties

LEMMA UnescapedType ==
    ASSUME NEW src \in Seq(Bytes), NEW f, NEW i \in 1..Len(src) + 4,
           i <= Len(src) => \A k \in {1, 2, 4} : f[i + k] \in Seq(Bytes)
    PROVE  Unescaped(src, f, i) \in Seq(Bytes)
  <1>1. Len(src) \in Nat /\ \A k \in 1..Len(src) : src[k] \in Bytes
    BY LenProperties, ElementOfSeq
  <1>2. ASSUME i <= Len(src) PROVE Unescaped(src, f, i) \in Seq(Bytes)
    <2>1. f[i + 1] \in Seq(Bytes) /\ f[i + 2] \in Seq(Bytes) /\ f[i + 4] \in Seq(Bytes)
      BY <1>2
    <2>2. src[i] \in Bytes /\ 0 \in Bytes
      BY <1>1, <1>2 DEF Bytes
    <2>3. i < Len(src) => Escaped(src[i + 1]) \in Bytes
      BY <1>1, <1>2, EscapedByte
    <2> DEFINE e == IF i < Len(src) THEN Escaped(src[i + 1]) ELSE 0
               h == 16 * hex2num(src[i + 2]) + hex2num(src[i + 3])
    <2>4. e \in Bytes
      BY <2>2, <2>3
    <2>5. \A c, d \in 0..15 : 16 * c + d \in Bytes
      BY DEF Bytes
    <2>6. h \in Bytes
      BY <2>5, HexDigit
    <2>7. ~(i > Len(src))
      BY <1>1, <1>2
    <2>8. Unescaped(src, f, i) \in {<<src[i]>> \o f[i + 1], <<h>> \o f[i + 4], <<e>> \o f[i + 2]}
      BY <2>7 DEF Unescaped
    <2> HIDE DEF e, h
    <2> QED
      BY <2>1, <2>2, <2>4, <2>6, <2>8, Prepended
  <1>3. CASE i > Len(src)
    BY <1>3 DEF Unescaped
  <1> QED
    BY <1>1, <1>2, <1>3

\* The recursion of string_init has a solution, and it is a sequence of bytes.
LEMMA StringInitUnfolds ==
    ASSUME NEW src \in Seq(Bytes)
    PROVE  \E f \in [1..Len(src) + 4 -> Seq(Bytes)] :
               /\ \A i \in 1..Len(src) + 4 : f[i] = Unescaped(src, f, i)
               /\ StringInit(src) = f[1]
  <1> DEFINE m == Len(src) + 4
             S == 1..m
             V == Seq(Bytes)
             rank == [i \in S |-> m - i]
             H == [z \in [S -> V] \X S |-> Unescaped(src, z[1], z[2])]
             rest == CHOOSE f : f = [i \in S |-> Unescaped(src, f, i)]
  <1>1. Len(src) \in Nat /\ m \in Nat /\ V # {}
    BY LenProperties
  <1>2. rank \in [S -> 0..m] /\ \A i \in S : rank[i] = m - i
    BY <1>1
  <1>3. \A f \in [S -> V], i \in S : H[<<f, i>>] = Unescaped(src, f, i)
    OBVIOUS
  <1>4. \A i \in S : i <= Len(src) => \A k \in {1, 2, 4} : i + k \in S
    BY <1>1
  <1>5. \A f \in [S -> V], i \in S : H[<<f, i>>] \in V
    BY <1>3, <1>4, UnescapedType
  <1>6. ASSUME NEW f \in [S -> V], NEW g \in [S -> V], NEW i \in S,
               \A j \in S : rank[j] < rank[i] => f[j] = g[j]
        PROVE  H[<<f, i>>] = H[<<g, i>>]
    <2>1. CASE i <= Len(src)
      <3>1. \A k \in {1, 2, 4} : i + k \in S /\ rank[i + k] < rank[i]
        BY <1>1, <1>2, <1>4, <2>1
      <3>2. f[i + 1] = g[i + 1] /\ f[i + 2] = g[i + 2] /\ f[i + 4] = g[i + 4]
        BY <1>6, <3>1
      <3>3. Unescaped(src, f, i) = Unescaped(src, g, i)
        BY <3>2 DEF Unescaped
      <3> QED
        BY <1>3, <3>3
    <2>2. CASE i > Len(src)
      <3>1. Unescaped(src, f, i) = Unescaped(src, g, i)
        BY <2>2 DEF Unescaped
      <3> QED
        BY <1>3, <3>1
    <2> QED
      BY <1>1, <2>1, <2>2
  <1>7. Recursion(S, V, m, rank, H)
    <2> HIDE DEF m, S, V, rank, H
    <2> QED
      BY <1>1, <1>2, <1>5, <1>6 DEF Recursion
  <1>8. \E f \in [S -> V] : \A i \in S : f[i] = H[<<f, i>>]
    <2> HIDE DEF m, S, V, rank, H
    <2> QED
      BY <1>7, RecursiveFunction
  <1>9. PICK f \in [S -> V] : \A i \in S : f[i] = H[<<f, i>>]
    BY <1>8
  <1>10. f = [i \in S |-> Unescaped(src, f, i)]
    BY <1>3, <1>9
  <1>11. rest = [i \in S |-> Unescaped(src, rest, i)]
    BY <1>10
  <1>12. StringInit(src) = rest[1]
    BY DEF StringInit, Unescaped
  <1> HIDE DEF rest
  <1>13. \A i \in S : rest[i] = Unescaped(src, rest, i)
    BY <1>11
  <1> DEFINE P == {k \in Nat : \A i \in S : m - i < k => rest[i] \in V}
  <1>14. 0 \in P
    BY <1>1
  <1>15. ASSUME NEW k \in Nat, k \in P PROVE k + 1 \in P
    <2>1. ASSUME NEW i \in S, m - i < k + 1 PROVE rest[i] \in V
      <3>1. i <= Len(src) => \A j \in {1, 2, 4} : i + j \in S /\ m - (i + j) < k
        BY <1>1, <1>4, <2>1
      <3>2. i <= Len(src) => \A j \in {1, 2, 4} : rest[i + j] \in Seq(Bytes)
        BY <1>15, <3>1
      <3> QED
        BY <1>13, <3>2, UnescapedType
    <2> QED
      BY <2>1
  <1> HIDE DEF P
  <1>16. m + 1 \in P
    BY <1>1, <1>14, <1>15, SetInduction
  <1>17. \A i \in S : rest[i] \in V
    BY <1>1, <1>16 DEF P
  <1>18. rest \in [S -> V]
    BY <1>11, <1>17
  <1> QED
    BY <1>12, <1>13, <1>18

LEMMA StringInitType == ASSUME NEW src \in Seq(Bytes) PROVE StringInit(src) \in Seq(Bytes)
  <1>1. PICK f \in [1..Len(src) + 4 -> Seq(Bytes)] : StringInit(src) = f[1]
    BY StringInitUnfolds
  <1>2. 1 \in 1..Len(src) + 4
    BY LenProperties
  <1> QED
    BY <1>1, <1>2

(***************************************************************************)
(* Multiples.                                                              *)
(***************************************************************************)

LEMMA Remainder ==
    ASSUME NEW n \in Nat, NEW w \in Nat \ {0}
    PROVE  /\ n % w \in 0..w-1
           /\ \E q \in Nat : n = w * q + (n % w)
           /\ (n - (n % w)) % w = 0
  <1> DEFINE q == n \div w
             k == n % w
  <1>1. q \in Nat /\ k \in 0..w-1 /\ n = w * q + k
    OBVIOUS
  <1>2. (w * q) % w = 0
    BY <1>1
  <1> HIDE DEF q, k
  <1>3. n - k = w * q
    BY <1>1
  <1> QED
    BY <1>1, <1>2, <1>3 DEF k

LEMMA RoundedUpCovers ==
    ASSUME NEW n \in Nat
    PROVE  RoundedUp(n) \in Nat /\ RoundedUp(n) >= n /\ RoundedUp(n) % WordSize = 0
  <1> DEFINE m == n + WordSize - 1
  <1>1. WordSize \in Nat \ {0} /\ m \in Nat
    BY WindowsAssumption
  <1>2. m % WordSize \in 0..WordSize-1 /\ (m - (m % WordSize)) % WordSize = 0
    BY <1>1, Remainder
  <1>3. RoundedUp(n) = m - (m % WordSize)
    BY DEF RoundedUp, RoundedDown
  <1> HIDE DEF m
  <1>4. \A k \in 0..WordSize-1 : m - k \in Int /\ m - k >= m - (WordSize - 1)
    BY <1>1
  <1>5. m - (WordSize - 1) = n
    BY <1>1 DEF m
  <1> QED
    BY <1>1, <1>2, <1>3, <1>4, <1>5

(***************************************************************************)
(* Searching.                                                              *)
(***************************************************************************)

\* h is the first member of a set of places, or Nowhere if it has none.
IsFirst(h, places) ==
    IF places = {} THEN h = Nowhere ELSE h \in places /\ \A x \in places : h <= x

LEMMA FirstCell ==
    ASSUME NEW x \in Int, NEW limit \in Int, NEW c
    PROVE  IsFirst(memchr(x, c, limit), {y \in x..limit-1 : win[y + 1] = c})
  <1> DEFINE places == {y \in x..limit-1 : win[y + 1] = c}
  <1>1. CASE places = {}
    BY <1>1 DEF IsFirst, memchr
  <1>2. CASE places # {}
    <2> DEFINE T == {y - x : y \in places}
    <2>1. /\ T \subseteq Nat /\ T # {}
          /\ \A z \in places : z \in Int /\ z - x \in T
      BY <1>2
    <2>2. PICK d \in T : \A e \in T : d <= e
      BY <2>1, LeastMember
    <2>3. PICK y \in places : d = y - x
      BY <2>2
    <2> HIDE DEF T, places
    <2>4. \A z \in places : y <= z
      BY <2>1, <2>2, <2>3
    <2> USE DEF places
    <2>5. y \in x..limit-1 /\ win[y + 1] = c /\ \A z \in x..y-1 : win[z + 1] # c
      BY <2>4
    <2> DEFINE m == memchr(x, c, limit)
    <2>6. m \in x..limit-1 /\ win[m + 1] = c /\ \A z \in x..m-1 : win[z + 1] # c
      <3>1. m = CHOOSE z \in x..limit-1 : win[z + 1] = c /\ \A u \in x..z-1 : win[u + 1] # c
        BY <2>5 DEF memchr
      <3> QED
        BY <2>5, <3>1
    <2> HIDE DEF m
    <2>7. m \in places /\ \A z \in places : m <= z
      BY <2>6
    <2> QED
      BY <1>2, <2>7 DEF IsFirst, m
  <1> QED
    BY <1>1, <1>2

LEMMA MagicOffset ==
    ASSUME NEW s \in Seq(Bytes), s # <<>>
    PROVE  magicoff(s) \in 0..Len(s)-1
  <1> DEFINE n == Len(s)
             score(i) == ScoreTable[s[i]]
             T == {score(i) : i \in 1..n}
  <1>1. n \in Nat /\ n > 0 /\ \A i \in 1..n : s[i] \in Bytes
    BY EmptySeq, LenProperties, ElementOfSeq
  <1>2. T \subseteq Nat /\ T # {}
    BY <1>1, WindowsAssumption
  <1>3. PICK t \in T : \A u \in T : t <= u
    BY <1>2, LeastMember
  <1> DEFINE I == {i \in 0..n-1 : score(i + 1) = t}
  <1>4. I \subseteq Nat /\ I # {}
    <2>1. PICK i \in 1..n : t = score(i)
      BY <1>3
    <2>2. i - 1 \in 0..n-1 /\ (i - 1) + 1 = i
      BY <1>1, <2>1
    <2>3. i - 1 \in I
      BY <2>1, <2>2
    <2>4. \A k \in I : k \in Nat
      BY <1>1
    <2> QED
      BY <2>3, <2>4
  <1>5. PICK i \in I : \A j \in I : i <= j
    BY <1>4, LeastMember
  <1>6. \A j \in 1..n : score(i + 1) <= score(j)
    BY <1>3, <1>5
  <1>7. ASSUME NEW j \in 1..i PROVE score(j) # score(i + 1)
    <2>1. j - 1 \in 0..n-1 /\ (j - 1) + 1 = j /\ ~(i <= j - 1)
      BY <1>1, <1>5
    <2>2. j - 1 \notin I
      BY <1>5, <2>1
    <2> QED
      BY <1>5, <2>1, <2>2
  <1>8. \E k \in 0..Len(s)-1 :
            /\ \A j \in 1..Len(s) : ScoreTable[s[k + 1]] <= ScoreTable[s[j]]
            /\ \A j \in 1..k : ScoreTable[s[j]] # ScoreTable[s[k + 1]]
    BY <1>5, <1>6, <1>7
  <1> QED
    BY <1>8 DEF magicoff

\* One turn of scanner_string's loop at x, if f is what it finds from other cells on.
SearchFrom(s, off, limit, f, x) ==
    LET y == memchr(x, s.bytes[off + 1], limit) IN
    IF x >= limit \/ y = Nowhere THEN Nowhere
    ELSE IF SameBytes(y - off, s.bytes) THEN y - off ELSE f[y + 1]

\* The recursion of the search has a solution.
LEMMA SearchUnfolds ==
    ASSUME NEW s, NEW from \in Nat, NEW n \in Nat, NEW offset,
           s.bytes \in Seq(Bytes), s.bytes # <<>>
    PROVE  LET off == magicoff(s.bytes)
               limit == from + n + off
           IN  \E f : /\ \A x \in from..limit + 1 : f[x] = SearchFrom(s, off, limit, f, x)
                      /\ scanner_string(s, from, n, offset) = f[from + off]
  <1> DEFINE off == magicoff(s.bytes)
             c == s.bytes[off + 1]
             limit == from + n + off
             S == from..limit + 1
             m == n + off + 1
             rank == [x \in S |-> limit + 1 - x]
             H == [z \in [S -> Int] \X S |-> SearchFrom(s, off, limit, z[1], z[2])]
             search == CHOOSE f : f = [x \in S |-> SearchFrom(s, off, limit, f, x)]
  <1>1. off \in Nat
    BY MagicOffset, LenProperties
  <1>2. scanner_string(s, from, n, offset) = search[from + off]
    BY DEF scanner_string, SearchFrom
  <1> HIDE DEF off
  <1>3. limit \in Nat /\ m \in Nat /\ m = limit + 1 - from
    BY <1>1
  <1>4. rank \in [S -> 0..m] /\ \A x \in S : rank[x] = limit + 1 - x
    BY <1>1, <1>3
  <1>5. \A f \in [S -> Int], x \in S : H[<<f, x>>] = SearchFrom(s, off, limit, f, x)
    OBVIOUS
  <1> HIDE DEF rank, H, search
  <1>6. ASSUME NEW x \in S PROVE memchr(x, c, limit) = Nowhere \/ memchr(x, c, limit) \in x..limit-1
    <2>1. x \in Int /\ limit \in Int
      BY <1>3
    <2> QED
      BY <2>1, FirstCell DEF IsFirst
  <1> HIDE DEF limit
  <1>7. ASSUME NEW f \in [S -> Int], NEW x \in S PROVE SearchFrom(s, off, limit, f, x) \in Int
    <2> DEFINE y == memchr(x, c, limit)
    <2>1. CASE x >= limit \/ y = Nowhere
      BY <2>1 DEF SearchFrom, Nowhere
    <2>2. CASE y \in x..limit-1 /\ ~(x >= limit \/ y = Nowhere)
      <3>1. y \in Int /\ y + 1 \in S
        <4>1. y \in Int /\ x \in Int /\ from <= x /\ x <= y /\ y < limit
          BY <1>3, <2>2
        <4> HIDE DEF y
        <4> QED
          BY <1>3, <4>1
      <3>2. f[y + 1] \in Int /\ y - off \in Int
        BY <1>1, <3>1
      <3> HIDE DEF y
      <3> QED
        BY <2>2, <3>2 DEF SearchFrom, y
    <2> QED
      BY <1>6, <2>1, <2>2
  <1>8. ASSUME NEW f \in [S -> Int], NEW g \in [S -> Int], NEW x \in S,
               \A z \in S : rank[z] < rank[x] => f[z] = g[z]
        PROVE  SearchFrom(s, off, limit, f, x) = SearchFrom(s, off, limit, g, x)
    <2> DEFINE y == memchr(x, c, limit)
    <2>1. CASE x >= limit \/ y = Nowhere
      BY <2>1 DEF SearchFrom
    <2>2. CASE y \in x..limit-1
      <3>1. y + 1 \in S /\ rank[y + 1] < rank[x]
        <4>1. y \in Int /\ x \in Int /\ limit \in Int /\ from <= x /\ x <= y /\ y < limit
          BY <1>3, <2>2
        <4> HIDE DEF y
        <4>2. y + 1 \in S
          BY <1>3, <4>1
        <4>3. rank[y + 1] = limit + 1 - (y + 1) /\ rank[x] = limit + 1 - x
          BY <1>4, <4>2
        <4> QED
          BY <4>1, <4>2, <4>3
      <3>2. f[y + 1] = g[y + 1]
        BY <1>8, <3>1
      <3> QED
        BY <3>2 DEF SearchFrom
    <2> QED
      BY <1>6, <2>1, <2>2
  <1>9. \E f \in [S -> Int] : \A x \in S : f[x] = H[<<f, x>>]
    <2> HIDE DEF S, m
    <2>1. \A f \in [S -> Int], x \in S : H[<<f, x>>] \in Int
      BY <1>5, <1>7
    <2>2. \A f, g \in [S -> Int], x \in S :
              (\A z \in S : rank[z] < rank[x] => f[z] = g[z]) => H[<<f, x>>] = H[<<g, x>>]
      <3> SUFFICES ASSUME NEW f \in [S -> Int], NEW g \in [S -> Int], NEW x \in S,
                          \A z \in S : rank[z] < rank[x] => f[z] = g[z]
                   PROVE  H[<<f, x>>] = H[<<g, x>>]
        OBVIOUS
      <3>1. SearchFrom(s, off, limit, f, x) = SearchFrom(s, off, limit, g, x)
        BY <1>8
      <3> QED
        BY <1>5, <3>1
    <2>3. Int # {}
      OBVIOUS
    <2>4. Recursion(S, Int, m, rank, H)
      BY <1>3, <1>4, <2>1, <2>2, <2>3 DEF Recursion
    <2> QED
      BY <2>4, RecursiveFunction
  <1>10. PICK f \in [S -> Int] : \A x \in S : f[x] = H[<<f, x>>]
    BY <1>9
  <1>11. f = [x \in S |-> SearchFrom(s, off, limit, f, x)]
    BY <1>5, <1>10
  <1>12. search = [x \in S |-> SearchFrom(s, off, limit, search, x)]
    BY <1>11 DEF search
  <1>13. \A x \in S : search[x] = SearchFrom(s, off, limit, search, x)
    BY <1>12
  <1> QED
    BY <1>2, <1>13 DEF limit, off

\* Searching for the rarest byte finds the first place where the whole string is.
LEMMA FirstString ==
    ASSUME NEW s, NEW from \in Nat, NEW n \in Nat, NEW offset,
           s.bytes \in Seq(Bytes), s.bytes # <<>>
    PROVE  IsFirst(scanner_string(s, from, n, offset),
                   {h \in from..from + n - 1 : SameBytes(h, s.bytes)})
  <1> DEFINE off == magicoff(s.bytes)
             c == s.bytes[off + 1]
             limit == from + n + off
             S == from..limit + 1
             places(x) == {h \in x-off..from+n-1 : SameBytes(h, s.bytes)}
  <1>1. off \in Nat /\ off + 1 \in 1..Len(s.bytes)
    BY MagicOffset, LenProperties
  <1>2. PICK f : /\ \A x \in S : f[x] = SearchFrom(s, off, limit, f, x)
                 /\ scanner_string(s, from, n, offset) = f[from + off]
    BY SearchUnfolds
  <1> HIDE DEF off
  <1>3. \A h \in Int : SameBytes(h, s.bytes) => win[(h + off) + 1] = c
    <2> SUFFICES ASSUME NEW h \in Int, SameBytes(h, s.bytes) PROVE win[(h + off) + 1] = c
      OBVIOUS
    <2>1. win[h + (off + 1)] = s.bytes[off + 1]
      BY <1>1 DEF SameBytes
    <2>2. h + (off + 1) = (h + off) + 1
      BY <1>1
    <2> QED
      BY <2>1, <2>2
  <1>4. limit \in Nat /\ from + off \in S
    BY <1>1
  <1> DEFINE P == {k \in Nat : \A x \in from+off..limit+1 : limit + 1 - x < k => IsFirst(f[x], places(x))}
  <1>5. 0 \in P
    BY <1>1, <1>4
  <1>6. ASSUME NEW k \in Nat, k \in P PROVE k + 1 \in P
    <2>1. ASSUME NEW x \in from+off..limit+1, limit + 1 - x < k + 1
          PROVE  IsFirst(f[x], places(x))
      <3> DEFINE y == memchr(x, c, limit)
                 cells == {z \in x..limit-1 : win[z + 1] = c}
      <3>1. IsFirst(y, cells)
        BY <1>4, FirstCell
      <3>2. x \in S /\ f[x] = SearchFrom(s, off, limit, f, x)
        BY <1>1, <1>2
      <3>3. \A h \in places(x) : h \in Int /\ h + off \in cells
        <4> SUFFICES ASSUME NEW h \in places(x) PROVE h \in Int /\ h + off \in cells
          OBVIOUS
        <4>1. h \in Int /\ h + off \in x..limit-1
          BY <1>1
        <4> QED
          BY <1>3, <4>1
      <3> HIDE DEF y, cells
      <3>4. CASE x >= limit \/ y = Nowhere
        <4>1. f[x] = Nowhere
          BY <3>2, <3>4 DEF SearchFrom, y
        <4>2. cells = {}
          BY <1>1, <1>4, <3>1, <3>4 DEF IsFirst, Nowhere, cells
        <4> QED
          BY <3>3, <4>1, <4>2 DEF IsFirst
      <3>5. CASE ~(x >= limit \/ y = Nowhere)
        <4>1. y \in cells /\ \A z \in cells : y <= z
          BY <3>1, <3>5 DEF IsFirst
        <4>2. y \in x..limit-1
          BY <4>1 DEF cells
        <4>3. \A h \in places(x) : y - off <= h
          BY <1>1, <3>3, <4>1, <4>2
        <4>4. y - off \in x-off..from+n-1
          BY <1>1, <4>2
        <4>5. CASE SameBytes(y - off, s.bytes)
          <5>1. f[x] = y - off
            BY <3>2, <3>5, <4>5 DEF SearchFrom, y
          <5>2. y - off \in places(x)
            BY <4>4, <4>5
          <5> HIDE DEF places
          <5> QED
            BY <4>3, <5>1, <5>2 DEF IsFirst
        <4>6. CASE ~SameBytes(y - off, s.bytes)
          <5>1. f[x] = f[y + 1]
            BY <3>2, <3>5, <4>6 DEF SearchFrom, y
          <5>2. y + 1 \in from+off..limit+1 /\ limit + 1 - (y + 1) < k
            BY <1>1, <1>4, <2>1, <4>2
          <5>3. IsFirst(f[y + 1], places(y + 1))
            BY <1>6, <5>2
          <5>4. \A h \in places(x) : h \in places(y + 1)
            <6> SUFFICES ASSUME NEW h \in places(x) PROVE h \in places(y + 1)
              OBVIOUS
            <6>1. h # y - off /\ y - off <= h
              BY <4>3, <4>6
            <6> QED
              BY <1>1, <4>2, <6>1
          <5>5. \A h \in places(y + 1) : h \in places(x)
            BY <1>1, <4>2
          <5>6. places(x) = places(y + 1)
            <6> HIDE DEF places
            <6>1. places(x) \subseteq Int /\ places(y + 1) \subseteq Int
              BY DEF places
            <6> QED
              BY <5>4, <5>5
          <5> QED
            BY <5>1, <5>3, <5>6
        <4> QED
          BY <4>5, <4>6
      <3> QED
        BY <3>4, <3>5
    <2> HIDE DEF places
    <2> QED
      BY <2>1
  <1> DEFINE d == limit + 1 - (from + off)
  <1>7. d \in Nat /\ d < d + 1
    BY <1>1
  <1>8. d + 1 \in P
    <2> HIDE DEF P, d
    <2> QED
      BY <1>5, <1>6, <1>7, SetInduction
  <1>9. IsFirst(f[from + off], places(from + off))
    <2>1. from + off \in from+off..limit+1
      BY <1>1, <1>4
    <2> HIDE DEF places
    <2> QED
      BY <1>7, <1>8, <2>1
  <1>10. from + off - off = from
    BY <1>1
  <1>11. places(from + off) = {h \in from..from + n - 1 : SameBytes(h, s.bytes)}
    <2> DEFINE A == places(from + off)
               B == {h \in from..from + n - 1 : SameBytes(h, s.bytes)}
    <2>1. \A h \in Int : h \in A <=> h \in B
      BY <1>1, <1>10
    <2>2. A \subseteq Int /\ B \subseteq Int
      BY <1>1
    <2> HIDE DEF A, B
    <2>3. A = B
      BY <2>1, <2>2
    <2> QED
      BY <2>3 DEF A, B
  <1> QED
    BY <1>2, <1>9, <1>11

LEMMA NextMultiple ==
    ASSUME NEW t \in Nat, NEW b \in Nat \ {0}
    PROVE  \E e \in 0..b-1 :
               /\ e = t % b
               /\ e # 0 => (t + (b - e)) % b = 0
               /\ \A k \in 1..b-e-1 : (t + k) % b # 0
  <1>1. PICK q \in Nat : t = b * q + (t % b)
    BY Remainder
  <1> DEFINE e == t % b
  <1>2. e \in 0..b-1 /\ t = b * q + e
    BY <1>1, Remainder
  <1> HIDE DEF e
  <1>3. (t + (b - e)) % b = 0
    <2>1. t + (b - e) = b * q + b
      BY <1>2
    <2>2. b * q + b = b * (q + 1)
      OBVIOUS
    <2>3. (b * (q + 1)) % b = 0
      OBVIOUS
    <2> QED
      BY <2>1, <2>2, <2>3
  <1>4. ASSUME NEW k \in 1..b-e-1 PROVE (t + k) % b # 0
    <2>1. e + k \in 1..b-1 /\ e + k \in 0..b-1
      BY <1>2
    <2>2. t + k = b * q + (e + k)
      BY <1>2
    <2>3. \A c \in 0..b-1 : (b * q + c) % b = c
      OBVIOUS
    <2> QED
      BY <2>1, <2>2, <2>3
  <1> QED
    BY <1>2, <1>3, <1>4 DEF e

Operations ==
    [func : {"string"}, offset : Nat, bytes : Seq(Bytes)] \cup
    [func : {"int32"}, offset : Nat, mask : [1..4 -> SUBSET (0..7)], val : [1..4 -> SUBSET (0..7)]]

RecipeSet == [id : Nat \X (STRING \cup {""}), ops : Seq(Operations), set : SUBSET STRING]

\* The scanners the program can make.
ScannerSet ==
    {s \in [func : {"none", "char", "block", "string"}, offset : Nat, bytes : Seq(Bytes),
            block : Nat, recipes : Seq(RecipeSet)] :
        /\ s.func = "none" => s = NoScanner
        /\ s.func = "char" => Len(s.bytes) = 1
        /\ s.func = "string" => Len(s.bytes) > 1
        /\ s.func = "block" => s.block # 0 /\ s.offset = 0 /\ s.bytes = <<>>}

ListedScanners == {s \in ScannerSet : s.func # "none"}

\* What a scanner looks for is at cell h.
Candidate(s, h) ==
    IF s.func = "block" THEN (filepos + h) % s.block = 0 ELSE SameBytes(h, s.bytes)

LEMMA FirstMultiple ==
    ASSUME NEW s, NEW from \in Nat, NEW n \in Nat \ {0}, filepos \in Nat,
           s.func = "block", s.block \in Nat \ {0}
    PROVE  IsFirst(scanner_block(s, from, n, filepos + from),
                   {h \in from..from + n - 1 : Candidate(s, h)})
  <1> DEFINE b == s.block
             t == filepos + from
             places == {h \in from..from + n - 1 : Candidate(s, h)}
             hit == scanner_block(s, from, n, filepos + from)
  <1> SUFFICES IsFirst(hit, places)
    OBVIOUS
  <1>1. t \in Nat /\ b \in Nat \ {0}
    OBVIOUS
  <1>2. PICK e \in 0..b-1 :
            /\ e = t % b
            /\ e # 0 => (t + (b - e)) % b = 0
            /\ \A k \in 1..b-e-1 : (t + k) % b # 0
    BY <1>1, NextMultiple
  <1>3. hit = IF e = 0 THEN from ELSE IF b - e < n THEN from + b - e ELSE Nowhere
    BY <1>2 DEF scanner_block
  <1>4. \A h \in Int : Candidate(s, h) <=> (filepos + h) % b = 0
    BY DEF Candidate
  <1>5. CASE e = 0
    <2>1. from \in places
      BY <1>2, <1>4, <1>5
    <2> QED
      BY <1>3, <1>5, <2>1 DEF IsFirst
  <1>6. ASSUME e # 0, NEW h \in from..from+n-1, h < from + b - e PROVE h \notin places
    <2>1. CASE h = from
      BY <1>2, <1>4, <1>6, <2>1
    <2>2. CASE h # from
      <3> DEFINE k == h - from
      <3>1. k \in 1..b-e-1 /\ filepos + h = t + k
        BY <1>6, <2>2
      <3>2. (t + k) % b # 0
        BY <1>2, <3>1
      <3> QED
        BY <1>4, <3>1, <3>2
    <2> QED
      BY <2>1, <2>2
  <1>7. CASE e # 0 /\ b - e < n
    <2> DEFINE h == from + b - e
    <2>1. h \in from..from+n-1 /\ filepos + h = t + (b - e)
      BY <1>1, <1>2, <1>7
    <2>2. h \in places
      BY <1>2, <1>4, <1>7, <2>1
    <2>3. \A x \in places : h <= x
      <3> SUFFICES ASSUME NEW x \in places PROVE h <= x
        OBVIOUS
      <3>1. x \in from..from+n-1 /\ ~(x < h)
        BY <1>6, <1>7
      <3> QED
        BY <1>1, <1>2, <3>1
    <2> HIDE DEF places
    <2> QED
      BY <1>3, <1>7, <2>2, <2>3 DEF IsFirst
  <1>8. CASE e # 0 /\ ~(b - e < n)
    <2>1. places = {}
      <3> SUFFICES ASSUME NEW x \in places PROVE FALSE
        OBVIOUS
      <3>1. x \in from..from+n-1 /\ x < from + b - e
        BY <1>1, <1>2, <1>8
      <3> QED
        BY <1>6, <1>8, <3>1
    <2> HIDE DEF places
    <2> QED
      BY <1>3, <1>8, <2>1 DEF IsFirst
  <1> QED
    BY <1>5, <1>7, <1>8

\* Each scanner function finds the first place from there on of what it looks for.
THEOREM FuncFindsFirst ==
    ASSUME NEW s \in ListedScanners, NEW from \in Nat, NEW n \in Nat \ {0}, filepos \in Nat
    PROVE  IsFirst(Func(s, from, n, filepos + from), {h \in from..from + n - 1 : Candidate(s, h)})
  <1> DEFINE places == {h \in from..from + n - 1 : Candidate(s, h)}
  <1>1. CASE s.func = "block"
    <2>1. s.block \in Nat \ {0}
      BY <1>1 DEF ListedScanners, ScannerSet
    <2>2. Func(s, from, n, filepos + from) = scanner_block(s, from, n, filepos + from)
      BY <1>1 DEF Func
    <2> QED
      BY <1>1, <2>1, <2>2, FirstMultiple
  <1>2. CASE s.func = "string"
    <2>1. s.bytes \in Seq(Bytes) /\ s.bytes # <<>>
      BY <1>2, EmptySeq DEF ListedScanners, ScannerSet
    <2>2. Func(s, from, n, filepos + from) = scanner_string(s, from, n, filepos + from)
      BY <1>2 DEF Func
    <2>3. places = {h \in from..from + n - 1 : SameBytes(h, s.bytes)}
      BY <1>2 DEF Candidate
    <2> QED
      BY <2>1, <2>2, <2>3, FirstString
  <1>3. CASE s.func = "char"
    <2>1. Len(s.bytes) = 1
      BY <1>3 DEF ListedScanners, ScannerSet
    <2>2. Func(s, from, n, filepos + from) = memchr(from, s.bytes[1], from + n)
      BY <1>3 DEF Func, scanner_char
    <2>3. \A h \in Int : Candidate(s, h) <=> win[h + 1] = s.bytes[1]
      BY <1>3, <2>1 DEF Candidate, SameBytes
    <2>4. places = {h \in from..from + n - 1 : win[h + 1] = s.bytes[1]}
      BY <2>3
    <2>5. from \in Int /\ from + n \in Int
      OBVIOUS
    <2> QED
      BY <2>2, <2>4, <2>5, FirstCell
  <1> QED
    BY <1>1, <1>2, <1>3 DEF ListedScanners, ScannerSet

(***************************************************************************)
(* Types.                                                                  *)
(***************************************************************************)

OptionRecords == [opt : {"b", "d", "r"}, block : Int, found : BOOLEAN, files : Seq(STRING)]

ITypes ==
    /\ pc \in {"options", "open", "line", "scanner", "search", "done", "failed"}
    /\ args \in CommandLines /\ optind \in 1..Len(args) + 1 /\ output_dir \in BOOLEAN
    /\ global \in ScannerSet /\ global.func \in {"none", "block"}
    /\ todo \in Seq(STRING) /\ line \in Nat \ {0}
    /\ r \in RecipeSet /\ scanner \in ScannerSet
    /\ scanners \in Seq(ListedScanners) /\ overlap \in Nat
    /\ filepos \in Nat /\ sc \in 1..Len(scanners) + 1 /\ p \in Nat
    /\ pc = "line" => todo # <<>> /\ Head(todo) \in DOMAIN Files
    /\ pc = "search" => sc \in 1..Len(scanners) /\ scanners[sc].offset <= p

LEMMA Arguments ==
    ASSUME args \in CommandLines
    PROVE  /\ args \in Seq(OptionRecords) /\ Len(args) \in Nat /\ DOMAIN args = 1..Len(args)
           /\ \A a \in 1..Len(args) :
                /\ args[a] \in OptionRecords
                /\ \A j, k \in DOMAIN args[a].files : args[a].files[j] = args[a].files[k] => j = k
  <1>1. args \in Seq(OptionRecords)
    BY CommandLinesAssumption DEF OptionRecords
  <1> QED
    BY <1>1, CommandLinesAssumption, LenProperties, ElementOfSeq

LEMMA ScannerFields ==
    ASSUME NEW s \in ScannerSet
    PROVE  /\ s.func \in {"none", "char", "block", "string"} /\ s.offset \in Nat
           /\ s.bytes \in Seq(Bytes) /\ Len(s.bytes) \in Nat /\ s.block \in Nat
           /\ s.recipes \in Seq(RecipeSet)
           /\ s.func = "none" => s = NoScanner
           /\ s.func = "char" => Len(s.bytes) = 1
           /\ s.func = "string" => Len(s.bytes) > 1
           /\ s.func = "block" => s.block # 0 /\ s.offset = 0 /\ s.bytes = <<>>
  BY LenProperties DEF ScannerSet

LEMMA NoScannerType == NoScanner \in ScannerSet /\ NoScanner.func = "none" /\ NoRecipe \in RecipeSet
  <1>1. Len(<<>>) = 0 /\ <<>> \in Seq(Bytes) /\ <<>> \in Seq(RecipeSet) /\ <<>> \in Seq(Operations)
    BY EmptySeq
  <1>2. NoScanner \in ScannerSet /\ NoScanner.func = "none"
    BY <1>1 DEF NoScanner, ScannerSet
  <1>3. NoRecipe \in RecipeSet
    <2> DEFINE id == <<0, "">>
    <2>1. "" \in STRING \cup {""} /\ 0 \in Nat
      OBVIOUS
    <2>2. id \in Nat \X (STRING \cup {""}) /\ {} \in SUBSET STRING
      BY <2>1
    <2> HIDE DEF id
    <2>3. [id |-> id, ops |-> <<>>, set |-> {}] \in RecipeSet
      BY <1>1, <2>2 DEF RecipeSet
    <2> QED
      BY <2>3 DEF NoRecipe, id
  <1> QED
    BY <1>2, <1>3

BlockScanner(b) == [NoScanner EXCEPT !.func = "block", !.block = b]

LEMMA BlockScannerType ==
    ASSUME NEW b \in Nat \ {0}
    PROVE  /\ BlockScanner(b) \in ScannerSet
           /\ BlockScanner(b).func = "block" /\ BlockScanner(b).block = b
           /\ BlockScanner(b).offset = 0 /\ BlockScanner(b).bytes = <<>>
  <1>1. Len(<<>>) = 0 /\ <<>> \in Seq(Bytes) /\ <<>> \in Seq(RecipeSet)
    BY EmptySeq
  <1> DEFINE s == BlockScanner(b)
  <1>2. /\ s \in [func : {"block"}, offset : Nat, bytes : Seq(Bytes), block : Nat, recipes : Seq(RecipeSet)]
        /\ s.func = "block" /\ s.block = b /\ s.offset = 0 /\ s.bytes = <<>>
    BY <1>1 DEF NoScanner, BlockScanner
  <1> HIDE DEF s
  <1>3. s \in ScannerSet
    BY <1>1, <1>2 DEF ScannerSet
  <1> QED
    BY <1>2, <1>3 DEF s

\* The words of a match line or a directive, and what is made of the first one.
LEMMA LineTypes ==
    ASSUME ITypes, pc = "line", line <= Len(File.lines)
    PROVE  /\ File \in [lines : Seq(Line), newline : BOOLEAN] /\ Len(File.lines) \in Nat
           /\ line \in 1..Len(File.lines) /\ File.lines[line] \in Line
           /\ LineOffset \in Nat
           /\ File.lines[line].is # "ignored" =>
                /\ Words \in Seq(Seq(Bytes)) /\ Words # <<>> /\ Len(Words) \in Nat \ {0}
                /\ Words[1] \in Seq(Bytes) /\ Param \in Seq(Bytes) /\ Len(Param) \in Nat
  <1> DEFINE l == File.lines[line]
             w == l.words
             final == w[Len(w)]
  <1>1. File \in [lines : Seq(Line), newline : BOOLEAN] /\ File.lines \in Seq(Line)
    BY FilesAssumption DEF File, ITypes
  <1>2. Len(File.lines) \in Nat /\ line \in 1..Len(File.lines)
    BY <1>1, LenProperties DEF ITypes
  <1>3. l \in Line
    BY <1>1, <1>2, ElementOfSeq
  <1>4. LineOffset \in Nat /\ w \in Seq(Seq(Bytes))
    BY <1>3 DEF Line, LineOffset
  <1>5. ASSUME l.is # "ignored"
        PROVE  /\ Words \in Seq(Seq(Bytes)) /\ Words # <<>> /\ Len(Words) \in Nat \ {0}
               /\ Words[1] \in Seq(Bytes) /\ Param \in Seq(Bytes) /\ Len(Param) \in Nat
    <2>1. w # <<>>
      <3>1. line \in DOMAIN File.lines
        BY <1>1, <1>2, LenProperties
      <3> QED
        BY <1>5, <3>1, FilesAssumption DEF File, ITypes
    <2>2. Len(w) \in 1..Len(w) /\ Len(w) \in Nat
      BY <1>4, <2>1, EmptySeq
    <2>3. final \in Seq(Bytes)
      BY <1>4, <2>2, ElementOfSeq
    <2> DEFINE cut == SubSeq(final, 1, Len(final) - 1)
    <2>4. cut \in Seq(Bytes)
      <3> HIDE DEF final
      <3>1. Len(final) \in Nat /\ \A i \in 1..Len(final) : final[i] \in Bytes
        BY <2>3, LenProperties, ElementOfSeq
      <3> QED
        BY <3>1, SubSeqProperties
    <2>5. [w EXCEPT ![Len(w)] = cut] \in Seq(Seq(Bytes)) /\ Len([w EXCEPT ![Len(w)] = cut]) = Len(w)
      BY <1>4, <2>2, <2>4, ExceptSeq
    <2>6. Words = w \/ Words = [w EXCEPT ![Len(w)] = cut]
      BY DEF Words
    <2> HIDE DEF cut, w
    <2>7. Words \in Seq(Seq(Bytes)) /\ Len(Words) = Len(w)
      BY <1>4, <2>5, <2>6
    <2>8. Words # <<>> /\ Len(Words) \in Nat \ {0} /\ 1 \in 1..Len(Words)
      BY <2>2, <2>7, EmptySeq
    <2>9. Words[1] \in Seq(Bytes)
      BY <2>7, <2>8, ElementOfSeq
    <2>10. Param \in Seq(Bytes)
      BY <2>9, StringInitType DEF Param
    <2> QED
      BY <2>7, <2>8, <2>9, <2>10, LenProperties
  <1> QED
    BY <1>1, <1>2, <1>3, <1>4, <1>5

LEMMA BitsType == \A b : Bits(b) \subseteq 0..7
  BY DEF Bits

LEMMA NewScannerType ==
    ASSUME ITypes, AtLine("match"), BecomesScanner
    PROVE  /\ NewScanner \in ScannerSet /\ NewScanner.func \in {"char", "string"}
           /\ NewScanner.offset = LineOffset /\ NewScanner.bytes = Param /\ NewScanner.block = 0
  <1>1. LineOffset \in Nat /\ Param \in Seq(Bytes) /\ Len(Param) \in Nat
    BY LineTypes DEF AtLine
  <1>2. Len(Param) > 0
    BY <1>1, EmptySeq DEF BecomesScanner
  <1>3. <<>> \in Seq(RecipeSet)
    BY EmptySeq
  <1> DEFINE k == IF Len(Param) = 1 THEN "char" ELSE "string"
  <1>4. k \in {"char", "string"} /\ (k = "char" <=> Len(Param) = 1)
    OBVIOUS
  <1> HIDE DEF k
  <1> DEFINE n == [NoScanner EXCEPT !.func = k, !.offset = LineOffset, !.bytes = Param]
  <1>5. NewScanner = n
    BY DEF NewScanner, k
  <1>6. /\ n \in [func : {"char", "string"}, offset : Nat, bytes : Seq(Bytes), block : Nat,
                 recipes : Seq(RecipeSet)]
        /\ n.func = k /\ n.offset = LineOffset /\ n.bytes = Param /\ n.block = 0
    BY <1>1, <1>3, <1>4 DEF NoScanner
  <1> HIDE DEF n
  <1> QED
    BY <1>1, <1>2, <1>4, <1>5, <1>6 DEF ScannerSet

LEMMA NewOperationType ==
    ASSUME ITypes, AtLine("match")
    PROVE  NewOperation \in Operations /\ OpEnd(NewOperation) = LineOffset + ReadLen /\ ReadLen \in Nat
  <1>1. LineOffset \in Nat /\ Param \in Seq(Bytes) /\ Len(Param) \in Nat
    BY LineTypes DEF AtLine
  <1>2. CASE IsString
    BY <1>1, <1>2 DEF NewOperation, Operations, OpEnd, ReadLen
  <1>3. CASE ~IsString
    <2> DEFINE M == [j \in 1..4 |-> Bits(HexBytes(Words[2])[j])]
               V == [j \in 1..4 |-> Bits(HexBytes(Words[1])[j]) \cap Bits(HexBytes(Words[2])[j])]
    <2>1. M \in [1..4 -> SUBSET (0..7)]
      BY BitsType
    <2>2. V \in [1..4 -> SUBSET (0..7)]
      BY BitsType
    <2>3. NewOperation = [func |-> "int32", offset |-> LineOffset, mask |-> M, val |-> V]
      BY <1>3 DEF NewOperation
    <2> HIDE DEF M, V
    <2> QED
      BY <1>1, <1>3, <2>1, <2>2, <2>3 DEF Operations, OpEnd, ReadLen
  <1> QED
    BY <1>2, <1>3

(***************************************************************************)
(* What scanner_add_or_reuse does to the list.                             *)
(***************************************************************************)

\* Recipe j of scanner i.
At(list, i, j) == i \in 1..Len(list) /\ j \in 1..Len(list[i].recipes)

\* The list has become new: the recipe is under scanner x, which is like s, as its
\* recipe y, and everything else is where it was.
Added(new, s, recipe, x, y) ==
    /\ Len(new) >= Len(scanners)
    /\ At(new, x, y) /\ ~At(scanners, x, y)
    /\ new[x].recipes[y] = recipe /\ SameScanner(new[x], s)
    /\ \A i, j : At(scanners, i, j) => At(new, i, j) /\ new[i].recipes[j] = scanners[i].recipes[j]
    /\ \A i, j : At(new, i, j) => At(scanners, i, j) \/ (i = x /\ j = y)
    /\ \A i \in 1..Len(scanners) : SameScanner(new[i], scanners[i])
    /\ \A i \in 1..Len(new) : i \in 1..Len(scanners) \/ i = x
    /\ x \notin 1..Len(scanners) => \A i \in 1..Len(scanners) : ~SameScanner(s, scanners[i])

LEMMA AddRecipeAdds ==
    ASSUME scanners \in Seq(ListedScanners), NEW s \in ListedScanners, NEW recipe \in RecipeSet
    PROVE  /\ AddRecipe(s, recipe) \in Seq(ListedScanners)
           /\ \E x, y : Added(AddRecipe(s, recipe), s, recipe, x, y)
  <1> DEFINE new == AddRecipe(s, recipe)
             n == Len(scanners)
  <1>1. n \in Nat /\ DOMAIN scanners = 1..n /\ \A i \in 1..n : scanners[i] \in ListedScanners
    BY LenProperties, ElementOfSeq
  <1>2. \A i \in 1..n : scanners[i].recipes \in Seq(RecipeSet) /\ Len(scanners[i].recipes) \in Nat
    BY <1>1, LenProperties DEF ListedScanners, ScannerSet
  <1>3. CASE Same(s) = {}
    <2> DEFINE e == [s EXCEPT !.recipes = <<recipe>>]
    <2>1. <<recipe>> \in Seq(RecipeSet) /\ Len(<<recipe>>) = 1 /\ <<recipe>>[1] = recipe
      OBVIOUS
    <2>2. e \in ListedScanners /\ SameScanner(e, s) /\ e.recipes = <<recipe>>
      BY <2>1, NoScannerType DEF ListedScanners, ScannerSet, SameScanner
    <2>3. new = Append(scanners, e)
      BY <1>3 DEF AddRecipe
    <2> HIDE DEF new, e
    <2>4. /\ new \in Seq(ListedScanners) /\ Len(new) = n + 1
          /\ \A i \in 1..n : new[i] = scanners[i]
          /\ new[n + 1] = e
      BY <2>2, <2>3, AppendProperties
    <2>5. \A i \in 1..n : ~SameScanner(s, scanners[i])
      BY <1>1, <1>3 DEF Same
    <2>6. n + 1 \in 1..Len(new) /\ n + 1 \notin 1..n /\ Len(new[n + 1].recipes) = 1
           /\ new[n + 1].recipes[1] = recipe /\ 1 \in 1..1 /\ \A j \in 1..1 : j = 1
      <3>1. n + 1 \in 1..Len(new) /\ n + 1 \notin 1..n
        BY <1>1, <2>4
      <3>2. new[n + 1].recipes = <<recipe>>
        BY <2>2, <2>4
      <3> QED
        BY <2>1, <3>1, <3>2
    <2>7. At(new, n + 1, 1) /\ ~At(scanners, n + 1, 1) /\ new[n + 1].recipes[1] = recipe
      BY <2>6 DEF At
    <2>8. \A i, j : At(scanners, i, j) => At(new, i, j) /\ new[i].recipes[j] = scanners[i].recipes[j]
      BY <1>1, <2>4 DEF At
    <2>9. \A i, j : At(new, i, j) => At(scanners, i, j) \/ (i = n + 1 /\ j = 1)
      <3> SUFFICES ASSUME NEW i, NEW j, At(new, i, j)
                   PROVE  At(scanners, i, j) \/ (i = n + 1 /\ j = 1)
        OBVIOUS
      <3>1. CASE i = n + 1
        BY <2>6, <3>1 DEF At
      <3>2. CASE i # n + 1
        <4>1. i \in 1..n
          BY <1>1, <2>4, <3>2 DEF At
        <4> QED
          BY <2>4, <4>1 DEF At
      <3> QED
        BY <3>1, <3>2
    <2>10. \A i \in 1..n : SameScanner(new[i], scanners[i])
      BY <2>4 DEF SameScanner
    <2>11. Added(new, s, recipe, n + 1, 1)
      BY <1>1, <2>2, <2>4, <2>5, <2>7, <2>8, <2>9, <2>10 DEF Added
    <2> QED
      BY <2>4, <2>11 DEF new
  <1>4. CASE Same(s) # {}
    <2> DEFINE x == CHOOSE i \in Same(s) : \A j \in Same(s) : i <= j
    <2>1. Same(s) \subseteq Nat
      BY <1>1 DEF Same
    <2>2. \E i \in Same(s) : \A j \in Same(s) : i <= j
      BY <1>4, <2>1, LeastMember
    <2>3. x \in Same(s)
      BY <2>2
    <2>4. new = [scanners EXCEPT ![x].recipes = Append(@, recipe)]
      BY <1>4 DEF AddRecipe
    <2> HIDE DEF x
    <2>5. x \in 1..n /\ SameScanner(s, scanners[x])
      BY <1>1, <2>3 DEF Same
    <2> DEFINE old == scanners[x]
               m == Len(old.recipes)
               e == [old EXCEPT !.recipes = Append(@, recipe)]
    <2>6. /\ Append(old.recipes, recipe) \in Seq(RecipeSet) /\ m \in Nat
          /\ Len(Append(old.recipes, recipe)) = m + 1
          /\ \A j \in 1..m : Append(old.recipes, recipe)[j] = old.recipes[j]
          /\ Append(old.recipes, recipe)[m + 1] = recipe
      BY <1>2, <2>5, AppendProperties
    <2>7. old \in ListedScanners
      BY <1>1, <2>5
    <2>8. e \in ListedScanners /\ SameScanner(e, old) /\ e.recipes = Append(old.recipes, recipe)
      BY <2>6, <2>7, NoScannerType DEF ListedScanners, ScannerSet, SameScanner
    <2>9. new = [scanners EXCEPT ![x] = e]
      BY <1>1, <2>4, <2>5
    <2>10. SameScanner(e, s)
      BY <2>5, <2>8 DEF SameScanner
    <2> HIDE DEF new, e
    <2>11. /\ new \in Seq(ListedScanners) /\ Len(new) = n
           /\ \A i \in 1..n : new[i] = IF i = x THEN e ELSE scanners[i]
      BY <2>5, <2>8, <2>9, ExceptSeq
    <2>12. new[x] = e /\ \A i \in 1..n : i # x => new[i] = scanners[i]
      BY <2>5, <2>11
    <2>13. At(new, x, m + 1) /\ ~At(scanners, x, m + 1) /\ new[x].recipes[m + 1] = recipe
      BY <2>5, <2>6, <2>8, <2>11, <2>12 DEF At
    <2>14. \A i, j : At(scanners, i, j) => At(new, i, j) /\ new[i].recipes[j] = scanners[i].recipes[j]
      <3> SUFFICES ASSUME NEW i, NEW j, At(scanners, i, j)
                   PROVE  At(new, i, j) /\ new[i].recipes[j] = scanners[i].recipes[j]
        OBVIOUS
      <3>1. CASE i = x
        <4>1. j \in 1..m /\ j \in 1..m + 1
          BY <2>6, <3>1 DEF At
        <4>2. new[x].recipes = Append(old.recipes, recipe)
          BY <2>8, <2>12
        <4>3. Len(new[x].recipes) = m + 1 /\ new[x].recipes[j] = old.recipes[j]
          BY <2>6, <4>1, <4>2
        <4> QED
          BY <2>5, <2>11, <3>1, <4>1, <4>3 DEF At
      <3>2. CASE i # x
        BY <2>11, <2>12, <3>2 DEF At
      <3> QED
        BY <3>1, <3>2
    <2>15. \A i, j : At(new, i, j) => At(scanners, i, j) \/ (i = x /\ j = m + 1)
      <3> SUFFICES ASSUME NEW i, NEW j, At(new, i, j)
                   PROVE  At(scanners, i, j) \/ (i = x /\ j = m + 1)
        OBVIOUS
      <3>1. CASE i = x
        BY <2>5, <2>6, <2>8, <2>11, <2>12, <3>1 DEF At
      <3>2. CASE i # x
        BY <2>11, <2>12, <3>2 DEF At
      <3> QED
        BY <3>1, <3>2
    <2>16. \A i \in 1..n : SameScanner(new[i], scanners[i])
      BY <2>8, <2>11, <2>12 DEF SameScanner
    <2>17. Added(new, s, recipe, x, m + 1)
      BY <1>1, <2>5, <2>10, <2>11, <2>12, <2>13, <2>14, <2>15, <2>16 DEF Added
    <2> QED
      BY <2>11, <2>17 DEF new
  <1> QED
    BY <1>3, <1>4

\* Where the search of one scanner has got to.
LEMMA HitIsFirst ==
    ASSUME ITypes, pc = "search"
    PROVE  LET s == scanners[sc] IN
           /\ sc \in 1..Len(scanners) /\ s \in ListedScanners /\ s.offset \in Nat /\ s.offset <= p
           /\ p >= WindowLen => Hit = Nowhere
           /\ p < WindowLen => IsFirst(Hit, {h \in p..WindowLen + s.offset - 1 : Candidate(s, h)})
           /\ Hit # Nowhere =>
                /\ Hit \in p..WindowLen + s.offset - 1 /\ Hit \in Nat /\ p < WindowLen
                /\ Candidate(s, Hit)
  <1> DEFINE s == scanners[sc]
             n == WindowLen - p + s.offset
             places == {h \in p..WindowLen + s.offset - 1 : Candidate(s, h)}
  <1>1. sc \in 1..Len(scanners) /\ s \in ListedScanners /\ s.offset <= p
    BY ElementOfSeq DEF ITypes
  <1>2. s.offset \in Nat /\ p \in Nat /\ filepos \in Nat /\ WindowLen \in Nat
    BY <1>1, WindowsAssumption DEF ITypes, ListedScanners, ScannerSet
  <1>3. p >= WindowLen => Hit = Nowhere
    BY <1>2 DEF Hit
  <1>4. ASSUME p < WindowLen PROVE IsFirst(Hit, places)
    <2>1. Hit = Func(s, p, n, filepos + p)
      BY <1>4 DEF Hit
    <2>2. n \in Nat \ {0}
      BY <1>2, <1>4
    <2> HIDE DEF n, s
    <2>3. IsFirst(Hit, {h \in p..p + n - 1 : Candidate(s, h)})
      BY <1>1, <1>2, <2>1, <2>2, FuncFindsFirst
    <2>4. p + n - 1 = WindowLen + s.offset - 1
      BY <1>2 DEF n
    <2> QED
      BY <2>3, <2>4
  <1>5. ASSUME Hit # Nowhere
        PROVE  /\ Hit \in p..WindowLen + s.offset - 1 /\ Hit \in Nat /\ p < WindowLen
               /\ Candidate(s, Hit)
    <2>1. p < WindowLen
      BY <1>2, <1>3, <1>5
    <2>2. Hit \in places
      <3> HIDE DEF places
      <3> QED
        BY <1>4, <1>5, <2>1 DEF IsFirst
    <2> QED
      BY <1>2, <2>1, <2>2
  <1> QED
    BY <1>1, <1>2, <1>3, <1>4, <1>5

(***************************************************************************)
(* The variables keep their types.                                         *)
(***************************************************************************)

LEMMA InitTypes == Init => ITypes
  <1> SUFFICES ASSUME Init PROVE ITypes
    OBVIOUS
  <1>1. Len(args) \in Nat /\ <<>> \in Seq(STRING) /\ <<>> \in Seq(ListedScanners) /\ Len(<<>>) = 0
    BY Arguments, EmptySeq DEF Init
  <1>2. 1 \in 1..Len(args) + 1 /\ 1 \in 1..0 + 1 /\ 1 \in Nat \ {0}
    BY <1>1
  <1> QED
    BY <1>1, <1>2, NoScannerType DEF Init, ITypes

LEMMA OptionTypes ==
    ASSUME ITypes, OptionB \/ OptionD \/ OptionR \/ OptionsEnd
    PROVE  ITypes'
  <1> USE DEF parseVars, scanVars
  <1>1. args \in CommandLines /\ Len(args) \in Nat
    BY Arguments DEF ITypes
  <1>2. ASSUME NEW c, Option(c)
        PROVE  optind + 1 \in 1..Len(args) + 1 /\ args[optind] \in OptionRecords
    BY <1>1, <1>2, Arguments DEF ITypes, Option
  <1>3. CASE OptionB
    <2> DEFINE b == args[optind].block
               g == BlockScanner(b)
    <2>1. b \in Int
      BY <1>2, <1>3 DEF OptionB, OptionRecords
    <2>2. b > 1 => g \in ScannerSet /\ g.func = "block"
      BY <2>1, BlockScannerType
    <2>3. global' = IF b <= 1 THEN NoScanner ELSE g
      BY <1>3 DEF OptionB, BlockScanner
    <2> HIDE DEF b, g
    <2>4. global' \in ScannerSet /\ global'.func \in {"none", "block"}
      BY <2>1, <2>2, <2>3, NoScannerType
    <2> QED
      BY <1>2, <1>3, <2>4 DEF OptionB, ITypes, Option
  <1>4. CASE OptionD
    BY <1>2, <1>4 DEF OptionD, ITypes, Option
  <1>5. CASE OptionR
    BY <1>2, <1>5 DEF OptionR, ITypes, Option, OptionRecords
  <1>6. CASE OptionsEnd
    BY <1>6, WindowsAssumption DEF OptionsEnd, ITypes
  <1> QED
    BY <1>3, <1>4, <1>5, <1>6

LEMMA LineStepTypes ==
    ASSUME ITypes, ScannerLine \/ OperationLine \/ DirectiveLine \/ IgnoredLine
    PROVE  ITypes'
  <1> USE DEF scanVars, NextLine
  <1>1. line + 1 \in Nat \ {0}
    BY DEF ITypes
  <1>2. ASSUME NEW n \in Nat, AtLine("match") PROVE Grows(n) \in Nat
    <2>1. LineOffset \in Nat
      BY <1>2, LineTypes DEF AtLine
    <2> HIDE DEF LineOffset
    <2> QED
      BY <2>1 DEF Grows, Larger, ITypes
  <1>3. CASE ScannerLine
    <2>1. AtLine("match") /\ scanner' = NewScanner /\ overlap' = Grows(ReadLen)
      BY <1>3 DEF ScannerLine
    <2>2. NewScanner \in ScannerSet /\ ReadLen \in Nat
      BY <1>3, NewScannerType, NewOperationType DEF ScannerLine
    <2> QED
      BY <1>1, <1>2, <1>3, <2>1, <2>2 DEF ScannerLine, ITypes
  <1>4. CASE OperationLine
    <2>1. AtLine("match") /\ overlap' = Grows(ReadLen)
          /\ r' = [r EXCEPT !.ops = Append(@, NewOperation)]
      BY <1>4 DEF OperationLine
    <2>2. NewOperation \in Operations /\ ReadLen \in Nat
      BY <2>1, NewOperationType
    <2>3. Append(r.ops, NewOperation) \in Seq(Operations)
      BY <2>2, AppendProperties DEF ITypes, RecipeSet
    <2>4. r' \in RecipeSet
      BY <2>1, <2>3 DEF ITypes, RecipeSet
    <2> QED
      BY <1>1, <1>2, <1>4, <2>1, <2>2, <2>4 DEF OperationLine, ITypes
  <1>5. CASE DirectiveLine
    <2>1. File.lines[line].op \in STRING
      BY <1>5, LineTypes DEF DirectiveLine, AtLine, Line
    <2>2. r' \in RecipeSet
      BY <1>5, <2>1 DEF DirectiveLine, ITypes, RecipeSet
    <2> QED
      BY <1>1, <1>5, <2>2 DEF DirectiveLine, ITypes
  <1>6. CASE IgnoredLine
    BY <1>1, <1>6 DEF IgnoredLine, ITypes
  <1> QED
    BY <1>3, <1>4, <1>5, <1>6

LEMMA RecipeStepTypes ==
    ASSUME ITypes, DirectoryEnds \/ Open \/ RecipeEnds
    PROVE  ITypes'
  <1> USE DEF parseVars, scanVars
  <1>1. CASE DirectoryEnds
    BY <1>1 DEF DirectoryEnds, ITypes
  <1>2. CASE Open
    <2> DEFINE id == <<optind - 1, Head(todo)>>
    <2>1. Head(todo) \in STRING /\ optind - 1 \in Nat
      BY <1>2, HeadTailProperties, Arguments DEF Open, ITypes
    <2>2. id \in Nat \X (STRING \cup {""})
      BY <2>1
    <2> HIDE DEF id
    <2>3. [NoRecipe EXCEPT !.id = id] \in RecipeSet
      BY <2>2, NoScannerType DEF RecipeSet
    <2> QED
      BY <1>2, <2>3 DEF Open, ITypes, id
  <1>3. CASE RecipeEnds
    <2>1. scanner \in ListedScanners /\ r \in RecipeSet
      BY <1>3, ScannerFields DEF RecipeEnds, ITypes, ListedScanners
    <2>2. scanners' \in Seq(ListedScanners) /\ Len(scanners') >= Len(scanners)
      BY <1>3, <2>1, AddRecipeAdds DEF RecipeEnds, ITypes, Added
    <2>3. Len(scanners) \in Nat /\ Len(scanners') \in Nat
      BY <2>2, LenProperties DEF ITypes
    <2>4. Tail(todo) \in Seq(STRING)
      BY <1>3, HeadTailProperties DEF RecipeEnds, ITypes
    <2>5. RoundedUp(overlap) \in Nat
      BY RoundedUpCovers DEF ITypes
    <2> QED
      BY <1>3, <2>2, <2>3, <2>4, <2>5 DEF RecipeEnds, ITypes
  <1> QED
    BY <1>1, <1>2, <1>3

LEMMA ScanStepTypes ==
    ASSUME ITypes, NextScanner \/ ScannersEnd \/ SearchEnds \/ TryRecipes
    PROVE  ITypes'
  <1> USE DEF parseVars, scanVars
  <1>1. Len(scanners) \in Nat /\ \A i \in 1..Len(scanners) : scanners[i] \in ListedScanners
    BY LenProperties, ElementOfSeq DEF ITypes
  <1>2. CASE NextScanner
    <2>1. sc \in 1..Len(scanners)
      BY <1>1, <1>2 DEF NextScanner, ITypes
    <2>2. scanners[sc].offset \in Nat
      BY <1>1, <2>1 DEF ListedScanners, ScannerSet
    <2> QED
      BY <1>2, <2>1, <2>2 DEF NextScanner, ITypes
  <1>3. CASE ScannersEnd
    BY <1>3 DEF ScannersEnd, ITypes
  <1>4. CASE SearchEnds
    BY <1>1, <1>4 DEF SearchEnds, ITypes
  <1>5. CASE TryRecipes
    <2>1. pc = "search" /\ Hit # Nowhere /\ p' = Hit + 1 /\ pc' = pc /\ sc' = sc /\ scanners' = scanners
      BY <1>5 DEF TryRecipes
    <2>2. Hit \in Nat /\ p <= Hit /\ scanners[sc].offset <= p /\ scanners[sc].offset \in Nat
          /\ sc \in 1..Len(scanners)
      BY <2>1, HitIsFirst DEF ITypes
    <2>3. p' \in Nat /\ scanners[sc].offset <= p'
      BY <2>1, <2>2 DEF ITypes
    <2> QED
      BY <1>5, <2>1, <2>2, <2>3 DEF TryRecipes, ITypes
  <1> QED
    BY <1>2, <1>3, <1>4, <1>5

\* Failing changes nothing but pc.
LEMMA FailTypes ==
    ASSUME ITypes, Fail \/ UNCHANGED vars
    PROVE  ITypes'
  BY DEF ITypes, Fail, vars, parseVars, scanVars

LEMMA TypesNext == ITypes /\ [Next]_vars => ITypes'
  <1> SUFFICES ASSUME ITypes, [Next]_vars PROVE ITypes'
    OBVIOUS
  <1>1. CASE OptionB \/ OptionD \/ OptionR \/ OptionsEnd
    BY <1>1, OptionTypes
  <1>2. CASE ScannerLine \/ OperationLine \/ DirectiveLine \/ IgnoredLine
    BY <1>2, LineStepTypes
  <1>3. CASE DirectoryEnds \/ Open \/ RecipeEnds
    BY <1>3, RecipeStepTypes
  <1>4. CASE NextScanner \/ ScannersEnd \/ SearchEnds \/ TryRecipes
    BY <1>4, ScanStepTypes
  <1>5. CASE Fail \/ UNCHANGED vars
    BY <1>5, FailTypes
  <1>6. CASE OptionBFails \/ OptionDFails \/ OpenFails \/ BadMatchLine \/ BadDirectiveLine
             \/ ReadFails \/ RecipeIncomplete
    BY <1>5, <1>6 DEF OptionBFails, OptionDFails, OpenFails, BadMatchLine, BadDirectiveLine,
                      ReadFails, RecipeIncomplete
  <1> QED
    BY <1>1, <1>2, <1>3, <1>4, <1>5, <1>6 DEF Next

LEMMA TypesInvariant == Spec => []ITypes
  BY InitTypes, TypesNext, PTL DEF Spec

\* The variables keep their types and each scanner has what its function uses.
THEOREM Typed == Spec => []TypeOK
  <1>1. ITypes => TypeOK
    <2> SUFFICES ASSUME ITypes PROVE TypeOK
      OBVIOUS
    <2>1. ScannerType(global) /\ ScannerType(scanner)
      BY ScannerFields DEF ITypes, ScannerType
    <2>2. ASSUME NEW i \in DOMAIN scanners
          PROVE  ScannerType(scanners[i]) /\ scanners[i].func # "none"
      <3>1. scanners[i] \in ListedScanners
        BY LenProperties, ElementOfSeq DEF ITypes
      <3> QED
        BY <3>1, ScannerFields DEF ListedScanners, ScannerType
    <2> QED
      BY <2>1, <2>2 DEF ITypes, TypeOK
  <1> QED
    BY <1>1, TypesInvariant, PTL

(***************************************************************************)
(* overlap covers what is read from a match on.                            *)
(***************************************************************************)

RecipeWithin(recipe, n) == \A i \in DOMAIN recipe.ops : OpEnd(recipe.ops[i]) <= n
ListWithin(list, n) ==
    /\ \A i \in 1..Len(list) : ScannerEnd(list[i]) <= n
    /\ \A i, j : At(list, i, j) => RecipeWithin(list[i].recipes[j], n)

Within(s, recipe, list, n) == ScannerEnd(s) <= n /\ RecipeWithin(recipe, n) /\ ListWithin(list, n)

\* overlap only has to be rounded once the recipe is complete.
IOverlap ==
    /\ Within(scanner, r, scanners, overlap)
    /\ pc \notin {"line", "failed"} => overlap % WordSize = 0

LEMMA EndTypes ==
    /\ \A op \in Operations : OpEnd(op) \in Nat
    /\ \A s \in ScannerSet : ScannerEnd(s) \in Nat
  <1>1. \A op \in Operations : OpEnd(op) \in Nat
    BY LenProperties DEF Operations, OpEnd
  <1>2. \A s \in ScannerSet : ScannerEnd(s) \in Nat
    BY ScannerFields DEF ScannerEnd
  <1> QED
    BY <1>1, <1>2

LEMMA RecipeGrows ==
    ASSUME NEW recipe \in RecipeSet, NEW n \in Nat, NEW m \in Nat, n <= m, RecipeWithin(recipe, n)
    PROVE  RecipeWithin(recipe, m)
  <1>1. \A i \in DOMAIN recipe.ops : recipe.ops[i] \in Operations
    <2>1. recipe.ops \in Seq(Operations)
      BY DEF RecipeSet
    <2> QED
      BY <2>1, LenProperties, ElementOfSeq
  <1>2. \A i \in DOMAIN recipe.ops : OpEnd(recipe.ops[i]) \in Nat
    BY <1>1, EndTypes
  <1> QED
    BY <1>2 DEF RecipeWithin

LEMMA PlacedRecipe ==
    ASSUME NEW list \in Seq(ListedScanners), NEW i, NEW j, At(list, i, j)
    PROVE  list[i] \in ListedScanners /\ list[i] \in ScannerSet /\ list[i].recipes[j] \in RecipeSet
  <1>1. list[i] \in ListedScanners
    BY ElementOfSeq DEF At
  <1>2. list[i] \in ScannerSet /\ list[i].recipes \in Seq(RecipeSet)
    BY <1>1 DEF ListedScanners, ScannerSet
  <1>3. list[i].recipes[j] \in RecipeSet
    BY <1>2, ElementOfSeq DEF At
  <1> QED
    BY <1>1, <1>2, <1>3

LEMMA WithinGrows ==
    ASSUME NEW s \in ScannerSet, NEW recipe \in RecipeSet, NEW list \in Seq(ListedScanners),
           NEW n \in Nat, NEW m \in Nat, n <= m, Within(s, recipe, list, n)
    PROVE  Within(s, recipe, list, m)
  <1>1. ScannerEnd(s) <= m
    BY EndTypes DEF Within
  <1>2. RecipeWithin(recipe, m)
    BY RecipeGrows DEF Within
  <1>3. \A i \in 1..Len(list) : ScannerEnd(list[i]) <= m
    <2>1. \A i \in 1..Len(list) : ScannerEnd(list[i]) \in Nat
      BY EndTypes, ElementOfSeq DEF ListedScanners
    <2> QED
      BY <2>1 DEF Within, ListWithin
  <1>4. \A i, j : At(list, i, j) => RecipeWithin(list[i].recipes[j], m)
    BY RecipeGrows, PlacedRecipe DEF Within, ListWithin
  <1> QED
    BY <1>1, <1>2, <1>3, <1>4 DEF Within, ListWithin

LEMMA InitOverlap == Init => IOverlap
  <1> SUFFICES ASSUME Init PROVE IOverlap
    OBVIOUS
  <1>1. Len(<<>>) = 0 /\ DOMAIN <<>> = {}
    BY EmptySeq
  <1>2. 0 % WordSize = 0
    BY WindowsAssumption, Remainder
  <1>3. RecipeWithin(r, 0) /\ ScannerEnd(scanner) = 0
    <2>1. r.ops = <<>> /\ scanner.offset = 0 /\ scanner.bytes = <<>>
      BY DEF Init, NoRecipe, NoScanner
    <2> QED
      BY <1>1, <2>1 DEF RecipeWithin, ScannerEnd
  <1>4. ListWithin(scanners, 0)
    BY <1>1 DEF Init, ListWithin, At
  <1> QED
    BY <1>2, <1>3, <1>4 DEF Init, IOverlap, Within

LEMMA LineOverlap ==
    ASSUME ITypes, IOverlap, ScannerLine \/ OperationLine
    PROVE  IOverlap'
  <1> DEFINE end == LineOffset + ReadLen
  <1>1. AtLine("match") /\ pc' = "line" /\ pc = "line" /\ overlap' = Grows(ReadLen) /\ scanners' = scanners
    BY DEF ScannerLine, OperationLine, NextLine, AtLine
  <1>2. LineOffset \in Nat /\ ReadLen \in Nat /\ end \in Nat
    BY <1>1, LineTypes, NewOperationType DEF AtLine
  <1>3. overlap \in Nat /\ overlap' \in Nat /\ overlap <= overlap' /\ end <= overlap'
    BY <1>1, <1>2 DEF Grows, Larger, ITypes
  <1> HIDE DEF end
  <1>4. Within(scanner, r, scanners, overlap')
    BY <1>3, WithinGrows DEF ITypes, IOverlap
  <1>5. CASE ScannerLine
    <2>1. IsString /\ scanner' = NewScanner /\ r' = r
      BY <1>5 DEF ScannerLine, BecomesScanner
    <2>2. ScannerEnd(NewScanner) = end
      BY <1>5, <2>1, NewScannerType DEF ScannerLine, ScannerEnd, ReadLen, end
    <2> QED
      BY <1>1, <1>3, <1>4, <2>1, <2>2 DEF IOverlap, Within
  <1>6. CASE OperationLine
    <2>1. scanner' = scanner /\ r' = [r EXCEPT !.ops = Append(@, NewOperation)]
      BY <1>6 DEF OperationLine
    <2>2. NewOperation \in Operations /\ OpEnd(NewOperation) = end
      BY <1>1, NewOperationType DEF end
    <2>3. r'.ops = Append(r.ops, NewOperation) /\ r.ops \in Seq(Operations)
      BY <2>1 DEF ITypes, RecipeSet
    <2>4. /\ DOMAIN r'.ops = 1..Len(r.ops) + 1 /\ DOMAIN r.ops = 1..Len(r.ops) /\ Len(r.ops) \in Nat
          /\ \A i \in 1..Len(r.ops) : r'.ops[i] = r.ops[i]
          /\ r'.ops[Len(r.ops) + 1] = NewOperation
      BY <2>2, <2>3, AppendProperties, LenProperties
    <2>5. \A i \in 1..Len(r.ops) : OpEnd(r.ops[i]) <= overlap'
      BY <1>4, <2>4 DEF Within, RecipeWithin
    <2> DEFINE m == Len(r.ops)
    <2>6. \A i \in 1..m + 1 : i \in 1..m \/ i = m + 1
      BY <2>4
    <2> HIDE DEF m
    <2>7. RecipeWithin(r', overlap')
      BY <1>3, <2>2, <2>4, <2>5, <2>6 DEF RecipeWithin, m
    <2> QED
      BY <1>1, <1>4, <2>1, <2>7 DEF IOverlap, Within
  <1> QED
    BY <1>5, <1>6

LEMMA RecipeOverlap ==
    ASSUME ITypes, IOverlap, RecipeEnds
    PROVE  IOverlap'
  <1>1. /\ overlap \in Nat /\ overlap' \in Nat /\ overlap <= overlap' /\ overlap' % WordSize = 0
        /\ pc' = "open" /\ r' = r /\ scanner' = scanner
    BY RoundedUpCovers DEF RecipeEnds, ITypes
  <1>2. Within(scanner, r, scanners, overlap')
    BY <1>1, WithinGrows DEF ITypes, IOverlap
  <1>3. scanner \in ListedScanners /\ r \in RecipeSet
    BY ScannerFields DEF RecipeEnds, ITypes, ListedScanners
  <1>4. scanners' = AddRecipe(scanner, r)
    BY DEF RecipeEnds
  <1>5. PICK x, y : Added(scanners', scanner, r, x, y)
    BY <1>3, <1>4, AddRecipeAdds DEF ITypes
  <1>6. ListWithin(scanners', overlap')
    <2>1. \A s, t : SameScanner(s, t) => ScannerEnd(s) = ScannerEnd(t)
      BY DEF SameScanner, ScannerEnd
    <2>2. ASSUME NEW i \in 1..Len(scanners') PROVE ScannerEnd(scanners'[i]) <= overlap'
      <3>1. CASE i \in 1..Len(scanners)
        BY <1>2, <1>5, <2>1, <3>1 DEF Added, Within, ListWithin
      <3>2. CASE i = x
        BY <1>2, <1>5, <2>1, <3>2 DEF Added, Within
      <3> QED
        BY <1>5, <3>1, <3>2 DEF Added
    <2>3. ASSUME NEW i, NEW j, At(scanners', i, j)
          PROVE  RecipeWithin(scanners'[i].recipes[j], overlap')
      <3>1. CASE At(scanners, i, j)
        BY <1>2, <1>5, <3>1 DEF Added, Within, ListWithin
      <3>2. CASE i = x /\ j = y
        BY <1>2, <1>5, <3>2 DEF Added, Within
      <3> QED
        BY <1>5, <2>3, <3>1, <3>2 DEF Added
    <2> QED
      BY <2>2, <2>3 DEF ListWithin
  <1> QED
    BY <1>1, <1>2, <1>6 DEF IOverlap, Within

LEMMA OverlapNext == ITypes /\ IOverlap /\ [Next]_vars => IOverlap'
  <1> SUFFICES ASSUME ITypes, IOverlap, [Next]_vars PROVE IOverlap'
    OBVIOUS
  <1> USE DEF parseVars, scanVars
  <1>1. CASE ScannerLine \/ OperationLine
    BY <1>1, LineOverlap
  <1>2. CASE RecipeEnds
    BY <1>2, RecipeOverlap
  <1>3. CASE Open
    <2>1. ScannerEnd(global) = 0
      <3>1. global.func = "none" => global = NoScanner
        BY ScannerFields DEF ITypes
      <3>2. global.func = "block" => global.offset = 0 /\ global.bytes = <<>>
        BY ScannerFields DEF ITypes
      <3>3. global.offset = 0 /\ global.bytes = <<>>
        BY <3>1, <3>2 DEF NoScanner, ITypes
      <3> QED
        BY <3>3, EmptySeq DEF ScannerEnd
    <2>2. RecipeWithin(r', overlap)
      <3>1. r'.ops = <<>>
        BY <1>3 DEF Open, NoRecipe
      <3> QED
        BY <3>1 DEF RecipeWithin
    <2>3. 0 <= overlap
      BY DEF ITypes
    <2> QED
      BY <1>3, <2>1, <2>2, <2>3 DEF Open, IOverlap, Within
  <1>4. ASSUME UNCHANGED <<scanner, r, scanners, overlap>>,
               pc = "line" => pc' \in {"line", "failed"}, pc = "failed" => pc' = pc
        PROVE  IOverlap'
    BY <1>4 DEF IOverlap
  <1>5. CASE OptionB \/ OptionBFails \/ OptionD \/ OptionDFails \/ OptionR \/ OptionsEnd
    BY <1>4, <1>5 DEF OptionB, OptionBFails, OptionD, OptionDFails, OptionR, OptionsEnd, Option, Fail
  <1>6. CASE DirectoryEnds \/ OpenFails \/ BadMatchLine \/ BadDirectiveLine \/ IgnoredLine
             \/ ReadFails \/ RecipeIncomplete
    BY <1>4, <1>6 DEF DirectoryEnds, OpenFails, BadMatchLine, BadDirectiveLine, IgnoredLine,
                      ReadFails, RecipeIncomplete, AtLine, NextLine, Fail
  <1>7. CASE NextScanner \/ ScannersEnd \/ SearchEnds \/ TryRecipes
    BY <1>4, <1>7 DEF NextScanner, ScannersEnd, SearchEnds, TryRecipes
  <1>8. CASE UNCHANGED vars
    BY <1>4, <1>8 DEF vars
  <1>9. CASE DirectiveLine
    <2>1. r'.ops = r.ops
      BY <1>9 DEF DirectiveLine, ITypes, RecipeSet
    <2>2. UNCHANGED <<scanner, scanners, overlap>> /\ pc = "line" /\ pc' = pc
      BY <1>9 DEF DirectiveLine, AtLine, NextLine
    <2> QED
      BY <2>1, <2>2 DEF IOverlap, Within, RecipeWithin
  <1> QED
    BY <1>1, <1>2, <1>3, <1>5, <1>6, <1>7, <1>8, <1>9 DEF Next

\* What is kept of a block for the next one is enough for everything the scanners and
\* operations read from a match on, whatever the recipes and the order they are parsed
\* in, and it is a number of whole machine words once they are.
THEOREM Overlap == Spec => []OverlapCovers
  <1>1. Init => ITypes /\ IOverlap
    BY InitTypes, InitOverlap
  <1>2. ITypes /\ IOverlap /\ [Next]_vars => (ITypes /\ IOverlap)'
    BY TypesNext, OverlapNext
  <1>3. ITypes /\ IOverlap => OverlapCovers
    <2> SUFFICES ASSUME ITypes, IOverlap PROVE OverlapCovers
      OBVIOUS
    <2>1. DOMAIN scanners = 1..Len(scanners)
      BY LenProperties DEF ITypes
    <2>2. ASSUME NEW i \in DOMAIN scanners
          PROVE  /\ ScannerEnd(scanners[i]) <= overlap
                 /\ \A j \in DOMAIN scanners[i].recipes : \A k \in DOMAIN scanners[i].recipes[j].ops :
                      OpEnd(scanners[i].recipes[j].ops[k]) <= overlap
      <3>1. scanners[i] \in ListedScanners
        BY <2>1, ElementOfSeq DEF ITypes
      <3>2. DOMAIN scanners[i].recipes = 1..Len(scanners[i].recipes)
        BY <3>1, LenProperties, ScannerFields DEF ListedScanners
      <3> QED
        BY <2>1, <3>2 DEF IOverlap, Within, ListWithin, RecipeWithin, At
    <2> QED
      BY <2>2 DEF OverlapCovers, IOverlap, Within, RecipeWithin
  <1> QED
    BY <1>1, <1>2, <1>3, PTL DEF Spec

(***************************************************************************)
(* Each recipe is in the list once.                                        *)
(***************************************************************************)

\* File k of the -r at a has been parsed: all files of an -r before the current one,
\* and those of the current one that are not to do.
Parsed(a, k) ==
    /\ a \in 1..optind-1 /\ args[a].opt = "r" /\ k \in 1..Len(args[a].files)
    /\ pc \in {"open", "line"} /\ a = optind - 1 => k <= Len(args[a].files) - Len(todo)

Id(a, k) == <<a, args[a].files[k]>>
IdAt(i, j) == scanners[i].recipes[j].id

Distinct(list) == \A i, j \in 1..Len(list) : SameScanner(list[i], list[j]) => i = j

\* What is to do are the last files of the current -r.
RestToDo ==
    /\ optind > 1 /\ args[optind - 1].opt = "r"
    /\ LET files == args[optind - 1].files IN
        /\ Len(todo) <= Len(files)
        /\ \A k \in 1..Len(todo) : todo[k] = files[Len(files) - Len(todo) + k]

\* The recipes in the list are those parsed, and no two of them are the same one.
AllPlaced == \A a, k : Parsed(a, k) => \E i, j : At(scanners, i, j) /\ IdAt(i, j) = Id(a, k)
OnlyPlaced == \A i, j : At(scanners, i, j) => \E a, k : Parsed(a, k) /\ IdAt(i, j) = Id(a, k)
PlacedOnce ==
    \A i, j, x, y : At(scanners, i, j) /\ At(scanners, x, y) /\ IdAt(i, j) = IdAt(x, y) => i = x /\ j = y

IPlaced ==
    /\ Distinct(scanners)
    /\ pc # "failed" =>
        /\ pc \in {"open", "line"} => RestToDo
        /\ pc = "line" => r.id = <<optind - 1, Head(todo)>>
        /\ pc \in {"scanner", "search", "done"} => optind = Len(args) + 1
        /\ AllPlaced /\ OnlyPlaced /\ PlacedOnce

LEMMA InitPlaced == Init => IPlaced
  <1> SUFFICES ASSUME Init PROVE IPlaced
    OBVIOUS
  <1>1. Len(scanners) = 0 /\ optind = 1 /\ pc = "options"
    BY EmptySeq DEF Init
  <1>2. \A i, j : ~At(scanners, i, j)
    BY <1>1 DEF At
  <1>3. \A a, k : ~Parsed(a, k)
    BY <1>1 DEF Parsed
  <1> QED
    BY <1>1, <1>2, <1>3 DEF IPlaced, Distinct, AllPlaced, OnlyPlaced, PlacedOnce

LEMMA SameParsed ==
    ASSUME pc # "failed", IPlaced, UNCHANGED <<args, scanners>>,
           \A a, k : Parsed(a, k)' <=> Parsed(a, k)
    PROVE  Distinct(scanners)' /\ AllPlaced' /\ OnlyPlaced' /\ PlacedOnce'
  <1>1. \A a, k : Id(a, k)' = Id(a, k)
    BY DEF Id
  <1>2. \A i, j : IdAt(i, j)' = IdAt(i, j)
    BY DEF IdAt
  <1>3. Distinct(scanners)' /\ PlacedOnce'
    BY <1>2 DEF IPlaced, Distinct, PlacedOnce
  <1>4. AllPlaced' /\ OnlyPlaced'
    BY <1>1, <1>2 DEF IPlaced, AllPlaced, OnlyPlaced
  <1> QED
    BY <1>3, <1>4

LEMMA OptionPlaced ==
    ASSUME ITypes, IPlaced, OptionB \/ OptionD \/ OptionR
    PROVE  IPlaced'
  <1>1. /\ pc = "options" /\ optind \in 1..Len(args) /\ optind' = optind + 1 /\ Len(args) \in Nat
        /\ UNCHANGED <<args, scanners>> /\ args[optind] \in OptionRecords
    BY Arguments DEF OptionB, OptionD, OptionR, Option, ITypes
  <1>2. CASE OptionB \/ OptionD
    <2>1. pc' = "options" /\ args[optind].opt # "r"
      BY <1>2 DEF OptionB, OptionD, Option
    <2>2. \A a : a \in 1..optind'-1 <=> a \in 1..optind-1 \/ a = optind
      BY <1>1
    <2>3. \A a, k : Parsed(a, k)' <=> Parsed(a, k)
      BY <1>1, <2>1, <2>2 DEF Parsed
    <2> QED
      BY <1>1, <2>1, <2>3, SameParsed DEF IPlaced
  <1>3. CASE OptionR
    <2>1. pc' = "open" /\ args[optind].opt = "r" /\ todo' = args[optind].files
      BY <1>3 DEF OptionR, Option
    <2>2. args[optind].files \in Seq(STRING) /\ Len(todo') \in Nat
      BY <1>1, <2>1, LenProperties DEF OptionRecords
    <2>3. RestToDo'
      <3>1. optind' > 1 /\ optind' - 1 = optind
        BY <1>1
      <3> QED
        BY <1>1, <2>1, <2>2, <3>1 DEF RestToDo
    <2>4. \A a : a \in 1..optind'-1 <=> a \in 1..optind-1 \/ a = optind
      BY <1>1
    <2>5. optind' - 1 = optind /\ optind \notin 1..optind-1
      BY <1>1
    <2>6. ASSUME NEW a, NEW k PROVE Parsed(a, k)' <=> Parsed(a, k)
      <3>1. CASE a = optind
        <4>1. ~Parsed(a, k)
          BY <2>5, <3>1 DEF Parsed
        <4>2. ~Parsed(a, k)'
          <5> SUFFICES ASSUME Parsed(a, k)' PROVE FALSE
            OBVIOUS
          <5>1. k \in 1..Len(todo') /\ k <= Len(todo') - Len(todo')
            BY <1>1, <2>1, <2>5, <3>1 DEF Parsed
          <5> QED
            BY <2>2, <5>1
        <4> QED
          BY <4>1, <4>2
      <3>2. CASE a # optind
        BY <1>1, <2>1, <2>4, <2>5, <3>2 DEF Parsed
      <3> QED
        BY <3>1, <3>2
    <2> QED
      BY <1>1, <2>1, <2>3, <2>6, SameParsed DEF IPlaced
  <1> QED
    BY <1>2, <1>3

LEMMA DirectoryPlaced ==
    ASSUME ITypes, IPlaced, DirectoryEnds
    PROVE  IPlaced'
  <1>1. pc = "open" /\ pc' = "options" /\ todo = <<>> /\ UNCHANGED <<args, optind, todo, scanners>>
    BY DEF DirectoryEnds, parseVars
  <1>2. Len(todo) = 0
    BY <1>1, EmptySeq
  <1>3. \A a \in 1..Len(args) : Len(args[a].files) \in Nat
    BY Arguments, LenProperties DEF ITypes, OptionRecords
  <1>4. \A a \in 1..optind-1 : a \in 1..Len(args)
    BY Arguments DEF ITypes
  <1>5. \A a, k : Parsed(a, k)' <=> Parsed(a, k)
    BY <1>1, <1>2, <1>3, <1>4 DEF Parsed
  <1> QED
    BY <1>1, <1>5, SameParsed DEF IPlaced

LEMMA RecipePlaced ==
    ASSUME ITypes, IPlaced, RecipeEnds
    PROVE  IPlaced'
  <1> DEFINE o == optind - 1
             files == args[o].files
             k0 == Len(files) - Len(todo) + 1
  <1>1. /\ pc = "line" /\ pc' = "open" /\ todo' = Tail(todo) /\ UNCHANGED <<args, optind>>
        /\ scanners' = AddRecipe(scanner, r)
    BY DEF RecipeEnds
  <1>2. scanner \in ListedScanners /\ r \in RecipeSet
    BY ScannerFields DEF RecipeEnds, ITypes, ListedScanners
  <1>3. PICK x, y : Added(scanners', scanner, r, x, y)
    BY <1>1, <1>2, AddRecipeAdds DEF ITypes
  <1>4. todo # <<>> /\ todo \in Seq(STRING)
    BY <1>1 DEF ITypes
  <1>5. /\ Len(todo) \in Nat \ {0} /\ Head(todo) = todo[1] /\ Len(todo') = Len(todo) - 1
        /\ \A k \in 1..Len(todo') : todo'[k] = todo[k + 1]
    BY <1>1, <1>4, EmptySeq, HeadTailProperties
  <1>6. /\ o \in 1..Len(args) /\ o \in 1..optind-1 /\ args[o].opt = "r" /\ files \in Seq(STRING)
        /\ Len(files) \in Nat /\ DOMAIN files = 1..Len(files) /\ Len(todo) <= Len(files)
        /\ \A k \in 1..Len(todo) : todo[k] = files[Len(files) - Len(todo) + k]
    <2>1. optind > 1 /\ args[o].opt = "r" /\ Len(todo) <= Len(files)
          /\ \A k \in 1..Len(todo) : todo[k] = files[Len(files) - Len(todo) + k]
      BY <1>1 DEF IPlaced, RestToDo
    <2>2. o \in 1..Len(args) /\ o \in 1..optind-1
      BY <2>1, Arguments DEF ITypes
    <2>3. files \in Seq(STRING)
      BY <2>2, Arguments DEF ITypes, OptionRecords
    <2> QED
      BY <2>1, <2>2, <2>3, LenProperties
  <1> HIDE DEF o, files
  <1>7. k0 \in 1..Len(files) /\ Head(todo) = files[k0]
    <2>1. 1 \in 1..Len(todo) /\ Len(files) - Len(todo) + 1 = k0
      BY <1>5
    <2>2. files[k0] = todo[1]
      BY <1>6, <2>1
    <2> QED
      BY <1>5, <1>6, <2>2
  <1>8. Len(todo') = Len(todo) - 1 /\ Len(todo') <= Len(files)
        /\ \A k \in 1..Len(todo') : todo'[k] = files[Len(files) - Len(todo') + k]
    <2>1. ASSUME NEW k \in 1..Len(todo') PROVE todo'[k] = files[Len(files) - Len(todo') + k]
      <3>1. todo'[k] = todo[k + 1] /\ k + 1 \in 1..Len(todo)
        BY <1>5
      <3>2. todo[k + 1] = files[Len(files) - Len(todo) + (k + 1)]
        BY <1>6, <3>1
      <3>3. Len(files) - Len(todo) + (k + 1) = Len(files) - Len(todo') + k
        BY <1>5, <1>6
      <3> QED
        BY <3>1, <3>2, <3>3
    <2> QED
      BY <1>5, <1>6, <2>1
  <1>9. RestToDo'
    BY <1>1, <1>6, <1>8, Arguments DEF RestToDo, o, files, IPlaced
  <1>10. r.id = Id(o, k0)
    BY <1>1, <1>7 DEF IPlaced, Id, o, files
  <1>11. \A a, k : Parsed(a, k)' <=> Parsed(a, k) \/ (a = o /\ k = k0)
    <2>1. ASSUME NEW a, NEW k, a # o PROVE Parsed(a, k)' <=> Parsed(a, k)
      BY <1>1, <2>1 DEF Parsed, o
    <2>2. ASSUME NEW a, NEW k, a = o PROVE Parsed(a, k)' <=> Parsed(a, k) \/ k = k0
      <3>1. Parsed(a, k)' <=> k \in 1..Len(files) /\ k <= Len(files) - Len(todo')
        BY <1>1, <1>6, <2>2 DEF Parsed, o, files
      <3>2. Parsed(a, k) <=> k \in 1..Len(files) /\ k <= Len(files) - Len(todo)
        BY <1>1, <1>6, <2>2 DEF Parsed, o, files
      <3> QED
        BY <1>5, <1>6, <1>7, <3>1, <3>2
    <2>3. ASSUME NEW a, NEW k PROVE Parsed(a, k)' <=> Parsed(a, k) \/ (a = o /\ k = k0)
      <3> HIDE DEF k0
      <3>1. CASE a = o
        BY <2>2, <3>1
      <3>2. CASE a # o
        BY <2>1, <3>2
      <3> QED
        BY <3>1, <3>2
    <2> QED
      BY <2>3
  <1>12. \A a, k : Id(a, k)' = Id(a, k)
    BY <1>1 DEF Id
  <1>13. /\ \A i, j : At(scanners, i, j) => At(scanners', i, j) /\ IdAt(i, j)' = IdAt(i, j)
         /\ At(scanners', x, y) /\ ~At(scanners, x, y) /\ IdAt(x, y)' = Id(o, k0)
         /\ \A i, j : At(scanners', i, j) => At(scanners, i, j) \/ (i = x /\ j = y)
    BY <1>3, <1>10 DEF Added, IdAt
  <1>14. AllPlaced /\ OnlyPlaced /\ PlacedOnce /\ Distinct(scanners)
    BY <1>1 DEF IPlaced
  <1>15. AllPlaced'
    BY <1>11, <1>12, <1>13, <1>14 DEF AllPlaced
  <1>16. OnlyPlaced'
    BY <1>11, <1>12, <1>13, <1>14 DEF OnlyPlaced
  <1>17. ASSUME NEW i, NEW j, At(scanners, i, j) PROVE IdAt(i, j) # Id(o, k0)
    <2> SUFFICES ASSUME IdAt(i, j) = Id(o, k0) PROVE FALSE
      OBVIOUS
    <2>1. PICK a, k : Parsed(a, k) /\ IdAt(i, j) = Id(a, k)
      BY <1>14, <1>17 DEF OnlyPlaced
    <2>2. a = o /\ files[k] = files[k0]
      BY <2>1 DEF Id, files
    <2>3. k \in 1..Len(files) /\ k <= Len(files) - Len(todo)
      BY <1>1, <2>1, <2>2 DEF Parsed, o, files
    <2>4. k = k0
      <3>1. \A u, v \in DOMAIN files : files[u] = files[v] => u = v
        BY <1>6, Arguments DEF files, ITypes
      <3> QED
        BY <1>6, <1>7, <2>2, <2>3, <3>1
    <2> QED
      BY <1>5, <1>6, <2>3, <2>4
  <1>18. PlacedOnce'
    <2> SUFFICES ASSUME NEW i, NEW j, NEW u, NEW v, At(scanners', i, j), At(scanners', u, v),
                        IdAt(i, j)' = IdAt(u, v)'
                 PROVE  i = u /\ j = v
      BY DEF PlacedOnce
    <2>1. CASE At(scanners, i, j) /\ At(scanners, u, v)
      BY <1>13, <1>14, <2>1 DEF PlacedOnce
    <2>2. CASE At(scanners, i, j) /\ u = x /\ v = y
      <3>1. IdAt(i, j)' # Id(o, k0)
        BY <1>13, <1>17, <2>2
      <3> QED
        BY <1>13, <2>2, <3>1
    <2>3. CASE i = x /\ j = y /\ At(scanners, u, v)
      <3>1. IdAt(u, v)' # Id(o, k0)
        BY <1>13, <1>17, <2>3
      <3> QED
        BY <1>13, <2>3, <3>1
    <2>4. CASE i = x /\ j = y /\ u = x /\ v = y
      BY <2>4
    <2> QED
      BY <1>13, <2>1, <2>2, <2>3, <2>4
  <1>19. Distinct(scanners)'
    <2> SUFFICES ASSUME NEW i \in 1..Len(scanners'), NEW j \in 1..Len(scanners'),
                        SameScanner(scanners'[i], scanners'[j])
                 PROVE  i = j
      BY DEF Distinct
    <2>1. ASSUME NEW u \in 1..Len(scanners), NEW v \in 1..Len(scanners),
                 SameScanner(scanners'[u], scanners'[v])
          PROVE  u = v
      <3>1. SameScanner(scanners'[u], scanners[u]) /\ SameScanner(scanners'[v], scanners[v])
        BY <1>3 DEF Added
      <3>2. SameScanner(scanners[u], scanners[v])
        BY <2>1, <3>1 DEF SameScanner
      <3> QED
        BY <1>14, <3>2 DEF Distinct
    <2>2. ASSUME NEW u \in 1..Len(scanners), x \notin 1..Len(scanners)
          PROVE  ~SameScanner(scanners'[u], scanners'[x]) /\ ~SameScanner(scanners'[x], scanners'[u])
      <3>1. ~SameScanner(scanner, scanners[u]) /\ SameScanner(scanners'[u], scanners[u])
            /\ SameScanner(scanners'[x], scanner)
        BY <1>3, <2>2 DEF Added
      <3> QED
        BY <3>1 DEF SameScanner
    <2>3. \A u \in 1..Len(scanners') : u \in 1..Len(scanners) \/ u = x
      BY <1>3 DEF Added
    <2>4. CASE i \in 1..Len(scanners) /\ j \in 1..Len(scanners)
      BY <2>1, <2>4
    <2>5. CASE ~(i \in 1..Len(scanners) /\ j \in 1..Len(scanners))
      BY <2>2, <2>3, <2>5
    <2> QED
      BY <2>4, <2>5
  <1> QED
    BY <1>1, <1>9, <1>15, <1>16, <1>18, <1>19 DEF IPlaced

LEMMA PlacedNext == ITypes /\ IPlaced /\ [Next]_vars => IPlaced'
  <1> SUFFICES ASSUME ITypes, IPlaced, [Next]_vars PROVE IPlaced'
    OBVIOUS
  <1> USE DEF parseVars, scanVars
  <1>1. CASE OptionB \/ OptionD \/ OptionR
    BY <1>1, OptionPlaced
  <1>2. CASE DirectoryEnds
    BY <1>2, DirectoryPlaced
  <1>3. CASE RecipeEnds
    BY <1>3, RecipePlaced
  <1>4. CASE Fail
    BY <1>4 DEF Fail, IPlaced
  <1>5. CASE OptionBFails \/ OptionDFails \/ OpenFails \/ BadMatchLine \/ BadDirectiveLine
             \/ ReadFails \/ RecipeIncomplete
    BY <1>4, <1>5 DEF OptionBFails, OptionDFails, OpenFails, BadMatchLine, BadDirectiveLine,
                      ReadFails, RecipeIncomplete
  <1>6. ASSUME pc # "failed", UNCHANGED <<args, optind, scanners, todo>>,
               pc' \in {"open", "line"} <=> pc \in {"open", "line"},
               pc' = "line" => r'.id = <<optind - 1, Head(todo)>>,
               pc' \in {"scanner", "search", "done"} => optind = Len(args) + 1
        PROVE  IPlaced'
    <2>1. \A a, k : Parsed(a, k)' <=> Parsed(a, k)
      BY <1>6 DEF Parsed
    <2>2. pc' \in {"open", "line"} => RestToDo'
      BY <1>6 DEF RestToDo, IPlaced
    <2> QED
      BY <1>6, <2>1, <2>2, SameParsed DEF IPlaced
  <1>7. CASE OptionsEnd
    <2>1. CASE pc' = "failed"
      BY <1>7, <2>1 DEF OptionsEnd, IPlaced
    <2>2. CASE pc' # "failed"
      <3>1. optind = Len(args) + 1
        BY <1>7, Arguments DEF OptionsEnd, ITypes
      <3> QED
        BY <1>6, <1>7, <2>2, <3>1 DEF OptionsEnd
    <2> QED
      BY <2>1, <2>2
  <1>8. CASE Open
    <2>1. r'.id = <<optind - 1, Head(todo)>>
      BY <1>8 DEF Open, NoRecipe
    <2> QED
      BY <1>6, <1>8, <2>1 DEF Open
  <1>9. CASE ScannerLine \/ OperationLine \/ DirectiveLine \/ IgnoredLine
    <2>1. pc = "line" /\ pc' = pc /\ UNCHANGED <<args, optind, scanners, todo>>
      BY <1>9 DEF ScannerLine, OperationLine, DirectiveLine, IgnoredLine, AtLine, NextLine
    <2>2. r'.id = r.id
      BY <1>9 DEF ScannerLine, OperationLine, DirectiveLine, IgnoredLine, ITypes, RecipeSet
    <2> QED
      BY <1>6, <2>1, <2>2 DEF IPlaced
  <1>10. CASE NextScanner \/ ScannersEnd \/ SearchEnds \/ TryRecipes
    BY <1>6, <1>10 DEF NextScanner, ScannersEnd, SearchEnds, TryRecipes, IPlaced
  <1>11. CASE UNCHANGED vars
    <2>1. \A a, k : Parsed(a, k)' <=> Parsed(a, k)
      BY <1>11 DEF vars, Parsed
    <2>2. CASE pc = "failed"
      BY <1>11, <2>2 DEF vars, IPlaced
    <2>3. CASE pc # "failed"
      BY <1>6, <1>11, <2>3 DEF vars, IPlaced
    <2> QED
      BY <2>2, <2>3
  <1> QED
    BY <1>1, <1>2, <1>3, <1>5, <1>7, <1>8, <1>9, <1>10, <1>11 DEF Next

\* No two scanners of the list look for the same thing, so that no candidate is tried
\* twice, and each -r has put every one of its recipes into the list once, in whatever
\* order and however often the same recipes are asked for.
THEOREM Once == Spec => []EachRecipeOnce
  <1>1. Init => ITypes /\ IPlaced
    BY InitTypes, InitPlaced
  <1>2. ITypes /\ IPlaced /\ [Next]_vars => (ITypes /\ IPlaced)'
    BY TypesNext, PlacedNext
  <1>3. ITypes /\ IPlaced => EachRecipeOnce
    <2> SUFFICES ASSUME ITypes, IPlaced PROVE EachRecipeOnce
      OBVIOUS
    <2>1. DOMAIN scanners = 1..Len(scanners)
      BY LenProperties DEF ITypes
    <2>2. \A i \in DOMAIN scanners : DOMAIN scanners[i].recipes = 1..Len(scanners[i].recipes)
      BY <2>1, ElementOfSeq, LenProperties, ScannerFields DEF ITypes, ListedScanners
    <2>3. ASSUME pc = "scanner", NEW a \in DOMAIN args, args[a].opt = "r", NEW k \in DOMAIN args[a].files
          PROVE  Cardinality(Places(Id(a, k))) = 1
      <3>1. a \in 1..optind-1 /\ DOMAIN args[a].files = 1..Len(args[a].files)
        BY <2>3, Arguments, LenProperties DEF ITypes, IPlaced, OptionRecords
      <3>2. Parsed(a, k)
        BY <2>3, <3>1 DEF Parsed
      <3>3. PICK i, j : At(scanners, i, j) /\ IdAt(i, j) = Id(a, k)
        BY <2>3, <3>2 DEF IPlaced, AllPlaced
      <3>4. \A x, y : At(scanners, x, y) /\ IdAt(x, y) = Id(a, k) => x = i /\ y = j
        BY <2>3, <3>3 DEF IPlaced, PlacedOnce
      <3> DEFINE in(x) == {y \in DOMAIN scanners[x].recipes : scanners[x].recipes[y].id = Id(a, k)}
      <3>5. \A x \in DOMAIN scanners : \A y : y \in in(x) <=> x = i /\ y = j
        BY <2>1, <2>2, <3>3, <3>4 DEF At, IdAt
      <3>6. i \in DOMAIN scanners
        BY <2>1, <3>3 DEF At
      <3> HIDE DEF in
      <3>7. UNION {{<<x, y>> : y \in in(x)} : x \in DOMAIN scanners} = {<<i, j>>}
        BY <3>5, <3>6
      <3>8. Places(Id(a, k)) = {<<i, j>>}
        BY <3>7 DEF Places, in
      <3> QED
        BY <3>8, FS_Singleton
    <2> QED
      BY <2>1, <2>3 DEF EachRecipeOnce, IPlaced, Distinct, Id
  <1> QED
    BY <1>1, <1>2, <1>3, PTL DEF Spec

(***************************************************************************)
(* What is found: the match lines of the recipes and what became of them.  *)
(***************************************************************************)

\* The operation that a match line asks for.
OpOf(l) ==
    IF l.op = "int32"
    THEN [func |-> "int32", offset |-> l.offset,
          mask |-> [j \in 1..4 |-> Bits(HexBytes(l.words[2])[j])],
          val  |-> [j \in 1..4 |-> Bits(HexBytes(l.words[1])[j]) \cap Bits(HexBytes(l.words[2])[j])]]
    ELSE [func |-> "string", offset |-> l.offset, bytes |-> Meaning[l.words[1]]]

\* The match lines, and those of them that can be searched for, before line n.
Before(f, n) == {i \in MatchLines(f) : i < n}
Strings(f, n) == {i \in Before(f, n) : Files[f].lines[i].op # "int32"}

\* The operations of the recipe are those of these lines of its file.
OpsAre(recipe, f, lines) ==
    /\ \A k \in DOMAIN recipe.ops : \E i \in lines : recipe.ops[k] = OpOf(Files[f].lines[i])
    /\ \A i \in lines : \E k \in DOMAIN recipe.ops : recipe.ops[k] = OpOf(Files[f].lines[i])

LooksFor(s, l) ==
    s.func \in {"char", "string"} /\ s.offset = l.offset /\ s.bytes = Meaning[l.words[1]]

\* s and recipe are what the lines of f before n make of them under the -r at a.
Means(s, recipe, a, f, n) ==
    \/ /\ BlockFor(a) > 1
       /\ s.func = "block" /\ s.block = BlockFor(a) /\ OpsAre(recipe, f, Before(f, n))
    \/ /\ ~(BlockFor(a) > 1) /\ Strings(f, n) = {}
       /\ s.func = "none" /\ OpsAre(recipe, f, Before(f, n))
    \/ /\ ~(BlockFor(a) > 1)
       /\ \E q \in Strings(f, n) :
            /\ \A i \in Strings(f, n) : q <= i
            /\ LooksFor(s, Files[f].lines[q]) /\ OpsAre(recipe, f, Before(f, n) \ {q})

IMeaning ==
    pc # "failed" =>
        /\ IF BlockFor(optind) > 1 THEN global.func = "block" /\ global.block = BlockFor(optind)
           ELSE global.func = "none"
        /\ pc = "line" =>
            /\ line <= Len(File.lines) + 1
            /\ Means(scanner, r, optind - 1, Head(todo), line)
        /\ \A i, j : At(scanners, i, j) =>
            /\ IdAt(i, j)[2] \in DOMAIN Files
            /\ Means(scanners[i], scanners[i].recipes[j], IdAt(i, j)[1], IdAt(i, j)[2],
                     Len(Files[IdAt(i, j)[2]].lines) + 1)

(***************************************************************************)
(* The last -b before each -r.                                             *)
(***************************************************************************)

LEMMA BlockType ==
    ASSUME args \in CommandLines, NEW a \in 1..Len(args) + 1
    PROVE  BlockFor(a) \in Nat \ {0}
  <1> DEFINE before == {b \in 1..a-1 : args[b].opt = "b"}
             final == CHOOSE b \in before : \A c \in before : c <= b
             T == {a - b : b \in before}
  <1>1. a \in Nat /\ \A b \in 1..a-1 : b \in 1..Len(args) /\ args[b].block \in Int
    BY Arguments DEF OptionRecords
  <1>2. CASE before = {}
    BY <1>2 DEF BlockFor
  <1>3. CASE before # {}
    <2>1. T \subseteq Nat /\ T # {} /\ \A b \in before : a - b \in T /\ b \in Nat
      BY <1>1, <1>3
    <2>2. PICK t \in T : \A u \in T : t <= u
      BY <2>1, LeastMember
    <2>3. PICK b \in before : t = a - b
      BY <2>2
    <2> HIDE DEF T
    <2>4. \A c \in before : c <= b
      BY <1>1, <2>1, <2>2, <2>3
    <2>5. final \in before
      BY <2>4
    <2>6. BlockFor(a) = Larger(1, args[final].block)
      BY <1>3 DEF BlockFor
    <2>7. args[final].block \in Int
      BY <1>1, <2>5
    <2> HIDE DEF final
    <2> QED
      BY <2>6, <2>7 DEF Larger
  <1> QED
    BY <1>2, <1>3

LEMMA BlockStep ==
    ASSUME args \in CommandLines, NEW o \in 1..Len(args)
    PROVE  BlockFor(o + 1) = IF args[o].opt = "b" THEN Larger(1, args[o].block) ELSE BlockFor(o)
  <1> DEFINE after == {b \in 1..(o + 1)-1 : args[b].opt = "b"}
  <1>1. o \in Nat /\ (o + 1) - 1 = o
    BY Arguments
  <1>2. CASE args[o].opt = "b"
    <2> DEFINE final == CHOOSE b \in after : \A c \in after : c <= b
    <2>1. o \in after /\ \A c \in after : c <= o /\ c \in Nat
      BY <1>1, <1>2
    <2>2. final \in after /\ o <= final
      BY <2>1
    <2>3. final = o
      BY <2>1, <2>2
    <2>4. BlockFor(o + 1) = Larger(1, args[final].block)
      BY <2>1 DEF BlockFor
    <2> QED
      BY <1>2, <2>3, <2>4
  <1>3. CASE args[o].opt # "b"
    <2> DEFINE earlier(a) == {b \in 1..a-1 : args[b].opt = "b"}
    <2>1. \A b : b \in earlier(o) <=> b \in earlier(o + 1)
      BY <1>1, <1>3
    <2> DEFINE latest(T) == CHOOSE b \in T : \A c \in T : c <= b
    <2>2. \A a : BlockFor(a) =
            IF earlier(a) = {} THEN 1 ELSE Larger(1, args[latest(earlier(a))].block)
      BY Zenon DEF BlockFor
    <2> HIDE DEF earlier, latest
    <2>3. earlier(o) = earlier(o + 1)
      BY <2>1
    <2> QED
      BY <1>3, <2>2, <2>3
  <1> QED
    BY <1>2, <1>3

\* The block size for an -r is the one that was in force when it was read.
LEMMA BlockOfCurrent ==
    ASSUME ITypes, IPlaced, pc \in {"open", "line"}
    PROVE  BlockFor(optind - 1) = BlockFor(optind) /\ optind - 1 \in 1..Len(args)
  <1>1. optind > 1 /\ args[optind - 1].opt = "r"
    BY DEF IPlaced, RestToDo
  <1>2. optind - 1 \in 1..Len(args) /\ (optind - 1) + 1 = optind
    BY <1>1, Arguments DEF ITypes
  <1> DEFINE o == optind - 1
  <1> HIDE DEF o
  <1>3. BlockFor(o + 1) = BlockFor(o)
    BY <1>1, <1>2, BlockStep DEF o, ITypes
  <1> QED
    BY <1>2, <1>3 DEF o

(***************************************************************************)
(* A line more.                                                            *)
(***************************************************************************)

LEMMA BeforeNext ==
    ASSUME NEW f \in DOMAIN Files, NEW n \in 1..Len(Files[f].lines)
    PROVE  LET l == Files[f].lines[n] IN
           /\ Before(f, n + 1) = Before(f, n) \cup (IF l.is = "match" THEN {n} ELSE {})
           /\ Strings(f, n + 1) =
                Strings(f, n) \cup (IF l.is = "match" /\ l.op # "int32" THEN {n} ELSE {})
           /\ n \notin Before(f, n) /\ \A i \in Before(f, n) : i \in Nat /\ i < n
  <1>1. Files[f].lines \in Seq(Line) /\ DOMAIN Files[f].lines = 1..Len(Files[f].lines)
        /\ Len(Files[f].lines) \in Nat
    BY FilesAssumption, LenProperties
  <1>2. \A i \in MatchLines(f) : i \in Nat
    BY <1>1 DEF MatchLines
  <1>3. n \in MatchLines(f) <=> Files[f].lines[n].is = "match"
    BY <1>1 DEF MatchLines
  <1>4. \A i \in Nat : i < n + 1 <=> i < n \/ i = n
    BY <1>1
  <1>5. \A i : i \in Before(f, n + 1) <=>
               i \in Before(f, n) \/ (Files[f].lines[n].is = "match" /\ i = n)
    BY <1>2, <1>3, <1>4 DEF Before
  <1>6. \A i : i \in Strings(f, n + 1) <=>
               i \in Strings(f, n) \/ (Files[f].lines[n].is = "match" /\ Files[f].lines[n].op # "int32" /\ i = n)
    BY <1>5 DEF Strings
  <1>7. \A i \in Before(f, n) : i \in Nat /\ i < n
    BY <1>2 DEF Before
  <1>8. n \notin Before(f, n)
    BY <1>7
  <1> QED
    BY <1>5, <1>6, <1>7, <1>8

LEMMA OpsGrow ==
    ASSUME NEW recipe \in RecipeSet, NEW new, NEW f, NEW lines, NEW n,
           OpsAre(recipe, f, lines), new.ops = Append(recipe.ops, OpOf(Files[f].lines[n])),
           OpOf(Files[f].lines[n]) \in Operations
    PROVE  OpsAre(new, f, lines \cup {n})
  <1> DEFINE op == OpOf(Files[f].lines[n])
             m == Len(recipe.ops)
  <1>1. recipe.ops \in Seq(Operations)
    BY DEF RecipeSet
  <1>2. /\ DOMAIN recipe.ops = 1..m /\ DOMAIN new.ops = 1..m + 1 /\ m \in Nat
        /\ \A k \in 1..m : new.ops[k] = recipe.ops[k]
        /\ new.ops[m + 1] = op
    BY <1>1, AppendProperties, LenProperties
  <1>3. \A k \in 1..m + 1 : k \in 1..m \/ k = m + 1
    BY <1>2
  <1>4. m + 1 \in 1..m + 1 /\ \A k \in 1..m : k \in 1..m + 1
    BY <1>2
  <1> HIDE DEF op, m
  <1>5. \A k \in DOMAIN new.ops : \E i \in lines \cup {n} : new.ops[k] = OpOf(Files[f].lines[i])
    BY <1>2, <1>3 DEF OpsAre, op
  <1>6. \A i \in lines \cup {n} : \E k \in DOMAIN new.ops : new.ops[k] = OpOf(Files[f].lines[i])
    BY <1>2, <1>4 DEF OpsAre, op
  <1> QED
    BY <1>5, <1>6 DEF OpsAre

\* A match line whose newline is there means what it says.
LEMMA WholeLine ==
    ASSUME StringsMean, MatchLinesEnd, ITypes, AtLine("match")
    PROVE  LET l == File.lines[line] IN
           /\ Words = l.words
           /\ IsString <=> l.op \in {"string", "char"}
           /\ IsString /\ Param # <<>> => Param = Meaning[l.words[1]]
           /\ ValidOperation => NewOperation = OpOf(l) /\ (l.op # "int32" <=> IsString)
  <1> DEFINE l == File.lines[line]
             f == Head(todo)
  <1>1. pc = "line" /\ l.is = "match" /\ f \in DOMAIN Files /\ File = Files[f]
        /\ line \in 1..Len(File.lines) /\ DOMAIN File.lines = 1..Len(File.lines)
    BY LineTypes, LenProperties DEF AtLine, ITypes, File
  <1>2. line \in MatchLines(f)
    BY <1>1 DEF MatchLines
  <1>3. line < Len(File.lines) \/ File.newline
    BY <1>1, <1>2 DEF MatchLinesEnd
  <1>4. Words = l.words
    BY <1>3 DEF Words
  <1>5. IsString <=> l.op \in {"string", "char"}
    BY DEF IsString
  <1>6. ASSUME IsString, Param # <<>> PROVE Param = Meaning[l.words[1]]
    <2>1. Param = StringInit(l.words[1]) /\ l.op # "int32"
      BY <1>4, <1>5, <1>6 DEF Param
    <2> QED
      BY <1>1, <1>2, <1>6, <2>1 DEF StringsMean
  <1>7. ASSUME ValidOperation PROVE NewOperation = OpOf(l) /\ (l.op # "int32" <=> IsString)
    <2>1. CASE IsString
      BY <1>5, <1>6, <1>7, <2>1 DEF ValidOperation, NewOperation, OpOf, LineOffset
    <2>2. CASE ~IsString
      <3>1. l.op = "int32"
        BY <1>7, <2>2 DEF ValidOperation
      <3> QED
        BY <1>4, <2>2, <3>1 DEF NewOperation, OpOf, LineOffset
    <2> QED
      BY <2>1, <2>2
  <1> QED
    BY <1>4, <1>5, <1>6, <1>7

(***************************************************************************)
(* Each recipe of the list means what its file says.                       *)
(***************************************************************************)

LEMMA InitMeaning == Init => IMeaning
  <1> SUFFICES ASSUME Init PROVE IMeaning
    OBVIOUS
  <1>1. BlockFor(optind) = 1 /\ global.func = "none" /\ pc = "options"
    BY DEF Init, BlockFor, NoScanner
  <1>2. \A i, j : ~At(scanners, i, j)
    BY EmptySeq DEF Init, At
  <1> QED
    BY <1>1, <1>2 DEF IMeaning

\* What was parsed keeps its meaning: Means depends on the command line only.
LEMMA SameMeaning ==
    ASSUME pc # "failed", IMeaning, UNCHANGED <<args, scanners>>
    PROVE  \A i, j : At(scanners, i, j)' =>
            /\ IdAt(i, j)'[2] \in DOMAIN Files
            /\ Means(scanners[i], scanners[i].recipes[j], IdAt(i, j)[1], IdAt(i, j)[2],
                     Len(Files[IdAt(i, j)[2]].lines) + 1)'
  <1>1. \A a : BlockFor(a)' = BlockFor(a)
    BY DEF BlockFor
  <1>2. ASSUME NEW s, NEW recipe, NEW a, NEW f, NEW n
        PROVE  Means(s, recipe, a, f, n)' <=> Means(s, recipe, a, f, n)
    <2>1. BlockFor(a)' = BlockFor(a)
      BY <1>1
    <2> QED
      BY <2>1 DEF Means
  <1>3. \A i, j : IdAt(i, j)' = IdAt(i, j)
    BY DEF IdAt
  <1> QED
    BY <1>2, <1>3 DEF IMeaning

LEMMA MeansConstant ==
    ASSUME UNCHANGED args, NEW s, NEW recipe, NEW a, NEW f, NEW n, Means(s, recipe, a, f, n)
    PROVE  Means(s, recipe, a, f, n)'
  <1>1. BlockFor(a)' = BlockFor(a)
    BY DEF BlockFor
  <1> QED
    BY <1>1 DEF Means

\* One line changes what the scanner and the recipe stand for as it should.
LEMMA LineMeans ==
    ASSUME StringsMean, MatchLinesEnd, ITypes, IPlaced, IMeaning,
           ScannerLine \/ OperationLine \/ DirectiveLine \/ IgnoredLine
    PROVE  Means(scanner', r', optind - 1, Head(todo), line + 1)
  <1> DEFINE f == Head(todo)
             a == optind - 1
             l == Files[f].lines[line]
             B == Before(f, line)
             S == Strings(f, line)
  <1>1. pc = "line" /\ f \in DOMAIN Files /\ File = Files[f] /\ line \in 1..Len(Files[f].lines)
        /\ l = File.lines[line]
    BY LineTypes DEF ScannerLine, OperationLine, DirectiveLine, IgnoredLine, AtLine, ITypes, File
  <1>2. /\ Before(f, line + 1) = B \cup (IF l.is = "match" THEN {line} ELSE {})
        /\ Strings(f, line + 1) = S \cup (IF l.is = "match" /\ l.op # "int32" THEN {line} ELSE {})
        /\ line \notin B /\ \A i \in B : i \in Nat /\ i < line
    BY <1>1, BeforeNext
  <1>3. Means(scanner, r, a, f, line)
    BY <1>1 DEF IMeaning
  <1>4. scanner \in ScannerSet /\ r \in RecipeSet /\ line \in Nat
    BY DEF ITypes
  <1>5. S \subseteq B
    BY DEF Strings
  <1> HIDE DEF f, a, l, B, S
  <1>6. CASE ScannerLine
    <2>1. AtLine("match") /\ l.is = "match" /\ BecomesScanner /\ scanner' = NewScanner /\ r' = r
      BY <1>1, <1>6 DEF ScannerLine, AtLine
    <2>2. scanner = NoScanner /\ IsString /\ Param # <<>>
      BY <2>1 DEF BecomesScanner
    <2>3. Param = Meaning[l.words[1]] /\ l.op # "int32" /\ LineOffset = l.offset
      BY <1>1, <2>1, <2>2, WholeLine DEF LineOffset
    <2>4. LooksFor(NewScanner, l)
      BY <2>1, <2>3, NewScannerType DEF LooksFor
    <2>5. scanner.func = "none"
      BY <2>2 DEF NoScanner
    <2>6. ~(BlockFor(a) > 1) /\ S = {} /\ OpsAre(r, f, B)
      BY <1>3, <2>5 DEF Means, LooksFor, B, S
    <2>7. Strings(f, line + 1) = {line} /\ Before(f, line + 1) \ {line} = B
      BY <1>2, <2>1, <2>3, <2>6
    <2>8. line \in Strings(f, line + 1) /\ \A i \in Strings(f, line + 1) : line <= i
      BY <1>4, <2>7
    <2>9. OpsAre(r', f, Before(f, line + 1) \ {line})
      BY <2>1, <2>6, <2>7
    <2>10. LooksFor(scanner', Files[f].lines[line])
      BY <2>1, <2>4 DEF l
    <2>11. Means(scanner', r', a, f, line + 1)
      BY <2>6, <2>8, <2>9, <2>10 DEF Means
    <2> QED
      BY <2>11 DEF a, f
  <1>7. CASE OperationLine
    <2>1. /\ AtLine("match") /\ l.is = "match" /\ ~BecomesScanner /\ ValidOperation
          /\ scanner' = scanner /\ r' = [r EXCEPT !.ops = Append(@, NewOperation)]
      BY <1>1, <1>7 DEF OperationLine, AtLine
    <2>2. NewOperation = OpOf(l) /\ NewOperation \in Operations /\ (l.op # "int32" <=> IsString)
      BY <1>1, <2>1, WholeLine, NewOperationType
    <2>3. r'.ops = Append(r.ops, OpOf(l))
      BY <1>4, <2>1, <2>2 DEF RecipeSet
    <2>4. \A lines : OpsAre(r, f, lines) => OpsAre(r', f, lines \cup {line})
      BY <1>4, <2>2, <2>3, OpsGrow DEF l
    <2>5. Before(f, line + 1) = B \cup {line}
      BY <1>2, <2>1
    <2>6. CASE BlockFor(a) > 1
      <3>1. scanner.func = "block" /\ scanner.block = BlockFor(a) /\ OpsAre(r, f, B)
        BY <1>3, <2>6 DEF Means, B
      <3>2. OpsAre(r', f, Before(f, line + 1))
        BY <2>4, <2>5, <3>1
      <3>3. Means(scanner', r', a, f, line + 1)
        BY <2>1, <2>6, <3>1, <3>2 DEF Means
      <3> QED
        BY <3>3 DEF a, f
    <2>7. CASE ~(BlockFor(a) > 1) /\ S = {}
      <3>1. scanner.func = "none" /\ OpsAre(r, f, B)
        BY <1>3, <2>7 DEF Means, B, S
      <3>2. scanner = NoScanner
        BY <1>4, <3>1, ScannerFields
      <3>3. ~IsString
        BY <2>1, <3>2 DEF BecomesScanner, ValidOperation, IsString
      <3>4. Strings(f, line + 1) = {}
        BY <1>2, <2>2, <2>7, <3>3
      <3>5. OpsAre(r', f, Before(f, line + 1))
        BY <2>4, <2>5, <3>1
      <3>6. Means(scanner', r', a, f, line + 1)
        BY <2>1, <2>7, <3>1, <3>4, <3>5 DEF Means
      <3> QED
        BY <3>6 DEF a, f
    <2>8. CASE ~(BlockFor(a) > 1) /\ S # {}
      <3>1. PICK q \in S : /\ \A i \in S : q <= i
                           /\ LooksFor(scanner, Files[f].lines[q]) /\ OpsAre(r, f, B \ {q})
        BY <1>3, <2>8 DEF Means, B, S
      <3>2. q \in B /\ q \in Nat /\ q < line
        BY <1>2, <1>5, <3>1
      <3>3. Before(f, line + 1) \ {q} = (B \ {q}) \cup {line}
        BY <1>4, <2>5, <3>2
      <3>4. OpsAre(r', f, Before(f, line + 1) \ {q})
        BY <2>4, <3>1, <3>3
      <3>5. q \in Strings(f, line + 1) /\ \A i \in Strings(f, line + 1) : q <= i
        <4>1. q \in Strings(f, line + 1) /\ \A i \in Strings(f, line + 1) : i \in S \/ i = line
          BY <1>2, <3>1
        <4>2. q <= line
          BY <1>4, <3>2
        <4> QED
          BY <3>1, <4>1, <4>2
      <3>6. Means(scanner', r', a, f, line + 1)
        BY <2>1, <2>8, <3>1, <3>4, <3>5 DEF Means
      <3> QED
        BY <3>6 DEF a, f
    <2> QED
      BY <2>6, <2>7, <2>8
  <1>8. CASE DirectiveLine \/ IgnoredLine
    <2>1. l.is # "match" /\ scanner' = scanner /\ r'.ops = r.ops
      BY <1>1, <1>4, <1>8 DEF DirectiveLine, IgnoredLine, AtLine, RecipeSet
    <2>2. Before(f, line + 1) = B /\ Strings(f, line + 1) = S
      BY <1>2, <2>1
    <2>3. \A lines : OpsAre(r, f, lines) <=> OpsAre(r', f, lines)
      BY <2>1 DEF OpsAre
    <2>4. Means(scanner', r', a, f, line + 1)
      BY <1>3, <2>1, <2>2, <2>3 DEF Means, B, S
    <2> QED
      BY <2>4 DEF a, f
  <1> QED
    BY <1>6, <1>7, <1>8

LEMMA RecipeMeaning ==
    ASSUME ITypes, IPlaced, IMeaning, RecipeEnds
    PROVE  IMeaning'
  <1> DEFINE f == Head(todo)
             a == optind - 1
             n == Len(Files[f].lines) + 1
  <1>1. /\ pc = "line" /\ pc' = "open" /\ UNCHANGED <<args, optind, global>>
        /\ scanners' = AddRecipe(scanner, r) /\ line > Len(File.lines)
    BY DEF RecipeEnds
  <1>2. scanner \in ListedScanners /\ r \in RecipeSet
    BY ScannerFields DEF RecipeEnds, ITypes, ListedScanners
  <1>3. PICK x, y : Added(scanners', scanner, r, x, y)
    BY <1>1, <1>2, AddRecipeAdds DEF ITypes
  <1>4. f \in DOMAIN Files /\ File = Files[f] /\ Len(File.lines) \in Nat
    BY <1>1, FilesAssumption, LenProperties DEF ITypes, File
  <1>5. line = n
    BY <1>1, <1>4 DEF ITypes, IMeaning
  <1>6. Means(scanner, r, a, f, n) /\ r.id = <<a, f>>
    BY <1>1, <1>5 DEF IMeaning, IPlaced
  <1>7. \A s, t, recipe, b, g, m : SameScanner(t, s) /\ Means(s, recipe, b, g, m) => Means(t, recipe, b, g, m)
    <2>1. \A s, t, l : SameScanner(t, s) /\ LooksFor(s, l) => LooksFor(t, l)
      BY DEF SameScanner, LooksFor
    <2> QED
      BY <2>1 DEF Means, SameScanner
  <1> HIDE DEF f, a, n
  <1>8. ASSUME NEW i, NEW j, At(scanners', i, j)
        PROVE  /\ IdAt(i, j)'[2] \in DOMAIN Files
               /\ Means(scanners'[i], scanners'[i].recipes[j], IdAt(i, j)'[1], IdAt(i, j)'[2],
                        Len(Files[IdAt(i, j)'[2]].lines) + 1)
    <2>1. CASE At(scanners, i, j)
      <3>1. /\ scanners'[i].recipes[j] = scanners[i].recipes[j] /\ IdAt(i, j)' = IdAt(i, j)
            /\ i \in 1..Len(scanners) /\ SameScanner(scanners'[i], scanners[i])
        BY <1>3, <2>1 DEF Added, At, IdAt
      <3>2. /\ IdAt(i, j)[2] \in DOMAIN Files
            /\ Means(scanners[i], scanners[i].recipes[j], IdAt(i, j)[1], IdAt(i, j)[2],
                     Len(Files[IdAt(i, j)[2]].lines) + 1)
        BY <1>1, <2>1 DEF IMeaning
      <3> QED
        BY <1>7, <3>1, <3>2
    <2>2. CASE i = x /\ j = y
      <3>1. scanners'[i].recipes[j] = r /\ SameScanner(scanners'[i], scanner) /\ IdAt(i, j)' = <<a, f>>
        BY <1>3, <1>6, <2>2 DEF Added, IdAt
      <3>2. Means(scanners'[i], r, a, f, n)
        BY <1>6, <1>7, <3>1
      <3> QED
        BY <1>4, <3>1, <3>2 DEF n
    <2> QED
      BY <1>3, <1>8, <2>1, <2>2 DEF Added
  <1>9. \A b : BlockFor(b)' = BlockFor(b)
    BY <1>1 DEF BlockFor
  <1>10. ASSUME NEW s, NEW recipe, NEW b, NEW g, NEW m
         PROVE  Means(s, recipe, b, g, m)' <=> Means(s, recipe, b, g, m)
    <2>1. BlockFor(b)' = BlockFor(b)
      BY <1>9
    <2> QED
      BY <2>1 DEF Means
  <1>11. \A i, j : At(scanners, i, j)' <=> At(scanners', i, j)
    BY DEF At
  <1>12. BlockFor(optind)' = BlockFor(optind)
    BY <1>1 DEF BlockFor
  <1> QED
    BY <1>1, <1>8, <1>10, <1>11, <1>12 DEF IMeaning

LEMMA MeaningNext ==
    ASSUME StringsMean, MatchLinesEnd
    PROVE  ITypes /\ IPlaced /\ IMeaning /\ [Next]_vars => IMeaning'
  <1> SUFFICES ASSUME ITypes, IPlaced, IMeaning, [Next]_vars PROVE IMeaning'
    OBVIOUS
  <1> USE DEF parseVars, scanVars
  <1>1. ASSUME pc # "failed", pc' # "failed", UNCHANGED <<args, scanners>>,
               IF BlockFor(optind') > 1 THEN global'.func = "block" /\ global'.block = BlockFor(optind')
               ELSE global'.func = "none",
               pc' = "line" => line' <= Len(File.lines) + 1 /\ File' = File
                               /\ Means(scanner', r', optind' - 1, Head(todo'), line')
        PROVE  IMeaning'
    <2>1. BlockFor(optind)' = BlockFor(optind')
      BY <1>1 DEF BlockFor
    <2>2. \A s, recipe, a, f, n : Means(s, recipe, a, f, n) => Means(s, recipe, a, f, n)'
      BY <1>1, MeansConstant
    <2>3. Means(scanner', r', optind' - 1, Head(todo'), line') => Means(scanner, r, optind - 1, Head(todo), line)'
      BY <1>1, <2>1 DEF Means, BlockFor
    <2>4. \A i, j : At(scanners, i, j)' =>
            /\ IdAt(i, j)'[2] \in DOMAIN Files
            /\ Means(scanners[i], scanners[i].recipes[j], IdAt(i, j)[1], IdAt(i, j)[2],
                     Len(Files[IdAt(i, j)[2]].lines) + 1)'
      BY <1>1, SameMeaning
    <2> QED
      BY <1>1, <2>1, <2>3, <2>4 DEF IMeaning
  <1>2. CASE OptionB \/ OptionD \/ OptionR
    <2>1. /\ pc = "options" /\ optind \in 1..Len(args) /\ optind' = optind + 1
          /\ UNCHANGED <<args, scanners>> /\ args[optind] \in OptionRecords /\ pc' \in {"options", "open"}
      BY <1>2, Arguments DEF OptionB, OptionD, OptionR, Option, ITypes
    <2>2. BlockFor(optind') = IF args[optind].opt = "b" THEN Larger(1, args[optind].block) ELSE BlockFor(optind)
      BY <2>1, BlockStep DEF ITypes
    <2>3. CASE OptionB
      <3> DEFINE b == args[optind].block
      <3>1. args[optind].opt = "b" /\ b \in Int
            /\ global' = IF b <= 1 THEN NoScanner ELSE BlockScanner(b)
        BY <2>1, <2>3 DEF OptionB, Option, OptionRecords, BlockScanner
      <3>2. BlockFor(optind') = Larger(1, b)
        BY <2>2, <3>1
      <3> HIDE DEF b
      <3>3. IF b > 1 THEN Larger(1, b) = b /\ global' = BlockScanner(b) ELSE Larger(1, b) = 1 /\ global' = NoScanner
        BY <3>1 DEF Larger
      <3>4. b > 1 => BlockScanner(b).func = "block" /\ BlockScanner(b).block = b
        BY <3>1, BlockScannerType
      <3>5. IF BlockFor(optind') > 1 THEN global'.func = "block" /\ global'.block = BlockFor(optind')
            ELSE global'.func = "none"
        BY <3>1, <3>2, <3>3, <3>4 DEF NoScanner
      <3>6. pc' = "options"
        BY <2>1, <2>3 DEF OptionB
      <3> QED
        BY <1>1, <2>1, <3>5, <3>6
    <2>4. CASE OptionD \/ OptionR
      <3>1. args[optind].opt # "b" /\ global' = global
        BY <2>4 DEF OptionD, OptionR, Option
      <3>2. BlockFor(optind') = BlockFor(optind)
        BY <2>2, <3>1
      <3>3. IF BlockFor(optind') > 1 THEN global'.func = "block" /\ global'.block = BlockFor(optind')
            ELSE global'.func = "none"
        BY <2>1, <3>1, <3>2 DEF IMeaning
      <3> QED
        BY <1>1, <2>1, <3>3
    <2> QED
      BY <1>2, <2>3, <2>4
  <1>3. CASE RecipeEnds
    BY <1>3, RecipeMeaning
  <1>4. CASE Fail
    BY <1>4 DEF Fail, IMeaning
  <1>5. CASE OptionBFails \/ OptionDFails \/ OpenFails \/ BadMatchLine \/ BadDirectiveLine
             \/ ReadFails \/ RecipeIncomplete
    BY <1>4, <1>5 DEF OptionBFails, OptionDFails, OpenFails, BadMatchLine, BadDirectiveLine,
                      ReadFails, RecipeIncomplete
  <1>6. ASSUME pc # "failed", UNCHANGED <<optind, global>>
        PROVE  IF BlockFor(optind') > 1 THEN global'.func = "block" /\ global'.block = BlockFor(optind')
               ELSE global'.func = "none"
    BY <1>6 DEF IMeaning
  <1>7. CASE OptionsEnd
    <2>1. CASE pc' = "failed"
      BY <2>1 DEF IMeaning
    <2>2. CASE pc' # "failed"
      BY <1>1, <1>6, <1>7, <2>2 DEF OptionsEnd
    <2> QED
      BY <2>1, <2>2
  <1>8. CASE Open
    <2> DEFINE f == Head(todo)
    <2>1. /\ pc = "open" /\ f \in DOMAIN Files /\ scanner' = global /\ line' = 1 /\ pc' = "line"
          /\ r' = [NoRecipe EXCEPT !.id = <<optind - 1, f>>] /\ UNCHANGED <<args, optind, global, todo, scanners>>
      BY <1>8 DEF Open
    <2>2. File' = File /\ File = Files[f] /\ Len(File.lines) \in Nat
      BY <2>1, FilesAssumption, LenProperties DEF File
    <2>3. Before(f, 1) = {}
      <3>1. DOMAIN Files[f].lines = 1..Len(Files[f].lines)
        BY <2>1, FilesAssumption, LenProperties
      <3> QED
        BY <3>1 DEF Before, MatchLines
    <2>4. Strings(f, 1) = {}
      BY <2>3 DEF Strings
    <2>5. r'.ops = <<>>
      BY <2>1 DEF NoRecipe
    <2>6. OpsAre(r', f, Before(f, 1))
      BY <2>3, <2>5 DEF OpsAre
    <2>7. BlockFor(optind - 1) = BlockFor(optind)
      BY <2>1, BlockOfCurrent
    <2>8. Means(scanner', r', optind - 1, f, 1)
      BY <2>1, <2>4, <2>6, <2>7 DEF Means, IMeaning
    <2>9. line' <= Len(File.lines) + 1
      BY <2>1, <2>2
    <2> QED
      BY <1>1, <1>6, <2>1, <2>2, <2>8, <2>9
  <1>9. CASE ScannerLine \/ OperationLine \/ DirectiveLine \/ IgnoredLine
    <2>1. /\ pc = "line" /\ pc' = "line" /\ line' = line + 1 /\ line <= Len(File.lines)
          /\ UNCHANGED <<args, optind, global, todo, scanners>>
      BY <1>9 DEF ScannerLine, OperationLine, DirectiveLine, IgnoredLine, AtLine, NextLine
    <2>2. Means(scanner', r', optind - 1, Head(todo), line + 1)
      BY <1>9, LineMeans
    <2>3. File' = File
      BY <2>1 DEF File
    <2>4. line + 1 <= Len(File.lines) + 1
      BY <2>1, LineTypes
    <2> QED
      BY <1>1, <1>6, <2>1, <2>2, <2>3, <2>4
  <1>10. CASE DirectoryEnds \/ NextScanner \/ ScannersEnd \/ SearchEnds \/ TryRecipes
    BY <1>1, <1>6, <1>10 DEF DirectoryEnds, NextScanner, ScannersEnd, SearchEnds, TryRecipes
  <1>11. CASE UNCHANGED vars
    <2>1. CASE pc = "failed"
      BY <1>11, <2>1 DEF vars, IMeaning
    <2>2. CASE pc # "failed"
      <3>1. File' = File
        BY <1>11 DEF vars, File
      <3> QED
        BY <1>1, <1>6, <1>11, <2>2, <3>1 DEF vars, IMeaning
    <2> QED
      BY <2>1, <2>2
  <1> QED
    BY <1>2, <1>3, <1>5, <1>7, <1>8, <1>9, <1>10, <1>11 DEF Next

(***************************************************************************)
(* The search of a window.                                                 *)
(***************************************************************************)

\* Recipe j of scanner i matches at x: its scanner finds it and its operations agree.
RecipeMatches(i, j, x) ==
    /\ Candidate(scanners[i], x + scanners[i].offset)
    /\ AllOpsMatch(scanners[i].recipes[j], x)

\* The search for scanner i has passed cell h.
Passed(i, h) == i < sc \/ (i = sc /\ pc = "search" /\ h < p)

FoundMatches ==
    \A m \in found : \E i, j : \E x \in 0..WindowLen-1 :
        At(scanners, i, j) /\ m = <<IdAt(i, j), x>> /\ RecipeMatches(i, j, x)

MatchesPassed ==
    \A i, j : \A x \in 0..WindowLen-1 :
        /\ At(scanners, i, j) /\ x + scanners[i].offset < WindowLen /\ RecipeMatches(i, j, x)
        /\ Passed(i, x + scanners[i].offset)
        => <<IdAt(i, j), x>> \in found

IFound ==
    /\ pc \in {"options", "open", "line"} => found = {} /\ sc = 1
    /\ pc \in {"scanner", "search", "done"} => FoundMatches /\ MatchesPassed
    /\ pc = "done" => sc > Len(scanners)

LEMMA InitFound == Init => IFound
  BY DEF Init, IFound

\* Whether something matches depends on the window and the list only.
LEMMA SameMatches ==
    ASSUME UNCHANGED <<scanners, win, filepos>>
    PROVE  /\ \A i, j, x : RecipeMatches(i, j, x)' <=> RecipeMatches(i, j, x)
           /\ \A i, j : (At(scanners, i, j)' <=> At(scanners, i, j)) /\ IdAt(i, j)' = IdAt(i, j)
  <1>1. \A x, s : SameBytes(x, s)' <=> SameBytes(x, s)
    BY DEF SameBytes
  <1>2. \A op, x : OpMatches(op, x)' <=> OpMatches(op, x)
    <2> SUFFICES ASSUME NEW op, NEW x PROVE OpMatches(op, x)' <=> OpMatches(op, x)
      OBVIOUS
    <2>1. op_string(op, x)' <=> op_string(op, x)
      BY <1>1 DEF op_string
    <2>2. op_int32(op, x)' <=> op_int32(op, x)
      BY DEF op_int32
    <2> QED
      BY <2>1, <2>2 DEF OpMatches
  <1>3. \A recipe, x : AllOpsMatch(recipe, x)' <=> AllOpsMatch(recipe, x)
    BY <1>2 DEF AllOpsMatch
  <1>4. \A s, h : Candidate(s, h)' <=> Candidate(s, h)
    BY <1>1 DEF Candidate
  <1>5. \A i, j, x : RecipeMatches(i, j, x)' <=> RecipeMatches(i, j, x)
    BY <1>3, <1>4 DEF RecipeMatches
  <1> QED
    BY <1>5 DEF At, IdAt

\* One candidate: all places before it have been dealt with, and it adds its matches.
LEMMA TryFound ==
    ASSUME ITypes, IFound, TryRecipes
    PROVE  IFound'
  <1> DEFINE s == scanners[sc]
             x0 == Hit - s.offset
             places == {h \in p..WindowLen + s.offset - 1 : Candidate(s, h)}
             new == {<<id, x0>> : id \in Matching(s, x0)}
  <1>1. /\ pc = "search" /\ pc' = "search" /\ Hit # Nowhere /\ p' = Hit + 1 /\ found' = found \cup new
        /\ UNCHANGED <<scanners, win, filepos, sc>>
    BY DEF TryRecipes
  <1>2. /\ sc \in 1..Len(scanners) /\ s \in ListedScanners /\ s.offset \in Nat /\ s.offset <= p
        /\ IsFirst(Hit, places)
        /\ Hit \in p..WindowLen + s.offset - 1 /\ Hit \in Nat /\ Candidate(s, Hit)
    BY <1>1, HitIsFirst
  <1>3. x0 \in 0..WindowLen-1 /\ x0 + s.offset = Hit /\ WindowLen \in Nat /\ p \in Nat
    <2> DEFINE o == s.offset
    <2>1. WindowLen \in Nat /\ p \in Nat
      BY WindowsAssumption DEF ITypes
    <2>2. o \in Nat /\ o <= p /\ Hit \in p..WindowLen + o - 1 /\ Hit \in Nat /\ x0 = Hit - o
      BY <1>2
    <2> HIDE DEF o, x0
    <2>3. x0 \in 0..WindowLen-1 /\ x0 + o = Hit
      BY <2>1, <2>2
    <2> QED
      BY <2>1, <2>3 DEF o
  <1>4. \A m \in new : \E j : m = <<IdAt(sc, j), x0>> /\ At(scanners, sc, j) /\ AllOpsMatch(s.recipes[j], x0)
    <2>1. DOMAIN s.recipes = 1..Len(s.recipes)
      BY <1>2, LenProperties, ScannerFields DEF ListedScanners
    <2> QED
      BY <1>2, <2>1 DEF Matching, IdAt, At
  <1>5. ASSUME NEW j, At(scanners, sc, j), AllOpsMatch(s.recipes[j], x0)
        PROVE  <<IdAt(sc, j), x0>> \in new
    <2>1. DOMAIN s.recipes = 1..Len(s.recipes)
      BY <1>2, LenProperties, ScannerFields DEF ListedScanners
    <2> QED
      BY <1>5, <2>1 DEF Matching, IdAt, At
  <1> HIDE DEF new, s, x0
  <1>7. \A i, j, x : RecipeMatches(i, j, x)' <=> RecipeMatches(i, j, x)
    BY <1>1, SameMatches
  <1>8. \A i, j : (At(scanners, i, j)' <=> At(scanners, i, j)) /\ IdAt(i, j)' = IdAt(i, j)
    BY <1>1, SameMatches
  <1>9. FoundMatches'
    <2> SUFFICES ASSUME NEW m \in found'
                 PROVE  \E i, j : \E x \in 0..WindowLen-1 :
                            At(scanners, i, j) /\ m = <<IdAt(i, j), x>> /\ RecipeMatches(i, j, x)
      BY <1>7, <1>8 DEF FoundMatches
    <2>1. CASE m \in found
      BY <1>1, <2>1 DEF IFound, FoundMatches
    <2>2. CASE m \in new
      <3>1. PICK j : m = <<IdAt(sc, j), x0>> /\ At(scanners, sc, j) /\ AllOpsMatch(s.recipes[j], x0)
        BY <1>4, <2>2
      <3>2. RecipeMatches(sc, j, x0)
        BY <1>2, <1>3, <3>1 DEF RecipeMatches, s
      <3> QED
        BY <1>3, <3>1, <3>2
    <2> QED
      BY <1>1, <2>1, <2>2
  <1>10. MatchesPassed'
    <2> SUFFICES ASSUME NEW i, NEW j, NEW x \in 0..WindowLen-1, At(scanners, i, j),
                        x + scanners[i].offset < WindowLen, RecipeMatches(i, j, x),
                        Passed(i, x + scanners[i].offset)'
                 PROVE  <<IdAt(i, j), x>> \in found'
      BY <1>1, <1>7, <1>8 DEF MatchesPassed
    <2> DEFINE h == x + scanners[i].offset
    <2>1. MatchesPassed
      BY <1>1 DEF IFound
    <2>2. scanners[i].offset \in Nat /\ h \in Nat /\ Candidate(scanners[i], h)
      <3>1. scanners[i].offset \in Nat
        BY PlacedRecipe, ScannerFields DEF ITypes
      <3> QED
        BY <3>1 DEF RecipeMatches
    <2>3. i < sc \/ (i = sc /\ h < p')
      BY <1>1 DEF Passed
    <2>4. CASE Passed(i, h)
      BY <1>1, <2>1, <2>4 DEF MatchesPassed
    <2>5. CASE i = sc /\ ~(h < p)
      <3>1. h \in p..WindowLen + s.offset - 1
        <4>1. h < WindowLen /\ p <= h
          BY <1>3, <2>2, <2>5
        <4> HIDE DEF h
        <4> QED
          BY <1>2, <1>3, <2>2, <4>1
      <3>2. h \in places
        BY <2>2, <2>5, <3>1 DEF s
      <3>3. Hit <= h
        <4> HIDE DEF places
        <4> QED
          BY <1>2, <3>2 DEF IsFirst
      <3>4. h = Hit
        <4>1. p' = Hit + 1 /\ Hit \in Nat /\ h \in Nat /\ h < p'
          BY <1>1, <1>2, <2>2, <2>3, <2>5
        <4> HIDE DEF h
        <4> QED
          BY <3>3, <4>1
      <3>5. x = x0
        BY <1>2, <2>2, <2>5, <3>4 DEF s, x0
      <3>6. AllOpsMatch(s.recipes[j], x0)
        BY <2>5, <3>5 DEF RecipeMatches, s
      <3> QED
        BY <1>1, <1>5, <2>5, <3>5, <3>6
    <2> QED
      BY <1>1, <2>3, <2>4, <2>5 DEF Passed
  <1> QED
    BY <1>1, <1>9, <1>10 DEF IFound

\* A search that finds nothing more has passed all cells of the window.
LEMMA SearchFound ==
    ASSUME ITypes, IFound, SearchEnds
    PROVE  IFound'
  <1> DEFINE s == scanners[sc]
             places == {h \in p..WindowLen + s.offset - 1 : Candidate(s, h)}
  <1>1. /\ pc = "search" /\ pc' = "scanner" /\ Hit = Nowhere /\ sc' = sc + 1
        /\ UNCHANGED <<scanners, win, filepos, p, found>>
    BY DEF SearchEnds
  <1>2. /\ sc \in 1..Len(scanners) /\ s.offset \in Nat
        /\ p < WindowLen => IsFirst(Hit, places)
    BY <1>1, HitIsFirst
  <1>3. p \in Nat /\ WindowLen \in Nat /\ sc \in Nat
    BY <1>2, WindowsAssumption DEF ITypes
  <1>4. p < WindowLen => places = {}
    <2> SUFFICES ASSUME p < WindowLen, places # {} PROVE FALSE
      OBVIOUS
    <2>1. Hit \in places
      <3> HIDE DEF places
      <3> QED
        BY <1>2 DEF IsFirst
    <2> QED
      BY <1>1, <1>3, <2>1 DEF Nowhere
  <1> HIDE DEF s
  <1>6. \A i, j, x : RecipeMatches(i, j, x)' <=> RecipeMatches(i, j, x)
    BY <1>1, SameMatches
  <1>7. \A i, j : (At(scanners, i, j)' <=> At(scanners, i, j)) /\ IdAt(i, j)' = IdAt(i, j)
    BY <1>1, SameMatches
  <1>8. FoundMatches'
    BY <1>1, <1>6, <1>7 DEF IFound, FoundMatches
  <1>9. MatchesPassed'
    <2> SUFFICES ASSUME NEW i, NEW j, NEW x \in 0..WindowLen-1, At(scanners, i, j),
                        x + scanners[i].offset < WindowLen, RecipeMatches(i, j, x),
                        Passed(i, x + scanners[i].offset)'
                 PROVE  <<IdAt(i, j), x>> \in found
      BY <1>1, <1>6, <1>7 DEF MatchesPassed
    <2> DEFINE h == x + scanners[i].offset
    <2>1. scanners[i].offset \in Nat /\ h \in Nat /\ Candidate(scanners[i], h) /\ i \in Nat
      <3>1. scanners[i].offset \in Nat
        BY PlacedRecipe, ScannerFields DEF ITypes
      <3>2. i \in Nat
        BY DEF At
      <3>3. scanners[i].offset \in Nat /\ i \in Nat
        BY <3>1, <3>2
      <3> QED
        BY <3>3 DEF RecipeMatches
    <2>2. i < sc \/ i = sc
      BY <1>1, <1>3, <2>1 DEF Passed
    <2>3. ASSUME i = sc, ~(h < p) PROVE FALSE
      <3>1. h \in p..WindowLen + s.offset - 1
        <4>1. h < WindowLen /\ p <= h
          BY <1>3, <2>1, <2>3
        <4> HIDE DEF h
        <4> QED
          BY <1>2, <1>3, <2>1, <4>1
      <3>2. p < WindowLen
        BY <1>3, <2>1, <2>3
      <3>3. h \in places
        BY <2>1, <2>3, <3>1 DEF s
      <3> QED
        BY <1>4, <3>2, <3>3
    <2>4. Passed(i, h)
      BY <1>1, <2>2, <2>3 DEF Passed
    <2>5. MatchesPassed
      BY <1>1 DEF IFound
    <2> QED
      BY <2>4, <2>5 DEF MatchesPassed
  <1> QED
    BY <1>1, <1>8, <1>9 DEF IFound

LEMMA FoundNext == ITypes /\ IFound /\ [Next]_vars => IFound'
  <1> SUFFICES ASSUME ITypes, IFound, [Next]_vars PROVE IFound'
    OBVIOUS
  <1> USE DEF parseVars, scanVars
  <1>1. CASE TryRecipes
    BY <1>1, TryFound
  <1>2. CASE SearchEnds
    BY <1>2, SearchFound
  <1>3. ASSUME UNCHANGED <<sc, found>>, pc \in {"options", "open", "line"},
               pc' \in {"options", "open", "line", "failed"}
        PROVE  IFound'
    BY <1>3 DEF IFound
  <1>4. CASE OptionB \/ OptionBFails \/ OptionD \/ OptionDFails \/ OptionR
    BY <1>3, <1>4 DEF OptionB, OptionBFails, OptionD, OptionDFails, OptionR, Option, Fail
  <1>5. CASE DirectoryEnds \/ Open \/ OpenFails \/ RecipeEnds \/ RecipeIncomplete \/ ReadFails
    BY <1>3, <1>5 DEF DirectoryEnds, Open, OpenFails, RecipeEnds, RecipeIncomplete, ReadFails, Fail
  <1>6. CASE ScannerLine \/ OperationLine \/ BadMatchLine \/ DirectiveLine \/ BadDirectiveLine \/ IgnoredLine
    BY <1>3, <1>6 DEF ScannerLine, OperationLine, BadMatchLine, DirectiveLine, BadDirectiveLine,
                      IgnoredLine, AtLine, NextLine, Fail
  <1>7. CASE OptionsEnd
    <2>1. CASE pc' = "failed"
      BY <2>1 DEF IFound
    <2>2. CASE pc' = "scanner"
      <3>1. found' = {} /\ sc' = 1 /\ scanners' = scanners
        BY <1>7 DEF OptionsEnd, IFound
      <3>2. \A i, j, h : At(scanners, i, j)' => ~Passed(i, h)'
        BY <2>2, <3>1, LenProperties DEF ITypes, At, Passed
      <3> QED
        BY <2>2, <3>1, <3>2 DEF IFound, FoundMatches, MatchesPassed
    <2> QED
      BY <1>7, <2>1, <2>2 DEF OptionsEnd
  <1>8. ASSUME UNCHANGED <<scanners, win, filepos, sc, found>>,
               pc \in {"scanner", "search", "done"}, pc' \in {"scanner", "search", "done"},
               pc' = "done" => sc > Len(scanners),
               \A i, j, x : At(scanners, i, j) /\ x \in 0..WindowLen-1 /\ Passed(i, x + scanners[i].offset)'
                    => Passed(i, x + scanners[i].offset)
        PROVE  IFound'
    <2>2. \A i, j, x : RecipeMatches(i, j, x)' <=> RecipeMatches(i, j, x)
      BY <1>8, SameMatches
    <2>3. \A i, j : (At(scanners, i, j)' <=> At(scanners, i, j)) /\ IdAt(i, j)' = IdAt(i, j)
      BY <1>8, SameMatches
    <2>4. FoundMatches /\ MatchesPassed
      BY <1>8 DEF IFound
    <2>5. FoundMatches'
      BY <1>8, <2>2, <2>3, <2>4 DEF FoundMatches
    <2>6. MatchesPassed'
      BY <1>8, <2>2, <2>3, <2>4 DEF MatchesPassed
    <2> QED
      BY <1>8, <2>5, <2>6 DEF IFound
  <1>9. CASE NextScanner
    <2>1. ASSUME NEW i, NEW j, NEW x, At(scanners, i, j), x \in 0..WindowLen-1,
                 Passed(i, x + scanners[i].offset)'
          PROVE  Passed(i, x + scanners[i].offset)
      <3>1. scanners[i].offset \in Nat
        BY <2>1, PlacedRecipe, ScannerFields DEF ITypes
      <3>2. i = sc' => ~(x + scanners[i].offset < p')
        BY <1>9, <2>1, <3>1 DEF NextScanner
      <3> QED
        BY <1>9, <2>1, <3>2 DEF NextScanner, Passed
    <2> QED
      BY <1>8, <1>9, <2>1 DEF NextScanner
  <1>10. CASE ScannersEnd
    <2>1. \A i, h : Passed(i, h)' => Passed(i, h)
      BY <1>10 DEF ScannersEnd, Passed
    <2> QED
      BY <1>8, <1>10, <2>1 DEF ScannersEnd
  <1>11. CASE UNCHANGED vars
    <2>1. \A i, h : Passed(i, h)' => Passed(i, h)
      BY <1>11 DEF vars, Passed
    <2>2. CASE pc \in {"scanner", "search", "done"}
      BY <1>8, <1>11, <2>1, <2>2 DEF vars, IFound
    <2>3. CASE pc \notin {"scanner", "search", "done"}
      BY <1>11, <2>3 DEF vars, IFound
    <2> QED
      BY <2>2, <2>3
  <1> QED
    BY <1>1, <1>2, <1>4, <1>5, <1>6, <1>7, <1>9, <1>10, <1>11 DEF Next

LEMMA OperationHolds ==
    ASSUME NEW l, NEW x
    PROVE  OpMatches(OpOf(l), x) <=> LineHolds(l, x)
  <1>1. CASE l.op = "int32"
    <2> DEFINE M == [j \in 1..4 |-> Bits(HexBytes(l.words[2])[j])]
               V == [j \in 1..4 |-> Bits(HexBytes(l.words[1])[j]) \cap Bits(HexBytes(l.words[2])[j])]
    <2>1. \A j \in 1..4 : /\ M[j] = Bits(HexBytes(l.words[2])[j])
                          /\ V[j] = Bits(HexBytes(l.words[1])[j]) \cap Bits(HexBytes(l.words[2])[j])
      OBVIOUS
    <2>2. OpOf(l) = [func |-> "int32", offset |-> l.offset, mask |-> M, val |-> V]
      BY <1>1 DEF OpOf
    <2> HIDE DEF M, V
    <2>3. OpMatches(OpOf(l), x) <=> \A j \in 1..4 : Bits(win[x + l.offset + j]) \cap M[j] = V[j]
      BY <2>2 DEF OpMatches, op_int32
    <2> QED
      BY <1>1, <2>1, <2>3 DEF LineHolds
  <1>2. CASE l.op # "int32"
    BY <1>2 DEF OpOf, OpMatches, op_string, LineHolds
  <1> QED
    BY <1>1, <1>2

LEMMA OperationsHold ==
    ASSUME NEW recipe, NEW f, NEW lines, NEW x, OpsAre(recipe, f, lines)
    PROVE  AllOpsMatch(recipe, x) <=> \A i \in lines : LineHolds(Files[f].lines[i], x)
  BY OperationHolds DEF OpsAre, AllOpsMatch

LEMMA ScannerHolds ==
    ASSUME NEW s, NEW l, NEW x, LooksFor(s, l), l.op # "int32"
    PROVE  Candidate(s, x + s.offset) <=> LineHolds(l, x)
  BY DEF LooksFor, Candidate, LineHolds

\* A recipe of the list matches where its match lines hold.
LEMMA MatchIsHolds ==
    ASSUME ITypes, IMeaning, pc # "failed", NEW a \in 1..Len(args), NEW f, NEW i, NEW j,
           At(scanners, i, j), IdAt(i, j) = <<a, f>>, NEW x \in Nat
    PROVE  /\ RecipeMatches(i, j, x) <=> Holds(<<a, f>>, x)
           /\ scanners[i].offset = ScannedOffset(a, f)
  <1> DEFINE s == scanners[i]
             recipe == s.recipes[j]
             n == Len(Files[f].lines) + 1
             M == MatchLines(f)
             S == {k \in M : Files[f].lines[k].op # "int32"}
  <1>1. f \in DOMAIN Files /\ Means(s, recipe, a, f, n)
    <2>1. IdAt(i, j)[1] = a /\ IdAt(i, j)[2] = f
      OBVIOUS
    <2> QED
      BY <2>1 DEF IMeaning
  <1>2. Before(f, n) = M
    <2>1. DOMAIN Files[f].lines = 1..Len(Files[f].lines) /\ Len(Files[f].lines) \in Nat
      BY <1>1, FilesAssumption, LenProperties
    <2>2. \A k \in M : k < n
      BY <2>1 DEF MatchLines
    <2> QED
      BY <2>2 DEF Before
  <1>3. Strings(f, n) = S
    BY <1>2 DEF Strings
  <1>4. s \in ListedScanners /\ s.offset \in Nat
    BY PlacedRecipe, ScannerFields DEF ITypes
  <1>5. BlockFor(a) \in Nat \ {0} /\ filepos + x \in Nat
    BY BlockType, Arguments DEF ITypes
  <1>6. RecipeMatches(i, j, x) <=> Candidate(s, x + s.offset) /\ AllOpsMatch(recipe, x)
    BY DEF RecipeMatches
  <1>7. Holds(<<a, f>>, x) <=>
          /\ \A k \in M : LineHolds(Files[f].lines[k], x)
          /\ (filepos + x) % BlockFor(a) = 0
    BY DEF Holds
  <1> HIDE DEF s, recipe, n, M
  <1>8. CASE BlockFor(a) > 1
    <2>1. s.func = "block" /\ s.block = BlockFor(a) /\ OpsAre(recipe, f, M)
      BY <1>1, <1>2, <1>8 DEF Means
    <2>2. s.offset = 0 /\ x + s.offset = x
      BY <1>4, <2>1, ScannerFields DEF ListedScanners
    <2>3. Candidate(s, x + s.offset) <=> (filepos + x) % BlockFor(a) = 0
      BY <2>1, <2>2 DEF Candidate
    <2>4. AllOpsMatch(recipe, x) <=> \A k \in M : LineHolds(Files[f].lines[k], x)
      BY <2>1, OperationsHold
    <2>5. ScannedOffset(a, f) = 0
      BY <1>8 DEF ScannedOffset
    <2> QED
      BY <1>6, <1>7, <2>2, <2>3, <2>4, <2>5 DEF s
  <1>9. CASE ~(BlockFor(a) > 1)
    <2>1. s.func # "none"
      BY <1>4 DEF ListedScanners
    <2>2. PICK q \in S : /\ \A k \in S : q <= k
                         /\ LooksFor(s, Files[f].lines[q]) /\ OpsAre(recipe, f, M \ {q})
      BY <1>1, <1>2, <1>3, <1>9, <2>1 DEF Means
    <2>3. Candidate(s, x + s.offset) <=> LineHolds(Files[f].lines[q], x)
      BY <2>2, ScannerHolds
    <2>4. AllOpsMatch(recipe, x) <=> \A k \in M \ {q} : LineHolds(Files[f].lines[k], x)
      BY <2>2, OperationsHold
    <2>5. (filepos + x) % BlockFor(a) = 0
      <3>1. BlockFor(a) = 1
        BY <1>5, <1>9
      <3> QED
        BY <1>5, <3>1
    <2>6. s.offset = ScannedOffset(a, f)
      <3> DEFINE first == CHOOSE k \in S : \A m \in S : k <= m
      <3>1. first \in S /\ \A m \in S : first <= m
        BY <2>2
      <3>2. q \in Int /\ first \in Int
        <4>1. DOMAIN Files[f].lines = 1..Len(Files[f].lines)
          BY <1>1, FilesAssumption, LenProperties
        <4>2. \A k \in M : k \in Int
          BY <4>1 DEF MatchLines, M
        <4>3. q \in M /\ first \in M
          BY <2>2, <3>1
        <4> QED
          BY <4>2, <4>3
      <3>3. first = q
        <4>1. q <= first /\ first <= q
          BY <2>2, <3>1
        <4> HIDE DEF first
        <4> QED
          BY <3>2, <4>1
      <3>4. ScannedOffset(a, f) = Files[f].lines[first].offset
        BY <1>9 DEF ScannedOffset, M
      <3> QED
        BY <2>2, <3>3, <3>4 DEF LooksFor
    <2> QED
      BY <1>6, <1>7, <2>2, <2>3, <2>4, <2>5, <2>6 DEF s
  <1> QED
    BY <1>8, <1>9

\* A recipe is found exactly where all its match lines hold and its search reaches,
\* for any recipes and command lines and any window: sharing scanners, the search for
\* the rarest byte, a -b before some of the recipes only and the order of the lines
\* make no difference.  Meaning has to be right about the parameters, and the
\* newline that is cut off the last line of a file has to be there.
THEOREM Matches ==
    ASSUME StringsMean, MatchLinesEnd
    PROVE  Spec => []MatchesFound
  <1>1. Init => ITypes /\ IPlaced /\ IMeaning /\ IFound
    BY InitTypes, InitPlaced, InitMeaning, InitFound
  <1>2. ITypes /\ IPlaced /\ IMeaning /\ IFound /\ [Next]_vars => (ITypes /\ IPlaced /\ IMeaning /\ IFound)'
    BY TypesNext, PlacedNext, MeaningNext, FoundNext
  <1>3. ITypes /\ IPlaced /\ IMeaning /\ IFound => MatchesFound
    <2> SUFFICES ASSUME ITypes, IPlaced, IMeaning, IFound, pc = "done",
                        NEW a \in DOMAIN args, NEW f \in DOMAIN Files, NEW x \in 0..WindowLen-1
                 PROVE  IF ~Asked(<<a, f>>) THEN <<<<a, f>>, x>> \notin found
                        ELSE /\ <<<<a, f>>, x>> \in found => Holds(<<a, f>>, x)
                             /\ Holds(<<a, f>>, x) /\ x + ScannedOffset(a, f) < WindowLen
                                    => <<<<a, f>>, x>> \in found
      BY DEF MatchesFound
    <2>1. a \in 1..Len(args) /\ a \in 1..optind-1 /\ args[a].files \in Seq(STRING) /\ x \in Nat
      BY Arguments, WindowsAssumption DEF ITypes, IPlaced, OptionRecords
    <2>2. DOMAIN args[a].files = 1..Len(args[a].files)
      BY <2>1, LenProperties
    <2>3. ASSUME <<<<a, f>>, x>> \in found PROVE Asked(<<a, f>>) /\ Holds(<<a, f>>, x)
      <3>1. PICK i, j : \E y \in 0..WindowLen-1 :
                At(scanners, i, j) /\ <<<<a, f>>, x>> = <<IdAt(i, j), y>> /\ RecipeMatches(i, j, y)
        BY <2>3 DEF IFound, FoundMatches
      <3>2. At(scanners, i, j) /\ IdAt(i, j) = <<a, f>> /\ RecipeMatches(i, j, x)
        BY <3>1
      <3>3. PICK b, k : Parsed(b, k) /\ IdAt(i, j) = Id(b, k)
        BY <3>2 DEF IPlaced, OnlyPlaced
      <3>4. b = a /\ args[a].files[k] = f /\ args[a].opt = "r" /\ k \in DOMAIN args[a].files
        BY <2>2, <3>2, <3>3 DEF Id, Parsed
      <3>5. Asked(<<a, f>>)
        BY <3>4 DEF Asked
      <3> QED
        BY <2>1, <3>2, <3>5, MatchIsHolds
    <2>4. ASSUME Asked(<<a, f>>), Holds(<<a, f>>, x), x + ScannedOffset(a, f) < WindowLen
          PROVE  <<<<a, f>>, x>> \in found
      <3>1. PICK k \in DOMAIN args[a].files : args[a].files[k] = f /\ args[a].opt = "r"
        BY <2>4 DEF Asked
      <3>2. Parsed(a, k)
        BY <2>1, <2>2, <3>1 DEF Parsed
      <3>3. PICK i, j : At(scanners, i, j) /\ IdAt(i, j) = Id(a, k)
        BY <3>2 DEF IPlaced, AllPlaced
      <3>4. IdAt(i, j) = <<a, f>>
        BY <3>1, <3>3 DEF Id
      <3>5. RecipeMatches(i, j, x) /\ scanners[i].offset = ScannedOffset(a, f)
        BY <2>1, <2>4, <3>3, <3>4, MatchIsHolds
      <3>6. Passed(i, x + scanners[i].offset)
        <4>1. i \in 1..Len(scanners) /\ Len(scanners) \in Nat /\ sc \in Nat /\ sc > Len(scanners)
          BY <3>3, LenProperties DEF At, ITypes, IFound
        <4> QED
          BY <4>1 DEF Passed
      <3> QED
        BY <2>4, <3>3, <3>4, <3>5, <3>6 DEF IFound, MatchesPassed
    <2> QED
      BY <2>3, <2>4
  <1> QED
    BY <1>1, <1>2, <1>3, PTL DEF Spec

=============================================================================
