------------------------- MODULE TracerouteStreamProofs -------------------------
(***************************************************************************)
(* Proofs about TracerouteStream and the operators it reads traceroute      *)
(* with.  What is sent a hop at a time is compared with what is read of all *)
(* the lines: with a line more, Groups is longer by a hop, or its last hop  *)
(* is longer by the line's items (GroupsOpen, GroupsContinue).  Collected   *)
(* then says that what was read is what was sent and the hop being          *)
(* collected, and Printed that each line may come where it does, without    *)
(* which a line flushed too early would be dropped.                         *)
(*                                                                         *)
(* The mark needs a second invariant, MInv: as long as nothing ends         *)
(* traceroute, the target is among the hops just when it is among the lines *)
(* (Heard), and a hop that is sent is marked by what is shown of it         *)
(* (Marked), which masking does not change (MaskKeeps).                     *)
(***************************************************************************)
EXTENDS TracerouteStream, SequenceTheorems, FiniteSetTheorems, WellFoundedInduction, TLAPS

LEMMA Smallest ==
    ASSUME NEW T \in SUBSET Nat, T # {} PROVE \E x \in T : \A y \in T : x <= y
<1> DEFINE R == OpToRel(<, Nat)
<1>1. IsWellFoundedOn(R, Nat)
  BY NatLessThanWellFounded
<1> HIDE DEF R
<1>2. PICK x \in T : \A y \in T : ~(<<y, x>> \in R)
  BY <1>1, WFMin
<1>3. \A y \in T : ~(y < x)
  BY <1>2 DEF R, OpToRel
<1> QED
  BY <1>2, <1>3

\* A set of positions, and those of them that do not exceed i.
Positions(S) == S \in SUBSET Nat /\ IsFiniteSet(S) /\ \E n \in Nat : \A i \in S : 1 <= i /\ i <= n
Below(S, i) == {j \in S : j <= i}

LEMMA InInterval ==
    ASSUME NEW n \in Nat, NEW S, S \subseteq 1..n
    PROVE  Positions(S)
<1> DEFINE I == 1..n
<1>1. IsFiniteSet(I)
  BY FS_Interval
<1>2. S \subseteq I /\ S \in SUBSET Nat /\ \A i \in S : 1 <= i /\ i <= n
  OBVIOUS
<1> HIDE DEF I
<1>3. IsFiniteSet(S)
  BY <1>1, <1>2, FS_Subset
<1> QED
  BY <1>2, <1>3 DEF Positions

LEMMA PositionsOnly == ASSUME NEW S, Positions(S), NEW i \in S PROVE i \in Nat /\ i >= 1
BY DEF Positions

LEMMA BelowIn == ASSUME NEW S, NEW i PROVE Below(S, i) \in SUBSET S
BY DEF Below

LEMMA BelowFinite == ASSUME NEW S, Positions(S), NEW i PROVE IsFiniteSet(Below(S, i))
BY BelowIn, FS_Subset DEF Positions

LEMMA CountInNat == ASSUME NEW S, Positions(S) PROVE Cardinality(S) \in Nat
BY FS_CardinalityType DEF Positions

LEMMA BelowCount ==
    ASSUME NEW S, Positions(S), NEW i
    PROVE  Cardinality(Below(S, i)) \in Nat /\ Cardinality(Below(S, i)) <= Cardinality(S)
<1>1. Cardinality(Below(S, i)) <= Cardinality(S)
  BY BelowIn, FS_Subset DEF Positions
<1> QED
  BY <1>1, BelowFinite, FS_CardinalityType

LEMMA BelowGrows ==
    ASSUME NEW S, Positions(S), NEW i \in S
    PROVE  Cardinality(Below(S, i)) = Cardinality(Below(S, i - 1)) + 1
<1> DEFINE B == Below(S, i - 1)
<1>1. Below(S, i) = B \cup {i} /\ i \notin B
  <2>1. \A j \in S : j \in Int
    BY PositionsOnly
  <2> QED
    BY <2>1 DEF Below
<1>2. IsFiniteSet(B)
  BY BelowFinite
<1> HIDE DEF B
<1>3. Cardinality(Below(S, i)) = Cardinality(B) + 1
  BY <1>1, <1>2, FS_AddElement
<1> QED
  BY <1>3 DEF B

LEMMA BelowMonotone ==
    ASSUME NEW S, Positions(S), NEW i \in Int, NEW j \in Int, i <= j
    PROVE  Cardinality(Below(S, i)) <= Cardinality(Below(S, j))
<1>1. Below(S, i) \in SUBSET Below(S, j)
  <2>1. \A k \in S : k \in Int
    BY PositionsOnly
  <2> QED
    BY <2>1 DEF Below
<1>2. IsFiniteSet(Below(S, j))
  BY BelowFinite
<1> QED
  BY <1>1, <1>2, FS_Subset

\* Two members of a set have different ranks.
LEMMA RankOfOne ==
    ASSUME NEW S, Positions(S), NEW i \in S, NEW j \in S, i < j
    PROVE  Cardinality(Below(S, i)) < Cardinality(Below(S, j))
<1>1. j - 1 \in Int /\ i \in Int /\ i <= j - 1
  BY DEF Positions
<1>2. Cardinality(Below(S, i)) <= Cardinality(Below(S, j - 1))
  BY <1>1, BelowMonotone
<1>3. Cardinality(Below(S, j)) = Cardinality(Below(S, j - 1)) + 1
  BY BelowGrows
<1>4. Cardinality(Below(S, i)) \in Nat /\ Cardinality(Below(S, j - 1)) \in Nat
  BY BelowCount
<1> QED
  BY <1>2, <1>3, <1>4

\* Every rank is somebody's.
LEMMA RankTaken ==
    ASSUME NEW S, Positions(S), NEW k \in 1..Cardinality(S)
    PROVE  \E i \in S : Cardinality(Below(S, i)) = k
<1> DEFINE T == {i \in Nat : Cardinality(Below(S, i)) >= k}
<1>1. PICK n \in Nat : \A i \in S : 1 <= i /\ i <= n
  BY DEF Positions
<1>2. n \in T
  <2>1. Below(S, n) = S
    BY <1>1 DEF Below
  <2> QED
    BY <2>1, CountInNat
<1>3. PICK i \in T : \A y \in T : i <= y
  BY <1>2, Smallest
<1>4. i \in Nat /\ Cardinality(Below(S, i)) >= k
  BY <1>3
<1>5. i # 0
  <2>1. Below(S, 0) = {}
    BY PositionsOnly DEF Below
  <2>2. Cardinality(Below(S, 0)) = 0
    BY <2>1, FS_EmptySet
  <2> QED
    BY <2>2, <1>4
<1>6. i - 1 \in Nat
  BY <1>4, <1>5
<1>7. ~(Cardinality(Below(S, i - 1)) >= k)
  BY <1>3, <1>6
<1> HIDE DEF T
<1>8. i \in S
  <2> SUFFICES ASSUME i \notin S PROVE FALSE
    OBVIOUS
  <2>1. Below(S, i) = Below(S, i - 1)
    <3>1. \A j \in S : j \in Int
      BY PositionsOnly
    <3> QED
      BY <3>1, <1>4 DEF Below
  <2> QED
    BY <2>1, <1>4, <1>7
<1>9. Cardinality(Below(S, i)) = Cardinality(Below(S, i - 1)) + 1
  BY <1>8, BelowGrows
<1>10. Cardinality(Below(S, i - 1)) \in Nat /\ Cardinality(Below(S, i)) \in Nat /\ k \in Nat
  <2>1. k \in Nat
    BY CountInNat
  <2> QED
    BY <2>1, BelowCount
<1>11. Cardinality(Below(S, i)) = k
  BY <1>4, <1>7, <1>9, <1>10
<1> QED
  BY <1>8, <1>11

\* InOrder lists the numbers of a set.
LEMMA InOrderMembers ==
    ASSUME NEW S, Positions(S)
    PROVE  /\ InOrder[S] \in [1..Cardinality(S) -> S]
           /\ \A k \in 1..Cardinality(S) : Cardinality(Below(S, InOrder[S][k])) = k
<1> DEFINE Nth(k) == CHOOSE i \in S : Cardinality(Below(S, i)) = k
<1>1. InOrder[S] = [k \in 1..Cardinality(S) |-> Nth(k)]
  <2>1. S \in SUBSET Nat
    BY DEF Positions
  <2> QED
    BY <2>1 DEF InOrder, Below
<1>2. \A k \in 1..Cardinality(S) : Nth(k) \in S /\ Cardinality(Below(S, Nth(k))) = k
  BY RankTaken
<1> HIDE DEF Nth
<1>3. InOrder[S] \in [1..Cardinality(S) -> S]
  BY <1>1, <1>2
<1> QED
  BY <1>1, <1>2, <1>3

LEMMA InOrderSeq ==
    ASSUME NEW S, Positions(S)
    PROVE  InOrder[S] \in Seq(S) /\ Len(InOrder[S]) = Cardinality(S) /\ Cardinality(S) \in Nat
           /\ DOMAIN InOrder[S] = 1..Cardinality(S)
<1>1. Cardinality(S) \in Nat
  BY CountInNat
<1> DEFINE c == Cardinality(S)
           f == InOrder[S]
<1>2. c \in Nat /\ f \in [1..c -> S]
  BY <1>1, InOrderMembers
<1> HIDE DEF c, f
<1>3. f \in Seq(S)
  BY <1>2, SeqDef
<1>4. Len(f) = c /\ DOMAIN f = 1..c
  BY <1>2, <1>3, LenProperties
<1> QED
  BY <1>2, <1>3, <1>4 DEF c, f

\* It lists every one.
LEMMA InOrderOnto ==
    ASSUME NEW S, Positions(S), NEW i \in S
    PROVE  Cardinality(Below(S, i)) \in 1..Cardinality(S) /\ InOrder[S][Cardinality(Below(S, i))] = i
<1> DEFINE k == Cardinality(Below(S, i))
<1>1. Cardinality(Below(S, i - 1)) \in Nat /\ k = Cardinality(Below(S, i - 1)) + 1
  BY BelowGrows, BelowCount
<1>2. k \in Nat /\ k <= Cardinality(S) /\ Cardinality(S) \in Nat
  BY BelowCount, CountInNat
<1>3. k \in 1..Cardinality(S)
  BY <1>1, <1>2
<1> HIDE DEF k
<1> DEFINE j == InOrder[S][k]
<1>4. j \in S /\ Cardinality(Below(S, j)) = k
  BY <1>3, InOrderMembers
<1> HIDE DEF j
<1>5. ~(i < j) /\ ~(j < i)
  <2>1. Cardinality(Below(S, i)) = k
    BY DEF k
  <2> QED
    BY <2>1, <1>2, <1>4, RankOfOne
<1>6. j = i
  BY <1>4, <1>5 DEF Positions
<1> QED
  BY <1>3, <1>6 DEF j, k

LEMMA InOrderNone == InOrder[{}] = <<>>
<1>1. Positions({})
  BY FS_EmptySet DEF Positions
<1>2. InOrder[{}] \in Seq({}) /\ Len(InOrder[{}]) = 0
  BY <1>1, InOrderSeq, FS_EmptySet
<1> QED
  BY <1>2, EmptySeq

\* One number more, greater than all.
LEMMA InOrderAppend ==
    ASSUME NEW S, Positions(S), NEW m \in Nat, m > 0, \A i \in S : i < m
    PROVE  InOrder[S \cup {m}] = Append(InOrder[S], m) /\ Positions(S \cup {m})
<1> DEFINE U == S \cup {m}
           a == InOrder[S]
           b == InOrder[U]
           c == Cardinality(S)
<1>1. c \in Nat /\ IsFiniteSet(S) /\ m \notin S
  <2>1. m \notin S
    OBVIOUS
  <2>2. IsFiniteSet(S)
    BY DEF Positions
  <2> QED
    BY <2>1, <2>2, CountInNat
<1>2. IsFiniteSet(U) /\ Cardinality(U) = c + 1
  BY <1>1, FS_AddElement
<1>3. Positions(U)
  <2>1. U \in SUBSET Nat /\ \A i \in U : 1 <= i /\ i <= m
    BY DEF Positions
  <2> QED
    BY <2>1, <1>2 DEF Positions
<1>4. a \in Seq(S) /\ Len(a) = c
  BY InOrderSeq
<1>5. a \in Seq(U)
  BY <1>4, SeqMonotonic
<1>6. b \in Seq(U) /\ Len(b) = c + 1
  BY <1>2, <1>3, InOrderSeq
<1>7. ASSUME NEW k \in 1..c PROVE b[k] = a[k]
  <2>1. a[k] \in S /\ Cardinality(Below(S, a[k])) = k
    BY InOrderMembers
  <2>2. Below(U, a[k]) = Below(S, a[k])
    BY <2>1, PositionsOnly DEF Below
  <2>3. a[k] \in U
    BY <2>1
  <2> HIDE DEF a, U, c
  <2>4. b[Cardinality(Below(U, a[k]))] = a[k]
    BY <1>3, <2>3, InOrderOnto
  <2> QED
    BY <2>1, <2>2, <2>4
<1>8. b[c + 1] = m
  <2>1. Below(U, m) = U
    BY PositionsOnly DEF Below
  <2>2. m \in U
    OBVIOUS
  <2> HIDE DEF U
  <2>3. b[Cardinality(Below(U, m))] = m
    BY <1>3, <2>2, InOrderOnto
  <2> QED
    BY <1>2, <2>1, <2>3
<1> DEFINE d == Append(a, m)
<1> HIDE DEF a, b, c
<1>9. m \in U
  OBVIOUS
<1> HIDE DEF U
<1>10. d \in Seq(U) /\ Len(d) = c + 1 /\ d[c + 1] = m /\ \A k \in 1..c : d[k] = a[k]
  BY <1>4, <1>5, <1>9, AppendProperties
<1> HIDE DEF d
<1>11. \A k \in 1..(c + 1) : b[k] = d[k]
  BY <1>1, <1>7, <1>8, <1>10
<1>12. b = d
  BY <1>6, <1>10, <1>11, SeqEqual
<1> QED
  BY <1>3, <1>12 DEF b, d, a, U

-----------------------------------------------------------------------------
(* FlattenSeq, one sequence more *)

\* f is what FlattenSeq builds of the first n sequences.
Flattens(f, seqs, n) == f = [i \in 1..n |-> IF i = 1 THEN seqs[i] ELSE f[i - 1] \o seqs[i]]

LEMMA FlattensAt ==
    ASSUME NEW seqs, NEW n \in Nat, NEW f, Flattens(f, seqs, n), NEW i \in 1..n
    PROVE  f[i] = IF i = 1 THEN seqs[i] ELSE f[i - 1] \o seqs[i]
<1> DEFINE g == [k \in 1..n |-> IF k = 1 THEN seqs[k] ELSE f[k - 1] \o seqs[k]]
<1>1. g[i] = IF i = 1 THEN seqs[i] ELSE f[i - 1] \o seqs[i]
  OBVIOUS
<1>2. f = g
  BY DEF Flattens
<1> HIDE DEF g
<1> QED
  BY <1>1, <1>2

LEMMA FlattensExists == ASSUME NEW seqs, NEW n \in Nat PROVE \E f : Flattens(f, seqs, n)
<1> DEFINE T == {m \in Nat : ~\E f : Flattens(f, seqs, m)}
<1> SUFFICES ASSUME T # {} PROVE FALSE
  OBVIOUS
<1>1. PICK m \in T : \A y \in T : m <= y
  BY Smallest
<1>2. m \in Nat /\ ~\E f : Flattens(f, seqs, m)
  OBVIOUS
<1>3. m # 0
  <2> DEFINE e == [i \in 1..0 |-> seqs[i]]
  <2>1. Flattens(e, seqs, 0)
    BY DEF Flattens
  <2> QED
    BY <2>1, <1>2
<1>4. m - 1 \in Nat
  BY <1>2, <1>3
<1>5. PICK f : Flattens(f, seqs, m - 1)
  BY <1>1, <1>4
<1> DEFINE g == [i \in 1..m |-> IF i < m THEN f[i] ELSE IF i = 1 THEN seqs[i] ELSE f[i - 1] \o seqs[i]]
<1>6. ASSUME NEW i \in 1..m PROVE g[i] = IF i = 1 THEN seqs[i] ELSE g[i - 1] \o seqs[i]
  <2>1. CASE i < m
    <3>1. i \in 1..(m - 1)
      BY <2>1, <1>2
    <3>2. f[i] = IF i = 1 THEN seqs[i] ELSE f[i - 1] \o seqs[i]
      BY <3>1, <1>4, <1>5, FlattensAt
    <3>3. i # 1 => g[i - 1] = f[i - 1]
      BY <2>1, <1>2
    <3> QED
      BY <2>1, <3>2, <3>3
  <2>2. CASE ~(i < m)
    <3>1. i # 1 => g[i - 1] = f[i - 1]
      BY <2>2, <1>2
    <3> QED
      BY <2>2, <3>1
  <2> QED
    BY <2>1, <2>2
<1>7. g = [i \in 1..m |-> g[i]]
  OBVIOUS
<1> HIDE DEF g
<1>8. Flattens(g, seqs, m)
  BY <1>6, <1>7 DEF Flattens
<1> QED
  BY <1>2, <1>8

LEMMA FlattensAgree ==
    ASSUME NEW s, NEW t, NEW n \in Nat, NEW m \in Nat, n <= m, NEW f, NEW g,
           Flattens(f, s, n), Flattens(g, t, m), \A i \in 1..n : s[i] = t[i]
    PROVE  \A i \in 1..n : f[i] = g[i]
<1> DEFINE T == {i \in 1..n : f[i] # g[i]}
<1> SUFFICES ASSUME T # {} PROVE FALSE
  OBVIOUS
<1>1. T \in SUBSET Nat
  OBVIOUS
<1>2. PICK i \in T : \A y \in T : i <= y
  BY <1>1, Smallest
<1>3. i \in 1..n /\ i \in 1..m /\ f[i] # g[i]
  OBVIOUS
<1>4. f[i] = IF i = 1 THEN s[i] ELSE f[i - 1] \o s[i]
  BY <1>3, FlattensAt
<1>5. g[i] = IF i = 1 THEN t[i] ELSE g[i - 1] \o t[i]
  BY <1>3, FlattensAt
<1>6. i # 1
  BY <1>3, <1>4, <1>5
<1>7. i - 1 \in 1..n
  BY <1>3, <1>6
<1>8. f[i - 1] = g[i - 1]
  <2>1. i - 1 \notin T
    BY <1>2, <1>3
  <2> QED
    BY <2>1, <1>7
<1> QED
  BY <1>3, <1>4, <1>5, <1>8

LEMMA FlattenIs ==
    ASSUME NEW seqs, NEW n \in Nat \ {0}, Len(seqs) = n
    PROVE  \E f : Flattens(f, seqs, n) /\ FlattenSeq(seqs) = f[n]
<1> DEFINE F == CHOOSE f : Flattens(f, seqs, n)
<1>1. Flattens(F, seqs, n)
  BY FlattensExists
<1>2. FlattenSeq(seqs) = F[n]
  BY DEF FlattenSeq, Flattens
<1> QED
  BY <1>1, <1>2

LEMMA FlattenOne == ASSUME NEW s PROVE FlattenSeq(<< s >>) = s
<1>1. Len(<< s >>) = 1 /\ << s >>[1] = s
  OBVIOUS
<1>2. PICK f : Flattens(f, << s >>, 1) /\ FlattenSeq(<< s >>) = f[1]
  <2> DEFINE t == << s >>
  <2>1. Len(t) = 1 /\ 1 \in Nat \ {0}
    BY <1>1
  <2> HIDE DEF t
  <2>2. \E f : Flattens(f, t, 1) /\ FlattenSeq(t) = f[1]
    BY <2>1, FlattenIs
  <2> QED
    BY <2>2 DEF t
<1>3. f[1] = << s >>[1]
  BY <1>2, FlattensAt
<1> QED
  BY <1>1, <1>2, <1>3

LEMMA FlattenAppend ==
    ASSUME NEW X, NEW seqs \in Seq(X), seqs # <<>>, NEW s \in X
    PROVE  FlattenSeq(Append(seqs, s)) = FlattenSeq(seqs) \o s
<1> DEFINE n == Len(seqs)
           more == Append(seqs, s)
<1>1. n \in Nat \ {0}
  BY EmptySeq
<1>2. Len(more) = n + 1 /\ more[n + 1] = s /\ \A i \in 1..n : more[i] = seqs[i]
  BY AppendProperties
<1> HIDE DEF n, more
<1>3. n + 1 \in Nat \ {0} /\ n + 1 # 1 /\ n <= n + 1 /\ n \in 1..n /\ n + 1 \in 1..(n + 1) /\ (n + 1) - 1 = n
  BY <1>1
<1>4. PICK f : Flattens(f, seqs, n) /\ FlattenSeq(seqs) = f[n]
  BY <1>1, FlattenIs DEF n
<1>5. PICK g : Flattens(g, more, n + 1) /\ FlattenSeq(more) = g[n + 1]
  BY <1>2, <1>3, FlattenIs
<1>6. g[n + 1] = g[n] \o more[n + 1]
  <2> DEFINE k == n + 1
  <2>1. k \in Nat /\ k > 0 /\ Flattens(g, more, k)
    BY <1>1, <1>5
  <2>4. k # 1 /\ k - 1 = n
    BY <1>1
  <2> HIDE DEF k
  <2>2. g[k] = IF k = 1 THEN more[k] ELSE g[k - 1] \o more[k]
    BY <2>1, FlattensAt
  <2>3. g[k] = g[n] \o more[k]
    BY <2>2, <2>4
  <2> QED
    BY <2>3 DEF k
<1>7. f[n] = g[n]
  <2>1. \A i \in 1..n : seqs[i] = more[i]
    BY <1>2
  <2> DEFINE k == n + 1
  <2>2. k \in Nat /\ n \in Nat /\ n <= k /\ Flattens(g, more, k) /\ Flattens(f, seqs, n)
    BY <1>1, <1>4, <1>5
  <2> HIDE DEF k
  <2>3. \A i \in 1..n : f[i] = g[i]
    BY <2>1, <2>2, FlattensAgree
  <2> QED
    BY <2>3, <1>3
<1> QED
  BY <1>2, <1>4, <1>5, <1>6, <1>7 DEF more

-----------------------------------------------------------------------------
(* Groups, one line more *)

OpenAt(lines) == {i \in DOMAIN lines : lines[i].hop > 0}
Opens(lines) == InOrder[OpenAt(lines)]
Ends(lines, k) == IF k = Len(Opens(lines)) THEN Len(lines) ELSE Opens(lines)[k + 1] - 1
Pieces(lines, k) ==
    [i \in 1..(Ends(lines, k) - Opens(lines)[k] + 1) |-> lines[Opens(lines)[k] + i - 1].items]

LEMMA GroupsAre ==
    ASSUME NEW lines
    PROVE  Groups(lines) = [k \in DOMAIN Opens(lines) |->
               [hop |-> lines[Opens(lines)[k]].hop, items |-> FlattenSeq(Pieces(lines, k))]]
BY DEF Groups, Opens, OpenAt, Ends, Pieces

\* A function on the first n numbers.
Listing(f, n) == f = [i \in 1..n |-> f[i]]

LEMMA AnySeq ==
    ASSUME NEW n \in Nat, NEW f, Listing(f, n)
    PROVE  /\ f \in Seq({f[i] : i \in 1..n}) /\ Len(f) = n /\ DOMAIN f = 1..n
<1>1. f \in [1..n -> {f[i] : i \in 1..n}]
  BY DEF Listing
<1>2. f \in Seq({f[i] : i \in 1..n})
  BY <1>1, SeqDef
<1>3. DOMAIN f = 1..n
  BY DEF Listing
<1> QED
  BY <1>2, <1>3, LenProperties

\* A sequence is what it is longer by.
LEMMA IsAppend ==
    ASSUME NEW n \in Nat, NEW m, m = n + 1, NEW f, NEW g, NEW e, Listing(f, n), Listing(g, m),
           \A i \in 1..n : g[i] = f[i], g[m] = e
    PROVE  g = Append(f, e)
<1> DEFINE X == {f[i] : i \in 1..n} \cup {e}
           h == Append(f, e)
<1>1. f \in Seq(X) /\ Len(f) = n
  <2> DEFINE Y == {f[i] : i \in 1..n}
  <2>1. f \in Seq(Y) /\ Len(f) = n
    BY AnySeq
  <2>2. Y \subseteq X
    OBVIOUS
  <2> HIDE DEF X, Y
  <2> QED
    BY <2>1, <2>2, SeqMonotonic
<1>2. h \in Seq(X) /\ Len(h) = m /\ h[m] = e /\ \A i \in 1..n : h[i] = f[i]
  BY <1>1, AppendProperties
<1>3. m \in Nat
  OBVIOUS
<1>4. \A i \in 1..m : g[i] \in X /\ g[i] = h[i]
  BY <1>2
<1>5. g = [i \in 1..m |-> g[i]]
  BY DEF Listing
<1> HIDE DEF X, h
<1>6. g \in [1..m -> X]
  BY <1>4, <1>5
<1>7. g \in Seq(X)
  BY <1>3, <1>6, SeqDef
<1>8. Len(g) = m
  BY <1>3, <1>6, <1>7, LenProperties
<1>9. g = h
  BY <1>2, <1>4, <1>7, <1>8, SeqEqual
<1> QED
  BY <1>9 DEF h

Lined(lines) == lines \in Seq([hop : Nat, items : Seq(Items)])

LEMMA OpensAre ==
    ASSUME NEW L, Lined(L)
    PROVE  /\ Positions(OpenAt(L)) /\ Len(L) \in Nat /\ DOMAIN L = 1..Len(L)
           /\ Len(Opens(L)) \in Nat /\ DOMAIN Opens(L) = 1..Len(Opens(L))
           /\ \A k \in 1..Len(Opens(L)) : Opens(L)[k] \in 1..Len(L) /\ L[Opens(L)[k]].hop > 0
           /\ Listing(Groups(L), Len(Opens(L)))
           /\ Len(Groups(L)) = Len(Opens(L))
<1>1. Len(L) \in Nat /\ DOMAIN L = 1..Len(L)
  BY LenProperties DEF Lined
<1>2. OpenAt(L) \subseteq 1..Len(L)
  BY <1>1 DEF OpenAt
<1>3. Positions(OpenAt(L))
  BY <1>1, <1>2, InInterval
<1>4. /\ Len(Opens(L)) \in Nat /\ DOMAIN Opens(L) = 1..Len(Opens(L)) /\ Opens(L) \in Seq(OpenAt(L))
  BY <1>3, InOrderSeq DEF Opens
<1>5. \A k \in 1..Len(Opens(L)) : Opens(L)[k] \in OpenAt(L)
  BY <1>4, ElementOfSeq
<1>6. \A k \in 1..Len(Opens(L)) : Opens(L)[k] \in 1..Len(L) /\ L[Opens(L)[k]].hop > 0
  BY <1>5, <1>2 DEF OpenAt
<1> DEFINE n == Len(Opens(L))
           g == Groups(L)
<1>7. Listing(g, n)
  BY <1>4, GroupsAre DEF Listing
<1>8. n \in Nat
  BY <1>4
<1> HIDE DEF n, g
<1>9. Len(g) = n
  BY <1>7, <1>8, AnySeq
<1> QED
  BY <1>1, <1>3, <1>4, <1>6, <1>7, <1>9 DEF n, g

\* A line that opens a hop.
LEMMA GroupsOpen ==
    ASSUME NEW L, Lined(L), NEW line \in [hop : Nat, items : Seq(Items)], line.hop > 0
    PROVE  Groups(Append(L, line)) = Append(Groups(L), [hop |-> line.hop, items |-> line.items])
<1> DEFINE M == Append(L, line)
           n == Len(L)
           c == Len(Opens(L))
           m == n + 1
           d == c + 1
<1>1. /\ Lined(M) /\ Len(M) = m /\ M[m] = line /\ \A i \in 1..n : M[i] = L[i]
  BY AppendProperties DEF Lined
<1>2. /\ Positions(OpenAt(L)) /\ n \in Nat /\ DOMAIN L = 1..n /\ c \in Nat /\ DOMAIN Opens(L) = 1..c
      /\ \A k \in 1..c : Opens(L)[k] \in 1..n
  BY OpensAre
<1>3. DOMAIN M = 1..m /\ m \in Nat /\ d \in Nat /\ m > 0
  BY <1>1, <1>2, OpensAre
<1>4. OpenAt(M) = OpenAt(L) \cup {m}
  BY <1>1, <1>2, <1>3 DEF OpenAt
<1>5. \A i \in OpenAt(L) : i < m
  BY <1>2 DEF OpenAt
<1>6. Opens(M) = Append(Opens(L), m)
  BY <1>2, <1>3, <1>4, <1>5, InOrderAppend DEF Opens
<1>7. /\ Len(Opens(M)) = d /\ Opens(M)[d] = m
      /\ \A k \in 1..c : Opens(M)[k] = Opens(L)[k]
  <2>1. Opens(L) \in Seq(Nat)
    BY <1>2, InOrderSeq, SeqMonotonic, PositionsOnly DEF Opens
  <2> QED
    BY <2>1, <1>3, <1>6, AppendProperties
<1>8. ASSUME NEW k \in 1..c PROVE Pieces(M, k) = Pieces(L, k)
  <2>1. Ends(M, k) = Ends(L, k) /\ Ends(L, k) \in 0..n
    <3>1. Ends(M, k) = IF k = d THEN m ELSE Opens(M)[k + 1] - 1
      BY <1>1, <1>7 DEF Ends
    <3>2. Ends(L, k) = IF k = c THEN n ELSE Opens(L)[k + 1] - 1
      BY DEF Ends
    <3>3. c \in Nat /\ k \in 1..c
      BY <1>2
    <3>4. m = n + 1 /\ n \in Nat
      BY <1>2
    <3> HIDE DEF M, n, m, c
    <3>5. k # c => k + 1 \in 1..c
      BY <3>3
    <3>6. k # d /\ (k = c => k + 1 = d)
      BY <3>3
    <3> HIDE DEF d
    <3>7. CASE k = c
      BY <3>1, <3>2, <3>4, <3>6, <3>7, <1>7
    <3>8. CASE k # c
      <4>1. Opens(M)[k + 1] = Opens(L)[k + 1] /\ Opens(L)[k + 1] \in 1..n
        BY <3>5, <3>8, <1>2, <1>7
      <4> QED
        BY <3>1, <3>2, <3>6, <3>8, <3>4, <4>1
    <3> QED
      BY <3>7, <3>8
  <2>2. Opens(M)[k] = Opens(L)[k] /\ Opens(L)[k] \in 1..n
    BY <1>2, <1>7
  <2>3. \A i \in 1..(Ends(L, k) - Opens(L)[k] + 1) : Opens(L)[k] + i - 1 \in 1..n
    BY <2>1, <2>2, <1>2
  <2> HIDE DEF M, n
  <2>4. \A i \in 1..(Ends(L, k) - Opens(L)[k] + 1) :
           M[Opens(L)[k] + i - 1].items = L[Opens(L)[k] + i - 1].items
    BY <2>3, <1>1
  <2> QED
    BY <2>1, <2>2, <2>4 DEF Pieces
<1>9. Pieces(M, d) = << line.items >>
  <2>1. Ends(M, d) = m
    BY <1>1, <1>7 DEF Ends
  <2>2. Pieces(M, d) = [i \in 1..1 |-> M[m + i - 1].items]
    BY <2>1, <1>3, <1>7 DEF Pieces
  <2>3. \A i \in 1..1 : m + i - 1 = m
    BY <1>3
  <2> QED
    BY <2>2, <2>3, <1>1
<1>10. /\ Listing(Groups(L), c) /\ Listing(Groups(M), d)
       /\ DOMAIN Opens(M) = 1..d
  BY <1>1, <1>7, OpensAre
<1> HIDE DEF M, n, c, m
<1>11. ASSUME NEW k \in 1..c PROVE Groups(M)[k] = Groups(L)[k]
  <2>1. k \in 1..d
    BY <1>2
  <2>2. Groups(M)[k] = [hop |-> M[Opens(M)[k]].hop, items |-> FlattenSeq(Pieces(M, k))]
    BY <2>1, <1>10, GroupsAre
  <2>3. Groups(L)[k] = [hop |-> L[Opens(L)[k]].hop, items |-> FlattenSeq(Pieces(L, k))]
    BY <1>2, GroupsAre
  <2>4. M[Opens(M)[k]] = L[Opens(L)[k]]
    BY <1>1, <1>2, <1>7
  <2> QED
    BY <2>2, <2>3, <2>4, <1>8
<1>12. Groups(M)[d] = [hop |-> line.hop, items |-> line.items]
  <2>1. d \in 1..d
    BY <1>2
  <2>2. Groups(M)[d] = [hop |-> M[Opens(M)[d]].hop, items |-> FlattenSeq(Pieces(M, d))]
    BY <2>1, <1>10, GroupsAre
  <2> QED
    BY <2>2, <1>1, <1>7, <1>9, FlattenOne
<1>13. Groups(M) = Append(Groups(L), [hop |-> line.hop, items |-> line.items])
  <2> DEFINE e == [hop |-> line.hop, items |-> line.items]
             f == Groups(L)
             g == Groups(M)
  <2>1. c \in Nat /\ d = c + 1 /\ Listing(f, c) /\ Listing(g, d)
    BY <1>2, <1>10
  <2>2. \A i \in 1..c : g[i] = f[i]
    BY <1>11
  <2>3. g[d] = e
    BY <1>12
  <2> HIDE DEF e, f, g, d
  <2>4. g = Append(f, e)
    BY <2>1, <2>2, <2>3, IsAppend
  <2> QED
    BY <2>4 DEF e, f, g
<1> QED
  BY <1>13 DEF M

LEMMA HopOf == ASSUME NEW e, NEW n, NEW s, e = [hop |-> n, items |-> s] PROVE e.hop = n /\ e.items = s
OBVIOUS

\* The hop that is open, and what a line adds to it.
Longer(e, line) == [hop |-> e.hop, items |-> e.items \o line.items]

\* A line that continues the hop that is open.
LEMMA GroupsContinue ==
    ASSUME NEW L, Lined(L), NEW line \in [hop : Nat, items : Seq(Items)], ~(line.hop > 0),
           NEW X, NEW s \in Seq(X), NEW e \in X, Groups(L) = Append(s, e)
    PROVE  Groups(Append(L, line)) = Append(s, Longer(e, line))
<1> DEFINE M == Append(L, line)
           n == Len(L)
           c == Len(Opens(L))
           m == n + 1
           b == Len(s)
<1>1. /\ Lined(M) /\ Len(M) = m /\ M[m] = line /\ \A i \in 1..n : M[i] = L[i]
  BY AppendProperties DEF Lined
<1>2. /\ n \in Nat /\ DOMAIN L = 1..n /\ c \in Nat /\ DOMAIN Opens(L) = 1..c
      /\ Listing(Groups(L), c) /\ Len(Groups(L)) = c
  BY OpensAre
<1>3. \A k \in 1..c : Opens(L)[k] \in 1..n
  BY OpensAre
<1>4. DOMAIN M = 1..m /\ m \in Nat /\ m > 0
  BY <1>1, <1>2, OpensAre
<1>5. OpenAt(M) = OpenAt(L)
  BY <1>1, <1>2, <1>4 DEF OpenAt
<1>6. Opens(M) = Opens(L)
  BY <1>5 DEF Opens
<1>7. Listing(Groups(M), c)
  <2>1. Listing(Groups(M), Len(Opens(M)))
    BY <1>1, OpensAre
  <2> QED
    BY <2>1, <1>6
<1>8. b \in Nat /\ c = b + 1 /\ Groups(L)[c] = e /\ \A k \in 1..b : Groups(L)[k] = s[k]
  <2>1. b \in Nat
    BY LenProperties
  <2> DEFINE t == Append(s, e)
  <2>2. Len(t) = b + 1 /\ t[b + 1] = e /\ \A k \in 1..b : t[k] = s[k]
    BY AppendProperties
  <2>3. Groups(L) = t
    OBVIOUS
  <2> HIDE DEF t, b, c
  <2> QED
    BY <2>1, <2>2, <2>3, <1>2
<1>9. c \in 1..c
  BY <1>2, <1>8
<1> HIDE DEF b
<1>10. ASSUME NEW k \in 1..b PROVE Groups(M)[k] = s[k]
  <2>1. k \in 1..c /\ k # c /\ k + 1 \in 1..c
    BY <1>8
  <2>2. Ends(M, k) = Ends(L, k)
    BY <2>1, <1>6 DEF Ends
  <2>3. Ends(L, k) \in 0..n
    <3>1. Ends(L, k) = Opens(L)[k + 1] - 1
      BY <2>1 DEF Ends
    <3>2. Opens(L)[k + 1] \in 1..n
      BY <2>1, <1>3
    <3> QED
      BY <3>1, <3>2, <1>2
  <2>4. Opens(L)[k] \in 1..n
    BY <2>1, <1>3
  <2>5. \A i \in 1..(Ends(L, k) - Opens(L)[k] + 1) : Opens(L)[k] + i - 1 \in 1..n
    <3> DEFINE x == Ends(L, k)
               y == Opens(L)[k]
    <3>1. n \in Nat
      BY <1>2
    <3> HIDE DEF n, x, y
    <3>3. x \in 0..n /\ y \in 1..n
      BY <2>3, <2>4 DEF x, y
    <3>2. \A i \in 1..(x - y + 1) : y + i - 1 \in 1..n
      BY <3>1, <3>3
    <3> QED
      BY <3>2 DEF x, y
  <2> HIDE DEF M, n, c
  <2>6. \A i \in 1..(Ends(L, k) - Opens(L)[k] + 1) :
           M[Opens(L)[k] + i - 1].items = L[Opens(L)[k] + i - 1].items
    BY <2>5, <1>1
  <2>7. Pieces(M, k) = Pieces(L, k)
    BY <2>2, <2>6, <1>6 DEF Pieces
  <2>8. Groups(M)[k] = [hop |-> M[Opens(L)[k]].hop, items |-> FlattenSeq(Pieces(M, k))]
    BY <2>1, <1>2, <1>6, GroupsAre
  <2>9. Groups(L)[k] = [hop |-> L[Opens(L)[k]].hop, items |-> FlattenSeq(Pieces(L, k))]
    BY <2>1, <1>2, GroupsAre
  <2> QED
    BY <2>4, <2>7, <2>8, <2>9, <1>1, <1>8
<1>11. Groups(M)[c] = [hop |-> e.hop, items |-> e.items \o line.items]
  <2> DEFINE o == Opens(L)[c]
             p == n - o + 1
             q == p + 1
  <2>1. o \in 1..n
    BY <1>3, <1>9
  <2> HIDE DEF o
  <2>2. p \in Nat \ {0} /\ q = m - o + 1
    BY <2>1, <1>2
  <2>3. Ends(M, c) = m /\ Ends(L, c) = n
    BY <1>1, <1>6 DEF Ends
  <2>4. Pieces(L, c) = [i \in 1..p |-> L[o + i - 1].items]
    BY <2>3 DEF Pieces, o
  <2>5. Pieces(M, c) = [i \in 1..q |-> M[o + i - 1].items]
    BY <2>2, <2>3, <1>6 DEF Pieces, o
  <2>6. \A i \in 1..p : o + i - 1 \in 1..n
    BY <2>1, <1>2
  <2>7. q \in 1..q /\ o + q - 1 = m
    BY <2>1, <2>2, <1>2
  <2> DEFINE f == Pieces(L, c)
             g == Pieces(M, c)
  <2>8. Listing(f, p) /\ Listing(g, q)
    BY <2>4, <2>5 DEF Listing
  <2>9. \A i \in 1..p : g[i] = f[i]
    <3> SUFFICES ASSUME NEW i \in 1..p PROVE g[i] = f[i]
      OBVIOUS
    <3>1. i \in 1..q
      BY <2>2
    <3>2. o + i - 1 \in 1..n
      BY <2>6
    <3> HIDE DEF M, n, q, p
    <3>3. M[o + i - 1] = L[o + i - 1]
      BY <1>1, <3>2
    <3> QED
      BY <2>4, <2>5, <3>1, <3>3
  <2>10. g[q] = line.items
    <3> HIDE DEF M, m, q
    <3> QED
      BY <2>5, <2>7, <1>1
  <2>11. p \in Nat /\ q = p + 1
    BY <2>2
  <2> HIDE DEF f, g, p, q
  <2>12. g = Append(f, line.items)
    BY <2>8, <2>9, <2>10, <2>11, IsAppend
  <2>13. f # <<>>
    <3>1. Len(f) = p
      BY <2>8, <2>11, AnySeq
    <3> QED
      BY <3>1, <2>2 DEF p
  <2>14. FlattenSeq(g) = FlattenSeq(f) \o line.items
    <3> DEFINE Y == {f[i] : i \in 1..p}
               Z == Y \cup {line.items}
    <3>1. f \in Seq(Y)
      BY <2>8, <2>11, AnySeq
    <3>2. Y \subseteq Z /\ line.items \in Z
      OBVIOUS
    <3> HIDE DEF Y, Z
    <3>3. f \in Seq(Z)
      BY <3>1, <3>2, SeqMonotonic
    <3> QED
      BY <2>12, <2>13, <3>2, <3>3, FlattenAppend
  <2>15. Groups(M)[c] = [hop |-> M[o].hop, items |-> FlattenSeq(g)]
    BY <1>2, <1>6, <1>9, GroupsAre DEF o, g
  <2>16. Groups(L)[c] = [hop |-> L[o].hop, items |-> FlattenSeq(f)]
    BY <1>2, <1>9, GroupsAre DEF o, f
  <2>17. e.hop = L[o].hop /\ e.items = FlattenSeq(f)
    <3>1. Groups(L)[c] = e
      BY <1>8
    <3> HIDE DEF M, n, c
    <3>2. e = [hop |-> L[o].hop, items |-> FlattenSeq(f)]
      BY <2>16, <3>1
    <3> QED
      BY <3>2, HopOf
  <2>18. M[o] = L[o]
    <3> HIDE DEF M, n
    <3> QED
      BY <2>1, <1>1
  <2> QED
    BY <2>14, <2>15, <2>17, <2>18
<1> DEFINE a == [hop |-> e.hop, items |-> e.items \o line.items]
           h == Groups(M)
<1>12. Listing(s, b)
  BY LenProperties DEF Listing, b
<1>13. Listing(h, c) /\ c = b + 1 /\ b \in Nat /\ h[c] = a
  BY <1>7, <1>8, <1>11
<1>14. \A k \in 1..b : h[k] = s[k]
  BY <1>10
<1> HIDE DEF a, h, c
<1>15. h = Append(s, a)
  BY <1>12, <1>13, <1>14, IsAppend
<1> QED
  BY <1>15 DEF a, h, M, Longer

\* No line, no hop; and before a first line, none.
LEMMA GroupsNone == Groups(<<>>) = <<>>
<1>1. Lined(<<>>)
  BY EmptySeq DEF Lined
<1>2. OpenAt(<<>>) = {}
  BY DEF OpenAt
<1>3. Opens(<<>>) = <<>>
  BY <1>2, InOrderNone DEF Opens
<1>4. Len(Groups(<<>>)) = 0 /\ Listing(Groups(<<>>), 0)
  BY <1>1, <1>3, OpensAre, EmptySeq
<1>5. Groups(<<>>) \in Seq({Groups(<<>>)[i] : i \in 1..0})
  BY <1>4, AnySeq
<1> QED
  BY <1>4, <1>5, EmptySeq

-----------------------------------------------------------------------------
(* The inductive invariant *)

Full(items) == Len(Probes(items)) >= PerHop
Final(groups) == groups[Len(groups)]

\* How far the handler is, and what has ended by then.
Phases ==
    /\ main \in {"drain", "flush", "done", "failed"} => process = "exited" /\ listener = "ended"
    /\ main \in {"flush", "done"} => reader = "eof"
    /\ main = "failed" => reader # "reading"
    /\ reader = "eof" => process = "exited" /\ readTo = Len(out)

\* What ended traceroute is known: only a signal cuts a hop.
Causes ==
    /\ process \in {"terminated", "killed"} => cancelled \/ timedOut
    /\ process = "exited" => cancelled \/ timedOut \/ HopComplete
    /\ summary.by # "none" => main = "done"
    /\ Stray => process = "exited" /\ (cancelled \/ timedOut)
    /\ CutIsAdmitted

\* A line continues a hop that wants probes, or opens the next one when none does;
\* only a number that a signal left may come otherwise, as the last line.
Before(i) == Groups(SubSeq(out, 1, i - 1))
Printed ==
    /\ out # <<>> => Groups(out) # <<>>
    /\ \A i \in DOMAIN out :
        \/ Stray /\ i = Len(out)
        \/ IF out[i].hop = 0 THEN Before(i) # <<>> /\ ~Full(Final(Before(i)).items)
           ELSE out[i].hop = Len(Before(i)) + 1 /\ (Before(i) # <<>> => Full(Final(Before(i)).items))

Read == Groups(Answered)
Sent == [k \in DOMAIN hops.sent |-> [hop |-> hops.sent[k].hop, items |-> hops.sent[k].items]]

\* What was read is what was sent, and the hop being collected, which wants probes.
Collected ==
    reader # "broken" =>
        IF hops.current.hop = 0
        THEN Read = Sent /\ (main # "done" /\ Read # <<>> => Full(Final(Read).items))
        ELSE Read = Append(Sent, hops.current) /\ ~Full(hops.current.items)

\* Hops are sent in order; the mark is set once, and remembered; the summary says so.
Counted ==
    /\ hops.current.hop # 0 => hops.current.hop = Len(hops.sent) + 1
    /\ hops.last = Len(hops.sent)
    /\ \A k \in DOMAIN hops.sent : hops.sent[k].hop = k
    /\ hops.reached = \E k \in DOMAIN hops.sent : hops.sent[k].reached
    /\ \A i, j \in DOMAIN hops.sent : hops.sent[i].reached /\ hops.sent[j].reached => i = j
    /\ main = "done" => hops.current.hop = 0 /\ summary.hops = hops.last /\ summary.reached = hops.reached

IInv == TypeOK /\ Phases /\ Causes /\ Printed /\ Collected /\ Counted

-----------------------------------------------------------------------------
(* The hop being collected *)

LineType == [hop : 0..MaxHops, items : Seq(Items)]
SentType == [hop : 1..MaxHops, items : Seq(Items), reached : BOOLEAN]
HopsType == [current : LineType, last : 0..MaxHops, sent : Seq(SentType), reached : BOOLEAN]

SentOf(h) == [k \in DOMAIN h.sent |-> [hop |-> h.sent[k].hop, items |-> h.sent[k].items]]

Follows(h, groups) ==
    IF h.current.hop = 0
    THEN groups = SentOf(h) /\ (groups # <<>> => Full(Final(groups).items))
    ELSE groups = Append(SentOf(h), h.current) /\ ~Full(h.current.items)

Numbered(h) ==
    /\ h.current.hop # 0 => h.current.hop = Len(h.sent) + 1
    /\ h.last = Len(h.sent)
    /\ \A k \in DOMAIN h.sent : h.sent[k].hop = k

MarkedOnce(h) ==
    /\ h.reached = \E k \in DOMAIN h.sent : h.sent[k].reached
    /\ \A i, j \in DOMAIN h.sent : h.sent[i].reached /\ h.sent[j].reached => i = j

LEMMA HopsNat == MaxHops \in Nat \ {0} /\ PerHop \in Nat \ {0}
BY StreamAssumption

LEMMA NoHopType == NoHop \in LineType /\ NoHop.hop = 0
<1>1. <<>> \in Seq(Items)
  BY EmptySeq
<1> QED
  BY <1>1, HopsNat DEF NoHop, LineType

LEMMA SentSeq ==
    ASSUME NEW h, h.sent \in Seq(SentType)
    PROVE  /\ Len(h.sent) \in Nat /\ DOMAIN h.sent = 1..Len(h.sent)
           /\ \A k \in 1..Len(h.sent) : h.sent[k] \in SentType
           /\ SentOf(h) \in Seq(LineType) /\ Len(SentOf(h)) = Len(h.sent)
           /\ \A k \in 1..Len(h.sent) : SentOf(h)[k] = [hop |-> h.sent[k].hop, items |-> h.sent[k].items]
<1> DEFINE n == Len(h.sent)
           f == SentOf(h)
<1>1. n \in Nat /\ DOMAIN h.sent = 1..n
  BY LenProperties
<1>2. \A k \in 1..n : h.sent[k] \in SentType
  BY ElementOfSeq
<1> HIDE DEF n
<1>3. f = [k \in 1..n |-> [hop |-> h.sent[k].hop, items |-> h.sent[k].items]]
  BY <1>1 DEF SentOf
<1>4. \A k \in 1..n : [hop |-> h.sent[k].hop, items |-> h.sent[k].items] \in LineType
  BY <1>2, HopsNat DEF SentType, LineType
<1> HIDE DEF f
<1>5. f \in [1..n -> LineType]
  BY <1>3, <1>4
<1>6. f \in Seq(LineType)
  BY <1>1, <1>5, SeqDef
<1>7. Len(f) = n
  BY <1>1, <1>5, <1>6, LenProperties
<1>8. \A k \in 1..n : f[k] = [hop |-> h.sent[k].hop, items |-> h.sent[k].items]
  BY <1>3
<1> QED
  BY <1>1, <1>2, <1>6, <1>7, <1>8 DEF n, f

LEMMA FlushIdle == ASSUME NEW h, h.current.hop = 0 PROVE Flushed(h) = h
BY DEF Flushed

\* What is left of a hop that is sent.
LEMMA FlushOpen ==
    ASSUME NEW h \in HopsType, h.current.hop # 0
    PROVE  /\ Flushed(h) \in HopsType /\ Flushed(h).current = NoHop
           /\ Flushed(h).last = h.current.hop
           /\ Flushed(h).sent = Append(h.sent, Sending(h.current, h))
           /\ Flushed(h).reached = (h.reached \/ Marks(h.current, h.reached))
           /\ Sending(h.current, h) \in SentType
<1> DEFINE e == Sending(h.current, h)
           r == [current |-> NoHop, last |-> h.current.hop, sent |-> Append(h.sent, e),
                 reached |-> h.reached \/ Marks(h.current, h.reached)]
<1>1. Flushed(h) = r
  BY DEF Flushed, HopsType
<1>2. h.current \in LineType /\ h.sent \in Seq(SentType) /\ h.reached \in BOOLEAN
  BY DEF HopsType
<1>3. h.current.hop \in 1..MaxHops /\ h.current.hop \in 0..MaxHops /\ h.current.items \in Seq(Items)
  BY <1>2, HopsNat DEF LineType
<1>4. Marks(h.current, h.reached) \in BOOLEAN
  BY DEF Marks
<1>5. e \in SentType
  BY <1>3, <1>4 DEF Sending, SentType
<1> HIDE DEF e
<1>6. Append(h.sent, e) \in Seq(SentType)
  BY <1>2, <1>5, AppendProperties
<1>7. r \in HopsType
  BY <1>2, <1>3, <1>4, <1>6, NoHopType DEF HopsType
<1>8. /\ r.current = NoHop /\ r.last = h.current.hop /\ r.sent = Append(h.sent, e)
      /\ r.reached = (h.reached \/ Marks(h.current, h.reached))
  OBVIOUS
<1> HIDE DEF r
<1> QED
  BY <1>1, <1>5, <1>7, <1>8 DEF e

LEMMA FlushSent ==
    ASSUME NEW h \in HopsType, h.current.hop # 0
    PROVE  SentOf(Flushed(h)) = Append(SentOf(h), h.current)
<1> DEFINE e == Sending(h.current, h)
           g == Flushed(h)
           n == Len(h.sent)
           m == n + 1
<1>1. h.sent \in Seq(SentType) /\ e \in SentType /\ g.sent = Append(h.sent, e) /\ g.sent \in Seq(SentType)
  BY FlushOpen DEF HopsType
<1>2. /\ n \in Nat /\ SentOf(h) \in Seq(LineType) /\ Len(SentOf(h)) = n
      /\ \A k \in 1..n : SentOf(h)[k] = [hop |-> h.sent[k].hop, items |-> h.sent[k].items]
  BY <1>1, SentSeq
<1>3. e.hop = h.current.hop /\ e.items = h.current.items
  BY DEF Sending
<1>4. h.current \in LineType
  BY DEF HopsType
<1> HIDE DEF g, e
<1>5. /\ SentOf(g) \in Seq(LineType) /\ Len(SentOf(g)) = Len(g.sent)
      /\ \A k \in 1..Len(g.sent) : SentOf(g)[k] = [hop |-> g.sent[k].hop, items |-> g.sent[k].items]
  BY <1>1, SentSeq
<1>6. Len(g.sent) = m /\ g.sent[m] = e /\ \A k \in 1..n : g.sent[k] = h.sent[k]
  BY <1>1, AppendProperties
<1> HIDE DEF n
<1>7. m \in 1..m /\ \A k \in 1..n : k \in 1..m
  BY <1>2
<1>8. SentOf(g)[m] = h.current
  <2>1. SentOf(g)[m] = [hop |-> h.current.hop, items |-> h.current.items]
    BY <1>3, <1>5, <1>6, <1>7
  <2> QED
    BY <2>1, <1>4 DEF LineType
<1> HIDE DEF m
<1>9. \A k \in 1..n : SentOf(g)[k] = SentOf(h)[k]
  BY <1>2, <1>5, <1>6, <1>7
<1> DEFINE a == SentOf(g)
           b == SentOf(h)
<1>10. Listing(a, m) /\ Listing(b, n)
  BY <1>2, <1>5, <1>6, LenProperties DEF Listing
<1>11. m = n + 1 /\ n \in Nat
  BY <1>2 DEF m
<1> HIDE DEF a, b
<1>12. a = Append(b, h.current)
  BY <1>8, <1>9, <1>10, <1>11, IsAppend DEF a, b
<1> QED
  BY <1>12 DEF a, b, g

LEMMA FlushNumbers ==
    ASSUME NEW h \in HopsType, h.current.hop # 0, Numbered(h)
    PROVE  Numbered(Flushed(h))
<1> DEFINE e == Sending(h.current, h)
           g == Flushed(h)
           n == Len(h.sent)
           m == n + 1
<1>1. /\ h.sent \in Seq(SentType) /\ e \in SentType /\ g.sent = Append(h.sent, e) /\ g.sent \in Seq(SentType)
      /\ g.current.hop = 0 /\ g.last = h.current.hop
  BY FlushOpen, NoHopType DEF HopsType
<1>2. n \in Nat /\ DOMAIN h.sent = 1..n /\ h.current.hop = m /\ \A k \in 1..n : h.sent[k].hop = k
  BY <1>1, LenProperties DEF Numbered
<1>3. e.hop = m
  BY <1>2 DEF Sending
<1> HIDE DEF g, e
<1>4. Len(g.sent) = m /\ g.sent[m] = e /\ \A k \in 1..n : g.sent[k] = h.sent[k]
  BY <1>1, AppendProperties
<1>5. DOMAIN g.sent = 1..m
  BY <1>1, <1>4, LenProperties
<1> HIDE DEF n
<1>6. \A k \in 1..m : g.sent[k].hop = k
  BY <1>2, <1>3, <1>4
<1> QED
  BY <1>1, <1>2, <1>4, <1>5, <1>6 DEF Numbered, g

LEMMA FlushMarks ==
    ASSUME NEW h \in HopsType, h.current.hop # 0, MarkedOnce(h)
    PROVE  MarkedOnce(Flushed(h))
<1> DEFINE e == Sending(h.current, h)
           g == Flushed(h)
           n == Len(h.sent)
           m == n + 1
<1>1. /\ h.sent \in Seq(SentType) /\ e \in SentType /\ g.sent = Append(h.sent, e) /\ g.sent \in Seq(SentType)
      /\ g.reached = (h.reached \/ Marks(h.current, h.reached)) /\ h.reached \in BOOLEAN
  BY FlushOpen DEF HopsType
<1>2. n \in Nat /\ DOMAIN h.sent = 1..n
  BY <1>1, LenProperties
<1>3. e.reached = Marks(h.current, h.reached) /\ (Marks(h.current, h.reached) => ~h.reached)
  BY DEF Sending, Marks
<1> HIDE DEF g, e
<1>4. Len(g.sent) = m /\ g.sent[m] = e /\ \A k \in 1..n : g.sent[k] = h.sent[k]
  BY <1>1, AppendProperties
<1>5. DOMAIN g.sent = 1..m
  BY <1>1, <1>4, LenProperties
<1>6. h.reached <=> \E k \in 1..n : h.sent[k].reached
  BY <1>2 DEF MarkedOnce
<1>7. \A i, j \in 1..n : h.sent[i].reached /\ h.sent[j].reached => i = j
  BY <1>2 DEF MarkedOnce
<1> HIDE DEF n
<1>8. g.reached <=> \E k \in 1..m : g.sent[k].reached
  <2>1. CASE h.reached
    <3>1. PICK k \in 1..n : h.sent[k].reached
      BY <2>1, <1>6
    <3>2. k \in 1..m /\ g.sent[k].reached
      BY <3>1, <1>2, <1>4
    <3> QED
      BY <3>2, <2>1, <1>1
  <2>2. CASE ~h.reached
    <3>1. \A k \in 1..n : ~g.sent[k].reached
      BY <2>2, <1>4, <1>6
    <3>2. g.reached <=> e.reached
      BY <2>2, <1>1, <1>3
    <3>3. m \in 1..m /\ \A k \in 1..m : k = m \/ k \in 1..n
      BY <1>2
    <3> QED
      BY <3>1, <3>2, <3>3, <1>4
  <2> QED
    BY <2>1, <2>2
<1>9. \A i, j \in 1..m : g.sent[i].reached /\ g.sent[j].reached => i = j
  <2> SUFFICES ASSUME NEW i \in 1..m, NEW j \in 1..m, g.sent[i].reached, g.sent[j].reached PROVE i = j
    OBVIOUS
  <2>1. \A k \in 1..m : k = m \/ k \in 1..n
    BY <1>2
  <2>2. CASE e.reached
    <3>1. \A k \in 1..n : ~g.sent[k].reached
      BY <2>2, <1>3, <1>4, <1>6
    <3> QED
      BY <3>1, <2>1
  <2>3. CASE ~e.reached
    <3>1. i \in 1..n /\ j \in 1..n
      BY <2>1, <2>3, <1>4
    <3> QED
      BY <3>1, <1>4, <1>7
  <2> QED
    BY <2>2, <2>3
<1>10. g.reached \in BOOLEAN
  BY <1>1
<1> QED
  BY <1>5, <1>8, <1>9, <1>10 DEF MarkedOnce, g

\* Once its probes are in, a hop is sent.
LEMMA SendWhenFull ==
    ASSUME NEW h \in HopsType, NEW groups, h.current.hop # 0, groups = Append(SentOf(h), h.current),
           Numbered(h), MarkedOnce(h)
    PROVE  LET a == IF Full(h.current.items) THEN Flushed(h) ELSE h
           IN  a \in HopsType /\ Follows(a, groups) /\ Numbered(a) /\ MarkedOnce(a)
<1>1. CASE ~Full(h.current.items)
  BY <1>1 DEF Follows
<1>2. CASE Full(h.current.items)
  <2> DEFINE g == Flushed(h)
  <2>1. g \in HopsType /\ Numbered(g) /\ MarkedOnce(g) /\ g.current.hop = 0
    BY FlushOpen, FlushNumbers, FlushMarks, NoHopType
  <2>2. groups = SentOf(g)
    BY FlushSent
  <2>3. SentOf(h) \in Seq(LineType) /\ h.current \in LineType
    BY SentSeq DEF HopsType
  <2>4. Final(groups) = h.current
    BY <2>3, AppendProperties, LenProperties DEF Final
  <2> HIDE DEF g
  <2>5. Follows(g, groups)
    BY <1>2, <2>1, <2>2, <2>4 DEF Follows
  <2> QED
    BY <1>2, <2>1, <2>5 DEF g
<1> QED
  BY <1>1, <1>2

\* A line that opens a hop.
LEMMA TakeOpening ==
    ASSUME NEW h \in HopsType, NEW groups, Follows(h, groups), Numbered(h), MarkedOnce(h),
           NEW line \in LineType, line.hop = Len(groups) + 1
    PROVE  LET a == AfterLine(h, line)
           IN  /\ a \in HopsType /\ Numbered(a) /\ MarkedOnce(a)
               /\ Follows(a, Append(groups, [hop |-> line.hop, items |-> line.items]))
<1> DEFINE f == Flushed(h)
           e == [hop |-> line.hop, items |-> line.items]
           r == [current |-> e, last |-> f.last, sent |-> f.sent, reached |-> f.reached]
<1>1. f \in HopsType /\ Numbered(f) /\ MarkedOnce(f) /\ groups = SentOf(f)
  <2>1. CASE h.current.hop = 0
    BY <2>1, FlushIdle DEF Follows
  <2>2. CASE h.current.hop # 0
    BY <2>2, FlushOpen, FlushNumbers, FlushMarks, FlushSent DEF Follows
  <2> QED
    BY <2>1, <2>2
<1>2. f.sent \in Seq(SentType) /\ Len(groups) = Len(f.sent) /\ Len(f.sent) \in Nat
  BY <1>1, SentSeq DEF HopsType
<1>3. line.hop > 0 /\ line.hop # 0 /\ e \in LineType /\ e.hop = line.hop
  BY <1>2 DEF LineType
<1> HIDE DEF e
<1>4. Taken(h, line) = r
  BY <1>1, <1>3 DEF Taken, HopsType, e
<1>5. r \in HopsType
  BY <1>1, <1>3 DEF HopsType
<1>6. Numbered(r)
  BY <1>1, <1>2, <1>3 DEF Numbered
<1>7. MarkedOnce(r)
  BY <1>1 DEF MarkedOnce
<1>8. SentOf(r) = SentOf(f)
  BY DEF SentOf
<1>9. r.current = e
  OBVIOUS
<1> HIDE DEF r, f
<1> DEFINE a == IF Full(r.current.items) THEN Flushed(r) ELSE r
           more == Append(groups, e)
<1>10. more = Append(SentOf(r), r.current) /\ r.current.hop # 0
  BY <1>1, <1>3, <1>8, <1>9
<1> HIDE DEF more
<1>11. a \in HopsType /\ Follows(a, more) /\ Numbered(a) /\ MarkedOnce(a)
  BY <1>5, <1>6, <1>7, <1>10, SendWhenFull
<1>12. AfterLine(h, line) = a
  BY <1>4 DEF AfterLine, Full
<1> QED
  BY <1>11, <1>12 DEF more, e, Longer

LEMMA MoreItems ==
    ASSUME NEW c \in LineType, NEW s PROVE [c EXCEPT !.items = s] = [hop |-> c.hop, items |-> s]
BY DEF LineType

\* A line that continues one.
LEMMA TakeContinuing ==
    ASSUME NEW h \in HopsType, NEW groups, Follows(h, groups), Numbered(h), MarkedOnce(h),
           NEW line \in LineType, line.hop = 0, groups # <<>>, ~Full(Final(groups).items)
    PROVE  LET a == AfterLine(h, line)
               e == Longer(h.current, line)
           IN  /\ a \in HopsType /\ Numbered(a) /\ MarkedOnce(a)
               /\ groups = Append(SentOf(h), h.current)
               /\ Follows(a, Append(SentOf(h), e))
<1> DEFINE e == [hop |-> h.current.hop, items |-> h.current.items \o line.items]
           r == [current |-> e, last |-> h.last, sent |-> h.sent, reached |-> h.reached]
<1>1. h.current.hop # 0 /\ groups = Append(SentOf(h), h.current)
  BY DEF Follows
<1>2. h.current \in LineType /\ h.sent \in Seq(SentType)
  BY DEF HopsType
<1>3. h.current.hop \in 0..MaxHops /\ h.current.items \in Seq(Items) /\ line.items \in Seq(Items)
  BY <1>2 DEF LineType
<1>4. h.current.items \o line.items \in Seq(Items)
  BY <1>3, ConcatProperties
<1>5. e \in LineType /\ e.hop = h.current.hop /\ h.current.hop > 0
  BY <1>1, <1>3, <1>4, HopsNat DEF LineType
<1>6. [h.current EXCEPT !.items = h.current.items \o line.items] = e
  BY <1>2, MoreItems
<1>7. Taken(h, line) = r
  <2>1. ~(line.hop > 0)
    OBVIOUS
  <2>2. [h EXCEPT !.current = e] = r
    <3> HIDE DEF e
    <3> QED
      BY DEF HopsType
  <2>3. Taken(h, line) = [h EXCEPT !.current.items = @ \o line.items]
    BY <2>1, <1>5 DEF Taken
  <2>4. [h EXCEPT !.current.items = @ \o line.items] =
            [h EXCEPT !.current = [h.current EXCEPT !.items = h.current.items \o line.items]]
    OBVIOUS
  <2> QED
    BY <1>6, <2>2, <2>3, <2>4
<1> HIDE DEF e
<1>8. r \in HopsType
  BY <1>5 DEF HopsType
<1>9. Numbered(r)
  BY <1>5 DEF Numbered
<1>10. MarkedOnce(r)
  BY DEF MarkedOnce
<1>11. SentOf(r) = SentOf(h)
  BY DEF SentOf
<1>12. r.current = e
  OBVIOUS
<1> HIDE DEF r
<1> DEFINE a == IF Full(r.current.items) THEN Flushed(r) ELSE r
           more == Append(SentOf(h), e)
<1>13. more = Append(SentOf(r), r.current) /\ r.current.hop # 0
  BY <1>1, <1>5, <1>11, <1>12
<1> HIDE DEF more
<1>14. a \in HopsType /\ Follows(a, more) /\ Numbered(a) /\ MarkedOnce(a)
  BY <1>8, <1>9, <1>10, <1>13, SendWhenFull
<1>15. AfterLine(h, line) = a
  BY <1>7 DEF AfterLine, Full
<1> QED
  BY <1>1, <1>14, <1>15 DEF more, e, Longer

-----------------------------------------------------------------------------
(* The lines printed *)

LEMMA PrefixIs ==
    ASSUME NEW S, NEW s \in Seq(S), NEW n \in 0..Len(s)
    PROVE  /\ SubSeq(s, 1, n) \in Seq(S) /\ Len(SubSeq(s, 1, n)) = n
           /\ \A i \in 1..n : SubSeq(s, 1, n)[i] = s[i]
<1>1. Len(s) \in Nat /\ n \in Nat /\ n \in Int /\ 1 \in Int
  BY LenProperties
<1>2. \A i \in 1..n : s[i] \in S
  BY <1>1, ElementOfSeq
<1> DEFINE p == SubSeq(s, 1, n)
<1>3. /\ p \in Seq(S) /\ Len(p) = IF 1 <= n THEN n - 1 + 1 ELSE 0
      /\ \A i \in 1..(n - 1 + 1) : p[i] = s[1 + i - 1]
  BY <1>1, <1>2, SubSeqProperties
<1> HIDE DEF p
<1>4. Len(p) = n
  BY <1>1, <1>3
<1>5. \A i \in 1..n : p[i] = s[i]
  BY <1>1, <1>3
<1> QED
  BY <1>3, <1>4, <1>5 DEF p

\* A prefix stays what it is when the sequence grows.
LEMMA PrefixStays ==
    ASSUME NEW S, NEW s \in Seq(S), NEW e \in S, NEW n \in 0..Len(s)
    PROVE  SubSeq(Append(s, e), 1, n) = SubSeq(s, 1, n)
<1> DEFINE t == Append(s, e)
           p == SubSeq(s, 1, n)
           q == SubSeq(t, 1, n)
<1>1. t \in Seq(S) /\ Len(t) = Len(s) + 1 /\ Len(s) \in Nat /\ \A i \in 1..Len(s) : t[i] = s[i]
  BY AppendProperties, LenProperties
<1> HIDE DEF t
<1>2. n \in 0..Len(t)
  BY <1>1
<1>3. p \in Seq(S) /\ Len(p) = n /\ \A i \in 1..n : p[i] = s[i]
  BY PrefixIs
<1>4. q \in Seq(S) /\ Len(q) = n /\ \A i \in 1..n : q[i] = t[i]
  BY <1>1, <1>2, PrefixIs
<1> HIDE DEF p, q
<1>5. \A i \in 1..Len(p) : p[i] = q[i]
  BY <1>1, <1>3, <1>4
<1>6. p = q
  BY <1>3, <1>4, <1>5, SeqEqual
<1> QED
  BY <1>6 DEF p, q, t

\* The next prefix has one element more.
LEMMA NextPrefix ==
    ASSUME NEW S, NEW s \in Seq(S), NEW n \in Nat, n < Len(s)
    PROVE  /\ SubSeq(s, 1, n + 1) = Append(SubSeq(s, 1, n), s[n + 1]) /\ s[n + 1] \in S
           /\ SubSeq(s, 1, n) \in Seq(S)
<1> DEFINE m == n + 1
           p == SubSeq(s, 1, n)
           q == SubSeq(s, 1, m)
           e == s[m]
           t == Append(p, e)
<1>1. Len(s) \in Nat /\ n \in 0..Len(s) /\ m \in 0..Len(s) /\ m \in 1..Len(s)
  BY LenProperties
<1>2. p \in Seq(S) /\ Len(p) = n /\ \A i \in 1..n : p[i] = s[i]
  BY <1>1, PrefixIs
<1>3. e \in S
  BY <1>1, ElementOfSeq
<1> HIDE DEF p, e
<1>4. t \in Seq(S) /\ Len(t) = m /\ t[m] = e /\ \A i \in 1..n : t[i] = p[i]
  BY <1>2, <1>3, AppendProperties
<1> HIDE DEF t, m
<1>5. q \in Seq(S) /\ Len(q) = m /\ \A i \in 1..m : q[i] = s[i]
  BY <1>1, PrefixIs
<1> HIDE DEF q
<1>6. \A i \in 1..m : i = m \/ i \in 1..n
  BY DEF m
<1>7. \A i \in 1..Len(q) : q[i] = t[i]
  BY <1>2, <1>4, <1>5, <1>6 DEF e
<1>8. q = t
  BY <1>4, <1>5, <1>7, SeqEqual
<1> QED
  BY <1>2, <1>3, <1>8 DEF q, t, p, e, m

LEMMA WholeSeq == ASSUME NEW S, NEW s \in Seq(S) PROVE SubSeq(s, 1, Len(s)) = s
BY SubSeqFull

LEMMA LineIsLine == LineType \subseteq [hop : Nat, items : Seq(Items)]
BY HopsNat DEF LineType

LEMMA IsLined == ASSUME NEW L \in Seq(LineType) PROVE Lined(L)
BY LineIsLine, SeqMonotonic DEF Lined

LEMMA GroupsSeq ==
    ASSUME NEW L, Lined(L)
    PROVE  \E X : Groups(L) \in Seq(X)
BY OpensAre, AnySeq

LEMMA GroupsLen == ASSUME NEW L, Lined(L) PROVE Len(Groups(L)) \in Nat
BY OpensAre

LEMMA NotEmpty == ASSUME NEW X, NEW s \in Seq(X), NEW e PROVE Append(s, e) # <<>>
<1> DEFINE Y == X \cup {e}
<1>1. X \subseteq Y /\ e \in Y
  OBVIOUS
<1> HIDE DEF Y
<1>2. s \in Seq(Y)
  BY <1>1, SeqMonotonic
<1> QED
  BY <1>1, <1>2, AppendProperties

\* The last hop, and those before it.
LEMMA LastGroup ==
    ASSUME NEW L, Lined(L), Groups(L) # <<>>
    PROVE  \E X : \E s \in Seq(X), e \in X : Groups(L) = Append(s, e) /\ Final(Groups(L)) = e
<1>1. PICK X : Groups(L) \in Seq(X)
  BY GroupsSeq
<1>2. PICK s \in Seq(X), e \in X : Groups(L) = Append(s, e)
  BY <1>1, SequenceEmptyOrAppend
<1> DEFINE t == Append(s, e)
<1>3. Len(t) = Len(s) + 1 /\ t[Len(s) + 1] = e
  BY AppendProperties
<1>4. t[Len(t)] = e
  BY <1>3
<1> HIDE DEF t
<1>5. Final(Groups(L)) = e
  BY <1>2, <1>4 DEF Final, t
<1> QED
  BY <1>2, <1>5

\* With a line more there is a hop at least, unless it continues none.
LEMMA GroupsMore ==
    ASSUME NEW L, Lined(L), NEW line \in [hop : Nat, items : Seq(Items)], line.hop > 0 \/ Groups(L) # <<>>
    PROVE  Groups(Append(L, line)) # <<>>
<1>1. CASE line.hop > 0
  <2>1. PICK X : Groups(L) \in Seq(X)
    BY GroupsSeq
  <2>2. Groups(Append(L, line)) = Append(Groups(L), [hop |-> line.hop, items |-> line.items])
    BY <1>1, GroupsOpen
  <2> QED
    BY <2>1, <2>2, NotEmpty
<1>2. CASE ~(line.hop > 0)
  <2>1. PICK X : \E s \in Seq(X), e \in X : Groups(L) = Append(s, e)
    BY <1>2, LastGroup
  <2>2. PICK s \in Seq(X), e \in X : Groups(L) = Append(s, e)
    BY <2>1
  <2>3. Groups(Append(L, line)) = Append(s, Longer(e, line))
    BY <1>2, <2>2, GroupsContinue
  <2> QED
    BY <2>3, NotEmpty
<1> QED
  BY <1>1, <1>2

LEMMA OutLined == ASSUME TypeOK PROVE out \in Seq(LineType) /\ Len(out) \in Nat /\ DOMAIN out = 1..Len(out)
<1>1. out \in Seq(LineType)
  BY DEF TypeOK, LineType
<1> QED
  BY <1>1, LenProperties

\* What the next line may be, in terms of the hops so far.
FitsAfter(line, groups) ==
    IF line.hop = 0 THEN groups # <<>> /\ ~Full(Final(groups).items)
    ELSE line.hop = Len(groups) + 1 /\ (groups # <<>> => Full(Final(groups).items))

LEMMA NextFits ==
    ASSUME TypeOK, Printed, NEW items \in Seq(Items), HopComplete => HopsPrinted < MaxHops
    PROVE  NextLine(items) \in LineType /\ FitsAfter(NextLine(items), Groups(out))
<1> DEFINE line == NextLine(items)
           g == Groups(out)
<1>1. Lined(out)
  BY OutLined, IsLined
<1>2. Len(g) \in Nat
  BY <1>1, GroupsLen
<1>3. HopComplete <=> (out # <<>> => Full(Final(g).items))
  BY DEF HopComplete, Full, Open, Final, HopsPrinted
<1>4. g # <<>> <=> out # <<>>
  BY GroupsNone DEF Printed
<1>5. CASE HopComplete
  <2>1. line = [hop |-> Len(g) + 1, items |-> items] /\ Len(g) < MaxHops
    BY <1>5 DEF NextLine, HopsPrinted
  <2> HIDE DEF line, g
  <2>2. line.hop = Len(g) + 1 /\ line.hop # 0 /\ line \in LineType
    BY <2>1, <1>2, HopsNat DEF LineType
  <2> QED
    BY <2>2, <1>3, <1>4, <1>5 DEF FitsAfter, line, g
<1>6. CASE ~HopComplete
  <2>1. line = [hop |-> 0, items |-> items]
    BY <1>6 DEF NextLine
  <2> HIDE DEF line, g
  <2>2. line.hop = 0 /\ line \in LineType
    BY <2>1, HopsNat DEF LineType
  <2> QED
    BY <2>2, <1>3, <1>4, <1>6 DEF FitsAfter, line, g
<1> QED
  BY <1>5, <1>6

LEMMA PrintedIs ==
    Printed <=> /\ out # <<>> => Groups(out) # <<>>
                /\ \A i \in DOMAIN out :
                      (Stray /\ i = Len(out)) \/ FitsAfter(out[i], Groups(SubSeq(out, 1, i - 1)))
BY DEF Printed, FitsAfter, Before

LEMMA StrayIs ==
    /\ Stray <=> out # <<>> /\ out[Len(out)].hop = 0 /\ Full(Final(Groups(SubSeq(out, 1, Len(out) - 1))).items)
    /\ Stray' <=> out' # <<>> /\ out'[Len(out')].hop = 0 /\ Full(Final(Groups(SubSeq(out', 1, Len(out') - 1))).items)
<1>1. Stray <=> out # <<>> /\ out[Len(out)].hop = 0 /\ Full(Final(Groups(SubSeq(out, 1, Len(out) - 1))).items)
  BY DEF Stray, Full, Final
<1>2. Stray' <=> out' # <<>> /\ out'[Len(out')].hop = 0 /\ Full(Final(Groups(SubSeq(out', 1, Len(out') - 1))).items)
  BY DEF Stray, Full, Final
<1> QED
  BY <1>1, <1>2

\* Whatever comes last, the lines before it stay, and what was read of them.
LEMMA OneLonger ==
    ASSUME TypeOK, ~Stray, NEW line \in LineType, out' = Append(out, line), readTo' = readTo
    PROVE  /\ out' \in Seq(LineType) /\ Len(out') = Len(out) + 1 /\ DOMAIN out' = 1..(Len(out) + 1)
           /\ out' # <<>> /\ out'[Len(out')] = line /\ readTo' \in 0..Len(out')
           /\ \A i \in 1..Len(out) : out'[i] = out[i]
           /\ \A i \in 1..Len(out) : SubSeq(out', 1, i - 1) = SubSeq(out, 1, i - 1)
           /\ SubSeq(out', 1, Len(out') - 1) = out
           /\ SubSeq(out', 1, readTo) = SubSeq(out, 1, readTo)
           /\ Read = Groups(SubSeq(out, 1, readTo)) /\ readTo # Len(out')
<1> DEFINE n == Len(out)
           more == Append(out, line)
<1>1. out \in Seq(LineType) /\ n \in Nat /\ DOMAIN out = 1..n /\ readTo \in 0..n
  BY OutLined DEF TypeOK
<1>2. /\ more \in Seq(LineType) /\ Len(more) = n + 1 /\ more[n + 1] = line
      /\ \A i \in 1..n : more[i] = out[i]
  BY <1>1, AppendProperties
<1>3. DOMAIN more = 1..(n + 1) /\ more # <<>>
  BY <1>1, <1>2, LenProperties, NotEmpty
<1>4. \A k \in 0..n : SubSeq(more, 1, k) = SubSeq(out, 1, k)
  BY <1>1, PrefixStays
<1>5. SubSeq(out, 1, n) = out
  BY <1>1, WholeSeq
<1>6. Read = Groups(SubSeq(out, 1, readTo))
  BY DEF Read, Answered
<1>7. out' = more
  BY DEF more
<1> HIDE DEF more, n
<1>8. (n + 1) - 1 = n /\ n \in 0..n /\ (\A i \in 1..n : i - 1 \in 0..n) /\ readTo \in 0..(n + 1) /\ readTo # n + 1
  BY <1>1
<1>9. SubSeq(out', 1, Len(out') - 1) = out
  BY <1>2, <1>4, <1>5, <1>7, <1>8
<1>10. SubSeq(out', 1, readTo) = SubSeq(out, 1, readTo)
  BY <1>1, <1>4, <1>7
<1>11. \A i \in 1..n : SubSeq(out', 1, i - 1) = SubSeq(out, 1, i - 1)
  BY <1>4, <1>7, <1>8
<1> QED
  BY <1>2, <1>3, <1>6, <1>7, <1>8, <1>9, <1>10, <1>11 DEF n

\* A line more leaves what was printed, and read, as it was.
LEMMA OneLineMore ==
    ASSUME TypeOK, Printed, ~Stray, NEW line \in LineType, FitsAfter(line, Groups(out)),
           out' = Append(out, line), readTo' = readTo
    PROVE  out' \in Seq(LineType) /\ readTo' \in 0..Len(out') /\ ~Stray' /\ Printed' /\ Read' = Read
<1> DEFINE n == Len(out)
           m == Len(out')
<1>1. /\ out' \in Seq(LineType) /\ m = n + 1 /\ DOMAIN out' = 1..(n + 1)
      /\ out' # <<>> /\ out'[m] = line /\ readTo' \in 0..m
      /\ \A i \in 1..n : out'[i] = out[i]
      /\ \A i \in 1..n : SubSeq(out', 1, i - 1) = SubSeq(out, 1, i - 1)
      /\ SubSeq(out', 1, m - 1) = out
      /\ SubSeq(out', 1, readTo) = SubSeq(out, 1, readTo)
      /\ Read = Groups(SubSeq(out, 1, readTo))
  BY OneLonger
<1>2. out \in Seq(LineType) /\ n \in Nat /\ DOMAIN out = 1..n
  BY OutLined
<1>3. Groups(out') # <<>>
  <2>1. Lined(out) /\ line \in [hop : Nat, items : Seq(Items)]
    BY <1>2, IsLined, LineIsLine
  <2>2. line.hop > 0 \/ Groups(out) # <<>>
    BY <2>1 DEF FitsAfter
  <2> QED
    BY <2>1, <2>2, GroupsMore
<1>4. ~Stray'
  BY <1>1, StrayIs DEF FitsAfter
<1> HIDE DEF n, m
<1>5. ASSUME NEW i \in DOMAIN out' PROVE FitsAfter(out'[i], Groups(SubSeq(out', 1, i - 1)))
  <2>1. i = m \/ i \in 1..n
    BY <1>1, <1>2, <1>5
  <2>2. CASE i = m
    BY <2>2, <1>1
  <2>3. CASE i \in 1..n
    <3>1. FitsAfter(out[i], Groups(SubSeq(out, 1, i - 1)))
      BY <2>3, <1>2, PrintedIs
    <3> QED
      BY <2>3, <3>1, <1>1
  <2> QED
    BY <2>1, <2>2, <2>3
<1>6. Printed'
  BY <1>3, <1>5 DEF Printed, FitsAfter, Before
<1>7. Read' = Read
  BY <1>1, <1>4 DEF Read, Answered
<1> QED
  BY <1>1, <1>4, <1>6, <1>7 DEF m

\* A number where no hop waits for a probe is the last line, and not read as one.
LEMMA NumberLeft ==
    ASSUME TypeOK, Printed, ~Stray, HopComplete, out # <<>>, readTo' = readTo,
           out' = Append(out, [hop |-> 0, items |-> << Number >>])
    PROVE  out' \in Seq(LineType) /\ readTo' \in 0..Len(out') /\ Stray' /\ Printed' /\ Read' = Read
<1> DEFINE n == Len(out)
           m == Len(out')
           line == [hop |-> 0, items |-> << Number >>]
<1>1. line \in LineType /\ line.hop = 0
  <2>1. Number \in Items
    BY DEF Number, Items
  <2>2. << Number >> \in Seq(Items)
    BY <2>1
  <2> QED
    BY <2>2, HopsNat DEF LineType
<1> HIDE DEF line
<1>2. out' = Append(out, line)
  BY DEF line
<1>3. /\ out' \in Seq(LineType) /\ m = n + 1 /\ DOMAIN out' = 1..(n + 1)
      /\ out' # <<>> /\ out'[m] = line /\ readTo' \in 0..m
      /\ \A i \in 1..n : out'[i] = out[i]
      /\ \A i \in 1..n : SubSeq(out', 1, i - 1) = SubSeq(out, 1, i - 1)
      /\ SubSeq(out', 1, m - 1) = out
      /\ SubSeq(out', 1, readTo) = SubSeq(out, 1, readTo)
      /\ Read = Groups(SubSeq(out, 1, readTo)) /\ readTo # m
  BY <1>1, <1>2, OneLonger
<1>4. out \in Seq(LineType) /\ n \in Nat /\ DOMAIN out = 1..n
  BY OutLined
<1>5. Full(Final(Groups(out)).items)
  BY DEF HopComplete, Full, Open, Final, HopsPrinted
<1>6. Groups(out') # <<>>
  <2>1. Lined(out) /\ line \in [hop : Nat, items : Seq(Items)] /\ Groups(out) # <<>>
    BY <1>1, <1>4, IsLined, LineIsLine DEF Printed
  <2> QED
    BY <1>2, <2>1, GroupsMore
<1>7. Stray'
  BY <1>1, <1>3, <1>5, StrayIs
<1> HIDE DEF n, m
<1>8. ASSUME NEW i \in DOMAIN out' PROVE i = m \/ FitsAfter(out'[i], Groups(SubSeq(out', 1, i - 1)))
  <2>1. i = m \/ i \in 1..n
    BY <1>3, <1>4, <1>8
  <2>2. CASE i \in 1..n
    <3>1. FitsAfter(out[i], Groups(SubSeq(out, 1, i - 1)))
      BY <2>2, <1>4, PrintedIs
    <3> QED
      BY <2>2, <3>1, <1>3
  <2> QED
    BY <2>1, <2>2
<1>9. Printed'
  BY <1>6, <1>7, <1>8 DEF Printed, FitsAfter, Before, m
<1>10. Read' = Read
  <2>1. Answered' = SubSeq(out', 1, readTo)
    BY <1>3 DEF Answered, m
  <2> QED
    BY <1>3, <2>1 DEF Read
<1> QED
  BY <1>3, <1>7, <1>9, <1>10 DEF m

LEMMA Unequal == ASSUME NEW a \in Nat, NEW b \in Nat, a < b PROVE a # b
OBVIOUS

LEMMA HopsAreHops == TypeOK => hops \in HopsType
BY DEF TypeOK, HopsType, LineType, SentType

\* The lines read with the next one.
NowRead == SubSeq(out, 1, IF Stray /\ readTo + 1 = Len(out) THEN readTo ELSE readTo + 1)

\* What the next line makes of what was read, and of the hop being collected.
LEMMA OneLineRead ==
    ASSUME TypeOK, Phases, Printed, Collected, Counted, reader = "reading", readTo < Len(out)
    PROVE  LET a == AfterLine(hops, out[readTo + 1])
           IN  /\ a \in HopsType /\ Numbered(a) /\ MarkedOnce(a)
               /\ Follows(a, Groups(NowRead))
<1> DEFINE line == out[readTo + 1]
           L == SubSeq(out, 1, readTo)
           G == Groups(L)
           a == AfterLine(hops, line)
<1>1. /\ out \in Seq(LineType) /\ Len(out) \in Nat /\ DOMAIN out = 1..Len(out)
      /\ readTo \in Nat
  BY OutLined DEF TypeOK
<1>2. SubSeq(out, 1, readTo + 1) = Append(L, line) /\ line \in LineType /\ L \in Seq(LineType)
  BY <1>1, NextPrefix
<1>3. (Stray /\ readTo + 1 = Len(out)) \/ FitsAfter(line, G)
  <2>1. readTo + 1 \in DOMAIN out /\ (readTo + 1) - 1 = readTo
    BY <1>1
  <2> QED
    BY <2>1, PrintedIs
<1>4. hops \in HopsType /\ Numbered(hops) /\ MarkedOnce(hops)
  BY HopsAreHops DEF Counted, Numbered, MarkedOnce
<1>5. main # "done"
  BY DEF Phases
<1>6. Follows(hops, G)
  <2>1. readTo # Len(out)
    BY <1>1, Unequal, Zenon
  <2>2. Answered = L
    BY <2>1 DEF Answered
  <2>3. Read = G
    BY <2>2 DEF Read
  <2> QED
    BY <1>5, <2>3 DEF Collected, Follows, Sent, SentOf
<1>7. Lined(L) /\ line \in [hop : Nat, items : Seq(Items)]
  BY <1>2, IsLined, LineIsLine
<1>8. CASE Stray /\ readTo + 1 = Len(out)
  <2>1. (readTo + 1) - 1 = readTo
    BY <1>1
  <2>2. line.hop = 0 /\ Full(Final(G).items) /\ NowRead = L
    BY <1>8, <2>1, StrayIs DEF NowRead
  <2>3. hops.current.hop = 0
    <3> SUFFICES ASSUME hops.current.hop # 0 PROVE FALSE
      OBVIOUS
    <3>1. G = Append(SentOf(hops), hops.current) /\ ~Full(hops.current.items)
      BY <1>6 DEF Follows
    <3>2. SentOf(hops) \in Seq(LineType) /\ hops.current \in LineType
      BY <1>4, SentSeq DEF HopsType
    <3> HIDE DEF G
    <3>3. Final(G) = hops.current
      BY <3>1, <3>2, AppendProperties DEF Final
    <3> QED
      BY <2>2, <3>1, <3>3
  <2>4. a = hops
    BY <2>2, <2>3, FlushIdle DEF AfterLine, Taken
  <2> HIDE DEF a, line, L
  <2> QED
    BY <1>4, <1>6, <2>2, <2>4 DEF line, a
<1> SUFFICES ASSUME FitsAfter(line, G), NowRead = Append(L, line)
             PROVE  a \in HopsType /\ Numbered(a) /\ MarkedOnce(a) /\ Follows(a, Groups(NowRead))
  BY <1>2, <1>3, <1>8 DEF NowRead
<1> HIDE DEF line, L
<1>9. CASE line.hop # 0
  <2>1. line.hop = Len(G) + 1 /\ line.hop > 0
    BY <1>7, <1>9 DEF FitsAfter
  <2>2. Groups(Append(L, line)) = Append(G, [hop |-> line.hop, items |-> line.items])
    BY <2>1, <1>7, GroupsOpen
  <2> HIDE DEF G
  <2>3. /\ a \in HopsType /\ Numbered(a) /\ MarkedOnce(a)
        /\ Follows(a, Append(G, [hop |-> line.hop, items |-> line.items]))
    BY <2>1, <1>2, <1>4, <1>6, TakeOpening
  <2> QED
    BY <2>2, <2>3, <1>2 DEF line
<1>10. CASE line.hop = 0
  <2>1. G # <<>> /\ ~Full(Final(G).items)
    BY <1>10 DEF FitsAfter
  <2>2. /\ a \in HopsType /\ Numbered(a) /\ MarkedOnce(a)
        /\ G = Append(SentOf(hops), hops.current)
        /\ Follows(a, Append(SentOf(hops), Longer(hops.current, line)))
    <3> HIDE DEF G
    <3> QED
      BY <2>1, <1>2, <1>4, <1>6, <1>10, TakeContinuing
  <2>3. SentOf(hops) \in Seq(LineType) /\ hops.current \in LineType
    BY <1>4, SentSeq DEF HopsType
  <2>4. ~(line.hop > 0)
    BY <1>10
  <2>5. Groups(Append(L, line)) = Append(SentOf(hops), Longer(hops.current, line))
    <3>1. Groups(L) = Append(SentOf(hops), hops.current)
      BY <2>2
    <3> HIDE DEF G, a
    <3> QED
      BY <3>1, <2>3, <2>4, <1>7, GroupsContinue
  <2>6. Groups(NowRead) = Append(SentOf(hops), Longer(hops.current, line))
    BY <2>5
  <2> HIDE DEF a
  <2> QED
    BY <2>2, <2>6
<1> QED
  BY <1>9, <1>10

-----------------------------------------------------------------------------
(* The target *)

\* What a walk along these names answers.
FoundAt(zone, name) == IF zone[name].a.ips # <<>> THEN zone[name].a.ips ELSE zone[name].aaaa.ips

LEMMA WalkFinds ==
    ASSUME NEW zone \in Zones, NEW name
    PROVE  \/ Filter!Walk(zone, name) = <<>>
           \/ \E n \in Names : Filter!Walk(zone, name) = Filter!Checked(FoundAt(zone, n))
<1> DEFINE alias == CHOOSE f : f = [k \in 0..MaxCnames |->
                IF k = 0 THEN name ELSE IF f[k - 1] = "none" THEN "none" ELSE zone[f[k - 1]].cname]
           passed(k) == ~zone[alias[k]].a.nx /\ ~zone[alias[k]].aaaa.nx /\ FoundAt(zone, alias[k]) = <<>>
           reached == {k \in 0..(MaxCnames - 1) :
                          /\ alias[k] \in Names
                          /\ \A j \in 0..(k - 1) : passed(j) /\ alias[j] # alias[k]}
           answers == {k \in reached : ~zone[alias[k]].a.nx /\ FoundAt(zone, alias[k]) # <<>>}
<1>1. Filter!Walk(zone, name) =
          IF answers = {} THEN <<>> ELSE Filter!Checked(FoundAt(zone, alias[CHOOSE k \in answers : TRUE]))
  BY DEF Filter!Walk, FoundAt, Filter!NoName
<1> HIDE DEF alias, passed
<1>2. \A k \in answers : alias[k] \in Names
  OBVIOUS
<1> HIDE DEF answers
<1>3. CASE answers = {}
  BY <1>1, <1>3
<1>4. CASE answers # {}
  <2>1. alias[CHOOSE k \in answers : TRUE] \in Names
    BY <1>2, <1>4
  <2> QED
    BY <1>1, <1>4, <2>1
<1> QED
  BY <1>3, <1>4

LEMMA FoundType == ASSUME NEW zone \in Zones, NEW n \in Names PROVE FoundAt(zone, n) \in Seq(Addresses)
<1>1. zone[n] \in [a : Answer, aaaa : Answer, cname : Names \cup {"none"}]
  BY StreamAssumption
<1> QED
  BY <1>1 DEF FoundAt, Answer

LEMMA FirstOf == ASSUME NEW S, NEW s \in Seq(S), s # <<>> PROVE Head(s) \in S /\ Head(s) \in ToSet(s)
<1>1. Len(s) \in Nat \ {0} /\ DOMAIN s = 1..Len(s)
  BY EmptySeq, LenProperties
<1>2. 1 \in 1..Len(s) /\ Head(s) = s[1]
  BY <1>1
<1> QED
  BY <1>1, <1>2, ElementOfSeq DEF ToSet

LEMMA OneAddress == ASSUME NEW a \in Addresses PROVE << a >> \in Seq(Addresses)
OBVIOUS

\* What a tool is run against is an address, and none that is blocked.
LEMMA FilterIsPublic ==
    ASSUME NEW zone \in Zones, NEW asked \in Asked, Filter!FilterTarget(zone, asked) # NoAddress
    PROVE  Filter!FilterTarget(zone, asked) \in Addresses \ Private
<1> DEFINE ips == IF asked \in Addresses THEN << asked >> ELSE Filter!Walk(zone, asked)
<1>1. ips \in Seq(Addresses)
  <2>1. CASE asked \in Addresses
    BY <2>1, OneAddress
  <2>2. CASE asked \notin Addresses
    <3> SUFFICES Filter!Walk(zone, asked) \in Seq(Addresses)
      BY <2>2
    <3>1. CASE Filter!Walk(zone, asked) = <<>>
      BY <3>1, EmptySeq
    <3>2. ASSUME NEW n \in Names, Filter!Walk(zone, asked) = Filter!Checked(FoundAt(zone, n))
          PROVE  Filter!Walk(zone, asked) \in Seq(Addresses)
      <4>1. FoundAt(zone, n) \in Seq(Addresses) /\ <<>> \in Seq(Addresses)
        BY FoundType, EmptySeq
      <4> QED
        BY <3>2, <4>1 DEF Filter!Checked
    <3> QED
      BY <3>1, <3>2, WalkFinds
  <2> QED
    BY <2>1, <2>2
<1>2. Filter!FilterTarget(zone, asked) = IF Filter!Checked(ips) = <<>> THEN NoAddress ELSE Head(ips)
  BY DEF Filter!FilterTarget
<1> HIDE DEF ips
<1>3. Filter!Checked(ips) # <<>> /\ Filter!FilterTarget(zone, asked) = Head(ips)
  BY <1>2
<1>4. ips # <<>> /\ ToSet(ips) \cap Private = {}
  BY <1>3 DEF Filter!Checked, Filter!ToSet, ToSet
<1>5. Head(ips) \in Addresses /\ Head(ips) \in ToSet(ips)
  BY <1>1, <1>4, FirstOf
<1> QED
  BY <1>3, <1>4, <1>5

LEMMA TracedIsPublic == Traced \subseteq Addresses \ Private
BY FilterIsPublic DEF Traced

-----------------------------------------------------------------------------
(* The steps *)

\* The invariant in terms of the hop being collected.
Typed ==
    /\ target \in Addresses /\ setting \in Settings
    /\ process \in {"running", "terminated", "killed", "exited"}
    /\ out \in Seq(LineType) /\ readTo \in 0..Len(out)
    /\ hops \in HopsType
    /\ cancelled \in BOOLEAN /\ timedOut \in BOOLEAN
    /\ reader \in {"reading", "eof", "broken"}
    /\ listener \in {"listening", "ended"}
    /\ page \in {"on", "cancelling", "gone"}
    /\ main \in {"wait", "kill", "drain", "flush", "done", "failed"}
    /\ summary \in [hops : 0..MaxHops, reached : BOOLEAN, by : {"none", "completed", "user", "max_duration"}]

Followed ==
    reader # "broken" =>
        IF hops.current.hop = 0
        THEN Read = SentOf(hops) /\ (main # "done" /\ Read # <<>> => Full(Final(Read).items))
        ELSE Read = Append(SentOf(hops), hops.current) /\ ~Full(hops.current.items)

Summed == main = "done" => hops.current.hop = 0 /\ summary.hops = hops.last /\ summary.reached = hops.reached

LEMMA TypeIs == (TypeOK <=> Typed) /\ (TypeOK' <=> Typed')
BY DEF TypeOK, Typed, LineType, SentType, HopsType

LEMMA CollectedIs == (Collected <=> Followed) /\ (Collected' <=> Followed')
<1>1. Collected <=> Followed
  BY DEF Collected, Followed, Sent, SentOf
<1>2. Collected' <=> Followed'
  BY DEF Collected, Followed, Sent, SentOf
<1> QED
  BY <1>1, <1>2

LEMMA CountedIs ==
    /\ Counted <=> Numbered(hops) /\ MarkedOnce(hops) /\ Summed
    /\ Counted' <=> Numbered(hops') /\ MarkedOnce(hops') /\ Summed'
<1>1. Counted <=> Numbered(hops) /\ MarkedOnce(hops) /\ Summed
  BY DEF Counted, Numbered, MarkedOnce, Summed
<1>2. Counted' <=> Numbered(hops') /\ MarkedOnce(hops') /\ Summed'
  BY DEF Counted, Numbered, MarkedOnce, Summed
<1> QED
  BY <1>1, <1>2

LEMMA Starts == Init => IInv
<1> SUFFICES ASSUME Init PROVE IInv
  OBVIOUS
<1>1. TypeOK
  <2>1. target \in Addresses /\ setting \in Settings
    BY TracedIsPublic DEF Init
  <2>2. out \in Seq(LineType) /\ readTo \in 0..Len(out)
    BY EmptySeq DEF Init
  <2>3. hops \in HopsType
    BY EmptySeq, NoHopType, HopsNat DEF Init, HopsType
  <2>4. summary \in [hops : 0..MaxHops, reached : BOOLEAN, by : {"none", "completed", "user", "max_duration"}]
    BY HopsNat DEF Init
  <2> QED
    BY <2>1, <2>2, <2>3, <2>4, TypeIs DEF Typed, Init
<1>2. Phases
  BY DEF Init, Phases
<1>3. Causes
  BY DEF Init, Causes, Stray, CutIsAdmitted
<1>4. Printed
  <2>1. DOMAIN out = {} /\ out = <<>>
    BY DEF Init
  <2> QED
    BY <2>1 DEF Printed, Stray
<1>5. hops.current.hop = 0 /\ hops.last = 0 /\ hops.reached = FALSE /\ hops.sent = <<>>
  BY NoHopType DEF Init
<1>6. DOMAIN hops.sent = {} /\ Len(hops.sent) = 0
  BY <1>5
<1>7. Counted
  BY <1>5, <1>6 DEF Counted, Init
<1>8. Collected
  <2>1. SentOf(hops) = <<>>
    <3>1. hops.sent \in Seq(SentType)
      BY <1>5, EmptySeq
    <3>2. SentOf(hops) \in Seq(LineType) /\ Len(SentOf(hops)) = 0
      BY <1>6, <3>1, SentSeq
    <3> QED
      BY <3>2, EmptySeq
  <2>2. Read = <<>>
    <3>1. SubSeq(<<>>, 1, 0) = <<>>
      <4>1. <<>> \in Seq(LineType) /\ Len(<<>>) = 0
        BY EmptySeq
      <4> QED
        BY <4>1, WholeSeq
    <3> QED
      BY <3>1, GroupsNone DEF Read, Answered, Stray, Init
  <2> QED
    BY <1>5, <2>1, <2>2, CollectedIs DEF Followed
<1> QED
  BY <1>1, <1>2, <1>3, <1>4, <1>7, <1>8 DEF IInv

\* What does not change while no line is printed, and none is read.
LEMMA NoLine ==
    ASSUME out' = out
    PROVE  (HopComplete' <=> HopComplete) /\ (Stray' <=> Stray) /\ (Printed' <=> Printed)
<1>1. (HopComplete' <=> HopComplete) /\ (Stray' <=> Stray)
  BY DEF HopComplete, Open, HopsPrinted, Stray
<1> QED
  BY <1>1 DEF Printed, Before

LEMMA NoRead == ASSUME out' = out, readTo' = readTo PROVE Read' = Read
BY DEF Read, Answered, Stray

LEMMA RemainsAre == ASSUME NEW item \in Items PROVE Remains(item) \subseteq Items
<1>1. Noise \in Items /\ Number \in Items
  BY DEF Noise, Number, Items
<1>2. [kind : {"address"}, of : Addresses] \subseteq Items
  BY DEF Items
<1>3. item.kind \in {"address", "name", "rtt", "star", "noise"}
  BY DEF Items
<1>4. CASE IsWho(item)
  BY <1>1, <1>2, <1>4 DEF Remains, IsWho
<1>5. CASE ~IsWho(item)
  BY <1>1, <1>3, <1>5 DEF Remains, IsWho
<1> QED
  BY <1>4, <1>5

LEMMA CutType == ASSUME NEW items \in Seq(Items), NEW rest \in CutOff(items) PROVE rest \in Seq(Items)
<1>1. DOMAIN items = 1..Len(items) /\ Len(items) \in Nat
  BY LenProperties
<1>2. \A k \in DOMAIN items : SubSeq(items, 1, k) \in Seq(Items) /\ SubSeq(items, 1, k - 1) \in Seq(Items)
  <2>1. \A k \in DOMAIN items : k \in 0..Len(items) /\ k - 1 \in 0..Len(items)
    BY <1>1
  <2> QED
    BY <2>1, PrefixIs
<1>3. ASSUME NEW k \in DOMAIN items, NEW piece \in Remains(items[k])
      PROVE  Append(SubSeq(items, 1, k - 1), piece) \in Seq(Items)
  BY <1>1, <1>2, RemainsAre, AppendProperties, ElementOfSeq
<1>4. \/ \E k \in DOMAIN items : rest = SubSeq(items, 1, k)
      \/ \E k \in DOMAIN items : \E piece \in Remains(items[k]) : rest = Append(SubSeq(items, 1, k - 1), piece)
  BY DEF CutOff
<1> QED
  BY <1>2, <1>3, <1>4

\* A line printed, whole or cut.
LEMMA LinePrinted ==
    ASSUME IInv, NEW items \in Seq(Items), HopComplete => HopsPrinted < MaxHops,
           out' = Append(out, NextLine(items)), process # "exited",
           UNCHANGED <<input, readTo, hops, cancelled, tasks, page, summary>>,
           process' \in {process, "exited"}
    PROVE  TypeOK' /\ Printed' /\ Collected' /\ Counted' /\ ~Stray'
<1>1. TypeOK /\ Printed /\ ~Stray
  BY DEF IInv, Causes
<1>2. NextLine(items) \in LineType /\ FitsAfter(NextLine(items), Groups(out))
  BY <1>1, NextFits
<1>3. readTo' = readTo
  OBVIOUS
<1>4. out' \in Seq(LineType) /\ readTo' \in 0..Len(out') /\ ~Stray' /\ Printed' /\ Read' = Read
  BY <1>1, <1>2, <1>3, OneLineMore
<1>5. TypeOK'
  BY <1>1, <1>4, TypeIs DEF Typed, input, tasks
<1>6. Collected'
  BY <1>4, CollectedIs DEF Followed, IInv, tasks
<1>7. Counted'
  BY CountedIs DEF Summed, IInv, tasks
<1> QED
  BY <1>4, <1>5, <1>6, <1>7

LEMMA PrintLineInv == ASSUME IInv, NEW items \in Lines, PrintLine(items) PROVE IInv'
<1>1. items \in Seq(Items) /\ (HopComplete => HopsPrinted < MaxHops)
  BY StreamAssumption DEF PrintLine, Fits
<1>2. TypeOK' /\ Printed' /\ Collected' /\ Counted' /\ ~Stray'
  BY <1>1, LinePrinted DEF PrintLine
<1>3. Phases'
  BY DEF PrintLine, IInv, Phases, tasks
<1>4. Causes'
  BY <1>2 DEF PrintLine, IInv, Causes, Phases, CutIsAdmitted, tasks
<1> QED
  BY <1>2, <1>3, <1>4 DEF IInv

\* Steps that print no line, read none, and send none.
LEMMA Still ==
    ASSUME IInv, out' = out, readTo' = readTo, hops' = hops, summary' = summary,
           target' = target, setting' = setting,
           main' = main \/ (main # "done" /\ main' # "done"), reader # "broken" \/ reader' = "broken"
    PROVE  Printed' /\ Collected' /\ Counted'
<1>1. Printed' /\ Read' = Read
  BY NoLine, NoRead DEF IInv
<1>2. Collected'
  BY <1>1, CollectedIs DEF Followed, IInv
<1>3. Counted'
  BY CountedIs DEF Summed, IInv
<1> QED
  BY <1>1, <1>2, <1>3

LEMMA EndByItselfInv == ASSUME IInv, EndByItself PROVE IInv'
<1>1. Printed' /\ Collected' /\ Counted'
  BY Still DEF EndByItself, input, tasks
<1>2. HopComplete' /\ (Stray' <=> Stray)
  BY NoLine DEF EndByItself
<1>3. TypeOK'
  BY TypeIs DEF Typed, EndByItself, IInv, input, tasks
<1>4. Phases'
  BY DEF EndByItself, IInv, Phases, tasks
<1>5. Causes'
  BY <1>2 DEF EndByItself, IInv, Causes, CutIsAdmitted, tasks
<1> QED
  BY <1>1, <1>3, <1>4, <1>5 DEF IInv

LEMMA EndBySignalInv == ASSUME IInv, EndBySignal PROVE IInv'
<1>1. /\ process # "exited" /\ process' = "exited" /\ (cancelled \/ timedOut)
      /\ UNCHANGED <<input, readTo, hops, cancelled, tasks, page, summary>>
  BY DEF EndBySignal, IInv, Causes
<1>2. TypeOK' /\ Printed' /\ Collected' /\ Counted'
  <2>1. CASE UNCHANGED out
    <3>1. Printed' /\ Collected' /\ Counted'
      BY <1>1, <2>1, Still DEF input, tasks
    <3>2. TypeOK'
      BY <1>1, <2>1, TypeIs DEF Typed, IInv, input, tasks
    <3> QED
      BY <3>1, <3>2
  <2>2. ASSUME NEW items \in Lines, Fits(items), NEW rest \in CutOff(items), out' = Append(out, NextLine(rest))
        PROVE  TypeOK' /\ Printed' /\ Collected' /\ Counted'
    <3>1. rest \in Seq(Items)
      BY StreamAssumption, CutType
    <3>2. HopComplete => HopsPrinted < MaxHops
      BY <2>2 DEF Fits
    <3> QED
      BY <1>1, <2>2, <3>1, <3>2, LinePrinted
  <2>3. CASE CutToNumber
    <3>1. TypeOK /\ Printed /\ ~Stray
      BY <1>1 DEF IInv, Causes
    <3>2. out' \in Seq(LineType) /\ readTo' \in 0..Len(out') /\ Printed' /\ Read' = Read
      BY <1>1, <2>3, <3>1, NumberLeft DEF CutToNumber
    <3>3. TypeOK'
      BY <1>1, <3>1, <3>2, TypeIs DEF Typed, input, tasks
    <3>4. Collected'
      BY <1>1, <3>2, CollectedIs DEF Followed, IInv, tasks
    <3>5. Counted'
      BY <1>1, CountedIs DEF Summed, IInv, tasks
    <3> QED
      BY <3>2, <3>3, <3>4, <3>5
  <2> QED
    BY <2>1, <2>2, <2>3 DEF EndBySignal, CutLine
<1>3. Phases'
  BY <1>1 DEF IInv, Phases, tasks
<1>4. Causes'
  BY <1>1 DEF IInv, Causes, Phases, CutIsAdmitted, tasks
<1> QED
  BY <1>2, <1>3, <1>4 DEF IInv

LEMMA ReadLineInv == ASSUME IInv, ReadLine PROVE IInv'
<1> DEFINE a == AfterLine(hops, out[readTo + 1])
<1>1. /\ reader = "reading" /\ readTo < Len(out) /\ readTo' = readTo + 1
      /\ UNCHANGED <<input, trace, cancelled, listener, main, timedOut, page, summary>>
      /\ (hops' = a /\ reader' = reader) \/ (reader' = "broken" /\ hops' = hops)
  BY DEF ReadLine
<1>2. a \in HopsType /\ Numbered(a) /\ MarkedOnce(a) /\ Follows(a, Groups(NowRead))
  BY <1>1, OneLineRead DEF IInv
<1> HIDE DEF a
<1>3. out \in Seq(LineType) /\ Len(out) \in Nat /\ readTo \in Nat
  BY OutLined DEF IInv, TypeOK
<1>4. main \notin {"flush", "done", "failed"}
  BY <1>1 DEF IInv, Phases
<1>5. TypeOK'
  <2>1. readTo' \in 0..Len(out')
    BY <1>1, <1>3 DEF trace
  <2>2. hops' \in HopsType
    BY <1>1, <1>2, TypeIs DEF Typed, IInv
  <2> QED
    BY <1>1, <2>1, <2>2, TypeIs DEF Typed, IInv, input, trace
<1>6. Phases'
  BY <1>1, <1>4 DEF IInv, Phases, trace
<1>7. Printed' /\ Causes'
  <2>1. out' = out
    BY <1>1 DEF trace
  <2>2. Printed' /\ (HopComplete' <=> HopComplete) /\ (Stray' <=> Stray)
    BY <2>1, NoLine DEF IInv
  <2> QED
    BY <1>1, <2>2 DEF IInv, Causes, CutIsAdmitted, trace
<1>8. Collected'
  <2>1. Read' = Groups(NowRead)
    <3>1. out' = out /\ readTo' = readTo + 1 /\ (readTo + 1) - 1 = readTo
      BY <1>1, <1>3 DEF trace
    <3>2. Stray' <=> Stray
      BY <3>1, NoLine
    <3> QED
      BY <3>1, <3>2 DEF Read, Answered, NowRead
  <2> QED
    BY <1>1, <1>2, <2>1, CollectedIs DEF Followed, Follows
<1>9. Counted'
  BY <1>1, <1>2, <1>4, CountedIs DEF Summed, IInv
<1> QED
  BY <1>5, <1>6, <1>7, <1>8, <1>9 DEF IInv

LEMMA ReadEofInv == ASSUME IInv, ReadEof PROVE IInv'
<1>1. Printed' /\ Collected' /\ Counted'
  <2>1. reader # "broken" /\ main' = main
    BY DEF ReadEof
  <2> QED
    BY <2>1, Still DEF ReadEof, input, trace
<1>2. TypeOK'
  BY TypeIs DEF Typed, ReadEof, IInv, input, trace
<1>3. Phases'
  BY DEF ReadEof, IInv, Phases, trace
<1>4. Causes'
  <2>1. (HopComplete' <=> HopComplete) /\ (Stray' <=> Stray)
    BY NoLine DEF ReadEof, trace
  <2> QED
    BY <2>1 DEF ReadEof, IInv, Causes, CutIsAdmitted, trace
<1> QED
  BY <1>1, <1>2, <1>3, <1>4 DEF IInv

LEMMA CancelInv == ASSUME IInv, Cancel PROVE IInv'
<1>1. Printed' /\ Collected' /\ Counted'
  BY Still DEF Cancel, input
<1>2. TypeOK'
  BY TypeIs DEF Typed, Cancel, IInv, input
<1>3. Phases'
  BY DEF Cancel, IInv, Phases
<1>4. Causes'
  <2>1. (HopComplete' <=> HopComplete) /\ (Stray' <=> Stray)
    BY NoLine DEF Cancel
  <2> QED
    BY <2>1 DEF Cancel, IInv, Causes, CutIsAdmitted
<1> QED
  BY <1>1, <1>2, <1>3, <1>4 DEF IInv

LEMMA TimeLimitInv == ASSUME IInv, TimeLimit PROVE IInv'
<1>1. Printed' /\ Collected' /\ Counted'
  BY Still DEF TimeLimit, input
<1>2. TypeOK'
  BY TypeIs DEF Typed, TimeLimit, AfterLimit, IInv, input
<1>3. Phases'
  BY DEF TimeLimit, AfterLimit, IInv, Phases
<1>4. Causes'
  <2>1. (HopComplete' <=> HopComplete) /\ (Stray' <=> Stray)
    BY NoLine DEF TimeLimit
  <2> QED
    BY <2>1 DEF TimeLimit, AfterLimit, IInv, Causes, CutIsAdmitted
<1> QED
  BY <1>1, <1>2, <1>3, <1>4 DEF IInv

\* Steps of the handler that only move it on, and those of the page.
LEMMA MoveInv ==
    ASSUME IInv, HearDisconnect \/ ProcessGone \/ Drained \/ ReaderFailed \/ PressStop \/ Leave \/ UNCHANGED vars
    PROVE  IInv'
<1>1. /\ UNCHANGED <<input, trace, readTo, hops, cancelled, reader, timedOut, summary>>
      /\ main' = main \/ (main # "done" /\ main' # "done")
  BY DEF HearDisconnect, ProcessGone, Drained, ReaderFailed, PressStop, Leave, vars, tasks
<1>2. Printed' /\ Collected' /\ Counted'
  BY <1>1, Still DEF input, trace
<1>3. TypeOK'
  <2>1. /\ listener' \in {listener, "ended"} /\ page' \in {page, "cancelling", "gone"}
        /\ main' \in {main, "drain", "flush", "failed"}
    BY DEF HearDisconnect, ProcessGone, Drained, ReaderFailed, PressStop, Leave, vars, tasks
  <2> QED
    BY <1>1, <2>1, TypeIs DEF Typed, IInv, input, trace
<1>4. Phases'
  BY <1>1 DEF HearDisconnect, ProcessGone, Drained, ReaderDone, ReaderFailed, PressStop, Leave, vars, tasks, IInv,
     Phases, trace
<1>5. Causes'
  <2>1. (HopComplete' <=> HopComplete) /\ (Stray' <=> Stray)
    BY <1>1, NoLine DEF trace
  <2> QED
    BY <1>1, <2>1 DEF IInv, Causes, CutIsAdmitted, trace
<1> QED
  BY <1>2, <1>3, <1>4, <1>5 DEF IInv

\* The last hop is sent with the summary.
LEMMA CompleteInv == ASSUME IInv, Complete PROVE IInv'
<1> DEFINE a == Flushed(hops)
<1>1. /\ main = "flush" /\ reader = "eof" /\ process = "exited" /\ listener = "ended"
      /\ UNCHANGED <<input, trace, readTo, cancelled, reader, listener, timedOut, page>>
      /\ \/ /\ main' = "done" /\ hops' = a
            /\ summary' = [hops |-> a.last, reached |-> a.reached, by |-> TerminatedBy]
         \/ main' = "failed" /\ UNCHANGED <<hops, summary>>
  BY DEF Complete, IInv, Phases
<1>2. hops \in HopsType /\ Numbered(hops) /\ MarkedOnce(hops)
  BY TypeIs, CountedIs DEF Typed, IInv
<1>3. a \in HopsType /\ Numbered(a) /\ MarkedOnce(a) /\ a.current.hop = 0
  <2>1. CASE hops.current.hop = 0
    BY <1>2, <2>1, FlushIdle
  <2>2. CASE hops.current.hop # 0
    BY <1>2, <2>2, FlushOpen, FlushNumbers, FlushMarks, NoHopType
  <2> QED
    BY <2>1, <2>2
<1>4. Read = SentOf(a)
  <2>1. CASE hops.current.hop = 0
    BY <1>1, <2>1, FlushIdle, CollectedIs DEF Followed, IInv
  <2>2. CASE hops.current.hop # 0
    BY <1>1, <1>2, <2>2, FlushSent, CollectedIs DEF Followed, IInv
  <2> QED
    BY <2>1, <2>2
<1> HIDE DEF a
<1>5. Printed' /\ Read' = Read /\ (HopComplete' <=> HopComplete) /\ (Stray' <=> Stray)
  BY <1>1, NoLine, NoRead DEF IInv, trace
<1>6. Phases'
  BY <1>1 DEF IInv, Phases, trace
<1>7. CASE main' = "failed" /\ UNCHANGED <<hops, summary>>
  <2>1. TypeOK'
    BY <1>1, <1>7, TypeIs DEF Typed, IInv, input, trace
  <2>2. Causes'
    BY <1>1, <1>5, <1>7 DEF IInv, Causes, CutIsAdmitted, trace
  <2>3. Collected' /\ Counted'
    BY <1>1, <1>5, <1>7, CollectedIs, CountedIs DEF Followed, Summed, IInv
  <2> QED
    BY <1>5, <1>6, <2>1, <2>2, <2>3 DEF IInv
<1>8. CASE main' = "done" /\ hops' = a /\ summary' = [hops |-> a.last, reached |-> a.reached, by |-> TerminatedBy]
  <2>1. TypeOK'
    <3>1. summary' \in [hops : 0..MaxHops, reached : BOOLEAN, by : {"none", "completed", "user", "max_duration"}]
      BY <1>3, <1>8 DEF HopsType, TerminatedBy
    <3> QED
      BY <1>1, <1>3, <1>8, <3>1, TypeIs DEF Typed, IInv, input, trace
  <2>2. Causes'
    BY <1>1, <1>5, <1>8 DEF IInv, Causes, CutIsAdmitted, TerminatedBy, trace
  <2>3. Collected'
    BY <1>1, <1>3, <1>4, <1>5, <1>8, CollectedIs DEF Followed
  <2>4. Counted'
    BY <1>3, <1>8, CountedIs DEF Summed
  <2> QED
    BY <1>5, <1>6, <2>1, <2>2, <2>3, <2>4 DEF IInv
<1> QED
  BY <1>1, <1>7, <1>8

LEMMA StepInv == ASSUME IInv, [Next]_vars PROVE IInv'
<1>1. ASSUME NEW items \in Lines, PrintLine(items) PROVE IInv'
  BY <1>1, PrintLineInv
<1>2. CASE EndByItself
  BY <1>2, EndByItselfInv
<1>3. CASE EndBySignal
  BY <1>3, EndBySignalInv
<1>4. CASE Reader
  BY <1>4, ReadLineInv, ReadEofInv DEF Reader
<1>5. CASE Cancel
  BY <1>5, CancelInv
<1>6. CASE TimeLimit \/ Complete
  BY <1>6, TimeLimitInv, CompleteInv
<1>7. CASE HearDisconnect \/ ProcessGone \/ Drained \/ ReaderFailed \/ PressStop \/ Leave \/ UNCHANGED vars
  BY <1>7, MoveInv
<1> QED
  BY <1>1, <1>2, <1>3, <1>4, <1>5, <1>6, <1>7 DEF Next, Process, Handler

LEMMA Invariant == Spec => []IInv
<1>1. Init => IInv
  BY Starts
<1>2. IInv /\ [Next]_vars => IInv'
  BY StepInv
<1> QED
  BY <1>1, <1>2, PTL DEF Spec

-----------------------------------------------------------------------------
(* What follows *)

\* The variables keep their types: the run's target is an address, and hops are
\* numbered within max_distance.
THEOREM TypeCorrect == Spec => []TypeOK
<1>1. IInv => TypeOK
  BY DEF IInv
<1> QED
  BY <1>1, Invariant, PTL

\* A run that is told completed was never cut short: no deadline and no signal ended
\* it, so traceroute ended after the last probe of a hop.
THEOREM OnlyWholeRunsComplete == Spec => []CutIsAdmitted
<1>1. IInv => CutIsAdmitted
  BY DEF IInv, Causes
<1> QED
  BY <1>1, Invariant, PTL

\* No run traces a blocked address, whatever the zones answer along the aliases.
THEOREM NeverPrivate == Spec => []TargetIsPublic
<1>1. Init => TargetIsPublic
  BY TracedIsPublic DEF Init, TargetIsPublic
<1>2. TargetIsPublic /\ [Next]_vars => TargetIsPublic'
  BY DEF TargetIsPublic, Next, Process, PrintLine, EndByItself, EndBySignal, Reader, ReadLine, ReadEof, Cancel,
     HearDisconnect, Handler, TimeLimit, ProcessGone, Drained, ReaderFailed, Complete, PressStop, Leave, vars, input
<1> QED
  BY <1>1, <1>2, PTL DEF Spec

\* The safety half of KeepsContract: the handler says its last word once, and only
\* when its process has ended.
THEOREM KeepsItsWord == Spec => Contract!Init /\ [][Contract!Next]_(Contract!vars)
<1>1. Init => Contract!Init
  BY DEF Init, Contract!Init
<1>2. IInv /\ [Next]_vars => [Contract!Next]_(Contract!vars)
  <2> SUFFICES ASSUME IInv, [Next]_vars PROVE [Contract!Next]_(Contract!vars)
    OBVIOUS
  <2>1. CASE process = "exited"
    <3>1. process' = "exited"
      BY <2>1 DEF Next, vars, Process, Reader, Handler, PrintLine, EndByItself, EndBySignal, ReadLine, ReadEof,
                  Cancel, HearDisconnect, TimeLimit, AfterLimit, ProcessGone, Drained, ReaderFailed, Complete,
                  PressStop, Leave, trace
    <3>2. main' = main \/ (main \notin {"done", "failed"} /\ main' \in {"kill", "drain", "flush", "done", "failed"})
      BY DEF Next, vars, Process, Reader, Handler, PrintLine, EndByItself, EndBySignal, ReadLine, ReadEof,
             Cancel, HearDisconnect, TimeLimit, ProcessGone, Drained, ReaderFailed, Complete, PressStop, Leave, tasks
    <3> QED
      BY <2>1, <3>1, <3>2 DEF Contract!Next, Contract!Conclude, Contract!vars
  <2>2. CASE process # "exited"
    <3>1. main \in {"wait", "kill"}
      BY <2>2 DEF IInv, Phases, TypeOK
    <3>2. main' \in {"wait", "kill"}
      BY <2>2, <3>1 DEF Next, vars, Process, Reader, Handler, PrintLine, EndByItself, EndBySignal, ReadLine,
             ReadEof, Cancel, HearDisconnect, TimeLimit, ProcessGone, Drained, ReaderFailed, Complete, PressStop,
             Leave, tasks
    <3> QED
      BY <2>2, <3>1, <3>2 DEF Contract!Next, Contract!Exit, Contract!vars
  <2> QED
    BY <2>1, <2>2
<1> QED
  BY <1>1, <1>2, Invariant, PTL DEF Spec

LEMMA WholeIs == Whole = [k \in DOMAIN Read |-> Shown(Read[k])]
<1> DEFINE all == ParseOutput(Answered)
<1>1. all = [k \in DOMAIN Read |-> Hop(Read[k].hop, Read[k].items)]
  BY DEF ParseOutput, Read
<1> HIDE DEF all
<1>2. DOMAIN all = DOMAIN Read /\ \A k \in DOMAIN Read : all[k] = Hop(Read[k].hop, Read[k].items)
  BY <1>1
<1>3. Whole = [k \in DOMAIN all |-> IF ShowPrivate THEN all[k] ELSE Masked[all[k]]]
  BY DEF Whole, all
<1> QED
  BY <1>2, <1>3 DEF Shown

LEMMA PageIs ==
    ASSUME TypeOK
    PROVE  Page = [k \in DOMAIN SentOf(hops) |-> Shown(SentOf(hops)[k])]
<1> DEFINE n == Len(hops.sent)
           s == SentOf(hops)
<1>1. hops.sent \in Seq(SentType)
  BY TypeIs DEF Typed, HopsType
<1>2. /\ n \in Nat /\ DOMAIN hops.sent = 1..n /\ s \in Seq(LineType) /\ Len(s) = n
      /\ \A k \in 1..n : s[k] = [hop |-> hops.sent[k].hop, items |-> hops.sent[k].items]
  BY <1>1, SentSeq
<1>3. DOMAIN s = 1..n
  BY <1>2, LenProperties
<1> HIDE DEF n, s
<1>4. \A k \in 1..n : s[k].hop = hops.sent[k].hop /\ s[k].items = hops.sent[k].items
  BY <1>2
<1>5. \A k \in 1..n : Shown(s[k]) = Shown(hops.sent[k])
  BY <1>4 DEF Shown
<1> QED
  BY <1>2, <1>3, <1>5 DEF Page, s

LEMMA BeginsWith ==
    ASSUME NEW n \in Nat, NEW m \in Nat, n <= m, NEW f, NEW g, Listing(f, n), Listing(g, m),
           \A i \in 1..n : f[i] = g[i]
    PROVE  IsPrefix(f, g)
<1> DEFINE X == {f[i] : i \in 1..n}
           Y == {g[i] : i \in 1..m}
           Z == X \cup Y
<1>1. f \in Seq(X) /\ Len(f) = n /\ g \in Seq(Y) /\ Len(g) = m
  BY AnySeq
<1>2. X \subseteq Z /\ Y \subseteq Z
  OBVIOUS
<1> HIDE DEF X, Y, Z
<1>3. f \in Seq(Z) /\ g \in Seq(Z)
  BY <1>1, <1>2, SeqMonotonic
<1> DEFINE p == SubSeq(f, 1, n)
           q == SubSeq(g, 1, n)
<1>4. n \in 0..n /\ n \in 0..m
  OBVIOUS
<1>5. p \in Seq(Z) /\ Len(p) = n /\ \A i \in 1..n : p[i] = f[i]
  BY <1>1, <1>3, <1>4, PrefixIs
<1>6. q \in Seq(Z) /\ Len(q) = n /\ \A i \in 1..n : q[i] = g[i]
  BY <1>1, <1>3, <1>4, PrefixIs
<1> HIDE DEF p, q
<1>7. \A i \in 1..n : p[i] = q[i]
  BY <1>5, <1>6
<1>8. p = q
  BY <1>5, <1>6, <1>7, SeqEqual
<1> QED
  BY <1>1, <1>8 DEF IsPrefix, p, q

\* What the page has is what it would have of what was read, but for the hop that is
\* being collected.
LEMMA PageBegins == ASSUME IInv, reader # "broken" PROVE IsPrefix(Page, Whole) /\ (hops.current.hop = 0 => Page = Whole)
<1> DEFINE s == SentOf(hops)
           n == Len(hops.sent)
           m == n + 1
<1>1. TypeOK /\ hops.sent \in Seq(SentType) /\ hops.current \in LineType
  BY TypeIs DEF IInv, Typed, HopsType
<1>2. n \in Nat /\ s \in Seq(LineType) /\ Len(s) = n
  BY <1>1, SentSeq
<1>3. DOMAIN s = 1..n
  BY <1>2, LenProperties
<1> DEFINE f == Page
           g == Whole
<1>4. f = [k \in 1..n |-> Shown(s[k])]
  BY <1>1, <1>3, PageIs
<1>5. CASE hops.current.hop = 0
  <2>1. Read = s
    BY <1>5, CollectedIs DEF IInv, Followed
  <2>2. g = [k \in 1..n |-> Shown(s[k])]
    BY <2>1, <1>3, WholeIs
  <2>3. f = g /\ Listing(f, n) /\ \A i \in 1..n : f[i] = g[i]
    BY <1>4, <2>2 DEF Listing
  <2> HIDE DEF f, g, n
  <2>4. IsPrefix(f, g)
    BY <2>3, <1>2, BeginsWith
  <2> QED
    BY <2>3, <2>4 DEF f, g
<1>6. CASE hops.current.hop # 0
  <2> DEFINE t == Append(s, hops.current)
  <2>1. Read = t
    BY <1>6, CollectedIs DEF IInv, Followed
  <2>2. t \in Seq(LineType) /\ Len(t) = m /\ \A i \in 1..n : t[i] = s[i]
    BY <1>1, <1>2, AppendProperties
  <2>3. DOMAIN t = 1..m
    BY <2>2, LenProperties
  <2> HIDE DEF t
  <2>4. g = [k \in 1..m |-> Shown(t[k])]
    BY <2>1, <2>3, WholeIs
  <2>5. m \in Nat /\ n <= m /\ \A i \in 1..n : i \in 1..m
    BY <1>2
  <2> HIDE DEF f, g, n, m, s
  <2>6. Listing(f, n) /\ Listing(g, m)
    BY <1>4, <2>4 DEF Listing
  <2>7. \A i \in 1..n : f[i] = g[i]
    BY <1>4, <2>2, <2>4, <2>5
  <2>8. IsPrefix(f, g)
    BY <2>5, <2>6, <2>7, <1>2, BeginsWith
  <2> QED
    BY <1>6, <2>8 DEF f, g
<1> QED
  BY <1>5, <1>6

\* Hops sent one at a time are those the HTTP tool would answer with of the whole
\* output, but for the number a cut may leave of a hop: none lost, repeated or cut
\* short, whoever ends the process and when.
THEOREM StreamIsWhole == Spec => []SameAsWhole
<1>1. IInv => SameAsWhole
  <2> SUFFICES ASSUME IInv PROVE SameAsWhole
    OBVIOUS
  <2>1. reader # "broken" => IsPrefix(Page, Whole)
    BY PageBegins
  <2>2. main = "done" => reader # "broken" /\ hops.current.hop = 0
    BY CountedIs DEF IInv, Phases, Summed
  <2>3. main = "done" => Page = Whole
    BY <2>2, PageBegins
  <2> QED
    BY <2>1, <2>3 DEF SameAsWhole
<1> QED
  BY <1>1, Invariant, PTL

-----------------------------------------------------------------------------
(* What the page gets of a hop *)

Statuses == {"ok", "timeout"}
PathType == [ip : Addresses \cup {NoAddress}, hostname : {"asPrinted", "none"}, probes : Seq(Statuses)]

LEMMA ListSeq ==
    ASSUME NEW n \in Nat, NEW f, Listing(f, n), NEW S, \A i \in 1..n : f[i] \in S
    PROVE  f \in Seq(S) /\ Len(f) = n /\ DOMAIN f = 1..n
<1>1. f \in [1..n -> S]
  BY DEF Listing
<1>2. f \in Seq(S)
  BY <1>1, SeqDef
<1> QED
  BY <1>1, <1>2, LenProperties

\* The positions picked of a sequence.
LEMMA Picked ==
    ASSUME NEW n \in Nat, NEW S, S \subseteq 1..n
    PROVE  /\ Len(InOrder[S]) \in Nat /\ DOMAIN InOrder[S] = 1..Len(InOrder[S])
           /\ \A k \in 1..Len(InOrder[S]) : InOrder[S][k] \in S
           /\ \A i \in S : \E k \in 1..Len(InOrder[S]) : InOrder[S][k] = i
<1>1. Positions(S)
  BY InInterval
<1>2. InOrder[S] \in Seq(S) /\ Len(InOrder[S]) = Cardinality(S) /\ Cardinality(S) \in Nat
      /\ DOMAIN InOrder[S] = 1..Cardinality(S)
  BY <1>1, InOrderSeq
<1>3. \A k \in 1..Len(InOrder[S]) : InOrder[S][k] \in S
  BY <1>2, ElementOfSeq
<1>4. \A i \in S : \E k \in 1..Len(InOrder[S]) : InOrder[S][k] = i
  BY <1>1, <1>2, InOrderOnto
<1> QED
  BY <1>2, <1>3, <1>4

LEMMA ItemsAre ==
    ASSUME NEW items \in Seq(Items)
    PROVE  /\ Len(items) \in Nat /\ DOMAIN items = 1..Len(items)
           /\ \A i \in 1..Len(items) : items[i] \in Items
BY LenProperties, ElementOfSeq

LEMMA WhoIsAddress == ASSUME NEW item \in Items, IsWho(item) PROVE item.of \in Addresses
BY DEF Items, IsWho

LEMMA ProbesAtIn ==
    ASSUME NEW items \in Seq(Items)
    PROVE  LET at == ProbesAt(items)
           IN  /\ Len(at) \in Nat /\ DOMAIN at = 1..Len(at)
               /\ \A k \in 1..Len(at) : at[k] \in 1..Len(items) /\ IsProbe(items[at[k]])
               /\ \A i \in 1..Len(items) : IsProbe(items[i]) => \E k \in 1..Len(at) : at[k] = i
<1> DEFINE S == {i \in DOMAIN items : IsProbe(items[i])}
<1>1. Len(items) \in Nat /\ DOMAIN items = 1..Len(items) /\ S \subseteq 1..Len(items)
  BY ItemsAre
<1>2. ProbesAt(items) = InOrder[S]
  BY DEF ProbesAt
<1>3. \A i \in 1..Len(items) : (i \in S) <=> IsProbe(items[i])
  BY <1>1
<1> HIDE DEF S
<1>4. /\ Len(InOrder[S]) \in Nat /\ DOMAIN InOrder[S] = 1..Len(InOrder[S])
      /\ \A k \in 1..Len(InOrder[S]) : InOrder[S][k] \in S
      /\ \A i \in S : \E k \in 1..Len(InOrder[S]) : InOrder[S][k] = i
  BY <1>1, Picked
<1> QED
  BY <1>1, <1>2, <1>3, <1>4

LEMMA ProbesAre ==
    ASSUME NEW items \in Seq(Items)
    PROVE  Probes(items) \in Seq(Statuses) /\ Len(Probes(items)) = Len(ProbesAt(items))
<1> DEFINE n == Len(ProbesAt(items))
           f == Probes(items)
<1>1. n \in Nat /\ DOMAIN ProbesAt(items) = 1..n
  BY ProbesAtIn
<1> HIDE DEF n
<1>2. f = [k \in 1..n |-> Status(items[ProbesAt(items)[k]])]
  BY <1>1 DEF Probes
<1>3. \A k \in 1..n : f[k] \in Statuses
  BY <1>2 DEF Status, Statuses
<1>4. Listing(f, n)
  BY <1>2 DEF Listing
<1> HIDE DEF f
<1> QED
  BY <1>1, <1>3, <1>4, ListSeq DEF f, n

LEMMA DistinctSeq ==
    ASSUME NEW S, NEW seq \in Seq(S)
    PROVE  Distinct(seq) \in Seq(S)
<1> DEFINE F == {i \in DOMAIN seq : \A j \in 1..(i - 1) : seq[j] # seq[i]}
           o == InOrder[F]
           n == Len(o)
           f == Distinct(seq)
<1>1. Len(seq) \in Nat /\ DOMAIN seq = 1..Len(seq) /\ F \subseteq 1..Len(seq)
  BY LenProperties
<1> HIDE DEF F
<1>2. n \in Nat /\ DOMAIN o = 1..n /\ \A k \in 1..n : o[k] \in F
  BY <1>1, Picked
<1>3. f = [k \in DOMAIN o |-> seq[o[k]]]
  BY DEF Distinct, F
<1> HIDE DEF o, n, f
<1>4. \A k \in 1..n : f[k] \in S
  BY <1>1, <1>2, <1>3, ElementOfSeq
<1>5. Listing(f, n)
  BY <1>2, <1>3 DEF Listing
<1>6. f \in Seq(S)
  BY <1>2, <1>4, <1>5, ListSeq
<1> QED
  BY <1>6 DEF f

\* Who answered, named or not, in the order they are printed.
Speakers(items) == InOrder[{i \in DOMAIN items : IsWho(items[i])}]
Speaking(items) == [k \in DOMAIN Speakers(items) |-> items[Speakers(items)[k]].of]

LEMMA IpListIs == ASSUME NEW items PROVE IpList(items) = Distinct(Speaking(items))
BY DEF IpList, Speaking, Speakers

LEMMA SpeakersIn ==
    ASSUME NEW items \in Seq(Items)
    PROVE  LET at == Speakers(items)
           IN  /\ Len(at) \in Nat /\ DOMAIN at = 1..Len(at)
               /\ \A k \in 1..Len(at) : at[k] \in 1..Len(items) /\ IsWho(items[at[k]])
               /\ \A i \in 1..Len(items) : IsWho(items[i]) => \E k \in 1..Len(at) : at[k] = i
<1> DEFINE S == {i \in DOMAIN items : IsWho(items[i])}
<1>1. Len(items) \in Nat /\ DOMAIN items = 1..Len(items) /\ S \subseteq 1..Len(items)
  BY ItemsAre
<1>2. Speakers(items) = InOrder[S]
  BY DEF Speakers
<1>3. \A i \in 1..Len(items) : (i \in S) <=> IsWho(items[i])
  BY <1>1
<1> HIDE DEF S
<1>4. /\ Len(InOrder[S]) \in Nat /\ DOMAIN InOrder[S] = 1..Len(InOrder[S])
      /\ \A k \in 1..Len(InOrder[S]) : InOrder[S][k] \in S
      /\ \A i \in S : \E k \in 1..Len(InOrder[S]) : InOrder[S][k] = i
  BY <1>1, Picked
<1> QED
  BY <1>1, <1>2, <1>3, <1>4

LEMMA SpeakingSeq ==
    ASSUME NEW items \in Seq(Items)
    PROVE  Speaking(items) \in Seq(Addresses) /\ Len(Speaking(items)) = Len(Speakers(items))
<1> DEFINE o == Speakers(items)
           n == Len(o)
           f == Speaking(items)
<1>1. n \in Nat /\ DOMAIN o = 1..n /\ \A k \in 1..n : o[k] \in 1..Len(items) /\ IsWho(items[o[k]])
  BY SpeakersIn
<1>2. f = [k \in DOMAIN o |-> items[o[k]].of]
  BY DEF Speaking
<1> HIDE DEF o, n, f
<1>3. \A k \in 1..n : items[o[k]] \in Items
  BY <1>1, ItemsAre
<1>4. \A k \in 1..n : f[k] \in Addresses
  BY <1>1, <1>2, <1>3, WhoIsAddress
<1>5. Listing(f, n)
  BY <1>1, <1>2 DEF Listing
<1>6. f \in Seq(Addresses) /\ Len(f) = n
  BY <1>1, <1>4, <1>5, ListSeq
<1> QED
  BY <1>6 DEF f, n, o

LEMMA IpListSeq == ASSUME NEW items \in Seq(Items) PROVE IpList(items) \in Seq(Addresses)
BY IpListIs, SpeakingSeq, DistinctSeq

\* Whose a probe is: who spoke last before it.
SpokeBefore(items, i) == {j \in 1..i : items[j].kind = "address"}
Owner(items, i) == IF SpokeBefore(items, i) = {} THEN IpList(items)[1] ELSE items[Max(SpokeBefore(items, i))].of

ProbeOf(items, i) == [of |-> Owner(items, i), status |-> Status(items[i])]
ProbeType == [of : Addresses, status : Statuses]

LEMMA AssignedIs ==
    ASSUME NEW items
    PROVE  Assigned(items) = [k \in DOMAIN ProbesAt(items) |-> ProbeOf(items, ProbesAt(items)[k])]
BY DEF Assigned, ProbeOf, Owner, SpokeBefore

LEMMA MaxIn ==
    ASSUME NEW n \in Nat, NEW T \in SUBSET (0..n), T # {}
    PROVE  Max(T) \in T /\ \A y \in T : Max(T) >= y
<1> DEFINE U == {b \in Nat : \A y \in T : b >= y}
<1>1. n \in U
  OBVIOUS
<1>2. PICK b \in U : \A c \in U : b <= c
  BY <1>1, Smallest
<1>3. b \in T
  <2> SUFFICES ASSUME b \notin T PROVE FALSE
    OBVIOUS
  <2>1. PICK y \in T : TRUE
    OBVIOUS
  <2>2. b # 0
    BY <2>1
  <2>3. b - 1 \in U
    BY <2>2
  <2> QED
    BY <1>2, <2>3
<1> QED
  BY <1>2, <1>3 DEF Max

LEMMA LastSpeaker ==
    ASSUME NEW items \in Seq(Items), NEW i \in 1..Len(items), SpokeBefore(items, i) # {}
    PROVE  LET j == Max(SpokeBefore(items, i))
           IN  j \in 1..i /\ j \in 1..Len(items) /\ items[j].kind = "address" /\ Owner(items, i) = items[j].of
               /\ \A h \in 1..i : items[h].kind = "address" => h <= j
<1> DEFINE T == SpokeBefore(items, i)
           j == Max(T)
<1>1. i \in Nat /\ T \in SUBSET (0..i) /\ Len(items) \in Nat
  BY ItemsAre DEF SpokeBefore
<1>2. \A h : h \in T <=> h \in 1..i /\ items[h].kind = "address"
  BY DEF SpokeBefore
<1>3. Owner(items, i) = items[j].of
  BY DEF Owner
<1> HIDE DEF T
<1>4. j \in T /\ \A y \in T : j >= y
  BY <1>1, MaxIn DEF T
<1> HIDE DEF j
<1>5. j \in 1..i /\ items[j].kind = "address" /\ \A h \in 1..i : items[h].kind = "address" => h <= j
  BY <1>1, <1>2, <1>4
<1>6. j \in 1..Len(items)
  BY <1>1, <1>5
<1> QED
  BY <1>3, <1>5, <1>6 DEF j, T

LEMMA OwnerIsAddress ==
    ASSUME NEW items \in Seq(Items), Len(IpList(items)) > 1, NEW i \in 1..Len(items)
    PROVE  Owner(items, i) \in Addresses
<1>1. CASE SpokeBefore(items, i) = {}
  <2>1. Owner(items, i) = IpList(items)[1]
    BY <1>1 DEF Owner
  <2>2. IpList(items) \in Seq(Addresses) /\ 1 \in 1..Len(IpList(items))
    BY IpListSeq, LenProperties
  <2> QED
    BY <2>1, <2>2, ElementOfSeq
<1>2. CASE SpokeBefore(items, i) # {}
  <2>1. PICK j \in 1..Len(items) : items[j].kind = "address" /\ Owner(items, i) = items[j].of
    BY <1>2, LastSpeaker
  <2>2. items[j] \in Items /\ IsWho(items[j])
    BY <2>1, ItemsAre DEF IsWho
  <2> QED
    BY <2>1, <2>2, WhoIsAddress
<1> QED
  BY <1>1, <1>2

LEMMA ProbeOfType ==
    ASSUME NEW items, NEW i, Owner(items, i) \in Addresses
    PROVE  ProbeOf(items, i) \in ProbeType /\ ProbeOf(items, i).of = Owner(items, i)
<1>1. Status(items[i]) \in Statuses
  BY DEF Status, Statuses
<1> QED
  BY <1>1 DEF ProbeOf, ProbeType

LEMMA AssignedSeq ==
    ASSUME NEW items \in Seq(Items), Len(IpList(items)) > 1
    PROVE  /\ Assigned(items) \in Seq(ProbeType) /\ Len(Assigned(items)) = Len(ProbesAt(items))
           /\ \A k \in 1..Len(ProbesAt(items)) : Assigned(items)[k].of = Owner(items, ProbesAt(items)[k])
<1> DEFINE o == ProbesAt(items)
           n == Len(o)
           f == Assigned(items)
<1>1. n \in Nat /\ DOMAIN o = 1..n /\ \A k \in 1..n : o[k] \in 1..Len(items)
  BY ProbesAtIn
<1>2. f = [k \in DOMAIN o |-> ProbeOf(items, o[k])]
  BY AssignedIs
<1> HIDE DEF o, n, f
<1>3. \A k \in 1..n : f[k] = ProbeOf(items, o[k])
  BY <1>1, <1>2
<1>4. \A k \in 1..n : Owner(items, o[k]) \in Addresses
  BY <1>1, OwnerIsAddress
<1>5. \A k \in 1..n : f[k] \in ProbeType /\ f[k].of = Owner(items, o[k])
  BY <1>3, <1>4, ProbeOfType
<1>6. Listing(f, n)
  BY <1>1, <1>2 DEF Listing
<1>7. f \in Seq(ProbeType) /\ Len(f) = n
  BY <1>1, <1>5, <1>6, ListSeq
<1> QED
  BY <1>5, <1>7 DEF f, n, o

\* The addresses the probes fell to, and the probes of one address.
Owners(probes) == [k \in DOMAIN probes |-> probes[k].of]
Mine(probes, ip) == InOrder[{i \in DOMAIN probes : probes[i].of = ip}]
PathOf(probes, ip) ==
    [ip |-> ip, hostname |-> "asPrinted", probes |-> [n \in DOMAIN Mine(probes, ip) |-> probes[Mine(probes, ip)[n]].status]]

LEMMA PathsAre ==
    ASSUME NEW probes \in Seq(ProbeType)
    PROVE  Paths[probes] = [k \in DOMAIN Distinct(Owners(probes)) |-> PathOf(probes, Distinct(Owners(probes))[k])]
BY DEF Paths, ProbeType, Statuses, PathOf, Mine, Owners

LEMMA OwnersSeq ==
    ASSUME NEW probes \in Seq(ProbeType)
    PROVE  /\ Owners(probes) \in Seq(Addresses) /\ Len(Owners(probes)) = Len(probes)
           /\ \A k \in 1..Len(probes) : Owners(probes)[k] = probes[k].of
<1> DEFINE n == Len(probes)
           f == Owners(probes)
<1>1. n \in Nat /\ DOMAIN probes = 1..n /\ \A k \in 1..n : probes[k] \in ProbeType
  BY LenProperties, ElementOfSeq
<1> HIDE DEF n
<1>2. f = [k \in 1..n |-> probes[k].of]
  BY <1>1 DEF Owners
<1> HIDE DEF f
<1>3. \A k \in 1..n : f[k] = probes[k].of /\ f[k] \in Addresses
  BY <1>1, <1>2 DEF ProbeType
<1>4. Listing(f, n)
  BY <1>2 DEF Listing
<1>5. f \in Seq(Addresses) /\ Len(f) = n
  BY <1>1, <1>3, <1>4, ListSeq
<1> QED
  BY <1>3, <1>5 DEF f, n

LEMMA PathOfType ==
    ASSUME NEW probes \in Seq(ProbeType), NEW ip \in Addresses
    PROVE  PathOf(probes, ip) \in PathType
<1> DEFINE S == {i \in DOMAIN probes : probes[i].of = ip}
           o == Mine(probes, ip)
           n == Len(o)
           f == [k \in DOMAIN o |-> probes[o[k]].status]
<1>1. Len(probes) \in Nat /\ DOMAIN probes = 1..Len(probes) /\ S \subseteq 1..Len(probes)
  BY LenProperties
<1>2. o = InOrder[S]
  BY DEF Mine
<1> HIDE DEF S, o
<1>3. n \in Nat /\ DOMAIN o = 1..n /\ \A k \in 1..n : o[k] \in 1..Len(probes)
  BY <1>1, <1>2, Picked
<1>4. \A k \in 1..n : probes[o[k]] \in ProbeType
  BY <1>3, ElementOfSeq
<1> HIDE DEF n
<1>5. \A k \in 1..n : f[k] \in Statuses
  BY <1>3, <1>4 DEF ProbeType
<1>6. Listing(f, n)
  BY <1>3 DEF Listing
<1>7. PathOf(probes, ip) = [ip |-> ip, hostname |-> "asPrinted", probes |-> f]
  BY DEF PathOf, o
<1> HIDE DEF f
<1>8. f \in Seq(Statuses)
  BY <1>3, <1>5, <1>6, ListSeq
<1> QED
  BY <1>7, <1>8 DEF PathType

LEMMA PathOfIp == ASSUME NEW probes, NEW ip PROVE PathOf(probes, ip).ip = ip
BY DEF PathOf

LEMMA PathsType ==
    ASSUME NEW probes \in Seq(ProbeType)
    PROVE  LET ips == Distinct(Owners(probes))
           IN  /\ Paths[probes] \in Seq(PathType) /\ ips \in Seq(Addresses)
               /\ Len(Paths[probes]) = Len(ips)
               /\ \A k \in 1..Len(ips) : Paths[probes][k].ip = ips[k]
<1> DEFINE ips == Distinct(Owners(probes))
           n == Len(ips)
           f == Paths[probes]
<1>1. ips \in Seq(Addresses)
  BY OwnersSeq, DistinctSeq
<1>2. f = [k \in DOMAIN ips |-> PathOf(probes, ips[k])]
  BY PathsAre
<1> HIDE DEF ips, f
<1>3. n \in Nat /\ DOMAIN ips = 1..n /\ \A k \in 1..n : ips[k] \in Addresses
  BY <1>1, LenProperties, ElementOfSeq
<1> HIDE DEF n
<1>4. \A k \in 1..n : f[k] = PathOf(probes, ips[k])
  BY <1>2, <1>3
<1>5. ASSUME NEW k \in 1..n PROVE f[k] \in PathType
  <2>1. ips[k] \in Addresses /\ f[k] = PathOf(probes, ips[k])
    BY <1>3, <1>4
  <2> QED
    BY <2>1, PathOfType
<1>6. \A k \in 1..n : f[k].ip = ips[k]
  BY <1>4, PathOfIp
<1>7. Listing(f, n)
  BY <1>2, <1>3 DEF Listing
<1>8. f \in Seq(PathType) /\ Len(f) = n
  BY <1>3, <1>5, <1>7, ListSeq
<1> QED
  BY <1>1, <1>6, <1>8 DEF ips, f, n

\* A hop of one router at most is one path.
Single(items) ==
    LET ips == IpList(items)
        all == Probes(items)
    IN  IF Len(ips) = 1 THEN [ip |-> ips[1], hostname |-> "asPrinted", probes |-> all]
        ELSE [ip |-> NoAddress, hostname |-> "none",
              probes |-> IF all = <<>> THEN <<"timeout", "timeout", "timeout">> ELSE all]

PathsOf(items) == IF Len(IpList(items)) > 1 THEN Paths[Assigned(items)] ELSE << Single(items) >>

LEMMA HopOfMany ==
    ASSUME NEW num, NEW items \in Seq(Items), Len(IpList(items)) > 1
    PROVE  Hop(num, items) = [hop |-> num, multipath |-> TRUE, paths |-> PathsOf(items)]
<1>1. IpList(items) \in Seq(Addresses)
  BY IpListSeq
<1>2. Len(IpList(items)) \in Nat
  BY <1>1, LenProperties
<1> DEFINE n == Len(IpList(items))
           p == Paths[Assigned(items)]
           one(ip, hostname, probes) ==
               [hop |-> num, multipath |-> FALSE,
                paths |-> << [ip |-> ip, hostname |-> hostname, probes |-> probes] >>]
           a == one(IpList(items)[1], "asPrinted", Probes(items))
           b == one(NoAddress, "none",
                    IF Probes(items) = <<>> THEN <<"timeout", "timeout", "timeout">> ELSE Probes(items))
<1>4. Hop(num, items) =
          CASE n > 1 -> [hop |-> num, multipath |-> TRUE, paths |-> p] [] n = 1 -> a [] OTHER -> b
  BY DEF Hop
<1>5. PathsOf(items) = p
  BY DEF PathsOf
<1>6. n \in Nat /\ n > 1
  BY <1>2
<1> HIDE DEF n, p, a, b
<1>7. n # 1
  BY <1>6
<1> QED
  BY <1>4, <1>5, <1>6, <1>7

LEMMA HopOfOne ==
    ASSUME NEW num, NEW items \in Seq(Items), ~(Len(IpList(items)) > 1)
    PROVE  Hop(num, items) = [hop |-> num, multipath |-> FALSE, paths |-> PathsOf(items)]
<1>1. CASE Len(IpList(items)) = 1
  BY <1>1 DEF Hop, PathsOf, Single
<1>2. CASE Len(IpList(items)) # 1
  BY <1>2 DEF Hop, PathsOf, Single
<1> QED
  BY <1>1, <1>2

LEMMA SingleType ==
    ASSUME NEW items \in Seq(Items), ~(Len(IpList(items)) > 1)
    PROVE  Single(items) \in PathType
<1>1. Probes(items) \in Seq(Statuses)
  BY ProbesAre
<1>2. <<"timeout", "timeout", "timeout">> \in Seq(Statuses)
  BY DEF Statuses
<1>3. Len(IpList(items)) = 1 => IpList(items)[1] \in Addresses
  <2>1. IpList(items) \in Seq(Addresses)
    BY IpListSeq
  <2>2. Len(IpList(items)) = 1 => 1 \in 1..Len(IpList(items))
    OBVIOUS
  <2> QED
    BY <2>1, <2>2, ElementOfSeq
<1> HIDE DEF Statuses
<1> QED
  BY <1>1, <1>2, <1>3 DEF Single, PathType

LEMMA OneOf == ASSUME NEW S, NEW e \in S PROVE << e >> \in Seq(S) /\ Len(<< e >>) = 1 /\ << e >>[1] = e
OBVIOUS

LEMMA PathsOfSeq == ASSUME NEW items \in Seq(Items) PROVE PathsOf(items) \in Seq(PathType)
<1>1. CASE Len(IpList(items)) > 1
  BY <1>1, AssignedSeq, PathsType DEF PathsOf
<1>2. CASE ~(Len(IpList(items)) > 1)
  BY <1>2, SingleType, OneOf DEF PathsOf
<1> QED
  BY <1>1, <1>2

LEMMA HopDataIs == HopData = [hop : Nat, multipath : BOOLEAN, paths : Seq(PathType)]
BY DEF HopData, PathType, Statuses

LEMMA HopType == ASSUME NEW num \in Nat, NEW items \in Seq(Items) PROVE Hop(num, items) \in HopData
<1> DEFINE S == Seq(PathType)
           p == PathsOf(items)
           R == [hop : Nat, multipath : BOOLEAN, paths : S]
<1>1. p \in S
  BY PathsOfSeq
<1>2. HopData = R
  BY HopDataIs
<1> HIDE DEF p, S
<1>3. [hop |-> num, multipath |-> TRUE, paths |-> p] \in R /\ [hop |-> num, multipath |-> FALSE, paths |-> p] \in R
  BY <1>1
<1>4. \/ Hop(num, items) = [hop |-> num, multipath |-> TRUE, paths |-> p]
      \/ Hop(num, items) = [hop |-> num, multipath |-> FALSE, paths |-> p]
  BY HopOfMany, HopOfOne DEF p
<1> HIDE DEF R
<1> QED
  BY <1>2, <1>3, <1>4

\* What a hop shows when private addresses are hidden.
Covered(data) == [k \in DOMAIN data.paths |-> MaskedPath(data.paths[k])]
AllHidden(data) == data.multipath /\ \A k \in DOMAIN Covered(data) : Covered(data)[k].ip = Hidden
OneHidden(data) ==
    [ip |-> Hidden, hostname |-> "none", probes |-> FlattenSeq([k \in DOMAIN Covered(data) |-> Covered(data)[k].probes])]

LEMMA MaskedIs ==
    ASSUME NEW data \in HopData
    PROVE  Masked[data].paths = IF AllHidden(data) THEN << OneHidden(data) >> ELSE Covered(data)
<1>1. Masked[data] = IF AllHidden(data) THEN [data EXCEPT !.multipath = FALSE, !.paths = << OneHidden(data) >>]
                     ELSE [data EXCEPT !.paths = Covered(data)]
  BY DEF Masked, AllHidden, Covered, OneHidden
<1>2. data \in [hop : Nat, multipath : BOOLEAN, paths : Seq(PathType)]
  BY HopDataIs
<1> DEFINE o == << OneHidden(data) >>
           c == Covered(data)
<1> HIDE DEF o, c
<1>3. [data EXCEPT !.multipath = FALSE, !.paths = o].paths = o /\ [data EXCEPT !.paths = c].paths = c
  BY <1>2
<1> QED
  BY <1>1, <1>3 DEF o, c

LEMMA CoveredPath ==
    ASSUME NEW path \in PathType
    PROVE  LET shown == MaskedPath(path)
           IN  shown.ip \notin Private /\ (shown.ip = Hidden => shown.hostname = "none")
<1>1. path.ip \in Addresses \cup {NoAddress}
  BY DEF PathType
<1>2. path.ip # Hidden /\ Hidden \notin Private
  BY <1>1, OutputAssumption
<1>3. CASE path.ip \in Private
  <2> DEFINE shown == [path EXCEPT !.ip = Hidden, !.hostname = "none"]
  <2>1. shown.ip = Hidden /\ shown.hostname = "none"
    BY DEF PathType
  <2> QED
    BY <1>2, <1>3, <2>1 DEF MaskedPath
<1>4. CASE path.ip \notin Private
  BY <1>2, <1>4 DEF MaskedPath
<1> QED
  BY <1>3, <1>4

LEMMA MaskHides ==
    ASSUME NEW data \in HopData, NEW k \in DOMAIN Masked[data].paths
    PROVE  LET path == Masked[data].paths[k]
           IN  path.ip \notin Private /\ (path.ip = Hidden => path.hostname = "none")
<1>1. CASE AllHidden(data)
  <2> DEFINE e == OneHidden(data)
  <2>1. e.ip = Hidden /\ e.hostname = "none" /\ Hidden \notin Private
    BY OutputAssumption DEF OneHidden
  <2> HIDE DEF e
  <2>2. Masked[data].paths = << e >>
    BY <1>1, MaskedIs DEF e
  <2>3. Masked[data].paths[k] = e
    BY <2>2
  <2> QED
    BY <2>1, <2>3
<1>2. CASE ~AllHidden(data)
  <2>1. Masked[data].paths = Covered(data)
    BY <1>2, MaskedIs
  <2>2. data.paths \in Seq(PathType)
    BY HopDataIs
  <2>3. k \in DOMAIN data.paths /\ Masked[data].paths[k] = MaskedPath(data.paths[k])
    BY <2>1 DEF Covered
  <2>4. data.paths[k] \in PathType
    BY <2>2, <2>3, LenProperties, ElementOfSeq
  <2> QED
    BY <2>3, <2>4, CoveredPath
<1> QED
  BY <1>1, <1>2

\* With the setting off no private address reaches the page, in whichever path of
\* whichever hop, nor the name that belongs to one.
THEOREM PrivateIsMasked == Spec => []PrivateStaysHidden
<1>1. IInv => PrivateStaysHidden
  <2> SUFFICES ASSUME IInv, setting = "off", NEW i \in DOMAIN Page, NEW path \in ToSet(Page[i].paths)
               PROVE  path.ip \notin Private /\ (path.ip = Hidden => path.hostname = "none")
    BY DEF PrivateStaysHidden
  <2>1. hops.sent \in Seq(SentType)
    BY TypeIs DEF IInv, Typed, HopsType
  <2>2. i \in DOMAIN hops.sent /\ Page[i] = Shown(hops.sent[i])
    BY DEF Page
  <2>3. hops.sent[i] \in SentType
    BY <2>1, <2>2, SentSeq
  <2> DEFINE data == Hop(hops.sent[i].hop, hops.sent[i].items)
  <2>4. data \in HopData
    <3>1. hops.sent[i].hop \in Nat /\ hops.sent[i].items \in Seq(Items)
      BY <2>3, HopsNat DEF SentType
    <3> QED
      BY <3>1, HopType
  <2>5. Page[i] = Masked[data]
    BY <2>2 DEF Shown, ShowPrivate
  <2> HIDE DEF data
  <2>6. PICK k \in DOMAIN Masked[data].paths : path = Masked[data].paths[k]
    BY <2>5 DEF ToSet
  <2> QED
    BY <2>4, <2>6, MaskHides
<1> QED
  BY <1>1, Invariant, PTL

-----------------------------------------------------------------------------
(* Where the target shows *)

\* The target answers among these items; names apart, every address has its probe.
Says(items, ip) == \E i \in DOMAIN items : items[i] = [kind |-> "address", of |-> ip]
Clean(items) ==
    \A i \in DOMAIN items : IsWho(items[i]) =>
        items[i].kind = "address" /\ i + 1 \in DOMAIN items /\ IsProbe(items[i + 1])

Lists(seq, ip) == \E k \in DOMAIN seq : seq[k] = ip

LEMMA DistinctLists == ASSUME NEW S, NEW seq \in Seq(S), NEW ip PROVE Lists(Distinct(seq), ip) <=> Lists(seq, ip)
<1> DEFINE F == {i \in DOMAIN seq : \A j \in 1..(i - 1) : seq[j] # seq[i]}
           o == InOrder[F]
           n == Len(o)
           f == Distinct(seq)
<1>1. Len(seq) \in Nat /\ DOMAIN seq = 1..Len(seq) /\ F \subseteq 1..Len(seq)
  BY LenProperties
<1>2. \A i \in 1..Len(seq) : (\A j \in 1..(i - 1) : seq[j] # seq[i]) => i \in F
  BY <1>1
<1>3. f = [k \in DOMAIN o |-> seq[o[k]]]
  BY DEF Distinct
<1> HIDE DEF F, o, f
<1>4. /\ n \in Nat /\ DOMAIN o = 1..n /\ \A k \in 1..n : o[k] \in F
      /\ \A i \in F : \E k \in 1..n : o[k] = i
  BY <1>1, Picked DEF o
<1> HIDE DEF n
<1>5. DOMAIN f = 1..n /\ \A k \in 1..n : f[k] = seq[o[k]]
  BY <1>3, <1>4
<1>6. ASSUME NEW k \in DOMAIN f, f[k] = ip PROVE Lists(seq, ip)
  <2>1. o[k] \in DOMAIN seq /\ seq[o[k]] = ip
    BY <1>1, <1>4, <1>5, <1>6
  <2> QED
    BY <2>1 DEF Lists
<1>7. ASSUME Lists(seq, ip) PROVE Lists(f, ip)
  <2> DEFINE T == {i \in 1..Len(seq) : seq[i] = ip}
  <2>1. T # {} /\ T \in SUBSET Nat
    BY <1>1, <1>7 DEF Lists
  <2>2. PICK i \in T : \A y \in T : i <= y
    BY <2>1, Smallest
  <2>3. i \in 1..Len(seq) /\ seq[i] = ip
    OBVIOUS
  <2>4. \A j \in 1..(i - 1) : seq[j] # seq[i]
    <3> SUFFICES ASSUME NEW j \in 1..(i - 1), seq[j] = seq[i] PROVE FALSE
      OBVIOUS
    <3>1. j \in 1..Len(seq) /\ ~(i <= j)
      BY <2>3, <1>1
    <3>2. j \in T
      BY <3>1, <2>3
    <3> QED
      BY <2>2, <3>1, <3>2
  <2> HIDE DEF T
  <2>5. i \in F
    BY <1>2, <2>3, <2>4
  <2>6. PICK k \in 1..n : o[k] = i
    BY <1>4, <2>5
  <2>7. k \in DOMAIN f /\ f[k] = ip
    BY <1>5, <2>3, <2>6
  <2> QED
    BY <2>7 DEF Lists
<1>8. Lists(f, ip) => Lists(seq, ip)
  BY <1>6 DEF Lists
<1> QED
  BY <1>7, <1>8 DEF f

LEMMA AddressItem ==
    ASSUME NEW item \in Items, item.kind = "address"
    PROVE  item = [kind |-> "address", of |-> item.of]
BY DEF Items

\* Names apart, who is listed has spoken for itself.
LEMMA ListedSays ==
    ASSUME NEW items \in Seq(Items), Clean(items), NEW ip
    PROVE  Lists(IpList(items), ip) <=> Says(items, ip)
<1> DEFINE o == Speakers(items)
           n == Len(o)
           f == Speaking(items)
<1>1. /\ n \in Nat /\ DOMAIN o = 1..n /\ \A k \in 1..n : o[k] \in 1..Len(items) /\ IsWho(items[o[k]])
      /\ \A i \in 1..Len(items) : IsWho(items[i]) => \E k \in 1..n : o[k] = i
  BY SpeakersIn
<1>2. f = [k \in DOMAIN o |-> items[o[k]].of]
  BY DEF Speaking
<1>3. Lists(IpList(items), ip) <=> Lists(f, ip)
  BY IpListIs, SpeakingSeq, DistinctLists
<1> HIDE DEF o, n, f
<1>4. DOMAIN f = 1..n /\ \A k \in 1..n : f[k] = items[o[k]].of
  BY <1>1, <1>2
<1>5. DOMAIN items = 1..Len(items) /\ \A i \in 1..Len(items) : items[i] \in Items
  BY ItemsAre
<1>6. ASSUME NEW k \in DOMAIN f, f[k] = ip PROVE Says(items, ip)
  <2>1. o[k] \in DOMAIN items /\ IsWho(items[o[k]]) /\ items[o[k]].of = ip /\ items[o[k]] \in Items
    BY <1>1, <1>4, <1>5, <1>6
  <2>2. items[o[k]].kind = "address"
    BY <2>1 DEF Clean
  <2>3. items[o[k]] = [kind |-> "address", of |-> ip]
    BY <2>1, <2>2, AddressItem
  <2> QED
    BY <2>1, <2>3 DEF Says
<1>7. ASSUME NEW i \in DOMAIN items, items[i] = [kind |-> "address", of |-> ip] PROVE Lists(f, ip)
  <2>1. IsWho(items[i]) /\ items[i].of = ip
    BY <1>7 DEF IsWho
  <2>2. PICK k \in 1..n : o[k] = i
    BY <2>1, <1>1, <1>5
  <2> QED
    BY <2>1, <2>2, <1>4 DEF Lists
<1> QED
  BY <1>3, <1>6, <1>7 DEF Lists, Says

\* The probe after an address is that address's.
LEMMA OwnProbe ==
    ASSUME NEW items \in Seq(Items), NEW i \in 1..Len(items), items[i].kind = "address",
           i + 1 \in 1..Len(items), IsProbe(items[i + 1])
    PROVE  Owner(items, i + 1) = items[i].of
<1> DEFINE m == i + 1
<1>1. i \in Nat /\ Len(items) \in Nat
  BY ItemsAre
<1>2. i \in 1..m /\ items[m].kind # "address"
  BY <1>1 DEF IsProbe
<1>3. m \in 1..Len(items)
  OBVIOUS
<1>4. \A x \in 1..m : x # m => x <= i
  BY <1>1
<1> HIDE DEF m
<1>5. SpokeBefore(items, m) # {}
  BY <1>2 DEF SpokeBefore
<1>6. PICK j \in 1..m : /\ items[j].kind = "address" /\ Owner(items, m) = items[j].of
                        /\ \A h \in 1..m : items[h].kind = "address" => h <= j
  BY <1>3, <1>5, LastSpeaker
<1>7. i <= j /\ j <= i
  BY <1>2, <1>4, <1>6
<1>8. j = i
  BY <1>1, <1>6, <1>7 DEF m
<1> QED
  BY <1>6, <1>8 DEF m

\* Whom a probe belongs to has spoken.
LEMMA OwnerSays ==
    ASSUME NEW items \in Seq(Items), Clean(items), Len(IpList(items)) > 1, NEW i \in 1..Len(items)
    PROVE  Says(items, Owner(items, i))
<1>1. CASE SpokeBefore(items, i) = {}
  <2>1. Owner(items, i) = IpList(items)[1]
    BY <1>1 DEF Owner
  <2>2. 1 \in DOMAIN IpList(items)
    BY IpListSeq, LenProperties
  <2>3. Lists(IpList(items), Owner(items, i))
    BY <2>1, <2>2 DEF Lists
  <2> QED
    BY <2>3, ListedSays
<1>2. CASE SpokeBefore(items, i) # {}
  <2>1. PICK j \in 1..Len(items) : items[j].kind = "address" /\ Owner(items, i) = items[j].of
    BY <1>2, LastSpeaker
  <2>2. items[j] \in Items /\ j \in DOMAIN items
    BY <2>1, ItemsAre
  <2>3. items[j] = [kind |-> "address", of |-> Owner(items, i)]
    BY <2>1, <2>2, AddressItem
  <2> QED
    BY <2>2, <2>3 DEF Says
<1> QED
  BY <1>1, <1>2

HasPath(paths, ip) == \E k \in DOMAIN paths : paths[k].ip = ip

\* A hop several routers answered has a path for each.
LEMMA ManyHavePath ==
    ASSUME NEW items \in Seq(Items), Clean(items), Len(IpList(items)) > 1, NEW ip
    PROVE  HasPath(PathsOf(items), ip) <=> Says(items, ip)
<1> DEFINE a == Assigned(items)
           w == Owners(a)
           d == Distinct(w)
           p == Paths[a]
           o == ProbesAt(items)
           n == Len(o)
<1>1. a \in Seq(ProbeType) /\ Len(a) = n /\ \A k \in 1..n : a[k].of = Owner(items, o[k])
  BY AssignedSeq
<1>2. w \in Seq(Addresses) /\ Len(w) = n /\ \A k \in 1..n : w[k] = a[k].of
  BY <1>1, OwnersSeq
<1>3. p \in Seq(PathType) /\ d \in Seq(Addresses) /\ Len(p) = Len(d) /\ \A k \in 1..Len(d) : p[k].ip = d[k]
  BY <1>1, PathsType
<1>4. PathsOf(items) = p
  BY DEF PathsOf
<1>5. /\ n \in Nat /\ \A k \in 1..n : o[k] \in 1..Len(items)
      /\ \A i \in 1..Len(items) : IsProbe(items[i]) => \E k \in 1..n : o[k] = i
  BY ProbesAtIn
<1>6. Lists(d, ip) <=> Lists(w, ip)
  BY <1>2, DistinctLists
<1> HIDE DEF a, w, d, p, o, n
<1>7. DOMAIN p = 1..Len(d) /\ DOMAIN d = 1..Len(d) /\ DOMAIN w = 1..n
  BY <1>2, <1>3, LenProperties
<1>8. HasPath(p, ip) <=> Lists(d, ip)
  BY <1>3, <1>7 DEF HasPath, Lists
<1>9. Lists(w, ip) <=> \E k \in 1..n : Owner(items, o[k]) = ip
  BY <1>1, <1>2, <1>7 DEF Lists
<1>10. ASSUME NEW k \in 1..n, Owner(items, o[k]) = ip PROVE Says(items, ip)
  <2>1. o[k] \in 1..Len(items)
    BY <1>5
  <2> QED
    BY <2>1, <1>10, OwnerSays
<1>11. ASSUME NEW i \in DOMAIN items, items[i] = [kind |-> "address", of |-> ip]
       PROVE  \E k \in 1..n : Owner(items, o[k]) = ip
  <2>1. items[i].kind = "address" /\ items[i].of = ip /\ IsWho(items[i])
    BY <1>11 DEF IsWho
  <2>2. i + 1 \in DOMAIN items /\ IsProbe(items[i + 1])
    BY <2>1 DEF Clean
  <2>3. DOMAIN items = 1..Len(items)
    BY ItemsAre
  <2>4. Owner(items, i + 1) = ip
    BY <2>1, <2>2, <2>3, OwnProbe
  <2>5. PICK k \in 1..n : o[k] = i + 1
    BY <2>2, <2>3, <1>5
  <2> QED
    BY <2>4, <2>5
<1>12. Says(items, ip) <=> \E k \in 1..n : Owner(items, o[k]) = ip
  BY <1>10, <1>11 DEF Says
<1> QED
  BY <1>4, <1>6, <1>8, <1>9, <1>12

LEMMA OneHasPath ==
    ASSUME NEW items \in Seq(Items), Clean(items), ~(Len(IpList(items)) > 1), NEW ip \in Addresses
    PROVE  HasPath(PathsOf(items), ip) <=> Says(items, ip)
<1> DEFINE l == IpList(items)
           e == Single(items)
           p == << e >>
<1>1. PathsOf(items) = p
  BY DEF PathsOf
<1>2. e.ip = IF Len(l) = 1 THEN l[1] ELSE NoAddress
  BY DEF Single
<1>3. l \in Seq(Addresses)
  BY IpListSeq
<1> HIDE DEF l, e
<1>4. Len(l) \in Nat /\ DOMAIN l = 1..Len(l)
  BY <1>3, LenProperties
<1>5. HasPath(p, ip) <=> e.ip = ip
  BY DEF HasPath
<1>6. Lists(l, ip) <=> Len(l) = 1 /\ l[1] = ip
  <2>1. CASE Len(l) = 1
    BY <1>4, <2>1 DEF Lists
  <2>2. CASE Len(l) # 1
    <3>1. Len(l) = 0
      BY <1>4, <2>2 DEF l
    <3> QED
      BY <1>4, <2>2, <3>1 DEF Lists
  <2> QED
    BY <2>1, <2>2
<1>7. ip # NoAddress
  BY OutputAssumption
<1> QED
  BY <1>1, <1>2, <1>5, <1>6, <1>7, ListedSays DEF l

LEMMA CoveredIp ==
    ASSUME NEW path \in PathType, NEW ip \in Addresses \ Private
    PROVE  (MaskedPath(path).ip = ip) <=> (path.ip = ip)
<1>1. CASE path.ip \in Private
  <2> DEFINE shown == [path EXCEPT !.ip = Hidden, !.hostname = "none"]
  <2>1. shown.ip = Hidden
    BY DEF PathType
  <2>2. MaskedPath(path) = shown
    BY <1>1 DEF MaskedPath
  <2> HIDE DEF shown
  <2> QED
    BY <1>1, <2>1, <2>2, OutputAssumption
<1>2. CASE path.ip \notin Private
  BY <1>2 DEF MaskedPath
<1> QED
  BY <1>1, <1>2

LEMMA MaskKeeps ==
    ASSUME NEW data \in HopData, NEW ip \in Addresses \ Private
    PROVE  HasPath(Masked[data].paths, ip) <=> HasPath(data.paths, ip)
<1> DEFINE c == Covered(data)
           p == data.paths
           m == Masked[data].paths
<1>1. p \in Seq(PathType)
  BY HopDataIs
<1>2. DOMAIN c = DOMAIN p /\ \A k \in DOMAIN p : c[k] = MaskedPath(p[k])
  BY DEF Covered
<1>3. \A k \in DOMAIN p : p[k] \in PathType
  BY <1>1, LenProperties, ElementOfSeq
<1>4. ASSUME NEW k \in DOMAIN p PROVE (c[k].ip = ip) <=> (p[k].ip = ip)
  <2>1. c[k] = MaskedPath(p[k]) /\ p[k] \in PathType
    BY <1>2, <1>3
  <2> HIDE DEF c, p
  <2> QED
    BY <2>1, CoveredIp
<1>5. HasPath(c, ip) <=> HasPath(p, ip)
  BY <1>2, <1>4 DEF HasPath
<1>6. CASE AllHidden(data)
  <2> DEFINE e == OneHidden(data)
  <2>1. e.ip = Hidden /\ Hidden # ip
    BY OutputAssumption DEF OneHidden
  <2> HIDE DEF e
  <2>2. m = << e >>
    BY <1>6, MaskedIs DEF e
  <2>3. ~HasPath(m, ip)
    BY <2>1, <2>2 DEF HasPath
  <2>4. ~HasPath(c, ip)
    BY <1>6, <2>1 DEF AllHidden, HasPath
  <2> QED
    BY <1>5, <2>3, <2>4
<1>7. CASE ~AllHidden(data)
  BY <1>5, <1>7, MaskedIs
<1> QED
  BY <1>6, <1>7

Target(hop) == HasPath(Shown(hop).paths, target)

\* What the page is shown of a hop has the target just when the target spoke.
LEMMA ShownTarget ==
    ASSUME target \in Addresses \ Private, NEW hop, hop.hop \in Nat, hop.items \in Seq(Items), Clean(hop.items)
    PROVE  Target(hop) <=> Says(hop.items, target)
<1> DEFINE data == Hop(hop.hop, hop.items)
<1>1. data \in HopData
  BY HopType
<1>2. data.paths = PathsOf(hop.items)
  BY HopOfMany, HopOfOne
<1>3. HasPath(PathsOf(hop.items), target) <=> Says(hop.items, target)
  BY ManyHavePath, OneHasPath
<1> HIDE DEF data
<1>4. HasPath(Masked[data].paths, target) <=> HasPath(data.paths, target)
  BY <1>1, MaskKeeps
<1>5. Shown(hop) = data \/ Shown(hop) = Masked[data]
  BY DEF Shown, data
<1> QED
  BY <1>2, <1>3, <1>4, <1>5 DEF Target

LEMMA MarksIs == ASSUME NEW hop, NEW before PROVE Marks(hop, before) <=> ~before /\ Target(hop)
BY DEF Marks, Target, HasPath

-----------------------------------------------------------------------------
(* The mark *)

\* A hop that is sent is looked through for the target; the mark remembers it.
ShownAs(hop, show) == IF show THEN Hop(hop.hop, hop.items) ELSE Masked[Hop(hop.hop, hop.items)]
TargetAs(hop, ip, show) == HasPath(ShownAs(hop, show).paths, ip)
MarkedAs(h, ip, show) == h.reached <=> \E k \in DOMAIN h.sent : TargetAs(h.sent[k], ip, show)

\* Without names and without a cut, the target is in the hops when it is in the lines.
HeardSo(groups, ip) == \E k \in DOMAIN groups : Says(groups[k].items, ip)
AllClean(groups) == \A k \in DOMAIN groups : groups[k].items \in Seq(Items) /\ Clean(groups[k].items)
AnyNamed(lines) == \E i \in DOMAIN lines : Named(lines[i])
HeardAs(lines, ip) ==
    ~AnyNamed(lines) => AllClean(Groups(lines)) /\ (HeardSo(Groups(lines), ip) <=> HeardSo(lines, ip))

Marked == MarkedAs(hops, target, ShowPrivate)
Heard == ~cancelled /\ ~timedOut => HeardAs(out, target)
Honest == summary.by = "completed" => ~cancelled /\ ~timedOut

\* The inductive invariant of DestinationMarked.
MInv == IInv /\ TargetIsPublic /\ Marked /\ Heard /\ Honest

LEMMA TargetIs == ASSUME NEW hop PROVE Target(hop) <=> TargetAs(hop, target, ShowPrivate)
BY DEF Target, TargetAs, Shown, ShownAs

LEMMA Longest ==
    ASSUME NEW X, NEW s \in Seq(X), NEW e
    PROVE  /\ Len(s) \in Nat /\ DOMAIN s = 1..Len(s) /\ DOMAIN Append(s, e) = 1..(Len(s) + 1)
           /\ Append(s, e)[Len(s) + 1] = e /\ \A i \in 1..Len(s) : Append(s, e)[i] = s[i]
<1> DEFINE Y == X \cup {e}
           t == Append(s, e)
<1>1. X \subseteq Y /\ e \in Y
  OBVIOUS
<1> HIDE DEF Y
<1>2. s \in Seq(Y)
  BY <1>1, SeqMonotonic
<1>3. t \in Seq(Y) /\ Len(t) = Len(s) + 1 /\ t[Len(s) + 1] = e /\ \A i \in 1..Len(s) : t[i] = s[i]
  BY <1>1, <1>2, AppendProperties
<1> HIDE DEF t
<1>4. DOMAIN t = 1..(Len(s) + 1) /\ Len(s) \in Nat /\ DOMAIN s = 1..Len(s)
  BY <1>2, <1>3, LenProperties
<1> QED
  BY <1>3, <1>4 DEF t

LEMMA HeardMore ==
    ASSUME NEW X, NEW s \in Seq(X), NEW e, NEW ip
    PROVE  HeardSo(Append(s, e), ip) <=> HeardSo(s, ip) \/ Says(e.items, ip)
<1> DEFINE t == Append(s, e)
           n == Len(s)
           m == n + 1
<1>1. n \in Nat /\ DOMAIN s = 1..n /\ DOMAIN t = 1..m /\ t[m] = e /\ \A i \in 1..n : t[i] = s[i]
  BY Longest
<1> HIDE DEF t, n
<1>2. m \in 1..m /\ \A i \in 1..m : i = m \/ i \in 1..n
  BY <1>1
<1>3. \A i \in 1..n : i \in 1..m
  BY <1>1
<1> HIDE DEF m
<1> QED
  BY <1>1, <1>2, <1>3 DEF HeardSo, t

LEMMA CleanMore ==
    ASSUME NEW X, NEW s \in Seq(X), NEW e
    PROVE  AllClean(Append(s, e)) <=> AllClean(s) /\ e.items \in Seq(Items) /\ Clean(e.items)
<1> DEFINE t == Append(s, e)
           n == Len(s)
           m == n + 1
<1>1. n \in Nat /\ DOMAIN s = 1..n /\ DOMAIN t = 1..m /\ t[m] = e /\ \A i \in 1..n : t[i] = s[i]
  BY Longest
<1> HIDE DEF t, n
<1>2. m \in 1..m /\ \A i \in 1..m : i = m \/ i \in 1..n
  BY <1>1
<1>3. \A i \in 1..n : i \in 1..m
  BY <1>1
<1> HIDE DEF m
<1> QED
  BY <1>1, <1>2, <1>3 DEF AllClean, t

LEMMA NamedMore ==
    ASSUME NEW X, NEW s \in Seq(X), NEW e, ~AnyNamed(Append(s, e))
    PROVE  ~AnyNamed(s) /\ ~Named(e)
<1> DEFINE t == Append(s, e)
           n == Len(s)
           m == n + 1
<1>1. n \in Nat /\ DOMAIN s = 1..n /\ DOMAIN t = 1..m /\ t[m] = e /\ \A i \in 1..n : t[i] = s[i]
  BY Longest
<1>2. m \in 1..m /\ \A i \in 1..n : i \in 1..m
  BY <1>1
<1>3. \A i \in DOMAIN t : ~Named(t[i])
  BY DEF AnyNamed
<1> HIDE DEF t, n, m
<1> QED
  BY <1>1, <1>2, <1>3 DEF AnyNamed

LEMMA JoinAt ==
    ASSUME NEW a \in Seq(Items), NEW b \in Seq(Items)
    PROVE  LET c == a \o b
           IN  /\ c \in Seq(Items) /\ Len(a) \in Nat /\ Len(b) \in Nat /\ DOMAIN c = 1..(Len(a) + Len(b))
               /\ DOMAIN a = 1..Len(a) /\ DOMAIN b = 1..Len(b)
               /\ \A i \in 1..(Len(a) + Len(b)) : c[i] = IF i <= Len(a) THEN a[i] ELSE b[i - Len(a)]
<1> DEFINE c == a \o b
<1>1. c \in Seq(Items) /\ Len(c) = Len(a) + Len(b)
      /\ \A i \in 1..(Len(a) + Len(b)) : c[i] = IF i <= Len(a) THEN a[i] ELSE b[i - Len(a)]
  BY ConcatProperties
<1> HIDE DEF c
<1>2. DOMAIN c = 1..Len(c) /\ DOMAIN a = 1..Len(a) /\ DOMAIN b = 1..Len(b) /\ Len(a) \in Nat /\ Len(b) \in Nat
  BY <1>1, LenProperties
<1> QED
  BY <1>1, <1>2 DEF c

LEMMA SaysJoined ==
    ASSUME NEW a \in Seq(Items), NEW b \in Seq(Items), NEW ip
    PROVE  Says(a \o b, ip) <=> Says(a, ip) \/ Says(b, ip)
<1> DEFINE c == a \o b
           n == Len(a)
           m == Len(b)
           w == [kind |-> "address", of |-> ip]
<1>1. /\ n \in Nat /\ m \in Nat /\ DOMAIN c = 1..(n + m) /\ DOMAIN a = 1..n /\ DOMAIN b = 1..m
      /\ \A i \in 1..(n + m) : c[i] = IF i <= n THEN a[i] ELSE b[i - n]
  BY JoinAt
<1> HIDE DEF c, n, m, w
<1>2. ASSUME NEW i \in 1..(n + m), c[i] = w PROVE (\E j \in 1..n : a[j] = w) \/ (\E j \in 1..m : b[j] = w)
  <2>1. CASE i <= n
    BY <1>1, <1>2, <2>1
  <2>2. CASE ~(i <= n)
    <3>1. i - n \in 1..m
      BY <1>1, <2>2
    <3> QED
      BY <1>1, <1>2, <2>2, <3>1
  <2> QED
    BY <2>1, <2>2
<1>3. ASSUME NEW j \in 1..n, a[j] = w PROVE \E i \in 1..(n + m) : c[i] = w
  <2>1. j \in 1..(n + m) /\ j <= n
    BY <1>1
  <2> QED
    BY <1>1, <1>3, <2>1
<1>4. ASSUME NEW j \in 1..m, b[j] = w PROVE \E i \in 1..(n + m) : c[i] = w
  <2> DEFINE i == n + j
  <2>1. i \in 1..(n + m) /\ ~(i <= n) /\ i - n = j
    BY <1>1
  <2> HIDE DEF i
  <2>2. c[i] = w
    BY <1>1, <1>4, <2>1
  <2> QED
    BY <2>1, <2>2
<1> QED
  BY <1>1, <1>2, <1>3, <1>4 DEF Says, c, w

LEMMA CleanJoined ==
    ASSUME NEW a \in Seq(Items), NEW b \in Seq(Items), Clean(a), Clean(b)
    PROVE  Clean(a \o b)
<1> DEFINE c == a \o b
           n == Len(a)
           m == Len(b)
<1>1. /\ n \in Nat /\ m \in Nat /\ DOMAIN c = 1..(n + m) /\ DOMAIN a = 1..n /\ DOMAIN b = 1..m
      /\ \A i \in 1..(n + m) : c[i] = IF i <= n THEN a[i] ELSE b[i - n]
  BY JoinAt
<1> HIDE DEF c, n, m
<1>2. ASSUME NEW i \in 1..(n + m), IsWho(c[i])
      PROVE  c[i].kind = "address" /\ i + 1 \in 1..(n + m) /\ IsProbe(c[i + 1])
  <2>1. CASE i <= n
    <3>1. i \in 1..n /\ c[i] = a[i]
      BY <1>1, <2>1
    <3>2. a[i].kind = "address" /\ i + 1 \in 1..n /\ IsProbe(a[i + 1])
      BY <1>1, <1>2, <3>1 DEF Clean
    <3>3. i + 1 \in 1..(n + m) /\ i + 1 <= n
      BY <1>1, <3>2
    <3>4. c[i + 1] = a[i + 1]
      BY <1>1, <3>3
    <3> QED
      BY <3>1, <3>2, <3>3, <3>4
  <2>2. CASE ~(i <= n)
    <3> DEFINE j == i - n
    <3>1. j \in 1..m /\ c[i] = b[j]
      BY <1>1, <2>2
    <3>2. b[j].kind = "address" /\ j + 1 \in 1..m /\ IsProbe(b[j + 1])
      <4> HIDE DEF j
      <4> QED
        BY <1>1, <1>2, <3>1 DEF Clean
    <3>3. i + 1 \in 1..(n + m) /\ ~(i + 1 <= n) /\ (i + 1) - n = j + 1
      BY <1>1, <2>2, <3>1, <3>2
    <3>4. c[i + 1] = b[j + 1]
      BY <1>1, <3>3
    <3> QED
      BY <3>1, <3>2, <3>3, <3>4
  <2> QED
    BY <2>1, <2>2
<1> QED
  BY <1>1, <1>2 DEF Clean, c

\* A line as traceroute prints it, without a name.
LEMMA CleanLine ==
    ASSUME NEW line, line.items \in Seq(Items), Spoken(line.items), ~Named(line)
    PROVE  Clean(line.items)
<1>1. \A i \in DOMAIN line.items : line.items[i].kind # "name"
  BY DEF Named
<1> QED
  BY <1>1 DEF Clean, Spoken, IsWho

\* One line more, and what is heard in it.
LEMMA HeardLine ==
    ASSUME NEW L \in Seq(LineType), NEW line \in LineType, FitsAfter(line, Groups(L)), Spoken(line.items),
           NEW ip, HeardAs(L, ip)
    PROVE  HeardAs(Append(L, line), ip)
<1> SUFFICES ASSUME ~AnyNamed(Append(L, line))
             PROVE  /\ AllClean(Groups(Append(L, line)))
                    /\ HeardSo(Groups(Append(L, line)), ip) <=> HeardSo(Append(L, line), ip)
  BY DEF HeardAs
<1> DEFINE M == Append(L, line)
           G == Groups(L)
<1>1. ~AnyNamed(L) /\ ~Named(line)
  BY NamedMore
<1>2. AllClean(G) /\ (HeardSo(G, ip) <=> HeardSo(L, ip))
  BY <1>1 DEF HeardAs
<1>3. line.items \in Seq(Items) /\ line.hop \in Nat /\ line \in [hop : Nat, items : Seq(Items)]
  BY LineIsLine, HopsNat DEF LineType
<1>4. Clean(line.items)
  BY <1>1, <1>3, CleanLine
<1>5. HeardSo(M, ip) <=> HeardSo(L, ip) \/ Says(line.items, ip)
  BY HeardMore
<1>6. Lined(L)
  BY IsLined
<1> HIDE DEF M
<1>7. CASE line.hop > 0
  <2> DEFINE e == [hop |-> line.hop, items |-> line.items]
  <2>1. Groups(M) = Append(G, e)
    BY <1>3, <1>6, <1>7, GroupsOpen DEF M
  <2>2. PICK X : G \in Seq(X)
    BY <1>6, GroupsSeq
  <2>3. e.items = line.items
    OBVIOUS
  <2> HIDE DEF e, G
  <2>4. AllClean(Groups(M))
    BY <1>2, <1>3, <1>4, <2>1, <2>2, <2>3, CleanMore
  <2>5. HeardSo(Groups(M), ip) <=> HeardSo(G, ip) \/ Says(line.items, ip)
    BY <2>1, <2>2, <2>3, HeardMore
  <2> QED
    BY <1>2, <1>5, <2>4, <2>5 DEF M
<1>8. CASE ~(line.hop > 0)
  <2>1. G # <<>>
    BY <1>3, <1>8 DEF FitsAfter
  <2>2. PICK X : \E s \in Seq(X), e \in X : G = Append(s, e)
    BY <1>6, <2>1, LastGroup
  <2>3. PICK s \in Seq(X), e \in X : G = Append(s, e)
    BY <2>2
  <2> DEFINE f == Longer(e, line)
  <2>4. Groups(M) = Append(s, f)
    BY <1>3, <1>6, <1>8, <2>3, GroupsContinue DEF M
  <2>5. f.items = e.items \o line.items
    BY DEF Longer
  <2> HIDE DEF f, G
  <2>6. AllClean(s) /\ e.items \in Seq(Items) /\ Clean(e.items)
    BY <1>2, <2>3, CleanMore
  <2>7. HeardSo(G, ip) <=> HeardSo(s, ip) \/ Says(e.items, ip)
    BY <2>3, HeardMore
  <2>8. f.items \in Seq(Items) /\ Clean(f.items) /\ (Says(f.items, ip) <=> Says(e.items, ip) \/ Says(line.items, ip))
    BY <1>3, <1>4, <2>5, <2>6, JoinAt, CleanJoined, SaysJoined
  <2>9. AllClean(Groups(M))
    BY <2>4, <2>6, <2>8, CleanMore
  <2>10. HeardSo(Groups(M), ip) <=> HeardSo(s, ip) \/ Says(f.items, ip)
    BY <2>4, HeardMore
  <2> QED
    BY <1>2, <1>5, <2>7, <2>8, <2>9, <2>10 DEF M
<1> QED
  BY <1>7, <1>8

\* Sending a hop keeps the mark true; so do the lines.
LEMMA FlushMarked ==
    ASSUME NEW h \in HopsType, MarkedAs(h, target, ShowPrivate)
    PROVE  MarkedAs(Flushed(h), target, ShowPrivate)
<1>1. CASE h.current.hop = 0
  BY <1>1, FlushIdle
<1>2. CASE h.current.hop # 0
  <2> DEFINE e == Sending(h.current, h)
             g == Flushed(h)
             n == Len(h.sent)
             m == n + 1
             t == target
             w == ShowPrivate
  <2>1. g.sent = Append(h.sent, e) /\ g.reached = (h.reached \/ Marks(h.current, h.reached))
    BY <1>2, FlushOpen
  <2>2. h.sent \in Seq(SentType) /\ h.reached \in BOOLEAN
    BY DEF HopsType
  <2>3. e.hop = h.current.hop /\ e.items = h.current.items
    BY DEF Sending
  <2>4. Marks(h.current, h.reached) <=> ~h.reached /\ TargetAs(e, t, w)
    <3>1. TargetAs(e, t, w) <=> TargetAs(h.current, t, w)
      BY <2>3 DEF TargetAs, ShownAs
    <3> QED
      BY <3>1, MarksIs, TargetIs
  <2> HIDE DEF e, g, t, w
  <2>5. n \in Nat /\ DOMAIN h.sent = 1..n /\ DOMAIN g.sent = 1..m /\ g.sent[m] = e /\ \A i \in 1..n : g.sent[i] = h.sent[i]
    BY <2>1, <2>2, Longest
  <2>6. g.reached <=> h.reached \/ TargetAs(e, t, w)
    BY <2>1, <2>2, <2>4
  <2> HIDE DEF n
  <2>7. m \in 1..m /\ \A i \in 1..m : i = m \/ i \in 1..n
    BY <2>5
  <2>8. \A i \in 1..n : i \in 1..m
    BY <2>5
  <2> HIDE DEF m
  <2>9. h.reached <=> \E k \in 1..n : TargetAs(h.sent[k], t, w)
    BY <2>5 DEF MarkedAs, t, w
  <2>10. g.reached <=> \E k \in 1..m : TargetAs(g.sent[k], t, w)
    BY <2>5, <2>6, <2>7, <2>8, <2>9
  <2> QED
    BY <2>5, <2>10 DEF MarkedAs, g, t, w
<1> QED
  BY <1>1, <1>2

LEMMA TakenMarked ==
    ASSUME NEW h \in HopsType, MarkedAs(h, target, ShowPrivate), NEW line \in LineType
    PROVE  Taken(h, line) \in HopsType /\ MarkedAs(Taken(h, line), target, ShowPrivate)
<1>1. line.hop \in 0..MaxHops /\ line.items \in Seq(Items) /\ line.hop \in Int
  BY HopsNat DEF LineType
<1>2. CASE line.hop > 0
  <2> DEFINE f == Flushed(h)
             c == [hop |-> line.hop, items |-> line.items]
             r == [current |-> c, last |-> f.last, sent |-> f.sent, reached |-> f.reached]
  <2>1. f \in HopsType /\ MarkedAs(f, target, ShowPrivate)
    <3>1. CASE h.current.hop = 0
      BY <3>1, FlushIdle
    <3>2. CASE h.current.hop # 0
      BY <3>2, FlushOpen, FlushMarked
    <3> QED
      BY <3>1, <3>2
  <2>2. c \in LineType
    BY <1>1 DEF LineType
  <2> HIDE DEF c, f
  <2>3. Taken(h, line) = r
    BY <1>2, <2>1 DEF Taken, HopsType, f, c
  <2>4. r \in HopsType
    BY <2>1, <2>2 DEF HopsType
  <2>5. MarkedAs(r, target, ShowPrivate)
    BY <2>1 DEF MarkedAs
  <2> QED
    BY <2>3, <2>4, <2>5
<1>3. CASE ~(line.hop > 0) /\ h.current.hop > 0
  <2> DEFINE s == h.current.items \o line.items
             c == [hop |-> h.current.hop, items |-> s]
             r == [current |-> c, last |-> h.last, sent |-> h.sent, reached |-> h.reached]
  <2>1. h.current \in LineType
    BY DEF HopsType
  <2>2. h.current.hop \in 0..MaxHops /\ h.current.items \in Seq(Items)
    BY <2>1 DEF LineType
  <2>3. s \in Seq(Items)
    BY <1>1, <2>2, ConcatProperties
  <2>4. Taken(h, line) = [h EXCEPT !.current = [h.current EXCEPT !.items = s]]
    BY <1>3 DEF Taken
  <2> HIDE DEF s
  <2>5. [h.current EXCEPT !.items = s] = c /\ c \in LineType
    BY <2>1, <2>2, <2>3, MoreItems DEF LineType
  <2> HIDE DEF c
  <2>6. Taken(h, line) = r
    BY <2>4, <2>5 DEF HopsType
  <2>7. r \in HopsType
    BY <2>5 DEF HopsType
  <2>8. MarkedAs(r, target, ShowPrivate)
    BY DEF MarkedAs
  <2> QED
    BY <2>6, <2>7, <2>8
<1>4. CASE ~(line.hop > 0) /\ ~(h.current.hop > 0)
  BY <1>4 DEF Taken
<1> QED
  BY <1>2, <1>3, <1>4

LEMMA LineMarked ==
    ASSUME NEW h \in HopsType, MarkedAs(h, target, ShowPrivate), NEW line \in LineType
    PROVE  MarkedAs(AfterLine(h, line), target, ShowPrivate)
<1> DEFINE r == Taken(h, line)
<1>1. r \in HopsType /\ MarkedAs(r, target, ShowPrivate)
  BY TakenMarked
<1>2. AfterLine(h, line) = Flushed(r) \/ AfterLine(h, line) = r
  BY DEF AfterLine
<1> HIDE DEF r
<1> QED
  BY <1>1, <1>2, FlushMarked

LEMMA MarkStarts == Init => MInv
<1> SUFFICES ASSUME Init PROVE MInv
  OBVIOUS
<1>1. IInv /\ TargetIsPublic
  BY Starts, TracedIsPublic DEF Init, TargetIsPublic
<1>2. Marked
  <2>1. hops.sent = <<>> /\ hops.reached = FALSE
    BY DEF Init
  <2>2. DOMAIN hops.sent = {}
    BY <2>1
  <2> QED
    BY <2>1, <2>2 DEF Marked, MarkedAs
<1>3. Heard
  <2>1. out = <<>>
    BY DEF Init
  <2>2. DOMAIN out = {} /\ Groups(out) = <<>>
    BY <2>1, GroupsNone
  <2>3. DOMAIN Groups(out) = {}
    BY <2>2
  <2> QED
    BY <2>2, <2>3 DEF Heard, HeardAs, AllClean, HeardSo
<1>4. Honest
  BY DEF Init, Honest
<1> QED
  BY <1>1, <1>2, <1>3, <1>4 DEF MInv

LEMMA MarkSame ==
    ASSUME MInv, hops' = hops, target' = target, setting' = setting
    PROVE  Marked'
BY DEF MInv, Marked, ShowPrivate

LEMMA HeardSame ==
    ASSUME MInv, out' = out, target' = target, ~cancelled' => ~cancelled, ~timedOut' => ~timedOut
    PROVE  Heard'
BY DEF MInv, Heard

LEMMA TargetSame == ASSUME [Next]_vars PROVE target' = target /\ setting' = setting
BY DEF Next, Process, PrintLine, EndByItself, EndBySignal, Reader, ReadLine, ReadEof, Cancel,
   HearDisconnect, Handler, TimeLimit, ProcessGone, Drained, ReaderFailed, Complete, PressStop, Leave, vars, input

\* Lines are printed whole as long as nothing ends traceroute.
LEMMA HeardStep == ASSUME MInv, [Next]_vars PROVE Heard'
<1>1. target' = target
  BY TargetSame
<1>2. IInv /\ Heard
  BY DEF MInv
<1>3. (~cancelled' => ~cancelled) /\ (~timedOut' => ~timedOut)
  BY DEF Next, Process, PrintLine, EndByItself, EndBySignal, Reader, ReadLine, ReadEof, Cancel,
     HearDisconnect, Handler, TimeLimit, ProcessGone, Drained, ReaderFailed, Complete, PressStop, Leave, vars, tasks,
     IInv, TypeOK
<1>4. CASE out' = out
  BY <1>1, <1>3, <1>4, HeardSame
<1>5. ASSUME NEW items \in Lines, PrintLine(items) PROVE Heard'
  <2> DEFINE line == NextLine(items)
  <2>1. items \in Seq(Items) /\ Spoken(items) /\ (HopComplete => HopsPrinted < MaxHops)
    BY <1>5, StreamAssumption DEF PrintLine, Fits
  <2>2. line \in LineType /\ FitsAfter(line, Groups(out)) /\ out \in Seq(LineType)
    BY <1>2, <2>1, NextFits, OutLined DEF IInv
  <2>3. line.items = items
    BY DEF NextLine
  <2>4. out' = Append(out, line) /\ cancelled' = cancelled /\ timedOut' = timedOut
    BY <1>5 DEF PrintLine, tasks
  <2> HIDE DEF line
  <2>5. HeardAs(out, target) => HeardAs(Append(out, line), target)
    BY <2>1, <2>2, <2>3, HeardLine
  <2> QED
    BY <1>1, <1>2, <2>4, <2>5 DEF Heard
<1>6. CASE EndBySignal
  <2>1. cancelled' \/ timedOut'
    BY <1>2, <1>6 DEF EndBySignal, IInv, Causes, tasks
  <2> QED
    BY <2>1 DEF Heard
<1>7. out' = out \/ (\E items \in Lines : PrintLine(items)) \/ EndBySignal
  BY DEF Next, Process, PrintLine, EndByItself, Reader, ReadLine, ReadEof, Cancel,
     HearDisconnect, Handler, TimeLimit, ProcessGone, Drained, ReaderFailed, Complete, PressStop, Leave, vars, trace
<1> QED
  BY <1>4, <1>5, <1>6, <1>7

LEMMA MarkedStep == ASSUME MInv, [Next]_vars PROVE Marked'
<1>1. target' = target /\ setting' = setting /\ IInv /\ Marked
  BY TargetSame DEF MInv
<1>2. ShowPrivate' <=> ShowPrivate
  BY <1>1 DEF ShowPrivate
<1>3. hops \in HopsType
  BY <1>1, TypeIs DEF IInv, Typed
<1>4. CASE hops' = hops
  BY <1>1, <1>4, MarkSame
<1>5. ASSUME NEW h, hops' = h, MarkedAs(h, target, ShowPrivate) PROVE Marked'
  BY <1>1, <1>5 DEF Marked, ShowPrivate
<1>6. CASE ReadLine /\ hops' # hops
  <2>1. hops' = AfterLine(hops, out[readTo + 1]) /\ readTo < Len(out)
    BY <1>6 DEF ReadLine
  <2>2. out \in Seq(LineType) /\ Len(out) \in Nat /\ readTo \in Nat
    BY <1>1, OutLined DEF IInv, TypeOK
  <2>3. out[readTo + 1] \in LineType
    BY <2>1, <2>2, NextPrefix
  <2>4. MarkedAs(AfterLine(hops, out[readTo + 1]), target, ShowPrivate)
    BY <1>1, <1>3, <2>3, LineMarked DEF Marked
  <2> QED
    BY <1>5, <2>1, <2>4
<1>7. CASE Complete /\ hops' # hops
  <2>1. hops' = Flushed(hops)
    BY <1>7 DEF Complete
  <2>2. MarkedAs(Flushed(hops), target, ShowPrivate)
    BY <1>1, <1>3, FlushMarked DEF Marked
  <2> QED
    BY <1>5, <2>1, <2>2
<1>8. hops' = hops \/ ReadLine \/ Complete
  BY DEF Next, Process, PrintLine, EndByItself, EndBySignal, Reader, ReadEof, Cancel,
     HearDisconnect, Handler, TimeLimit, ProcessGone, Drained, ReaderFailed, PressStop, Leave, vars
<1> QED
  BY <1>4, <1>6, <1>7, <1>8

LEMMA HonestStep == ASSUME MInv, [Next]_vars PROVE Honest'
<1>1. Honest /\ Phases /\ Causes
  BY DEF MInv, IInv
<1>2. CASE Complete
  BY <1>1, <1>2 DEF Complete, Honest, TerminatedBy
<1>3. CASE ~Complete
  BY <1>1, <1>3 DEF Honest, Phases, Causes, Next, Process, PrintLine, EndByItself, EndBySignal, Reader, ReadLine, ReadEof,
     Cancel, HearDisconnect, Handler, TimeLimit, ProcessGone, Drained, ReaderFailed, PressStop, Leave, vars, tasks
<1> QED
  BY <1>2, <1>3

LEMMA MarkInvariant == Spec => []MInv
<1>1. Init => MInv
  BY MarkStarts
<1>2. MInv /\ [Next]_vars => MInv'
  <2> SUFFICES ASSUME MInv, [Next]_vars PROVE MInv'
    OBVIOUS
  <2>1. IInv'
    BY StepInv DEF MInv
  <2>2. TargetIsPublic'
    BY TargetSame DEF MInv, TargetIsPublic
  <2> QED
    BY <2>1, <2>2, MarkedStep, HeardStep, HonestStep DEF MInv
<1> QED
  BY <1>1, <1>2, PTL DEF Spec

LEMMA SaysAnswers == ASSUME NEW line PROVE Answers(line) <=> Says(line.items, target)
BY DEF Answers, Says

\* The destination is marked at one hop at most, and the summary says whether; when
\* nothing stopped the run and no names were printed, it is marked just when the
\* target answered, whatever was masked of the hop.
THEOREM MarkIsTrue == Spec => []DestinationMarked
<1>1. MInv => DestinationMarked
  <2> SUFFICES ASSUME MInv PROVE DestinationMarked
    OBVIOUS
  <2> DEFINE sent == hops.sent
             marked == {i \in DOMAIN sent : sent[i].reached}
  <2>1. Counted /\ Phases /\ TypeOK /\ Collected
    BY DEF MInv, IInv
  <2>2. \A i, j \in marked : i = j
    BY <2>1 DEF Counted
  <2>3. ASSUME main = "done" PROVE summary.reached = (marked # {}) /\ summary.hops = Len(sent)
    <3>1. summary.reached = hops.reached /\ summary.hops = hops.last /\ hops.last = Len(sent)
      BY <2>1, <2>3 DEF Counted
    <3>2. hops.reached = \E k \in DOMAIN sent : sent[k].reached
      BY <2>1 DEF Counted
    <3> QED
      BY <3>1, <3>2
  <2>4. ASSUME main = "done", summary.by = "completed", ~(\E i \in DOMAIN out : Named(out[i]))
        PROVE  summary.reached = \E i \in DOMAIN out : Answers(out[i])
    <3>1. hops.reached \in BOOLEAN /\ summary.reached = hops.reached /\ hops.current.hop = 0
      BY <2>1, <2>4, TypeIs DEF Counted, Typed, HopsType
    <3>2. ~cancelled /\ ~timedOut /\ ~Stray
      BY <2>4 DEF MInv, Honest, IInv, Causes
    <3>3. AllClean(Groups(out)) /\ (HeardSo(Groups(out), target) <=> HeardSo(out, target))
      BY <2>4, <3>2 DEF MInv, Heard, HeardAs, AnyNamed
    <3>4. HeardSo(out, target) <=> \E i \in DOMAIN out : Answers(out[i])
      BY SaysAnswers DEF HeardSo
    <3>5. Groups(out) = SentOf(hops)
      <4>1. reader = "eof" /\ readTo = Len(out)
        BY <2>1, <2>4 DEF Phases
      <4>2. SubSeq(out, 1, readTo) = out
        BY <2>1, <4>1, OutLined, WholeSeq
      <4> QED
        BY <2>1, <3>1, <3>2, <4>1, <4>2, CollectedIs DEF Followed, Read, Answered
    <3> DEFINE s == SentOf(hops)
               n == Len(sent)
    <3>6. sent \in Seq(SentType)
      BY <2>1, TypeIs DEF Typed, HopsType
    <3>7. /\ n \in Nat /\ DOMAIN sent = 1..n /\ \A k \in 1..n : sent[k] \in SentType
          /\ s \in Seq(LineType) /\ Len(s) = n
          /\ \A k \in 1..n : s[k] = [hop |-> sent[k].hop, items |-> sent[k].items]
      BY <3>6, SentSeq
    <3> HIDE DEF s, n, sent
    <3>8. DOMAIN s = 1..n
      BY <3>7, LenProperties
    <3>9. \A k \in 1..n : s[k].items = sent[k].items
      BY <3>7
    <3>10. ASSUME NEW k \in 1..n PROVE TargetAs(sent[k], target, ShowPrivate) <=> Says(s[k].items, target)
      <4>1. sent[k].hop \in Nat /\ sent[k].items \in Seq(Items)
        BY <3>7, HopsNat DEF SentType
      <4>2. Clean(sent[k].items)
        BY <3>3, <3>5, <3>8, <3>9 DEF AllClean, s
      <4>3. target \in Addresses \ Private
        BY <2>1, TypeIs DEF MInv, TargetIsPublic, Typed
      <4>4. Target(sent[k]) <=> Says(sent[k].items, target)
        BY <4>1, <4>2, <4>3, ShownTarget
      <4> QED
        BY <3>9, <4>4, TargetIs
    <3>11. hops.reached <=> \E k \in 1..n : TargetAs(sent[k], target, ShowPrivate)
      BY <3>7 DEF MInv, Marked, MarkedAs, sent
    <3>12. HeardSo(s, target) <=> \E k \in 1..n : Says(s[k].items, target)
      BY <3>8 DEF HeardSo
    <3>13. hops.reached <=> HeardSo(Groups(out), target)
      BY <3>5, <3>10, <3>11, <3>12 DEF s
    <3> QED
      BY <3>1, <3>3, <3>4, <3>13
  <2> QED
    BY <2>2, <2>3, <2>4 DEF DestinationMarked
<1> QED
  BY <1>1, MarkInvariant, PTL
=============================================================================
