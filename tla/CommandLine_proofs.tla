-------------------------- MODULE CommandLine_proofs --------------------------
(***************************************************************************)
(* What the operators of CommandLine compute, for any texts: numbers in    *)
(* order, texts behind one another, the numerals itoa writes (Itoa), and   *)
(* the two ways to parse a command, which agree (CommandParsed).           *)
(***************************************************************************)
EXTENDS CommandLine, SequenceTheorems, FiniteSetTheorems, NumberFacts, TLAPS

(***************************************************************************)
(* The numbers of a set from the least up.                                 *)
(***************************************************************************)
\* A member's rank is the number of members up to it.
Rank(S, x) == Cardinality({y \in S : y <= x})

\* Members differ in rank.
LEMMA RanksDiffer ==
  ASSUME NEW S \in SUBSET Nat, IsFiniteSet(S), NEW x \in S, NEW z \in S, Rank(S, x) = Rank(S, z)
  PROVE  x = z
<1>1. ASSUME NEW a \in S, NEW b \in S, a < b PROVE Rank(S, a) < Rank(S, b)
  <2> DEFINE A == {y \in S : y <= a}
             B == {y \in S : y <= b}
  <2>1. IsFiniteSet(A) /\ IsFiniteSet(B) /\ A \in SUBSET B /\ b \in B /\ b \notin A
    <3>1. A \in SUBSET S /\ B \in SUBSET S
      OBVIOUS
    <3>2. IsFiniteSet(A) /\ IsFiniteSet(B)
      BY <3>1, FS_Subset
    <3>3. a \in Nat /\ b \in Nat /\ \A y \in S : y \in Nat
      OBVIOUS
    <3>4. ASSUME NEW y \in A PROVE y \in B
      BY <1>1, <3>3
    <3>5. b \in B /\ b \notin A
      BY <1>1, <3>3
    <3> QED
      BY <3>2, <3>4, <3>5
  <2> HIDE DEF A, B
  <2>2. Cardinality(A) <= Cardinality(B) /\ Cardinality(A) # Cardinality(B)
    BY <2>1, FS_Subset
  <2>3. Cardinality(A) \in Nat /\ Cardinality(B) \in Nat
    BY <2>1, FS_CardinalityType
  <2> QED
    BY <2>2, <2>3 DEF Rank, A, B
<1>2. x \in Nat /\ z \in Nat
  OBVIOUS
<1>3. Rank(S, x) \in Nat /\ Rank(S, z) \in Nat
  <2>1. {y \in S : y <= x} \in SUBSET S /\ {y \in S : y <= z} \in SUBSET S
    OBVIOUS
  <2> QED
    BY <2>1, FS_Subset, FS_CardinalityType DEF Rank
<1> QED
  BY <1>1, <1>2, <1>3

\* Every number up to the number of members is the rank of one.
Ranked(S) == IsFiniteSet(S) /\ \A j \in 1..Cardinality(S) : \E x \in S : Rank(S, x) = j

\* A greater member comes behind the others.
LEMMA RankedAppend ==
  ASSUME NEW S \in SUBSET Nat, Ranked(S), NEW m \in Nat, \A x \in S : x < m
  PROVE  /\ Ranked(S \cup {m}) /\ Cardinality(S \cup {m}) = Cardinality(S) + 1
         /\ Cardinality(S) \in Nat
         /\ Rank(S \cup {m}, m) = Cardinality(S) + 1
         /\ \A x \in S : Rank(S \cup {m}, x) = Rank(S, x)
<1> DEFINE T == S \cup {m}
<1>1. IsFiniteSet(S) /\ Cardinality(S) \in Nat /\ m \notin S
  BY FS_CardinalityType DEF Ranked
<1>2. IsFiniteSet(T) /\ Cardinality(T) = Cardinality(S) + 1
  BY <1>1, FS_AddElement
<1>3. Rank(T, m) = Cardinality(S) + 1
  <2>1. {y \in T : y <= m} = T
    <3>1. \A y \in T : y \in Nat /\ y <= m
      OBVIOUS
    <3> QED
      BY <3>1
  <2> QED
    BY <1>2, <2>1 DEF Rank
<1>4. ASSUME NEW x \in S PROVE Rank(T, x) = Rank(S, x)
  <2>1. {y \in T : y <= x} = {y \in S : y <= x}
    OBVIOUS
  <2> QED
    BY <2>1 DEF Rank
<1>5. ASSUME NEW j \in 1..Cardinality(T) PROVE \E x \in T : Rank(T, x) = j
  <2>1. CASE j = Cardinality(S) + 1
    BY <1>3, <2>1
  <2>2. CASE j # Cardinality(S) + 1
    <3>1. j \in 1..Cardinality(S)
      BY <1>1, <1>2, <2>2
    <3>2. PICK x \in S : Rank(S, x) = j
      BY <3>1 DEF Ranked
    <3> QED
      BY <1>4, <3>2
  <2> QED
    BY <2>1, <2>2
<1>6. Ranked(T)
  BY <1>2, <1>5 DEF Ranked
<1> QED
  BY <1>1, <1>2, <1>3, <1>4, <1>6

\* No numbers have no ranks.
LEMMA RankedEmpty == Ranked({}) /\ Cardinality({}) = 0
BY FS_EmptySet DEF Ranked

\* So every number up to the number of members is a rank.
LEMMA AllRanked ==
  ASSUME NEW n \in Nat, NEW S \in SUBSET (1..n)
  PROVE  Ranked(S)
<1> DEFINE T == {l \in Nat : \A U \in SUBSET (1..l) : Ranked(U)}
<1>1. 0 \in T
  <2>1. \A U \in SUBSET (1..0) : U = {}
    OBVIOUS
  <2> QED
    BY <2>1, RankedEmpty
<1>2. ASSUME NEW l \in Nat, l \in T PROVE l + 1 \in T
  <2>1. SUFFICES ASSUME NEW U \in SUBSET (1..(l + 1)) PROVE Ranked(U)
    OBVIOUS
  <2> DEFINE V == U \ {l + 1}
  <2>2. V \in SUBSET (1..l) /\ V \in SUBSET Nat /\ \A x \in V : x < l + 1
    OBVIOUS
  <2>3. Ranked(V)
    BY <1>2, <2>2
  <2>4. CASE l + 1 \in U
    <3>1. U = V \cup {l + 1} /\ l + 1 \in Nat
      BY <2>4
    <3> HIDE DEF V
    <3> QED
      BY <2>2, <2>3, <3>1, RankedAppend
  <2>5. CASE l + 1 \notin U
    <3>1. U = V
      BY <2>5
    <3> QED
      BY <2>3, <3>1
  <2> QED
    BY <2>4, <2>5
<1>3. n \in T
  <2> HIDE DEF T
  <2> QED
    BY <1>1, <1>2, Induction
<1> QED
  BY <1>3

\* In order they are the set's.
LEMMA AscendingFacts ==
  ASSUME NEW S \in SUBSET Nat, Ranked(S)
  PROVE  /\ Cardinality(S) \in Nat
         /\ Ascending(S) \in Seq(S) /\ Len(Ascending(S)) = Cardinality(S)
         /\ \A j \in 1..Cardinality(S), x \in S : Ascending(S)[j] = x <=> Rank(S, x) = j
<1> DEFINE l == Cardinality(S)
           at == [j \in 1..l |-> CHOOSE x \in S : Cardinality({y \in S : y <= x}) = j]
<1>1. IsFiniteSet(S) /\ l \in Nat
  BY FS_CardinalityType DEF Ranked
<1>2. ASSUME NEW j \in 1..l PROVE at[j] \in S /\ Rank(S, at[j]) = j
  <2>1. \E x \in S : Cardinality({y \in S : y <= x}) = j
    BY <1>2 DEF Ranked, Rank
  <2> QED
    BY <2>1 DEF Rank
<1>3. Ascending(S) = at /\ at \in [1..l -> S]
  BY <1>2 DEF Ascending
<1> HIDE DEF at, l
<1>4. Ascending(S) \in Seq(S) /\ Len(Ascending(S)) = l
  BY <1>1, <1>3
<1>5. ASSUME NEW j \in 1..l, NEW x \in S PROVE Ascending(S)[j] = x <=> Rank(S, x) = j
  <2>1. at[j] \in S /\ Rank(S, at[j]) = j /\ Ascending(S)[j] = at[j]
    BY <1>2, <1>3
  <2>2. Rank(S, x) = j => x = at[j]
    BY <1>1, <2>1, RanksDiffer
  <2> QED
    BY <2>1, <2>2
<1> QED
  BY <1>1, <1>4, <1>5 DEF l

\* A greater member comes last.
LEMMA AscendingAppend ==
  ASSUME NEW S \in SUBSET Nat, Ranked(S), NEW m \in Nat, \A x \in S : x < m
  PROVE  Ascending(S \cup {m}) = Append(Ascending(S), m)
<1> DEFINE T == S \cup {m}
           a == Ascending(S)
           b == Ascending(T)
           l == Cardinality(S)
<1>1. /\ Ranked(T) /\ Cardinality(T) = l + 1 /\ l \in Nat /\ T \in SUBSET Nat
      /\ Rank(T, m) = l + 1 /\ \A x \in S : Rank(T, x) = Rank(S, x)
  BY RankedAppend
<1>2. /\ a \in Seq(S) /\ Len(a) = l /\ \A j \in 1..l, x \in S : a[j] = x <=> Rank(S, x) = j
  BY AscendingFacts
<1>3. /\ b \in Seq(T) /\ Len(b) = l + 1
      /\ \A j \in 1..(l + 1), x \in T : b[j] = x <=> Rank(T, x) = j
  BY <1>1, AscendingFacts
<1> HIDE DEF a, b, l, T
<1>4. b[l + 1] = m
  <2>1. m \in T /\ l + 1 \in 1..(l + 1)
    BY <1>1 DEF T
  <2> QED
    BY <1>1, <1>3, <2>1
<1>5. ASSUME NEW j \in 1..l PROVE b[j] = a[j]
  <2>1. a[j] \in S /\ j \in 1..(l + 1)
    BY <1>1, <1>2
  <2>2. Rank(S, a[j]) = j /\ Rank(T, a[j]) = j /\ a[j] \in T
    BY <1>1, <1>2, <2>1 DEF T
  <2> QED
    BY <1>3, <2>1, <2>2
<1>6. Append(a, m) = b
  <2>1. a \in Seq(T) /\ m \in T
    BY <1>2, SeqMonotonic DEF T
  <2>2. /\ Append(a, m) \in Seq(T) /\ Len(Append(a, m)) = l + 1
        /\ \A j \in 1..l : Append(a, m)[j] = a[j] /\ Append(a, m)[l + 1] = m
    BY <1>1, <1>2, <2>1
  <2>3. ASSUME NEW j \in 1..(l + 1) PROVE Append(a, m)[j] = b[j]
    BY <1>1, <1>4, <1>5, <2>2
  <2> QED
    BY <1>3, <2>2, <2>3, SeqEqual
<1> QED
  BY <1>6 DEF a, b, T

(***************************************************************************)
(* Texts behind one another.                                               *)
(***************************************************************************)
FlattensInSteps(seqs, flat) ==
  /\ DOMAIN flat = 0..Len(seqs) /\ flat[0] = <<>>
  /\ \A n \in 1..Len(seqs) : flat[n] = flat[n - 1] \o seqs[n]

\* FlattenSeq puts each text behind those before it.
LEMMA FlattenSteps ==
  ASSUME NEW S, NEW seqs \in Seq(Seq(S))
  PROVE  \E flat : FlattensInSteps(seqs, flat) /\ FlattenSeq(seqs) = flat[Len(seqs)]
<1> DEFINE l == Len(seqs)
           step == [a \in Seq(S) \X (1..l) |-> a[1] \o seqs[a[2]]]
<1>1. l \in Nat /\ \A n \in 1..l : seqs[n] \in Seq(S)
  OBVIOUS
<1>2. <<>> \in Seq(S)
  OBVIOUS
<1>3. Stepping(step, Seq(S), l)
  <2>1. ASSUME NEW a \in Seq(S), NEW n \in 1..l PROVE a \o seqs[n] \in Seq(S)
    BY <1>1, ConcatProperties
  <2> QED
    BY <2>1 DEF Stepping
<1> HIDE DEF l
<1>4. PICK x \in [0..l -> Seq(S)] : x[0] = <<>> /\ \A n \in 1..l : x[n] = step[<<x[n - 1], n>>]
  <2> HIDE DEF step
  <2>1. \E x : Recursive(x, l, Seq(S), <<>>, step)
    BY <1>1, <1>2, <1>3, Recursion
  <2> QED
    BY <2>1 DEF Recursive
<1>5. ASSUME NEW n \in 1..l PROVE x[n] = x[n - 1] \o seqs[n]
  <2>1. n - 1 \in 0..l
    BY <1>1
  <2>2. <<x[n - 1], n>> \in Seq(S) \X (1..l)
    BY <1>4, <2>1
  <2> QED
    BY <1>4, <2>2
<1>6. CASE l = 0
  <2>1. FlattenSeq(seqs) = seqs /\ seqs = <<>>
    BY <1>6, EmptySeq DEF FlattenSeq, l
  <2> QED
    BY <1>4, <1>5, <1>6, <2>1 DEF FlattensInSteps, l
<1>7. CASE l # 0
  <2> DEFINE w == [n \in 1..l |-> x[n]]
  <2>1. 1 \in 1..l /\ x[1] = seqs[1]
    <3>1. 1 \in 1..l /\ 1 - 1 = 0 /\ seqs[1] \in Seq(S)
      BY <1>1, <1>7
    <3>2. x[1] = x[0] \o seqs[1]
      BY <1>5, <3>1
    <3>3. x[0] = <<>>
      BY <1>4
    <3>4. <<>> \o seqs[1] = seqs[1]
      BY <3>1, ConcatEmptySeq
    <3> QED
      BY <3>1, <3>2, <3>3, <3>4
  <2>2. ASSUME NEW n \in 1..l PROVE w[n] = IF n = 1 THEN seqs[n] ELSE w[n - 1] \o seqs[n]
    <3>1. CASE n = 1
      BY <2>1, <3>1
    <3>2. CASE n # 1
      <4>1. n - 1 \in 1..l
        BY <1>1, <3>2
      <4> QED
        BY <1>5, <3>2, <4>1
    <3> QED
      BY <3>1, <3>2
  <2>3. w = [n \in 1..l |-> IF n = 1 THEN seqs[n] ELSE w[n - 1] \o seqs[n]]
    <3>1. DOMAIN w = 1..l /\ w = [n \in 1..l |-> w[n]]
      OBVIOUS
    <3> HIDE DEF w
    <3> QED
      BY <2>2, <3>1
  <2>4. \E z : z = [n \in 1..Len(seqs) |-> IF n = 1 THEN seqs[n] ELSE z[n - 1] \o seqs[n]]
    BY <2>3 DEF l
  <2> DEFINE y[n \in 1..Len(seqs)] == IF n = 1 THEN seqs[n] ELSE y[n - 1] \o seqs[n]
  <2>5. y = [n \in 1..Len(seqs) |-> IF n = 1 THEN seqs[n] ELSE y[n - 1] \o seqs[n]]
    BY <2>4, Zenon
  <2>6. FlattenSeq(seqs) = y[Len(seqs)]
    BY <1>7, Zenon DEF FlattenSeq, l
  <2> HIDE DEF y
  <2> DEFINE g == [n \in 0..l |-> IF n = 0 THEN <<>> ELSE y[n]]
  <2>7. ASSUME NEW n \in 1..l PROVE g[n] = g[n - 1] \o seqs[n]
    <3>1. y[n] = IF n = 1 THEN seqs[n] ELSE y[n - 1] \o seqs[n]
      BY <2>5, Zenon DEF l
    <3>2. n \in 0..l /\ n - 1 \in 0..l /\ n # 0 /\ (n - 1 = 0 <=> n = 1)
      BY <1>1
    <3>3. g[n] = y[n] /\ g[n - 1] = IF n = 1 THEN <<>> ELSE y[n - 1]
      BY <3>2
    <3>4. <<>> \o seqs[n] = seqs[n]
      BY <1>1, ConcatEmptySeq
    <3> QED
      BY <3>1, <3>3, <3>4
  <2>8. DOMAIN g = 0..l /\ g[0] = <<>> /\ g[l] = y[l]
    BY <1>1, <1>7
  <2>9. FlattensInSteps(seqs, g)
    BY <2>7, <2>8 DEF FlattensInSteps, l
  <2> QED
    BY <2>6, <2>8, <2>9 DEF l
<1> QED
  BY <1>6, <1>7

\* Of no texts there is nothing; one text more lies behind the others.
LEMMA FlattenAppend ==
  ASSUME NEW S, NEW seqs \in Seq(Seq(S)), NEW s \in Seq(S)
  PROVE  /\ FlattenSeq(<<>>) = <<>>
         /\ FlattenSeq(Append(seqs, s)) = FlattenSeq(seqs) \o s
<1>1. FlattenSeq(<<>>) = <<>>
  BY DEF FlattenSeq
<1> DEFINE u == Append(seqs, s)
<1>2. /\ u \in Seq(Seq(S)) /\ Len(seqs) \in Nat /\ Len(u) = Len(seqs) + 1
      /\ u[Len(seqs) + 1] = s /\ \A j \in 1..Len(seqs) : u[j] = seqs[j]
  OBVIOUS
<1> HIDE DEF u
<1>3. PICK x : FlattensInSteps(seqs, x) /\ FlattenSeq(seqs) = x[Len(seqs)]
  BY FlattenSteps
<1>4. PICK y : FlattensInSteps(u, y) /\ FlattenSeq(u) = y[Len(u)]
  BY <1>2, FlattenSteps
<1> DEFINE T == {n \in Nat : n <= Len(seqs) => x[n] = y[n]}
<1>5. 0 \in T
  BY <1>3, <1>4 DEF FlattensInSteps
<1>6. ASSUME NEW n \in Nat, n \in T PROVE n + 1 \in T
  <2>1. ASSUME n + 1 <= Len(seqs) PROVE x[n + 1] = y[n + 1]
    <3>1. n + 1 \in 1..Len(seqs) /\ n + 1 \in 1..Len(u) /\ (n + 1) - 1 = n
      BY <1>2, <2>1
    <3>2. x[n] = y[n]
      BY <1>6, <1>2, <2>1
    <3> QED
      BY <1>2, <1>3, <1>4, <3>1, <3>2 DEF FlattensInSteps
  <2> QED
    BY <2>1
<1>7. Len(seqs) \in T
  <2> HIDE DEF T
  <2> QED
    BY <1>2, <1>5, <1>6, Induction
<1>8. Len(u) \in 1..Len(u) /\ Len(u) - 1 = Len(seqs)
  BY <1>2
<1>9. x[Len(seqs)] = y[Len(seqs)]
  BY <1>2, <1>7
<1>10. y[Len(u)] = y[Len(u) - 1] \o u[Len(u)]
  BY <1>4, <1>8 DEF FlattensInSteps
<1>11. y[Len(u)] = x[Len(seqs)] \o s
  BY <1>2, <1>8, <1>9, <1>10
<1> QED
  BY <1>1, <1>3, <1>4, <1>11 DEF u

\* The text of texts is a text.
LEMMA FlattenTyped ==
  ASSUME NEW S, NEW seqs \in Seq(Seq(S))
  PROVE  FlattenSeq(seqs) \in Seq(S)
<1>1. PICK x : FlattensInSteps(seqs, x) /\ FlattenSeq(seqs) = x[Len(seqs)]
  BY FlattenSteps
<1>2. Len(seqs) \in Nat /\ \A j \in 1..Len(seqs) : seqs[j] \in Seq(S)
  OBVIOUS
<1> DEFINE T == {n \in Nat : n <= Len(seqs) => x[n] \in Seq(S)}
<1>3. 0 \in T
  <2>1. <<>> \in Seq(S)
    OBVIOUS
  <2> QED
    BY <1>1, <2>1 DEF FlattensInSteps
<1>4. ASSUME NEW n \in Nat, n \in T PROVE n + 1 \in T
  <2>1. ASSUME n + 1 <= Len(seqs) PROVE x[n + 1] \in Seq(S)
    <3>1. n + 1 \in 1..Len(seqs) /\ (n + 1) - 1 = n /\ x[n] \in Seq(S)
      BY <1>2, <1>4, <2>1
    <3>2. x[n + 1] = x[n] \o seqs[n + 1]
      BY <1>1, <3>1 DEF FlattensInSteps
    <3> QED
      BY <1>2, <3>1, <3>2, ConcatProperties
  <2> QED
    BY <2>1
<1>5. Len(seqs) \in T
  <2> HIDE DEF T
  <2> QED
    BY <1>2, <1>3, <1>4, Induction
<1> QED
  BY <1>1, <1>2, <1>5

\* Three texts put together one way or the other are the same text.
Regrouped(w, g, t) == (w \o g) \o t = w \o (g \o t)

\* Concatenation is associative, in a form that is cited for one set of texts.
LEMMA Regroup ==
  \A S : \A w, g, t \in Seq(S) : Regrouped(w, g, t)
<1> SUFFICES ASSUME NEW S, NEW w \in Seq(S), NEW g \in Seq(S), NEW t \in Seq(S)
             PROVE  Regrouped(w, g, t)
  OBVIOUS
<1> QED
  BY ConcatAssociative DEF Regrouped

\* What is added to the last text, and a text more, come at the end.
FlattensLast(seqs, p, g, t) ==
  FlattenSeq(Append(Append(seqs, p \o g), t)) = FlattenSeq(Append(seqs, p)) \o (g \o t)

\* What is added to the last text, and a text more, come at the end of all.
LEMMA FlattenLast ==
  \A S : \A seqs \in Seq(Seq(S)), p, g, t \in Seq(S) : FlattensLast(seqs, p, g, t)
<1> SUFFICES ASSUME NEW S, NEW seqs \in Seq(Seq(S)), NEW p \in Seq(S), NEW g \in Seq(S), NEW t \in Seq(S)
             PROVE  FlattensLast(seqs, p, g, t)
  OBVIOUS
<1> DEFINE h == FlattenSeq(seqs)
           u == Append(seqs, p \o g)
<1>1. p \o g \in Seq(S)
  BY ConcatProperties
<1>2. FlattenSeq(Append(seqs, p)) = h \o p
  BY FlattenAppend
<1>3. ASSUME NEW w \in Seq(S)
      PROVE  FlattenSeq(Append(seqs, w)) = h \o w /\ Append(seqs, w) \in Seq(Seq(S))
  BY FlattenAppend, AppendProperties
<1>4. FlattenSeq(u) = h \o (p \o g) /\ u \in Seq(Seq(S))
  BY <1>1, <1>3
<1> HIDE DEF u
<1>5. FlattenSeq(Append(u, t)) = FlattenSeq(u) \o t
  BY <1>4, FlattenAppend
<1>6. h \in Seq(S)
  BY FlattenTyped
<1> HIDE DEF h
<1>7. (h \o (p \o g)) \o t = (h \o p) \o (g \o t)
  <2>1. h \o p \in Seq(S)
    BY <1>6, ConcatProperties
  <2>2. Regrouped(h, p, g)
    BY <1>6, Regroup, Zenon
  <2>3. Regrouped(h \o p, g, t)
    BY <2>1, Regroup, Zenon
  <2> QED
    BY <2>2, <2>3, Zenon DEF Regrouped
<1> QED
  BY <1>2, <1>4, <1>5, <1>7 DEF u, FlattensLast

(***************************************************************************)
(* Numerals.                                                               *)
(***************************************************************************)
Digits == {lookup[d] : d \in 1..16}

\* The digit of a value, and its value, are each other's only.
DigitValue(c) == CHOOSE d \in 0..15 : lookup[d + 1] = c

\* Two values have two digits.
LEMMA LookupDiffers ==
  ASSUME NEW a \in 0..15, NEW b \in 0..15, lookup[a + 1] = lookup[b + 1]
  PROVE  a = b
BY DEF lookup

\* A digit stands for one value, and only the digit 0 stands for 0.
LEMMA DigitFacts ==
  ASSUME NEW d \in 0..15
  PROVE  /\ lookup[d + 1] \in Digits /\ DigitValue(lookup[d + 1]) = d
         /\ lookup[d + 1] = "0" => d = 0
<1>1. d + 1 \in 1..16
  OBVIOUS
<1>2. lookup[d + 1] \in Digits
  BY <1>1 DEF Digits
<1>3. DigitValue(lookup[d + 1]) \in 0..15 /\ lookup[DigitValue(lookup[d + 1]) + 1] = lookup[d + 1]
  BY DEF DigitValue
<1>4. DigitValue(lookup[d + 1]) = d
  BY <1>3, LookupDiffers
<1>5. lookup[0 + 1] = "0" /\ 0 \in 0..15
  BY DEF lookup
<1>6. lookup[d + 1] = "0" => d = 0
  BY <1>5, LookupDiffers
<1> QED
  BY <1>2, <1>4, <1>6

\* A newline is no digit of itoa.
LEMMA NewLineNoDigit == NewLine \notin Digits
<1>1. \A d \in 1..16 : lookup[d] # NewLine
  BY DEF lookup, NewLine
<1> QED
  BY <1>1 DEF Digits

\* A quotient is less, and what is left is a digit.
LEMMA Quotient ==
  ASSUME NEW radix \in 2..16, NEW v \in Nat \ {0}
  PROVE  /\ v \div radix \in 0..(v - 1) /\ v % radix \in 0..15
         /\ radix * (v \div radix) + (v % radix) = v
<1>1. radix \in Nat \ {0}
  OBVIOUS
<1> DEFINE q == v \div radix
           d == v % radix
<1>2. q \in Nat /\ d \in 0..(radix - 1) /\ q * radix + d = v
  BY <1>1, DivModNat
<1> HIDE DEF q, d
<1>3. radix * q = q * radix
  BY <1>2, SMT
<1>4. q < v
  <2>1. q * radix >= q * 2
    BY <1>2, SMT
  <2> QED
    BY <1>2, <2>1, SMT
<1> QED
  BY <1>2, <1>3, <1>4 DEF q, d

\* The digits from the lowest place up, as far as a bound.
PlacesTo(p, n, radix) ==
  /\ p \in [0..n -> Seq(Digits)] /\ p[0] = <<>>
  /\ \A v \in 1..n : p[v] = <<lookup[(v % radix) + 1]>> \o p[v \div radix]

\* Up to every bound there are such digits.
LEMMA PlacesToExist ==
  ASSUME NEW radix \in 2..16, NEW n \in Nat
  PROVE  \E p : PlacesTo(p, n, radix)
<1> DEFINE T == {m \in Nat : \E p : PlacesTo(p, m, radix)}
<1>1. 0 \in T
  <2>1. PlacesTo([v \in 0..0 |-> <<>>], 0, radix)
    <3>1. <<>> \in Seq(Digits)
      OBVIOUS
    <3> QED
      BY <3>1 DEF PlacesTo
  <2> QED
    BY <2>1
<1>2. ASSUME NEW m \in Nat, m \in T PROVE m + 1 \in T
  <2>1. PICK p : PlacesTo(p, m, radix)
    BY <1>2
  <2> DEFINE q == (m + 1) \div radix
             c == lookup[((m + 1) % radix) + 1]
             g == [v \in 0..(m + 1) |-> IF v = m + 1 THEN <<c>> \o p[q] ELSE p[v]]
  <2>2. q \in 0..m /\ c \in Digits
    <3>1. m + 1 \in Nat \ {0} /\ (m + 1) - 1 = m
      OBVIOUS
    <3> QED
      BY <3>1, Quotient, DigitFacts
  <2> HIDE DEF q, c
  <2>3. p[q] \in Seq(Digits) /\ <<c>> \o p[q] \in Seq(Digits)
    <3>1. p[q] \in Seq(Digits) /\ <<c>> \in Seq(Digits)
      BY <2>1, <2>2 DEF PlacesTo
    <3> QED
      BY <3>1, ConcatProperties
  <2>4. g \in [0..(m + 1) -> Seq(Digits)] /\ g[0] = <<>>
    BY <2>1, <2>3 DEF PlacesTo
  <2>5. ASSUME NEW v \in 1..(m + 1)
        PROVE  g[v] = <<lookup[(v % radix) + 1]>> \o g[v \div radix]
    <3>1. v \div radix \in 0..(v - 1)
      BY Quotient
    <3> DEFINE w == v \div radix
    <3>2. w \in 0..(m + 1) /\ w # m + 1
      BY <3>1
    <3> HIDE DEF w
    <3>3. g[w] = p[w]
      BY <3>2
    <3>4. CASE v = m + 1
      BY <3>3, <3>4 DEF q, c, w
    <3>5. CASE v # m + 1
      <4>1. v \in 1..m /\ v \in 0..(m + 1) /\ g[v] = p[v]
        BY <3>5
      <4>2. p[v] = <<lookup[(v % radix) + 1]>> \o p[w]
        BY <2>1, <4>1 DEF PlacesTo, w
      <4> QED
        BY <3>3, <4>1, <4>2 DEF w
    <3> QED
      BY <3>4, <3>5
  <2>6. PlacesTo(g, m + 1, radix)
    BY <2>4, <2>5 DEF PlacesTo
  <2> QED
    BY <2>6
<1>3. n \in T
  <2> HIDE DEF T
  <2> QED
    BY <1>1, <1>2, Induction
<1> QED
  BY <1>3

\* The bound does not matter.
LEMMA PlacesToAgree ==
  ASSUME NEW radix \in 2..16, NEW m \in Nat, NEW n \in Nat,
         NEW p, PlacesTo(p, m, radix), NEW q, PlacesTo(q, n, radix)
  PROVE  \A x \in Nat : x <= m /\ x <= n => p[x] = q[x]
<1> DEFINE T == {l \in Nat : \A v \in 0..l : v <= m /\ v <= n => p[v] = q[v]}
<1>1. 0 \in T
  BY DEF PlacesTo
<1>2. ASSUME NEW l \in Nat, l \in T PROVE l + 1 \in T
  <2>1. SUFFICES ASSUME NEW v \in 0..(l + 1), v <= m, v <= n PROVE p[v] = q[v]
    OBVIOUS
  <2>2. CASE v = 0
    BY <2>2 DEF PlacesTo
  <2>3. CASE v # 0
    <3> DEFINE w == v \div radix
    <3>1. w \in 0..l /\ w <= m /\ w <= n
      BY <2>1, <2>3, Quotient
    <3>2. p[w] = q[w]
      BY <1>2, <3>1
    <3>3. v \in 1..m /\ v \in 1..n
      BY <2>1, <2>3
    <3>4. p[v] = <<lookup[(v % radix) + 1]>> \o p[w] /\ q[v] = <<lookup[(v % radix) + 1]>> \o q[w]
      BY <3>3 DEF PlacesTo
    <3> QED
      BY <3>2, <3>4
  <2> QED
    BY <2>2, <2>3
<1>3. Nat \subseteq T
  <2> HIDE DEF T
  <2> QED
    BY <1>1, <1>2, Induction
<1>4. ASSUME NEW x \in Nat, x <= m, x <= n PROVE p[x] = q[x]
  <2>1. x \in T /\ x \in 0..x
    BY <1>3
  <2> QED
    BY <1>4, <2>1
<1> QED
  BY <1>4

\* The recursion of itoa: all places at once.
AllPlaces(p, radix) ==
  /\ p \in [Nat -> Seq(Digits)] /\ p[0] = <<>>
  /\ \A v \in Nat \ {0} : p[v] = <<lookup[(v % radix) + 1]>> \o p[v \div radix]

\* The function itoa fills its places by is defined for every number.
LEMMA AllPlacesExist ==
  ASSUME NEW radix \in 2..16
  PROVE  \E p : AllPlaces(p, radix)
<1> DEFINE to == [n \in Nat |-> CHOOSE p : PlacesTo(p, n, radix)]
           p == [v \in Nat |-> to[v][v]]
<1>1. ASSUME NEW n \in Nat PROVE PlacesTo(to[n], n, radix)
  BY PlacesToExist
<1> HIDE DEF to
<1>2. p \in [Nat -> Seq(Digits)] /\ p[0] = <<>>
  <2>1. ASSUME NEW v \in Nat PROVE to[v][v] \in Seq(Digits)
    <3>1. v \in 0..v
      OBVIOUS
    <3> QED
      BY <1>1, <3>1 DEF PlacesTo
  <2>2. to[0][0] = <<>>
    BY <1>1 DEF PlacesTo
  <2> QED
    BY <2>1, <2>2
<1>3. ASSUME NEW v \in Nat \ {0} PROVE p[v] = <<lookup[(v % radix) + 1]>> \o p[v \div radix]
  <2> DEFINE w == v \div radix
  <2>1. w \in Nat /\ w <= v
    BY Quotient
  <2>2. p[v] = <<lookup[(v % radix) + 1]>> \o to[v][w]
    <3>1. v \in 1..v
      OBVIOUS
    <3>2. PlacesTo(to[v], v, radix)
      BY <1>1
    <3>3. p[v] = to[v][v]
      OBVIOUS
    <3> HIDE DEF p
    <3> QED
      BY <3>1, <3>2, <3>3 DEF PlacesTo
  <2> HIDE DEF w
  <2>3. p[w] = to[w][w]
    BY <2>1
  <2>4. to[v][w] = to[w][w]
    <3>1. PlacesTo(to[v], v, radix) /\ PlacesTo(to[w], w, radix)
      BY <1>1, <2>1
    <3>2. ASSUME NEW m \in Nat, NEW l \in Nat, l <= m,
                 NEW a, PlacesTo(a, m, radix), NEW b, PlacesTo(b, l, radix)
          PROVE  a[l] = b[l]
      <4>1. \A x \in Nat : x <= m /\ x <= l => a[x] = b[x]
        <5>1. radix \in 2..16 /\ m \in Nat /\ l \in Nat /\ PlacesTo(a, m, radix) /\ PlacesTo(b, l, radix)
          BY <3>2
        <5> QED
          BY <5>1, PlacesToAgree
      <4> QED
        BY <3>2, <4>1
    <3> HIDE DEF to
    <3> QED
      BY <2>1, <3>1, <3>2
  <2> QED
    BY <2>2, <2>3, <2>4 DEF w
<1> QED
  BY <1>2, <1>3 DEF AllPlaces

\* What itoa writes is the places from the highest down.
LEMMA ItoaPlaces ==
  ASSUME NEW radix \in 2..16
  PROVE  \E p : AllPlaces(p, radix) /\ \A v \in Nat \ {0} : itoa(v, radix) = Reverse(p[v])
<1>1. PICK x : AllPlaces(x, radix)
  BY AllPlacesExist
<1>2. x = [v \in Nat |-> IF v = 0 THEN <<>> ELSE <<lookup[(v % radix) + 1]>> \o x[v \div radix]]
  <2>1. x = [v \in Nat |-> x[v]]
    BY <1>1 DEF AllPlaces
  <2>2. \A v \in Nat : x[v] = IF v = 0 THEN <<>> ELSE <<lookup[(v % radix) + 1]>> \o x[v \div radix]
    BY <1>1 DEF AllPlaces
  <2> QED
    BY <2>1, <2>2
<1> DEFINE y[v \in Nat] ==
             IF v = 0 THEN <<>> ELSE <<lookup[(v % radix) + 1]>> \o y[v \div radix]
<1>3. y = [v \in Nat |-> IF v = 0 THEN <<>> ELSE <<lookup[(v % radix) + 1]>> \o y[v \div radix]]
  <2>1. \E z : z = [v \in Nat |-> IF v = 0 THEN <<>>
                                  ELSE <<lookup[(v % radix) + 1]>> \o z[v \div radix]]
    BY <1>2
  <2> QED
    BY <2>1, Zenon
<1>4. ASSUME NEW v \in Nat \ {0} PROVE itoa(v, radix) = Reverse(y[v])
  BY <1>4, Zenon DEF itoa, strrev
<1> HIDE DEF y
<1>5. AllPlaces(y, radix)
  <2>1. DOMAIN y = Nat /\ y = [v \in Nat |-> y[v]]
    BY <1>3, Zenon
  <2>2. \A v \in Nat : y[v] = IF v = 0 THEN <<>> ELSE <<lookup[(v % radix) + 1]>> \o y[v \div radix]
    BY <1>3, Zenon
  <2> DEFINE T == {l \in Nat : \A v \in 0..l : y[v] \in Seq(Digits)}
  <2>3. 0 \in T
    <3>1. y[0] = <<>> /\ <<>> \in Seq(Digits)
      <4>1. 0 \in Nat /\ <<>> \in Seq(Digits)
        OBVIOUS
      <4> QED
        BY <2>2, <4>1, Zenon
    <3>2. \A v \in 0..0 : v = 0
      OBVIOUS
    <3> QED
      BY <3>1, <3>2
  <2>4. ASSUME NEW l \in Nat, l \in T PROVE l + 1 \in T
    <3>1. ASSUME NEW v \in 0..(l + 1), v # 0 PROVE y[v] \in Seq(Digits)
      <4>1. v \div radix \in 0..l /\ lookup[(v % radix) + 1] \in Digits
        <5>1. v \in Nat \ {0} /\ v \in 1..(l + 1)
          BY <3>1
        <5>2. v \div radix \in 0..(v - 1) /\ v % radix \in 0..15
          BY <5>1, Quotient
        <5> QED
          BY <5>1, <5>2, DigitFacts
      <4>2. y[v \div radix] \in Seq(Digits) /\ <<lookup[(v % radix) + 1]>> \in Seq(Digits)
        BY <2>4, <4>1
      <4>3. y[v] = <<lookup[(v % radix) + 1]>> \o y[v \div radix]
        <5>1. v \in Nat /\ v # 0
          BY <3>1
        <5> QED
          BY <2>2, <5>1, Zenon
      <4> QED
        BY <4>2, <4>3, ConcatProperties
    <3>2. y[0] \in Seq(Digits)
      BY <2>4
    <3> QED
      BY <3>1, <3>2
  <2>5. Nat \subseteq T
    <3> HIDE DEF T
    <3> QED
      BY <2>3, <2>4, Induction
  <2>6. ASSUME NEW v \in Nat PROVE y[v] \in Seq(Digits)
    <3>1. v \in T /\ v \in 0..v
      BY <2>5
    <3> QED
      BY <3>1
  <2> QED
    BY <2>1, <2>2, <2>6 DEF AllPlaces
<1> QED
  BY <1>4, <1>5

\* The value of a numeral, from the highest place down.
ValuesInSteps(s, radix, x) ==
  /\ DOMAIN x = 0..Len(s) /\ x[0] = 0
  /\ \A n \in 1..Len(s) : x[n] = radix * x[n - 1] + DigitValue(s[n])

\* The fold of Value goes a digit at a time.
LEMMA ValueSteps ==
  ASSUME NEW radix \in 2..16, NEW s \in Seq(Digits)
  PROVE  \E x : ValuesInSteps(s, radix, x) /\ Value(s, radix) = x[Len(s)]
             /\ \A n \in 0..Len(s) : x[n] \in Nat
<1> DEFINE l == Len(s)
           step == [a \in Nat \X (1..l) |-> radix * a[1] + DigitValue(s[a[2]])]
<1>1. l \in Nat /\ \A n \in 1..l : s[n] \in Digits
  OBVIOUS
<1>2. \A n \in 1..l : DigitValue(s[n]) \in Nat
  <2>1. ASSUME NEW c \in Digits PROVE DigitValue(c) \in Nat
    <3>1. PICK e \in 1..16 : c = lookup[e]
      BY DEF Digits
    <3>2. e - 1 \in 0..15 /\ (e - 1) + 1 = e
      OBVIOUS
    <3>3. DigitValue(lookup[(e - 1) + 1]) = e - 1
      BY <3>2, DigitFacts
    <3> QED
      BY <3>1, <3>2, <3>3
  <2> QED
    BY <1>1, <2>1
<1>3. Stepping(step, Nat, l)
  <2>1. ASSUME NEW a \in Nat, NEW n \in 1..l PROVE radix * a + DigitValue(s[n]) \in Nat
    <3>1. DigitValue(s[n]) \in Nat
      BY <1>2
    <3> QED
      BY <3>1, SMT
  <2> QED
    BY <2>1 DEF Stepping
<1> HIDE DEF l
<1>4. PICK x \in [0..l -> Nat] : x[0] = 0 /\ \A n \in 1..l : x[n] = step[<<x[n - 1], n>>]
  <2> HIDE DEF step
  <2>1. \E x : Recursive(x, l, Nat, 0, step)
    BY <1>1, <1>3, Recursion
  <2> QED
    BY <2>1 DEF Recursive
<1>5. ASSUME NEW n \in 1..l PROVE x[n] = radix * x[n - 1] + DigitValue(s[n])
  <2>1. n - 1 \in 0..l
    BY <1>1
  <2>2. <<x[n - 1], n>> \in Nat \X (1..l)
    BY <1>4, <2>1
  <2> QED
    BY <1>4, <2>2
<1>6. ASSUME NEW n \in 0..l
      PROVE  x[n] = IF n = 0 THEN 0 ELSE radix * x[n - 1] + DigitValue(s[n])
  <2>1. n # 0 => n \in 1..l
    BY <1>1
  <2> QED
    BY <1>4, <1>5, <2>1, Zenon
<1>7. x = [n \in 0..l |-> IF n = 0 THEN 0 ELSE radix * x[n - 1] + DigitValue(s[n])]
  <2>1. x = [n \in 0..l |-> x[n]]
    BY <1>4
  <2> QED
    BY <1>6, <2>1
<1>8. \E z : z = [n \in 0..Len(s) |->
                    IF n = 0 THEN 0
                    ELSE radix * z[n - 1] + (CHOOSE d \in 0..15 : lookup[d + 1] = s[n])]
  BY <1>7, Zenon DEF l, DigitValue
<1> DEFINE y[n \in 0..Len(s)] ==
             IF n = 0 THEN 0 ELSE radix * y[n - 1] + (CHOOSE d \in 0..15 : lookup[d + 1] = s[n])
<1>9. y = [n \in 0..Len(s) |->
             IF n = 0 THEN 0
             ELSE radix * y[n - 1] + (CHOOSE d \in 0..15 : lookup[d + 1] = s[n])]
  BY <1>8, Zenon
<1>10. Value(s, radix) = y[Len(s)]
  BY Zenon DEF Value
<1> HIDE DEF y
<1>11. /\ DOMAIN y = 0..l
       /\ \A n \in 0..l : y[n] = IF n = 0 THEN 0 ELSE radix * y[n - 1] + DigitValue(s[n])
  BY <1>9, Zenon DEF DigitValue, l
<1>12. 0 \in 0..l /\ \A n \in 1..l : n \in 0..l /\ n # 0
  BY <1>1
<1>13. ValuesInSteps(s, radix, y)
  BY <1>11, <1>12, Zenon DEF ValuesInSteps, l
<1> DEFINE T == {n \in Nat : n <= l => y[n] \in Nat}
<1>14. 0 \in T
  BY <1>11, <1>12
<1>15. ASSUME NEW n \in Nat, n \in T PROVE n + 1 \in T
  <2>1. ASSUME n + 1 <= l PROVE y[n + 1] \in Nat
    <3>1. n + 1 \in 1..l /\ (n + 1) - 1 = n /\ y[n] \in Nat
      BY <1>1, <1>15, <2>1
    <3>2. y[n + 1] = radix * y[n] + DigitValue(s[n + 1])
      BY <1>13, <3>1 DEF ValuesInSteps, l
    <3>3. DigitValue(s[n + 1]) \in Nat
      BY <1>2, <3>1
    <3> QED
      BY <3>1, <3>2, <3>3, SMT
  <2> QED
    BY <2>1
<1>16. Nat \subseteq T
  <2> HIDE DEF T
  <2> QED
    BY <1>14, <1>15, Induction
<1>17. \A n \in 0..l : y[n] \in Nat
  BY <1>16
<1> QED
  BY <1>10, <1>13, <1>17 DEF l

\* One digit more.
LEMMA ValueAppend ==
  ASSUME NEW radix \in 2..16, NEW s \in Seq(Digits), NEW c \in Digits
  PROVE  /\ Value(<<>>, radix) = 0 /\ Value(s, radix) \in Nat
         /\ Value(Append(s, c), radix) = radix * Value(s, radix) + DigitValue(c)
<1>1. Value(<<>>, radix) = 0
  <2>1. <<>> \in Seq(Digits) /\ Len(<<>>) = 0
    OBVIOUS
  <2> QED
    BY <2>1, ValueSteps DEF ValuesInSteps
<1> DEFINE u == Append(s, c)
<1>2. /\ u \in Seq(Digits) /\ Len(s) \in Nat /\ Len(u) = Len(s) + 1 /\ u[Len(s) + 1] = c
      /\ \A j \in 1..Len(s) : u[j] = s[j]
  OBVIOUS
<1> HIDE DEF u
<1>3. PICK x : /\ ValuesInSteps(s, radix, x) /\ Value(s, radix) = x[Len(s)]
               /\ \A n \in 0..Len(s) : x[n] \in Nat
  BY ValueSteps
<1>4. PICK y : ValuesInSteps(u, radix, y) /\ Value(u, radix) = y[Len(u)]
  BY <1>2, ValueSteps
<1> DEFINE T == {n \in Nat : n <= Len(s) => x[n] = y[n]}
<1>5. 0 \in T
  BY <1>3, <1>4 DEF ValuesInSteps
<1>6. ASSUME NEW n \in Nat, n \in T PROVE n + 1 \in T
  <2>1. ASSUME n + 1 <= Len(s) PROVE x[n + 1] = y[n + 1]
    <3>1. n + 1 \in 1..Len(s) /\ n + 1 \in 1..Len(u) /\ (n + 1) - 1 = n
      BY <1>2, <2>1
    <3>2. x[n] = y[n] /\ u[n + 1] = s[n + 1]
      BY <1>2, <1>6, <2>1, <3>1
    <3>3. /\ x[n + 1] = radix * x[n] + DigitValue(s[n + 1])
          /\ y[n + 1] = radix * y[n] + DigitValue(u[n + 1])
      BY <1>3, <1>4, <3>1 DEF ValuesInSteps
    <3> QED
      BY <3>2, <3>3
  <2> QED
    BY <2>1
<1>7. Len(s) \in T
  <2> HIDE DEF T
  <2> QED
    BY <1>2, <1>5, <1>6, Induction
<1>8. Len(u) \in 1..Len(u) /\ Len(u) - 1 = Len(s) /\ u[Len(u)] = c /\ y[Len(s)] = x[Len(s)]
  BY <1>2, <1>7
<1>9. y[Len(u)] = radix * y[Len(u) - 1] + DigitValue(u[Len(u)])
  BY <1>4, <1>8 DEF ValuesInSteps
<1>10. Value(u, radix) = radix * Value(s, radix) + DigitValue(c)
  BY <1>3, <1>4, <1>8, <1>9
<1>11. Value(s, radix) \in Nat
  BY <1>2, <1>3
<1> QED
  BY <1>1, <1>10, <1>11 DEF u

\* Reversed, a character in front comes last.
LEMMA ReverseFacts ==
  ASSUME NEW S, NEW s \in Seq(S), NEW c \in S
  PROVE  Reverse(<<>>) = <<>> /\ Reverse(s) \in Seq(S) /\ Reverse(<<c>> \o s) = Append(Reverse(s), c)
<1>1. Reverse(<<>>) = <<>>
  BY DEF Reverse
<1> DEFINE u == <<c>> \o s
           l == Len(s)
<1>2. /\ u \in Seq(S) /\ Len(u) = l + 1 /\ u[1] = c /\ \A j \in 1..l : u[j + 1] = s[j]
      /\ l \in Nat /\ \A j \in 1..l : s[j] \in S
  OBVIOUS
<1> HIDE DEF u, l
<1>3. /\ Reverse(s) = [i \in 1..l |-> s[(l - i) + 1]]
      /\ Reverse(u) = [i \in 1..(l + 1) |-> u[((l + 1) - i) + 1]]
  BY <1>2 DEF Reverse, l
<1> DEFINE r == Reverse(s)
           w == Reverse(u)
<1>4. ASSUME NEW i \in 1..l PROVE r[i] = s[(l - i) + 1] /\ r[i] \in S
  BY <1>2, <1>3
<1>5. r \in Seq(S) /\ Len(r) = l
  BY <1>2, <1>3, <1>4
<1>6. ASSUME NEW i \in 1..(l + 1)
      PROVE  w[i] = IF i = l + 1 THEN c ELSE r[i]
  <2>1. w[i] = u[((l + 1) - i) + 1]
    BY <1>3
  <2>2. CASE i = l + 1
    BY <1>2, <2>1, <2>2
  <2>3. CASE i # l + 1
    <3>1. i \in 1..l /\ (l - i) + 1 \in 1..l /\ ((l - i) + 1) + 1 = ((l + 1) - i) + 1
      BY <1>2, <2>3
    <3> QED
      BY <1>2, <1>4, <2>1, <2>3, <3>1
  <2> QED
    BY <2>2, <2>3
<1>7. w \in Seq(S) /\ Len(w) = l + 1
  <2>1. \A i \in 1..(l + 1) : w[i] \in S
    BY <1>2, <1>4, <1>6
  <2> QED
    BY <1>2, <1>3, <2>1
<1> HIDE DEF r, w
<1>8. /\ Append(r, c) \in Seq(S) /\ Len(Append(r, c)) = l + 1
      /\ \A i \in 1..(l + 1) : Append(r, c)[i] = IF i = l + 1 THEN c ELSE r[i]
  BY <1>2, <1>5
<1>9. w = Append(r, c)
  BY <1>6, <1>7, <1>8, SeqEqual
<1> QED
  BY <1>1, <1>5, <1>9 DEF r, w, u

\* itoa writes the numeral of a number, without a zero in front.
THEOREM Itoa ==
  ASSUME NEW radix \in 2..16, NEW v \in Nat \ {0}
  PROVE  /\ itoa(v, radix) \in Seq(Digits) /\ itoa(v, radix) # <<>>
         /\ itoa(v, radix)[1] # "0"
         /\ Value(itoa(v, radix), radix) = v
<1>1. PICK p : AllPlaces(p, radix) /\ \A w \in Nat \ {0} : itoa(w, radix) = Reverse(p[w])
  BY ItoaPlaces
<1> DEFINE Good(w) == /\ Reverse(p[w]) \in Seq(Digits)
                      /\ Value(Reverse(p[w]), radix) = w
                      /\ w # 0 => Reverse(p[w]) # <<>> /\ Reverse(p[w])[1] # "0"
                      /\ w = 0 => Reverse(p[w]) = <<>>
           T == {l \in Nat : \A w \in 0..l : Good(w)}
<1>2. Good(0)
  <2>1. p[0] = <<>> /\ <<>> \in Seq(Digits)
    BY <1>1 DEF AllPlaces
  <2>2. Reverse(<<>>) = <<>>
    BY DEF Reverse
  <2>3. lookup[0 + 1] \in Digits
    BY DigitFacts
  <2>4. Value(<<>>, radix) = 0
    BY <2>1, <2>3, ValueAppend
  <2> QED
    BY <2>1, <2>2, <2>4
<1>3. ASSUME NEW w \in Nat \ {0}, Good(w \div radix) PROVE Good(w)
  <2> DEFINE q == w \div radix
             d == w % radix
             c == lookup[d + 1]
             r == Reverse(p[q])
  <2>1. q \in 0..(w - 1) /\ d \in 0..15 /\ radix * q + d = w
    BY Quotient
  <2> HIDE DEF q, d
  <2>2. c \in Digits /\ DigitValue(c) = d /\ (c = "0" => d = 0)
    BY <2>1, DigitFacts
  <2>3. p[w] = <<c>> \o p[q] /\ p[q] \in Seq(Digits)
    <3>1. q \in Nat
      BY <2>1
    <3>2. p[w] = <<lookup[d + 1]>> \o p[q]
      BY <1>1 DEF AllPlaces, q, d
    <3>3. p[q] \in Seq(Digits)
      BY <1>1, <3>1 DEF AllPlaces
    <3> QED
      BY <3>2, <3>3
  <2> HIDE DEF c
  <2>4. Reverse(p[w]) = Append(r, c)
    BY <2>2, <2>3, ReverseFacts
  <2>5. Good(q)
    BY <1>3 DEF q
  <2> HIDE DEF r
  <2>6. /\ r \in Seq(Digits) /\ Value(r, radix) = q
        /\ (q # 0 => r # <<>> /\ r[1] # "0") /\ (q = 0 => r = <<>>)
    BY <2>5 DEF r
  <2>7. Value(Append(r, c), radix) = w
    BY <2>1, <2>2, <2>6, ValueAppend
  <2>8. Append(r, c) \in Seq(Digits) /\ Append(r, c) # <<>>
    BY <2>2, <2>6, AppendProperties
  <2>9. Append(r, c)[1] # "0"
    <3>1. CASE q = 0
      <4>1. Append(r, c)[1] = c
        BY <2>6, <3>1
      <4>2. d = w
        BY <2>1, <3>1
      <4> QED
        BY <2>2, <4>1, <4>2
    <3>2. CASE q # 0
      <4>1. Append(r, c)[1] = r[1]
        BY <2>2, <2>6, <3>2
      <4> QED
        BY <2>6, <3>2, <4>1
    <3> QED
      BY <3>1, <3>2
  <2> QED
    BY <2>4, <2>7, <2>8, <2>9
<1> HIDE DEF Good
<1>4. 0 \in T
  <2>1. \A w \in 0..0 : w = 0
    OBVIOUS
  <2> QED
    BY <1>2, <2>1
<1>5. ASSUME NEW l \in Nat, l \in T PROVE l + 1 \in T
  <2>1. ASSUME NEW w \in 0..(l + 1) PROVE Good(w)
    <3>1. CASE w = 0
      BY <1>2, <3>1
    <3>2. CASE w # 0
      <4>1. w \in Nat \ {0} /\ w - 1 <= l
        BY <3>2
      <4>2. w \div radix \in 0..l
        BY <4>1, Quotient
      <4> QED
        BY <1>3, <1>5, <4>1, <4>2
    <3> QED
      BY <3>1, <3>2
  <2> QED
    BY <2>1
<1>6. v \in T
  <2> HIDE DEF T
  <2> QED
    BY <1>4, <1>5, Induction
<1>7. Good(v)
  BY <1>6
<1> QED
  BY <1>1, <1>7 DEF Good

(***************************************************************************)
(* Searching a text: what one character more changes.                      *)
(***************************************************************************)
\* The first of some positions, or the one behind the text.
LEMMA FirstGrows ==
  ASSUME NEW n \in Nat, NEW B \in SUBSET (1..n)
  PROVE  LET m == Min(B \cup {n + 1})
         IN  /\ m \in B \cup {n + 1} /\ \A y \in B : m <= y
             /\ Min((B \cup {n + 1}) \cup {n + 2}) = m
             /\ Min(B \cup {n + 2}) = IF m <= n THEN m ELSE n + 2
<1> DEFINE m == Min(B \cup {n + 1})
<1>1. \A y \in B : y \in Nat /\ y <= n
  OBVIOUS
<1>2. m \in B \cup {n + 1} /\ \A y \in B \cup {n + 1} : m <= y
  <2>1. B \cup {n + 1} \subseteq Nat /\ B \cup {n + 1} # {}
    BY <1>1
  <2>2. \E x \in B \cup {n + 1} : \A y \in B \cup {n + 1} : x <= y
    BY <2>1, LeastNumber
  <2> QED
    BY <2>2 DEF Min
<1> HIDE DEF m
<1>3. ASSUME NEW T, T \subseteq Nat, NEW z \in T, \A y \in T : z <= y
      PROVE  Min(T) = z
  <2>1. Min(T) \in T /\ \A y \in T : Min(T) <= y
    BY <1>3 DEF Min
  <2>2. Min(T) \in Nat /\ z \in Nat /\ Min(T) <= z /\ z <= Min(T)
    BY <1>3, <2>1
  <2> QED
    BY <2>2
<1>4. Min((B \cup {n + 1}) \cup {n + 2}) = m
  <2>1. (B \cup {n + 1}) \cup {n + 2} \subseteq Nat /\ m \in (B \cup {n + 1}) \cup {n + 2}
    BY <1>1, <1>2
  <2>2. \A y \in (B \cup {n + 1}) \cup {n + 2} : m <= y
    BY <1>1, <1>2
  <2> QED
    BY <1>3, <2>1, <2>2
<1>5. CASE m <= n
  <2>1. m \in B
    BY <1>2, <1>5
  <2>2. B \cup {n + 2} \subseteq Nat /\ m \in B \cup {n + 2} /\ \A y \in B \cup {n + 2} : m <= y
    BY <1>1, <1>2, <1>5, <2>1
  <2>3. Min(B \cup {n + 2}) = m
    BY <1>3, <2>2
  <2> QED
    BY <1>2, <1>4, <1>5, <2>3 DEF m
<1>6. CASE ~(m <= n)
  <2>1. m = n + 1 /\ B = {}
    BY <1>1, <1>2, <1>6
  <2>2. {n + 2} \subseteq Nat /\ B \cup {n + 2} = {n + 2}
    BY <2>1
  <2>3. Min(B \cup {n + 2}) = n + 2
    BY <1>3, <2>2
  <2> QED
    BY <1>2, <1>4, <1>6, <2>3 DEF m
<1> QED
  BY <1>5, <1>6

\* A character more moves the place copying stops at only where it ran to the end.
LEMMA UpToAppend ==
  ASSUME NEW S, NEW c \in Seq(S), NEW x \in S, NEW C, NEW f \in 1..(Len(c) + 1)
  PROVE  /\ UpTo(c, f, C) \in f..(Len(c) + 1)
         /\ UpTo(Append(c, x), f, C) =
              IF UpTo(c, f, C) <= Len(c) \/ x \in C THEN UpTo(c, f, C) ELSE Len(c) + 2
<1> DEFINE n == Len(c)
           u == Append(c, x)
           B == {j \in f..n : c[j] \in C}
           D == {j \in f..(n + 1) : u[j] \in C}
<1>1. n \in Nat /\ Len(u) = n + 1 /\ u[n + 1] = x /\ \A j \in 1..n : u[j] = c[j]
  OBVIOUS
<1>2. B \in SUBSET (1..n) /\ n + 1 \in f..(n + 1) /\ f \in Nat
  BY <1>1
<1>3. D = IF x \in C THEN B \cup {n + 1} ELSE B
  <2>1. ASSUME NEW j \in f..(n + 1) PROVE j \in 1..(n + 1) /\ (j # n + 1 => j \in f..n /\ u[j] = c[j])
    BY <1>1
  <2> QED
    BY <1>1, <1>2, <2>1
<1>4. UpTo(c, f, C) = Min(B \cup {n + 1}) /\ UpTo(u, f, C) = Min(D \cup {n + 2})
  <2>1. (n + 1) + 1 = n + 2
    BY <1>1
  <2> QED
    BY <1>1, <2>1 DEF UpTo
<1> HIDE DEF B, D, u, n
<1>5. /\ Min(B \cup {n + 1}) \in B \cup {n + 1}
      /\ Min((B \cup {n + 1}) \cup {n + 2}) = Min(B \cup {n + 1})
      /\ Min(B \cup {n + 2}) = IF Min(B \cup {n + 1}) <= n THEN Min(B \cup {n + 1}) ELSE n + 2
  BY <1>1, <1>2, FirstGrows
<1>6. UpTo(c, f, C) \in f..(n + 1)
  BY <1>1, <1>2, <1>4, <1>5 DEF B
<1>7. UpTo(u, f, C) = IF UpTo(c, f, C) <= n \/ x \in C THEN UpTo(c, f, C) ELSE n + 2
  BY <1>3, <1>4, <1>5
<1> QED
  BY <1>6, <1>7 DEF n, u

\* A character more moves the place skipping stops at only where it ran to the end.
LEMMA PastAppend ==
  ASSUME NEW S, NEW c \in Seq(S), NEW x \in S, NEW C, NEW f \in 1..(Len(c) + 1)
  PROVE  /\ Past(c, f, C) \in f..(Len(c) + 1)
         /\ Past(Append(c, x), f, C) =
              IF Past(c, f, C) <= Len(c) \/ x \notin C THEN Past(c, f, C) ELSE Len(c) + 2
<1> DEFINE n == Len(c)
           u == Append(c, x)
           B == {j \in f..n : c[j] \notin C}
           D == {j \in f..(n + 1) : u[j] \notin C}
<1>1. n \in Nat /\ Len(u) = n + 1 /\ u[n + 1] = x /\ \A j \in 1..n : u[j] = c[j]
  OBVIOUS
<1>2. B \in SUBSET (1..n) /\ n + 1 \in f..(n + 1) /\ f \in Nat
  BY <1>1
<1>3. D = IF x \notin C THEN B \cup {n + 1} ELSE B
  <2>1. ASSUME NEW j \in f..(n + 1) PROVE j \in 1..(n + 1) /\ (j # n + 1 => j \in f..n /\ u[j] = c[j])
    BY <1>1
  <2> QED
    BY <1>1, <1>2, <2>1
<1>4. Past(c, f, C) = Min(B \cup {n + 1}) /\ Past(u, f, C) = Min(D \cup {n + 2})
  <2>1. (n + 1) + 1 = n + 2
    BY <1>1
  <2> QED
    BY <1>1, <2>1 DEF Past
<1> HIDE DEF B, D, u, n
<1>5. /\ Min(B \cup {n + 1}) \in B \cup {n + 1}
      /\ Min((B \cup {n + 1}) \cup {n + 2}) = Min(B \cup {n + 1})
      /\ Min(B \cup {n + 2}) = IF Min(B \cup {n + 1}) <= n THEN Min(B \cup {n + 1}) ELSE n + 2
  BY <1>1, <1>2, FirstGrows
<1>6. Past(c, f, C) \in f..(n + 1)
  BY <1>1, <1>2, <1>4, <1>5 DEF B
<1>7. Past(u, f, C) = IF Past(c, f, C) <= n \/ x \notin C THEN Past(c, f, C) ELSE n + 2
  BY <1>3, <1>4, <1>5
<1> QED
  BY <1>6, <1>7 DEF n, u

(***************************************************************************)
(* Parsing a command, a character at a time: the words of the emulation.   *)
(***************************************************************************)
Seps == {Blank, NewLine}

\* The two separators are two characters.
LEMMA BlankNoNewLine == Blank # NewLine
  BY Zenon DEF Blank, NewLine

\* A command line as typed: it starts with a word and holds no newline.
Typed(S, c) ==
  c \in Seq(S) /\ c # <<>> /\ c[1] # Blank /\ \A j \in 1..Len(c) : c[j] # NewLine

\* Where a character more starts a word.
StartsWord(c, x) == x # Blank /\ c[Len(c)] = Blank

\* A character more starts a word exactly where a blank comes before it.
LEMMA StartsAppend ==
  ASSUME NEW S, NEW c, Typed(S, c), NEW x \in S, x # NewLine
  PROVE  WordStarts(Append(c, x)) =
           WordStarts(c) \cup (IF StartsWord(c, x) THEN {Len(c) + 1} ELSE {})
<1> DEFINE n == Len(c)
           u == Append(c, x)
<1>1. n \in Nat \ {0} /\ Len(u) = n + 1 /\ u[n + 1] = x /\ \A j \in 1..n : u[j] = c[j]
  <2>1. c \in Seq(S) /\ c # <<>>
    BY DEF Typed
  <2> QED
    BY <2>1, EmptySeq
<1>2. ASSUME NEW k \in 2..n
      PROVE  k \in 2..(n + 1) /\ u[k] = c[k] /\ u[k - 1] = c[k - 1]
  <2>1. k \in 1..n /\ k - 1 \in 1..n /\ k \in 2..(n + 1)
    BY <1>1
  <2> QED
    BY <1>1, <2>1
<1>3. n + 1 \in 2..(n + 1) /\ u[(n + 1) - 1] = c[n] /\ \A k \in 2..(n + 1) : k = n + 1 \/ k \in 2..n
  BY <1>1
<1>4. n + 1 \notin 2..n
  BY <1>1
<1>5. c[n] # NewLine
  BY <1>1 DEF Typed
<1> HIDE DEF n, u
<1>6. WordStarts(c) = {1} \cup {k \in 2..n : c[k] \notin Seps /\ c[k - 1] \in Seps}
  BY DEF WordStarts, n, Seps
<1>7. WordStarts(u) = {1} \cup {k \in 2..(n + 1) : u[k] \notin Seps /\ u[k - 1] \in Seps}
  BY <1>1 DEF WordStarts, Seps
<1>8. StartsWord(c, x) <=> u[n + 1] \notin Seps /\ u[(n + 1) - 1] \in Seps
  BY <1>1, <1>3, <1>5 DEF StartsWord, Seps, n
<1>9. {k \in 2..(n + 1) : u[k] \notin Seps /\ u[k - 1] \in Seps} =
        {k \in 2..n : c[k] \notin Seps /\ c[k - 1] \in Seps}
          \cup (IF StartsWord(c, x) THEN {n + 1} ELSE {})
  BY <1>2, <1>3, <1>4, <1>8
<1> QED
  BY <1>6, <1>7, <1>9 DEF n, u

\* The starts are numbers of positions in the command, in order from 1.
StartsOrdered(c) ==
  /\ WordStarts(c) \in SUBSET (1..Len(c)) /\ Ranked(WordStarts(c))
  /\ Ascending(WordStarts(c)) \in Seq(1..Len(c)) \ {<<>>}
  /\ Ascending(WordStarts(c))[1] = 1

\* In order, the start of that word comes behind the others.
LEMMA StartsStep ==
  ASSUME NEW S, NEW c, Typed(S, c), NEW x \in S, x # NewLine, StartsOrdered(c)
  PROVE  /\ StartsOrdered(Append(c, x))
         /\ Ascending(WordStarts(Append(c, x))) =
              IF StartsWord(c, x) THEN Append(Ascending(WordStarts(c)), Len(c) + 1)
              ELSE Ascending(WordStarts(c))
<1> DEFINE n == Len(c)
           a == Ascending(WordStarts(c))
           b == Ascending(WordStarts(Append(c, x)))
<1>1. n \in Nat /\ Len(Append(c, x)) = n + 1
  BY DEF Typed
<1>2. a \in Seq(1..n) /\ a # <<>> /\ a[1] = 1
  BY DEF StartsOrdered
<1>3. WordStarts(c) \in SUBSET (1..n) /\ Ranked(WordStarts(c))
  BY DEF StartsOrdered
<1>4. CASE StartsWord(c, x)
  <2>1. WordStarts(Append(c, x)) = WordStarts(c) \cup {n + 1}
    BY <1>4, StartsAppend
  <2>2. WordStarts(c) \in SUBSET Nat /\ n + 1 \in Nat /\ \A y \in WordStarts(c) : y < n + 1
    BY <1>1, <1>3
  <2>3. b = Append(a, n + 1) /\ Ranked(WordStarts(Append(c, x)))
    BY <1>3, <2>1, <2>2, AscendingAppend, RankedAppend
  <2> HIDE DEF a, b
  <2>4. WordStarts(Append(c, x)) \in SUBSET (1..(n + 1))
    BY <1>1, <1>3, <2>1
  <2>5. 1..n \subseteq 1..(n + 1) /\ n + 1 \in 1..(n + 1)
    BY <1>1
  <2>6. a \in Seq(1..(n + 1))
    BY <1>2, <2>5, SeqMonotonic
  <2>7. b \in Seq(1..(n + 1)) /\ b # <<>> /\ b[1] = 1
    BY <1>2, <2>3, <2>5, <2>6, EmptySeq
  <2> QED
    BY <1>1, <1>4, <2>3, <2>4, <2>7 DEF StartsOrdered, a, b
<1>5. CASE ~StartsWord(c, x)
  <2>1. WordStarts(Append(c, x)) = WordStarts(c)
    BY <1>5, StartsAppend
  <2>2. 1..n \subseteq 1..(n + 1)
    BY <1>1
  <2>3. a \in Seq(1..(n + 1)) /\ b = a
    BY <1>2, <2>1, <2>2, SeqMonotonic
  <2> HIDE DEF a, b
  <2> QED
    BY <1>1, <1>2, <1>3, <1>5, <2>1, <2>2, <2>3 DEF StartsOrdered, a, b
<1> QED
  BY <1>4, <1>5

\* Stretches of a text with one character more.
LEMMA StretchAppend ==
  ASSUME NEW S, NEW c \in Seq(S), NEW x \in S, NEW f \in 1..(Len(c) + 1)
  PROVE  /\ SubSeq(c, f, Len(c)) \in Seq(S) /\ Len(SubSeq(c, f, Len(c))) = Len(c) + 1 - f
         /\ f <= Len(c) => SubSeq(c, f, Len(c))[Len(c) + 1 - f] = c[Len(c)]
         /\ SubSeq(Append(c, x), f, Len(c) + 1) = Append(SubSeq(c, f, Len(c)), x)
         /\ \A e \in (f - 1)..Len(c) :
              SubSeq(c, f, e) \in Seq(S) /\ SubSeq(Append(c, x), f, e) = SubSeq(c, f, e)
<1> DEFINE n == Len(c)
           u == Append(c, x)
<1>1. /\ n \in Nat /\ f \in Nat /\ u \in Seq(S) /\ Len(u) = n + 1 /\ u[n + 1] = x
      /\ \A j \in 1..n : u[j] = c[j] /\ c[j] \in S
  OBVIOUS
<1> HIDE DEF n, u
<1>2. ASSUME NEW e \in (f - 1)..n
      PROVE  /\ SubSeq(c, f, e) \in Seq(S) /\ Len(SubSeq(c, f, e)) = e + 1 - f
             /\ \A j \in 1..(e + 1 - f) : SubSeq(c, f, e)[j] = c[f + j - 1]
             /\ SubSeq(u, f, e) = SubSeq(c, f, e)
  <2>1. f \in Int /\ e \in Int /\ \A j \in f..e : j \in 1..n
    BY <1>1
  <2>2. \A j \in f..e : c[j] \in S /\ u[j] \in S
    BY <1>1, <2>1
  <2>3. /\ SubSeq(c, f, e) \in Seq(S) /\ Len(SubSeq(c, f, e)) = IF f <= e THEN e - f + 1 ELSE 0
        /\ \A j \in 1..(e - f + 1) : SubSeq(c, f, e)[j] = c[f + j - 1]
    BY <2>1, <2>2, SubSeqProperties
  <2>4. /\ SubSeq(u, f, e) \in Seq(S) /\ Len(SubSeq(u, f, e)) = IF f <= e THEN e - f + 1 ELSE 0
        /\ \A j \in 1..(e - f + 1) : SubSeq(u, f, e)[j] = u[f + j - 1]
    BY <2>1, <2>2, SubSeqProperties
  <2>5. e - f + 1 = e + 1 - f /\ (IF f <= e THEN e - f + 1 ELSE 0) = e + 1 - f
    BY <1>1
  <2>6. ASSUME NEW j \in 1..(e + 1 - f) PROVE SubSeq(u, f, e)[j] = SubSeq(c, f, e)[j]
    <3>1. f + j - 1 \in 1..n /\ j \in 1..(e - f + 1)
      BY <1>1
    <3> QED
      BY <1>1, <2>3, <2>4, <3>1
  <2>7. SubSeq(u, f, e) = SubSeq(c, f, e)
    BY <2>3, <2>4, <2>5, <2>6, SeqEqual
  <2> QED
    BY <2>3, <2>5, <2>7
<1>3. n \in (f - 1)..n /\ (f <= n => n + 1 - f \in 1..(n + 1 - f) /\ f + (n + 1 - f) - 1 = n)
  BY <1>1 DEF n
<1> DEFINE s == SubSeq(c, f, n)
           t == SubSeq(u, f, n + 1)
<1>4. /\ s \in Seq(S) /\ Len(s) = n + 1 - f /\ (f <= n => s[n + 1 - f] = c[n])
      /\ \A j \in 1..(n + 1 - f) : s[j] = c[f + j - 1]
  BY <1>2, <1>3
<1>5. /\ t \in Seq(S) /\ Len(t) = n + 2 - f
      /\ \A j \in 1..(n + 2 - f) : t[j] = u[f + j - 1]
  <2> DEFINE m == n + 1
  <2>1. f \in Int /\ m \in Int /\ \A j \in f..m : j \in 1..n \/ j = n + 1
    BY <1>1
  <2>2. f <= m /\ m - f + 1 = n + 2 - f
    BY <1>1 DEF n
  <2>3. t = SubSeq(u, f, m)
    OBVIOUS
  <2> HIDE DEF m, t
  <2>4. \A j \in f..m : u[j] \in S
    BY <1>1, <2>1
  <2>5. /\ SubSeq(u, f, m) \in Seq(S) /\ Len(SubSeq(u, f, m)) = IF f <= m THEN m - f + 1 ELSE 0
        /\ \A j \in 1..(m - f + 1) : SubSeq(u, f, m)[j] = u[f + j - 1]
    BY <2>1, <2>4, SubSeqProperties
  <2> QED
    BY <2>2, <2>3, <2>5
<1> HIDE DEF s, t
<1>6. /\ Append(s, x) \in Seq(S) /\ Len(Append(s, x)) = n + 2 - f
      /\ Append(s, x)[n + 2 - f] = x /\ \A j \in 1..(n + 1 - f) : Append(s, x)[j] = s[j]
  <2>1. n + 1 - f + 1 = n + 2 - f
    BY <1>1
  <2> QED
    BY <1>4, <2>1
<1>7. ASSUME NEW j \in 1..(n + 2 - f) PROVE t[j] = Append(s, x)[j]
  <2>1. CASE j = n + 2 - f
    <3>1. f + j - 1 = n + 1
      BY <1>1, <2>1
    <3>2. t[j] = u[f + j - 1]
      BY <1>5
    <3> QED
      BY <1>1, <1>6, <2>1, <3>1, <3>2
  <2>2. CASE j # n + 2 - f
    <3>1. j \in 1..(n + 1 - f) /\ f + j - 1 \in 1..n
      <4>1. f \in Int /\ f >= 1 /\ n \in Nat /\ j \in Int /\ j >= 1 /\ j <= n + 2 - f
        BY <1>1
      <4>2. j <= n + 1 - f
        BY <2>2, <4>1
      <4> QED
        BY <4>1, <4>2
    <3>2. t[j] = u[f + j - 1]
      BY <1>5
    <3>3. s[j] = c[f + j - 1] /\ u[f + j - 1] = c[f + j - 1] /\ Append(s, x)[j] = s[j]
      BY <1>1, <1>4, <1>6, <3>1
    <3> QED
      BY <3>2, <3>3
  <2> QED
    BY <2>1, <2>2
<1>8. t = Append(s, x)
  BY <1>5, <1>6, <1>7, SeqEqual
<1> QED
  BY <1>2, <1>4, <1>8 DEF n, u, s, t

Starts(c)  == Ascending(WordStarts(c))
WordEnd(c, j) == UpTo(c, Starts(c)[j], Seps)

\* Each word but the last has ended, and the last one where a blank ends the command.
WordsEnd(c) ==
  \A j \in 1..Len(Starts(c)) :
    WordEnd(c, j) <= Len(c) <=> (j < Len(Starts(c)) \/ c[Len(c)] = Blank)

\* The words are the pieces of the command from each start to its end.
LEMMA WordsTyped ==
  ASSUME NEW S, NEW c, Typed(S, c), StartsOrdered(c)
  PROVE  /\ ece391_execute(c) \in Seq(Seq(S)) \ {<<>>}
         /\ Len(ece391_execute(c)) = Len(Starts(c))
         /\ \A j \in 1..Len(Starts(c)) :
              /\ Starts(c)[j] \in 1..Len(c) /\ WordEnd(c, j) \in Starts(c)[j]..(Len(c) + 1)
              /\ ece391_execute(c)[j] = SubSeq(c, Starts(c)[j], WordEnd(c, j) - 1)
<1> DEFINE n == Len(c)
           a == Starts(c)
           l == Len(a)
           W == ece391_execute(c)
<1>1. a \in Seq(1..n) /\ a # <<>> /\ n \in Nat /\ c \in Seq(S) /\ c # <<>>
  BY DEF StartsOrdered, Typed, Starts
<1> HIDE DEF a
<1>2. l \in Nat \ {0} /\ \A j \in 1..l : a[j] \in 1..n
  BY <1>1, EmptySeq
<1>3. W = [j \in 1..l |-> SubSeq(c, a[j], WordEnd(c, j) - 1)]
  BY DEF ece391_execute, WordEnd, Starts, Seps, a
<1>4. ASSUME NEW j \in 1..l
      PROVE  WordEnd(c, j) \in a[j]..(n + 1) /\ SubSeq(c, a[j], WordEnd(c, j) - 1) \in Seq(S)
  <2>1. c[1] \in S /\ a[j] \in 1..(n + 1)
    BY <1>1, <1>2, EmptySeq
  <2>2. WordEnd(c, j) \in a[j]..(n + 1)
    BY <1>1, <2>1, UpToAppend DEF WordEnd, a
  <2>3. ASSUME NEW p \in a[j]..(WordEnd(c, j) - 1) PROVE c[p] \in S
    <3>1. p \in 1..n
      BY <1>1, <1>2, <2>2
    <3> QED
      BY <1>1, <3>1
  <2>4. a[j] \in Nat /\ WordEnd(c, j) - 1 \in Int
    BY <1>2, <2>2, <1>1
  <2>5. SubSeq(c, a[j], WordEnd(c, j) - 1) \in Seq(S)
    BY <1>1, <1>2, <2>2, <2>3, <2>4, SubSeqProperties
  <2> QED
    BY <2>2, <2>5
<1> HIDE DEF W, l
<1>5. W \in Seq(Seq(S)) /\ Len(W) = l /\ W # <<>>
  <2> DEFINE w == [j \in 1..l |-> SubSeq(c, a[j], WordEnd(c, j) - 1)]
  <2>1. w \in [1..l -> Seq(S)]
    BY <1>4
  <2> HIDE DEF w
  <2>2. w \in Seq(Seq(S)) /\ Len(w) = l
    BY <1>2, <2>1
  <2>3. W = w
    BY <1>3 DEF w
  <2> QED
    BY <1>2, <2>2, <2>3
<1> QED
  BY <1>2, <1>3, <1>4, <1>5 DEF W, l, a

\* What a character more does to the words: a new one, a longer last one, or none.
LEMMA WordsStep ==
  ASSUME NEW S, NEW c, Typed(S, c), NEW x \in S, x # NewLine, StartsOrdered(c), WordsEnd(c)
  PROVE  LET W == ece391_execute(c)
             V == ece391_execute(Append(c, x))
         IN  /\ WordsEnd(Append(c, x))
             /\ StartsWord(c, x) => V = Append(W, <<x>>)
             /\ x = Blank => V = W
             /\ x # Blank /\ ~StartsWord(c, x) =>
                  V = [W EXCEPT ![Len(W)] = Append(W[Len(W)], x)]
<1> DEFINE n == Len(c)
           u == Append(c, x)
           a == Starts(c)
           b == Starts(u)
           l == Len(a)
           W == ece391_execute(c)
           V == ece391_execute(u)
<1>1. /\ c \in Seq(S) /\ u \in Seq(S) /\ n \in Nat \ {0} /\ Len(u) = n + 1 /\ u[n + 1] = x
      /\ \A j \in 1..n : u[j] = c[j]
  <2>1. c \in Seq(S) /\ c # <<>>
    BY DEF Typed
  <2> QED
    BY <2>1, EmptySeq
<1>2. Typed(S, u)
  <2>1. u # <<>> /\ u[1] = c[1] /\ \A j \in 1..(n + 1) : u[j] # NewLine
    BY <1>1, EmptySeq DEF Typed
  <2> QED
    BY <1>1, <2>1 DEF Typed
<1>3. StartsOrdered(u) /\ b = IF StartsWord(c, x) THEN Append(a, n + 1) ELSE a
  BY StartsStep DEF Starts
<1>4. /\ a \in Seq(1..n) /\ l \in Nat \ {0}
      /\ Len(Append(a, n + 1)) = l + 1 /\ Append(a, n + 1)[l + 1] = n + 1
      /\ \A j \in 1..l : a[j] \in 1..n /\ Append(a, n + 1)[j] = a[j]
  <2>1. a \in Seq(1..n) /\ a # <<>>
    BY DEF StartsOrdered, Starts
  <2> QED
    BY <1>1, <2>1, EmptySeq
<1>5. /\ W \in Seq(Seq(S)) /\ Len(W) = l
      /\ \A j \in 1..l : WordEnd(c, j) \in a[j]..(n + 1) /\ W[j] = SubSeq(c, a[j], WordEnd(c, j) - 1)
  BY WordsTyped
<1>6. /\ V \in Seq(Seq(S)) /\ Len(V) = Len(b)
      /\ \A j \in 1..Len(b) : V[j] = SubSeq(u, b[j], WordEnd(u, j) - 1)
  BY <1>2, <1>3, WordsTyped
<1>7. \A j \in 1..l : WordEnd(c, j) <= n <=> (j < l \/ c[n] = Blank)
  BY DEF WordsEnd
<1>8. x \in Seps <=> x = Blank
  BY DEF Seps
<1> HIDE DEF u, a, b, l, W, V, n
<1>9. ASSUME NEW j \in 1..l
      PROVE  /\ j \in 1..Len(b) /\ b[j] = a[j]
             /\ WordEnd(u, j) = IF WordEnd(c, j) <= n \/ x = Blank THEN WordEnd(c, j) ELSE n + 2
  <2>1. j \in 1..Len(b) /\ b[j] = a[j] /\ a[j] \in 1..(n + 1)
    BY <1>1, <1>3, <1>4
  <2>2. UpTo(u, a[j], Seps) =
          IF UpTo(c, a[j], Seps) <= n \/ x \in Seps THEN UpTo(c, a[j], Seps) ELSE n + 2
    BY <1>1, <2>1, UpToAppend DEF n, u
  <2> QED
    BY <1>8, <2>1, <2>2 DEF WordEnd, a, b
<1>10. ASSUME NEW j \in 1..l, WordEnd(c, j) <= n \/ x = Blank
       PROVE  V[j] = W[j]
  <2>1. WordEnd(u, j) = WordEnd(c, j) /\ b[j] = a[j] /\ V[j] = SubSeq(u, a[j], WordEnd(c, j) - 1)
    BY <1>6, <1>9, <1>10
  <2>2. WordEnd(c, j) \in a[j]..(n + 1) /\ a[j] \in 1..n
    BY <1>4, <1>5
  <2>3. a[j] \in 1..(n + 1) /\ WordEnd(c, j) - 1 \in (a[j] - 1)..n
    <3>1. ASSUME NEW f \in 1..n, NEW e \in f..(n + 1)
          PROVE  f \in 1..(n + 1) /\ e - 1 \in (f - 1)..n
      BY <1>1
    <3> QED
      BY <2>2, <3>1
  <2>4. \A e \in (a[j] - 1)..n : SubSeq(u, a[j], e) = SubSeq(c, a[j], e)
    <3>1. ASSUME NEW f \in 1..(n + 1) PROVE \A e \in (f - 1)..n : SubSeq(u, f, e) = SubSeq(c, f, e)
      <4>1. c \in Seq(S) /\ f \in 1..(Len(c) + 1)
        BY <1>1 DEF n
      <4> QED
        BY <4>1, StretchAppend DEF n, u
    <3> QED
      BY <2>3, <3>1
  <2>5. SubSeq(u, a[j], WordEnd(c, j) - 1) = SubSeq(c, a[j], WordEnd(c, j) - 1)
    BY <2>3, <2>4
  <2> QED
    BY <1>5, <2>1, <2>5
<1>11. ASSUME NEW j \in 1..l, WordEnd(c, j) > n, x # Blank
       PROVE  V[j] = Append(W[j], x) /\ WordEnd(u, j) = n + 2
  <2>1. WordEnd(c, j) = n + 1 /\ WordEnd(u, j) = n + 2 /\ a[j] \in 1..(n + 1)
    <3>1. WordEnd(c, j) \in a[j]..(n + 1) /\ a[j] \in 1..n
      BY <1>4, <1>5
    <3> QED
      BY <1>1, <1>9, <1>11, <3>1
  <2>2. V[j] = SubSeq(u, a[j], n + 1) /\ W[j] = SubSeq(c, a[j], n)
    <3>1. b[j] = a[j] /\ j \in 1..Len(b) /\ (n + 1) - 1 = n /\ (n + 2) - 1 = n + 1
      BY <1>1, <1>9
    <3> QED
      BY <1>5, <1>6, <2>1, <3>1
  <2>3. ASSUME NEW f \in 1..(n + 1) PROVE SubSeq(u, f, n + 1) = Append(SubSeq(c, f, n), x)
    BY <1>1, StretchAppend DEF n, u
  <2> QED
    BY <2>1, <2>2, <2>3
<1>12. ASSUME NEW j \in 1..l PROVE WordEnd(c, j) \in Nat /\ WordEnd(c, j) <= n + 1
  <2>1. WordEnd(c, j) \in a[j]..(n + 1) /\ a[j] \in 1..n
    BY <1>4, <1>5
  <2> QED
    BY <1>1, <2>1
<1>13. CASE x = Blank
  <2>1. b = a /\ u[n + 1] = Blank
    BY <1>1, <1>3, <1>13 DEF StartsWord
  <2>2. V = W
    <3>1. \A j \in 1..l : V[j] = W[j]
      BY <1>10, <1>13
    <3>2. Len(V) = Len(W) /\ Len(V) = l
      BY <1>5, <1>6, <2>1 DEF l
    <3> QED
      BY <1>5, <1>6, <3>1, <3>2, SeqEqual
  <2>3. \A j \in 1..l : WordEnd(u, j) <= n + 1
    BY <1>9, <1>12, <1>13
  <2>4. WordsEnd(u)
    BY <1>1, <2>1, <2>3 DEF WordsEnd, b, l
  <2>5. ~StartsWord(c, x)
    BY <1>13 DEF StartsWord
  <2> QED
    BY <1>13, <2>2, <2>4, <2>5 DEF u, V, W
<1>14. CASE StartsWord(c, x)
  <2>1. b = Append(a, n + 1) /\ Len(b) = l + 1 /\ b[l + 1] = n + 1 /\ c[n] = Blank /\ x # Blank
    BY <1>3, <1>4, <1>14 DEF StartsWord, n
  <2>2. ASSUME NEW j \in 1..l PROVE V[j] = W[j] /\ WordEnd(u, j) <= n + 1
    <3>1. WordEnd(c, j) <= n
      BY <1>7, <2>1
    <3> QED
      BY <1>1, <1>9, <1>10, <1>12, <3>1
  <2>3. WordEnd(u, l + 1) = n + 2
    <3>1. WordEnd(u, l + 1) = UpTo(u, n + 1, Seps)
      BY <2>1 DEF WordEnd, b
    <3>2. n + 1 \in 1..(n + 1) /\ UpTo(c, n + 1, Seps) \in (n + 1)..(n + 1)
      BY <1>1, UpToAppend DEF n
    <3>3. UpTo(c, n + 1, Seps) = n + 1
      BY <1>1, <3>2
    <3>4. UpTo(u, n + 1, Seps) = IF UpTo(c, n + 1, Seps) <= n \/ x \in Seps THEN UpTo(c, n + 1, Seps) ELSE n + 2
      BY <1>1, <3>2, UpToAppend DEF n, u
    <3>5. x \notin Seps /\ ~(n + 1 <= n)
      BY <1>1, <1>8, <2>1
    <3> QED
      BY <3>1, <3>3, <3>4, <3>5
  <2>4. V[l + 1] = <<x>>
    <3>1. V[l + 1] = SubSeq(u, n + 1, n + 1)
      <4>1. l + 1 \in 1..Len(b) /\ (n + 2) - 1 = n + 1
        BY <1>1, <1>4, <2>1
      <4> QED
        BY <1>6, <2>1, <2>3, <4>1
    <3>2. n + 1 \in 1..(n + 1)
      BY <1>1
    <3>3. SubSeq(u, n + 1, n + 1) = Append(SubSeq(c, n + 1, n), x)
      BY <1>1, <3>2, StretchAppend DEF n, u
    <3>4. SubSeq(c, n + 1, n) = <<>>
      <4>1. n + 1 \in Int /\ n \in Int /\ n < n + 1
        BY <1>1
      <4> QED
        BY <4>1, SubSeqEmpty
    <3>5. Append(<<>>, x) = <<x>>
      OBVIOUS
    <3> QED
      BY <3>1, <3>3, <3>4, <3>5
  <2>5. V = Append(W, <<x>>)
    <3>1. <<x>> \in Seq(S)
      OBVIOUS
    <3>2. ASSUME NEW w \in Seq(S), V[l + 1] = w PROVE V = Append(W, w)
      <4>1. /\ Append(W, w) \in Seq(Seq(S)) /\ Len(Append(W, w)) = l + 1
            /\ Append(W, w)[l + 1] = w /\ \A j \in 1..l : Append(W, w)[j] = W[j]
        BY <1>5, <3>2
      <4>2. ASSUME NEW j \in 1..(l + 1) PROVE V[j] = Append(W, w)[j]
        <5>1. CASE j = l + 1
          BY <3>2, <4>1, <5>1
        <5>2. CASE j # l + 1
          <6>1. j \in 1..l
            BY <1>4, <5>2
          <6> QED
            BY <2>2, <4>1, <6>1
        <5> QED
          BY <5>1, <5>2
      <4> QED
        BY <1>6, <2>1, <4>1, <4>2, SeqEqual
    <3> QED
      BY <2>4, <3>1, <3>2
  <2>6. WordsEnd(u)
    <3>1. u[Len(u)] # Blank /\ Len(u) = n + 1
      BY <1>1, <2>1
    <3>2. ASSUME NEW j \in 1..(l + 1) PROVE WordEnd(u, j) <= n + 1 <=> j < l + 1
      <4>1. CASE j = l + 1
        BY <1>1, <1>4, <2>3, <4>1
      <4>2. CASE j # l + 1
        BY <1>4, <2>2, <4>2
      <4> QED
        BY <4>1, <4>2
    <3> QED
      BY <2>1, <3>1, <3>2 DEF WordsEnd, b
  <2> QED
    BY <1>14, <2>1, <2>5, <2>6 DEF u, V, W
<1>15. CASE x # Blank /\ ~StartsWord(c, x)
  <2>1. b = a /\ Len(b) = l /\ c[n] # Blank /\ u[n + 1] # Blank
    BY <1>1, <1>3, <1>15 DEF StartsWord, n, l
  <2>2. ASSUME NEW j \in 1..l, j < l PROVE V[j] = W[j] /\ WordEnd(u, j) <= n + 1
    <3>1. WordEnd(c, j) <= n
      BY <1>7, <2>2
    <3> QED
      BY <1>1, <1>9, <1>10, <1>12, <3>1
  <2>3. l \in 1..l /\ V[l] = Append(W[l], x) /\ WordEnd(u, l) = n + 2
    <3>1. l \in 1..l
      BY <1>4
    <3>2. ~(WordEnd(c, l) <= n)
      BY <1>4, <1>7, <2>1, <3>1
    <3>3. WordEnd(c, l) > n
      BY <1>1, <1>12, <3>1, <3>2
    <3> QED
      BY <1>11, <1>15, <3>1, <3>3
  <2>4. V = [W EXCEPT ![l] = Append(W[l], x)]
    <3> DEFINE z == [W EXCEPT ![l] = Append(W[l], x)]
    <3>1. Append(W[l], x) \in Seq(S)
      BY <1>5, <2>3
    <3>2. z \in Seq(Seq(S)) /\ Len(z) = l /\ z[l] = Append(W[l], x) /\ \A j \in 1..l : j # l => z[j] = W[j]
      BY <1>5, <2>3, <3>1
    <3> HIDE DEF z
    <3>3. ASSUME NEW j \in 1..l PROVE V[j] = z[j]
      <4>1. j # l => j < l
        BY <1>4
      <4> QED
        BY <2>2, <2>3, <3>2, <4>1
    <3>4. V = z
      BY <1>6, <2>1, <3>2, <3>3, SeqEqual
    <3> QED
      BY <3>4 DEF z
  <2>5. WordsEnd(u)
    <3>1. ASSUME NEW j \in 1..l PROVE WordEnd(u, j) <= n + 1 <=> j < l
      <4>1. CASE j = l
        BY <1>1, <1>4, <2>3, <4>1
      <4>2. CASE j # l
        <5>1. j < l
          BY <1>4, <4>2
        <5> QED
          BY <2>2, <5>1
      <4> QED
        BY <4>1, <4>2
    <3> QED
      BY <1>1, <2>1, <3>1 DEF WordsEnd, b
  <2>6. Len(W) = l
    BY <1>5
  <2> QED
    BY <1>15, <2>4, <2>5, <2>6 DEF u, V, W
<1> QED
  BY <1>13, <1>14, <1>15 DEF u

(***************************************************************************)
(* The words joined again.                                                 *)
(***************************************************************************)
Joined(W) == [w \in 1..(Len(W) - 1) |-> IF w = 1 THEN W[2] ELSE <<Blank>> \o W[w + 1]]

\* A text with one character more is the text and the character behind it.
LEMMA BehindIt ==
  ASSUME NEW S, NEW s \in Seq(S), NEW t \in Seq(S), NEW x \in S
  PROVE  /\ Append(s, x) = s \o <<x>> /\ s \o Append(t, x) = Append(s \o t, x)
         /\ s \o t \in Seq(S)
<1>1. <<x>> \in Seq(S) /\ Append(t, x) = t \o <<x>> /\ Append(s, x) = s \o <<x>>
  <2>1. <<x>> \in Seq(S)
    OBVIOUS
  <2> QED
    BY <2>1, AppendIsConcat
<1>2. s \o t \in Seq(S)
  BY ConcatProperties
<1>3. Append(s \o t, x) = (s \o t) \o <<x>>
  BY <1>2, AppendIsConcat
<1>4. ASSUME NEW w \in Seq(S) PROVE (s \o t) \o w = s \o (t \o w)
  BY ConcatAssociative
<1> QED
  BY <1>1, <1>2, <1>3, <1>4

\* A word more comes behind the joined arguments, with a blank between.
LEMMA JoinedMore ==
  ASSUME NEW S, Blank \in S, NEW W \in Seq(Seq(S)) \ {<<>>}, NEW s \in Seq(S)
  PROVE  /\ ece391_getargs(W) \in Seq(S)
         /\ Len(W) = 1 => ece391_getargs(W) = <<>>
         /\ ece391_getargs(Append(W, s)) =
              ece391_getargs(W) \o (IF Len(W) = 1 THEN s ELSE <<Blank>> \o s)
<1> DEFINE l == Len(W)
           V == Append(W, s)
           b == <<Blank>>
<1>1. /\ l \in Nat \ {0} /\ Len(V) = l + 1 /\ V[l + 1] = s
      /\ \A j \in 1..l : V[j] = W[j] /\ W[j] \in Seq(S)
  BY EmptySeq
<1>2. b \in Seq(S)
  OBVIOUS
<1> HIDE DEF b, V, l
<1> DEFINE J == [w \in 1..(l - 1) |-> IF w = 1 THEN W[2] ELSE b \o W[w + 1]]
           K == [w \in 1..l |-> IF w = 1 THEN V[2] ELSE b \o V[w + 1]]
           d == IF l = 1 THEN s ELSE b \o s
<1>3. d \in Seq(S)
  <2>1. b \o s \in Seq(S)
    BY <1>2, ConcatProperties
  <2> QED
    BY <2>1
<1>4. ASSUME NEW w \in 1..(l - 1)
      PROVE  w \in 1..l /\ J[w] \in Seq(S) /\ K[w] = J[w]
  <2>1. w \in 1..l /\ 2 \in 1..l /\ w + 1 \in 1..l
    BY <1>1
  <2>2. W[2] \in Seq(S) /\ W[w + 1] \in Seq(S) /\ V[2] = W[2] /\ V[w + 1] = W[w + 1]
    BY <1>1, <2>1
  <2>3. b \o W[w + 1] \in Seq(S)
    BY <1>2, <2>2, ConcatProperties
  <2> QED
    BY <2>1, <2>2, <2>3
<1>5. K[l] = d
  <2>1. l \in 1..l /\ (l = 1 => l + 1 = 2)
    BY <1>1
  <2> QED
    BY <1>1, <2>1
<1>6. J \in Seq(Seq(S)) /\ Len(J) = l - 1
  <2> DEFINE m == l - 1
  <2>2. J = [w \in 1..m |-> J[w]]
    OBVIOUS
  <2> HIDE DEF J
  <2>1. m \in Nat /\ \A w \in 1..m : J[w] \in Seq(S)
    <3>1. l - 1 \in Nat
      BY <1>1
    <3>2. \A w \in 1..(l - 1) : J[w] \in Seq(S)
      BY <1>4
    <3> QED
      BY <3>1, <3>2
  <2> HIDE DEF m
  <2>3. J \in [1..m -> Seq(S)]
    BY <2>1, <2>2
  <2>4. J \in Seq(Seq(S)) /\ Len(J) = m
    BY <2>1, <2>3
  <2> QED
    BY <2>4 DEF m
<1>7. K \in Seq(Seq(S)) /\ Len(K) = l
  <2>1. ASSUME NEW w \in 1..l PROVE K[w] \in Seq(S)
    <3>1. w \in 1..(l - 1) \/ w = l
      BY <1>1
    <3> QED
      BY <1>3, <1>4, <1>5, <3>1
  <2>2. K \in [1..l -> Seq(S)]
    BY <2>1
  <2> HIDE DEF K
  <2> QED
    BY <1>1, <2>2
<1>8. ece391_getargs(W) = FlattenSeq(J) /\ ece391_getargs(V) = FlattenSeq(K)
  <2>1. (l + 1) - 1 = l
    BY <1>1
  <2> QED
    BY <1>1, <2>1 DEF ece391_getargs, b, l
<1> HIDE DEF J, K, d
<1>9. K = Append(J, d)
  <2>1. /\ Append(J, d) \in Seq(Seq(S)) /\ Len(Append(J, d)) = (l - 1) + 1
        /\ Append(J, d)[(l - 1) + 1] = d /\ \A j \in 1..(l - 1) : Append(J, d)[j] = J[j]
    BY <1>3, <1>6
  <2>2. (l - 1) + 1 = l
    BY <1>1
  <2>3. ASSUME NEW j \in 1..l PROVE K[j] = Append(J, d)[j]
    <3>1. j \in 1..(l - 1) \/ j = l
      BY <1>1
    <3> QED
      BY <1>4, <1>5, <2>1, <2>2, <3>1
  <2> QED
    BY <1>7, <2>1, <2>2, <2>3, SeqEqual
<1>10. FlattenSeq(K) = FlattenSeq(J) \o d /\ FlattenSeq(<<>>) = <<>>
  BY <1>3, <1>6, <1>9, FlattenAppend
<1>11. FlattenSeq(J) \in Seq(S)
  BY <1>6, FlattenTyped
<1>12. l = 1 => J = <<>>
  BY <1>6, EmptySeq
<1> QED
  BY <1>8, <1>10, <1>11, <1>12 DEF l, V, b, d

\* A longer last word is a longer end of the arguments, unless it is the name.
LEMMA JoinedLonger ==
  ASSUME NEW S, Blank \in S, NEW W \in Seq(Seq(S)) \ {<<>>}, NEW x \in S
  PROVE  ece391_getargs([W EXCEPT ![Len(W)] = Append(W[Len(W)], x)]) =
           IF Len(W) = 1 THEN <<>> ELSE Append(ece391_getargs(W), x)
<1> DEFINE l == Len(W)
           t == W[l]
           V == [j \in 1..(l - 1) |-> W[j]]
           Z == [W EXCEPT ![l] = Append(t, x)]
<1>1. l \in Nat \ {0} /\ t \in Seq(S) /\ Append(t, x) \in Seq(S)
  BY EmptySeq
<1>2. Z \in Seq(Seq(S)) \ {<<>>} /\ Len(Z) = l /\ Z[l] = Append(t, x)
      /\ \A j \in 1..l : j # l => Z[j] = W[j]
  BY <1>1, EmptySeq
<1>3. CASE l = 1
  <2> HIDE DEF Z
  <2>1. <<>> \in Seq(S)
    OBVIOUS
  <2>2. ece391_getargs(Z) = <<>>
    BY <1>2, <1>3, <2>1, JoinedMore
  <2> QED
    BY <1>3, <2>2 DEF Z
<1>4. CASE l # 1
  <2>1. V \in Seq(Seq(S)) /\ Len(V) = l - 1 /\ \A j \in 1..(l - 1) : V[j] = W[j]
    <3> DEFINE m == l - 1
    <3>1. m \in Nat /\ \A j \in 1..m : W[j] \in Seq(S)
      BY <1>1
    <3>2. V = [j \in 1..m |-> W[j]]
      OBVIOUS
    <3> HIDE DEF V, m
    <3>3. V \in [1..m -> Seq(S)]
      BY <3>1, <3>2
    <3>4. V \in Seq(Seq(S)) /\ Len(V) = m /\ \A j \in 1..m : V[j] = W[j]
      BY <3>1, <3>2, <3>3
    <3> QED
      BY <3>4 DEF m
  <2> HIDE DEF V, Z, t
  <2>2. V # <<>> /\ l - 1 \in Nat /\ (l - 1) + 1 = l
    BY <1>1, <1>4, <2>1, EmptySeq
  <2>3. ASSUME NEW w \in Seq(S), NEW Y \in Seq(Seq(S)), Len(Y) = l, Y[l] = w,
               \A j \in 1..(l - 1) : Y[j] = V[j]
        PROVE  Y = Append(V, w)
    <3>1. /\ Append(V, w) \in Seq(Seq(S)) /\ Len(Append(V, w)) = l
          /\ Append(V, w)[l] = w /\ \A j \in 1..(l - 1) : Append(V, w)[j] = V[j]
      BY <2>1, <2>2
    <3>2. ASSUME NEW j \in 1..l PROVE Y[j] = Append(V, w)[j]
      <4>1. j = l \/ j \in 1..(l - 1)
        BY <1>1
      <4> QED
        BY <2>3, <3>1, <4>1
    <3> DEFINE z == Append(V, w)
    <3>3. z \in Seq(Seq(S)) /\ Len(Y) = Len(z) /\ \A j \in 1..Len(Y) : Y[j] = z[j]
      BY <2>3, <3>1, <3>2
    <3> HIDE DEF z
    <3>4. Y = z
      BY <3>3, SeqEqual
    <3> QED
      BY <3>4 DEF z
  <2>4. W = Append(V, t)
    BY <1>1, <2>1, <2>3 DEF t
  <2>5. Z = Append(V, Append(t, x))
    <3>1. ASSUME NEW j \in 1..(l - 1) PROVE Z[j] = V[j]
      <4>1. j \in 1..l /\ j # l
        BY <1>1
      <4> QED
        BY <1>2, <2>1, <4>1
    <3> QED
      BY <1>1, <1>2, <2>3, <3>1
  <2> DEFINE J == ece391_getargs(V)
             b == <<Blank>>
  <2>6. /\ J \in Seq(S)
        /\ ece391_getargs(W) = J \o (IF l - 1 = 1 THEN t ELSE b \o t)
        /\ ece391_getargs(Z) = J \o (IF l - 1 = 1 THEN Append(t, x) ELSE b \o Append(t, x))
    BY <1>1, <2>1, <2>2, <2>4, <2>5, JoinedMore
  <2>7. b \in Seq(S)
    OBVIOUS
  <2> HIDE DEF J, b
  <2>8. b \o Append(t, x) = Append(b \o t, x) /\ b \o t \in Seq(S)
    BY <1>1, <2>7, BehindIt
  <2>9. J \o Append(t, x) = Append(J \o t, x) /\ J \o Append(b \o t, x) = Append(J \o (b \o t), x)
    <3>1. ASSUME NEW r \in Seq(S) PROVE J \o Append(r, x) = Append(J \o r, x)
      <4>1. J \in Seq(S)
        BY <2>6
      <4> QED
        BY <4>1, BehindIt
    <3> QED
      BY <1>1, <2>8, <3>1
  <2>10. ece391_getargs(Z) = Append(ece391_getargs(W), x)
    BY <2>6, <2>8, <2>9
  <2> QED
    BY <1>4, <2>10 DEF Z, t
<1> QED
  BY <1>3, <1>4

(***************************************************************************)
(* The arguments, and the copy getargs makes of them.                      *)
(***************************************************************************)
\* What getargs copies when it is asked for more than there is.
Copy(A) == FlattenSeq([k \in 1..Len(A) |-> Copied(A, k)])

EndsBlank(A) == A # <<>> /\ A[Len(A)] = Blank

\* With room for all of it, getargs copies to the end of the arguments.
LEMMA CopyWhole ==
  ASSUME NEW S, NEW A \in Seq(S), NEW n \in Nat, Len(A) <= n
  PROVE  syscall_getargs(A, n) = Copy(A)
<1>1. Min({n, Len(A)}) = Len(A)
  <2>1. Len(A) \in Nat
    OBVIOUS
  <2>2. \E x \in {n, Len(A)} : \A y \in {n, Len(A)} : x <= y
    BY <2>1
  <2>3. Min({n, Len(A)}) \in {n, Len(A)} /\ \A y \in {n, Len(A)} : Min({n, Len(A)}) <= y
    BY <2>2 DEF Min
  <2> QED
    BY <2>1, <2>3
<1> QED
  BY <1>1 DEF syscall_getargs, Copy

\* One character more: itself, or the one blank that stands for blanks.
LEMMA CopyMore ==
  ASSUME NEW S, Blank \in S, NEW A \in Seq(S), NEW x \in S
  PROVE  /\ Copy(A) \in Seq(S) /\ Copy(<<>>) = <<>>
         /\ Copy(Append(A, x)) =
              Copy(A) \o (IF x # Blank THEN <<x>>
                          ELSE IF A = <<>> \/ EndsBlank(A) THEN <<>> ELSE <<Blank>>)
<1> DEFINE l == Len(A)
           Z == Append(A, x)
           b == <<Blank>>
           X == <<x>>
           last == IF x # Blank THEN X ELSE <<>>
           F == [k \in 1..l |-> Copied(A, k)]
           G == [k \in 1..(l + 1) |-> Copied(Z, k)]
<1>1. /\ l \in Nat /\ Len(Z) = l + 1 /\ Z[l + 1] = x
      /\ \A j \in 1..l : Z[j] = A[j] /\ A[j] \in S
  OBVIOUS
<1>2. b \in Seq(S) /\ X \in Seq(S) /\ <<>> \in Seq(S) /\ last \in Seq(S)
  OBVIOUS
<1>3. ASSUME NEW s \in S, s # Blank
      PROVE  <<s, Blank>> \in Seq(S) /\ <<s>> \in Seq(S) /\ <<s, Blank>> = <<s>> \o b
  OBVIOUS
<1>4. Copy(A) = FlattenSeq(F) /\ Copy(Z) = FlattenSeq(G)
  BY <1>1 DEF Copy
<1>5. ASSUME NEW k \in 1..l
      PROVE  /\ Copied(A, k) \in Seq(S)
             /\ k # l => Copied(Z, k) = Copied(A, k)
  <2>1. A[k] \in S /\ Z[k] = A[k] /\ Len(Z) = l + 1 /\ k < l + 1
    BY <1>1
  <2>2. Copied(A, k) \in Seq(S)
    BY <1>2, <1>3, <2>1 DEF Copied
  <2>3. ASSUME k # l PROVE Copied(Z, k) = Copied(A, k)
    <3>1. k < l /\ k + 1 \in 1..l
      BY <1>1, <2>3
    <3>2. Z[k + 1] = A[k + 1]
      BY <1>1, <3>1
    <3> QED
      BY <2>1, <3>1, <3>2 DEF Copied
  <2> QED
    BY <2>2, <2>3
<1>6. Copied(Z, l + 1) = last
  <2>1. Z[l + 1] = x /\ ~(l + 1 < Len(Z))
    BY <1>1
  <2> QED
    BY <2>1 DEF Copied
<1>7. ASSUME l # 0
      PROVE  Copied(Z, l) = Copied(A, l) \o (IF x = Blank /\ A[l] # Blank THEN b ELSE <<>>)
  <2>1. /\ l \in 1..l /\ Z[l] = A[l] /\ A[l] \in S /\ l < Len(Z) /\ Z[l + 1] = x
        /\ ~(l < Len(A))
    BY <1>1, <1>7
  <2>2. Copied(A, l) = IF A[l] = Blank THEN <<>> ELSE <<A[l]>>
    BY <2>1 DEF Copied
  <2>3. Copied(Z, l) = IF A[l] = Blank THEN <<>> ELSE IF x = Blank THEN <<A[l], Blank>> ELSE <<A[l]>>
    BY <2>1 DEF Copied
  <2>4. Copied(A, l) \in Seq(S)
    BY <1>5, <2>1
  <2>5. Copied(A, l) \o <<>> = Copied(A, l)
    BY <2>4, ConcatEmptySeq
  <2>6. CASE x = Blank /\ A[l] # Blank
    BY <1>3, <2>1, <2>2, <2>3, <2>6
  <2>7. CASE ~(x = Blank /\ A[l] # Blank)
    BY <2>2, <2>3, <2>5, <2>7
  <2> QED
    BY <2>6, <2>7
<1>8. A = <<>> <=> l = 0
  BY <1>1, EmptySeq
<1> DEFINE gap == IF x = Blank /\ l # 0 /\ A[l] # Blank THEN b ELSE <<>>
<1>9. gap \in Seq(S) /\ Copy(<<>>) = <<>>
  <2>1. Copy(<<>>) = FlattenSeq(<<>>)
    BY DEF Copy
  <2>2. FlattenSeq(<<>>) = <<>>
    BY DEF FlattenSeq
  <2> QED
    BY <1>2, <2>1, <2>2
<1>10. (IF x # Blank THEN <<x>> ELSE IF A = <<>> \/ EndsBlank(A) THEN <<>> ELSE <<Blank>>) = gap \o last
  <2>1. EndsBlank(A) <=> l # 0 /\ A[l] = Blank
    BY <1>8 DEF EndsBlank
  <2>2. <<>> \o X = X /\ b \o <<>> = b /\ <<>> \o <<>> = <<>>
    BY <1>2, ConcatEmptySeq
  <2> HIDE DEF X, b
  <2>3. (IF x # Blank THEN X ELSE IF A = <<>> \/ EndsBlank(A) THEN <<>> ELSE b) = gap \o last
    BY <1>8, <2>1, <2>2
  <2> QED
    BY <2>3 DEF X, b
<1> HIDE DEF l, Z, b, X, last, gap
<1>11. CASE l = 0
  <2>1. A = <<>> /\ Len(Z) = 1 /\ Copied(Z, 1) = last
    BY <1>1, <1>6, <1>8, <1>11
  <2>2. G = <<last>>
    BY <1>11, <2>1
  <2>3. FlattenSeq(<<last>>) = last
    <3>1. Append(<<>>, last) = <<last>> /\ <<>> \in Seq(Seq(S))
      OBVIOUS
    <3>2. FlattenSeq(Append(<<>>, last)) = <<>> \o last
      BY <1>2, <3>1, FlattenAppend
    <3> QED
      BY <1>2, <3>1, <3>2, ConcatEmptySeq
  <2>4. gap \o last = last /\ <<>> \o last = last
    BY <1>2, <1>11, ConcatEmptySeq DEF gap
  <2>5. Copy(A) = <<>> /\ Copy(Z) = last
    BY <1>4, <1>9, <2>1, <2>2, <2>3
  <2> QED
    BY <1>2, <1>9, <1>10, <2>4, <2>5 DEF Z
<1>12. CASE l # 0
  \* Without the last position both are the same texts.
  <2> DEFINE m == l - 1
             H == [k \in 1..m |-> Copied(A, k)]
             p == Copied(A, l)
  <2>1. m \in Nat /\ m + 1 = l /\ l \in 1..l /\ \A k \in 1..m : k \in 1..l /\ k # l
    BY <1>1, <1>12
  <2>2. p \in Seq(S) /\ \A k \in 1..m : Copied(A, k) \in Seq(S) /\ Copied(Z, k) = Copied(A, k)
    BY <1>5, <2>1
  <2>3. Copied(Z, l) = p \o gap
    BY <1>7, <1>12 DEF gap
  <2> HIDE DEF m, p
  <2>4. H \in Seq(Seq(S)) /\ Len(H) = m /\ \A k \in 1..m : H[k] = Copied(A, k)
    <3>1. H \in [1..m -> Seq(S)]
      BY <2>2
    <3>2. \A k \in 1..m : H[k] = Copied(A, k)
      OBVIOUS
    <3> HIDE DEF H
    <3>3. H \in Seq(Seq(S)) /\ Len(H) = m
      BY <2>1, <3>1
    <3> QED
      BY <3>2, <3>3
  <2>5. p \o gap \in Seq(S)
    BY <1>9, <2>2, ConcatProperties
  <2> HIDE DEF H
  <2>6. F = Append(H, p)
    <3>1. /\ Append(H, p) \in Seq(Seq(S)) /\ Len(Append(H, p)) = l
          /\ Append(H, p)[l] = p /\ \A k \in 1..m : Append(H, p)[k] = H[k]
      BY <2>1, <2>2, <2>4
    <3>2. ASSUME NEW k \in 1..l PROVE F[k] = Append(H, p)[k]
      <4>1. k = l \/ k \in 1..m
        BY <2>1
      <4>2. F[k] = Copied(A, k)
        OBVIOUS
      <4> QED
        BY <2>4, <3>1, <4>1, <4>2 DEF p
    <3>3. F \in Seq(Seq(S)) /\ Len(F) = l
      <4>1. F \in [1..l -> Seq(S)]
        BY <1>5
      <4> HIDE DEF F
      <4> QED
        BY <1>1, <4>1
    <3> DEFINE z == Append(H, p)
    <3>4. z \in Seq(Seq(S)) /\ Len(z) = l /\ \A k \in 1..l : F[k] = z[k]
      BY <3>1, <3>2
    <3> HIDE DEF z, F
    <3>5. F = z
      BY <3>3, <3>4, SeqEqual
    <3> QED
      BY <3>5 DEF z
  <2>7. G = Append(Append(H, p \o gap), last)
    <3> DEFINE z == Append(H, p \o gap)
               y == Append(z, last)
    <3>1. /\ z \in Seq(Seq(S)) /\ Len(z) = l
          /\ z[l] = p \o gap /\ \A k \in 1..m : z[k] = H[k]
      BY <2>1, <2>4, <2>5
    <3> HIDE DEF z
    <3>2. /\ y \in Seq(Seq(S)) /\ Len(y) = l + 1
          /\ y[l + 1] = last /\ \A k \in 1..l : y[k] = z[k]
      BY <1>2, <3>1
    <3> HIDE DEF y
    <3>3. ASSUME NEW k \in 1..(l + 1) PROVE Copied(Z, k) = y[k] /\ Copied(Z, k) \in Seq(S)
      <4>1. k = l + 1 \/ k = l \/ k \in 1..m
        BY <1>1, <2>1
      <4>2. CASE k = l + 1
        BY <1>2, <1>6, <3>2, <4>2
      <4>3. CASE k = l
        BY <2>1, <2>3, <2>5, <3>1, <3>2, <4>3
      <4>4. CASE k \in 1..m
        BY <2>1, <2>2, <2>4, <3>1, <3>2, <4>4
      <4> QED
        BY <4>1, <4>2, <4>3, <4>4
    <3>4. G \in Seq(Seq(S)) /\ Len(G) = l + 1 /\ \A k \in 1..(l + 1) : G[k] = y[k]
      <4> DEFINE q == l + 1
      <4>1. G = [k \in 1..q |-> Copied(Z, k)] /\ q \in Nat
        BY <1>1
      <4> HIDE DEF q, G
      <4>2. \A k \in 1..q : Copied(Z, k) = y[k] /\ Copied(Z, k) \in Seq(S)
        BY <3>3 DEF q
      <4>3. G \in [1..q -> Seq(S)] /\ \A k \in 1..q : G[k] = y[k]
        BY <4>1, <4>2
      <4>4. G \in Seq(Seq(S)) /\ Len(G) = q
        BY <4>1, <4>3
      <4> QED
        BY <4>3, <4>4 DEF q
    <3> HIDE DEF G
    <3>5. G = y
      BY <3>2, <3>4, SeqEqual
    <3> QED
      BY <3>5 DEF y, z
  <2>8. FlattenSeq(G) = FlattenSeq(F) \o (gap \o last)
    <3>1. gap \in Seq(S) /\ last \in Seq(S)
      BY <1>2, <1>9
    <3>2. FlattensLast(H, p, gap, last)
      BY <2>2, <2>4, <3>1, FlattenLast, Zenon
    <3> QED
      BY <2>6, <2>7, <3>2, Zenon DEF FlattensLast
  <2>9. FlattenSeq(F) \in Seq(S)
    BY <2>2, <2>4, <2>6, FlattenTyped, AppendProperties
  <2> QED
    BY <1>4, <1>9, <1>10, <2>8, <2>9 DEF Z
<1> QED
  BY <1>11, <1>12

\* The name and the arguments of a command that starts with a word.
ArgsStart(c) == Past(c, UpTo(c, 1, Seps), {Blank})

\* The name ends at the first separator, the arguments run from there past the blanks.
LEMMA ArgsOf ==
  ASSUME NEW S, NEW c, Typed(S, c)
  PROVE  /\ UpTo(c, 1, Seps) \in 1..(Len(c) + 1) /\ ArgsStart(c) \in 1..(Len(c) + 1)
         /\ exe_name(c) = SubSeq(c, 1, UpTo(c, 1, Seps) - 1)
         /\ args_of(c) = SubSeq(c, ArgsStart(c), Len(c))
<1> DEFINE n == Len(c)
           e == UpTo(c, 1, Seps)
<1>1. c \in Seq(S) /\ n \in Nat \ {0} /\ c[1] \in S
  <2>1. c \in Seq(S) /\ c # <<>>
    BY DEF Typed
  <2> QED
    BY <2>1, EmptySeq
<1>2. NameStart(c) = 1
  <2> DEFINE P == {j \in 1..n : c[j] \notin {Blank}} \cup {n + 1}
  <2>1. 1 \in P /\ P \subseteq Nat /\ \A j \in P : 1 <= j
    BY <1>1 DEF Typed
  <2> HIDE DEF P
  <2>2. Min(P) \in P /\ \A j \in P : Min(P) <= j
    BY <2>1 DEF Min
  <2>3. Min(P) = 1
    <3> DEFINE m == Min(P)
    <3>1. m \in P /\ m <= 1
      BY <2>1, <2>2
    <3> HIDE DEF m
    <3>2. m \in Nat /\ 1 <= m
      BY <2>1, <3>1
    <3>3. m = 1
      BY <3>1, <3>2
    <3> QED
      BY <3>3 DEF m
  <2>4. NameStart(c) = Min(P)
    BY Zenon DEF NameStart, Past, P
  <2> QED
    BY <2>3, <2>4
<1>3. NameEnd(c) = e /\ exe_name(c) = SubSeq(c, 1, e - 1)
  BY <1>2 DEF NameEnd, exe_name, Seps
<1>4. 1 \in 1..(n + 1) /\ e \in 1..(n + 1)
  BY <1>1, UpToAppend
<1>5. e <= n => c[e] # NewLine
  <2> HIDE DEF e
  <2> QED
    BY <1>1, <1>4 DEF Typed
<1>6. args_of(c) = SubSeq(c, ArgsStart(c), n)
  BY <1>3, <1>5 DEF args_of, ArgsStart
<1>7. ArgsStart(c) \in 1..(n + 1)
  <2> HIDE DEF e, n
  <2>1. Past(c, e, {Blank}) \in e..(n + 1)
    BY <1>1, <1>4, PastAppend DEF n
  <2> QED
    BY <1>1, <1>4, <2>1 DEF ArgsStart, e
<1> QED
  BY <1>3, <1>4, <1>6, <1>7

\* What a character more does to the name and the arguments.
LEMMA ArgsStep ==
  ASSUME NEW S, NEW c, Typed(S, c), NEW x \in S, x # NewLine
  PROVE  LET n == Len(c)
             e == UpTo(c, 1, Seps)
             A == args_of(c)
             Z == args_of(Append(c, x))
         IN  /\ A \in Seq(S) /\ (A = <<>> <=> ArgsStart(c) = n + 1)
             /\ A # <<>> => A[Len(A)] = c[n]
             /\ e = n + 1 => A = <<>>
             /\ Z = IF e = n + 1 \/ (A = <<>> /\ x = Blank) THEN <<>> ELSE Append(A, x)
<1> DEFINE n == Len(c)
           u == Append(c, x)
           e == UpTo(c, 1, Seps)
           f == UpTo(u, 1, Seps)
           q == ArgsStart(c)
           r == ArgsStart(u)
           A == args_of(c)
           Z == args_of(u)
<1>1. /\ c \in Seq(S) /\ u \in Seq(S) /\ n \in Nat \ {0} /\ Len(u) = n + 1 /\ u[n + 1] = x
      /\ \A j \in 1..n : u[j] = c[j]
  <2>1. c \in Seq(S) /\ c # <<>>
    BY DEF Typed
  <2> QED
    BY <2>1, EmptySeq
<1>2. Typed(S, u)
  <2>1. u # <<>> /\ u[1] = c[1] /\ \A j \in 1..(n + 1) : u[j] # NewLine
    BY <1>1, EmptySeq DEF Typed
  <2> QED
    BY <1>1, <2>1 DEF Typed
<1>3. e \in 1..(n + 1) /\ q \in 1..(n + 1) /\ A = SubSeq(c, q, n)
  BY ArgsOf
<1>4. f \in 1..(n + 2) /\ r \in 1..(n + 2) /\ Z = SubSeq(u, r, n + 1)
  <2>1. Len(u) + 1 = n + 2
    BY <1>1
  <2> QED
    BY <1>1, <1>2, <2>1, ArgsOf
<1>5. x \in Seps <=> x = Blank
  BY DEF Seps
<1>6. f = IF e <= n \/ x = Blank THEN e ELSE n + 2
  <2>1. 1 \in 1..(n + 1)
    BY <1>1
  <2> QED
    BY <1>1, <1>5, <2>1, UpToAppend
<1>7. q \in e..(n + 1) /\ Past(u, e, {Blank}) = IF q <= n \/ x # Blank THEN q ELSE n + 2
  BY <1>1, <1>3, PastAppend DEF ArgsStart
<1> HIDE DEF A, Z, e, f, n, u, q, r
<1>8. /\ A \in Seq(S) /\ Len(A) = n + 1 - q
      /\ q <= n => A[n + 1 - q] = c[n]
      /\ SubSeq(u, q, n + 1) = Append(A, x)
  <2>1. ASSUME NEW g \in 1..(n + 1)
        PROVE  /\ SubSeq(c, g, n) \in Seq(S) /\ Len(SubSeq(c, g, n)) = n + 1 - g
               /\ g <= n => SubSeq(c, g, n)[n + 1 - g] = c[n]
               /\ SubSeq(u, g, n + 1) = Append(SubSeq(c, g, n), x)
    <3>1. c \in Seq(S)
      BY <1>1
    <3>2. g \in 1..(Len(c) + 1)
      BY DEF n
    <3> QED
      BY <3>1, <3>2, StretchAppend DEF n, u
  <2> QED
    BY <1>3, <2>1
<1>9. A = <<>> <=> q = n + 1
  <2>1. A = <<>> <=> Len(A) = 0
    BY <1>8, EmptySeq
  <2> QED
    BY <1>1, <1>3, <1>8, <2>1
<1>10. A # <<>> => A[Len(A)] = c[n]
  BY <1>1, <1>3, <1>8, <1>9
<1>11. e = n + 1 => q = n + 1
  BY <1>1, <1>3, <1>7
<1>12. r = IF e = n + 1 \/ (q = n + 1 /\ x = Blank) THEN n + 2 ELSE q
  <2>1. CASE f = e
    <3>1. r = IF q <= n \/ x # Blank THEN q ELSE n + 2
      BY <1>7, <2>1 DEF r, f, e, ArgsStart
    <3>2. e = n + 1 => x = Blank
      BY <1>1, <1>3, <1>6, <2>1
    <3> QED
      BY <1>1, <1>3, <1>11, <3>1, <3>2
  <2>2. CASE f # e
    <3>1. e = n + 1 /\ f = n + 2
      BY <1>1, <1>3, <1>6, <2>2
    <3>2. r = Past(u, n + 2, {Blank})
      BY <3>1 DEF r, f, ArgsStart
    <3>3. Past(u, n + 2, {Blank}) \in (n + 2)..(n + 2)
      <4>1. n + 2 \in 1..(Len(u) + 1) /\ Len(u) + 1 = n + 2
        BY <1>1
      <4> QED
        BY <1>1, <4>1, PastAppend
    <3> QED
      BY <1>1, <3>1, <3>2, <3>3
  <2> QED
    BY <2>1, <2>2
<1>13. SubSeq(u, n + 2, n + 1) = <<>>
  <2>1. n + 2 \in Int /\ n + 1 \in Int /\ n + 1 < n + 2
    BY <1>1
  <2> QED
    BY <2>1, SubSeqEmpty
<1>14. Z = IF e = n + 1 \/ (A = <<>> /\ x = Blank) THEN <<>> ELSE Append(A, x)
  BY <1>4, <1>8, <1>9, <1>12, <1>13
<1> QED
  BY <1>8, <1>9, <1>10, <1>11, <1>14 DEF A, Z, e, n, u, q

(***************************************************************************)
(* Both parsings of a command agree, a character at a time.                *)
(***************************************************************************)
TrailingBlank(A) == IF EndsBlank(A) THEN <<Blank>> ELSE <<>>

\* What holds of a command and of the command with one character more.
Parsing(c) ==
  /\ StartsOrdered(c) /\ WordsEnd(c)
  /\ args_of(c) = <<>> <=> Len(ece391_execute(c)) = 1
  /\ Copy(args_of(c)) = ece391_getargs(ece391_execute(c)) \o TrailingBlank(args_of(c))

\* One character more keeps the two parsings the same.
LEMMA ParsingMore ==
  ASSUME NEW S, Blank \in S, NEW c, Typed(S, c), Parsing(c), NEW x \in S, x # NewLine
  PROVE  Parsing(Append(c, x))
<1> DEFINE n == Len(c)
           u == Append(c, x)
           W == ece391_execute(c)
           V == ece391_execute(u)
           A == args_of(c)
           Z == args_of(u)
           e == UpTo(c, 1, Seps)
           J == ece391_getargs(W)
           b == <<Blank>>
           X == <<x>>
<1>1. n \in Nat \ {0} /\ Len(u) = n + 1 /\ u[n + 1] = x
  <2>1. c \in Seq(S) /\ c # <<>>
    BY DEF Typed
  <2> QED
    BY <2>1, EmptySeq
<1>2. StartsOrdered(c) /\ WordsEnd(c)
  BY DEF Parsing
<1>3. StartsOrdered(u)
  BY <1>2, StartsStep
<1>4. /\ WordsEnd(u)
      /\ StartsWord(c, x) => V = Append(W, X)
      /\ x = Blank => V = W
      /\ x # Blank /\ ~StartsWord(c, x) => V = [W EXCEPT ![Len(W)] = Append(W[Len(W)], x)]
  BY <1>2, WordsStep
<1>5. /\ W \in Seq(Seq(S)) \ {<<>>} /\ Len(W) \in Nat \ {0} /\ Len(W) = Len(Starts(c))
      /\ Len(W) = 1 => (e <= n <=> c[n] = Blank)
      /\ Len(W) # 1 => e <= n
  <2>1. W \in Seq(Seq(S)) \ {<<>>} /\ Len(W) = Len(Starts(c))
    BY <1>2, WordsTyped
  <2>2. Len(W) \in Nat \ {0} /\ 1 \in 1..Len(W)
    BY <2>1, EmptySeq
  <2>3. WordEnd(c, 1) = e
    BY <1>2 DEF StartsOrdered, WordEnd, Starts
  <2>4. WordEnd(c, 1) <= n <=> (1 < Len(W) \/ c[n] = Blank)
    BY <1>2, <2>1, <2>2 DEF WordsEnd
  <2> HIDE DEF W, e, n
  <2> QED
    BY <2>1, <2>2, <2>3, <2>4
<1>6. /\ A \in Seq(S)
      /\ A # <<>> => A[Len(A)] = c[n]
      /\ Z = IF e = n + 1 \/ (A = <<>> /\ x = Blank) THEN <<>> ELSE Append(A, x)
  BY ArgsStep
<1>7. e \in 1..(n + 1)
  BY ArgsOf
<1>8. /\ A = <<>> <=> Len(W) = 1
      /\ Copy(A) = J \o TrailingBlank(A)
  BY DEF Parsing
<1>9. StartsWord(c, x) <=> x # Blank /\ c[n] = Blank
  BY DEF StartsWord
<1>10. X \in Seq(S) /\ b \in Seq(S) /\ b \o X \in Seq(S)
  <2>1. X \in Seq(S) /\ b \in Seq(S)
    OBVIOUS
  <2> HIDE DEF X, b
  <2> QED
    BY <2>1, ConcatProperties
<1>11. J \in Seq(S) /\ (Len(W) = 1 => J = <<>>)
  <2>1. <<>> \in Seq(S)
    OBVIOUS
  <2> QED
    BY <1>5, <2>1, JoinedMore
<1>12. Copy(<<>>) = <<>> /\ Copy(Append(A, x)) =
          Copy(A) \o (IF x # Blank THEN X ELSE IF A = <<>> \/ EndsBlank(A) THEN <<>> ELSE b)
  BY <1>6, CopyMore
<1>13. EndsBlank(A) <=> A # <<>> /\ c[n] = Blank
  BY <1>6 DEF EndsBlank
<1>14. TrailingBlank(A) = IF EndsBlank(A) THEN b ELSE <<>>
  BY DEF TrailingBlank
<1>15. TrailingBlank(<<>>) = <<>>
  BY DEF TrailingBlank, EndsBlank
<1>16. Append(A, x) # <<>> /\ (EndsBlank(Append(A, x)) <=> x = Blank)
  <2>1. Append(A, x) # <<>> /\ Len(Append(A, x)) = Len(A) + 1 /\ Append(A, x)[Len(A) + 1] = x
    BY <1>6, EmptySeq
  <2> QED
    BY <2>1 DEF EndsBlank
<1>17. TrailingBlank(Append(A, x)) = IF x = Blank THEN b ELSE <<>>
  BY <1>16 DEF TrailingBlank
<1> HIDE DEF n, u, W, V, A, Z, e, J, b, X
<1>18. SUFFICES /\ Z = <<>> <=> Len(V) = 1
                /\ Copy(Z) = ece391_getargs(V) \o TrailingBlank(Z)
  BY <1>3, <1>4 DEF Parsing, u, V, Z
<1>19. J \o <<>> = J /\ (J \o b) \o <<>> = J \o b /\ (J \o X) \o <<>> = J \o X
       /\ J \o b \in Seq(S) /\ (J \o b) \o X = J \o (b \o X)
       /\ <<>> \o <<>> = <<>> /\ <<>> \o X = X /\ X \o <<>> = X
       /\ (J \o (b \o X)) \o <<>> = J \o (b \o X)
  <2>1. J \o b \in Seq(S) /\ J \o X \in Seq(S) /\ J \o (b \o X) \in Seq(S) /\ <<>> \in Seq(S)
    BY <1>10, <1>11, ConcatProperties
  <2>2. \A s \in Seq(S) : s \o <<>> = s /\ <<>> \o s = s
    BY ConcatEmptySeq
  <2>3. (J \o b) \o X = J \o (b \o X)
    <3>1. J \in Seq(S) /\ b \in Seq(S) /\ X \in Seq(S)
      BY <1>10, <1>11
    <3> QED
      BY <3>1, ConcatAssociative
  <2> QED
    BY <1>10, <1>11, <2>1, <2>2, <2>3
<1>20. CASE StartsWord(c, x)
  <2>1. x # Blank /\ c[n] = Blank /\ V = Append(W, X)
    BY <1>4, <1>9, <1>20
  <2>2. e # n + 1
    BY <1>1, <1>5, <1>7, <2>1
  <2>3. Z = Append(A, x) /\ Z # <<>> /\ TrailingBlank(Z) = <<>>
    BY <1>6, <1>16, <1>17, <2>1, <2>2
  <2>4. Copy(Z) = (J \o TrailingBlank(A)) \o X
    BY <1>8, <1>12, <2>1, <2>3
  <2>5. Len(V) = Len(W) + 1 /\ Len(V) # 1
    BY <1>5, <1>10, <2>1
  <2>6. ece391_getargs(V) = J \o (IF Len(W) = 1 THEN X ELSE b \o X)
    BY <1>5, <1>10, <2>1, JoinedMore DEF J, b
  <2>7. CASE Len(W) = 1
    <3>1. TrailingBlank(A) = <<>>
      BY <1>8, <1>15, <2>7
    <3> QED
      BY <1>19, <2>3, <2>4, <2>5, <2>6, <2>7, <3>1
  <2>8. CASE Len(W) # 1
    <3>1. TrailingBlank(A) = b
      BY <1>8, <1>13, <1>14, <2>1, <2>8
    <3> QED
      BY <1>19, <2>3, <2>4, <2>5, <2>6, <2>8, <3>1
  <2> QED
    BY <2>7, <2>8
<1>21. CASE x # Blank /\ ~StartsWord(c, x)
  <2>1. c[n] # Blank /\ V = [W EXCEPT ![Len(W)] = Append(W[Len(W)], x)]
    BY <1>4, <1>9, <1>21
  <2>2. Len(V) = Len(W)
    BY <1>5, <2>1
  <2>3. ece391_getargs(V) = IF Len(W) = 1 THEN <<>> ELSE Append(J, x)
    BY <1>5, <2>1, JoinedLonger DEF J
  <2>4. TrailingBlank(A) = <<>> /\ Copy(A) = J
    BY <1>8, <1>13, <1>14, <1>19, <2>1
  <2>5. CASE Len(W) = 1
    <3>1. e = n + 1
      BY <1>1, <1>5, <1>7, <2>1, <2>5
    <3>2. Z = <<>>
      BY <1>6, <3>1
    <3> QED
      BY <1>12, <1>15, <1>19, <2>2, <2>3, <2>5, <3>2
  <2>6. CASE Len(W) # 1
    <3>1. e # n + 1 /\ A # <<>>
      BY <1>1, <1>5, <1>7, <1>8, <2>6
    <3>2. Z = Append(A, x) /\ Z # <<>> /\ TrailingBlank(Z) = <<>>
      BY <1>6, <1>16, <1>17, <1>21, <3>1
    <3>3. Copy(Z) = J \o X
      BY <1>12, <1>21, <2>4, <3>2
    <3>4. Append(J, x) = J \o X
      BY <1>11, AppendIsConcat DEF X
    <3> QED
      BY <1>19, <2>2, <2>3, <2>6, <3>2, <3>3, <3>4
  <2> QED
    BY <2>5, <2>6
<1>22. CASE x = Blank
  <2>1. V = W
    BY <1>4, <1>22
  <2>2. CASE Len(W) = 1
    <3>1. A = <<>> /\ Z = <<>>
      BY <1>6, <1>8, <1>22, <2>2
    <3> QED
      BY <1>11, <1>12, <1>15, <1>19, <2>1, <2>2, <3>1 DEF J
  <2>3. CASE Len(W) # 1
    <3>1. A # <<>> /\ e # n + 1
      BY <1>1, <1>5, <1>7, <1>8, <2>3
    <3>2. Z = Append(A, x) /\ Z # <<>> /\ TrailingBlank(Z) = b
      BY <1>6, <1>16, <1>17, <1>22, <3>1
    <3>3. Copy(Z) = (J \o TrailingBlank(A)) \o (IF EndsBlank(A) THEN <<>> ELSE b)
      BY <1>8, <1>12, <1>22, <3>1, <3>2
    <3>4. Copy(Z) = J \o b
      BY <1>14, <1>19, <3>3
    <3> QED
      BY <2>1, <2>3, <3>2, <3>4 DEF J
  <2> QED
    BY <2>2, <2>3
<1> QED
  BY <1>20, <1>21, <1>22

\* They are the same for a command of one character.
LEMMA ParsingOne ==
  ASSUME NEW S, Blank \in S, NEW c, Typed(S, c), Len(c) = 1
  PROVE  Parsing(c)
<1> DEFINE e == UpTo(c, 1, Seps)
<1>1. c \in Seq(S) /\ c[1] \in S /\ c[1] \notin Seps /\ c[1] # NewLine
  <2>1. c \in Seq(S) /\ 1 \in 1..Len(c) /\ c[1] # Blank /\ \A j \in 1..Len(c) : c[j] # NewLine
    BY DEF Typed
  <2> QED
    BY <2>1 DEF Seps
<1>2. WordStarts(c) = {1}
  <2>1. 2..Len(c) = {}
    OBVIOUS
  <2> QED
    BY <2>1 DEF WordStarts
<1>3. Starts(c) = <<1>> /\ Ranked({1})
  <2>1. Ascending({}) = <<>>
    <3>1. {} \in SUBSET Nat /\ Ranked({}) /\ Cardinality({}) = 0
      BY RankedEmpty
    <3>2. Ascending({}) \in Seq({}) /\ Len(Ascending({})) = 0
      BY <3>1, AscendingFacts
    <3> QED
      BY <3>2, EmptySeq
  <2>2. Ranked({} \cup {1}) /\ Ascending({} \cup {1}) = Append(Ascending({}), 1)
    <3>1. {} \in SUBSET Nat /\ Ranked({}) /\ 1 \in Nat /\ \A x \in {} : x < 1
      BY RankedEmpty
    <3> QED
      BY <3>1, RankedAppend, AscendingAppend
  <2>3. {} \cup {1} = {1} /\ Append(<<>>, 1) = <<1>>
    OBVIOUS
  <2> QED
    BY <1>2, <2>1, <2>2, <2>3 DEF Starts
<1>4. StartsOrdered(c)
  <2>1. Len(<<1>>) = 1 /\ <<1>>[1] = 1 /\ <<1>> \in Seq({1}) /\ <<1>> # <<>> /\ 1..1 = {1}
    OBVIOUS
  <2> QED
    BY <1>2, <1>3, <2>1 DEF StartsOrdered, Starts
<1>5. e = 2
  <2>1. {j \in 1..Len(c) : c[j] \in Seps} = {} /\ Len(c) + 1 = 2
    BY <1>1
  <2>2. e = Min({} \cup {2})
    BY <2>1 DEF UpTo
  <2>3. Min({2}) = 2
    BY DEF Min
  <2> QED
    BY <2>2, <2>3
<1>6. WordsEnd(c)
  <2>1. Len(Starts(c)) = 1 /\ Starts(c)[1] = 1
    BY <1>3
  <2>2. ASSUME NEW j \in 1..1 PROVE WordEnd(c, j) = 2 /\ j = 1
    BY <1>5, <2>1, <2>2 DEF WordEnd
  <2>3. c[Len(c)] # Blank
    BY <1>1 DEF Seps
  <2> QED
    BY <2>1, <2>2, <2>3 DEF WordsEnd
<1>7. args_of(c) = <<>>
  <2>1. e = Len(c) + 1 => args_of(c) = <<>>
    BY <1>1, ArgsStep
  <2> QED
    BY <1>5, <2>1
<1>8. Len(ece391_execute(c)) = 1 /\ ece391_getargs(ece391_execute(c)) = <<>>
  <2>1. ece391_execute(c) \in Seq(Seq(S)) \ {<<>>} /\ Len(ece391_execute(c)) = 1
    BY <1>3, <1>4, WordsTyped
  <2>2. <<>> \in Seq(S)
    OBVIOUS
  <2> QED
    BY <2>1, <2>2, JoinedMore
<1>9. Copy(<<>>) = <<>> /\ TrailingBlank(<<>>) = <<>> /\ <<>> \o <<>> = <<>>
  <2>1. Copy(<<>>) = <<>>
    BY <1>1, CopyMore
  <2>2. <<>> \in Seq(S)
    OBVIOUS
  <2> QED
    BY <2>1, <2>2, ConcatEmptySeq DEF TrailingBlank, EndsBlank
<1> QED
  BY <1>4, <1>6, <1>7, <1>8, <1>9 DEF Parsing

\* So they are the same for every command.
LEMMA ParsingAll ==
  ASSUME NEW S, Blank \in S, NEW c, Typed(S, c)
  PROVE  Parsing(c)
<1> DEFINE n == Len(c)
           To(m) == [j \in 1..(m + 1) |-> c[j]]
           T == {m \in Nat : m + 1 <= n => Parsing(To(m))}
<1>1. c \in Seq(S) /\ n \in Nat \ {0} /\ \A j \in 1..n : c[j] \in S /\ c[j] # NewLine
  <2>1. c \in Seq(S) /\ c # <<>> /\ \A j \in 1..Len(c) : c[j] # NewLine
    BY DEF Typed
  <2> QED
    BY <2>1, EmptySeq
<1> HIDE DEF n
<1>2. ASSUME NEW m \in Nat, m + 1 <= n
      PROVE  Typed(S, To(m)) /\ Len(To(m)) = m + 1
  <2> DEFINE k == m + 1
             p == [j \in 1..k |-> c[j]]
  <2>1. k \in Nat /\ 1 \in 1..k /\ \A j \in 1..k : j \in 1..n
    BY <1>1, <1>2
  <2> HIDE DEF k
  <2>2. \A j \in 1..k : p[j] = c[j] /\ p[j] \in S /\ p[j] # NewLine
    BY <1>1, <2>1
  <2>3. p \in [1..k -> S]
    BY <1>1, <2>1
  <2>4. p[1] = c[1]
    BY <2>1
  <2> HIDE DEF p
  <2>5. p \in Seq(S) /\ Len(p) = k /\ p # <<>>
    BY <2>1, <2>3, EmptySeq
  <2>6. p[1] # Blank
    BY <2>4 DEF Typed
  <2>7. Typed(S, p)
    BY <2>2, <2>5, <2>6 DEF Typed
  <2> QED
    BY <2>5, <2>7 DEF p, k
<1>3. 0 \in T
  <2>1. 0 + 1 <= n /\ 0 + 1 = 1
    BY <1>1
  <2>2. Typed(S, To(0)) /\ Len(To(0)) = 1
    BY <1>2, <2>1
  <2> HIDE DEF To
  <2>3. Parsing(To(0))
    BY <2>2, ParsingOne
  <2> QED
    BY <2>3
<1>4. ASSUME NEW m \in Nat, m \in T PROVE m + 1 \in T
  <2> SUFFICES ASSUME (m + 1) + 1 <= n PROVE Parsing(To(m + 1))
    OBVIOUS
  <2>1. m + 1 \in Nat /\ m + 1 <= n /\ m + 2 \in 1..n /\ (m + 1) + 1 = m + 2
    BY <1>1
  <2>2. Parsing(To(m)) /\ Typed(S, To(m)) /\ Len(To(m)) = m + 1
    BY <1>2, <1>4, <2>1
  <2>3. Typed(S, To(m + 1)) /\ Len(To(m + 1)) = m + 2
    BY <1>2, <2>1
  <2>4. To(m + 1) = Append(To(m), c[m + 2])
    <3> DEFINE p == To(m)
               q == To(m + 1)
               x == c[m + 2]
    <3>1. /\ \A j \in 1..(m + 1) : p[j] = c[j] /\ q[j] = c[j]
          /\ q[m + 2] = x
      BY <2>1
    <3>2. x \in S /\ p \in Seq(S) /\ q \in Seq(S) /\ Len(p) = m + 1 /\ Len(q) = m + 2
      BY <1>1, <2>1, <2>2, <2>3 DEF Typed
    <3> HIDE DEF p, q, x, To
    <3>3. /\ Append(p, x) \in Seq(S) /\ Len(Append(p, x)) = m + 2
          /\ Append(p, x)[m + 2] = x /\ \A j \in 1..(m + 1) : Append(p, x)[j] = p[j]
      BY <3>2
    <3>4. ASSUME NEW j \in 1..(m + 2) PROVE q[j] = Append(p, x)[j]
      <4>1. j = m + 2 \/ j \in 1..(m + 1)
        OBVIOUS
      <4> QED
        BY <3>1, <3>3, <4>1
    <3>5. q = Append(p, x)
      BY <3>2, <3>3, <3>4, SeqEqual
    <3> QED
      BY <3>5 DEF p, q, x
  <2>5. c[m + 2] \in S /\ c[m + 2] # NewLine
    BY <1>1, <2>1
  <2> HIDE DEF To
  <2> QED
    BY <2>2, <2>4, <2>5, ParsingMore
<1>5. n - 1 \in T
  <2> HIDE DEF T
  <2>1. \A m \in Nat : m \in T
    BY <1>3, <1>4, Induction
  <2> QED
    BY <1>1, <2>1
<1>6. n - 1 \in Nat /\ (n - 1) + 1 = n
  BY <1>1
<1>7. To(n - 1) = c
  <2> DEFINE p == [j \in 1..n |-> c[j]]
  <2>1. p \in [1..n -> S] /\ \A j \in 1..n : p[j] = c[j]
    BY <1>1
  <2>2. To(n - 1) = p
    BY <1>6
  <2> HIDE DEF p, To
  <2>3. p \in Seq(S) /\ Len(p) = n
    BY <1>1, <2>1
  <2> QED
    BY <1>1, <2>1, <2>2, <2>3, SeqEqual DEF n
<1> HIDE DEF To
<1> QED
  BY <1>5, <1>6, <1>7

\* The kernel's parsing (syscall_execute, syscall_getargs) gives a program the name and
\* the arguments the emulation under Linux gives it, but for a blank left at the end
\* where the command ends in blanks, for every command that starts with a word.
THEOREM CommandParsed ==
  ASSUME NEW S, Blank \in S, NEW c, Typed(S, c), NEW nbytes \in Nat, Len(args_of(c)) <= nbytes
  PROVE  LET words == ece391_execute(c)
             args  == args_of(c)
         IN  /\ exe_name(c) = words[1]
             /\ syscall_getargs(args, nbytes) = ece391_getargs(words)
                  \o IF args # <<>> /\ Last(args) = Blank THEN <<Blank>> ELSE <<>>
<1>1. Parsing(c)
  BY ParsingAll
<1>2. exe_name(c) = ece391_execute(c)[1]
  <2>1. StartsOrdered(c)
    BY <1>1 DEF Parsing
  <2>2. Starts(c)[1] = 1 /\ 1 \in 1..Len(Starts(c))
    BY <2>1, EmptySeq DEF StartsOrdered, Starts
  <2>3. ece391_execute(c)[1] = SubSeq(c, Starts(c)[1], WordEnd(c, 1) - 1)
    BY <2>1, <2>2, WordsTyped
  <2>4. exe_name(c) = SubSeq(c, 1, UpTo(c, 1, Seps) - 1)
    BY ArgsOf
  <2> QED
    BY <2>2, <2>3, <2>4 DEF WordEnd
<1>3. args_of(c) \in Seq(S)
  <2>1. c \in Seq(S) /\ c # <<>>
    BY DEF Typed
  <2>2. c[1] \in S /\ c[1] # NewLine
    BY <2>1, EmptySeq DEF Typed
  <2> QED
    BY <2>2, ArgsStep
<1>4. syscall_getargs(args_of(c), nbytes) = Copy(args_of(c))
  BY <1>3, CopyWhole
<1> QED
  BY <1>1, <1>2, <1>4 DEF Parsing, TrailingBlank, EndsBlank, Last
================================================================================
