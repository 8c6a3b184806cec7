---------------------------- MODULE Programs_proofs ----------------------------
(***************************************************************************)
(* The programs over FileSystem, for any image and any command line: what  *)
(* cat, ls and grep have shown when they halt, that counter counts, that   *)
(* syserr has nothing to find, that arguments are what was typed, and that *)
(* every step of every program is a call of FileSystem, so that its        *)
(* theorems hold here too.  ProgramInv has a part for each program but     *)
(* grep: at each place between two calls, what its descriptor, the last    *)
(* answer and the output are there.  A program's own step keeps its part   *)
(* because of the guard on label, every other part because prog is         *)
(* another.  GrepInv is the part of grep, with what holds of its buffer    *)
(* whoever runs: the characters searched so far start a line, what lies in *)
(* the buffer are the characters behind them, and out is what the first of *)
(* them have to show.                                                      *)
(***************************************************************************)
EXTENDS Programs, FileSystem_proofs, CommandLine_proofs

(***************************************************************************)
(* What the screen shows of a text.                                        *)
(***************************************************************************)
\* What is shown behind what was shown before it.
ShownNext(shown, c) == IF c = NUL THEN shown ELSE Append(shown, c)

ShowsInSteps(text, shown) ==
  /\ DOMAIN shown = 0..Len(text) /\ shown[0] = <<>>
  /\ \A n \in 1..Len(text) : shown[n] = ShownNext(shown[n - 1], text[n])

\* The loop of terminal_write: each character follows what was shown before it.
LEMMA ShownSteps ==
  ASSUME NEW S, NEW text \in Seq(S)
  PROVE  \E shown : ShowsInSteps(text, shown) /\ Shown(text) = shown[Len(text)]
<1> DEFINE l == Len(text)
           step == [a \in Seq(S) \X (1..l) |-> ShownNext(a[1], text[a[2]])]
<1>1. l \in Nat /\ \A n \in 1..l : text[n] \in S
  OBVIOUS
<1>2. <<>> \in Seq(S)
  OBVIOUS
<1>3. Stepping(step, Seq(S), l)
  <2>1. ASSUME NEW a \in Seq(S), NEW n \in 1..l PROVE ShownNext(a, text[n]) \in Seq(S)
    BY <1>1 DEF ShownNext
  <2> QED
    BY <2>1 DEF Stepping
<1> HIDE DEF l
<1>4. PICK x \in [0..l -> Seq(S)] : x[0] = <<>> /\ \A n \in 1..l : x[n] = step[<<x[n - 1], n>>]
  <2> HIDE DEF step
  <2>1. \E x : Recursive(x, l, Seq(S), <<>>, step)
    BY <1>1, <1>2, <1>3, Recursion
  <2> QED
    BY <2>1 DEF Recursive
<1>5. ASSUME NEW n \in 1..l PROVE x[n] = ShownNext(x[n - 1], text[n])
  <2>1. n - 1 \in 0..l
    BY <1>1
  <2>2. <<x[n - 1], n>> \in Seq(S) \X (1..l)
    BY <1>4, <2>1
  <2> QED
    BY <1>4, <2>2
<1>6. ASSUME NEW n \in 0..l
      PROVE  x[n] = IF n = 0 THEN <<>>
                    ELSE IF text[n] = NUL THEN x[n - 1] ELSE Append(x[n - 1], text[n])
  <2>1. n # 0 => n \in 1..l
    BY <1>1
  <2> QED
    BY <1>4, <1>5, <2>1, Zenon DEF ShownNext
<1>7. x = [n \in 0..l |-> IF n = 0 THEN <<>>
                          ELSE IF text[n] = NUL THEN x[n - 1] ELSE Append(x[n - 1], text[n])]
  BY <1>4, <1>6
<1>8. \E z : z = [n \in 0..Len(text) |->
                    IF n = 0 THEN <<>>
                    ELSE IF text[n] = NUL THEN z[n - 1] ELSE Append(z[n - 1], text[n])]
  BY <1>7 DEF l
<1> DEFINE y[n \in 0..Len(text)] ==
             IF n = 0 THEN <<>>
             ELSE IF text[n] = NUL THEN y[n - 1] ELSE Append(y[n - 1], text[n])
<1>9. y = [n \in 0..Len(text) |->
             IF n = 0 THEN <<>>
             ELSE IF text[n] = NUL THEN y[n - 1] ELSE Append(y[n - 1], text[n])]
  BY <1>8, Zenon
<1>10. Shown(text) = y[Len(text)]
  BY Zenon DEF Shown
<1> HIDE DEF y
<1>11. /\ DOMAIN y = 0..l
       /\ \A n \in 0..l : y[n] = IF n = 0 THEN <<>> ELSE ShownNext(y[n - 1], text[n])
  BY <1>9, Zenon DEF ShownNext, l
<1>12. 0 \in 0..l /\ \A n \in 1..l : n \in 0..l /\ n # 0
  BY <1>1
<1>13. ShowsInSteps(text, y)
  BY <1>11, <1>12, Zenon DEF ShowsInSteps, l
<1> QED
  BY <1>10, <1>13

\* Two texts that begin alike are shown alike so far.
LEMMA ShownAlike ==
  ASSUME NEW s, NEW t, NEW m \in Nat, Len(s) \in Nat, Len(t) \in Nat,
         m <= Len(s), m <= Len(t), \A n \in 1..m : s[n] = t[n],
         NEW x, ShowsInSteps(s, x), NEW y, ShowsInSteps(t, y)
  PROVE  x[m] = y[m]
<1> DEFINE T == {n \in Nat : n <= m => x[n] = y[n]}
<1>1. 0 \in T
  BY DEF ShowsInSteps
<1>2. ASSUME NEW n \in Nat, n \in T PROVE n + 1 \in T
  <2>1. ASSUME n + 1 <= m PROVE x[n + 1] = y[n + 1]
    <3>1. n + 1 \in 1..Len(s) /\ n + 1 \in 1..Len(t) /\ n + 1 \in 1..m /\ (n + 1) - 1 = n
      BY <2>1
    <3>2. x[n] = y[n]
      BY <1>2, <2>1
    <3> QED
      BY <3>1, <3>2 DEF ShowsInSteps
  <2> QED
    BY <2>1
<1>3. m \in T
  BY <1>1, <1>2, Induction
<1> QED
  BY <1>3

\* Of no text, nothing is shown; of one more character, that character, or nothing.
LEMMA ShownAppend ==
  ASSUME NEW S, NEW s \in Seq(S), NEW c \in S
  PROVE  Shown(<<>>) = <<>> /\ Shown(Append(s, c)) = ShownNext(Shown(s), c)
<1>1. Shown(<<>>) = <<>>
  <2>1. <<>> \in Seq(S) /\ Len(<<>>) = 0
    OBVIOUS
  <2> QED
    BY <2>1, ShownSteps DEF ShowsInSteps
<1> DEFINE u == Append(s, c)
<1>2. /\ u \in Seq(S) /\ Len(s) \in Nat /\ Len(u) = Len(s) + 1 /\ u[Len(s) + 1] = c
      /\ \A j \in 1..Len(s) : u[j] = s[j]
  OBVIOUS
<1> HIDE DEF u
<1>3. PICK x : ShowsInSteps(s, x) /\ Shown(s) = x[Len(s)]
  BY ShownSteps
<1>4. PICK y : ShowsInSteps(u, y) /\ Shown(u) = y[Len(u)]
  BY <1>2, ShownSteps
<1>5. y[Len(s)] = x[Len(s)]
  BY <1>2, <1>3, <1>4, ShownAlike
<1>6. Len(u) \in 1..Len(u) /\ Len(u) - 1 = Len(s)
  BY <1>2
<1>7. y[Len(u)] = ShownNext(y[Len(s)], c)
  BY <1>2, <1>4, <1>6 DEF ShowsInSteps
<1> QED
  BY <1>1, <1>3, <1>4, <1>5, <1>7 DEF u
\* A text grows by its next character.
LEMMA Grows ==
  ASSUME NEW S, NEW s \in Seq(S), NEW n \in Nat, n + 1 <= Len(s)
  PROVE  /\ SubSeq(s, 1, n) \in Seq(S) /\ s[n + 1] \in S
         /\ SubSeq(s, 1, n + 1) = Append(SubSeq(s, 1, n), s[n + 1])
<1>1. Len(s) \in Nat /\ \A j \in 1..Len(s) : s[j] \in S
  OBVIOUS
<1>2. \A j \in 1..n : s[j] \in S
  BY <1>1
<1>3. SubSeq(s, 1, n) \in Seq(S)
  BY <1>2, SubSeqProperties
<1>4. PICK z \in Nat : z = 0
  OBVIOUS
<1>5. z + (n + 1) = n + 1 /\ z + n = n /\ z + 1 = 1 /\ z + n < Len(s)
  BY <1>1, <1>4
<1>6. Append(SubSeq(s, z + 1, z + n), s[n + 1]) = SubSeq(s, z + 1, z + (n + 1))
  BY <1>5, Grow
<1> QED
  BY <1>1, <1>3, <1>5, <1>6

\* What is shown of a text is a text.
LEMMA ShownTyped ==
  ASSUME NEW S, NEW s \in Seq(S)
  PROVE  Shown(s) \in Seq(S)
<1> DEFINE T == {n \in Nat : n <= Len(s) => Shown(SubSeq(s, 1, n)) \in Seq(S)}
<1>1. 0 \in T
  <2>1. SubSeq(s, 1, 0) = <<>>
    BY SubSeqEmpty
  <2>2. Shown(<<>>) = <<>>
    <3>1. <<>> \in Seq(S) /\ Len(<<>>) = 0
      OBVIOUS
    <3> QED
      BY <3>1, ShownSteps DEF ShowsInSteps
  <2>3. <<>> \in Seq(S)
    OBVIOUS
  <2> QED
    BY <2>1, <2>2, <2>3
<1>2. ASSUME NEW n \in Nat, n \in T PROVE n + 1 \in T
  <2>1. ASSUME n + 1 <= Len(s) PROVE Shown(SubSeq(s, 1, n + 1)) \in Seq(S)
    <3>1. /\ SubSeq(s, 1, n) \in Seq(S) /\ s[n + 1] \in S
          /\ SubSeq(s, 1, n + 1) = Append(SubSeq(s, 1, n), s[n + 1])
      BY <2>1, Grows
    <3>2. Shown(SubSeq(s, 1, n)) \in Seq(S)
      BY <1>2, <2>1
    <3>3. Shown(SubSeq(s, 1, n + 1)) = ShownNext(Shown(SubSeq(s, 1, n)), s[n + 1])
      BY <3>1, ShownAppend
    <3>4. \A z \in Seq(S) : ShownNext(z, s[n + 1]) \in Seq(S)
      BY <3>1 DEF ShownNext
    <3> QED
      BY <3>2, <3>3, <3>4
  <2> QED
    BY <2>1
<1> HIDE DEF T
<1>3. Len(s) \in Nat /\ SubSeq(s, 1, Len(s)) = s
  BY SubSeqFull
<1>4. Len(s) \in T
  BY <1>1, <1>2, <1>3, Induction
<1>5. Shown(SubSeq(s, 1, Len(s))) \in Seq(S)
  BY <1>3, <1>4 DEF T
<1> QED
  BY <1>3, <1>5

\* Two texts are shown one behind the other.
LEMMA ShownConcat ==
  ASSUME NEW S, NEW a \in Seq(S), NEW b \in Seq(S)
  PROVE  Shown(a \o b) = Shown(a) \o Shown(b)
<1> DEFINE Part(n) == SubSeq(b, 1, n)
           T == {n \in Nat : n <= Len(b) => Shown(a \o Part(n)) = Shown(a) \o Shown(Part(n))}
<1>1. Shown(a) \in Seq(S)
  BY ShownTyped
<1>2. 0 \in T
  <2>1. Part(0) = <<>>
    BY SubSeqEmpty
  <2>2. Shown(<<>>) = <<>>
    <3>1. <<>> \in Seq(S) /\ Len(<<>>) = 0
      OBVIOUS
    <3> QED
      BY <3>1, ShownSteps DEF ShowsInSteps
  <2>3. a \o <<>> = a /\ Shown(a) \o <<>> = Shown(a)
    BY <1>1, ConcatEmptySeq
  <2> HIDE DEF Part
  <2> QED
    BY <2>1, <2>2, <2>3
<1>3. ASSUME NEW n \in Nat, n \in T PROVE n + 1 \in T
  <2>1. ASSUME n + 1 <= Len(b) PROVE Shown(a \o Part(n + 1)) = Shown(a) \o Shown(Part(n + 1))
    <3> DEFINE p == Part(n)
               c == b[n + 1]
    <3>1. p \in Seq(S) /\ c \in S /\ Part(n + 1) = Append(p, c)
      BY <2>1, Grows
    <3>2. Shown(a \o p) = Shown(a) \o Shown(p)
      BY <1>3, <2>1
    <3> HIDE DEF p, c, Part
    <3>3. a \o p \in Seq(S) /\ Shown(p) \in Seq(S) /\ a \o Append(p, c) = Append(a \o p, c)
      BY <3>1, ShownTyped
    <3>4. /\ Shown(Append(a \o p, c)) = ShownNext(Shown(a) \o Shown(p), c)
          /\ Shown(Append(p, c)) = ShownNext(Shown(p), c)
      BY <3>1, <3>2, <3>3, ShownAppend
    <3>5. Shown(a) \o Append(Shown(p), c) = Append(Shown(a) \o Shown(p), c)
      BY <1>1, <3>1, <3>3
    <3> QED
      BY <3>1, <3>3, <3>4, <3>5 DEF ShownNext
  <2> QED
    BY <2>1
<1> HIDE DEF T
<1>4. Len(b) \in Nat /\ SubSeq(b, 1, Len(b)) = b
  BY SubSeqFull
<1>5. Len(b) \in T
  BY <1>2, <1>3, <1>4, Induction
<1>6. Shown(a \o Part(Len(b))) = Shown(a) \o Shown(Part(Len(b)))
  <2> HIDE DEF Part
  <2> QED
    BY <1>4, <1>5 DEF T
<1> QED
  BY <1>4, <1>6

\* A text without NULs is shown as it is.
LEMMA ShownPlain ==
  ASSUME NEW S, NEW s \in Seq(S), \A j \in 1..Len(s) : s[j] # NUL
  PROVE  Shown(s) = s
<1> DEFINE T == {n \in Nat : n <= Len(s) => Shown(SubSeq(s, 1, n)) = SubSeq(s, 1, n)}
<1>1. 0 \in T
  <2>1. SubSeq(s, 1, 0) = <<>>
    BY SubSeqEmpty
  <2>2. Shown(<<>>) = <<>>
    <3>1. <<>> \in Seq(S) /\ Len(<<>>) = 0
      OBVIOUS
    <3> QED
      BY <3>1, ShownSteps DEF ShowsInSteps
  <2> QED
    BY <2>1, <2>2
<1>2. ASSUME NEW n \in Nat, n \in T PROVE n + 1 \in T
  <2>1. ASSUME n + 1 <= Len(s) PROVE Shown(SubSeq(s, 1, n + 1)) = SubSeq(s, 1, n + 1)
    <3>1. /\ SubSeq(s, 1, n) \in Seq(S) /\ s[n + 1] \in S
          /\ SubSeq(s, 1, n + 1) = Append(SubSeq(s, 1, n), s[n + 1])
      BY <2>1, Grows
    <3>2. Shown(SubSeq(s, 1, n)) = SubSeq(s, 1, n)
      BY <1>2, <2>1
    <3>3. Shown(SubSeq(s, 1, n + 1)) = ShownNext(Shown(SubSeq(s, 1, n)), s[n + 1])
      BY <3>1, ShownAppend
    <3>4. s[n + 1] # NUL
      BY <2>1
    <3> QED
      BY <3>1, <3>2, <3>3, <3>4 DEF ShownNext
  <2> QED
    BY <2>1
<1> HIDE DEF T
<1>3. Len(s) \in Nat /\ SubSeq(s, 1, Len(s)) = s
  BY SubSeqFull
<1>4. Len(s) \in T
  BY <1>1, <1>2, <1>3, Induction
<1>5. Shown(SubSeq(s, 1, Len(s))) = SubSeq(s, 1, Len(s))
  BY <1>3, <1>4 DEF T
<1> QED
  BY <1>3, <1>5

(***************************************************************************)
(* The lines of a text.                                                    *)
(***************************************************************************)
Stops(text) == {p \in 1..Len(text) : text[p] = NewLine}
Whole(text) == text = <<>> \/ Last(text) = NewLine

\* Where the lines end that end with a newline.
LEMMA StopsFacts ==
  ASSUME NEW S, NEW text \in Seq(S), Whole(text)
  PROVE  /\ Stops(text) \in SUBSET Nat /\ Ranked(Stops(text)) /\ Cardinality(Stops(text)) \in Nat
         /\ Ascending(Stops(text)) \in Seq(Stops(text))
         /\ Len(Ascending(Stops(text))) = Cardinality(Stops(text))
         /\ Cardinality(Stops(text)) = 0 <=> text = <<>>
         /\ text # <<>> => Ascending(Stops(text))[Cardinality(Stops(text))] = Len(text)
<1> DEFINE E == Stops(text)
           l == Len(text)
<1>1. l \in Nat /\ E \in SUBSET (1..l) /\ E \in SUBSET Nat
  BY DEF Stops
<1>2. Ranked(E)
  BY <1>1, AllRanked
<1>3. Cardinality(E) \in Nat /\ IsFiniteSet(E)
  BY <1>2, FS_CardinalityType DEF Ranked
<1>4. /\ Ascending(E) \in Seq(E) /\ Len(Ascending(E)) = Cardinality(E)
      /\ \A j \in 1..Cardinality(E), x \in E : Ascending(E)[j] = x <=> Rank(E, x) = j
  BY <1>1, <1>2, AscendingFacts
<1>5. CASE text = <<>>
  <2>1. E = {}
    BY <1>5 DEF Stops
  <2>2. Cardinality(E) = 0
    BY <2>1, FS_EmptySet
  <2> QED
    BY <1>1, <1>2, <1>3, <1>4, <1>5, <2>2
<1>6. CASE text # <<>>
  <2>1. l \in E
    <3>1. l \in 1..l /\ Last(text) = text[l]
      BY <1>1, <1>6 DEF Last
    <3> QED
      BY <1>6, <3>1 DEF Whole, Stops
  <2>2. Cardinality(E) # 0
    BY <1>3, <2>1, FS_EmptySet
  <2>3. Rank(E, l) = Cardinality(E)
    <3>1. {y \in E : y <= l} = E
      BY <1>1
    <3> QED
      BY <3>1 DEF Rank
  <2>4. Cardinality(E) \in 1..Cardinality(E)
    BY <1>3, <2>2
  <2>5. Ascending(E)[Cardinality(E)] = l
    BY <1>4, <2>1, <2>3, <2>4
  <2> QED
    BY <1>1, <1>2, <1>3, <1>4, <1>6, <2>2, <2>5
<1> QED
  BY <1>5, <1>6

\* A line more.
LEMMA LinesAppend ==
  ASSUME NEW S, NewLine \in S, NEW text \in Seq(S), Whole(text),
         NEW line \in Seq(S), \A j \in 1..Len(line) : line[j] # NewLine
  PROVE  /\ LinesOf(<<>>) = <<>>
         /\ LinesOf(text) \in Seq(Seq(S))
         /\ text \o Append(line, NewLine) \in Seq(S)
         /\ Whole(text \o Append(line, NewLine))
         /\ LinesOf(text \o Append(line, NewLine)) = Append(LinesOf(text), line)
<1> DEFINE u == text \o Append(line, NewLine)
           n == Len(text)
           m == n + Len(line) + 1
           E == Stops(text)
           c == Cardinality(E)
           LineOf(t, ends, j) ==
             SubSeq(t, IF j = 1 THEN 1 ELSE ends[j - 1] + 1, ends[j] - 1)
           Cut(t, ends) == [j \in 1..Len(ends) |-> LineOf(t, ends, j)]
<1>1. n \in Nat /\ Len(line) \in Nat /\ m \in Nat
  OBVIOUS
<1>2. /\ u \in Seq(S) /\ Len(u) = m /\ u[m] = NewLine
      /\ \A j \in 1..n : u[j] = text[j]
      /\ \A j \in 1..Len(line) : u[n + j] = line[j]
  <2>1. /\ Append(line, NewLine) \in Seq(S) /\ Len(Append(line, NewLine)) = Len(line) + 1
        /\ Append(line, NewLine)[Len(line) + 1] = NewLine
        /\ \A j \in 1..Len(line) : Append(line, NewLine)[j] = line[j]
    OBVIOUS
  <2> DEFINE w == Append(line, NewLine)
  <2> HIDE DEF w
  <2>2. /\ u \in Seq(S) /\ Len(u) = n + Len(w)
        /\ \A j \in 1..(n + Len(w)) : u[j] = IF j <= n THEN text[j] ELSE w[j - n]
    BY <2>1, ConcatProperties DEF w
  <2> HIDE DEF u
  <2>3. /\ Len(w) = Len(line) + 1 /\ w[Len(line) + 1] = NewLine
        /\ \A j \in 1..Len(line) : w[j] = line[j]
    BY <2>1 DEF w
  <2>4. Len(u) = m /\ u[m] = NewLine /\ \A j \in 1..n : u[j] = text[j]
    <3>1. m \in 1..(n + Len(w)) /\ ~(m <= n) /\ m - n = Len(line) + 1 /\ m = n + Len(w)
      BY <1>1, <2>3
    <3>2. \A j \in 1..n : j \in 1..(n + Len(w)) /\ j <= n
      BY <1>1, <2>3
    <3> QED
      BY <2>2, <2>3, <3>1, <3>2
  <2>5. ASSUME NEW j \in 1..Len(line) PROVE u[n + j] = line[j]
    <3>1. n + j \in 1..(n + Len(w)) /\ ~(n + j <= n) /\ (n + j) - n = j
      BY <1>1, <2>3
    <3> QED
      BY <2>2, <2>3, <3>1
  <2> QED
    BY <2>2, <2>4, <2>5
<1>3. Whole(u)
  BY <1>1, <1>2 DEF Whole, Last
<1>4. Stops(u) = E \cup {m}
  <2>1. ASSUME NEW p \in 1..m PROVE u[p] = NewLine <=> p \in E \/ p = m
    <3>1. CASE p <= n
      BY <1>1, <1>2, <3>1 DEF Stops
    <3>2. CASE p > n /\ p # m
      <4>1. p - n \in 1..Len(line) /\ n + (p - n) = p /\ p \notin E
        BY <1>1, <3>2 DEF Stops
      <4> QED
        BY <1>2, <3>2, <4>1
    <3>3. CASE p = m
      BY <1>2, <3>3
    <3> QED
      BY <1>1, <3>1, <3>2, <3>3
  <2>2. \A p \in E : p \in 1..m
    BY <1>1 DEF Stops
  <2>3. m \in 1..m
    BY <1>1
  <2>4. Stops(u) = {p \in 1..m : u[p] = NewLine}
    BY <1>2 DEF Stops
  <2> HIDE DEF u, m, E
  <2> QED
    BY <2>1, <2>2, <2>3, <2>4
<1>5. /\ E \in SUBSET Nat /\ Ranked(E) /\ c \in Nat /\ Ascending(E) \in Seq(E) /\ Len(Ascending(E)) = c
      /\ (c = 0 <=> text = <<>>) /\ (text # <<>> => Ascending(E)[c] = n)
  BY StopsFacts
<1> DEFINE a == Ascending(E)
           b == Ascending(E \cup {m})
<1>6. b = Append(a, m)
  <2>1. \A x \in E : x < m
    BY <1>1 DEF Stops
  <2> HIDE DEF E, m
  <2> QED
    BY <1>1, <1>5, <2>1, AscendingAppend
<1>7. LinesOf(text) = Cut(text, a) /\ LinesOf(u) = Cut(u, b)
  <2>1. LinesOf(text) = Cut(text, a)
    BY DEF LinesOf, Stops, Whole
  <2>2. Ascending(Stops(u)) = b
    BY <1>4
  <2>3. LinesOf(u) = Cut(u, Ascending(Stops(u)))
    BY <1>3 DEF LinesOf, Stops, Whole
  <2> QED
    BY <2>1, <2>2, <2>3
<1>8. LinesOf(<<>>) = <<>>
  <2>1. Ascending({}) = <<>>
    <3>1. {} \in SUBSET Nat
      OBVIOUS
    <3>2. Ascending({}) \in Seq({}) /\ Len(Ascending({})) = 0
      BY <3>1, RankedEmpty, AscendingFacts
    <3> QED
      BY <3>2
  <2>2. {p \in 1..Len(<<>>) : <<>>[p] = NewLine} = {}
    OBVIOUS
  <2> QED
    BY <2>1, <2>2 DEF LinesOf
<1> HIDE DEF u, a, b
<1>9. /\ Len(b) = c + 1 /\ Len(a) = c /\ b[c + 1] = m /\ \A j \in 1..c : b[j] = a[j] /\ a[j] \in E
  <2>1. a \in Seq(Nat) /\ Len(a) = c /\ \A j \in 1..c : a[j] \in E
    BY <1>5, SeqMonotonic DEF a
  <2> HIDE DEF E, m, c
  <2> QED
    BY <1>1, <1>5, <1>6, <2>1
<1>10. \A x \in E : x \in 1..n
  BY DEF Stops
<1> HIDE DEF E, c, m, n
<1>11. ASSUME NEW j \in 1..c PROVE LineOf(u, b, j) = LineOf(text, a, j) /\ LineOf(text, a, j) \in Seq(S)
  <2> DEFINE f == IF j = 1 THEN 1 ELSE a[j - 1] + 1
             g == a[j] - 1
  <2>1. f \in Nat /\ f >= 1 /\ g \in Nat /\ g <= n
    <3>1. a[j] \in 1..n
      BY <1>9, <1>10
    <3>2. j # 1 => j - 1 \in 1..c
      BY <1>5
    <3>3. j # 1 => a[j - 1] \in 1..n
      BY <1>9, <1>10, <3>2
    <3> QED
      BY <1>1, <3>1, <3>3
  <2>2. LineOf(u, b, j) = SubSeq(u, f, g) /\ LineOf(text, a, j) = SubSeq(text, f, g)
    <3>1. j # 1 => j - 1 \in 1..c
      BY <1>5
    <3> QED
      BY <1>9, <3>1
  <2> HIDE DEF f, g
  <2>3. \A q \in f..g : u[q] = text[q] /\ text[q] \in S
    BY <1>1, <1>2, <2>1 DEF n
  <2>4. SubSeq(text, f, g) \in Seq(S) /\ SubSeq(u, f, g) \in Seq(S)
    BY <2>1, <2>3, SubSeqProperties
  <2>5. SubSeq(u, f, g) = SubSeq(text, f, g)
    BY <2>1, <2>3, SubSeqProperties, SeqEqual, <2>4
  <2> QED
    BY <2>2, <2>4, <2>5
<1>12. LineOf(u, b, c + 1) = line
  <2>1. (IF c + 1 = 1 THEN 1 ELSE b[(c + 1) - 1] + 1) = n + 1
    <3>1. CASE c = 0
      <4>1. n = 0
        BY <1>5, <3>1 DEF n
      <4> QED
        BY <3>1, <4>1
    <3>2. CASE c # 0
      <4>1. c \in 1..c /\ (c + 1) - 1 = c /\ c + 1 # 1
        BY <1>5, <3>2
      <4>2. b[c] = n
        BY <1>5, <1>9, <3>2, <4>1 DEF a
      <4> QED
        BY <4>1, <4>2
    <3> QED
      BY <3>1, <3>2
  <2>2. LineOf(u, b, c + 1) = SubSeq(u, n + 1, m - 1)
    BY <1>9, <2>1
  <2>3. m - 1 = n + Len(line)
    BY <1>1 DEF m
  <2>4. \A q \in (n + 1)..(n + Len(line)) : u[q] = line[q - n] /\ u[q] \in S
    <3>1. ASSUME NEW q \in (n + 1)..(n + Len(line)) PROVE u[q] = line[q - n] /\ u[q] \in S
      <4>1. q - n \in 1..Len(line) /\ n + (q - n) = q
        BY <1>1
      <4> QED
        BY <1>2, <4>1
    <3> QED
      BY <3>1
  <2> DEFINE z == SubSeq(u, n + 1, n + Len(line))
  <2>5. z \in Seq(S) /\ Len(z) = Len(line) /\ \A q \in 1..Len(line) : z[q] = u[n + q]
    BY <1>1, <2>4, SubSeqProperties
  <2>6. z = line
    <3> HIDE DEF z
    <3> QED
      BY <1>2, <2>5, SeqEqual
  <2> QED
    BY <2>2, <2>3, <2>6
<1> HIDE DEF LineOf
<1>13. LinesOf(text) \in Seq(Seq(S)) /\ Len(LinesOf(text)) = c
       /\ \A j \in 1..c : LinesOf(text)[j] = LineOf(text, a, j)
  BY <1>5, <1>7, <1>9, <1>11
<1>14. LinesOf(u) = Append(LinesOf(text), line)
  <2>1. LinesOf(u) = [j \in 1..(c + 1) |-> LineOf(u, b, j)]
    BY <1>7, <1>9
  <2>2. ASSUME NEW j \in 1..(c + 1)
        PROVE  LinesOf(u)[j] = Append(LinesOf(text), line)[j] /\ LinesOf(u)[j] \in Seq(S)
    <3>1. CASE j = c + 1
      <4>1. Append(LinesOf(text), line)[c + 1] = line
        BY <1>13
      <4> QED
        BY <1>12, <2>1, <3>1, <4>1
    <3>2. CASE j # c + 1
      <4>1. j \in 1..c
        BY <1>5, <3>2
      <4>2. Append(LinesOf(text), line)[j] = LinesOf(text)[j]
        BY <1>13, <4>1
      <4> QED
        BY <1>11, <1>13, <2>1, <4>1, <4>2
    <3> QED
      BY <3>1, <3>2
  <2>3. LinesOf(u) \in Seq(Seq(S)) /\ Len(LinesOf(u)) = c + 1
    BY <1>5, <2>1, <2>2
  <2>4. Append(LinesOf(text), line) \in Seq(Seq(S)) /\ Len(Append(LinesOf(text), line)) = c + 1
    BY <1>5, <1>13
  <2> QED
    BY <2>2, <2>3, <2>4, SeqEqual
<1> QED
  BY <1>2, <1>3, <1>8, <1>13, <1>14 DEF u

(***************************************************************************)
(* What a program knows of its descriptor 2, the first one open hands out. *)
(***************************************************************************)
NoneOpen == \A f \in Fds : fd_array[f].flags = 0

OpenAs(name) ==
  /\ name \in Names /\ fd_array[2].flags = 1
  /\ fd_array[2].ops = OpsOf(Dentry(name).type) /\ fd_array[2].inode = Dentry(name).inode

\* The names a reader of the directory has seen are of the directory.
WithinListing == fd_array[2].ops = "dir" => fd_array[2].file_pos <= Len(Listing)

\* All that the reads have returned.
Passed ==
  CASE fd_array[2].ops = "rtc" -> <<>>
    [] fd_array[2].ops = "dir" -> FlattenSeq(SubSeq(Listing, 1, fd_array[2].file_pos))
    [] OTHER -> SubSeq(ContentOf(fd_array[2].inode), 1, fd_array[2].file_pos)

\* The directory is a sequence of names, none of them empty, none with a NUL.
LEMMA ListingTyped ==
  /\ Listing \in Seq(Seq(STRING)) /\ Len(Listing) = boot.total_dentries /\ Len(Listing) \in Nat \ {0}
  /\ \A n \in 1..Len(Listing) :
       /\ Listing[n] = DentryAt(n - 1).file_name
       /\ Listing[n] \in Seq(STRING) /\ Listing[n] # <<>> /\ Len(Listing[n]) \in Nat \ {0}
       /\ \A c \in 1..Len(Listing[n]) : Listing[n][c] # NUL
<1> DEFINE total == boot.total_dentries
<1>1. total \in Nat /\ total \in 1..DENTRY_NUM /\ DENTRY_NUM \in Nat
  BY ImageAssumption
<1>2. ASSUME NEW n \in 1..total
      PROVE  /\ n - 1 \in Entries /\ boot.dentries[n - 1].file_name = DentryAt(n - 1).file_name
             /\ DentryAt(n - 1).file_name \in Seq(STRING) /\ DentryAt(n - 1).file_name # <<>>
             /\ \A c \in 1..Len(DentryAt(n - 1).file_name) : DentryAt(n - 1).file_name[c] # NUL
  <2>1. n - 1 \in Nat /\ n - 1 < total /\ n - 1 \in Entries
    BY <1>1 DEF Entries
  <2>2. DentryAt(n - 1).file_name \in Seq(STRING) /\ DentryAt(n - 1).file_name # <<>>
    BY <2>1, EntryTyped
  <2>3. DentryAt(n - 1) = boot.dentries[n - 1]
    BY <2>1 DEF DentryAt
  <2>4. \A c \in 1..Len(boot.dentries[n - 1].file_name) : boot.dentries[n - 1].file_name[c] # NUL
    BY <2>1, ImageAssumption
  <2> QED
    BY <2>1, <2>2, <2>3, <2>4
<1>3. Listing = [n \in 1..total |-> boot.dentries[n - 1].file_name]
  BY DEF Listing
<1> HIDE DEF total
<1>4. Listing \in [1..total -> Seq(STRING)] /\ DOMAIN Listing = 1..total
  BY <1>2, <1>3
<1>5. Listing \in Seq(Seq(STRING))
  BY <1>1, <1>4, SeqDef
<1>6. Len(Listing) = total
  BY <1>1, <1>4, <1>5, LenProperties
<1>7. ASSUME NEW n \in 1..total
      PROVE  /\ Listing[n] = DentryAt(n - 1).file_name
             /\ Listing[n] \in Seq(STRING) /\ Listing[n] # <<>> /\ Len(Listing[n]) \in Nat \ {0}
             /\ \A c \in 1..Len(Listing[n]) : Listing[n][c] # NUL
  <2>1. Listing[n] = DentryAt(n - 1).file_name
    BY <1>2, <1>3
  <2>2. Listing[n] \in Seq(STRING) /\ Listing[n] # <<>>
    BY <1>2, <2>1
  <2>3. Len(Listing[n]) \in Nat \ {0}
    BY <2>2, EmptySeq
  <2> QED
    BY <1>2, <2>1, <2>2, <2>3
<1> QED
  BY <1>1, <1>5, <1>6, <1>7 DEF total

\* The bytes of a file are characters.
LEMMA ContentChars ==
  ASSUME NEW ino \in Inodes
  PROVE  /\ ContentOf(ino) \in Seq(STRING) /\ Len(ContentOf(ino)) = inode_ptr[ino].length
         /\ inode_ptr[ino].length \in Nat
<1>1. inode_ptr[ino].length \in Nat /\ Len(ContentOf(ino)) = inode_ptr[ino].length
  BY ContentTyped
<1>2. ASSUME NEW n \in 1..inode_ptr[ino].length PROVE ContentOf(ino)[n] \in STRING
  <2>1. n - 1 \in 0..(inode_ptr[ino].length - 1) /\ (n - 1) + 1 = n
    BY <1>1
  <2>2. FileByte(ino, n - 1) \in STRING
    BY <2>1, ImageAssumption DEF FileByte
  <2>3. ContentOf(ino)[(n - 1) + 1] = FileByte(ino, n - 1)
    BY <2>1, ContentTyped
  <2> QED
    BY <2>1, <2>2, <2>3
<1>3. PICK S : ContentOf(ino) \in Seq(S)
  BY ContentTyped
<1>4. ContentOf(ino) \in [1..inode_ptr[ino].length -> S]
  BY <1>1, <1>3, LenProperties
<1>5. ContentOf(ino) \in [1..inode_ptr[ino].length -> STRING]
  BY <1>2, <1>4
<1>6. ContentOf(ino) \in Seq(STRING)
  BY <1>1, <1>5, SeqDef
<1> QED
  BY <1>1, <1>6

\* The table, for descriptor 2.
LEMMA Second ==
  ASSUME IInv
  PROVE  /\ 2 \in Fds /\ 2 \in 0..(MAX_NUM_FD - 1) /\ DOMAIN fd_array = 0..(MAX_NUM_FD - 1)
         /\ MAX_NUM_FD # 1 /\ MAX_NUM_FD # 2
         /\ fd_array[2] \in [ops : {"none", "stdin", "stdout", "rtc", "dir", "file"},
                             inode : Nat, file_pos : Nat, flags : {0, 1}]
         /\ fd_array[2].ops \in {"none", "rtc", "dir", "file"}
BY Bounds, ImageAssumption DEF Fds, IInv, TypeOK, Descriptors

\* The first open of a program: descriptor 2, at the start, if there is such a name.
LEMMA FirstOpen ==
  ASSUME IInv, NoneOpen, NEW name, syscall_open(name)
  PROVE  /\ UNCHANGED <<pc, out, fate>>
         /\ \/ ret'.count = 2 /\ OpenAs(name)' /\ fd_array'[2].file_pos = 0
            \/ ret'.count = -1 /\ name \notin Names
<1>1. UNCHANGED <<pc, out, fate>>
  BY DEF syscall_open
<1>2. CASE name \in Names
  <2>1. name # <<>> /\ Exists(name)
    BY <1>2, NameExists
  <2>2. ~InUse(2) /\ 2 \in Fds
    BY Second DEF NoneOpen, InUse
  <2>3. PICK f \in Fds :
          /\ \A e \in 2..(f - 1) : InUse(e)
          /\ fd_array' = [fd_array EXCEPT ![f] =
               [ops |-> OpsOf(Dentry(name).type), inode |-> Dentry(name).inode,
                file_pos |-> 0, flags |-> 1]]
          /\ Returns("open", 0, name, 0, f, <<>>)
    BY <2>1, <2>2 DEF syscall_open
  <2>4. f = 2
    BY <2>2, <2>3 DEF Fds
  <2>5. fd_array'[2] = [ops |-> OpsOf(Dentry(name).type), inode |-> Dentry(name).inode,
                        file_pos |-> 0, flags |-> 1]
    BY <2>3, <2>4, Second
  <2> QED
    BY <1>1, <1>2, <2>3, <2>4, <2>5 DEF OpenAs, Returns
<1>3. CASE name \notin Names
  <2>1. name = <<>> \/ ~Exists(name)
    BY <1>3, NameExists
  <2> QED
    BY <1>1, <1>3, <2>1 DEF syscall_open, Returns
<1> QED
  BY <1>2, <1>3

\* A write to descriptor 1 shows the text and moves nothing.
LEMMA WriteShows ==
  ASSUME IInv, NEW text, NEW n \in Nat, syscall_write(1, text, n)
  PROVE  /\ out' = out \o Shown(text) /\ ret'.count = 0
         /\ UNCHANGED <<fd_array, pc, locals, fate>>
<1>1. InUse(1) /\ fd_array[1].ops = "stdout" /\ MAX_NUM_FD # 1
  BY Second DEF syscall_write, Running, IInv, Descriptors
<1>2. ~PastTheTable(1)
  BY <1>1 DEF PastTheTable
<1> QED
  BY <1>1, <1>2 DEF syscall_write, Returns
\* What is stored under a name, by the operations table its entry is opened with.
LEMMA StoredBy ==
  ASSUME NEW name \in Names
  PROVE  LET ops == OpsOf(Dentry(name).type)
         IN  /\ ops \in {"rtc", "dir", "file"}
             /\ ops = "rtc" => Stored(name) = <<>>
             /\ ops = "dir" => Stored(name) = FlattenSeq(Listing)
             /\ ops = "file" => /\ Stored(name) = ContentOf(Dentry(name).inode)
                                /\ Dentry(name).inode \in Inodes
<1>1. name # <<>> /\ Exists(name)
  BY NameExists
<1>2. /\ OpsOf(Dentry(name).type) \in {"rtc", "dir", "file"}
      /\ OpsOf(Dentry(name).type) = "file" => Dentry(name).inode \in Inodes
  BY <1>1, OpenedTyped
<1>3. /\ OpsOf(Dentry(name).type) = "rtc" => Dentry(name).type = 0
      /\ OpsOf(Dentry(name).type) = "dir" => Dentry(name).type = 1
      /\ OpsOf(Dentry(name).type) = "file" => Dentry(name).type \notin {0, 1}
  BY DEF OpsOf
<1> QED
  BY <1>2, <1>3 DEF Stored

\* A read of descriptor 2 ends at once, with an answer, or goes on in the loop.
LEMMA ReadNext ==
  ASSUME IInv, NEW name, OpenAs(name), WithinListing, NEW n \in Nat \ {0}, syscall_read(2, n)
  PROVE  /\ UNCHANGED <<out, fate>> /\ OpenAs(name)'
         /\ \/ /\ pc' = "read_data" /\ fd_read' = 2 /\ length' = n /\ UNCHANGED fd_array
               /\ fd_array[2].ops = "file"
            \/ /\ pc' = "user" /\ ret'.count = 0 /\ Passed = Stored(name)
               /\ fd_array[2].ops = "dir" => fd_array[2].file_pos = Len(Listing)
            \/ /\ pc' = "user" /\ fd_array[2].ops = "dir"
               /\ fd_array[2].file_pos + 1 \in 1..Len(Listing)
               /\ fd_array'[2] = [fd_array[2] EXCEPT !.file_pos = fd_array[2].file_pos + 1]
               /\ ret'.count \in Nat \ {0} /\ ret'.bytes = Listing[fd_array[2].file_pos + 1]
<1> DEFINE f == fd_array[2]
           pos == fd_array[2].file_pos
<1>1. /\ 2 \in Fds /\ 2 \in 0..(MAX_NUM_FD - 1) /\ DOMAIN fd_array = 0..(MAX_NUM_FD - 1)
      /\ InUse(2) /\ pc = "user" /\ ~PastTheTable(2)
      /\ pos \in Nat
      /\ f \in [ops : {"none", "stdin", "stdout", "rtc", "dir", "file"},
                inode : Nat, file_pos : Nat, flags : {0, 1}]
  BY Second DEF OpenAs, InUse, PastTheTable, syscall_read, Running
<1>2. /\ f.ops = OpsOf(Dentry(name).type) /\ f.ops \in {"rtc", "dir", "file"}
      /\ f.inode = Dentry(name).inode
  BY StoredBy DEF OpenAs
<1>3. CASE f.ops = "rtc"
  <2>1. Answers(2, n, 0, <<>>)
    BY <1>1, <1>3 DEF syscall_read
  <2>2. Stored(name) = <<>> /\ Passed = <<>>
    BY <1>2, <1>3, StoredBy DEF OpenAs, Passed
  <2> QED
    BY <1>1, <1>3, <2>1, <2>2 DEF Answers, Returns, OpenAs
<1>4. CASE f.ops = "dir"
  <2>1. dir_read(2, n)
    BY <1>1, <1>4 DEF syscall_read
  <2>2. pos <= Len(Listing) /\ Len(Listing) = boot.total_dentries /\ Len(Listing) \in Nat
    BY <1>4, ListingTyped DEF WithinListing
  <2>3. ~IndexRefused(pos)
    BY <1>1, <2>2 DEF IndexRefused
  <2> DEFINE entry == DentryAt(pos).file_name
  <2>4. /\ fd_array' = [fd_array EXCEPT ![2].file_pos = pos + 1]
        /\ Returns("read", 2, <<>>, n, Len(entry), entry)
        /\ UNCHANGED <<pc, locals, out, fate>>
    BY <2>1, <2>3 DEF dir_read, Answers
  <2>5. fd_array'[2] = [fd_array[2] EXCEPT !.file_pos = pos + 1]
    BY <1>1, <2>4
  <2>6. OpenAs(name)'
    <3>1. /\ fd_array'[2].flags = f.flags /\ fd_array'[2].ops = f.ops
          /\ fd_array'[2].inode = f.inode
      BY <1>1, <2>5
    <3> QED
      BY <3>1 DEF OpenAs
  <2>7. CASE pos = Len(Listing)
    <3>1. entry = <<>>
      <4>1. DentryAt(pos).file_name # <<>> <=> pos < boot.total_dentries
        BY <1>1, EntryTyped
      <4>2. ~(pos < boot.total_dentries)
        BY <2>2, <2>7
      <4> QED
        BY <4>1, <4>2
    <3>2. Len(entry) = 0
      BY <3>1
    <3>3. SubSeq(Listing, 1, pos) = Listing
      BY <2>7, ListingTyped, SubSeqFull
    <3>4. Passed = Stored(name)
      BY <1>2, <1>4, <3>3, StoredBy DEF OpenAs, Passed
    <3> QED
      BY <1>1, <2>4, <2>6, <2>7, <3>2, <3>4 DEF Returns
  <2>8. CASE pos # Len(Listing)
    <3>1. pos + 1 \in 1..Len(Listing) /\ (pos + 1) - 1 = pos
      BY <1>1, <2>2, <2>8
    <3>2. Listing[pos + 1] = entry /\ Len(entry) \in Nat \ {0}
      BY <3>1, ListingTyped
    <3> QED
      BY <1>1, <1>4, <2>4, <2>5, <2>6, <3>1, <3>2 DEF Returns
  <2> QED
    BY <2>7, <2>8
<1>5. CASE f.ops = "file"
  <2>1. file_read(2, n)
    BY <1>1, <1>5 DEF syscall_read
  <2>2. f.inode \in Inodes
    BY <1>2, <1>5, StoredBy DEF OpenAs
  <2>3. /\ pc' = "read_data" /\ fd_read' = 2 /\ length' = n /\ UNCHANGED <<fd_array, out, fate>>
    BY <2>1, <2>2 DEF file_read
  <2> QED
    BY <1>5, <2>3 DEF OpenAs
<1> QED
  BY <1>2, <1>3, <1>4, <1>5

\* The bytes of the next part of a text lie behind those before them.
LEMMA NextPart ==
  ASSUME NEW S, NEW s \in Seq(S), NEW m \in Nat, NEW n \in Nat, m + n <= Len(s)
  PROVE  /\ SubSeq(s, 1, m) \in Seq(S) /\ SubSeq(s, m + 1, m + n) \in Seq(S)
         /\ Len(SubSeq(s, m + 1, m + n)) = n
         /\ SubSeq(s, 1, m + n) = SubSeq(s, 1, m) \o SubSeq(s, m + 1, m + n)
<1>1. Len(s) \in Nat /\ \A j \in 1..Len(s) : s[j] \in S
  OBVIOUS
<1>2. SubSeq(s, 1, m) \in Seq(S)
  BY <1>1, SubSeqProperties
<1>3. SubSeq(s, m + 1, m + n) \in Seq(S) /\ Len(SubSeq(s, m + 1, m + n)) = n
  <2>1. \A j \in (m + 1)..(m + n) : s[j] \in S
    BY <1>1
  <2>2. m + 1 \in Int /\ m + n \in Int
    OBVIOUS
  <2>3. /\ SubSeq(s, m + 1, m + n) \in Seq(S)
        /\ Len(SubSeq(s, m + 1, m + n)) = IF m + 1 <= m + n THEN (m + n) - (m + 1) + 1 ELSE 0
    BY <2>1, <2>2, SubSeqProperties
  <2>4. (IF m + 1 <= m + n THEN (m + n) - (m + 1) + 1 ELSE 0) = n
    OBVIOUS
  <2> QED
    BY <2>3, <2>4
<1>4. 1 \in 1..(Len(s) + 1) /\ m \in (1 - 1)..Len(s) /\ m + n \in m..Len(s)
  BY <1>1
<1>5. SubSeq(s, 1, m) \o SubSeq(s, m + 1, m + n) = SubSeq(s, 1, m + n)
  BY <1>4, ConcatAdjacentSubSeq
<1> QED
  BY <1>2, <1>3, <1>5

\* The loop returns to a program that reads from descriptor 2 with the next bytes, or
\* with none when there are no more.
LEMMA ReturnNext ==
  ASSUME IInv, NEW name, OpenAs(name), fd_read = 2, length # 0, ReadReturns
  PROVE  /\ pc' = "user" /\ UNCHANGED <<out, fate>> /\ OpenAs(name)' /\ WithinListing'
         /\ \/ ret'.count = 0 /\ Passed = Stored(name)
            \/ /\ ret'.count \in Nat \ {0} /\ Passed \in Seq(STRING) /\ ret'.bytes \in Seq(STRING)
               /\ Passed' = Passed \o ret'.bytes
<1> DEFINE ino == fd_array[2].inode
           pos == fd_array[2].file_pos
           c == ContentOf(ino)
<1>1. /\ fd_array[2].ops = "file" /\ ino \in Inodes /\ pos \in Nat /\ i \in Nat /\ length \in Nat
      /\ inode_ptr[ino].length \in Nat /\ pos + i <= inode_ptr[ino].length
      /\ i = IF length < inode_ptr[ino].length - pos THEN length ELSE inode_ptr[ino].length - pos
      /\ buf = SubSeq(c, pos + 1, pos + i)
  BY LoopDone DEF ReadReturns
<1>2. /\ fd_array' = [fd_array EXCEPT ![2].file_pos = pos + i]
      /\ ret'.count = i /\ ret'.bytes = buf
      /\ pc' = "user" /\ UNCHANGED <<out, fate>>
  BY DEF ReadReturns, Advanced, Returns
<1>3. fd_array'[2] = [fd_array[2] EXCEPT !.file_pos = pos + i]
  BY <1>2, Second
<1>4. /\ fd_array'[2].flags = fd_array[2].flags /\ fd_array'[2].ops = fd_array[2].ops
      /\ fd_array'[2].inode = ino /\ fd_array'[2].file_pos = pos + i
  BY <1>3, Second
<1>5. OpenAs(name)' /\ WithinListing'
  BY <1>1, <1>4 DEF OpenAs, WithinListing
<1>6. c \in Seq(STRING) /\ Len(c) = inode_ptr[ino].length
  BY <1>1, ContentChars
<1>7. Passed = SubSeq(c, 1, pos) /\ Passed' = SubSeq(c, 1, pos + i)
  BY <1>1, <1>4 DEF Passed
<1> HIDE DEF c, ino, pos
<1>8. CASE i = 0
  <2>1. pos = Len(c)
    BY <1>1, <1>6, <1>8
  <2>2. Passed = c
    BY <1>6, <1>7, <2>1, SubSeqFull
  <2>3. Stored(name) = c
    BY <1>1, StoredBy DEF OpenAs, c, ino
  <2>4. ret'.count = 0 /\ Passed = Stored(name)
    BY <1>2, <1>8, <2>2, <2>3
  <2> QED
    BY <1>2, <1>5, <2>4
<1>9. CASE i # 0
  <2>1. pos + i <= Len(c) /\ pos \in Nat /\ i \in Nat
    BY <1>1, <1>6
  <2>2. /\ SubSeq(c, 1, pos) \in Seq(STRING) /\ SubSeq(c, pos + 1, pos + i) \in Seq(STRING)
        /\ SubSeq(c, 1, pos + i) = SubSeq(c, 1, pos) \o SubSeq(c, pos + 1, pos + i)
    BY <1>6, <2>1, NextPart
  <2> QED
    BY <1>1, <1>2, <1>5, <1>7, <1>9, <2>2
<1> QED
  BY <1>8, <1>9

(***************************************************************************)
(* The states of the programs, place by place.                             *)
(***************************************************************************)
\* A program that has made no call.
Fresh == /\ pc = "user" /\ fate = "running" /\ NoneOpen /\ out = <<>>
         /\ failed = {} /\ k = 0 /\ cnt = 0

ShellInv == prog = "shell" => label \in {"start", "exit"} /\ Fresh

\* A program starts fresh.
LEMMA FreshStart ==
  ASSUME ShellInv, Launch, prog' # "shell"
  PROVE  /\ Fresh' /\ label' = "start" /\ UNCHANGED <<vars, own>>
<1>1. prog = "shell" /\ label' = label /\ label = "start" /\ UNCHANGED <<vars, own>>
  BY DEF Launch
<1> QED
  BY <1>1 DEF ShellInv, Fresh, NoneOpen, vars, locals, own, grepvars, tests

(***************************************************************************)
(* cat                                                                     *)
(***************************************************************************)
\* What cat has in its buffer, all there is shown or the next part.
CatAnswered ==
  \/ ret.count = 0 /\ out = Shown(Stored(Argument))
  \/ /\ ret.count > 0 /\ WithinListing /\ ret.bytes \in Seq(STRING)
     /\ \E before \in Seq(STRING) : out = Shown(before) /\ Passed = before \o ret.bytes

CatPlaces ==
  \/ label = "start" /\ Fresh
  \/ /\ label = "opened" /\ pc = "user" /\ out = <<>>
     /\ \/ ret.count = 2 /\ OpenAs(Argument) /\ fd_array[2].file_pos = 0
        \/ ret.count = -1 /\ Argument \notin Names
  \/ /\ label = "read" /\ fd = 2 /\ OpenAs(Argument) /\ pc = "user" /\ CatAnswered
  \/ /\ label = "read" /\ fd = 2 /\ OpenAs(Argument) /\ pc = "read_data"
     /\ fd_read = 2 /\ length = BUFSIZE /\ out = Shown(Passed)
  \/ /\ label = "written" /\ fd = 2 /\ OpenAs(Argument) /\ pc = "user"
     /\ WithinListing /\ ret.count = 0 /\ out = Shown(Passed)
  \/ /\ label = "dying" /\ pc = "user" /\ status = 2
     /\ Argument \notin Names /\ out = <<"file not found">>
  \/ /\ label = "exit" /\ pc = "user" /\ CatShowsFile

CatInv == prog = "cat" /\ args # <<>> => CatPlaces

\* A step of cat is one of its own, of the kernel, or the halt behind a message.
LEMMA CatMoves ==
  ASSUME ProgramNext, prog = "cat"
  PROVE  /\ Kernel \/ Dying \/ Cat
         /\ UNCHANGED <<prog, args>>
BY DEF ProgramNext, Launch, Kernel, Dying, Exit, Goto, Die, Cat, CatBegin, CatOpened, CatLoop, CatWritten,
       Ls, LsBegin, LsOpened, LsLoop, LsWritten, Grep, GrepBegin, GrepOpened, GrepEntry, GrepFile,
       GrepChunk, GrepCarry, GrepSearch, GrepNext, GrepClosed, Counter, CounterBegin, CounterAsk,
       CounterChoice, CounterCount, Syserr, SyserrBegin, SyserrAsk, SyserrSelect, SyserrCall,
       SyserrOther, SyserrCheck, SyserrVerdict, SyserrEnd, InTest, User, UserCall, UserEnd, At

\* What the reads have returned is text.
LEMMA PassedTyped ==
  ASSUME IInv, NEW name, OpenAs(name), WithinListing
  PROVE  Passed \in Seq(STRING)
<1>1. fd_array[2].ops \in {"rtc", "dir", "file"} /\ fd_array[2].file_pos \in Nat
  BY Second, StoredBy DEF OpenAs
<1>2. CASE fd_array[2].ops = "rtc"
  BY <1>2 DEF Passed
<1>3. CASE fd_array[2].ops = "dir"
  <2>1. \A j \in 1..fd_array[2].file_pos : Listing[j] \in Seq(STRING)
    BY <1>1, <1>3, ListingTyped DEF WithinListing
  <2>2. SubSeq(Listing, 1, fd_array[2].file_pos) \in Seq(Seq(STRING))
    BY <1>1, <2>1, SubSeqProperties
  <2> QED
    BY <1>3, <2>2, FlattenTyped DEF Passed
<1>4. CASE fd_array[2].ops = "file"
  <2> DEFINE c == ContentOf(fd_array[2].inode)
             pos == fd_array[2].file_pos
  <2>1. /\ fd_array[2].inode \in Inodes /\ InUse(2)
        /\ pos <= inode_ptr[fd_array[2].inode].length
    BY <1>4, Second, StoredBy DEF OpenAs, IInv, TypeOK, InUse
  <2>2. c \in Seq(STRING) /\ pos <= Len(c) /\ Len(c) \in Nat
    BY <2>1, ContentChars
  <2>3. pos \in Nat
    BY <1>1
  <2>4. Passed = SubSeq(c, 1, pos)
    BY <1>4 DEF Passed
  <2> HIDE DEF c, pos
  <2>5. \A j \in 1..pos : c[j] \in STRING
    BY <2>2, <2>3
  <2> QED
    BY <2>3, <2>4, <2>5, SubSeqProperties
<1> QED
  BY <1>1, <1>2, <1>3, <1>4

\* The directory passed on grows by the next name.
LEMMA PassedGrows ==
  ASSUME IInv, fd_array[2].ops = "dir", fd_array[2].file_pos + 1 \in 1..Len(Listing),
         fd_array'[2] = [fd_array[2] EXCEPT !.file_pos = fd_array[2].file_pos + 1]
  PROVE  /\ Passed' = Passed \o Listing[fd_array[2].file_pos + 1]
         /\ Passed \in Seq(STRING) /\ Listing[fd_array[2].file_pos + 1] \in Seq(STRING)
<1> DEFINE pos == fd_array[2].file_pos
<1>1. /\ pos \in Nat /\ pos + 1 <= Len(Listing)
      /\ fd_array'[2].ops = "dir" /\ fd_array'[2].file_pos = pos + 1
  BY Second
<1>2. /\ SubSeq(Listing, 1, pos) \in Seq(Seq(STRING)) /\ Listing[pos + 1] \in Seq(STRING)
      /\ SubSeq(Listing, 1, pos + 1) = Append(SubSeq(Listing, 1, pos), Listing[pos + 1])
  <2> DEFINE S == Seq(STRING)
  <2>1. Listing \in Seq(S) /\ pos \in Nat /\ pos + 1 <= Len(Listing)
    BY <1>1, ListingTyped
  <2> HIDE DEF S, pos
  <2>2. /\ SubSeq(Listing, 1, pos) \in Seq(S) /\ Listing[pos + 1] \in S
        /\ SubSeq(Listing, 1, pos + 1) = Append(SubSeq(Listing, 1, pos), Listing[pos + 1])
    BY <2>1, Grows
  <2> QED
    BY <2>2 DEF S
<1>3. /\ Passed = FlattenSeq(SubSeq(Listing, 1, pos))
      /\ Passed' = FlattenSeq(SubSeq(Listing, 1, pos + 1))
  BY <1>1 DEF Passed
<1> HIDE DEF pos
<1>4. FlattenSeq(SubSeq(Listing, 1, pos)) \in Seq(STRING)
  BY <1>2, FlattenTyped
<1>5. FlattenSeq(SubSeq(Listing, 1, pos + 1)) = FlattenSeq(SubSeq(Listing, 1, pos)) \o Listing[pos + 1]
  BY <1>2, FlattenAppend
<1> QED
  BY <1>2, <1>3, <1>4, <1>5 DEF pos

\* A read of cat: the answer is the next part, or none when all is shown.
LEMMA CatReads ==
  ASSUME IInv, OpenAs(Argument), WithinListing, out = Shown(Passed), syscall_read(2, BUFSIZE),
         UNCHANGED args
  PROVE  /\ OpenAs(Argument)'
         /\ \/ pc' = "user" /\ CatAnswered'
            \/ pc' = "read_data" /\ fd_read' = 2 /\ length' = BUFSIZE /\ (out = Shown(Passed))'
<1>1. BUFSIZE \in Nat \ {0} /\ Argument' = Argument
  BY ProgramsAssumption DEF Argument
<1>2. UNCHANGED <<out, fate>> /\ OpenAs(Argument)'
  BY <1>1, ReadNext DEF OpenAs
<1>3. CASE pc' = "read_data" /\ fd_read' = 2 /\ length' = BUFSIZE /\ UNCHANGED fd_array
  BY <1>2, <1>3 DEF Passed
<1>4. CASE pc' = "user" /\ ret'.count = 0 /\ Passed = Stored(Argument)
  BY <1>1, <1>2, <1>4 DEF CatAnswered
<1>5. CASE /\ pc' = "user" /\ fd_array[2].ops = "dir"
           /\ fd_array[2].file_pos + 1 \in 1..Len(Listing)
           /\ fd_array'[2] = [fd_array[2] EXCEPT !.file_pos = fd_array[2].file_pos + 1]
           /\ ret'.count \in Nat \ {0} /\ ret'.bytes = Listing[fd_array[2].file_pos + 1]
  <2>1. /\ Passed' = Passed \o ret'.bytes /\ Passed \in Seq(STRING) /\ ret'.bytes \in Seq(STRING)
    BY <1>5, PassedGrows
  <2>2. WithinListing'
    <3>1. fd_array'[2].file_pos = fd_array[2].file_pos + 1
      BY <1>5, Second
    <3> QED
      BY <1>5, <3>1, ListingTyped DEF WithinListing
  <2>3. out' = Shown(Passed)
    BY <1>2
  <2>4. ret'.count > 0
    BY <1>5
  <2>5. \E before \in Seq(STRING) : out' = Shown(before) /\ Passed' = before \o ret'.bytes
    BY <2>1, <2>3
  <2> QED
    BY <1>2, <1>5, <2>1, <2>2, <2>4, <2>5 DEF CatAnswered
<1> QED
  <2>1. \/ pc' = "read_data" /\ fd_read' = 2 /\ length' = BUFSIZE /\ UNCHANGED fd_array
        \/ pc' = "user" /\ ret'.count = 0 /\ Passed = Stored(Argument)
        \/ /\ pc' = "user" /\ fd_array[2].ops = "dir"
           /\ fd_array[2].file_pos + 1 \in 1..Len(Listing)
           /\ fd_array'[2] = [fd_array[2] EXCEPT !.file_pos = fd_array[2].file_pos + 1]
           /\ ret'.count \in Nat \ {0} /\ ret'.bytes = Listing[fd_array[2].file_pos + 1]
    BY <1>1, ReadNext
  <2> QED
    BY <1>2, <1>3, <1>4, <1>5, <2>1
\* Before the first read, nothing has passed.
LEMMA NothingPassed ==
  ASSUME IInv, NEW name, OpenAs(name), fd_array[2].file_pos = 0
  PROVE  WithinListing /\ Passed = <<>> /\ Shown(Passed) = <<>>
<1>1. WithinListing
  BY ListingTyped DEF WithinListing
<1>2. \A s : SubSeq(s, 1, 0) = <<>>
  BY SubSeqEmpty
<1>3. FlattenSeq(<<>>) = <<>>
  BY DEF FlattenSeq
<1>4. Passed = <<>>
  BY <1>2, <1>3 DEF Passed
<1>5. Shown(<<>>) = <<>>
  <2>1. <<>> \in Seq(STRING) /\ Len(<<>>) = 0
    OBVIOUS
  <2> QED
    BY <2>1, ShownSteps DEF ShowsInSteps
<1> QED
  BY <1>1, <1>4, <1>5

\* A message is shown as it is.
LEMMA MessageShown ==
  ASSUME NEW message, message # NUL
  PROVE  <<>> \o Shown(<<message>>) = <<message>>
<1> DEFINE s == <<message>>
           S == {message}
<1>1. s \in Seq(S) /\ Len(s) = 1 /\ s[1] = message
  OBVIOUS
<1> HIDE DEF s, S
<1>2. \A j \in 1..Len(s) : s[j] # NUL
  <2>1. \A j \in 1..Len(s) : j = 1
    BY <1>1
  <2> QED
    BY <1>1, <2>1
<1>3. Shown(s) = s
  BY <1>1, <1>2, ShownPlain
<1>4. <<>> \o s = s
  BY <1>1, ConcatEmptySeq
<1> QED
  BY <1>3, <1>4 DEF s

\* Every step of cat leads from one of its places to another.
LEMMA CatStep ==
  ASSUME IInv, CatInv, ProgramNext, prog = "cat"
  PROVE  CatInv'
<1>1. /\ Kernel \/ Dying \/ CatBegin \/ CatOpened \/ CatLoop \/ CatWritten
      /\ UNCHANGED <<prog, args>>
  BY CatMoves DEF Cat
<1>2. SUFFICES ASSUME args # <<>> PROVE CatPlaces'
  BY <1>1 DEF CatInv
<1>3. CatPlaces /\ UNCHANGED Argument /\ BUFSIZE \in Nat \ {0}
  BY <1>1, <1>2, ProgramsAssumption DEF CatInv, Argument
<1>4. CASE CatBegin
  <2>1. label = "start" /\ pc = "user" /\ syscall_open(Argument) /\ label' = "opened"
    BY <1>2, <1>4 DEF CatBegin, At, Running, Goto
  <2>2. Fresh
    BY <1>3, <2>1 DEF CatPlaces
  <2>3. /\ pc' = "user" /\ out' = <<>>
        /\ \/ ret'.count = 2 /\ OpenAs(Argument)' /\ fd_array'[2].file_pos = 0
           \/ ret'.count = -1 /\ Argument' \notin Names
    BY <1>3, <2>1, <2>2, FirstOpen DEF Fresh, OpenAs
  <2> QED
    BY <2>1, <2>3 DEF CatPlaces
<1>5. CASE CatOpened
  <2>1. /\ label = "opened" /\ pc = "user" /\ out = <<>>
        /\ \/ ret.count = 2 /\ OpenAs(Argument) /\ fd_array[2].file_pos = 0
           \/ ret.count = -1 /\ Argument \notin Names
    BY <1>3, <1>5 DEF CatPlaces, CatOpened, At, Running
  <2>2. CASE ret.count = -1
    <3>1. /\ syscall_write(1, <<"file not found">>, 1) /\ label' = "dying" /\ status' = 2
      BY <1>5, <2>2 DEF CatOpened, Die
    <3>2. out' = out \o Shown(<<"file not found">>) /\ pc' = pc
      BY <3>1, WriteShows
    <3>3. <<>> \o Shown(<<"file not found">>) = <<"file not found">>
      <4>1. "file not found" # NUL
        BY ProgramsAssumption
      <4> QED
        BY <4>1, MessageShown
    <3>4. out' = <<"file not found">> /\ pc' = "user" /\ Argument' \notin Names
      <4>1. out = <<>> /\ pc = "user" /\ Argument \notin Names
        BY <2>1, <2>2
      <4>2. out' = <<"file not found">>
        BY <3>2, <3>3, <4>1, Zenon
      <4> QED
        BY <1>3, <3>2, <4>1, <4>2
    <3>5. label' = "dying" /\ status' = 2
      BY <3>1
    <3> QED
      BY <3>4, <3>5 DEF CatPlaces
  <2>3. CASE ret.count # -1
    <3>1. ret.count = 2 /\ OpenAs(Argument) /\ fd_array[2].file_pos = 0
      BY <2>1, <2>3
    <3>2. syscall_read(2, BUFSIZE) /\ fd' = 2 /\ label' = "read"
      BY <1>5, <3>1 DEF CatOpened, Goto
    <3>3. WithinListing /\ out = Shown(Passed)
      BY <2>1, <3>1, NothingPassed
    <3>4. /\ OpenAs(Argument)'
          /\ \/ pc' = "user" /\ CatAnswered'
             \/ pc' = "read_data" /\ fd_read' = 2 /\ length' = BUFSIZE /\ (out = Shown(Passed))'
      BY <1>1, <3>1, <3>2, <3>3, CatReads
    <3> QED
      BY <3>2, <3>4 DEF CatPlaces
  <2> QED
    BY <2>2, <2>3
<1>6. CASE CatLoop
  <2>1. label = "read" /\ fd = 2 /\ OpenAs(Argument) /\ pc = "user" /\ CatAnswered /\ UNCHANGED own
    BY <1>3, <1>6 DEF CatPlaces, CatLoop, At, Running
  <2>2. CASE ret.count = 0
    <3>1. /\ label' = "exit" /\ status' = 0 /\ UNCHANGED <<pc, out>>
      BY <1>6, <2>2 DEF CatLoop, Empty, Exit, syscall_halt
    <3>2. out = Shown(Stored(Argument)) /\ Argument \in Names
      BY <2>1, <2>2 DEF CatAnswered, OpenAs
    <3>3. CatShowsFile'
      BY <1>3, <3>1, <3>2 DEF CatShowsFile
    <3> QED
      BY <2>1, <3>1, <3>3 DEF CatPlaces
  <2>3. CASE ret.count # 0
    <3>1. /\ ret.count > 0 /\ WithinListing /\ ret.bytes \in Seq(STRING)
          /\ \E before \in Seq(STRING) : out = Shown(before) /\ Passed = before \o ret.bytes
      BY <2>1, <2>3 DEF CatAnswered
    <3>2. ret.count \in Nat /\ ret.count # -1
      BY <3>1 DEF IInv, TypeOK
    <3>3. syscall_write(1, ret.bytes, ret.count) /\ label' = "written" /\ fd' = 2
      BY <1>6, <2>1, <2>3, <3>2 DEF CatLoop, Empty, Goto, own
    <3>4. /\ out' = out \o Shown(ret.bytes) /\ ret'.count = 0
          /\ UNCHANGED <<fd_array, pc, fate>>
      BY <3>2, <3>3, WriteShows
    <3>5. PICK before \in Seq(STRING) : out = Shown(before) /\ Passed = before \o ret.bytes
      BY <3>1
    <3>6. out' = Shown(Passed)
      BY <3>1, <3>4, <3>5, ShownConcat
    <3>7. Passed' = Passed /\ OpenAs(Argument)' /\ WithinListing'
      BY <1>3, <2>1, <3>1, <3>4 DEF Passed, OpenAs, WithinListing
    <3> QED
      BY <2>1, <3>3, <3>4, <3>6, <3>7 DEF CatPlaces
  <2> QED
    BY <2>2, <2>3
<1>7. CASE CatWritten
  <2>1. /\ label = "written" /\ fd = 2 /\ OpenAs(Argument) /\ pc = "user" /\ WithinListing
        /\ ret.count = 0 /\ out = Shown(Passed) /\ UNCHANGED own
    BY <1>3, <1>7 DEF CatPlaces, CatWritten, At, Running
  <2>2. syscall_read(2, BUFSIZE) /\ fd' = 2 /\ label' = "read"
    BY <1>7, <2>1 DEF CatWritten, Goto, own
  <2>3. /\ OpenAs(Argument)'
        /\ \/ pc' = "user" /\ CatAnswered'
           \/ pc' = "read_data" /\ fd_read' = 2 /\ length' = BUFSIZE /\ (out = Shown(Passed))'
    BY <1>1, <2>1, <2>2, CatReads
  <2> QED
    BY <2>2, <2>3 DEF CatPlaces
<1>8. CASE Dying
  <2>1. /\ label = "dying" /\ pc = "user" /\ status = 2
        /\ Argument \notin Names /\ out = <<"file not found">>
    BY <1>3, <1>8 DEF CatPlaces, Dying
  <2>2. label' = "exit" /\ status' = status /\ UNCHANGED <<pc, out>>
    BY <1>8 DEF Dying, Exit, syscall_halt
  <2> QED
    BY <1>3, <2>1, <2>2 DEF CatPlaces, CatShowsFile
<1>9. CASE Kernel
  <2>1. /\ pc = "read_data" /\ (ReadByte \/ ReadReturns)
        /\ UNCHANGED <<label, own>>
    BY <1>9 DEF Kernel, ReadByte, ReadReturns
  <2>2. /\ label = "read" /\ fd = 2 /\ OpenAs(Argument)
        /\ fd_read = 2 /\ length = BUFSIZE /\ out = Shown(Passed)
    BY <1>3, <2>1 DEF CatPlaces, Fresh
  <2>3. label' = "read" /\ fd' = 2
    BY <2>1, <2>2 DEF own
  <2>4. CASE ReadByte
    <3>1. UNCHANGED <<fd_array, pc, fd_read, length, out>>
      BY <2>4 DEF ReadByte
    <3>2. Passed' = Passed /\ OpenAs(Argument)'
      BY <1>3, <2>2, <3>1 DEF Passed, OpenAs
    <3> QED
      BY <2>1, <2>2, <2>3, <3>1, <3>2 DEF CatPlaces
  <2>5. CASE ReadReturns
    <3>1. length # 0
      BY <1>3, <2>2
    <3>2. /\ pc' = "user" /\ UNCHANGED <<out, fate>> /\ OpenAs(Argument)' /\ WithinListing'
          /\ \/ ret'.count = 0 /\ Passed = Stored(Argument)
             \/ /\ ret'.count \in Nat \ {0} /\ Passed \in Seq(STRING) /\ ret'.bytes \in Seq(STRING)
                /\ Passed' = Passed \o ret'.bytes
      BY <1>3, <2>2, <2>5, <3>1, ReturnNext DEF OpenAs
    <3>3. CatAnswered'
      <4>1. CASE ret'.count = 0 /\ Passed = Stored(Argument)
        BY <1>3, <2>2, <3>2, <4>1 DEF CatAnswered
      <4>2. CASE /\ ret'.count \in Nat \ {0} /\ Passed \in Seq(STRING) /\ ret'.bytes \in Seq(STRING)
                 /\ Passed' = Passed \o ret'.bytes
        <5>1. out' = Shown(Passed) /\ ret'.count > 0
          BY <2>2, <3>2, <4>2
        <5> QED
          BY <3>2, <4>2, <5>1 DEF CatAnswered
      <4> QED
        BY <3>2, <4>1, <4>2
    <3> QED
      BY <2>3, <3>2, <3>3 DEF CatPlaces
  <2> QED
    BY <2>1, <2>4, <2>5
<1> QED
  BY <1>1, <1>4, <1>5, <1>6, <1>7, <1>8, <1>9

(***************************************************************************)
(* ls                                                                      *)
(***************************************************************************)
\* The first n names of the directory, a line each.
Lined(n) == FlattenSeq([e \in 1..n |-> Append(Listing[e], NewLine)])

LsAnswered ==
  \/ ret.count = 0 /\ out = Lined(Len(Listing))
  \/ /\ fd_array[2].file_pos \in 1..Len(Listing) /\ out = Lined(fd_array[2].file_pos - 1)
     /\ ret.count > 0 /\ ret.bytes = Listing[fd_array[2].file_pos]

LsPlaces ==
  \/ label = "start" /\ Fresh
  \/ /\ label = "opened" /\ out = <<>>
     /\ ret.count = 2 /\ OpenAs(<<".">>) /\ fd_array[2].file_pos = 0
  \/ label = "read" /\ dir_fd = 2 /\ OpenAs(<<".">>) /\ LsAnswered
  \/ /\ label = "written" /\ dir_fd = 2 /\ OpenAs(<<".">>)
     /\ WithinListing /\ ret.count = 0 /\ out = Lined(fd_array[2].file_pos)
  \/ label = "exit" /\ status = 0 /\ out = Lined(Len(Listing))

LsInv == prog = "ls" => pc = "user" /\ LsPlaces

\* A step of ls is one of its own, of the kernel, or the halt behind a message.
LEMMA LsMoves ==
  ASSUME ProgramNext, prog = "ls"
  PROVE  /\ Kernel \/ Dying \/ Ls
         /\ UNCHANGED prog
BY DEF ProgramNext, Launch, Kernel, Dying, Exit, Goto, Die, Cat, CatBegin, CatOpened, CatLoop, CatWritten,
       Ls, LsBegin, LsOpened, LsLoop, LsWritten, Grep, GrepBegin, GrepOpened, GrepEntry, GrepFile,
       GrepChunk, GrepCarry, GrepSearch, GrepNext, GrepClosed, Counter, CounterBegin, CounterAsk,
       CounterChoice, CounterCount, Syserr, SyserrBegin, SyserrAsk, SyserrSelect, SyserrCall,
       SyserrOther, SyserrCheck, SyserrVerdict, SyserrEnd, InTest, User, UserCall, UserEnd, At

\* A line more.
LEMMA LinedGrows ==
  ASSUME NEW n \in Nat, n + 1 <= Len(Listing)
  PROVE  /\ Lined(0) = <<>>
         /\ Lined(n + 1) = Lined(n) \o Append(Listing[n + 1], NewLine)
         /\ Shown(Append(Listing[n + 1], NewLine)) = Append(Listing[n + 1], NewLine)
<1> DEFINE S == STRING \cup {NewLine}
           Line(e) == Append(Listing[e], NewLine)
           a == [e \in 1..n |-> Line(e)]
           b == [e \in 1..(n + 1) |-> Line(e)]
<1>1. Lined(0) = <<>>
  <2>1. [e \in 1..0 |-> Line(e)] = <<>>
    OBVIOUS
  <2>2. FlattenSeq(<<>>) = <<>>
    BY DEF FlattenSeq
  <2> QED
    BY <2>1, <2>2 DEF Lined
<1>2. ASSUME NEW e \in 1..(n + 1)
      PROVE  /\ Listing[e] \in Seq(S) /\ Line(e) \in Seq(S)
             /\ Len(Line(e)) = Len(Listing[e]) + 1 /\ Len(Listing[e]) \in Nat
             /\ Line(e)[Len(Listing[e]) + 1] = NewLine
             /\ \A j \in 1..Len(Listing[e]) : Line(e)[j] = Listing[e][j] /\ Listing[e][j] # NUL
  <2>1. Listing[e] \in Seq(STRING) /\ \A j \in 1..Len(Listing[e]) : Listing[e][j] # NUL
    <3>1. e \in 1..Len(Listing)
      BY ListingTyped
    <3> QED
      BY <3>1, ListingTyped
  <2>2. Listing[e] \in Seq(S) /\ NewLine \in S
    BY <2>1
  <2> HIDE DEF S
  <2> QED
    BY <2>1, <2>2, AppendProperties
<1> HIDE DEF Line, S
<1>3. a \in Seq(Seq(S)) /\ Len(a) = n /\ b \in Seq(Seq(S)) /\ Len(b) = n + 1
  BY <1>2
<1>4. Line(n + 1) \in Seq(S) /\ n + 1 \in 1..(n + 1)
  BY <1>2
<1>5. b = Append(a, Line(n + 1))
  <2>1. /\ Append(a, Line(n + 1)) \in Seq(Seq(S)) /\ Len(Append(a, Line(n + 1))) = n + 1
        /\ Append(a, Line(n + 1))[n + 1] = Line(n + 1)
        /\ \A j \in 1..n : Append(a, Line(n + 1))[j] = a[j]
    <3> HIDE DEF a
    <3> DEFINE SS == Seq(S)
    <3>1. a \in Seq(SS) /\ Line(n + 1) \in SS /\ Len(a) = n
      BY <1>3, <1>4
    <3> HIDE DEF SS
    <3> QED
      BY <3>1, AppendProperties DEF SS
  <2>2. ASSUME NEW j \in 1..(n + 1) PROVE Append(a, Line(n + 1))[j] = b[j]
    <3>1. b[j] = Line(j)
      OBVIOUS
    <3>2. CASE j = n + 1
      BY <2>1, <3>1, <3>2
    <3>3. CASE j # n + 1
      <4>1. j \in 1..n
        BY <3>3
      <4>2. a[j] = Line(j)
        BY <4>1
      <4> HIDE DEF a, b
      <4> QED
        BY <2>1, <3>1, <4>1, <4>2
    <3> QED
      BY <3>2, <3>3
  <2> HIDE DEF a, b
  <2> DEFINE SS == Seq(S)
  <2>3. Append(a, Line(n + 1)) \in Seq(SS) /\ b \in Seq(SS)
    BY <1>3, <2>1
  <2> HIDE DEF SS
  <2> QED
    BY <1>3, <2>1, <2>2, <2>3, SeqEqual
<1>6. FlattenSeq(b) = FlattenSeq(a) \o Line(n + 1)
  <2> HIDE DEF a, b
  <2> QED
    BY <1>3, <1>4, <1>5, FlattenAppend
<1>7. Lined(n + 1) = FlattenSeq(b) /\ Lined(n) = FlattenSeq(a)
  BY DEF Lined, Line
<1>8. Shown(Line(n + 1)) = Line(n + 1)
  <2>1. NewLine # NUL
    BY ProgramsAssumption
  <2>2. ASSUME NEW j \in 1..Len(Line(n + 1)) PROVE Line(n + 1)[j] # NUL
    <3>1. j = Len(Listing[n + 1]) + 1 \/ j \in 1..Len(Listing[n + 1])
      BY <1>2, <1>4
    <3> QED
      BY <1>2, <1>4, <2>1, <3>1
  <2> QED
    BY <1>4, <2>2, ShownPlain
<1> QED
  BY <1>1, <1>6, <1>7, <1>8 DEF Line

\* A read of ls: the next name, or none when all are listed.
LEMMA LsReads ==
  ASSUME IInv, OpenAs(<<".">>), WithinListing, out = Lined(fd_array[2].file_pos),
         syscall_read(2, FILENAME_MAX_LENGTH)
  PROVE  pc' = "user" /\ OpenAs(<<".">>)' /\ LsAnswered'
<1>1. FILENAME_MAX_LENGTH \in Nat \ {0}
  BY ImageAssumption
<1>2. fd_array[2].ops = "dir" /\ fd_array[2].file_pos \in Nat
  <2>1. OpsOf(Dentry(<<".">>).type) = "dir"
    <3>1. Dentry(<<".">>).type = 1
      BY ProgramsAssumption
    <3>2. OpsOf(1) = "dir"
      BY DEF OpsOf
    <3> QED
      BY <3>1, <3>2
  <2>2. fd_array[2].file_pos \in Nat
    BY Second
  <2> QED
    BY <2>1, <2>2 DEF OpenAs
<1>3. UNCHANGED out /\ OpenAs(<<".">>)'
  BY <1>1, ReadNext
<1>4. CASE /\ pc' = "user" /\ ret'.count = 0 /\ Passed = Stored(<<".">>)
           /\ fd_array[2].ops = "dir" => fd_array[2].file_pos = Len(Listing)
  BY <1>2, <1>3, <1>4 DEF LsAnswered
<1>5. CASE /\ pc' = "user" /\ fd_array[2].ops = "dir"
           /\ fd_array[2].file_pos + 1 \in 1..Len(Listing)
           /\ fd_array'[2] = [fd_array[2] EXCEPT !.file_pos = fd_array[2].file_pos + 1]
           /\ ret'.count \in Nat \ {0} /\ ret'.bytes = Listing[fd_array[2].file_pos + 1]
  <2>1. fd_array'[2].file_pos = fd_array[2].file_pos + 1
    BY <1>5, Second
  <2>2. (fd_array[2].file_pos + 1) - 1 = fd_array[2].file_pos /\ ret'.count > 0
    BY <1>2, <1>5
  <2> QED
    BY <1>3, <1>5, <2>1, <2>2 DEF LsAnswered
<1>6. \/ fd_array[2].ops = "file"
      \/ /\ pc' = "user" /\ ret'.count = 0 /\ Passed = Stored(<<".">>)
         /\ fd_array[2].ops = "dir" => fd_array[2].file_pos = Len(Listing)
      \/ /\ pc' = "user" /\ fd_array[2].ops = "dir"
         /\ fd_array[2].file_pos + 1 \in 1..Len(Listing)
         /\ fd_array'[2] = [fd_array[2] EXCEPT !.file_pos = fd_array[2].file_pos + 1]
         /\ ret'.count \in Nat \ {0} /\ ret'.bytes = Listing[fd_array[2].file_pos + 1]
  BY <1>1, ReadNext
<1> QED
  BY <1>2, <1>4, <1>5, <1>6

\* Every step of ls leads from one of its places to another.
LEMMA LsStep ==
  ASSUME IInv, LsInv, ProgramNext, prog = "ls"
  PROVE  LsInv'
<1>1. /\ Kernel \/ Dying \/ LsBegin \/ LsOpened \/ LsLoop \/ LsWritten
      /\ UNCHANGED prog
  BY LsMoves DEF Ls
<1>2. SUFFICES (pc = "user")' /\ LsPlaces'
  BY <1>1 DEF LsInv
<1>3. pc = "user" /\ LsPlaces /\ <<".">> \in Names
  BY ProgramsAssumption DEF LsInv
<1>4. CASE LsBegin
  <2>1. label = "start" /\ syscall_open(<<".">>) /\ label' = "opened" /\ Fresh
    BY <1>3, <1>4 DEF LsBegin, At, Goto, LsPlaces
  <2>2. /\ UNCHANGED <<pc, out>>
        /\ ret'.count = 2 /\ OpenAs(<<".">>)' /\ fd_array'[2].file_pos = 0
    BY <1>3, <2>1, FirstOpen DEF Fresh
  <2> QED
    BY <1>3, <2>1, <2>2 DEF LsPlaces, Fresh
<1>5. CASE LsOpened
  <2>1. /\ label = "opened" /\ out = <<>>
        /\ ret.count = 2 /\ OpenAs(<<".">>) /\ fd_array[2].file_pos = 0
    BY <1>3, <1>5 DEF LsPlaces, LsOpened, At
  <2>2. syscall_read(2, FILENAME_MAX_LENGTH) /\ dir_fd' = 2 /\ label' = "read"
    BY <1>5, <2>1 DEF LsOpened, Goto
  <2>3. WithinListing
    BY <2>1, NothingPassed
  <2>4. out = Lined(fd_array[2].file_pos)
    <3>1. 0 \in Nat /\ 0 + 1 <= Len(Listing)
      BY ListingTyped
    <3>2. Lined(0) = <<>>
      BY <3>1, LinedGrows
    <3> QED
      BY <2>1, <3>2
  <2>5. pc' = "user" /\ OpenAs(<<".">>)' /\ LsAnswered'
    BY <2>1, <2>2, <2>3, <2>4, LsReads
  <2> QED
    BY <2>2, <2>5 DEF LsPlaces
<1>6. CASE LsLoop
  <2>1. label = "read" /\ dir_fd = 2 /\ OpenAs(<<".">>) /\ LsAnswered /\ UNCHANGED own
    BY <1>3, <1>6 DEF LsPlaces, LsLoop, At
  <2>2. CASE ret.count = 0 /\ out = Lined(Len(Listing))
    <3>1. label' = "exit" /\ status' = 0 /\ UNCHANGED <<pc, out>>
      BY <1>6, <2>2 DEF LsLoop, Exit, syscall_halt
    <3> QED
      BY <1>3, <2>2, <3>1 DEF LsPlaces
  <2>3. CASE /\ fd_array[2].file_pos \in 1..Len(Listing) /\ out = Lined(fd_array[2].file_pos - 1)
             /\ ret.count > 0 /\ ret.bytes = Listing[fd_array[2].file_pos]
    <3> DEFINE pos == fd_array[2].file_pos
               m == pos - 1
    <3>1. m \in Nat /\ m + 1 = pos /\ m + 1 <= Len(Listing)
      BY <2>3, ListingTyped
    <3>2. ret.count + 1 \in Nat /\ ret.count # 0 /\ ret.count # -1
      BY <2>3 DEF IInv, TypeOK
    <3>3. syscall_write(1, Append(ret.bytes, NewLine), ret.count + 1) /\ label' = "written"
      BY <1>6, <3>2 DEF LsLoop, Goto
    <3>4. /\ out' = out \o Shown(Append(ret.bytes, NewLine)) /\ ret'.count = 0
          /\ UNCHANGED <<fd_array, pc>>
      BY <3>2, <3>3, WriteShows
    <3>5. /\ Lined(m + 1) = Lined(m) \o Append(Listing[m + 1], NewLine)
          /\ Shown(Append(Listing[m + 1], NewLine)) = Append(Listing[m + 1], NewLine)
      BY <3>1, LinedGrows
    <3>6. out' = Lined(pos)
      <4>1. out = Lined(m) /\ ret.bytes = Listing[pos]
        BY <2>3
      <4> HIDE DEF m, pos
      <4>2. out' = Lined(m) \o Append(Listing[m + 1], NewLine)
        BY <3>1, <3>4, <3>5, <4>1
      <4> QED
        BY <3>1, <3>5, <4>2
    <3>7. /\ dir_fd' = 2 /\ OpenAs(<<".">>)' /\ WithinListing' /\ fd_array'[2].file_pos = pos
      BY <2>1, <3>1, <3>4 DEF OpenAs, WithinListing, own
    <3> QED
      BY <1>3, <3>3, <3>4, <3>6, <3>7 DEF LsPlaces
  <2> QED
    BY <2>1, <2>2, <2>3 DEF LsAnswered
<1>7. CASE LsWritten
  <2>1. /\ label = "written" /\ dir_fd = 2 /\ OpenAs(<<".">>) /\ WithinListing /\ ret.count = 0
        /\ out = Lined(fd_array[2].file_pos) /\ UNCHANGED own
    BY <1>3, <1>7 DEF LsPlaces, LsWritten, At
  <2>2. syscall_read(2, FILENAME_MAX_LENGTH) /\ dir_fd' = 2 /\ label' = "read"
    BY <1>7, <2>1 DEF LsWritten, Goto, own
  <2>3. pc' = "user" /\ OpenAs(<<".">>)' /\ LsAnswered'
    BY <2>1, <2>2, LsReads
  <2> QED
    BY <2>2, <2>3 DEF LsPlaces
<1>8. CASE Dying
  BY <1>3, <1>8 DEF LsPlaces, Dying
<1>9. CASE Kernel
  BY <1>3, <1>9 DEF Kernel, ReadByte, ReadReturns
<1> QED
  BY <1>1, <1>4, <1>5, <1>6, <1>7, <1>8, <1>9

(***************************************************************************)
(* counter                                                                 *)
(***************************************************************************)
\* A text whose lines are the numerals from 1 on.
Numbered(text, n) ==
  /\ text \in Seq(Digits \cup {NewLine}) /\ Whole(text) /\ Len(LinesOf(text)) = n
  /\ \A l \in 1..n : Value(LinesOf(text)[l], 10) = l /\ LinesOf(text)[l][1] # "0"

Prompt == <<"Enter the Test Number">>

CounterPlaces ==
  \/ label = "start" /\ Fresh
  \/ label \in {"ask", "choice"} /\ k = 0 /\ out = Prompt
  \/ label = "count" /\ k \in Nat /\ \E text : out = Prompt \o text /\ Numbered(text, k)
  \/ label \in {"dying", "exit"}

CounterInv == prog = "counter" => pc = "user" /\ CounterPlaces

\* A step of counter is one of its own, of the kernel, or the halt behind a message.
LEMMA CounterMoves ==
  ASSUME ProgramNext, prog = "counter"
  PROVE  /\ Kernel \/ Dying \/ Counter
         /\ UNCHANGED prog
BY DEF ProgramNext, Launch, Kernel, Dying, Exit, Goto, Die, Cat, CatBegin, CatOpened, CatLoop, CatWritten,
       Ls, LsBegin, LsOpened, LsLoop, LsWritten, Grep, GrepBegin, GrepOpened, GrepEntry, GrepFile,
       GrepChunk, GrepCarry, GrepSearch, GrepNext, GrepClosed, Counter, CounterBegin, CounterAsk,
       CounterChoice, CounterCount, Syserr, SyserrBegin, SyserrAsk, SyserrSelect, SyserrCall,
       SyserrOther, SyserrCheck, SyserrVerdict, SyserrEnd, InTest, User, UserCall, UserEnd, At

\* No digit is a newline or is left out on the screen.
LEMMA Numerals ==
  ASSUME NEW n \in Nat
  PROVE  LET s == itoa(n + 1, 10)
         IN  /\ s \in Seq(Digits \cup {NewLine}) /\ \A j \in 1..Len(s) : s[j] # NewLine
             /\ Value(s, 10) = n + 1 /\ s[1] # "0"
             /\ Shown(Append(s, NewLine)) = Append(s, NewLine)
             /\ Len(s) + 1 \in Nat
<1> DEFINE s == itoa(n + 1, 10)
           S == Digits \cup {NewLine}
<1>1. 10 \in 2..16 /\ n + 1 \in Nat \ {0}
  OBVIOUS
<1>2. s \in Seq(Digits) /\ s[1] # "0" /\ Value(s, 10) = n + 1
  BY <1>1, Itoa
<1> HIDE DEF s
<1>3. s \in Seq(S) /\ \A j \in 1..Len(s) : s[j] \in Digits
  BY <1>2, SeqMonotonic
<1>4. NewLine \notin Digits /\ NUL \notin S
  BY NewLineNoDigit, ProgramsAssumption, Zenon DEF Digits
<1> DEFINE u == Append(s, NewLine)
<1>5. /\ u \in Seq(S) /\ Len(u) = Len(s) + 1 /\ Len(s) + 1 \in Nat
  BY <1>3
<1>6. \A j \in 1..Len(u) : u[j] # NUL
  BY <1>4, <1>5
<1>7. Shown(u) = u
  BY <1>5, <1>6, ShownPlain
<1> QED
  BY <1>2, <1>3, <1>4, <1>5, <1>7 DEF s

\* A number more.
LEMMA CountsGrow ==
  ASSUME NEW n \in Nat, NEW text, Numbered(text, n)
  PROVE  Numbered(text \o Append(itoa(n + 1, 10), NewLine), n + 1)
<1> DEFINE s == itoa(n + 1, 10)
           S == Digits \cup {NewLine}
           u == text \o Append(s, NewLine)
<1>1. /\ s \in Seq(S) /\ \A j \in 1..Len(s) : s[j] # NewLine
      /\ Value(s, 10) = n + 1 /\ s[1] # "0"
  BY Numerals
<1> HIDE DEF s
<1>2. NewLine \in S /\ text \in Seq(S) /\ Whole(text)
  BY DEF Numbered
<1>3. /\ LinesOf(text) \in Seq(Seq(S)) /\ u \in Seq(S) /\ Whole(u)
      /\ LinesOf(u) = Append(LinesOf(text), s)
  BY <1>1, <1>2, LinesAppend
<1> HIDE DEF S, u
<1>4. Len(LinesOf(text)) = n /\ \A l \in 1..n : Value(LinesOf(text)[l], 10) = l /\ LinesOf(text)[l][1] # "0"
  BY DEF Numbered
<1> DEFINE ls == LinesOf(text)
<1> HIDE DEF ls
<1>5. ls \in Seq(Seq(S)) /\ Len(ls) = n /\ LinesOf(u) = Append(ls, s)
      /\ \A l \in 1..n : Value(ls[l], 10) = l /\ ls[l][1] # "0"
  BY <1>3, <1>4 DEF ls
<1>6. /\ Len(Append(ls, s)) = n + 1
      /\ \A l \in 1..(n + 1) : Append(ls, s)[l] = IF l = n + 1 THEN s ELSE ls[l]
  BY <1>5
<1>7. ASSUME NEW l \in 1..(n + 1)
      PROVE  Value(Append(ls, s)[l], 10) = l /\ Append(ls, s)[l][1] # "0"
  <2>1. CASE l = n + 1
    BY <1>1, <1>6, <2>1
  <2>2. CASE l # n + 1
    <3>1. l \in 1..n
      BY <2>2
    <3> QED
      BY <1>5, <1>6, <2>2, <3>1
  <2> QED
    BY <2>1, <2>2
<1>8. Numbered(u, n + 1)
  BY <1>3, <1>5, <1>6, <1>7 DEF Numbered, S
<1> QED
  BY <1>8 DEF u, s

\* Before the first number there is no line.
LEMMA CountsNone == Numbered(<<>>, 0) /\ Prompt \o <<>> = Prompt
<1>1. LinesOf(<<>>) = <<>>
  <2> DEFINE S == {NewLine}
  <2>1. NewLine \in S /\ <<>> \in Seq(S) /\ \A j \in 1..Len(<<>>) : <<>>[j] # NewLine
    OBVIOUS
  <2> QED
    BY <2>1, LinesAppend DEF Whole
<1>2. <<>> \in Seq(Digits \cup {NewLine}) /\ Len(<<>>) = 0
  OBVIOUS
<1>3. Prompt \o <<>> = Prompt
  BY DEF Prompt
<1> QED
  BY <1>1, <1>2, <1>3 DEF Numbered, Whole

\* The question is shown as it is, with what follows behind it.
LEMMA PromptShown == Shown(Prompt) = Prompt /\ <<>> \o Prompt = Prompt
<1> DEFINE words == Prompt[1]
<1>1. Prompt \in Seq({"Enter the Test Number"}) /\ Len(Prompt) = 1 /\ words = "Enter the Test Number"
  BY DEF Prompt
<1>2. <<>> \o Prompt = Prompt
  BY <1>1, ConcatEmptySeq
<1>3. NUL # words
  BY <1>1, ProgramsAssumption, Zenon
<1>4. Len(Prompt) = 1
  BY <1>1
<1>5. ASSUME NEW j \in 1..Len(Prompt) PROVE Prompt[j] # NUL
  <2>1. j = 1
    BY <1>4
  <2> QED
    BY <1>3, <2>1
<1> QED
  BY <1>1, <1>2, <1>5, ShownPlain

\* A text behind the question is what comes after it.
LEMMA PromptConcat ==
  ASSUME NEW S, NEW s \in Seq(S), NEW t \in Seq(S)
  PROVE  (Prompt \o s) \o t = Prompt \o (s \o t) /\ Tail(Prompt \o s) = s
<1> DEFINE U == S \cup {"Enter the Test Number"}
<1>1. Prompt \in Seq(U) /\ Len(Prompt) = 1
  BY DEF Prompt
<1>2. s \in Seq(U) /\ t \in Seq(U)
  BY SeqMonotonic
<1> HIDE DEF U
<1>3. (Prompt \o s) \o t = Prompt \o (s \o t)
  <2>1. Regrouped(Prompt, s, t)
    BY <1>1, <1>2, Regroup, Zenon
  <2> QED
    BY <2>1 DEF Regrouped
<1>4. Tail(Prompt \o s) = s
  <2>1. /\ Prompt \o s \in Seq(U) /\ Len(Prompt \o s) = Len(s) + 1
        /\ \A j \in 1..Len(s) : (Prompt \o s)[j + 1] = s[j]
    <3>1. /\ Prompt \o s \in Seq(U) /\ Len(Prompt \o s) = Len(Prompt) + Len(s)
          /\ \A j \in 1..(Len(Prompt) + Len(s)) :
               (Prompt \o s)[j] = IF j <= Len(Prompt) THEN Prompt[j] ELSE s[j - Len(Prompt)]
      BY <1>1, <1>2, ConcatProperties
    <3>2. Len(s) \in Nat
      OBVIOUS
    <3>3. ASSUME NEW j \in 1..Len(s) PROVE (Prompt \o s)[j + 1] = s[j]
      <4>1. j + 1 \in 1..(Len(Prompt) + Len(s)) /\ ~(j + 1 <= Len(Prompt)) /\ (j + 1) - Len(Prompt) = j
        BY <1>1, <3>2
      <4> QED
        BY <3>1, <4>1
    <3> QED
      BY <1>1, <3>1, <3>2, <3>3
  <2> DEFINE w == Prompt \o s
  <2> HIDE DEF w
  <2>2. w \in Seq(U) /\ Len(w) = Len(s) + 1 /\ \A j \in 1..Len(s) : w[j + 1] = s[j]
    BY <2>1 DEF w
  <2>3. Tail(w) = s
    BY <1>2, <2>2
  <2> QED
    BY <2>3 DEF w
<1> QED
  BY <1>3, <1>4

\* Every step while counter runs keeps its invariant.
LEMMA CounterStep ==
  ASSUME IInv, CounterInv, ProgramNext, prog = "counter"
  PROVE  CounterInv'
<1>1. (Kernel \/ Dying \/ Counter) /\ UNCHANGED prog
  BY CounterMoves
<1>2. pc = "user" /\ CounterPlaces
  BY DEF CounterInv
<1>3. SUFFICES pc' = "user" /\ CounterPlaces'
  BY DEF CounterInv
<1>4. CASE CounterBegin
  <2>1. /\ label = "start" /\ syscall_write(1, Prompt, 1) /\ label' = "ask" /\ UNCHANGED own
    BY <1>4 DEF CounterBegin, At, Goto, Prompt
  <2>2. Fresh
    BY <1>2, <2>1 DEF CounterPlaces
  <2>3. out' = out \o Shown(Prompt) /\ UNCHANGED pc
    BY <2>1, WriteShows
  <2>4. Shown(Prompt) = Prompt /\ <<>> \o Prompt = Prompt
    BY PromptShown
  <2> QED
    BY <1>2, <2>1, <2>2, <2>3, <2>4 DEF CounterPlaces, Fresh, own, tests
<1>5. CASE CounterAsk
  <2>1. label = "ask" /\ syscall_read(0, BUFSIZE - 1) /\ label' = "choice" /\ UNCHANGED own
    BY <1>5 DEF CounterAsk, At, Goto
  <2>2. UNCHANGED <<pc, out>>
    <3>1. fd_array[0].ops = "stdin" /\ ~PastTheTable(0)
      BY Bounds DEF IInv, Descriptors, PastTheTable
    <3> QED
      BY <2>1, <3>1 DEF syscall_read, Answers
  <2> QED
    BY <1>2, <2>1, <2>2 DEF CounterPlaces, own, tests
<1>6. CASE CounterChoice
  <2>1. label = "choice" /\ UNCHANGED k
    BY <1>6 DEF CounterChoice, At, tests
  <2>2. k = 0 /\ out = Prompt
    BY <1>2, <2>1 DEF CounterPlaces
  <2>3. CASE Die("Wrong Choice!", 0)
    <3>1. label' = "dying" /\ syscall_write(1, <<"Wrong Choice!">>, 1)
      BY <2>3 DEF Die
    <3>2. UNCHANGED pc
      BY <3>1, WriteShows
    <3> QED
      BY <1>2, <3>1, <3>2 DEF CounterPlaces
  <2>4. CASE Goto("count") /\ UNCHANGED vars
    <3>1. label' = "count" /\ UNCHANGED <<pc, out>>
      BY <2>4 DEF Goto, vars, locals
    <3>2. out' = Prompt \o <<>> /\ Numbered(<<>>, k') /\ k' \in Nat
      BY <2>1, <2>2, <3>1, CountsNone
    <3> QED
      BY <1>2, <3>1, <3>2 DEF CounterPlaces
  <2> QED
    BY <1>6, <2>3, <2>4 DEF CounterChoice
<1>7. CASE CounterCount
  <2>1. label = "count"
    BY <1>7 DEF CounterCount, At
  <2>2. k \in Nat /\ \E text : out = Prompt \o text /\ Numbered(text, k)
    BY <1>2, <2>1 DEF CounterPlaces
  <2>3. PICK text : out = Prompt \o text /\ Numbered(text, k)
    BY <2>2
  <2>4. CASE k < cnt /\ k' = k + 1
             /\ syscall_write(1, Append(itoa(k + 1, 10), NewLine), Len(itoa(k + 1, 10)) + 1)
             /\ Goto("count")
    <3> DEFINE s == Append(itoa(k + 1, 10), NewLine)
    <3>1. Shown(s) = s /\ s \in Seq(Digits \cup {NewLine}) /\ Len(itoa(k + 1, 10)) + 1 \in Nat
      BY <2>2, Numerals
    <3>2. out' = out \o s /\ UNCHANGED pc
      BY <2>4, <3>1, WriteShows
    <3>3. Numbered(text \o s, k + 1)
      BY <2>2, <2>3, CountsGrow
    <3> HIDE DEF s
    <3>4. out' = Prompt \o (text \o s)
      BY <2>3, <3>1, <3>2, PromptConcat DEF Numbered
    <3>5. label' = "count" /\ k' = k + 1 /\ k' \in Nat
      BY <2>2, <2>4 DEF Goto
    <3>6. Numbered(text \o s, k')
      BY <3>3, <3>5
    <3> QED
      BY <1>2, <3>2, <3>4, <3>5, <3>6 DEF CounterPlaces
  <2>5. CASE Exit(0)
    BY <1>2, <2>5 DEF Exit, syscall_halt, CounterPlaces
  <2> QED
    BY <1>7, <2>4, <2>5 DEF CounterCount
<1>8. CASE Dying
  BY <1>2, <1>8 DEF Dying, Exit, syscall_halt, CounterPlaces
<1>9. CASE Kernel
  BY <1>2, <1>9 DEF Kernel, ReadByte, ReadReturns
<1> QED
  BY <1>1, <1>4, <1>5, <1>6, <1>7, <1>8, <1>9 DEF Counter

(***************************************************************************)
(* syserr                                                                  *)
(***************************************************************************)
\* A call that is refused to a program with no file open.
RefusedCall(c) ==
  \/ c.op = "open" /\ c.x \notin Names
  \/ c.op = "close" /\ c.x \in Int
  \/ c.op = "read" /\ c.x \in Int /\ c.x \notin {0, MAX_NUM_FD}
  \/ c.op = "write" /\ c.x \in Int /\ c.x \notin {1, MAX_NUM_FD}
  \/ c.op = "vidmap" /\ VidmapRefuses(c.x)
  \/ c.op = "call" /\ NumberRefused(c.x)

\* The calls of err_open_lots: seven opens, then a close of each descriptor.
OpenLots(j, c) == IF j <= 7 THEN c.op = "open" /\ c.x = <<".">>
                  ELSE c.op = "close" /\ c.x = j - 6

\* The descriptors that err_open_lots has open after n of its calls.
OpenAfter(n) == IF n <= 6 THEN 2..(n + 1) ELSE (n - 5)..7
OnlyOpen(S)  == \A f \in Fds : fd_array[f].flags = 1 <=> f \in S

\* Inside a test: how far it is, and what it has open.
Testing ==
  LET done == IF label = "check" THEN k + 1 ELSE k
  IN  /\ k \in Nat /\ done <= Len(Script)
      /\ \/ /\ Head(todo) = 3 /\ OnlyOpen(OpenAfter(done)) /\ cnt = IF k >= 7 THEN 1 ELSE 0
            /\ \/ label = "call"
               \/ done <= 7 /\ ret.op = "open" /\ (ret.count = -1 <=> done = 7)
               \/ done > 7 /\ ret.op = "close"
         \/ /\ Head(todo) # 3 /\ NoneOpen /\ cnt = 0
            /\ \/ label = "call"
               \/ ret.count = -1

SyserrPlaces ==
  \/ label \in {"start", "ask", "choice"} /\ NoneOpen /\ k = 0 /\ cnt = 0
  \/ label \in {"call", "check"} /\ todo \in Seq(1..8) /\ todo # <<>> /\ Testing
  \/ label = "call" /\ todo = <<>>
  \/ label \in {"dying", "exit"}

SyserrInv == prog = "syserr" => pc = "user" /\ failed = {} /\ SyserrPlaces

\* A step of syserr is one of its own, of the kernel, or the halt behind a message.
LEMMA SyserrMoves ==
  ASSUME ProgramNext, prog = "syserr"
  PROVE  /\ Kernel \/ Dying \/ Syserr
         /\ UNCHANGED prog
BY DEF ProgramNext, Launch, Kernel, Dying, Exit, Goto, Die, Cat, CatBegin, CatOpened, CatLoop, CatWritten,
       Ls, LsBegin, LsOpened, LsLoop, LsWritten, Grep, GrepBegin, GrepOpened, GrepEntry, GrepFile,
       GrepChunk, GrepCarry, GrepSearch, GrepNext, GrepClosed, Counter, CounterBegin, CounterAsk,
       CounterChoice, CounterCount, Syserr, SyserrBegin, SyserrAsk, SyserrSelect, SyserrCall,
       SyserrOther, SyserrCheck, SyserrVerdict, SyserrEnd, InTest, User, UserCall, UserEnd, At

\* The same call on several things.
SameCalls(op, S, xs) ==
  /\ On(op, xs) \in Seq([op : {op}, x : S]) /\ Len(On(op, xs)) = Len(xs) /\ Len(xs) \in Nat
  /\ \A j \in 1..Len(xs) : On(op, xs)[j].op = op /\ On(op, xs)[j].x = xs[j]

\* What the calls of such a test are.
LEMMA OnFacts ==
  ASSUME NEW op, NEW S, NEW xs \in Seq(S)
  PROVE  SameCalls(op, S, xs)
<1> DEFINE l == Len(xs)
           a == [j \in 1..l |-> [op |-> op, x |-> xs[j]]]
<1>1. l \in Nat /\ \A j \in 1..l : xs[j] \in S
  OBVIOUS
<1>2. On(op, xs) = a
  BY DEF On
<1> HIDE DEF l
<1>3. a \in [1..l -> [op : {op}, x : S]] /\ DOMAIN a = 1..l
  BY <1>1
<1>4. a \in Seq([op : {op}, x : S])
  BY <1>1, <1>3, SeqDef
<1>5. Len(a) = l
  BY <1>1, <1>3, <1>4, LenProperties
<1>6. \A j \in 1..l : a[j].op = op /\ a[j].x = xs[j]
  OBVIOUS
<1> HIDE DEF a
<1> QED
  BY <1>1, <1>2, <1>4, <1>5, <1>6 DEF l, SameCalls

\* Several calls on one descriptor.
LEMMA OnFdFacts ==
  ASSUME NEW f
  PROVE  LET s == OnFd(<<"read", "write", "close">>, f)
         IN  /\ Len(s) = 3
             /\ s[1] = [op |-> "read", x |-> f] /\ s[2] = [op |-> "write", x |-> f]
             /\ s[3] = [op |-> "close", x |-> f]
<1> DEFINE o == <<"read", "write", "close">>
           S == {"read", "write", "close"}
           a == [j \in 1..3 |-> [op |-> o[j], x |-> f]]
<1>1. Len(o) = 3 /\ o[1] = "read" /\ o[2] = "write" /\ o[3] = "close"
  OBVIOUS
<1>2. OnFd(o, f) = a
  BY <1>1 DEF OnFd
<1>3. /\ a[1] = [op |-> "read", x |-> f] /\ a[2] = [op |-> "write", x |-> f]
      /\ a[3] = [op |-> "close", x |-> f]
  BY <1>1
<1>4. Len(a) = 3
  OBVIOUS
<1> HIDE DEF a
<1> QED
  BY <1>2, <1>3, <1>4

\* The numbers from a to b.
LEMMA FromToFacts ==
  ASSUME NEW a \in Int, NEW b \in Int, a <= b
  PROVE  /\ FromTo(a, b) \in Seq(Int) /\ Len(FromTo(a, b)) = (b - a) + 1
         /\ \A j \in 1..((b - a) + 1) : FromTo(a, b)[j] = a + j - 1
<1> DEFINE l == (b - a) + 1
           s == [j \in 1..l |-> a + j - 1]
<1>1. l \in Nat /\ \A j \in 1..l : a + j - 1 \in Int
  OBVIOUS
<1>2. FromTo(a, b) = s
  BY DEF FromTo
<1> HIDE DEF l
<1>3. s \in [1..l -> Int] /\ DOMAIN s = 1..l /\ \A j \in 1..l : s[j] = a + j - 1
  BY <1>1
<1>4. s \in Seq(Int)
  BY <1>1, <1>3, SeqDef
<1>5. Len(s) = l
  BY <1>1, <1>3, <1>4, LenProperties
<1> HIDE DEF s
<1> QED
  BY <1>2, <1>3, <1>4, <1>5 DEF l
\* What the two parts of a sequence of calls hold, the whole holds.
LEMMA CallsConcat ==
  ASSUME NEW S, NEW a \in Seq(S), NEW b \in Seq(S)
  PROVE  /\ a \o b \in Seq(S) /\ Len(a \o b) = Len(a) + Len(b) /\ Len(a) \in Nat /\ Len(b) \in Nat
         /\ \A j \in 1..Len(a) : (a \o b)[j] = a[j]
         /\ \A j \in 1..Len(b) : (a \o b)[Len(a) + j] = b[j]
         /\ \A j \in 1..(Len(a) + Len(b)) :
              (\E p \in 1..Len(a) : j = p) \/ (\E p \in 1..Len(b) : j = Len(a) + p)
<1>1. /\ a \o b \in Seq(S) /\ Len(a \o b) = Len(a) + Len(b)
      /\ \A j \in 1..(Len(a) + Len(b)) :
           (a \o b)[j] = IF j <= Len(a) THEN a[j] ELSE b[j - Len(a)]
  BY ConcatProperties
<1>2. Len(a) \in Nat /\ Len(b) \in Nat
  OBVIOUS
<1>3. ASSUME NEW j \in 1..Len(a) PROVE (a \o b)[j] = a[j]
  BY <1>1, <1>2
<1>4. ASSUME NEW j \in 1..Len(b) PROVE (a \o b)[Len(a) + j] = b[j]
  <2>1. Len(a) + j \in 1..(Len(a) + Len(b)) /\ ~(Len(a) + j <= Len(a)) /\ (Len(a) + j) - Len(a) = j
    BY <1>2
  <2> QED
    BY <1>1, <2>1
<1>5. ASSUME NEW j \in 1..(Len(a) + Len(b))
      PROVE  (\E p \in 1..Len(a) : j = p) \/ (\E p \in 1..Len(b) : j = Len(a) + p)
  <2>1. CASE j <= Len(a)
    BY <1>2, <2>1
  <2>2. CASE ~(j <= Len(a))
    <3>1. j - Len(a) \in 1..Len(b) /\ j = Len(a) + (j - Len(a))
      BY <1>2, <2>2
    <3> QED
      BY <3>1
  <2> QED
    BY <2>1, <2>2
<1> QED
  BY <1>1, <1>2, <1>3, <1>4, <1>5

\* Every call of a test is refused.
AllRefused(s) == Len(s) \in Nat /\ \A j \in 1..Len(s) : RefusedCall(s[j])

\* A call of the tests on a single descriptor that nobody has.
LEMMA FdTest ==
  ASSUME NEW f \in Int, f \notin {0, 1, MAX_NUM_FD}
  PROVE  AllRefused(OnFd(<<"read", "write", "close">>, f))
<1> DEFINE s == OnFd(<<"read", "write", "close">>, f)
<1>1. /\ Len(s) = 3
      /\ s[1] = [op |-> "read", x |-> f] /\ s[2] = [op |-> "write", x |-> f]
      /\ s[3] = [op |-> "close", x |-> f]
  BY OnFdFacts
<1> HIDE DEF s
<1>2. RefusedCall(s[1]) /\ RefusedCall(s[2]) /\ RefusedCall(s[3])
  BY <1>1 DEF RefusedCall
<1>3. ASSUME NEW j \in 1..Len(s) PROVE RefusedCall(s[j])
  <2>1. j = 1 \/ j = 2 \/ j = 3
    BY <1>1
  <2> QED
    BY <1>2, <2>1
<1> QED
  BY <1>1, <1>3 DEF AllRefused, s

\* err_open_lots makes seven opens and then closes the descriptors.
LEMMA LotsTest ==
  /\ Len(err_open_lots) = 13
  /\ \A j \in 1..13 : OpenLots(j, err_open_lots[j])
<1> DEFINE X == Int \cup {<<".">>}
           C == [op : {"open", "close"}, x : X]
           dots == [j \in 1..7 |-> <<".">>]
           a == On("open", dots)
           b == On("close", FromTo(2, 7))
<1>1. dots \in Seq(X) /\ Len(dots) = 7 /\ \A j \in 1..7 : dots[j] = <<".">>
  OBVIOUS
<1>2. FromTo(2, 7) \in Seq(Int) /\ Len(FromTo(2, 7)) = 6 /\ \A j \in 1..6 : FromTo(2, 7)[j] = 1 + j
  <2>1. /\ FromTo(2, 7) \in Seq(Int) /\ Len(FromTo(2, 7)) = (7 - 2) + 1
        /\ \A j \in 1..((7 - 2) + 1) : FromTo(2, 7)[j] = 2 + j - 1
    <3>1. 2 \in Int /\ 7 \in Int /\ 2 <= 7
      OBVIOUS
    <3> QED
      BY <3>1, FromToFacts, Zenon
  <2> HIDE DEF dots
  <2> QED
    BY <2>1
<1> HIDE DEF dots, X
<1>3. /\ a \in Seq([op : {"open"}, x : X]) /\ Len(a) = 7
      /\ \A j \in 1..7 : a[j].op = "open" /\ a[j].x = <<".">>
  <2>1. /\ a \in Seq([op : {"open"}, x : X]) /\ Len(a) = Len(dots)
        /\ \A j \in 1..Len(dots) : a[j].op = "open" /\ a[j].x = dots[j]
    <3>1. dots \in Seq(X)
      BY <1>1
    <3>2. SameCalls("open", X, dots)
      BY <3>1, OnFacts
    <3> QED
      BY <3>2 DEF SameCalls
  <2> HIDE DEF a
  <2> QED
    BY <1>1, <2>1
<1>4. /\ b \in Seq([op : {"close"}, x : Int]) /\ Len(b) = 6
      /\ \A j \in 1..6 : b[j].op = "close" /\ b[j].x = 1 + j
  <2>1. /\ b \in Seq([op : {"close"}, x : Int]) /\ Len(b) = Len(FromTo(2, 7))
        /\ \A j \in 1..Len(FromTo(2, 7)) : b[j].op = "close" /\ b[j].x = FromTo(2, 7)[j]
    <3>1. FromTo(2, 7) \in Seq(Int)
      BY <1>2
    <3>2. SameCalls("close", Int, FromTo(2, 7))
      BY <3>1, OnFacts
    <3> QED
      BY <3>2 DEF SameCalls
  <2> HIDE DEF b
  <2> QED
    BY <1>2, <2>1
<1> HIDE DEF a, b
<1>5. a \in Seq(C) /\ b \in Seq(C)
  <2>1. \A j \in 1..7 : a[j] \in C
    <3> DEFINE A == [op : {"open"}, x : X]
    <3>1. a \in Seq(A) /\ Len(a) = 7
      BY <1>3
    <3>2. A \subseteq C
      OBVIOUS
    <3>3. \A j \in 1..Len(a) : a[j] \in A
      BY <3>1, ElementOfSeq, Zenon
    <3> HIDE DEF A, C
    <3> QED
      BY <3>1, <3>2, <3>3
  <2>2. \A j \in 1..6 : b[j] \in C
    <3> DEFINE A == [op : {"close"}, x : Int]
    <3>1. b \in Seq(A) /\ Len(b) = 6
      BY <1>4
    <3>2. A \subseteq C
      BY DEF X
    <3>3. \A j \in 1..Len(b) : b[j] \in A
      BY <3>1, ElementOfSeq, Zenon
    <3> HIDE DEF A, C
    <3> QED
      BY <3>1, <3>2, <3>3
  <2>3. Len(a) = 7 /\ Len(b) = 6 /\ a = [j \in 1..7 |-> a[j]] /\ b = [j \in 1..6 |-> b[j]]
    BY <1>3, <1>4
  <2> HIDE DEF C
  <2>4. a \in Seq(C)
    <3>1. a \in [1..7 -> C]
      BY <2>1, <2>3
    <3> QED
      BY <3>1, SeqDef
  <2>5. b \in Seq(C)
    <3>1. b \in [1..6 -> C]
      BY <2>2, <2>3
    <3> QED
      BY <3>1, SeqDef
  <2> QED
    BY <2>4, <2>5
<1>6. err_open_lots = a \o b
  BY DEF err_open_lots, a, b, dots
<1> HIDE DEF C
<1>7. /\ a \o b \in Seq(C) /\ Len(a \o b) = Len(a) + Len(b)
      /\ \A j \in 1..Len(a) : (a \o b)[j] = a[j]
      /\ \A j \in 1..Len(b) : (a \o b)[Len(a) + j] = b[j]
      /\ \A j \in 1..(Len(a) + Len(b)) :
           (\E p \in 1..Len(a) : j = p) \/ (\E p \in 1..Len(b) : j = Len(a) + p)
  BY <1>5, CallsConcat
<1>8. ASSUME NEW j \in 1..13 PROVE OpenLots(j, (a \o b)[j])
  <2>1. CASE \E p \in 1..7 : j = p
    <3>1. (a \o b)[j].op = "open" /\ (a \o b)[j].x = <<".">> /\ j <= 7
      BY <1>3, <1>7, <2>1
    <3> QED
      BY <3>1 DEF OpenLots
  <2>2. CASE \E p \in 1..6 : j = 7 + p
    <3>1. PICK p \in 1..6 : j = 7 + p
      BY <2>2
    <3>2. (a \o b)[j].op = "close" /\ (a \o b)[j].x = 1 + p
      <4>1. (a \o b)[7 + p] = b[p]
        BY <1>3, <1>4, <1>7
      <4> QED
        BY <1>4, <3>1, <4>1
    <3>3. ~(j <= 7) /\ 1 + p = j - 6
      BY <3>1
    <3> QED
      BY <3>2, <3>3 DEF OpenLots
  <2>3. (\E p \in 1..7 : j = p) \/ (\E p \in 1..6 : j = 7 + p)
    BY <1>3, <1>4, <1>7
  <2> QED
    BY <2>1, <2>2, <2>3
<1>9. Len(a \o b) = 13
  BY <1>3, <1>4, <1>7
<1> QED
  BY <1>6, <1>8, <1>9
\* A test of the same call on several things, each of them refused.
LEMMA RefusedOn ==
  ASSUME NEW op, NEW S, NEW xs \in Seq(S),
         ASSUME NEW c, c.op = op, NEW j \in 1..Len(xs), c.x = xs[j] PROVE RefusedCall(c)
  PROVE  AllRefused(On(op, xs))
<1>1. SameCalls(op, S, xs)
  BY OnFacts
<1>2. ASSUME NEW j \in 1..Len(On(op, xs)) PROVE RefusedCall(On(op, xs)[j])
  <2>1. j \in 1..Len(xs) /\ On(op, xs)[j].op = op /\ On(op, xs)[j].x = xs[j]
    BY <1>1 DEF SameCalls
  <2> QED
    BY <2>1
<1> QED
  BY <1>1, <1>2 DEF AllRefused, SameCalls

\* A test made of two.
LEMMA RefusedConcat ==
  ASSUME NEW S, NEW a \in Seq(S), NEW b \in Seq(S), AllRefused(a), AllRefused(b)
  PROVE  AllRefused(a \o b)
<1>1. /\ a \o b \in Seq(S) /\ Len(a \o b) = Len(a) + Len(b)
      /\ \A j \in 1..Len(a) : (a \o b)[j] = a[j]
      /\ \A j \in 1..Len(b) : (a \o b)[Len(a) + j] = b[j]
      /\ \A j \in 1..(Len(a) + Len(b)) :
           (\E p \in 1..Len(a) : j = p) \/ (\E p \in 1..Len(b) : j = Len(a) + p)
  BY CallsConcat
<1>2. Len(a) \in Nat /\ Len(b) \in Nat
  BY DEF AllRefused
<1> QED
  BY <1>1, <1>2 DEF AllRefused

\* err_open: a name longer by a letter, one shorter, and none.
LEMMA OpenTest == AllRefused(err_open(Known))
<1> DEFINE xs == <<Append(Known, "o"), Front(Known), <<>>>>
           S  == {Append(Known, "o"), Front(Known), <<>>}
<1>1. /\ xs \in Seq(S) /\ Len(xs) = 3
      /\ xs[1] = Append(Known, "o") /\ xs[2] = Front(Known) /\ xs[3] = <<>>
  OBVIOUS
<1>2. Append(Known, "o") \notin Names /\ Front(Known) \notin Names /\ <<>> \notin Names
  BY ProgramsAssumption, NameExists
<1>3. err_open(Known) = On("open", xs)
  BY DEF err_open
<1> HIDE DEF xs, S
<1>4. ASSUME NEW c, c.op = "open", NEW j \in 1..Len(xs), c.x = xs[j] PROVE RefusedCall(c)
  <2>1. j = 1 \/ j = 2 \/ j = 3
    BY <1>1
  <2>2. c.x \notin Names
    BY <1>1, <1>2, <1>4, <2>1
  <2> QED
    BY <1>4, <2>2 DEF RefusedCall
<1> QED
  BY <1>1, <1>3, <1>4, RefusedOn

\* err_unopened: every descriptor of the table, opened or not.
LEMMA UnopenedTest == MAX_NUM_FD = 8 => AllRefused(err_unopened)
<1> SUFFICES ASSUME MAX_NUM_FD = 8 PROVE AllRefused(err_unopened)
  OBVIOUS
<1> DEFINE C    == [op : {"close", "read", "write"}, x : Int]
           all8 == FromTo(0, 7)
           six  == FromTo(2, 7)
<1>1. /\ all8 \in Seq(Int) /\ Len(all8) = 8 /\ \A j \in 1..8 : all8[j] = j - 1
      /\ six \in Seq(Int) /\ Len(six) = 6 /\ \A j \in 1..6 : six[j] = j + 1
  <2>1. /\ all8 \in Seq(Int) /\ Len(all8) = (7 - 0) + 1
        /\ \A j \in 1..((7 - 0) + 1) : all8[j] = 0 + j - 1
    <3>1. 0 \in Int /\ 7 \in Int /\ 0 <= 7
      OBVIOUS
    <3> QED
      BY <3>1, FromToFacts, Zenon
  <2>2. /\ six \in Seq(Int) /\ Len(six) = (7 - 2) + 1
        /\ \A j \in 1..((7 - 2) + 1) : six[j] = 2 + j - 1
    <3>1. 2 \in Int /\ 7 \in Int /\ 2 <= 7
      OBVIOUS
    <3> QED
      BY <3>1, FromToFacts, Zenon
  <2> HIDE DEF all8, six
  <2> QED
    BY <2>1, <2>2
<1>2. err_unopened = On("close", all8) \o On("read", six) \o On("write", six)
  BY DEF err_unopened
<1> HIDE DEF all8, six
<1>3. ASSUME NEW op \in {"close", "read", "write"}, NEW xs \in Seq(Int)
      PROVE  On(op, xs) \in Seq(C)
  <2> DEFINE A == [op : {op}, x : Int]
  <2>1. On(op, xs) \in Seq(A)
    BY OnFacts DEF SameCalls
  <2>2. A \subseteq C
    OBVIOUS
  <2> HIDE DEF A, C
  <2> QED
    BY <2>1, <2>2
<1>4. AllRefused(On("close", all8))
  <2>1. ASSUME NEW c, c.op = "close", NEW j \in 1..Len(all8), c.x = all8[j] PROVE RefusedCall(c)
    BY <1>1, <2>1 DEF RefusedCall
  <2> QED
    BY <1>1, <2>1, RefusedOn
<1>5. AllRefused(On("read", six))
  <2>1. ASSUME NEW c, c.op = "read", NEW j \in 1..Len(six), c.x = six[j] PROVE RefusedCall(c)
    <3>1. c.x \in 2..7
      BY <1>1, <2>1
    <3> QED
      BY <2>1, <3>1 DEF RefusedCall
  <2> QED
    BY <1>1, <2>1, RefusedOn
<1>6. AllRefused(On("write", six))
  <2>1. ASSUME NEW c, c.op = "write", NEW j \in 1..Len(six), c.x = six[j] PROVE RefusedCall(c)
    <3>1. c.x \in 2..7
      BY <1>1, <2>1
    <3> QED
      BY <2>1, <3>1 DEF RefusedCall
  <2> QED
    BY <1>1, <2>1, RefusedOn
<1>7. On("close", all8) \in Seq(C) /\ On("read", six) \in Seq(C) /\ On("write", six) \in Seq(C)
  BY <1>1, <1>3
<1> HIDE DEF C
<1>8. AllRefused(On("close", all8) \o On("read", six))
  BY <1>4, <1>5, <1>7, RefusedConcat
<1>9. On("close", all8) \o On("read", six) \in Seq(C)
  BY <1>7, ConcatProperties
<1> QED
  BY <1>2, <1>6, <1>7, <1>8, <1>9, RefusedConcat
\* err_vidmap: no address, and one below the program's page.
LEMMA VidmapTest == AllRefused(err_vidmap)
<1> DEFINE xs == <<0, 4194304>>
<1>1. xs \in Seq(Int) /\ Len(xs) = 2 /\ \A j \in 1..2 : xs[j] <= USER_LOCATION
  BY SMT DEF USER_LOCATION
<1>2. err_vidmap = On("vidmap", xs)
  BY SMT DEF err_vidmap
<1> HIDE DEF xs
<1>3. ASSUME NEW c, c.op = "vidmap", NEW j \in 1..Len(xs), c.x = xs[j] PROVE RefusedCall(c)
  <2>1. c.x <= USER_LOCATION
    BY <1>1, <1>3
  <2> QED
    BY <1>3, <2>1 DEF RefusedCall, VidmapRefuses
<1> QED
  BY <1>1, <1>2, <1>3, RefusedOn

\* err_stdin_out: a write to the keyboard and a read of the screen.
LEMMA StdinTest == AllRefused(err_stdin_out)
<1> DEFINE s == <<[op |-> "write", x |-> 0], [op |-> "read", x |-> 1]>>
<1>1. Len(s) = 2 /\ s[1] = [op |-> "write", x |-> 0] /\ s[2] = [op |-> "read", x |-> 1]
  OBVIOUS
<1>2. err_stdin_out = s
  BY DEF err_stdin_out
<1> HIDE DEF s
<1>3. RefusedCall(s[1]) /\ RefusedCall(s[2])
  <2>1. MAX_NUM_FD \notin {0, 1}
    BY ImageAssumption
  <2> QED
    BY <1>1, <2>1 DEF RefusedCall
<1>4. ASSUME NEW j \in 1..Len(s) PROVE RefusedCall(s[j])
  <2>1. j = 1 \/ j = 2
    BY <1>1
  <2> QED
    BY <1>3, <2>1
<1>5. Len(s) \in Nat
  BY <1>1
<1> QED
  BY <1>2, <1>4, <1>5 DEF AllRefused

\* err_syscall_num: numbers that are no system call's.
LEMMA NumberTest == AllRefused(err_syscall_num)
<1> DEFINE xs == <<BIG_FD, NEG_FD, 0>>
<1>1. xs \in Seq(Int) /\ Len(xs) = 3 /\ xs[1] = BIG_FD /\ xs[2] = NEG_FD /\ xs[3] = 0
  BY SMT DEF BIG_FD, NEG_FD
<1>2. err_syscall_num = On("call", xs)
  BY DEF err_syscall_num
<1> HIDE DEF xs
<1>3. ASSUME NEW c, c.op = "call", NEW j \in 1..Len(xs), c.x = xs[j] PROVE RefusedCall(c)
  <2>1. xs[j] \in Int /\ (xs[j] <= 0 \/ xs[j] > 10)
    <3>1. j = 1 \/ j = 2 \/ j = 3
      BY <1>1
    <3> QED
      BY <1>1, <3>1, SMT DEF BIG_FD, NEG_FD
  <2> QED
    BY <1>3, <2>1 DEF RefusedCall, NumberRefused
<1> QED
  BY <1>1, <1>2, <1>3, RefusedOn

\* What the eight tests are.
LEMMA ScriptFacts ==
  ASSUME MAX_NUM_FD = 8, NEW t \in 1..8
  PROVE  /\ t = 3 => Len(Tests[t]) = 13 /\ \A j \in 1..13 : OpenLots(j, Tests[t][j])
         /\ t # 3 => AllRefused(Tests[t])
         /\ Len(Tests[t]) \in Nat
<1> DEFINE s == <<err_neg_fd, err_big_fd, err_open_lots, err_open(Known), err_unopened, err_vidmap,
                  err_stdin_out, err_syscall_num>>
<1>1. /\ s[1] = err_neg_fd /\ s[2] = err_big_fd /\ s[3] = err_open_lots /\ s[4] = err_open(Known)
      /\ s[5] = err_unopened /\ s[6] = err_vidmap /\ s[7] = err_stdin_out /\ s[8] = err_syscall_num
  OBVIOUS
<1>2. Tests = s
  BY DEF Tests
<1> HIDE DEF s
<1>3. AllRefused(err_neg_fd) /\ AllRefused(err_big_fd)
  <2>1. /\ NEG_FD \in Int /\ NEG_FD \notin {0, 1, MAX_NUM_FD}
        /\ BIG_FD \in Int /\ BIG_FD \notin {0, 1, MAX_NUM_FD}
    BY SMT DEF NEG_FD, BIG_FD
  <2> HIDE DEF NEG_FD, BIG_FD
  <2> QED
    BY <2>1, FdTest DEF err_neg_fd, err_big_fd
<1>4. AllRefused(s[1]) /\ AllRefused(s[2])
  BY <1>1, <1>3
<1>5. AllRefused(s[4]) /\ AllRefused(s[5])
  BY <1>1, OpenTest, UnopenedTest
<1>6. AllRefused(s[6]) /\ AllRefused(s[7]) /\ AllRefused(s[8])
  BY <1>1, VidmapTest, StdinTest, NumberTest
<1>7. Len(s[3]) = 13 /\ \A j \in 1..13 : OpenLots(j, s[3][j])
  BY <1>1, LotsTest
<1>8. t = 1 \/ t = 2 \/ t = 3 \/ t = 4 \/ t = 5 \/ t = 6 \/ t = 7 \/ t = 8
  OBVIOUS
<1>9. t # 3 => AllRefused(s[t])
  BY <1>4, <1>5, <1>6, <1>8
<1>10. Len(s[t]) \in Nat
  BY <1>7, <1>9 DEF AllRefused
<1> QED
  BY <1>2, <1>7, <1>9, <1>10
\* The call of the file system that c stands for.
Asks(c) == \/ c.op = "open" /\ syscall_open(c.x)
           \/ c.op = "close" /\ syscall_close(c.x)
           \/ c.op = "read" /\ syscall_read(c.x, 31)
           \/ c.op = "write" /\ syscall_write(c.x, <<NUL>>, 31)

\* A refused call returns -1 and opens nothing.
LEMMA RefusedAnswer ==
  ASSUME IInv, NoneOpen, NEW c, RefusedCall(c), Asks(c)
  PROVE  ret'.count = -1 /\ UNCHANGED <<fd_array, pc>>
<1>1. \A f : InUse(f) => f = 0 \/ f = 1
  BY Bounds DEF NoneOpen, InUse
<1>2. fd_array[0].ops = "stdin" /\ fd_array[1].ops = "stdout"
  BY DEF IInv, Descriptors
<1>3. CASE c.op = "open" /\ syscall_open(c.x) /\ c.x \notin Names
  <2>1. c.x = <<>> \/ ~Exists(c.x)
    BY <1>3, NameExists
  <2> QED
    BY <1>3, <2>1 DEF syscall_open, Returns
<1>4. CASE c.op = "close" /\ syscall_close(c.x) /\ c.x \in Int
  <2>1. ~MayClose(c.x)
    BY <1>1, <1>4 DEF MayClose
  <2> QED
    BY <1>4, <2>1 DEF syscall_close, Returns
<1>5. CASE c.op = "read" /\ syscall_read(c.x, 31) /\ c.x \in Int /\ c.x \notin {0, MAX_NUM_FD}
  <2>1. ~PastTheTable(c.x) /\ (InUse(c.x) => fd_array[c.x].ops = "stdout")
    BY <1>1, <1>2, <1>5 DEF PastTheTable
  <2>2. Answers(c.x, 31, -1, <<>>)
    BY <1>5, <2>1 DEF syscall_read
  <2> QED
    BY <2>2 DEF Answers, Returns
<1>6. CASE c.op = "write" /\ syscall_write(c.x, <<NUL>>, 31) /\ c.x \in Int /\ c.x \notin {1, MAX_NUM_FD}
  <2>1. ~PastTheTable(c.x) /\ (InUse(c.x) => fd_array[c.x].ops = "stdin")
    BY <1>1, <1>2, <1>6 DEF PastTheTable
  <2> QED
    BY <1>6, <2>1 DEF syscall_write, Returns
<1> QED
  BY <1>3, <1>4, <1>5, <1>6 DEF RefusedCall, Asks

\* A call of err_open_lots: the descriptors are handed out from 2 on, the seventh
\* open finds none, and the closes give them back.
LEMMA LotsAnswer ==
  ASSUME IInv, MAX_NUM_FD = 8, NEW n \in 0..12, OnlyOpen(OpenAfter(n)),
         NEW c, OpenLots(n + 1, c), Asks(c)
  PROVE  /\ OnlyOpen(OpenAfter(n + 1))' /\ UNCHANGED pc
         /\ n <= 6 => ret'.op = "open" /\ (ret'.count = -1 <=> n = 6)
         /\ n > 6 => ret'.op = "close"
<1>1. Fds = 2..7 /\ \A f \in 2..7 : InUse(f) <=> f \in OpenAfter(n)
  BY DEF Fds, InUse, OnlyOpen
<1>2. DOMAIN fd_array = 0..7
  BY DEF IInv, TypeOK
<1>3. <<".">> # <<>> /\ Exists(<<".">>)
  BY ProgramsAssumption, NameExists
<1>4. CASE n <= 5
  <2>1. c.op = "open" /\ c.x = <<".">>
    BY <1>4 DEF OpenLots
  <2>2. syscall_open(<<".">>)
    BY <2>1 DEF Asks
  <2>3. OpenAfter(n) = 2..(n + 1) /\ OpenAfter(n + 1) = 2..(n + 2)
    BY <1>4 DEF OpenAfter
  <2>4. n + 2 \in Fds /\ ~InUse(n + 2)
    BY <1>1, <1>4, <2>3
  <2>5. PICK f \in Fds :
          /\ ~InUse(f) /\ \A e \in 2..(f - 1) : InUse(e)
          /\ fd_array' = [fd_array EXCEPT ![f] =
               [ops |-> OpsOf(Dentry(<<".">>).type), inode |-> Dentry(<<".">>).inode,
                file_pos |-> 0, flags |-> 1]]
          /\ Returns("open", 0, <<".">>, 0, f, <<>>)
    BY <1>3, <2>2, <2>4 DEF syscall_open
  <2>6. f = n + 2
    BY <1>1, <2>3, <2>4, <2>5
  <2>7. OnlyOpen(OpenAfter(n + 1))'
    <3>1. ASSUME NEW e \in 2..7 PROVE fd_array'[e].flags = 1 <=> e \in 2..(n + 2)
      <4>1. CASE e = f
        BY <1>1, <1>2, <2>5, <2>6, <4>1
      <4>2. CASE e # f
        <5>1. fd_array'[e] = fd_array[e]
          BY <1>2, <2>5, <4>2
        <5>2. fd_array[e].flags = 1 <=> e \in 2..(n + 1)
          BY <1>1, <2>3 DEF OnlyOpen
        <5> QED
          BY <2>6, <4>2, <5>1, <5>2
      <4> QED
        BY <4>1, <4>2
    <3> QED
      BY <1>1, <2>3, <3>1 DEF OnlyOpen, OpenAfter
  <2>8. ret'.op = "open" /\ ret'.count = n + 2
    BY <2>5, <2>6 DEF Returns
  <2> QED
    BY <1>4, <2>2, <2>7, <2>8 DEF syscall_open
<1>5. CASE n = 6
  <2>1. c.op = "open" /\ c.x = <<".">>
    BY <1>5 DEF OpenLots
  <2>2. syscall_open(<<".">>)
    BY <2>1 DEF Asks
  <2>3. OpenAfter(6) = 2..7 /\ OpenAfter(7) = 2..7
    BY DEF OpenAfter
  <2>4. \A f \in Fds : InUse(f)
    BY <1>1, <1>5, <2>3
  <2>5. UNCHANGED <<fd_array, pc>> /\ Returns("open", 0, <<".">>, 0, -1, <<>>)
    BY <2>2, <2>4 DEF syscall_open
  <2>6. OnlyOpen(OpenAfter(n + 1))'
    <3>1. \A f \in Fds : fd_array[f].flags = 1 <=> f \in 2..7
      BY <1>5, <2>3 DEF OnlyOpen
    <3>2. OpenAfter(n + 1) = 2..7
      BY <1>5, <2>3
    <3> QED
      BY <2>5, <3>1, <3>2 DEF OnlyOpen, OpenAfter
  <2> QED
    BY <1>5, <2>5, <2>6 DEF Returns
<1>6. CASE n > 6
  <2>1. c.op = "close" /\ c.x = n - 5
    BY <1>6 DEF OpenLots
  <2>2. syscall_close(n - 5)
    BY <2>1 DEF Asks
  <2>3. OpenAfter(n) = (n - 5)..7 /\ OpenAfter(n + 1) = (n - 4)..7 /\ n - 5 \in 2..7
    BY <1>6 DEF OpenAfter
  <2>4. MayClose(n - 5)
    BY <1>1, <2>3 DEF MayClose
  <2>5. /\ fd_array' = [fd_array EXCEPT ![n - 5] =
             [fd_array[n - 5] EXCEPT !.flags = 0, !.inode = 0, !.file_pos = 0]]
        /\ Returns("close", n - 5, <<>>, 0, 0, <<>>) /\ UNCHANGED pc
    BY <2>2, <2>4 DEF syscall_close
  <2>6. OnlyOpen(OpenAfter(n + 1))'
    <3>1. ASSUME NEW e \in 2..7 PROVE fd_array'[e].flags = 1 <=> e \in (n - 4)..7
      <4>1. CASE e = n - 5
        <5>1. e \in 0..(MAX_NUM_FD - 1) /\ e \in DOMAIN fd_array
          BY <1>2
        <5>2. fd_array[e] \in [ops : {"none", "stdin", "stdout", "rtc", "dir", "file"},
                               inode : Nat, file_pos : Nat, flags : {0, 1}]
          BY <5>1 DEF IInv, TypeOK
        <5>3. fd_array'[e] = [fd_array[e] EXCEPT !.flags = 0, !.inode = 0, !.file_pos = 0]
          BY <2>5, <4>1, <5>1
        <5>4. fd_array'[e].flags = 0
          BY <5>2, <5>3
        <5> QED
          BY <4>1, <5>4
      <4>2. CASE e # n - 5
        <5>1. fd_array'[e] = fd_array[e]
          BY <1>2, <2>5, <4>2
        <5>2. fd_array[e].flags = 1 <=> e \in (n - 5)..7
          BY <1>1, <2>3 DEF OnlyOpen
        <5> QED
          BY <4>2, <5>1, <5>2
      <4> QED
        BY <4>1, <4>2
    <3> QED
      BY <1>1, <2>3, <3>1 DEF OnlyOpen, OpenAfter
  <2> QED
    BY <1>6, <2>5, <2>6 DEF Returns
<1> QED
  BY <1>4, <1>5, <1>6
\* syserr is at the start of a test.
LEMMA NextTest ==
  ASSUME MAX_NUM_FD = 8, (todo \in Seq(1..8))', (todo # <<>>)', NoneOpen',
         k' = 0, cnt' = 0, label' = "call"
  PROVE  SyserrPlaces'
<1>1. Head(todo') \in 1..8
  OBVIOUS
<1>2. /\ Head(todo') = 3 => Len(Tests[Head(todo')]) = 13
      /\ Len(Tests[Head(todo')]) \in Nat
  BY <1>1, ScriptFacts
<1>3. Head(todo') = 3 => OnlyOpen(OpenAfter(0))'
  <2>1. OpenAfter(0) = {}
    BY DEF OpenAfter
  <2>2. \A f \in Fds : ~(fd_array'[f].flags = 1)
    BY DEF NoneOpen
  <2>3. OnlyOpen({})'
    BY <2>2 DEF OnlyOpen
  <2> QED
    BY <2>1, <2>3
<1>4. Testing'
  <2>1. CASE Head(todo') = 3
    BY <1>2, <1>3, <2>1 DEF Testing, Script
  <2>2. CASE Head(todo') # 3
    BY <1>2, <2>2 DEF Testing, Script
  <2> QED
    BY <2>1, <2>2
<1> QED
  BY <1>4 DEF SyserrPlaces

\* Within a test: what the next call is.
LEMMA InScript ==
  ASSUME MAX_NUM_FD = 8, todo \in Seq(1..8), todo # <<>>, k \in Nat, k < Len(Script)
  PROVE  /\ Head(todo) = 3 => Len(Script) = 13 /\ k \in 0..12 /\ OpenLots(k + 1, Script[k + 1])
         /\ Head(todo) # 3 => RefusedCall(Script[k + 1])
         /\ k + 1 <= Len(Script)
<1>1. Head(todo) \in 1..8
  OBVIOUS
<1>2. /\ Head(todo) = 3 => Len(Script) = 13 /\ \A j \in 1..13 : OpenLots(j, Script[j])
      /\ Head(todo) # 3 => AllRefused(Script)
      /\ Len(Script) \in Nat
  BY <1>1, ScriptFacts DEF Script
<1>3. Len(Script) \in Nat
  BY <1>2
<1>4. k + 1 \in 1..Len(Script) /\ (Len(Script) = 13 => k + 1 \in 1..13 /\ k \in 0..12)
  <2> DEFINE l == Len(Script)
  <2>1. l \in Nat /\ k < l
    BY <1>3
  <2> HIDE DEF l
  <2>2. k + 1 \in 1..l
    BY <2>1
  <2>3. l = 13 => k + 1 \in 1..13 /\ k \in 0..12
    BY <2>1
  <2> QED
    BY <2>2, <2>3 DEF l
<1>5. Head(todo) = 3 => Len(Script) = 13 /\ k \in 0..12 /\ OpenLots(k + 1, Script[k + 1])
  BY <1>2, <1>4
<1>6. Head(todo) # 3 => RefusedCall(Script[k + 1])
  BY <1>2, <1>4 DEF AllRefused
<1> QED
  BY <1>4, <1>5, <1>6

\* Every step of syserr leads from one of its places to another, and fails no test.
LEMMA SyserrStep ==
  ASSUME IInv, MAX_NUM_FD = 8, SyserrInv, ProgramNext, prog = "syserr"
  PROVE  SyserrInv'
<1>1. (Kernel \/ Dying \/ Syserr) /\ UNCHANGED prog
  BY SyserrMoves
<1>2. pc = "user" /\ failed = {} /\ SyserrPlaces
  BY DEF SyserrInv
<1>3. SUFFICES pc' = "user" /\ failed' = {} /\ SyserrPlaces'
  BY DEF SyserrInv
<1>4. CASE SyserrBegin
  <2>1. label = "start" /\ syscall_write(1, <<"Choose from tests 1-8">>, 1) /\ label' = "ask" /\ UNCHANGED own
    BY <1>4 DEF SyserrBegin, At, Goto
  <2>2. UNCHANGED <<fd_array, pc>>
    BY <2>1, WriteShows
  <2> QED
    BY <1>2, <2>1, <2>2 DEF SyserrPlaces, NoneOpen, own, grepvars, tests
<1>5. CASE SyserrAsk
  <2>1. label = "ask" /\ syscall_read(0, 127) /\ label' = "choice" /\ UNCHANGED own
    BY <1>5 DEF SyserrAsk, At, Goto
  <2>2. UNCHANGED <<fd_array, pc>>
    <3>1. fd_array[0].ops = "stdin" /\ ~PastTheTable(0)
      BY Bounds DEF IInv, Descriptors, PastTheTable
    <3> QED
      BY <2>1, <3>1 DEF syscall_read, Answers
  <2> QED
    BY <1>2, <2>1, <2>2 DEF SyserrPlaces, NoneOpen, own, grepvars, tests
<1>6. CASE SyserrSelect
  <2>1. label = "choice" /\ NoneOpen /\ k = 0 /\ cnt = 0 /\ UNCHANGED <<k, cnt, failed>>
    BY <1>2, <1>6 DEF SyserrSelect, At, SyserrPlaces, grepvars
  <2>2. ASSUME todo' \in Seq(1..8), todo' # <<>>, label' = "call", UNCHANGED vars
        PROVE  pc' = "user" /\ SyserrPlaces'
    <3>1. NoneOpen' /\ pc' = "user"
      BY <1>2, <2>1, <2>2 DEF vars, NoneOpen
    <3>2. k' = 0 /\ cnt' = 0
      BY <2>1
    <3> QED
      BY <2>2, <3>1, <3>2, NextTest
  <2>3. CASE todo' = FromTo(1, 8) /\ Goto("call") /\ UNCHANGED vars
    <3>1. FromTo(1, 8) \in Seq(1..8) /\ FromTo(1, 8) # <<>>
      <4>1. 1 \in Int /\ 8 \in Int /\ 1 <= 8
        OBVIOUS
      <4>2. /\ FromTo(1, 8) \in Seq(Int) /\ Len(FromTo(1, 8)) = (8 - 1) + 1
            /\ \A j \in 1..((8 - 1) + 1) : FromTo(1, 8)[j] = 1 + j - 1
        BY <4>1, FromToFacts, Zenon
      <4>3. \A j \in 1..8 : FromTo(1, 8)[j] = j
        BY <4>2
      <4>4. FromTo(1, 8) \in [1..8 -> Int]
        BY <4>2
      <4>5. FromTo(1, 8) \in [1..8 -> 1..8]
        BY <4>3, <4>4
      <4>6. FromTo(1, 8) \in Seq(1..8)
        BY <4>5, SeqDef
      <4> QED
        BY <4>2, <4>6
    <3> QED
      BY <1>2, <2>1, <2>2, <2>3, <3>1 DEF Goto
  <2>4. CASE \E t \in 1..8 : todo' = <<t>> /\ Goto("call") /\ UNCHANGED vars
    BY <1>2, <2>1, <2>2, <2>4 DEF Goto
  <2>5. CASE Die("Invalid test number", 0)
    <3>1. label' = "dying" /\ syscall_write(1, <<"Invalid test number">>, 1)
      BY <2>5 DEF Die
    <3>2. UNCHANGED pc
      BY <3>1, WriteShows
    <3> QED
      BY <1>2, <2>1, <3>1, <3>2 DEF SyserrPlaces
  <2> QED
    BY <1>6, <2>3, <2>4, <2>5 DEF SyserrSelect
<1>7. CASE SyserrCall
  <2> DEFINE c == Script[k + 1]
  <2>1. /\ label = "call" /\ todo # <<>> /\ k < Len(Script) /\ Asks(c) /\ label' = "check"
        /\ UNCHANGED <<k, cnt, todo, failed>>
    BY <1>7 DEF SyserrCall, InTest, At, Goto, Asks, own, grepvars, tests
  <2>2. todo \in Seq(1..8) /\ Testing /\ k \in Nat
    BY <1>2, <2>1 DEF SyserrPlaces, Testing
  <2>3. /\ Head(todo) = 3 => Len(Script) = 13 /\ k \in 0..12 /\ OpenLots(k + 1, c)
        /\ Head(todo) # 3 => RefusedCall(c)
        /\ k + 1 <= Len(Script)
    BY <2>1, <2>2, InScript
  <2> HIDE DEF c
  <2>4. CASE Head(todo) = 3
    <3>1. OnlyOpen(OpenAfter(k)) /\ cnt = IF k >= 7 THEN 1 ELSE 0
      BY <2>1, <2>2, <2>4 DEF Testing
    <3>2. /\ OnlyOpen(OpenAfter(k + 1))' /\ UNCHANGED pc
          /\ k <= 6 => ret'.op = "open" /\ (ret'.count = -1 <=> k = 6)
          /\ k > 6 => ret'.op = "close"
      <4>1. /\ OnlyOpen(OpenAfter(k + 1)) <=> \A f \in Fds : fd_array[f].flags = 1 <=> f \in OpenAfter(k + 1)
        BY DEF OnlyOpen
      <4> QED
        BY <2>1, <2>3, <2>4, <3>1, LotsAnswer DEF OnlyOpen
    <3>3. Testing'
      BY <2>1, <2>2, <2>3, <2>4, <3>1, <3>2 DEF Testing, Script, OnlyOpen
    <3> QED
      BY <1>2, <2>1, <2>2, <3>2, <3>3 DEF SyserrPlaces
  <2>5. CASE Head(todo) # 3
    <3>1. NoneOpen /\ cnt = 0
      BY <2>1, <2>2, <2>5 DEF Testing
    <3>2. ret'.count = -1 /\ UNCHANGED <<fd_array, pc>>
      BY <2>1, <2>3, <2>5, <3>1, RefusedAnswer
    <3>3. Testing'
      BY <2>1, <2>2, <2>3, <2>5, <3>1, <3>2 DEF Testing, Script, NoneOpen
    <3> QED
      BY <1>2, <2>1, <2>2, <3>2, <3>3 DEF SyserrPlaces
  <2> QED
    BY <2>4, <2>5
<1>8. CASE SyserrOther
  <2> DEFINE c == Script[k + 1]
  <2>1. /\ label = "call" /\ todo # <<>> /\ k < Len(Script) /\ c.op \in {"vidmap", "call"}
        /\ failed' = IF IF c.op = "vidmap" THEN VidmapRefuses(c.x) ELSE NumberRefused(c.x)
                     THEN failed ELSE failed \cup {Head(todo)}
        /\ k' = k + 1 /\ label' = "call" /\ UNCHANGED <<fd_array, pc, cnt, todo>>
    BY <1>8 DEF SyserrOther, InTest, At, Goto, vars, grepvars
  <2>2. todo \in Seq(1..8) /\ Testing /\ k \in Nat
    BY <1>2, <2>1 DEF SyserrPlaces, Testing
  <2>3. /\ Head(todo) = 3 => OpenLots(k + 1, c)
        /\ Head(todo) # 3 => RefusedCall(c)
        /\ k + 1 <= Len(Script)
    BY <2>1, <2>2, InScript
  <2> HIDE DEF c
  <2>4. Head(todo) # 3
    BY <2>1, <2>3 DEF OpenLots
  <2>5. failed' = {}
    BY <1>2, <2>1, <2>3, <2>4 DEF RefusedCall
  <2>6. NoneOpen /\ cnt = 0
    BY <2>1, <2>2, <2>4 DEF Testing
  <2>7. Testing'
    BY <2>1, <2>2, <2>3, <2>4, <2>6 DEF Testing, Script, NoneOpen
  <2> QED
    BY <1>2, <2>1, <2>2, <2>5, <2>7 DEF SyserrPlaces
<1>9. CASE SyserrCheck
  <2>1. /\ label = "check" /\ k' = k + 1 /\ label' = "call" /\ UNCHANGED <<fd_array, pc, ret, todo>>
        /\ Head(todo) = 3 => /\ cnt' = IF ret.count = -1 /\ ret.op = "open" THEN cnt + 1 ELSE cnt
                             /\ UNCHANGED failed
        /\ Head(todo) # 3 => /\ failed' = IF ret.count = -1 THEN failed ELSE failed \cup {Head(todo)}
                             /\ UNCHANGED cnt
    BY <1>9 DEF SyserrCheck, At, Goto, vars
  <2>2. todo \in Seq(1..8) /\ todo # <<>> /\ Testing /\ k \in Nat /\ k + 1 <= Len(Script)
    BY <1>2, <2>1 DEF SyserrPlaces, Testing
  <2>3. failed' = {}
    BY <1>2, <2>1, <2>2 DEF Testing
  <2>4. Testing'
    <3>1. CASE Head(todo) = 3
      <4>1. OnlyOpen(OpenAfter(k + 1)) /\ cnt = (IF k >= 7 THEN 1 ELSE 0)
        BY <2>1, <2>2, <3>1 DEF Testing
      <4>2. cnt' = IF k' >= 7 THEN 1 ELSE 0
        BY <2>1, <2>2, <3>1, <4>1 DEF Testing
      <4>3. OnlyOpen(OpenAfter(k))'
        BY <2>1, <4>1 DEF OnlyOpen, OpenAfter
      <4> QED
        BY <2>1, <2>2, <3>1, <4>2, <4>3 DEF Testing, Script
    <3>2. CASE Head(todo) # 3
      BY <2>1, <2>2, <3>2 DEF Testing, Script, NoneOpen
    <3> QED
      BY <3>1, <3>2
  <2> QED
    BY <1>2, <2>1, <2>2, <2>3, <2>4 DEF SyserrPlaces
<1>10. CASE SyserrVerdict
  <2> DEFINE bad  == IF Head(todo) = 3 /\ cnt # 1 THEN failed \cup {3} ELSE failed
             word == <<IF Head(todo) \in bad THEN "FAIL" ELSE "PASS">>
  <2>1. /\ label = "call" /\ todo # <<>> /\ k = Len(Script) /\ failed' = bad
        /\ syscall_write(1, word, 1)
        /\ todo' = Tail(todo) /\ k' = 0 /\ cnt' = 0 /\ label' = "call"
    BY <1>10 DEF SyserrVerdict, At, Goto
  <2>2. todo \in Seq(1..8) /\ Testing
    BY <1>2, <2>1 DEF SyserrPlaces
  <2>3. Head(todo) \in 1..8 /\ (Head(todo) = 3 => k = 13)
    <3>1. Head(todo) \in 1..8
      BY <2>1, <2>2
    <3> QED
      BY <2>1, <3>1, ScriptFacts DEF Script
  <2>4. failed' = {}
    BY <1>2, <2>1, <2>2, <2>3 DEF Testing
  <2>5. NoneOpen
    <3>1. CASE Head(todo) = 3
      <4>1. OnlyOpen(OpenAfter(k)) /\ k = 13
        BY <2>1, <2>2, <2>3, <3>1 DEF Testing
      <4>2. OpenAfter(k) = {}
        BY <4>1 DEF OpenAfter
      <4>3. \A f \in Fds : fd_array[f].flags \in {0, 1}
        BY Bounds DEF IInv, TypeOK
      <4> QED
        BY <4>1, <4>2, <4>3 DEF OnlyOpen, NoneOpen
    <3>2. CASE Head(todo) # 3
      BY <2>2, <3>2 DEF Testing
    <3> QED
      BY <3>1, <3>2
  <2>6. NoneOpen' /\ UNCHANGED pc
    <3>1. UNCHANGED <<fd_array, pc>>
      <4> HIDE DEF word
      <4> QED
        BY <2>1, WriteShows
    <3> QED
      BY <2>5, <3>1 DEF NoneOpen
  <2>7. todo' \in Seq(1..8)
    BY <2>1, <2>2
  <2>8. SyserrPlaces'
    <3>1. CASE todo' = <<>>
      BY <2>1, <3>1 DEF SyserrPlaces
    <3>2. CASE todo' # <<>>
      BY <2>1, <2>6, <2>7, <3>2, NextTest
    <3> QED
      BY <3>1, <3>2
  <2> QED
    BY <1>2, <2>4, <2>6, <2>8
<1>11. CASE SyserrEnd
  BY <1>2, <1>11 DEF SyserrEnd, Exit, syscall_halt, SyserrPlaces, own, tests
<1>12. CASE Dying
  BY <1>2, <1>12 DEF Dying, Exit, syscall_halt, SyserrPlaces, own, tests
<1>13. CASE Kernel
  BY <1>2, <1>13 DEF Kernel, ReadByte, ReadReturns
<1> QED
  BY <1>1, <1>4, <1>5, <1>6, <1>7, <1>8, <1>9, <1>10, <1>11, <1>12, <1>13 DEF Syserr

(***************************************************************************)
(* All programs: their calls are calls of FileSystem, with numbers for     *)
(* descriptors and counts.                                                 *)
(***************************************************************************)
Numbers == fd \in Int /\ dir_fd \in Int /\ last \in Int /\ line_start \in Int /\ line_end \in Int

\* What is read with are numbers, and so is what the last call returned.
LEMMA Sizes ==
  /\ BUFSIZE \in Nat \ {0} /\ FILENAME_MAX_LENGTH \in Nat
  /\ UserFds \subseteq Int /\ UserSizes \subseteq Int
  /\ IInv => ret.count \in Int
<1>1. BUFSIZE \in Nat \ {0} /\ UserFds \subseteq Int /\ UserSizes \subseteq Int
  BY ProgramsAssumption, Zenon
<1>2. FILENAME_MAX_LENGTH \in Nat
  BY ImageAssumption
<1>3. IInv => ret.count \in Int
  BY DEF IInv, TypeOK
<1> QED
  BY <1>1, <1>2, <1>3, Zenon

\* The end of the line that grep looks at is a number.
LEMMA LineEndTyped ==
  ASSUME Numbers
  PROVE  LineEnd \in Int
<1> DEFINE S == {p \in line_start..(last - 1) : data[p] = NewLine} \cup {last}
           low == IF line_start < last THEN line_start ELSE last
           T == {x - low : x \in S}
<1>1. line_start \in Int /\ last \in Int
  BY DEF Numbers
<1>2. S \subseteq Int /\ last \in S /\ low \in Int /\ \A x \in S : x >= low
  BY <1>1
<1> HIDE DEF S, low
<1>3. T \subseteq Nat /\ T # {}
  <2>1. \A x \in S : x - low \in Nat
    <3> SUFFICES ASSUME NEW x \in S PROVE x - low \in Nat
      OBVIOUS
    <3>1. x \in Int /\ low \in Int /\ x >= low
      BY <1>2
    <3> QED
      BY <3>1
  <2>2. last - low \in T
    BY <1>2
  <2> QED
    BY <2>1, <2>2
<1>4. PICK y \in T : \A z \in T : y <= z
  BY <1>3, LeastNumber
<1>5. PICK x \in S : y = x - low
  OBVIOUS
<1>6. \A z \in S : x <= z
  <2>1. ASSUME NEW z \in S PROVE x <= z
    <3>1. z - low \in T
      OBVIOUS
    <3>2. y <= z - low
      BY <1>4, <3>1
    <3> QED
      BY <1>2, <1>5, <3>2
  <2> QED
    BY <2>1
<1>7. Min(S) \in S
  BY <1>6 DEF Min
<1> QED
  BY <1>2, <1>7 DEF LineEnd, S

\* What the programs' steps are made of is a call.
LEMMA AsCalls ==
  /\ \A name : syscall_open(name) => AnyCall
  /\ \A f \in Int : syscall_close(f) => AnyCall
  /\ \A f, n \in Int : syscall_read(f, n) => AnyCall
  /\ \A f \in Int : \A n, text : syscall_write(f, text, n) => AnyCall
  /\ \A n, text : syscall_write(1, text, n) => AnyCall
  /\ \A s : Exit(s) => AnyCall
  /\ \A message, s : Die(message, s) => AnyCall
<1>1. \A f \in Int : \A n, text : syscall_write(f, text, n) => AnyCall
  BY DEF AnyCall
<1>2. \A n, text : syscall_write(1, text, n) => AnyCall
  BY <1>1
<1>3. \A message, s : Die(message, s) => AnyCall
  BY <1>2 DEF Die
<1>4. \A name : syscall_open(name) => AnyCall
  BY DEF AnyCall
<1>5. \A f \in Int : syscall_close(f) => AnyCall
  BY DEF AnyCall
<1>6. \A f, n \in Int : syscall_read(f, n) => AnyCall
  BY DEF AnyCall
<1>7. \A s : Exit(s) => AnyCall
  BY DEF AnyCall, Exit
<1> QED
  BY <1>1, <1>2, <1>3, <1>4, <1>5, <1>6, <1>7

\* cat and ls make calls.
LEMMA CatLsCalls ==
  ASSUME IInv, Numbers, Cat \/ Ls
  PROVE  AnyCall /\ Numbers'
<1>1. BUFSIZE \in Int /\ FILENAME_MAX_LENGTH \in Int /\ ret.count \in Int
  BY Sizes
<1>2. UNCHANGED own => Numbers'
  BY DEF Numbers, own, grepvars
<1>3. CASE CatBegin
  BY <1>2, <1>3, AsCalls DEF CatBegin
<1>4. CASE CatOpened
  <2>1. Numbers'
    BY <1>1, <1>4 DEF CatOpened, Numbers, grepvars
  <2> QED
    BY <1>1, <1>4, <2>1, AsCalls DEF CatOpened
<1>5. CASE CatLoop
  BY <1>2, <1>5, AsCalls DEF CatLoop
<1>6. CASE CatWritten
  BY <1>1, <1>2, <1>6, AsCalls DEF CatWritten, Numbers
<1>7. CASE LsBegin
  BY <1>2, <1>7, AsCalls DEF LsBegin
<1>8. CASE LsOpened
  <2>1. Numbers'
    BY <1>1, <1>8 DEF LsOpened, Numbers, grepvars
  <2> QED
    BY <1>1, <1>8, <2>1, AsCalls DEF LsOpened
<1>9. CASE LsLoop
  BY <1>2, <1>9, AsCalls DEF LsLoop
<1>10. CASE LsWritten
  BY <1>1, <1>2, <1>10, AsCalls DEF LsWritten, Numbers
<1> QED
  BY <1>3, <1>4, <1>5, <1>6, <1>7, <1>8, <1>9, <1>10 DEF Cat, Ls

\* grep makes calls, or none.
LEMMA GrepCalls ==
  ASSUME IInv, Numbers, Grep
  PROVE  (AnyCall \/ UNCHANGED vars) /\ Numbers'
<1>1. BUFSIZE \in Int /\ FILENAME_MAX_LENGTH \in Int /\ ret.count \in Int /\ LineEnd \in Int
  BY Sizes, LineEndTyped
<1>2. UNCHANGED own => Numbers'
  BY DEF Numbers, own, grepvars
<1>3. CASE GrepBegin
  BY <1>2, <1>3, AsCalls DEF GrepBegin
<1>4. CASE GrepOpened
  <2>1. Numbers'
    BY <1>1, <1>4 DEF GrepOpened, Numbers, grepvars
  <2> QED
    BY <1>1, <1>4, <2>1, AsCalls DEF GrepOpened
<1>5. CASE GrepEntry
  <2>1. Numbers'
    BY <1>5 DEF GrepEntry, Numbers, grepvars
  <2> QED
    BY <1>1, <1>5, <2>1, AsCalls DEF GrepEntry, Numbers
<1>6. CASE GrepFile
  <2>1. Numbers'
    <3>1. fd' = fd \/ fd' = ret.count
      BY <1>6 DEF GrepFile
    <3>2. last' = last \/ last' = 0
      BY <1>6 DEF GrepFile
    <3>3. UNCHANGED <<dir_fd, line_start, line_end>>
      BY <1>6 DEF GrepFile
    <3> QED
      BY <1>1, <3>1, <3>2, <3>3 DEF Numbers
  <2> QED
    BY <1>1, <1>6, <2>1, AsCalls DEF GrepFile
<1>7. CASE GrepChunk
  <2>1. Numbers'
    <3>1. last' = last \/ last' = last + ret.count
      BY <1>7 DEF GrepChunk
    <3>2. line_start' = line_start \/ line_start' = 0
      BY <1>7 DEF GrepChunk
    <3>3. UNCHANGED <<fd, dir_fd, line_end>>
      BY <1>7 DEF GrepChunk
    <3> QED
      BY <1>1, <3>1, <3>2, <3>3 DEF Numbers
  <2> QED
    BY <1>7, <2>1, AsCalls DEF GrepChunk
<1>8. CASE GrepCarry
  <2>1. Numbers'
    BY <1>8 DEF GrepCarry, Numbers
  <2>2. fd \in Int /\ BUFSIZE - (last - line_start) \in Int
    BY <1>1 DEF Numbers
  <2> QED
    BY <1>8, <2>1, <2>2, AsCalls DEF GrepCarry
<1>9. CASE GrepSearch
  <2>1. Numbers'
    BY <1>1, <1>9 DEF GrepSearch, Numbers
  <2> QED
    BY <1>9, <2>1, AsCalls DEF GrepSearch
<1>10. CASE GrepNext
  <2>1. Numbers'
    BY <1>10 DEF GrepNext, Numbers
  <2> QED
    BY <1>1, <1>10, <2>1, AsCalls DEF GrepNext, Numbers
<1>11. CASE GrepClosed
  BY <1>1, <1>2, <1>11, AsCalls DEF GrepClosed, Numbers
<1> QED
  BY <1>3, <1>4, <1>5, <1>6, <1>7, <1>8, <1>9, <1>10, <1>11 DEF Grep

\* counter and "user" make calls, or none.
LEMMA OtherCalls ==
  ASSUME IInv, Numbers, Launch \/ Kernel \/ Dying \/ Counter \/ User
  PROVE  (AnyCall \/ UNCHANGED vars) /\ Numbers'
<1>1. BUFSIZE - 1 \in Int /\ UserFds \subseteq Int /\ UserSizes \subseteq Int
  BY Sizes
<1>2. UNCHANGED own => Numbers'
  BY DEF Numbers, own, grepvars
<1>3. CASE Launch
  BY <1>2, <1>3 DEF Launch
<1>4. CASE Kernel
  BY <1>2, <1>4 DEF Kernel, AnyCall
<1>5. CASE Dying
  BY <1>2, <1>5, AsCalls DEF Dying
<1>6. CASE CounterBegin
  BY <1>2, <1>6, AsCalls DEF CounterBegin
<1>7. CASE CounterAsk
  <2>1. 0 \in Int
    OBVIOUS
  <2> QED
    BY <1>1, <1>2, <1>7, <2>1, AsCalls DEF CounterAsk
<1>8. CASE CounterChoice
  <2>1. Numbers'
    BY <1>8 DEF CounterChoice, Numbers
  <2> QED
    BY <1>8, <2>1, AsCalls DEF CounterChoice
<1>9. CASE CounterCount
  <2>1. Numbers'
    BY <1>9 DEF CounterCount, Numbers, grepvars
  <2> QED
    BY <1>9, <2>1, AsCalls DEF CounterCount
<1>10. CASE UserCall
  <2>1. Numbers'
    BY <1>10 DEF UserCall, Numbers, grepvars
  <2>2. CASE \E name \in UserNames : syscall_open(name)
    BY <2>1, <2>2, AsCalls
  <2>3. CASE \E f \in UserFds : syscall_close(f)
    BY <1>1, <2>1, <2>3, AsCalls
  <2>4. CASE \E f \in UserFds, n \in UserSizes : syscall_read(f, n)
    BY <1>1, <2>1, <2>4, AsCalls
  <2>5. CASE \/ \E f \in UserFds, t \in UserTexts : syscall_write(f, t, Len(t))
             \/ \E f \in UserFds : syscall_write(f, <<>>, -1)
    BY <1>1, <2>1, <2>5, AsCalls
  <2> QED
    BY <1>10, <2>2, <2>3, <2>4, <2>5 DEF UserCall
<1>11. CASE UserEnd
  BY <1>2, <1>11, AsCalls DEF UserEnd
<1> QED
  BY <1>3, <1>4, <1>5, <1>6, <1>7, <1>8, <1>9, <1>10, <1>11 DEF Counter, User
\* The calls of syserr have numbers for descriptors, in every test.
LEMMA SyserrCalls ==
  ASSUME IInv, Numbers, SyserrInv, Syserr
  PROVE  (AnyCall \/ UNCHANGED vars) /\ Numbers'
<1>1. UNCHANGED own => Numbers'
  BY DEF Numbers, own, grepvars
<1>2. CASE SyserrBegin
  BY <1>1, <1>2, AsCalls DEF SyserrBegin
<1>3. CASE SyserrAsk
  <2>1. 0 \in Int /\ 127 \in Int
    OBVIOUS
  <2> QED
    BY <1>1, <1>3, <2>1, AsCalls DEF SyserrAsk
<1>4. CASE SyserrSelect
  <2>1. Numbers'
    BY <1>4 DEF SyserrSelect, Numbers, grepvars
  <2> QED
    BY <1>4, <2>1, AsCalls DEF SyserrSelect
<1>5. CASE SyserrCall
  <2> DEFINE c == Script[k + 1]
  <2>1. prog = "syserr" /\ label = "call" /\ todo # <<>> /\ k < Len(Script) /\ Asks(c)
    BY <1>5 DEF SyserrCall, InTest, At, Asks
  <2>2. MAX_NUM_FD = 8
    BY ProgramsAssumption, Zenon
  <2>3. todo \in Seq(1..8) /\ k \in Nat
    BY <2>1 DEF SyserrInv, SyserrPlaces, Testing
  <2>4. /\ Head(todo) = 3 => k \in 0..12 /\ OpenLots(k + 1, c)
        /\ Head(todo) # 3 => RefusedCall(c)
    BY <2>1, <2>2, <2>3, InScript
  <2> HIDE DEF c
  <2>5. c.op \in {"close", "read", "write"} => c.x \in Int
    <3>1. CASE Head(todo) = 3
      BY <2>4, <3>1 DEF OpenLots
    <3>2. CASE Head(todo) # 3
      BY <2>4, <3>2 DEF RefusedCall
    <3> QED
      BY <3>1, <3>2
  <2>6. AnyCall
    <3>1. 31 \in Int
      OBVIOUS
    <3> QED
      BY <2>1, <2>5, <3>1, AsCalls DEF Asks
  <2>7. UNCHANGED own
    BY <1>5 DEF SyserrCall
  <2> QED
    BY <1>1, <2>6, <2>7
<1>6. CASE SyserrOther
  BY <1>6 DEF SyserrOther, vars, Numbers, grepvars
<1>7. CASE SyserrCheck
  BY <1>7 DEF SyserrCheck, vars, Numbers, grepvars
<1>8. CASE SyserrVerdict
  <2>1. Numbers'
    BY <1>8 DEF SyserrVerdict, Numbers
  <2> QED
    BY <1>8, <2>1, AsCalls DEF SyserrVerdict
<1>9. CASE SyserrEnd
  BY <1>1, <1>9, AsCalls DEF SyserrEnd
<1> QED
  BY <1>2, <1>3, <1>4, <1>5, <1>6, <1>7, <1>8, <1>9 DEF Syserr

\* A step of any program is a call, or none of FileSystem's matter.
LEMMA ProgramCalls ==
  ASSUME IInv, Numbers, SyserrInv, ProgramNext
  PROVE  (AnyCall \/ UNCHANGED vars) /\ Numbers'
BY CatLsCalls, GrepCalls, OtherCalls, SyserrCalls DEF ProgramNext

(***************************************************************************)
(* The invariant of all programs.                                          *)
(***************************************************************************)
\* A program's arguments are those of the command that started it.
ArgsInv == command \in Commands /\ (prog # "shell" => args = args_of(command))

ProgramInv ==
  IInv /\ Numbers /\ ShellInv /\ ArgsInv /\ CatInv /\ LsInv /\ SyserrInv /\ CounterInv

\* It holds at the shell's prompt.
LEMMA ProgramInitInv == ProgramInit => ProgramInv
<1> SUFFICES ASSUME ProgramInit PROVE ProgramInv
  OBVIOUS
<1>1. IInv
  BY InitInv DEF ProgramInit
<1>2. Numbers
  BY DEF ProgramInit, Numbers
<1>3. prog = "shell" /\ label = "start" /\ failed = {} /\ k = 0 /\ cnt = 0
  BY DEF ProgramInit
<1>4. pc = "user" /\ fate = "running" /\ NoneOpen /\ out = <<>>
  <2>1. \A f \in Fds : fd_array[f].flags = 0
    BY Bounds DEF ProgramInit, Init, Unused
  <2> QED
    BY <2>1 DEF ProgramInit, Init, NoneOpen
<1>5. ArgsInv
  BY <1>3 DEF ProgramInit, ArgsInv
<1> QED
  BY <1>1, <1>2, <1>3, <1>4, <1>5
     DEF ProgramInv, ShellInv, Fresh, CatInv, LsInv, SyserrInv, CounterInv

\* The shell starts a program, once.
LEMMA ShellMoves ==
  ASSUME ProgramNext
  PROVE  /\ prog = "shell" => Launch \/ Kernel \/ Dying
         /\ prog # "shell" => UNCHANGED prog
BY DEF ProgramNext, Launch, Kernel, Dying, Exit, Goto, Die, Cat, CatBegin, CatOpened, CatLoop, CatWritten,
       Ls, LsBegin, LsOpened, LsLoop, LsWritten, Grep, GrepBegin, GrepOpened, GrepEntry, GrepFile,
       GrepChunk, GrepCarry, GrepSearch, GrepNext, GrepClosed, Counter, CounterBegin, CounterAsk,
       CounterChoice, CounterCount, Syserr, SyserrBegin, SyserrAsk, SyserrSelect, SyserrCall,
       SyserrOther, SyserrCheck, SyserrVerdict, SyserrEnd, InTest, User, UserCall, UserEnd, At

\* Launch gives a program its arguments; nothing changes them after.
LEMMA ArgsStay ==
  ASSUME ProgramInv, ProgramNext
  PROVE  ArgsInv'
<1>1. /\ command' = command
      /\ prog' # "shell" => args' = args_of(command) \/ (args' = args /\ prog' = prog)
  BY DEF ProgramNext, Launch, Kernel, Dying, Exit, Goto, Die, Cat, CatBegin, CatOpened, CatLoop,
       CatWritten, Ls, LsBegin, LsOpened, LsLoop, LsWritten, Grep, GrepBegin, GrepOpened, GrepEntry,
       GrepFile, GrepChunk, GrepCarry, GrepSearch, GrepNext, GrepClosed, Counter, CounterBegin,
       CounterAsk, CounterChoice, CounterCount, Syserr, SyserrBegin, SyserrAsk, SyserrSelect,
       SyserrCall, SyserrOther, SyserrCheck, SyserrVerdict, SyserrEnd, InTest, User, UserCall,
       UserEnd, At
<1> QED
  BY <1>1 DEF ProgramInv, ArgsInv

\* Whatever program the shell starts is at its own first place.
LEMMA ShellStep ==
  ASSUME ProgramInv, ProgramNext, prog = "shell"
  PROVE  ShellInv' /\ CatInv' /\ LsInv' /\ SyserrInv' /\ CounterInv'
<1>1. Launch
  BY ShellMoves DEF ProgramInv, ShellInv, Fresh, Kernel, ReadByte, ReadReturns, Dying
<1>2. CASE prog' = "shell"
  <2>1. label' \in {"start", "exit"} /\ UNCHANGED <<vars, own>>
    BY <1>1 DEF Launch
  <2>2. Fresh'
    BY <2>1 DEF ProgramInv, ShellInv, Fresh, NoneOpen, vars, locals, own, grepvars, tests
  <2> QED
    BY <1>2, <2>1, <2>2 DEF ShellInv, CatInv, LsInv, SyserrInv, CounterInv
<1>3. CASE prog' # "shell"
  <2>1. Fresh' /\ label' = "start"
    BY <1>1, <1>3, FreshStart DEF ProgramInv
  <2> QED
    BY <1>3, <2>1 DEF ShellInv, CatInv, CatPlaces, LsInv, LsPlaces, SyserrInv, SyserrPlaces,
                      CounterInv, CounterPlaces, Fresh
<1> QED
  BY <1>2, <1>3

\* A step of a program keeps what is said of it.
LEMMA OwnStep ==
  ASSUME ProgramInv, ProgramNext, prog # "shell"
  PROVE  ShellInv' /\ CatInv' /\ LsInv' /\ SyserrInv' /\ CounterInv'
<1>1. UNCHANGED prog
  BY ShellMoves
<1>2. ShellInv'
  BY <1>1 DEF ShellInv
<1>3. CatInv'
  <2>1. CASE prog = "cat"
    BY <2>1, CatStep DEF ProgramInv
  <2>2. CASE prog # "cat"
    BY <1>1, <2>2 DEF CatInv
  <2> QED
    BY <2>1, <2>2
<1>4. LsInv'
  <2>1. CASE prog = "ls"
    BY <2>1, LsStep DEF ProgramInv
  <2>2. CASE prog # "ls"
    BY <1>1, <2>2 DEF LsInv
  <2> QED
    BY <2>1, <2>2
<1>5. SyserrInv'
  <2>1. CASE prog = "syserr"
    <3>1. MAX_NUM_FD = 8
      BY ProgramsAssumption, Zenon
    <3> QED
      BY <2>1, <3>1, SyserrStep DEF ProgramInv
  <2>2. CASE prog # "syserr"
    BY <1>1, <2>2 DEF SyserrInv
  <2> QED
    BY <2>1, <2>2
<1>6. CounterInv'
  <2>1. CASE prog = "counter"
    BY <2>1, CounterStep DEF ProgramInv
  <2>2. CASE prog # "counter"
    BY <1>1, <2>2 DEF CounterInv
  <2> QED
    BY <2>1, <2>2
<1> QED
  BY <1>2, <1>3, <1>4, <1>5, <1>6

\* Nothing that is said of a program changes while nothing does.
LEMMA StillStep ==
  ASSUME ProgramInv, UNCHANGED all
  PROVE  ProgramInv'
<1>1. /\ UNCHANGED <<fd_array, pc, fd_read, offset, length, i, dblock_location, dblock_data_location,
                     buf, ret, out, fate>>
      /\ UNCHANGED <<command, prog, args, label, status, dir_fd, fd, fname, data, last, cnt,
                     line_start, line_end, stale, k, todo, failed>>
  BY DEF all, vars, locals, own, grepvars, tests
<1>2. IInv'
  <2>1. [AnyCall]_vars
    BY <1>1 DEF vars, locals
  <2> QED
    BY <2>1, CallsKeep DEF ProgramInv
<1>3. Numbers' /\ ShellInv'
  BY <1>1 DEF ProgramInv, Numbers, ShellInv, Fresh, NoneOpen
<1>4. CatInv'
  <2>1. Argument' = Argument /\ Passed' = Passed
    BY <1>1 DEF Argument, Passed
  <2>2. Fresh = Fresh' /\ WithinListing = WithinListing'
    BY <1>1 DEF Fresh, NoneOpen, WithinListing
  <2>3. OpenAs(Argument) => OpenAs(Argument)'
    BY <1>1, <2>1 DEF OpenAs
  <2>4. CatAnswered => CatAnswered'
    <3>1. Stored(Argument)' = Stored(Argument)
      BY <2>1 DEF Stored
    <3> QED
      BY <1>1, <2>1, <2>2, <3>1 DEF CatAnswered
  <2>5. CatShowsFile => CatShowsFile'
    <3>1. Stored(Argument)' = Stored(Argument)
      BY <2>1 DEF Stored
    <3> QED
      BY <1>1, <2>1, <3>1 DEF CatShowsFile, Done
  <2>6. CatPlaces => CatPlaces'
    BY <1>1, <2>1, <2>2, <2>3, <2>4, <2>5 DEF CatPlaces
  <2> QED
    BY <1>1, <2>6 DEF ProgramInv, CatInv
<1>5. LsInv'
  BY <1>1 DEF ProgramInv, LsInv, LsPlaces, LsAnswered, Fresh, NoneOpen, OpenAs, WithinListing,
              LsListsDirectory, Done
<1>6. SyserrInv'
  BY <1>1 DEF ProgramInv, SyserrInv, SyserrPlaces, Testing, NoneOpen, OnlyOpen, Script
<1>7. CounterInv'
  BY <1>1 DEF ProgramInv, CounterInv, CounterPlaces, Fresh, NoneOpen
<1>8. ArgsInv'
  BY <1>1 DEF ProgramInv, ArgsInv
<1> QED
  BY <1>2, <1>3, <1>4, <1>5, <1>6, <1>7, <1>8 DEF ProgramInv

\* Every step keeps the invariant, and is a call or none.
LEMMA ProgramNextInv == ProgramInv /\ [ProgramNext]_all => ProgramInv' /\ [AnyCall]_vars
<1> SUFFICES ASSUME ProgramInv, [ProgramNext]_all PROVE ProgramInv' /\ [AnyCall]_vars
  OBVIOUS
<1>1. CASE ProgramNext
  <2>1. (AnyCall \/ UNCHANGED vars) /\ Numbers'
    BY <1>1, ProgramCalls DEF ProgramInv
  <2>2. IInv'
    BY <2>1, CallsKeep DEF ProgramInv
  <2>3. ShellInv' /\ CatInv' /\ LsInv' /\ SyserrInv' /\ CounterInv'
    BY <1>1, ShellStep, OwnStep
  <2>4. ArgsInv'
    BY <1>1, ArgsStay
  <2> QED
    BY <2>1, <2>2, <2>3, <2>4 DEF ProgramInv
<1>2. CASE UNCHANGED all
  BY <1>2, StillStep DEF all
<1> QED
  BY <1>1, <1>2

(***************************************************************************)
(* grep: what it prints, and its places.                                   *)
(***************************************************************************)
\* What is printed of a line, of a text, of an entry and of the first n entries.
LineOut(word, name, line) ==
  IF \E p \in 1..Len(line) : \E q \in p..Len(line) : SubSeq(line, p, q) = word
  THEN name \o <<":">> \o line \o <<NewLine>> ELSE <<>>

TextOut(word, name, text) ==
  FlattenSeq([l \in 1..Len(LinesOf(text)) |-> LineOut(word, name, LinesOf(text)[l])])

EntryOut(word, e) ==
  IF Listing[e][1] = "." THEN <<>> ELSE TextOut(word, Listing[e], Stored(Listing[e]))

EntriesOut(word, n) == FlattenSeq([e \in 1..n |-> EntryOut(word, e)])

\* What follows the first d characters of a text starts a line, or is the newline of
\* a line that fills the buffer.
Clean(text, d) == Whole(SubSeq(text, 1, d)) \/ d = Len(text) \/ text[d + 1] = NewLine

\* The n characters that follow the first d of a text lie in a buffer.
Holds(b, start, text, d, n) == \A j \in 1..n : b[start + j - 1] = text[d + j]

FreeBut(S) == \A f \in Fds : f \notin S => fd_array[f].flags = 0

\* Descriptor 2 reads the directory, descriptor 3 the entry it has come to.
Entry == fd_array[2].file_pos
Pos   == fd_array[3].file_pos

OnEntry == /\ OpenAs(<<".">>) /\ Entry \in 1..Len(Listing)
           /\ fname = Listing[Entry] /\ fname[1] # "."

TextOpen ==
  /\ FreeBut({2, 3}) /\ fd_array[3].flags = 1 /\ fd_array[3].ops = OpsOf(Dentry(fname).type)
  /\ fd_array[3].inode = Dentry(fname).inode /\ Pos <= Len(Stored(fname))

\* The first d characters have been searched.
Searched(d) ==
  /\ d \in 0..Pos /\ Clean(Stored(fname), d)
  /\ out = EntriesOut(Argument, Entry - 1)
             \o TextOut(Argument, fname, SubSeq(Stored(fname), 1, d))

AtEndOfText == Pos = Len(Stored(fname))

ReadingPlace ==
  \E d \in 0..Pos : /\ Searched(d) /\ last = Pos - d /\ last < BUFSIZE
                    /\ Holds(data, 0, Stored(fname), d, last)
                    /\ fd_read = 3 /\ length = BUFSIZE - last

ChunkPlace ==
  \E d \in 0..Pos : /\ Searched(d) /\ last \in Nat /\ last < BUFSIZE /\ ret.count \in Nat
                    /\ Pos = d + last + ret.count /\ last + ret.count <= BUFSIZE
                    /\ last + ret.count < BUFSIZE => AtEndOfText
                    /\ Holds(data, 0, Stored(fname), d, last)
                    /\ Holds(ret.bytes, 1, Stored(fname), d + last, ret.count)

LinePlace ==
  \E d \in 0..Pos : /\ Searched(d) /\ line_start \in Nat /\ last \in Nat
                    /\ last - line_start = Pos - d /\ last <= BUFSIZE
                    /\ last < BUFSIZE \/ cnt = 0 => AtEndOfText
                    /\ Holds(data, line_start, Stored(fname), d, Pos - d)

NextPlace ==
  \E d \in 0..Pos : /\ Searched(d) /\ line_end \in Nat /\ last \in Nat /\ last <= BUFSIZE
                    /\ last < BUFSIZE \/ cnt = 0 => AtEndOfText
                    /\ \/ line_end >= last /\ d = Pos
                       \/ /\ last - (line_end + 1) = Pos - d
                          /\ Holds(data, line_end + 1, Stored(fname), d, Pos - d)

GrepAnswered ==
  \/ ret.count = 0 /\ out = EntriesOut(Argument, Len(Listing))
  \/ /\ Entry \in 1..Len(Listing) /\ out = EntriesOut(Argument, Entry - 1)
     /\ ret.count > 0 /\ ret.bytes = Listing[Entry]

GrepPlaces ==
  \/ label = "start" /\ Fresh
  \/ /\ label = "opened" /\ pc = "user" /\ out = <<>> /\ FreeBut({2})
     /\ ret.count = 2 /\ OpenAs(<<".">>) /\ Entry = 0
  \/ /\ label = "entry" /\ pc = "user" /\ dir_fd = 2 /\ FreeBut({2})
     /\ OpenAs(<<".">>) /\ GrepAnswered
  \/ /\ label = "file" /\ pc = "user" /\ dir_fd = 2 /\ OnEntry /\ ret.count = 3
     /\ TextOpen /\ Pos = 0 /\ out = EntriesOut(Argument, Entry - 1)
  \/ label = "chunk" /\ pc = "read_data" /\ dir_fd = 2 /\ fd = 3 /\ OnEntry /\ TextOpen /\ ReadingPlace
  \/ label = "chunk" /\ pc = "user" /\ dir_fd = 2 /\ fd = 3 /\ OnEntry /\ TextOpen /\ ChunkPlace
  \/ label = "line" /\ pc = "user" /\ dir_fd = 2 /\ fd = 3 /\ OnEntry /\ TextOpen /\ LinePlace
  \/ label = "next" /\ pc = "user" /\ dir_fd = 2 /\ fd = 3 /\ OnEntry /\ TextOpen /\ NextPlace
  \/ /\ label = "closed" /\ pc = "user" /\ dir_fd = 2 /\ OnEntry /\ FreeBut({2})
     /\ ret.count = 0 /\ out = EntriesOut(Argument, Entry)
  \/ /\ label = "exit" /\ pc = "user" /\ status = 0 /\ out = EntriesOut(Argument, Len(Listing))

\* The byte past the buffer is what it was, or a NUL.
BufferInv == DOMAIN data = 0..BUFSIZE /\ data[BUFSIZE] # NewLine

GrepInv ==
  stale # NewLine => /\ prog = "shell" => BufferInv
                     /\ prog = "grep" /\ args # <<>> => BufferInv /\ GrepPlaces

Chars == STRING \cup {NewLine, ":"}

\* The pieces of a flattened sequence, one more.
LEMMA FlattenGrows ==
  ASSUME NEW S, NEW n \in Nat, NEW f, \A e \in 1..(n + 1) : f[e] \in Seq(S)
  PROVE  /\ FlattenSeq([e \in 1..n |-> f[e]]) \in Seq(S)
         /\ FlattenSeq([e \in 1..(n + 1) |-> f[e]]) = FlattenSeq([e \in 1..n |-> f[e]]) \o f[n + 1]
<1> DEFINE SS == Seq(S)
           a == [e \in 1..n |-> f[e]]
           b == [e \in 1..(n + 1) |-> f[e]]
<1>1. n + 1 \in 1..(n + 1) /\ \A e \in 1..n : e \in 1..(n + 1) /\ e # n + 1
  OBVIOUS
<1>2. f[n + 1] \in SS /\ \A e \in 1..(n + 1) : f[e] \in SS
  BY <1>1
<1> HIDE DEF SS
<1>3. a \in Seq(SS) /\ Len(a) = n /\ b \in Seq(SS) /\ Len(b) = n + 1
  BY <1>2
<1>4. (\A e \in 1..n : a[e] = f[e]) /\ (\A e \in 1..(n + 1) : b[e] = f[e])
  OBVIOUS
<1> HIDE DEF a, b
<1>5. /\ Append(a, f[n + 1]) \in Seq(SS) /\ Len(Append(a, f[n + 1])) = n + 1
      /\ Append(a, f[n + 1])[n + 1] = f[n + 1]
      /\ \A j \in 1..n : Append(a, f[n + 1])[j] = a[j]
  BY <1>2, <1>3, AppendProperties
<1>6. ASSUME NEW j \in 1..(n + 1) PROVE b[j] = Append(a, f[n + 1])[j]
  <2>1. CASE j = n + 1
    BY <1>1, <1>4, <1>5, <2>1
  <2>2. CASE j # n + 1
    <3>1. j \in 1..n
      BY <2>2
    <3> QED
      BY <1>4, <1>5, <3>1
  <2> QED
    BY <2>1, <2>2
<1>7. b = Append(a, f[n + 1])
  BY <1>3, <1>5, <1>6, SeqEqual
<1>8. a \in Seq(Seq(S)) /\ f[n + 1] \in Seq(S)
  BY <1>2, <1>3 DEF SS
<1>9. FlattenSeq(Append(a, f[n + 1])) = FlattenSeq(a) \o f[n + 1] /\ FlattenSeq(a) \in Seq(S)
  BY <1>8, FlattenAppend, FlattenTyped
<1> QED
  BY <1>7, <1>9 DEF a, b

\* A last line without newline is the line it would be with one.
LEMMA LinesEnded ==
  ASSUME NEW S, NewLine \in S, NEW u \in Seq(S), u # <<>>, u[Len(u)] # NewLine
  PROVE  LinesOf(Append(u, NewLine)) = LinesOf(u)
<1> DEFINE v == Append(u, NewLine)
           n == Len(u)
           E == Stops(u) \cup {n + 1}
           LineIn(t, ends, j) ==
             SubSeq(t, IF j = 1 THEN 1 ELSE ends[j - 1] + 1, ends[j] - 1)
           Cut(t, ends) == [j \in 1..Len(ends) |-> LineIn(t, ends, j)]
<1>1. /\ n \in Nat /\ v \in Seq(S) /\ v # <<>> /\ Len(v) = n + 1 /\ v[n + 1] = NewLine
      /\ \A j \in 1..n : v[j] = u[j] /\ u[j] \in S
  BY AppendProperties
<1>2. Last(u) # NewLine /\ Last(v) = NewLine
  BY <1>1 DEF Last
<1>3. Stops(v) = E
  <2> HIDE DEF v
  <2>1. \A p : p \in 1..(n + 1) <=> p \in 1..n \/ p = n + 1
    BY <1>1
  <2>2. n + 1 \notin 1..n
    BY <1>1
  <2> HIDE DEF n
  <2> QED
    BY <1>1, <2>1, <2>2 DEF Stops, n
<1>4. LinesOf(v) = Cut(v, Ascending(E))
  <2>1. LinesOf(v) = Cut(v, Ascending(Stops(v)))
    BY <1>2 DEF LinesOf, Stops
  <2> QED
    BY <1>3, <2>1
<1>5. LinesOf(u) = Cut(u, Ascending(E))
  BY <1>2 DEF LinesOf, Stops
<1> DEFINE a == Ascending(E)
<1>6. Len(a) \in Nat /\ \A j \in 1..Len(a) : a[j] \in 1..(n + 1)
  <2>1. E \in SUBSET (1..(n + 1)) /\ n + 1 \in Nat /\ E \in SUBSET Nat
    BY <1>1 DEF Stops
  <2> HIDE DEF E
  <2>2. a \in Seq(E)
    BY <2>1, AllRanked, AscendingFacts
  <2> HIDE DEF a
  <2>3. Len(a) \in Nat /\ \A j \in 1..Len(a) : a[j] \in E
    BY <2>2
  <2> QED
    BY <2>1, <2>3
<1> HIDE DEF v, a, E, n
<1>7. ASSUME NEW j \in 1..Len(a) PROVE LineIn(v, a, j) = LineIn(u, a, j)
  <2> DEFINE f == IF j = 1 THEN 1 ELSE a[j - 1] + 1
             g == a[j] - 1
  <2>1. j # 1 => j - 1 \in 1..Len(a)
    BY <1>6
  <2>2. f \in Nat /\ f >= 1 /\ g \in Nat /\ g <= n
    BY <1>1, <1>6, <2>1
  <2> HIDE DEF f, g
  <2>3. \A q \in f..g : v[q] = u[q] /\ u[q] \in S
    BY <1>1, <2>2 DEF n
  <2>4. SubSeq(v, f, g) \in Seq(S) /\ SubSeq(u, f, g) \in Seq(S)
    BY <2>2, <2>3, SubSeqProperties
  <2>5. SubSeq(v, f, g) = SubSeq(u, f, g)
    BY <2>2, <2>3, <2>4, SubSeqProperties, SeqEqual
  <2> QED
    BY <2>5 DEF f, g
<1>8. Cut(v, a) = Cut(u, a)
  <2> HIDE DEF LineIn
  <2> QED
    BY <1>7
<1> QED
  BY <1>4, <1>5, <1>8 DEF v, a

\* What is printed is text.
LEMMA LineOutTyped ==
  ASSUME NEW word, NEW name \in Seq(Chars), NEW line \in Seq(Chars)
  PROVE  /\ LineOut(word, name, line) \in Seq(Chars)
         /\ name \o <<":">> \in Seq(Chars) /\ (name \o <<":">>) \o line \in Seq(Chars)
         /\ name \o <<":">> \o line \o <<NewLine>> \in Seq(Chars)
         /\ LineOut(word, name, <<>>) = <<>>
<1> DEFINE shown == name \o <<":">> \o line \o <<NewLine>>
           colon == <<":">>
           end   == <<NewLine>>
           HasWord(l) == \E p \in 1..Len(l) : \E q \in p..Len(l) : SubSeq(l, p, q) = word
<1>1. colon \in Seq(Chars) /\ end \in Seq(Chars)
  BY DEF Chars
<1>2. name \o colon \in Seq(Chars) /\ (name \o colon) \o line \in Seq(Chars) /\ shown \in Seq(Chars)
  <2> HIDE DEF colon, end
  <2> QED
    BY <1>1, ConcatProperties DEF end, colon
<1>3. <<>> \in Seq(Chars) /\ ~HasWord(<<>>)
  OBVIOUS
<1> DEFINE None == <<>>
<1>4. \A l : LineOut(word, name, l) = IF HasWord(l) THEN name \o <<":">> \o l \o <<NewLine>> ELSE None
  BY DEF LineOut
<1>5. LineOut(word, name, <<>>) = None
  <2> HIDE DEF HasWord
  <2> QED
    BY <1>3, <1>4
<1>6. LineOut(word, name, line) = shown \/ LineOut(word, name, line) = None
  BY <1>4, Zenon
<1>7. LineOut(word, name, line) \in Seq(Chars)
  <2> HIDE DEF shown
  <2> QED
    BY <1>2, <1>3, <1>6
<1> QED
  BY <1>2, <1>5, <1>7

\* Of a line more, what is printed lies behind what is printed of the lines before it.
LEMMA TextOutGrows ==
  ASSUME NEW word, NEW name \in Seq(Chars), NEW u \in Seq(Chars), Whole(u),
         NEW line \in Seq(Chars), \A j \in 1..Len(line) : line[j] # NewLine
  PROVE  /\ TextOut(word, name, <<>>) = <<>> /\ TextOut(word, name, u) \in Seq(Chars)
         /\ TextOut(word, name, u \o Append(line, NewLine)) =
              TextOut(word, name, u) \o LineOut(word, name, line)
<1> DEFINE v == u \o Append(line, NewLine)
           c == Len(LinesOf(u))
           f == [l \in 1..(c + 1) |-> LineOut(word, name, LinesOf(v)[l])]
<1>1. NewLine \in Chars
  BY DEF Chars
<1>2. /\ LinesOf(<<>>) = <<>> /\ LinesOf(u) \in Seq(Seq(Chars))
      /\ LinesOf(v) = Append(LinesOf(u), line)
  BY <1>1, LinesAppend
<1>3. TextOut(word, name, <<>>) = <<>>
  <2>1. [l \in 1..0 |-> LineOut(word, name, LinesOf(<<>>)[l])] = <<>>
    OBVIOUS
  <2>2. FlattenSeq(<<>>) = <<>> /\ Len(<<>>) = 0
    BY DEF FlattenSeq
  <2> QED
    BY <1>2, <2>1, <2>2 DEF TextOut
<1> HIDE DEF v
<1> DEFINE SS == Seq(Chars)
           L  == LinesOf(u)
<1>4. /\ c \in Nat /\ Len(LinesOf(v)) = c + 1 /\ LinesOf(v)[c + 1] = line
      /\ \A l \in 1..c : LinesOf(v)[l] = L[l] /\ L[l] \in SS
  <2>1. line \in SS /\ L \in Seq(SS) /\ LinesOf(v) = Append(L, line)
    BY <1>2
  <2> HIDE DEF SS, L
  <2>2. c = Len(L)
    BY DEF L
  <2> QED
    BY <2>1, <2>2, AppendProperties, LenProperties, ElementOfSeq
<1> HIDE DEF c, L
<1>5. ASSUME NEW l \in 1..(c + 1) PROVE f[l] \in Seq(Chars)
  <2>1. LinesOf(v)[l] \in Seq(Chars)
    <3>1. l = c + 1 \/ l \in 1..c
      BY <1>4
    <3> QED
      BY <1>4, <3>1
  <2> QED
    BY <2>1, LineOutTyped
<1>6. /\ FlattenSeq([l \in 1..c |-> f[l]]) \in Seq(Chars)
      /\ FlattenSeq([l \in 1..(c + 1) |-> f[l]]) = FlattenSeq([l \in 1..c |-> f[l]]) \o f[c + 1]
  <2> HIDE DEF f
  <2> QED
    BY <1>4, <1>5, FlattenGrows
<1>7. /\ [l \in 1..(c + 1) |-> f[l]] = [l \in 1..(c + 1) |-> LineOut(word, name, LinesOf(v)[l])]
      /\ [l \in 1..c |-> f[l]] = [l \in 1..c |-> LineOut(word, name, L[l])]
      /\ f[c + 1] = LineOut(word, name, line)
  <2>1. \A l \in 1..c : l \in 1..(c + 1) /\ LinesOf(v)[l] = L[l]
    BY <1>4
  <2>2. c + 1 \in 1..(c + 1)
    BY <1>4
  <2> QED
    BY <1>4, <2>1, <2>2
<1>8. TextOut(word, name, v) = FlattenSeq([l \in 1..(c + 1) |-> f[l]])
  BY <1>4, <1>7 DEF TextOut
<1>9. TextOut(word, name, u) = FlattenSeq([l \in 1..c |-> f[l]])
  BY <1>7 DEF TextOut, L, c
<1> HIDE DEF f
<1> QED
  BY <1>3, <1>6, <1>7, <1>8, <1>9 DEF v

\* The same of a line whose newline is missing, or comes only now.
LEMMA TextOutEnded ==
  ASSUME NEW word, NEW name, NEW u \in Seq(Chars), u # <<>>, u[Len(u)] # NewLine
  PROVE  TextOut(word, name, Append(u, NewLine)) = TextOut(word, name, u)
<1>1. NewLine \in Chars
  BY DEF Chars
<1>2. LinesOf(Append(u, NewLine)) = LinesOf(u)
  BY <1>1, LinesEnded
<1> QED
  BY <1>2 DEF TextOut

\* Of any text, text is printed.
LEMMA TextOutTyped ==
  ASSUME NEW word, NEW name \in Seq(Chars), NEW u \in Seq(Chars)
  PROVE  TextOut(word, name, u) \in Seq(Chars) /\ TextOut(word, name, <<>>) = <<>>
<1>1. \A v \in Seq(Chars) :
        Whole(v) => TextOut(word, name, v) \in Seq(Chars) /\ TextOut(word, name, <<>>) = <<>>
  <2>1. <<>> \in Seq(Chars) /\ \A j \in 1..Len(<<>>) : <<>>[j] # NewLine
    OBVIOUS
  <2> QED
    BY <2>1, TextOutGrows
<1>2. Whole(<<>>) /\ <<>> \in Seq(Chars)
  BY DEF Whole
<1>3. CASE ~Whole(u)
  <2> DEFINE v == Append(u, NewLine)
  <2>1. v \in Seq(Chars) /\ v # <<>> /\ Len(v) = Len(u) + 1 /\ v[Len(u) + 1] = NewLine
    BY AppendProperties DEF Chars
  <2>2. Last(v) = NewLine
    BY <2>1 DEF Last
  <2>3. TextOut(word, name, v) = TextOut(word, name, u)
    BY <1>3, TextOutEnded DEF Whole, Last
  <2> HIDE DEF v
  <2> QED
    BY <1>1, <1>2, <2>1, <2>2, <2>3 DEF Whole
<1> QED
  BY <1>1, <1>2, <1>3

\* A line is printed behind the lines before it, whether its newline is there or not.
LEMMA LineMore ==
  ASSUME NEW word, NEW name \in Seq(Chars), NEW u \in Seq(Chars), NEW line \in Seq(Chars),
         \A j \in 1..Len(line) : line[j] # NewLine, Whole(u) \/ line = <<>>
  PROVE  /\ TextOut(word, name, u \o line) =
              TextOut(word, name, u) \o LineOut(word, name, line)
         /\ TextOut(word, name, Append(u \o line, NewLine)) =
              TextOut(word, name, u) \o LineOut(word, name, line)
<1> DEFINE Out(t) == TextOut(word, name, t)
           o == LineOut(word, name, line)
           g == u \o line
<1>1. Out(u) \in Seq(Chars) /\ LineOut(word, name, <<>>) = <<>>
  BY TextOutTyped, LineOutTyped
<1>2. Append(g, NewLine) = u \o Append(line, NewLine) /\ g \in Seq(Chars)
  <2>1. NewLine \in Chars
    BY DEF Chars
  <2>2. u \in Seq(Chars) /\ line \in Seq(Chars)
    OBVIOUS
  <2>3. u \o Append(line, NewLine) = Append(u \o line, NewLine)
    BY <2>1, <2>2, BehindIt
  <2>4. g \in Seq(Chars)
    BY <2>2, ConcatProperties
  <2> QED
    BY <2>3, <2>4
<1>3. g # <<>> /\ g[Len(g)] # NewLine => Out(Append(g, NewLine)) = Out(g)
  <2> HIDE DEF g
  <2> QED
    BY <1>2, TextOutEnded
<1>4. Whole(u) => Out(u \o Append(line, NewLine)) = Out(u) \o o
  BY TextOutGrows
<1>5. CASE line = <<>>
  <2>1. g = u /\ o = <<>>
    BY <1>1, <1>5, ConcatEmptySeq
  <2>2. Out(u) \o <<>> = Out(u)
    BY <1>1, ConcatEmptySeq
  <2>3. Out(g) = Out(u) \o o
    BY <2>1, <2>2
  <2>4. Out(Append(g, NewLine)) = Out(u) \o o
    <3>1. CASE Whole(u)
      BY <1>2, <1>4, <3>1
    <3>2. CASE ~Whole(u)
      <4>1. u # <<>> /\ u[Len(u)] # NewLine
        BY <3>2 DEF Whole, Last
      <4> HIDE DEF g
      <4> QED
        BY <1>3, <2>1, <2>3, <4>1
    <3> QED
      BY <3>1, <3>2
  <2> QED
    BY <2>3, <2>4
<1>6. CASE line # <<>>
  <2>1. Len(line) \in Nat \ {0} /\ Len(u) \in Nat
    BY <1>6, EmptySeq
  <2>2. /\ Len(g) = Len(u) + Len(line)
        /\ \A j \in 1..(Len(u) + Len(line)) : g[j] = IF j <= Len(u) THEN u[j] ELSE line[j - Len(u)]
    BY ConcatProperties
  <2> HIDE DEF g
  <2>3. /\ Len(g) \in 1..(Len(u) + Len(line)) /\ ~(Len(g) <= Len(u)) /\ Len(g) - Len(u) = Len(line)
        /\ Len(line) \in 1..Len(line)
    BY <2>1, <2>2
  <2>4. g[Len(g)] = line[Len(line)]
    BY <2>2, <2>3
  <2>5. g[Len(g)] # NewLine
    BY <2>3, <2>4
  <2>6. g # <<>>
    BY <2>1, <2>2
  <2>7. Out(Append(g, NewLine)) = Out(g)
    BY <1>3, <2>5, <2>6
  <2>8. Out(Append(g, NewLine)) = Out(u) \o o
    <3> HIDE DEF Out, o
    <3> QED
      BY <1>2, <1>4, <1>6
  <2> QED
    BY <2>7, <2>8 DEF g
<1> QED
  BY <1>5, <1>6

\* A line is searched of which nothing was before: what follows the first d
\* characters, up to the next newline or as far as the text is there.
LineSearched(word, name, text, d, m) ==
  LET line == SubSeq(text, d + 1, d + m)
  IN  /\ line \in Seq(Chars) /\ Len(line) = m /\ \A j \in 1..m : line[j] = text[d + j]
      /\ TextOut(word, name, SubSeq(text, 1, d + m)) =
           TextOut(word, name, SubSeq(text, 1, d)) \o LineOut(word, name, line)
      /\ d + m < Len(text) /\ text[d + m + 1] = NewLine =>
           /\ Clean(text, d + m + 1)
           /\ TextOut(word, name, SubSeq(text, 1, d + m + 1)) =
                TextOut(word, name, SubSeq(text, 1, d)) \o LineOut(word, name, line)

\* What is printed behind what was printed of the text before the line.
LEMMA TextStep ==
  ASSUME NEW word, NEW name \in Seq(Chars), NEW text \in Seq(Chars), NEW d \in Nat, NEW m \in Nat,
         d + m <= Len(text), Clean(text, d), \A j \in 1..m : text[d + j] # NewLine
  PROVE  LineSearched(word, name, text, d, m)
<1> DEFINE line == SubSeq(text, d + 1, d + m)
           u == SubSeq(text, 1, d)
<1>1. Len(text) \in Nat /\ d <= Len(text)
  OBVIOUS
<1>2. /\ u \in Seq(Chars) /\ line \in Seq(Chars) /\ Len(line) = m
      /\ SubSeq(text, 1, d + m) = u \o line
  BY <1>1, NextPart
<1>3. \A j \in 1..m : line[j] = text[d + j] /\ line[j] # NewLine
  <2>1. \A j \in (d + 1)..(d + m) : text[j] \in Chars
    BY <1>1
  <2>2. \A j \in 1..((d + m) - (d + 1) + 1) : line[j] = text[(d + 1) + j - 1]
    BY <2>1, SubSeqProperties
  <2> HIDE DEF line
  <2>3. ASSUME NEW j \in 1..m PROVE line[j] = text[d + j]
    <3>1. j \in 1..((d + m) - (d + 1) + 1) /\ (d + 1) + j - 1 = d + j
      OBVIOUS
    <3> QED
      BY <2>2, <3>1
  <2> QED
    BY <2>3
<1>4. Whole(u) \/ line = <<>>
  <2>1. CASE ~Whole(u)
    <3>1. d = Len(text) \/ text[d + 1] = NewLine
      BY <2>1 DEF Clean
    <3>2. m # 0 => 1 \in 1..m
      OBVIOUS
    <3>3. m = 0
      BY <1>1, <3>1, <3>2
    <3> HIDE DEF line
    <3> QED
      BY <1>2, <3>3
  <2> QED
    BY <2>1
<1>5. d + m < Len(text) /\ text[d + m + 1] = NewLine =>
        /\ SubSeq(text, 1, d + m + 1) = Append(SubSeq(text, 1, d + m), NewLine)
        /\ Clean(text, d + m + 1)
  <2> SUFFICES ASSUME d + m < Len(text), text[d + m + 1] = NewLine
               PROVE  /\ SubSeq(text, 1, d + m + 1) = Append(SubSeq(text, 1, d + m), NewLine)
                      /\ Clean(text, d + m + 1)
    OBVIOUS
  <2> DEFINE g == SubSeq(text, 1, d + m)
  <2>1. d + m \in Nat /\ (d + m) + 1 <= Len(text)
    BY <1>1
  <2>2. SubSeq(text, 1, d + m + 1) = Append(g, text[d + m + 1]) /\ g \in Seq(Chars)
    BY <2>1, Grows
  <2> HIDE DEF g
  <2>3. Last(Append(g, NewLine)) = NewLine
    BY <2>2 DEF Last
  <2> QED
    BY <2>2, <2>3 DEF Clean, Whole, g
<1> HIDE DEF u, line
<1>6. /\ TextOut(word, name, u \o line) =
           TextOut(word, name, u) \o LineOut(word, name, line)
      /\ TextOut(word, name, Append(u \o line, NewLine)) =
           TextOut(word, name, u) \o LineOut(word, name, line)
  BY <1>2, <1>3, <1>4, LineMore
<1> QED
  BY <1>2, <1>3, <1>5, <1>6 DEF u, line, LineSearched

(***************************************************************************)
(* What grep looks for.                                                    *)
(***************************************************************************)
\* Pieces put behind a first one that is not empty are not empty.
LEMMA FlattenFilled ==
  ASSUME NEW S, NEW seqs \in Seq(Seq(S)), seqs # <<>>, seqs[1] # <<>>
  PROVE  FlattenSeq(seqs) # <<>>
<1>1. Len(seqs) \in Nat \ {0} /\ \A n \in 1..Len(seqs) : seqs[n] \in Seq(S)
  BY EmptySeq
<1>2. PICK flat : FlattensInSteps(seqs, flat) /\ FlattenSeq(seqs) = flat[Len(seqs)]
  BY FlattenSteps
<1>3. flat[0] = <<>> /\ \A n \in 1..Len(seqs) : flat[n] = flat[n - 1] \o seqs[n]
  BY <1>2 DEF FlattensInSteps
<1> HIDE DEF FlattensInSteps
<1> DEFINE T == {n \in Nat : n + 1 <= Len(seqs) =>
                               flat[n + 1] \in Seq(S) /\ flat[n + 1] # <<>>}
<1>4. 0 \in T
  <2>1. 1 \in 1..Len(seqs) /\ 1 - 1 = 0 /\ 0 + 1 = 1
    BY <1>1
  <2>2. flat[1] = <<>> \o seqs[1]
    BY <1>3, <2>1
  <2>3. <<>> \o seqs[1] = seqs[1]
    BY <1>1, <2>1, ConcatEmptySeq
  <2> QED
    BY <1>1, <2>1, <2>2, <2>3
<1>5. ASSUME NEW n \in Nat, n \in T PROVE n + 1 \in T
  <2> SUFFICES ASSUME (n + 1) + 1 <= Len(seqs)
               PROVE  flat[(n + 1) + 1] \in Seq(S) /\ flat[(n + 1) + 1] # <<>>
    OBVIOUS
  <2> DEFINE a == flat[n + 1]
             b == seqs[(n + 1) + 1]
  <2>1. (n + 1) + 1 \in 1..Len(seqs) /\ ((n + 1) + 1) - 1 = n + 1
    BY <1>1
  <2>2. a \in Seq(S) /\ a # <<>> /\ b \in Seq(S) /\ flat[(n + 1) + 1] = a \o b
    <3>1. a \in Seq(S) /\ a # <<>>
      BY <1>1, <1>5
    <3>2. b \in Seq(S)
      BY <1>1, <2>1
    <3>3. flat[(n + 1) + 1] = flat[((n + 1) + 1) - 1] \o b
      BY <1>3, <2>1
    <3> QED
      BY <2>1, <3>1, <3>2, <3>3
  <2> HIDE DEF a, b
  <2>3. a \o b \in Seq(S) /\ (a \o b = <<>> <=> a = <<>> /\ b = <<>>)
    BY <2>2, ConcatEqualIffEmpty, ConcatProperties
  <2> QED
    BY <2>2, <2>3
<1>6. Len(seqs) - 1 \in Nat /\ (Len(seqs) - 1) + 1 = Len(seqs)
  BY <1>1
<1> HIDE DEF T
<1>7. Nat \subseteq T
  BY <1>4, <1>5, Induction
<1> QED
  BY <1>1, <1>2, <1>6, <1>7 DEF T

\* The arguments of a command start with no blank, and hold nothing but its characters.
LEMMA ArgsShape ==
  ASSUME NEW S, NEW c \in Seq(S), c # <<>>, \A j \in 1..Len(c) : c[j] # NewLine
  PROVE  args_of(c) \in Seq(S) /\ (args_of(c) # <<>> => args_of(c)[1] # Blank)
<1> DEFINE n == Len(c)
           s == NameStart(c)
           e == NameEnd(c)
           f == Past(c, e, {Blank})
           B == {j \in e..n : c[j] \notin {Blank}}
<1>1. n \in Nat \ {0} /\ c[1] \in S /\ 1 \in 1..(n + 1) /\ \A j \in 1..n : c[j] \in S
  BY EmptySeq
<1>2. s \in 1..(n + 1)
  BY <1>1, PastAppend DEF NameStart
<1>3. e \in 1..(n + 1)
  <2> HIDE DEF s
  <2>1. UpTo(c, s, {Blank, NewLine}) \in s..(n + 1)
    BY <1>1, <1>2, UpToAppend
  <2> QED
    BY <1>2, <2>1 DEF NameEnd, s
<1>4. args_of(c) = SubSeq(c, f, n)
  <2>1. e <= n => c[e] # NewLine
    <3> HIDE DEF e
    <3> QED
      BY <1>3
  <2> QED
    BY <2>1 DEF args_of
<1> HIDE DEF e, s
<1>5. f \in e..(n + 1) /\ f \in B \cup {n + 1}
  <2>1. f \in e..(n + 1)
    BY <1>1, <1>3, PastAppend
  <2>2. f = Min(B \cup {n + 1})
    BY DEF Past
  <2>3. B \in SUBSET (1..n)
    BY <1>3
  <2> HIDE DEF B, f
  <2>4. Min(B \cup {n + 1}) \in B \cup {n + 1}
    BY <1>1, <2>3, FirstGrows
  <2> QED
    BY <2>1, <2>2, <2>4
<1> HIDE DEF f
<1>6. f \in Int /\ n \in Int /\ f >= 1
  BY <1>1, <1>3, <1>5
<1>7. \A j \in f..n : c[j] \in S
  BY <1>1, <1>6
<1>8. /\ SubSeq(c, f, n) \in Seq(S)
      /\ \A j \in 1..(n - f + 1) : SubSeq(c, f, n)[j] = c[f + j - 1]
  BY <1>6, <1>7, SubSeqProperties
<1>9. CASE f <= n
  <2>1. 1 \in 1..(n - f + 1) /\ f + 1 - 1 = f
    BY <1>6, <1>9
  <2>2. SubSeq(c, f, n)[1] = c[f]
    BY <1>8, <2>1
  <2>3. c[f] # Blank
    BY <1>5, <1>6, <1>9
  <2> QED
    BY <1>4, <1>8, <2>2, <2>3
<1>10. CASE ~(f <= n)
  <2>1. SubSeq(c, f, n) = <<>>
    BY <1>6, <1>10, SubSeqEmpty
  <2> QED
    BY <1>4, <1>8, <2>1
<1> QED
  BY <1>9, <1>10

\* The word that grep looks for is not empty, and has no NUL.
LEMMA ArgumentFacts ==
  ASSUME ArgsInv, prog # "shell", args # <<>>
  PROVE  /\ Argument \in Seq(STRING) /\ Len(Argument) \in Nat \ {0}
         /\ \A j \in 1..Len(Argument) : Argument[j] # NUL
<1> DEFINE S == STRING \ {NUL}
           piece == [j \in 1..Len(args) |-> Copied(args, j)]
<1>1. command \in Commands /\ args = args_of(command)
  BY DEF ArgsInv
<1>2. /\ command \in Seq(STRING) /\ command # <<>> /\ Len(args_of(command)) <= BUFSIZE
      /\ \A j \in 1..Len(command) : command[j] \notin {NewLine, NUL}
      /\ BUFSIZE \in Nat
  <2>1. /\ BUFSIZE \in Nat
        /\ \A c \in Commands : /\ c \in Seq(STRING) \ {<<>>} /\ Len(args_of(c)) <= BUFSIZE
                               /\ \A j \in 1..Len(c) : c[j] \notin {NewLine, NUL}
    BY ProgramsAssumption, Zenon
  <2> QED
    BY <1>1, <2>1
<1>3. command \in Seq(S) /\ \A j \in 1..Len(command) : command[j] # NewLine
  <2>1. Len(command) \in Nat /\ \A j \in 1..Len(command) : command[j] \in S
    BY <1>2
  <2>2. command \in [1..Len(command) -> S]
    BY <1>2, <2>1, LenProperties
  <2> QED
    BY <1>2, <2>1, <2>2, SeqDef
<1> HIDE DEF S
<1>4. args \in Seq(S) /\ args[1] # Blank
  BY <1>1, <1>2, <1>3, ArgsShape
<1>5. Len(args) \in Nat \ {0}
  BY <1>4, EmptySeq
<1>6. ASSUME NEW j \in 1..Len(args) PROVE Copied(args, j) \in Seq(S)
  <2>1. args[j] \in S /\ (j < Len(args) => args[j + 1] \in S)
    BY <1>4, <1>5
  <2>2. \A x, y \in S : <<x>> \in Seq(S) /\ <<x, y>> \in Seq(S)
    OBVIOUS
  <2>3. <<>> \in Seq(S)
    OBVIOUS
  <2> QED
    BY <2>1, <2>2, <2>3 DEF Copied
<1>7. piece \in Seq(Seq(S)) /\ Len(piece) = Len(args) /\ piece[1] # <<>>
  <2>1. piece \in Seq(Seq(S)) /\ Len(piece) = Len(args)
    BY <1>5, <1>6
  <2>2. 1 \in 1..Len(args)
    BY <1>5
  <2>3. Copied(args, 1) # <<>>
    BY <1>4 DEF Copied
  <2> QED
    BY <2>1, <2>2, <2>3
<1>8. Argument = FlattenSeq(piece)
  <2>1. syscall_getargs(args, BUFSIZE) = Copy(args)
    BY <1>1, <1>2, <1>4, CopyWhole
  <2> QED
    BY <2>1 DEF Argument, Copy
<1> HIDE DEF piece
<1>9. FlattenSeq(piece) \in Seq(S) /\ FlattenSeq(piece) # <<>>
  <2>1. piece # <<>>
    BY <1>5, <1>7
  <2> QED
    BY <1>7, <2>1, FlattenTyped, FlattenFilled
<1> DEFINE w == FlattenSeq(piece)
<1> HIDE DEF w
<1>10. w \in Seq(STRING) /\ Len(w) \in Nat \ {0} /\ \A j \in 1..Len(w) : w[j] # NUL
  <2>1. w \in Seq(S) /\ w # <<>> /\ S \subseteq STRING
    BY <1>9 DEF w, S
  <2>2. \A j \in 1..Len(w) : w[j] \in S
    BY <2>1
  <2> QED
    BY <2>1, <2>2, EmptySeq, SeqMonotonic DEF S
<1> QED
  BY <1>8, <1>10 DEF w

\* A name of the directory is the name of an entry; what is stored under it is text.
LEMMA ListedStored ==
  /\ \A e \in 1..Len(Listing) : Listing[e] \in Names /\ Listing[e] \in Seq(Chars)
  /\ \A name \in Names : Stored(name) \in Seq(Chars) /\ Len(Stored(name)) \in Nat
<1>1. STRING \subseteq Chars
  BY DEF Chars
<1>2. ASSUME NEW e \in 1..Len(Listing) PROVE Listing[e] \in Names /\ Listing[e] \in Seq(Chars)
  <2>1. Len(Listing) = boot.total_dentries /\ boot.total_dentries \in Nat
    BY ListingTyped, ImageAssumption
  <2>2. e - 1 \in 0..(boot.total_dentries - 1) /\ e \in 1..boot.total_dentries
    BY <2>1
  <2>3. Listing[e] = boot.dentries[e - 1].file_name
    BY <2>2 DEF Listing
  <2>4. Listing[e] \in Seq(STRING)
    BY ListingTyped
  <2> QED
    BY <1>1, <2>2, <2>3, <2>4, SeqMonotonic DEF Names
<1>3. ASSUME NEW name \in Names PROVE Stored(name) \in Seq(Chars) /\ Len(Stored(name)) \in Nat
  <2> DEFINE ops == OpsOf(Dentry(name).type)
  <2>1. /\ ops \in {"rtc", "dir", "file"}
        /\ ops = "rtc" => Stored(name) = <<>>
        /\ ops = "dir" => Stored(name) = FlattenSeq(Listing)
        /\ ops = "file" => /\ Stored(name) = ContentOf(Dentry(name).inode)
                           /\ Dentry(name).inode \in Inodes
    BY StoredBy
  <2>2. FlattenSeq(Listing) \in Seq(STRING)
    BY ListingTyped, FlattenTyped
  <2>3. ops = "file" => ContentOf(Dentry(name).inode) \in Seq(STRING)
    BY <2>1, ContentChars
  <2>4. <<>> \in Seq(STRING)
    OBVIOUS
  <2> HIDE DEF ops
  <2>5. Stored(name) \in Seq(STRING)
    BY <2>1, <2>2, <2>3, <2>4
  <2> QED
    BY <1>1, <2>5, SeqMonotonic, LenProperties
<1> QED
  BY <1>2, <1>3

\* What is printed of an entry lies behind what is printed of the entries before it.
LEMMA EntriesGrow ==
  ASSUME NEW word, NEW n \in Nat, n + 1 <= Len(Listing)
  PROVE  /\ EntriesOut(word, 0) = <<>> /\ EntriesOut(word, n) \in Seq(Chars)
         /\ EntriesOut(word, n + 1) = EntriesOut(word, n) \o EntryOut(word, n + 1)
<1> DEFINE f == [e \in 1..(n + 1) |-> EntryOut(word, e)]
<1>1. EntriesOut(word, 0) = <<>>
  <2>1. [e \in 1..0 |-> EntryOut(word, e)] = <<>>
    OBVIOUS
  <2>2. FlattenSeq(<<>>) = <<>>
    BY DEF FlattenSeq
  <2> QED
    BY <2>1, <2>2 DEF EntriesOut
<1>2. ASSUME NEW e \in 1..(n + 1) PROVE f[e] \in Seq(Chars)
  <2>1. e \in 1..Len(Listing)
    BY ListingTyped
  <2>2. Listing[e] \in Seq(Chars) /\ Stored(Listing[e]) \in Seq(Chars)
    BY <2>1, ListedStored
  <2>3. TextOut(word, Listing[e], Stored(Listing[e])) \in Seq(Chars)
    BY <2>2, TextOutTyped
  <2>4. <<>> \in Seq(Chars)
    OBVIOUS
  <2> QED
    BY <2>3, <2>4 DEF EntryOut
<1>3. /\ FlattenSeq([e \in 1..n |-> f[e]]) \in Seq(Chars)
      /\ FlattenSeq([e \in 1..(n + 1) |-> f[e]]) = FlattenSeq([e \in 1..n |-> f[e]]) \o f[n + 1]
  <2> HIDE DEF f
  <2> QED
    BY <1>2, FlattenGrows
<1>4. /\ [e \in 1..(n + 1) |-> f[e]] = [e \in 1..(n + 1) |-> EntryOut(word, e)]
      /\ [e \in 1..n |-> f[e]] = [e \in 1..n |-> EntryOut(word, e)]
      /\ f[n + 1] = EntryOut(word, n + 1)
  <2>1. \A e \in 1..n : e \in 1..(n + 1)
    OBVIOUS
  <2>2. n + 1 \in 1..(n + 1)
    OBVIOUS
  <2> HIDE DEF EntryOut
  <2> QED
    BY <2>1, <2>2
<1> HIDE DEF f
<1> QED
  BY <1>1, <1>3, <1>4 DEF EntriesOut

(***************************************************************************)
(* grep's descriptors: 2 for the directory, 3 for the entry.               *)
(***************************************************************************)
\* The table, for descriptor 3.
LEMMA Third ==
  ASSUME IInv
  PROVE  /\ 3 \in Fds /\ 3 \in 0..(MAX_NUM_FD - 1) /\ 2 \in Fds
         /\ DOMAIN fd_array = 0..(MAX_NUM_FD - 1) /\ Fds \subseteq DOMAIN fd_array
         /\ MAX_NUM_FD # 3 /\ MAX_NUM_FD # 2
         /\ fd_array[3] \in [ops : {"none", "stdin", "stdout", "rtc", "dir", "file"},
                             inode : Nat, file_pos : Nat, flags : {0, 1}]
         /\ fd_array[2] \in [ops : {"none", "stdin", "stdout", "rtc", "dir", "file"},
                             inode : Nat, file_pos : Nat, flags : {0, 1}]
<1>1. MAX_NUM_FD = 8
  BY ProgramsAssumption, Zenon
<1> QED
  BY <1>1, Bounds DEF Fds, IInv, TypeOK

\* The directory has an entry of its own, which reads as a directory.
LEMMA DotIsDir == <<".">> \in Names /\ OpsOf(Dentry(<<".">>).type) = "dir"
<1>1. Dentry(<<".">>).type = 1 /\ <<".">> \in Names
  BY ProgramsAssumption, Zenon
<1> QED
  BY <1>1 DEF OpsOf

\* The first open takes descriptor 2 and no other.
LEMMA OpenDir ==
  ASSUME IInv, NoneOpen, syscall_open(<<".">>)
  PROVE  /\ UNCHANGED <<pc, out, fate>> /\ ret'.count = 2
         /\ OpenAs(<<".">>)' /\ Entry' = 0 /\ FreeBut({2})'
<1>1. /\ UNCHANGED <<pc, out, fate>>
      /\ ret'.count = 2 /\ OpenAs(<<".">>)' /\ fd_array'[2].file_pos = 0
  BY FirstOpen, DotIsDir
<1>2. PICK f \in Fds : (\E d : fd_array' = [fd_array EXCEPT ![f] = d]) /\ ret'.count = f
  <2>1. ret'.count # -1
    BY <1>1
  <2> QED
    BY <2>1 DEF syscall_open, Returns
<1>3. f = 2
  BY <1>1, <1>2
<1>4. \A g \in Fds : g \notin {2} => fd_array'[g].flags = 0
  BY <1>2, <1>3, Third DEF NoneOpen
<1> QED
  BY <1>1, <1>4 DEF FreeBut, Entry

\* The second one takes descriptor 3.
LEMMA OpenEntry ==
  ASSUME IInv, FreeBut({2}), fd_array[2].flags = 1, NEW name \in Names, syscall_open(name)
  PROVE  /\ UNCHANGED <<pc, out, fate>> /\ ret'.count = 3 /\ fd_array'[2] = fd_array[2]
         /\ FreeBut({2, 3})'
         /\ fd_array'[3] = [ops |-> OpsOf(Dentry(name).type), inode |-> Dentry(name).inode,
                            file_pos |-> 0, flags |-> 1]
<1>1. name # <<>> /\ Exists(name)
  BY NameExists
<1>2. ~InUse(3) /\ 3 \in Fds /\ InUse(2) /\ 2 \in Fds
  BY Third DEF FreeBut, InUse
<1>3. PICK f \in Fds :
        /\ ~InUse(f) /\ \A e \in 2..(f - 1) : InUse(e)
        /\ fd_array' = [fd_array EXCEPT ![f] =
             [ops |-> OpsOf(Dentry(name).type), inode |-> Dentry(name).inode,
              file_pos |-> 0, flags |-> 1]]
        /\ Returns("open", 0, name, 0, f, <<>>)
  BY <1>1, <1>2 DEF syscall_open
<1>4. f = 3
  <2>1. f # 2 /\ f \in Int /\ f >= 2
    BY <1>2, <1>3 DEF Fds
  <2>2. f <= 3
    <3> SUFFICES ASSUME f > 3 PROVE FALSE
      BY <2>1
    <3>1. 3 \in 2..(f - 1)
      BY <2>1
    <3> QED
      BY <1>2, <1>3, <3>1
  <2> QED
    BY <2>1, <2>2
<1>5. UNCHANGED <<pc, out, fate>> /\ ret'.count = 3
  BY <1>3, <1>4 DEF syscall_open, Returns
<1>6. /\ fd_array'[3] = [ops |-> OpsOf(Dentry(name).type), inode |-> Dentry(name).inode,
                         file_pos |-> 0, flags |-> 1]
      /\ \A g \in Fds : g # 3 => fd_array'[g] = fd_array[g]
  BY <1>3, <1>4, Third
<1> QED
  BY <1>2, <1>5, <1>6 DEF FreeBut

\* Closing descriptor 3 leaves the directory open, and nothing else.
LEMMA CloseEntry ==
  ASSUME IInv, FreeBut({2, 3}), fd_array[3].flags = 1, syscall_close(3)
  PROVE  /\ UNCHANGED <<pc, out, fate>> /\ ret'.count = 0 /\ fd_array'[2] = fd_array[2]
         /\ FreeBut({2})'
<1>1. MayClose(3)
  BY Third DEF MayClose, InUse
<1>2. /\ fd_array' = [fd_array EXCEPT ![3] = [@ EXCEPT !.flags = 0, !.inode = 0, !.file_pos = 0]]
      /\ Returns("close", 3, <<>>, 0, 0, <<>>) /\ UNCHANGED <<pc, out, fate>>
  BY <1>1 DEF syscall_close
<1>3. fd_array'[3].flags = 0 /\ \A g \in Fds : g # 3 => fd_array'[g] = fd_array[g]
  BY <1>2, Third
<1> QED
  BY <1>2, <1>3, Third DEF FreeBut, Returns

\* A read of the directory: the next name, or none when every entry was read.
LEMMA NextEntry ==
  ASSUME IInv, OpenAs(<<".">>), FreeBut({2}), Entry <= Len(Listing),
         out = EntriesOut(Argument, Entry), syscall_read(2, FILENAME_MAX_LENGTH), UNCHANGED args
  PROVE  pc' = "user" /\ OpenAs(<<".">>)' /\ FreeBut({2})' /\ GrepAnswered'
<1>1. FILENAME_MAX_LENGTH \in Nat \ {0} /\ Argument' = Argument
  BY ImageAssumption DEF Argument
<1>2. fd_array[2].ops = "dir" /\ Entry \in Nat /\ WithinListing /\ InUse(2)
  BY DotIsDir, Third DEF OpenAs, Entry, WithinListing, InUse
<1>3. FreeBut({2})'
  <2>1. dir_read(2, FILENAME_MAX_LENGTH)
    BY <1>2, Third DEF syscall_read, PastTheTable
  <2>2. UNCHANGED fd_array \/ \E d : fd_array' = [fd_array EXCEPT ![2] = d]
    BY <2>1 DEF dir_read, Answers
  <2>3. \A g \in Fds : g \notin {2} => fd_array'[g] = fd_array[g]
    BY <2>2, Third
  <2> QED
    BY <2>3 DEF FreeBut
<1>4. UNCHANGED out /\ OpenAs(<<".">>)'
  BY <1>1, <1>2, ReadNext
<1>5. CASE pc' = "user" /\ ret'.count = 0 /\ Entry = Len(Listing)
  <2>1. out' = EntriesOut(Argument', Len(Listing))
    BY <1>1, <1>4, <1>5
  <2> QED
    BY <1>3, <1>4, <1>5, <2>1 DEF GrepAnswered
<1>6. CASE /\ pc' = "user" /\ Entry + 1 \in 1..Len(Listing)
           /\ fd_array'[2] = [fd_array[2] EXCEPT !.file_pos = Entry + 1]
           /\ ret'.count \in Nat \ {0} /\ ret'.bytes = Listing[Entry + 1]
  <2>1. Entry' = Entry + 1
    BY <1>6, Third DEF Entry
  <2>2. Entry' - 1 = Entry /\ ret'.count > 0
    BY <1>2, <1>6, <2>1
  <2>3. out' = EntriesOut(Argument', Entry' - 1)
    BY <1>1, <1>4, <2>2
  <2> QED
    BY <1>3, <1>4, <1>6, <2>1, <2>2, <2>3 DEF GrepAnswered
<1> QED
  <2>1. \/ pc' = "user" /\ ret'.count = 0 /\ Entry = Len(Listing)
        \/ /\ pc' = "user" /\ Entry + 1 \in 1..Len(Listing)
           /\ fd_array'[2] = [fd_array[2] EXCEPT !.file_pos = Entry + 1]
           /\ ret'.count \in Nat \ {0} /\ ret'.bytes = Listing[Entry + 1]
    BY <1>1, <1>2, ReadNext DEF Entry
  <2> QED
    BY <1>5, <1>6, <2>1

\* What is open as descriptor 3 is the clock, which has no bytes, or a file.
LEMMA OpenText ==
  ASSUME IInv, fname \in Names, Dentry(fname).type # 1, TextOpen
  PROVE  /\ Pos \in Nat /\ Pos <= Len(Stored(fname)) /\ InUse(3)
         /\ \/ fd_array[3].ops = "rtc" /\ Stored(fname) = <<>>
            \/ /\ fd_array[3].ops = "file" /\ fd_array[3].inode \in Inodes
               /\ Stored(fname) = ContentOf(fd_array[3].inode)
<1>1. fd_array[3].ops = OpsOf(Dentry(fname).type) /\ fd_array[3].inode = Dentry(fname).inode
  BY DEF TextOpen
<1>2. Pos \in Nat /\ Pos <= Len(Stored(fname)) /\ InUse(3)
  BY Third DEF TextOpen, Pos, InUse
<1>3. OpsOf(Dentry(fname).type) # "dir"
  BY DEF OpsOf
<1> QED
  BY <1>1, <1>2, <1>3, StoredBy

\* A read of an entry has an answer at once when it is the clock, or goes on in the
\* loop.
LEMMA TextReads ==
  ASSUME IInv, fname \in Names, Dentry(fname).type # 1, TextOpen,
         NEW n \in Nat \ {0}, syscall_read(3, n)
  PROVE  /\ UNCHANGED <<fd_array, out, fate>>
         /\ \/ pc' = "read_data" /\ fd_read' = 3 /\ length' = n
            \/ pc' = "user" /\ ret'.count = 0 /\ Stored(fname) = <<>>
<1>1. InUse(3) /\ pc = "user" /\ ~PastTheTable(3)
  BY OpenText, Third DEF PastTheTable, syscall_read, Running
<1>2. CASE fd_array[3].ops = "rtc" /\ Stored(fname) = <<>>
  <2>1. Answers(3, n, 0, <<>>)
    BY <1>1, <1>2 DEF syscall_read
  <2> QED
    BY <1>1, <1>2, <2>1 DEF Answers, Returns
<1>3. CASE fd_array[3].ops = "file" /\ fd_array[3].inode \in Inodes
  <2>1. file_read(3, n)
    BY <1>1, <1>3 DEF syscall_read
  <2> QED
    BY <1>3, <2>1 DEF file_read
<1> QED
  BY <1>2, <1>3, OpenText

\* A part of a text lies in a sequence of its own.
LEMMA WindowHolds ==
  ASSUME NEW S, NEW c \in Seq(S), NEW p \in Nat, NEW n \in Nat, p + n <= Len(c)
  PROVE  Holds(SubSeq(c, p + 1, p + n), 1, c, p, n)
<1> DEFINE a == p + 1
           b == p + n
           w == SubSeq(c, a, b)
<1>1. a \in Int /\ b \in Int /\ \A j \in a..b : c[j] \in S
  OBVIOUS
<1>2. \A j \in 1..(b - a + 1) : w[j] = c[a + j - 1]
  <2> HIDE DEF a, b
  <2> QED
    BY <1>1, SubSeqProperties
<1> HIDE DEF w
<1>3. ASSUME NEW j \in 1..n PROVE w[1 + j - 1] = c[p + j]
  <2>1. j \in 1..(b - a + 1) /\ a + j - 1 = p + j /\ 1 + j - 1 = j
    OBVIOUS
  <2> QED
    BY <1>2, <2>1
<1> QED
  BY <1>3 DEF Holds, w

\* The loop returns with the next bytes of the entry, all that was asked for or all
\* there are.
LEMMA TextReturns ==
  ASSUME IInv, fname \in Names, Dentry(fname).type # 1, TextOpen, fd_read = 3, ReadReturns
  PROVE  LET text == Stored(fname)
             left == Len(text) - Pos
         IN  /\ pc' = "user" /\ UNCHANGED <<out, fate>> /\ fd_array'[2] = fd_array[2]
             /\ FreeBut({2, 3})' /\ Pos' = Pos + ret'.count /\ ret'.count \in Nat
             /\ fd_array'[3].flags = 1 /\ fd_array'[3].ops = fd_array[3].ops
             /\ fd_array'[3].inode = fd_array[3].inode
             /\ length \in Nat /\ ret'.count = IF length < left THEN length ELSE left
             /\ Holds(ret'.bytes, 1, text, Pos, ret'.count)
<1> DEFINE ino == fd_array[3].inode
           c == ContentOf(ino)
<1>1. /\ fd_array[3].ops = "file" /\ ino \in Inodes /\ Pos \in Nat /\ i \in Nat /\ length \in Nat
      /\ inode_ptr[ino].length \in Nat /\ Pos + i <= inode_ptr[ino].length
      /\ i = IF length < inode_ptr[ino].length - Pos THEN length ELSE inode_ptr[ino].length - Pos
      /\ buf = SubSeq(c, Pos + 1, Pos + i)
  BY LoopDone DEF ReadReturns, Pos
<1>2. Stored(fname) = c
  BY <1>1, OpenText
<1>3. /\ fd_array' = [fd_array EXCEPT ![3].file_pos = Pos + i]
      /\ ret'.count = i /\ ret'.bytes = buf
      /\ pc' = "user" /\ UNCHANGED <<out, fate>>
  BY DEF ReadReturns, Advanced, Returns, Pos
<1>4. /\ fd_array'[3] = [fd_array[3] EXCEPT !.file_pos = Pos + i]
      /\ \A g \in Fds : g # 3 => fd_array'[g] = fd_array[g]
  BY <1>3, Third
<1>5. /\ fd_array'[3].flags = fd_array[3].flags /\ fd_array'[3].ops = fd_array[3].ops
      /\ fd_array'[3].inode = ino /\ fd_array'[3].file_pos = Pos + i
  BY <1>4, Third
<1>6. fd_array[3].flags = 1 /\ FreeBut({2, 3})' /\ fd_array'[2] = fd_array[2]
  <2>1. 2 # 3 /\ 2 \in Fds
    BY Third
  <2> QED
    BY <1>4, <2>1 DEF TextOpen, FreeBut
<1>7. c \in Seq(STRING) /\ Len(c) = inode_ptr[ino].length
  BY <1>1, ContentChars
<1>8. Holds(buf, 1, c, Pos, i)
  <2> HIDE DEF c, ino
  <2>1. Pos + i <= Len(c)
    BY <1>1, <1>7
  <2>2. Holds(SubSeq(c, Pos + 1, Pos + i), 1, c, Pos, i)
    BY <1>1, <1>7, <2>1, WindowHolds
  <2> QED
    BY <1>1, <2>2
<1>9. Pos' = Pos + i
  BY <1>5 DEF Pos
<1> HIDE DEF c
<1> QED
  BY <1>1, <1>2, <1>3, <1>5, <1>6, <1>7, <1>8, <1>9

(***************************************************************************)
(* grep's buffer.                                                          *)
(***************************************************************************)
\* The least number of a set.
LEMMA LeastIs ==
  ASSUME NEW T, T \subseteq Nat, T # {}
  PROVE  Min(T) \in T /\ \A x \in T : Min(T) <= x
<1>1. \E x \in T : \A y \in T : x <= y
  BY LeastNumber
<1> QED
  BY <1>1 DEF Min

\* A line ends at its newline, or where the buffer is filled to.
LEMMA LineEndFacts ==
  ASSUME line_start \in Nat, last \in Nat, line_start <= last
  PROVE  /\ LineEnd \in line_start..last /\ (LineEnd = last \/ data[LineEnd] = NewLine)
         /\ \A p \in line_start..(LineEnd - 1) : data[p] # NewLine
<1> DEFINE S == {p \in line_start..(last - 1) : data[p] = NewLine} \cup {last}
<1>1. S \subseteq Nat /\ S # {} /\ LineEnd = Min(S)
  BY DEF LineEnd
<1>2. S \subseteq line_start..last
  OBVIOUS
<1>3. LineEnd \in S /\ \A x \in S : LineEnd <= x
  <2> HIDE DEF S
  <2> QED
    BY <1>1, LeastIs
<1>4. LineEnd = last \/ data[LineEnd] = NewLine
  BY <1>3
<1>5. ASSUME NEW p \in line_start..(LineEnd - 1) PROVE data[p] # NewLine
  <2>1. LineEnd \in line_start..last
    BY <1>2, <1>3
  <2>2. p \in line_start..(last - 1) /\ ~(LineEnd <= p)
    BY <2>1
  <2>3. p \notin S
    BY <1>3, <2>2
  <2> QED
    BY <2>2, <2>3
<1> QED
  BY <1>2, <1>3, <1>4, <1>5

\* A string goes as far as its NUL.
LEMMA StrlenIs ==
  ASSUME NEW b, NEW p \in Nat, NEW e \in p..BUFSIZE, b[e] = NUL, \A q \in p..(e - 1) : b[q] # NUL
  PROVE  Strlen(b, p) = e - p
<1> DEFINE T == {q \in p..BUFSIZE : b[q] = NUL}
<1>1. BUFSIZE \in Nat
  BY Sizes
<1>2. T \subseteq Nat /\ e \in T /\ \A q \in T : e <= q
  BY <1>1
<1> HIDE DEF T
<1>3. Min(T) \in T /\ Min(T) <= e /\ e <= Min(T) /\ Min(T) \in Nat /\ e \in Nat
  BY <1>2, LeastIs
<1>4. Min(T) = e
  BY <1>3
<1> QED
  BY <1>4 DEF Strlen, T

\* The line that grep has come to, where n characters of a text without NUL lie in
\* the buffer.
LEMMA LineAtHand ==
  ASSUME NEW text, NEW d \in Nat, NEW n \in Nat, \A j \in 1..n : text[d + j] # NUL,
         line_start \in Nat, last = line_start + n, last <= BUFSIZE, BufferInv,
         Holds(data, line_start, text, d, n)
  PROVE  /\ LineEnd - line_start \in 0..n /\ LineEnd <= BUFSIZE
         /\ \A j \in 1..(LineEnd - line_start) : text[d + j] # NewLine
         /\ LineEnd < last => text[d + (LineEnd - line_start) + 1] = NewLine
         /\ LineEnd < last <=> LineEnd - line_start < n
         /\ DOMAIN Ended = 0..BUFSIZE /\ Ended[LineEnd] = NUL /\ Ended[BUFSIZE] # NewLine
         /\ \A p \in 0..BUFSIZE : p # LineEnd => Ended[p] = data[p]
         /\ Holds(Ended, line_start, text, d, LineEnd - line_start)
         /\ Strlen(Ended, line_start) = LineEnd - line_start
<1> DEFINE m == LineEnd - line_start
<1>1. BUFSIZE \in Nat /\ last \in Nat /\ line_start <= last
  BY Sizes
<1>2. /\ LineEnd \in line_start..last /\ (LineEnd = last \/ data[LineEnd] = NewLine)
      /\ \A p \in line_start..(LineEnd - 1) : data[p] # NewLine
  BY <1>1, LineEndFacts
<1>3. m \in 0..n /\ LineEnd \in 0..BUFSIZE /\ (LineEnd < last <=> m < n) /\ LineEnd = line_start + m
  BY <1>1, <1>2
<1>4. NUL # NewLine
  BY ProgramsAssumption, Zenon
<1>5. \A j \in 1..n : data[line_start + j - 1] = text[d + j]
  BY DEF Holds
<1>6. ASSUME NEW j \in 1..m PROVE text[d + j] # NewLine
  <2>1. j \in 1..n /\ line_start + j - 1 \in line_start..(LineEnd - 1)
    BY <1>1, <1>3
  <2> QED
    BY <1>2, <1>5, <2>1
<1>7. LineEnd < last => text[d + m + 1] = NewLine
  <2>1. ASSUME LineEnd < last PROVE text[d + m + 1] = NewLine
    <3>1. m + 1 \in 1..n /\ line_start + (m + 1) - 1 = LineEnd /\ d + (m + 1) = d + m + 1
      BY <1>1, <1>3, <2>1
    <3>2. data[LineEnd] = NewLine
      BY <1>1, <1>2, <2>1
    <3>3. data[line_start + (m + 1) - 1] = text[d + (m + 1)]
      BY <1>5, <3>1
    <3> QED
      BY <3>1, <3>2, <3>3
  <2> QED
    BY <2>1
<1>8. /\ DOMAIN Ended = 0..BUFSIZE /\ Ended[LineEnd] = NUL
      /\ \A p \in 0..BUFSIZE : p # LineEnd => Ended[p] = data[p]
  <2>1. DOMAIN data = 0..BUFSIZE
    BY DEF BufferInv
  <2> QED
    BY <1>3, <2>1 DEF Ended
<1>9. Ended[BUFSIZE] # NewLine
  <2>1. data[BUFSIZE] # NewLine /\ BUFSIZE \in 0..BUFSIZE
    BY <1>1 DEF BufferInv
  <2> QED
    BY <1>4, <1>8, <2>1
<1>10. ASSUME NEW j \in 1..m
       PROVE  Ended[line_start + j - 1] = text[d + j]
  <2>1. j \in 1..n /\ line_start + j - 1 \in 0..BUFSIZE /\ line_start + j - 1 # LineEnd
    BY <1>1, <1>3
  <2> QED
    BY <1>5, <1>8, <2>1
<1>11. ASSUME NEW q \in line_start..(LineEnd - 1) PROVE Ended[q] # NUL
  <2> DEFINE j == q - line_start + 1
  <2>1. j \in 1..m /\ j \in 1..n /\ line_start + j - 1 = q
    BY <1>1, <1>3
  <2> HIDE DEF j
  <2> QED
    BY <1>10, <2>1
<1>12. Strlen(Ended, line_start) = m
  <2>1. LineEnd \in line_start..BUFSIZE
    BY <1>1, <1>3
  <2> QED
    BY <1>8, <1>11, <2>1, StrlenIs
<1> HIDE DEF m
<1>13. Holds(Ended, line_start, text, d, m)
  BY <1>10 DEF Holds
<1>14. LineEnd <= BUFSIZE
  BY <1>1, <1>3
<1> QED
  BY <1>3, <1>6, <1>7, <1>8, <1>9, <1>12, <1>13, <1>14 DEF m

\* A line that lies in a buffer, up to its NUL, has a word where strncmp finds it.
LEMMA WordFound ==
  ASSUME NEW word \in Seq(STRING), Len(word) \in Nat \ {0}, \A j \in 1..Len(word) : word[j] # NUL,
         NEW line \in Seq(Chars), NEW b, NEW p \in Nat, NEW m \in Nat, Len(line) = m,
         p + m <= BUFSIZE, b[p + m] = NUL, \A j \in 1..m : b[p + j - 1] = line[j]
  PROVE  (\E check \in p..(p + m - 1) : Found(b, check, word)) <=>
           \E x \in 1..Len(line) : \E y \in x..Len(line) : SubSeq(line, x, y) = word
<1>1. BUFSIZE \in Nat /\ word \in Seq(Chars)
  <2>1. STRING \subseteq Chars
    BY DEF Chars
  <2> QED
    BY <2>1, Sizes, SeqMonotonic
<1>2. ASSUME NEW check \in p..(p + m - 1), Found(b, check, word)
      PROVE  \E x \in 1..m : \E y \in x..m : SubSeq(line, x, y) = word
  <2> DEFINE l == Len(word)
             x == check - p + 1
             y == check - p + l
  <2>1. \A j \in 1..l : b[check + j - 1] = word[j]
    BY <1>2 DEF Found
  <2>2. l \in Nat \ {0} /\ x \in 1..m /\ y \in Nat /\ x <= y /\ y - x + 1 = l
    OBVIOUS
  <2>3. y <= m
    <3> SUFFICES ASSUME y > m PROVE FALSE
      BY <2>2
    <3> DEFINE j == p + m - check + 1
    <3>1. j \in 1..l /\ check + j - 1 = p + m
      BY <2>2
    <3> HIDE DEF j
    <3>2. word[j] = NUL
      BY <2>1, <3>1
    <3> QED
      BY <3>1, <3>2
  <2>4. ASSUME NEW j \in 1..l PROVE line[x + j - 1] = word[j]
    <3> DEFINE e == check - p + j
    <3>1. e \in 1..m /\ p + e - 1 = check + j - 1 /\ x + j - 1 = e
      BY <2>2, <2>3
    <3> HIDE DEF e
    <3> QED
      BY <2>1, <3>1
  <2>5. x \in Int /\ y \in Int /\ \A j \in x..y : line[j] \in Chars
    BY <2>2, <2>3
  <2> HIDE DEF x, y, l
  <2>6. /\ SubSeq(line, x, y) \in Seq(Chars) /\ Len(SubSeq(line, x, y)) = l
        /\ \A j \in 1..l : SubSeq(line, x, y)[j] = line[x + j - 1]
    <3>1. /\ SubSeq(line, x, y) \in Seq(Chars)
          /\ Len(SubSeq(line, x, y)) = IF x <= y THEN y - x + 1 ELSE 0
          /\ \A j \in 1..(y - x + 1) : SubSeq(line, x, y)[j] = line[x + j - 1]
      BY <2>5, SubSeqProperties
    <3> QED
      BY <2>2, <3>1
  <2>7. SubSeq(line, x, y) = word
    <3> DEFINE part == SubSeq(line, x, y)
    <3>1. part \in Seq(Chars) /\ Len(part) = Len(word)
      BY <2>6 DEF l
    <3>2. \A j \in 1..Len(word) : part[j] = word[j]
      BY <2>4, <2>6 DEF l
    <3> HIDE DEF part
    <3>3. part = word
      BY <1>1, <3>1, <3>2, SeqEqual
    <3> QED
      BY <3>3 DEF part
  <2>8. y \in x..m
    BY <2>2, <2>3
  <2> QED
    BY <2>2, <2>7, <2>8
<1>3. ASSUME NEW x \in 1..m, NEW y \in x..m, SubSeq(line, x, y) = word
      PROVE  \E check \in p..(p + m - 1) : Found(b, check, word)
  <2> DEFINE check == p + x - 1
  <2>1. x \in Int /\ y \in Int /\ \A j \in x..y : line[j] \in Chars
    OBVIOUS
  <2>2. /\ Len(word) = y - x + 1
        /\ \A j \in 1..(y - x + 1) : word[j] = line[x + j - 1]
    <3>1. /\ Len(SubSeq(line, x, y)) = IF x <= y THEN y - x + 1 ELSE 0
          /\ \A j \in 1..(y - x + 1) : SubSeq(line, x, y)[j] = line[x + j - 1]
      BY <2>1, SubSeqProperties
    <3> QED
      BY <1>3, <3>1
  <2>3. check \in p..(p + m - 1) /\ check + Len(word) <= BUFSIZE
    BY <1>1, <2>2
  <2>4. ASSUME NEW j \in 1..Len(word) PROVE b[check + j - 1] = word[j]
    <3> DEFINE e == x + j - 1
    <3>1. e \in 1..m /\ p + e - 1 = check + j - 1 /\ j \in 1..(y - x + 1)
      BY <2>2
    <3>2. word[j] = line[e]
      BY <2>2, <3>1
    <3> HIDE DEF e
    <3> QED
      BY <3>1, <3>2
  <2>5. Found(b, check, word)
    BY <2>3, <2>4 DEF Found
  <2> QED
    BY <2>3, <2>5
<1> QED
  BY <1>2, <1>3

\* The text that is printed of the line is the line.
LEMMA TextIs ==
  ASSUME NEW line \in Seq(Chars), NEW b, NEW p \in Nat, Strlen(b, p) = Len(line),
         \A j \in 1..Len(line) : b[p + j - 1] = line[j]
  PROVE  Text(b, p) = line
<1>1. Len(line) \in Nat /\ line = [j \in 1..Len(line) |-> line[j]]
  OBVIOUS
<1>2. Text(b, p) = [j \in 1..Len(line) |-> b[p + j - 1]]
  BY DEF Text
<1> QED
  BY <1>1, <1>2

\* Two texts that are shown as they are, one behind the other.
LEMMA PlainConcat ==
  ASSUME NEW S, NEW a \in Seq(S), NEW b \in Seq(S), Shown(a) = a, Shown(b) = b
  PROVE  a \o b \in Seq(S) /\ Shown(a \o b) = a \o b
<1>1. a \o b \in Seq(S)
  BY ConcatProperties
<1>2. Shown(a \o b) = Shown(a) \o Shown(b)
  BY ShownConcat
<1> QED
  BY <1>1, <1>2

\* A printed line is shown as it is.
LEMMA LineShown ==
  ASSUME NEW name \in Seq(Chars), NEW line \in Seq(Chars),
         \A j \in 1..Len(name) : name[j] # NUL, \A j \in 1..Len(line) : line[j] # NUL
  PROVE  LET shown == name \o <<":">> \o line \o <<NewLine>>
         IN  Shown(shown) = shown /\ Len(shown) \in Nat
<1> DEFINE colon == <<":">>
           end == <<NewLine>>
           shown == name \o colon \o line \o end
<1>1. NUL # ":" /\ NUL # NewLine
  BY ProgramsAssumption, Zenon
<1>2. /\ colon \in Seq(Chars) /\ Len(colon) = 1 /\ colon[1] = ":"
      /\ end \in Seq(Chars) /\ Len(end) = 1 /\ end[1] = NewLine
  BY DEF Chars
<1>3. \A j \in 1..Len(colon) : colon[j] # NUL
  <2>1. \A j \in 1..Len(colon) : j = 1
    BY <1>2
  <2> QED
    BY <1>1, <1>2, <2>1
<1>4. \A j \in 1..Len(end) : end[j] # NUL
  <2>1. \A j \in 1..Len(end) : j = 1
    BY <1>2
  <2> QED
    BY <1>1, <1>2, <2>1
<1> HIDE DEF colon, end
<1>5. Shown(name) = name /\ Shown(line) = line
  BY ShownPlain
<1>6. Shown(colon) = colon /\ Shown(end) = end
  BY <1>2, <1>3, <1>4, ShownPlain
<1> DEFINE a == name \o colon
           b == a \o line
<1>7. a \in Seq(Chars) /\ Shown(a) = a
  BY <1>2, <1>5, <1>6, PlainConcat
<1> HIDE DEF a
<1>8. b \in Seq(Chars) /\ Shown(b) = b
  BY <1>5, <1>7, PlainConcat
<1> HIDE DEF b
<1>9. Shown(b \o end) = b \o end /\ b \o end \in Seq(Chars)
  BY <1>2, <1>6, <1>8, PlainConcat
<1>10. Len(b \o end) \in Nat
  BY <1>9, LenProperties
<1> QED
  BY <1>9, <1>10 DEF a, b, colon, end

(***************************************************************************)
(* grep's steps.                                                           *)
(***************************************************************************)
\* What grep knows of the entry it has come to, and of what is stored there.
LEMMA EntryFacts ==
  ASSUME OnEntry
  PROVE  /\ fname \in Names /\ fname \in Seq(Chars) /\ \A j \in 1..Len(fname) : fname[j] # NUL
         /\ Stored(fname) \in Seq(Chars) /\ Len(Stored(fname)) \in Nat
         /\ Entry \in Nat /\ Entry - 1 \in Nat /\ (Entry - 1) + 1 = Entry
         /\ EntriesOut(Argument, Entry - 1) \in Seq(Chars)
         /\ EntriesOut(Argument, Entry) =
              EntriesOut(Argument, Entry - 1) \o TextOut(Argument, fname, Stored(fname))
<1>1. Entry \in 1..Len(Listing) /\ fname = Listing[Entry] /\ fname[1] # "."
  BY DEF OnEntry
<1>2. fname \in Names /\ fname \in Seq(Chars) /\ \A j \in 1..Len(fname) : fname[j] # NUL
  BY <1>1, ListedStored, ListingTyped
<1>3. Stored(fname) \in Seq(Chars) /\ Len(Stored(fname)) \in Nat
  BY <1>2, ListedStored
<1>4. Entry \in Nat /\ Entry - 1 \in Nat /\ (Entry - 1) + 1 = Entry /\ (Entry - 1) + 1 <= Len(Listing)
  BY <1>1, ListingTyped
<1>5. /\ EntriesOut(Argument, Entry - 1) \in Seq(Chars)
      /\ EntriesOut(Argument, (Entry - 1) + 1) =
           EntriesOut(Argument, Entry - 1) \o EntryOut(Argument, (Entry - 1) + 1)
  BY <1>4, EntriesGrow
<1>6. EntryOut(Argument, Entry) = TextOut(Argument, fname, Stored(fname))
  BY <1>1 DEF EntryOut
<1>7. EntriesOut(Argument, Entry) =
        EntriesOut(Argument, Entry - 1) \o TextOut(Argument, fname, Stored(fname))
  BY <1>4, <1>5, <1>6
<1> QED
  BY <1>2, <1>3, <1>4, <1>5, <1>7

\* What grep is for, said of the entry it has come to.
LEMMA EntryIsText ==
  ASSUME TextFiles, OnEntry
  PROVE  /\ Dentry(fname).type # 1
         /\ \A p \in 1..Len(Stored(fname)) : Stored(fname)[p] # NUL
         /\ \A p \in 1..(Len(Stored(fname)) - BUFSIZE) :
              \E q \in p..(p + BUFSIZE) : Stored(fname)[q] = NewLine
<1>1. fname \in Names /\ fname[1] # "."
  BY EntryFacts DEF OnEntry
<1> QED
  BY <1>1 DEF TextFiles

\* What was searched stays so while nothing is shown and the entry is the same.
LEMMA StaysSearched ==
  ASSUME UNCHANGED <<fname, args, out>>, fd_array'[2] = fd_array[2], OnEntry,
         NEW d \in 0..Pos, Searched(d), Pos' \in Nat, Pos <= Pos', Pos \in Nat
  PROVE  OnEntry' /\ d \in 0..Pos' /\ Searched(d)' /\ Argument' = Argument /\ Entry' = Entry
<1>1. Entry' = Entry /\ Argument' = Argument
  BY DEF Entry, Argument
<1>2. OnEntry'
  BY <1>1 DEF OnEntry, OpenAs
<1>3. d \in 0..Pos'
  OBVIOUS
<1>4. Stored(fname)' = Stored(fname)
  BY DEF Stored
<1>5. Searched(d)'
  BY <1>1, <1>3, <1>4 DEF Searched
<1> QED
  BY <1>1, <1>2, <1>3, <1>5

\* do_one_file reads on behind the characters that are left to search.
LEMMA ReadsOn ==
  ASSUME IInv, TextFiles, OnEntry, TextOpen, dir_fd = 2, NEW d \in 0..Pos, Searched(d),
         last' = Pos - d, last' < BUFSIZE, Holds(data', 0, Stored(fname), d, last'),
         syscall_read(3, BUFSIZE - last'), label' = "chunk", fd' = 3,
         UNCHANGED <<dir_fd, fname, args>>
  PROVE  GrepPlaces'
<1> DEFINE n == BUFSIZE - last'
<1>1. BUFSIZE \in Nat \ {0} /\ Pos \in Nat /\ Pos <= Len(Stored(fname))
  BY Sizes, OpenText, EntryFacts, EntryIsText
<1>2. n \in Nat \ {0} /\ last' \in Nat
  BY <1>1
<1>3. /\ UNCHANGED <<fd_array, out, fate>>
      /\ \/ pc' = "read_data" /\ fd_read' = 3 /\ length' = n
         \/ pc' = "user" /\ ret'.count = 0 /\ Stored(fname) = <<>>
  <2> HIDE DEF n
  <2>1. syscall_read(3, n)
    BY DEF n
  <2> QED
    BY <1>2, <2>1, EntryFacts, EntryIsText, TextReads
<1>4. Pos' = Pos /\ Stored(fname)' = Stored(fname)
  BY <1>3 DEF Pos, Stored
<1>5. OnEntry' /\ d \in 0..Pos' /\ Searched(d)'
  BY <1>1, <1>3, <1>4, StaysSearched
<1>6. TextOpen'
  BY <1>3, <1>4 DEF TextOpen, FreeBut
<1>7. CASE pc' = "read_data" /\ fd_read' = 3 /\ length' = n
  <2>1. ReadingPlace'
    BY <1>4, <1>5, <1>7 DEF ReadingPlace, Holds
  <2> QED
    BY <1>5, <1>6, <1>7, <2>1 DEF GrepPlaces
<1>8. CASE pc' = "user" /\ ret'.count = 0 /\ Stored(fname) = <<>>
  <2>1. Len(Stored(fname)) = 0
    BY <1>8
  <2>2. Pos = 0 /\ d = 0 /\ last' = 0
    BY <1>1, <2>1
  <2>3. AtEndOfText'
    BY <1>4, <2>1, <2>2 DEF AtEndOfText
  <2>4. ret'.count \in Nat /\ Pos' = d + last' + ret'.count /\ last' + ret'.count <= BUFSIZE
    BY <1>1, <1>4, <1>8, <2>2
  <2>5. \A j \in 1..last' : FALSE
    BY <2>2
  <2>6. \A j \in 1..ret'.count : FALSE
    BY <1>8
  <2>7. ChunkPlace'
    BY <1>2, <1>5, <2>3, <2>4, <2>5, <2>6 DEF ChunkPlace, Holds
  <2> QED
    BY <1>5, <1>6, <1>8, <2>7 DEF GrepPlaces
<1> QED
  BY <1>3, <1>7, <1>8

\* grep opens the directory.
LEMMA GrepBegins ==
  ASSUME IInv, GrepPlaces, args # <<>>, GrepBegin
  PROVE  GrepPlaces'
<1>1. label = "start" /\ pc = "user" /\ syscall_open(<<".">>) /\ label' = "opened"
  BY DEF GrepBegin, At, Running, Goto
<1>2. NoneOpen /\ out = <<>>
  BY <1>1 DEF GrepPlaces, Fresh
<1>3. /\ UNCHANGED <<pc, out, fate>> /\ ret'.count = 2
      /\ OpenAs(<<".">>)' /\ Entry' = 0 /\ FreeBut({2})'
  BY <1>1, <1>2, OpenDir
<1> QED
  BY <1>1, <1>2, <1>3 DEF GrepPlaces

\* It reads the first entry, and the next one when it has closed the last.
LEMMA GrepReadsOn ==
  ASSUME IInv, GrepPlaces, args' = args, GrepOpened \/ GrepClosed
  PROVE  GrepPlaces'
<1>1. /\ pc = "user" /\ OpenAs(<<".">>) /\ FreeBut({2}) /\ Entry <= Len(Listing)
      /\ out = EntriesOut(Argument, Entry) /\ dir_fd' = 2 /\ label' = "entry"
      /\ syscall_read(2, FILENAME_MAX_LENGTH)
  <2>1. CASE GrepOpened
    <3>1. label = "opened"
      BY <2>1 DEF GrepOpened, At
    <3>2. out = <<>> /\ FreeBut({2}) /\ ret.count = 2 /\ OpenAs(<<".">>) /\ Entry = 0 /\ pc = "user"
      BY <3>1 DEF GrepPlaces
    <3>3. dir_fd' = 2 /\ label' = "entry" /\ syscall_read(2, FILENAME_MAX_LENGTH)
      BY <2>1, <3>2 DEF GrepOpened, Goto
    <3>4. 0 \in Nat /\ 0 + 1 <= Len(Listing)
      BY ListingTyped
    <3>5. EntriesOut(Argument, 0) = <<>>
      BY <3>4, EntriesGrow
    <3> QED
      BY <3>2, <3>3, <3>4, <3>5
  <2>2. CASE GrepClosed
    <3>1. label = "closed"
      BY <2>2 DEF GrepClosed, At
    <3>2. /\ dir_fd = 2 /\ OnEntry /\ FreeBut({2}) /\ pc = "user"
          /\ ret.count = 0 /\ out = EntriesOut(Argument, Entry)
      BY <3>1 DEF GrepPlaces
    <3>3. dir_fd' = 2 /\ label' = "entry" /\ syscall_read(2, FILENAME_MAX_LENGTH)
      BY <2>2, <3>2 DEF GrepClosed, Goto, own
    <3>4. Entry <= Len(Listing) /\ OpenAs(<<".">>)
      BY <3>2, ListingTyped DEF OnEntry
    <3> QED
      BY <3>2, <3>3, <3>4
  <2> QED
    BY <2>1, <2>2
<1>2. pc' = "user" /\ OpenAs(<<".">>)' /\ FreeBut({2})' /\ GrepAnswered'
  BY <1>1, NextEntry
<1> QED
  BY <1>1, <1>2 DEF GrepPlaces

\* It comes to its end behind the last entry, passes over the directory, and opens
\* any other entry.
LEMMA GrepTakes ==
  ASSUME IInv, GrepPlaces, args' = args, GrepEntry
  PROVE  GrepPlaces'
<1>1. label = "entry"
  BY DEF GrepEntry, At
<1>2. pc = "user" /\ dir_fd = 2 /\ FreeBut({2}) /\ OpenAs(<<".">>) /\ GrepAnswered
  BY <1>1 DEF GrepPlaces
<1>3. dir_fd' = 2 /\ Argument' = Argument
  BY <1>2 DEF GrepEntry, Argument
<1>4. CASE ret.count = 0
  <2>1. out = EntriesOut(Argument, Len(Listing))
    BY <1>2, <1>4 DEF GrepAnswered
  <2>2. label' = "exit" /\ status' = 0 /\ UNCHANGED <<pc, out>>
    BY <1>4 DEF GrepEntry, Exit, syscall_halt
  <2> QED
    BY <1>2, <1>3, <2>1, <2>2 DEF GrepPlaces
<1>5. CASE ret.count # 0
  <2>1. /\ Entry \in 1..Len(Listing) /\ out = EntriesOut(Argument, Entry - 1)
        /\ ret.count > 0 /\ ret.bytes = Listing[Entry]
    BY <1>2, <1>5 DEF GrepAnswered
  <2>2. ret.count # -1
    BY <2>1 DEF IInv, TypeOK
  <2>3. /\ Entry - 1 \in Nat /\ Entry - 1 + 1 = Entry /\ Entry - 1 + 1 <= Len(Listing)
        /\ Entry <= Len(Listing)
    BY <2>1, ListingTyped
  <2>4. CASE ret.bytes[1] = "."
    <3>1. syscall_read(2, FILENAME_MAX_LENGTH) /\ label' = "entry"
      BY <1>2, <1>5, <2>2, <2>4 DEF GrepEntry, Goto
    <3>2. /\ EntriesOut(Argument, Entry - 1) \in Seq(Chars)
          /\ EntriesOut(Argument, Entry - 1 + 1) =
               EntriesOut(Argument, Entry - 1) \o EntryOut(Argument, Entry - 1 + 1)
      BY <2>3, EntriesGrow
    <3>3. EntryOut(Argument, Entry) = <<>>
      BY <2>1, <2>4 DEF EntryOut
    <3>4. EntriesOut(Argument, Entry - 1) \o <<>> = EntriesOut(Argument, Entry - 1)
      BY <3>2, ConcatEmptySeq
    <3>5. out = EntriesOut(Argument, Entry)
      BY <2>1, <2>3, <3>2, <3>3, <3>4
    <3>6. pc' = "user" /\ OpenAs(<<".">>)' /\ FreeBut({2})' /\ GrepAnswered'
      BY <1>2, <2>3, <3>1, <3>5, NextEntry
    <3> QED
      BY <1>3, <3>1, <3>6 DEF GrepPlaces
  <2>5. CASE ret.bytes[1] # "."
    <3> DEFINE name == Listing[Entry]
    <3>1. syscall_open(name) /\ fname' = name /\ label' = "file" /\ name[1] # "."
      BY <1>5, <2>1, <2>2, <2>5 DEF GrepEntry, Goto
    <3>2. name \in Names /\ Len(Stored(name)) \in Nat
      BY <2>1, ListedStored
    <3> HIDE DEF name
    <3>3. fd_array[2].flags = 1
      BY <1>2 DEF OpenAs
    <3>4. /\ UNCHANGED <<pc, out, fate>> /\ ret'.count = 3 /\ fd_array'[2] = fd_array[2]
          /\ FreeBut({2, 3})'
          /\ fd_array'[3] = [ops |-> OpsOf(Dentry(name).type), inode |-> Dentry(name).inode,
                             file_pos |-> 0, flags |-> 1]
      BY <1>2, <3>1, <3>2, <3>3, OpenEntry
    <3>5. Entry' = Entry
      BY <3>4 DEF Entry
    <3>6. OnEntry'
      BY <1>2, <2>1, <3>1, <3>4, <3>5 DEF OnEntry, OpenAs, name
    <3>7. Pos' = 0
      BY <3>4 DEF Pos
    <3>8. TextOpen'
      BY <3>1, <3>2, <3>4, <3>7 DEF TextOpen
    <3>9. out' = EntriesOut(Argument', Entry' - 1)
      BY <1>3, <2>1, <3>4, <3>5
    <3> QED
      BY <1>2, <1>3, <3>1, <3>4, <3>6, <3>7, <3>8, <3>9 DEF GrepPlaces
  <2> QED
    BY <2>4, <2>5
<1> QED
  BY <1>4, <1>5

\* It reads the first part of an entry.
LEMMA GrepOpens ==
  ASSUME IInv, TextFiles, GrepPlaces, args' = args, GrepFile
  PROVE  GrepPlaces'
<1>1. label = "file"
  BY DEF GrepFile, At
<1>2. /\ dir_fd = 2 /\ OnEntry /\ ret.count = 3 /\ TextOpen /\ Pos = 0
      /\ out = EntriesOut(Argument, Entry - 1)
  BY <1>1 DEF GrepPlaces
<1>3. /\ fd' = 3 /\ last' = 0 /\ syscall_read(3, BUFSIZE) /\ label' = "chunk"
      /\ UNCHANGED <<dir_fd, fname, data>>
  BY <1>2 DEF GrepFile, Goto
<1>4. /\ Stored(fname) \in Seq(Chars) /\ fname \in Seq(Chars)
      /\ EntriesOut(Argument, Entry - 1) \in Seq(Chars) /\ Len(Stored(fname)) \in Nat
  BY <1>2, EntryFacts
<1>5. SubSeq(Stored(fname), 1, 0) = <<>> /\ TextOut(Argument, fname, <<>>) = <<>>
  BY <1>4, SubSeqEmpty, TextOutTyped
<1>6. Clean(Stored(fname), 0)
  BY <1>5 DEF Clean, Whole
<1>7. EntriesOut(Argument, Entry - 1) \o <<>> = EntriesOut(Argument, Entry - 1)
  BY <1>4, ConcatEmptySeq
<1>8. Searched(0) /\ 0 \in 0..Pos
  <2>1. TextOut(Argument, fname, SubSeq(Stored(fname), 1, 0)) = <<>>
    BY <1>5
  <2>2. 0 \in 0..Pos
    BY <1>2
  <2> DEFINE done == EntriesOut(Argument, Entry - 1)
             shown == TextOut(Argument, fname, SubSeq(Stored(fname), 1, 0))
  <2>3. out = done \o shown
    <3>1. out = done /\ shown = <<>> /\ done \o <<>> = done
      BY <1>2, <1>7, <2>1
    <3> HIDE DEF done, shown
    <3> QED
      BY <3>1
  <2> QED
    BY <1>6, <2>2, <2>3 DEF Searched
<1>9. BUFSIZE \in Nat \ {0}
  BY Sizes
<1>10. last' = Pos - 0 /\ last' < BUFSIZE /\ syscall_read(3, BUFSIZE - last')
  BY <1>2, <1>3, <1>9
<1>11. Holds(data', 0, Stored(fname), 0, last')
  BY <1>3 DEF Holds
<1> QED
  BY <1>2, <1>3, <1>8, <1>10, <1>11, ReadsOn

\* A place in the middle of an entry is kept while nothing is called.
LEMMA SameEntry ==
  ASSUME IInv, TextFiles, UNCHANGED <<vars, dir_fd, fd, fname, args>>, OnEntry, TextOpen,
         NEW d \in 0..Pos, Searched(d)
  PROVE  /\ OnEntry' /\ TextOpen' /\ d \in 0..Pos' /\ Searched(d)' /\ Pos' = Pos
         /\ Stored(fname)' = Stored(fname) /\ (AtEndOfText => AtEndOfText')
<1>1. UNCHANGED <<fd_array, out>> /\ Pos \in Nat
  BY OpenText, EntryFacts, EntryIsText DEF vars
<1>2. Pos' = Pos /\ Stored(fname)' = Stored(fname)
  BY <1>1 DEF Pos, Stored
<1>3. OnEntry' /\ d \in 0..Pos' /\ Searched(d)'
  BY <1>1, <1>2, StaysSearched
<1> QED
  BY <1>1, <1>2, <1>3 DEF TextOpen, FreeBut, AtEndOfText

\* A part that was read lies behind what was left of the one before.
LEMMA GrepTakesChunk ==
  ASSUME IInv, TextFiles, BufferInv, GrepPlaces, args' = args, GrepChunk
  PROVE  BufferInv' /\ GrepPlaces'
<1>1. label = "chunk" /\ pc = "user"
  BY DEF GrepChunk, At, Running
<1>2. dir_fd = 2 /\ fd = 3 /\ OnEntry /\ TextOpen /\ ChunkPlace
  BY <1>1 DEF GrepPlaces
<1>3. PICK d \in 0..Pos :
             /\ Searched(d) /\ last \in Nat /\ last < BUFSIZE /\ ret.count \in Nat
             /\ Pos = d + last + ret.count /\ last + ret.count <= BUFSIZE
             /\ last + ret.count < BUFSIZE => AtEndOfText
             /\ Holds(data, 0, Stored(fname), d, last)
             /\ Holds(ret.bytes, 1, Stored(fname), d + last, ret.count)
  BY <1>2 DEF ChunkPlace
<1>4. BUFSIZE \in Nat /\ Pos \in Nat /\ ret.count # -1 /\ d \in Nat
  BY <1>2, <1>3, Sizes, OpenText, EntryFacts, EntryIsText
<1>5. /\ data' = [p \in 0..BUFSIZE |-> IF p \in last..(last + ret.count - 1)
                                       THEN ret.bytes[p - last + 1] ELSE data[p]]
      /\ last' = last + ret.count /\ cnt' = ret.count /\ line_start' = 0
      /\ label' = "line" /\ UNCHANGED <<vars, dir_fd, fd, fname>>
  BY <1>4 DEF GrepChunk, Goto
<1>6. pc' = "user"
  BY <1>1, <1>5 DEF vars
<1>7. BufferInv'
  <2>1. DOMAIN data' = 0..BUFSIZE
    BY <1>5
  <2>2. BUFSIZE \in 0..BUFSIZE /\ BUFSIZE \notin last..(last + ret.count - 1)
    BY <1>3, <1>4
  <2>3. data'[BUFSIZE] = data[BUFSIZE]
    BY <1>5, <2>2
  <2> QED
    BY <2>1, <2>3 DEF BufferInv
<1>8. /\ OnEntry' /\ TextOpen' /\ d \in 0..Pos' /\ Searched(d)' /\ Pos' = Pos
      /\ Stored(fname)' = Stored(fname) /\ (AtEndOfText => AtEndOfText')
  BY <1>2, <1>3, <1>5, SameEntry
<1>9. ASSUME NEW j \in 1..(Pos - d) PROVE data'[0 + j - 1] = Stored(fname)[d + j]
  <2>1. j - 1 \in 0..BUFSIZE /\ 0 + j - 1 = j - 1 /\ 1 <= j /\ j <= last + ret.count
    BY <1>3, <1>4
  <2>2. CASE j <= last
    <3>1. j \in 1..last /\ j - 1 \notin last..(last + ret.count - 1)
      BY <1>3, <2>1, <2>2
    <3>2. data'[j - 1] = data[j - 1]
      BY <1>5, <2>1, <3>1
    <3>3. data[0 + j - 1] = Stored(fname)[d + j]
      BY <1>3, <3>1 DEF Holds
    <3> QED
      BY <2>1, <3>2, <3>3
  <2>3. CASE j > last
    <3> DEFINE e == j - last
    <3>1. e \in 1..ret.count /\ j - 1 \in last..(last + ret.count - 1) /\ (j - 1) - last + 1 = e
      BY <1>3, <2>1, <2>3
    <3>2. 1 + e - 1 = e /\ d + last + e = d + j
      BY <1>3, <1>4, <2>3
    <3> HIDE DEF e
    <3>3. data'[j - 1] = ret.bytes[e]
      BY <1>5, <2>1, <3>1
    <3>4. ret.bytes[1 + e - 1] = Stored(fname)[d + last + e]
      BY <1>3, <3>1 DEF Holds
    <3> QED
      BY <2>1, <3>2, <3>3, <3>4
  <2> QED
    BY <1>3, <2>1, <2>2, <2>3
<1>10. LinePlace'
  <2>1. /\ line_start' \in Nat /\ last' \in Nat /\ last' - line_start' = Pos' - d /\ last' <= BUFSIZE
        /\ (last' < BUFSIZE \/ cnt' = 0 => AtEndOfText')
    <3>1. line_start' \in Nat /\ last' \in Nat /\ last' <= BUFSIZE
      BY <1>3, <1>5
    <3>2. last' - line_start' = Pos' - d
      BY <1>3, <1>4, <1>5, <1>8
    <3>3. last' < BUFSIZE \/ cnt' = 0 => last + ret.count < BUFSIZE
      BY <1>3, <1>4, <1>5
    <3> QED
      BY <1>3, <1>8, <3>1, <3>2, <3>3
  <2>2. Holds(data', line_start', Stored(fname)', d, Pos' - d)
    BY <1>5, <1>8, <1>9 DEF Holds
  <2> QED
    BY <1>8, <2>1, <2>2 DEF LinePlace
<1> QED
  BY <1>2, <1>5, <1>6, <1>7, <1>8, <1>10 DEF GrepPlaces

\* What is known of the line that grep has come to.
LEMMA AtLine ==
  ASSUME IInv, TextFiles, BufferInv, GrepPlaces, label = "line"
  PROVE  /\ pc = "user" /\ dir_fd = 2 /\ fd = 3 /\ OnEntry /\ TextOpen
         /\ \E d \in 0..Pos :
              LET n == Pos - d
                  m == LineEnd - line_start
              IN  /\ d \in Nat /\ n \in Nat /\ Searched(d) /\ line_start \in Nat /\ last \in Nat
                  /\ last = line_start + n /\ last <= BUFSIZE
                  /\ last < BUFSIZE \/ cnt = 0 => AtEndOfText
                  /\ Holds(data, line_start, Stored(fname), d, n)
                  /\ m \in 0..n /\ LineEnd <= BUFSIZE /\ LineEnd = line_start + m
                  /\ \A j \in 1..m : Stored(fname)[d + j] # NewLine
                  /\ LineEnd < last => Stored(fname)[d + m + 1] = NewLine
                  /\ LineEnd < last <=> m < n
                  /\ DOMAIN Ended = 0..BUFSIZE /\ Ended[LineEnd] = NUL /\ Ended[BUFSIZE] # NewLine
                  /\ \A p \in 0..BUFSIZE : p # LineEnd => Ended[p] = data[p]
                  /\ Holds(Ended, line_start, Stored(fname), d, m)
                  /\ Strlen(Ended, line_start) = m
                  /\ LineEnd = last \/ data[LineEnd] = NewLine
<1>1. pc = "user" /\ dir_fd = 2 /\ fd = 3 /\ OnEntry /\ TextOpen /\ LinePlace
  BY DEF GrepPlaces
<1>2. PICK d \in 0..Pos :
        /\ Searched(d) /\ line_start \in Nat /\ last \in Nat
        /\ last - line_start = Pos - d /\ last <= BUFSIZE
        /\ last < BUFSIZE \/ cnt = 0 => AtEndOfText
        /\ Holds(data, line_start, Stored(fname), d, Pos - d)
  BY <1>1 DEF LinePlace
<1>3. /\ Pos \in Nat /\ Pos <= Len(Stored(fname)) /\ Len(Stored(fname)) \in Nat
      /\ \A p \in 1..Len(Stored(fname)) : Stored(fname)[p] # NUL
  BY <1>1, OpenText, EntryFacts, EntryIsText
<1> DEFINE n == Pos - d
<1>4. d \in Nat /\ n \in Nat /\ last = line_start + n
  BY <1>2, <1>3
<1>5. \A j \in 1..n : Stored(fname)[d + j] # NUL
  <2>1. \A j \in 1..n : d + j \in 1..Len(Stored(fname))
    BY <1>3, <1>4
  <2> QED
    BY <1>3, <2>1
<1>6. Holds(data, line_start, Stored(fname), d, n)
  BY <1>2
<1> DEFINE text == Stored(fname)
<1> HIDE DEF n, text
<1>7. /\ LineEnd - line_start \in 0..n /\ LineEnd <= BUFSIZE
      /\ \A j \in 1..(LineEnd - line_start) : text[d + j] # NewLine
      /\ LineEnd < last => text[d + (LineEnd - line_start) + 1] = NewLine
      /\ LineEnd < last <=> LineEnd - line_start < n
      /\ DOMAIN Ended = 0..BUFSIZE /\ Ended[LineEnd] = NUL /\ Ended[BUFSIZE] # NewLine
      /\ \A p \in 0..BUFSIZE : p # LineEnd => Ended[p] = data[p]
      /\ Holds(Ended, line_start, text, d, LineEnd - line_start)
      /\ Strlen(Ended, line_start) = LineEnd - line_start
  <2>1. \A j \in 1..n : text[d + j] # NUL
    BY <1>5 DEF text
  <2>2. Holds(data, line_start, text, d, n)
    BY <1>6 DEF text
  <2> QED
    BY <1>2, <1>4, <2>1, <2>2, LineAtHand
<1>8. (LineEnd = last \/ data[LineEnd] = NewLine) /\ LineEnd = line_start + (LineEnd - line_start)
  <2>1. line_start <= last
    BY <1>2, <1>4
  <2>2. LineEnd \in line_start..last /\ (LineEnd = last \/ data[LineEnd] = NewLine)
    BY <1>2, <2>1, LineEndFacts
  <2> QED
    BY <1>2, <2>2
<1> QED
  BY <1>1, <1>2, <1>4, <1>6, <1>7, <1>8 DEF n, text

\* A line that goes on is moved to the front, and what follows is read behind it.
LEMMA GrepCarries ==
  ASSUME IInv, TextFiles, BufferInv, GrepPlaces, args' = args, GrepCarry
  PROVE  BufferInv' /\ GrepPlaces'
<1>1. label = "line" /\ Unfinished
  BY DEF GrepCarry, At
<1>2. pc = "user" /\ dir_fd = 2 /\ fd = 3 /\ OnEntry /\ TextOpen
  BY <1>1, AtLine
<1> DEFINE text == Stored(fname)
           m == LineEnd - line_start
<1>3. PICK d \in 0..Pos :
        /\ d \in Nat /\ Pos - d \in Nat /\ Searched(d) /\ line_start \in Nat /\ last \in Nat
        /\ last = line_start + (Pos - d) /\ last <= BUFSIZE
        /\ m \in 0..(Pos - d) /\ LineEnd = line_start + m
        /\ DOMAIN Ended = 0..BUFSIZE /\ Ended[BUFSIZE] # NewLine
        /\ Holds(Ended, line_start, text, d, m) /\ Strlen(Ended, line_start) = m
        /\ LineEnd = last \/ data[LineEnd] = NewLine
  BY <1>1, AtLine
<1>4. LineEnd = last /\ line_start # 0
  BY <1>1, <1>3 DEF Unfinished
<1>5. BUFSIZE \in Nat
  BY Sizes
<1>6. m = Pos - d /\ m \in Nat /\ m < BUFSIZE /\ last - line_start = m
  BY <1>3, <1>4, <1>5
<1> HIDE DEF m
<1>7. /\ data' = Carried /\ last' = m /\ syscall_read(3, BUFSIZE - last') /\ label' = "chunk"
      /\ UNCHANGED <<dir_fd, fd, fname>>
  BY <1>2, <1>6 DEF GrepCarry, Goto
<1>8. Carried = [p \in 0..BUFSIZE |-> IF p <= m THEN Ended[p + line_start] ELSE Ended[p]]
  BY <1>3 DEF Carried
<1>9. BufferInv'
  <2>1. DOMAIN data' = 0..BUFSIZE
    BY <1>7, <1>8
  <2>2. BUFSIZE \in 0..BUFSIZE /\ ~(BUFSIZE <= m)
    BY <1>5, <1>6
  <2>3. data'[BUFSIZE] = Ended[BUFSIZE]
    BY <1>7, <1>8, <2>2
  <2> QED
    BY <1>3, <2>1, <2>3 DEF BufferInv
<1>10. ASSUME NEW j \in 1..m PROVE data'[0 + j - 1] = text[d + j]
  <2>1. j - 1 \in 0..BUFSIZE /\ j - 1 <= m /\ 0 + j - 1 = j - 1 /\ (j - 1) + line_start = line_start + j - 1
    BY <1>3, <1>5, <1>6
  <2>2. data'[j - 1] = Ended[(j - 1) + line_start]
    BY <1>7, <1>8, <2>1
  <2>3. Ended[line_start + j - 1] = text[d + j]
    BY <1>3 DEF Holds
  <2> QED
    BY <2>1, <2>2, <2>3
<1>11. Holds(data', 0, text, d, last')
  BY <1>7, <1>10 DEF Holds
<1>12. last' = Pos - d /\ last' < BUFSIZE /\ fd' = 3
  BY <1>2, <1>6, <1>7
<1>13. GrepPlaces'
  BY <1>2, <1>3, <1>7, <1>11, <1>12, ReadsOn
<1> QED
  BY <1>9, <1>13

\* What grep prints of the line at hand.
LEMMA LineWritten ==
  ASSUME IInv, ArgsInv, TextFiles, BufferInv, GrepPlaces, prog = "grep", args # <<>>, GrepSearch,
         OnEntry, NEW d \in Nat, NEW m \in Nat, d + m <= Len(Stored(fname)),
         line_start \in Nat, LineEnd = line_start + m, LineEnd <= BUFSIZE, Ended[LineEnd] = NUL,
         Strlen(Ended, line_start) = m, Holds(Ended, line_start, Stored(fname), d, m),
         \A j \in 1..m : Stored(fname)[d + j] # NewLine, Clean(Stored(fname), d)
  PROVE  /\ UNCHANGED <<fd_array, pc>>
         /\ out' = out \o LineOut(Argument, fname, SubSeq(Stored(fname), d + 1, d + m))
            \/ /\ out' = out
               /\ LineOut(Argument, fname, SubSeq(Stored(fname), d + 1, d + m)) = <<>>
<1> DEFINE text == Stored(fname)
           line == SubSeq(text, d + 1, d + m)
           shown == fname \o <<":">> \o line \o <<NewLine>>
           HasWord == \E p \in 1..Len(line) : \E q \in p..Len(line) : SubSeq(line, p, q) = Argument
           Finds == \E check \in line_start..(LineEnd - 1) : Found(Ended, check, Argument)
<1>1. /\ Argument \in Seq(STRING) /\ Len(Argument) \in Nat \ {0}
      /\ \A j \in 1..Len(Argument) : Argument[j] # NUL
  <2>1. prog # "shell"
    OBVIOUS
  <2> QED
    BY <2>1, ArgumentFacts
<1>2. /\ fname \in Seq(Chars) /\ \A j \in 1..Len(fname) : fname[j] # NUL
      /\ text \in Seq(Chars) /\ Len(text) \in Nat
      /\ \A p \in 1..Len(text) : text[p] # NUL
  BY EntryFacts, EntryIsText
<1>3. line \in Seq(Chars) /\ Len(line) = m /\ \A j \in 1..m : line[j] = text[d + j]
  <2>1. LineSearched(Argument, fname, text, d, m)
    BY <1>2, TextStep
  <2> QED
    BY <2>1 DEF LineSearched
<1>4. \A j \in 1..Len(line) : line[j] # NUL /\ line[j] = Ended[line_start + j - 1]
  <2>1. ASSUME NEW j \in 1..m
        PROVE  line[j] # NUL /\ line[j] = Ended[line_start + j - 1]
    <3>1. d + j \in 1..Len(text)
      BY <1>2
    <3>2. Ended[line_start + j - 1] = text[d + j]
      BY DEF Holds
    <3> HIDE DEF line, text
    <3> QED
      BY <1>2, <1>3, <3>1, <3>2
  <2> QED
    BY <1>3, <2>1
<1> HIDE DEF line, text
<1>5. Text(Ended, line_start) = line
  BY <1>3, <1>4, TextIs
<1>6. Finds <=> HasWord
  <2> DEFINE word == Argument
             b == Ended
  <2>1. /\ word \in Seq(STRING) /\ Len(word) \in Nat \ {0}
        /\ \A j \in 1..Len(word) : word[j] # NUL
    BY <1>1
  <2>2. line_start + m <= BUFSIZE /\ b[line_start + m] = NUL
    OBVIOUS
  <2>3. \A j \in 1..m : b[line_start + j - 1] = line[j]
    BY <1>3, <1>4
  <2> HIDE DEF word, b
  <2>4. (\E check \in line_start..(line_start + m - 1) : Found(b, check, word)) <=>
          \E x \in 1..Len(line) : \E y \in x..Len(line) : SubSeq(line, x, y) = word
    BY <1>3, <2>1, <2>2, <2>3, WordFound
  <2> QED
    BY <2>4 DEF word, b
<1>7. Shown(shown) = shown /\ Len(shown) \in Nat
  BY <1>2, <1>3, <1>4, LineShown
<1>8. IF Finds THEN syscall_write(1, shown, Len(shown)) ELSE UNCHANGED vars
  BY <1>5 DEF GrepSearch
<1>9. LineOut(Argument, fname, line) = IF HasWord THEN shown ELSE <<>>
  BY DEF LineOut
<1>10. CASE Finds
  <2> HIDE DEF shown, HasWord, Finds
  <2>1. out' = out \o Shown(shown) /\ UNCHANGED <<fd_array, pc>>
    BY <1>7, <1>8, <1>10, WriteShows
  <2>2. LineOut(Argument, fname, line) = shown
    BY <1>6, <1>9, <1>10
  <2> QED
    BY <1>7, <2>1, <2>2 DEF line, text
<1>11. CASE ~Finds
  <2> HIDE DEF shown, HasWord, Finds
  <2>1. UNCHANGED <<fd_array, pc, out>>
    BY <1>8, <1>11 DEF vars
  <2>2. LineOut(Argument, fname, line) = <<>>
    BY <1>6, <1>9, <1>11
  <2> QED
    BY <2>1, <2>2 DEF line, text
<1> QED
  BY <1>10, <1>11

\* What is printed of a text to the end of the line, or past its newline, is what was
\* printed before and what is printed of the line.
LineEndsAt(text, d, m, e) ==
  \/ e = d + m /\ Clean(text, e)
  \/ e = d + m + 1 /\ e <= Len(text) /\ text[e] = NewLine

LinePrinted(word, name, text, d, m) ==
  /\ LineOut(word, name, SubSeq(text, d + 1, d + m)) \in Seq(Chars)
  /\ TextOut(word, name, SubSeq(text, 1, d)) \in Seq(Chars)
  /\ \A e : LineEndsAt(text, d, m, e) =>
       /\ Clean(text, e)
       /\ TextOut(word, name, SubSeq(text, 1, e)) =
            TextOut(word, name, SubSeq(text, 1, d))
              \o LineOut(word, name, SubSeq(text, d + 1, d + m))

\* The line ends in one of these two ways.
LEMMA TextMore ==
  ASSUME NEW word, NEW name \in Seq(Chars), NEW text \in Seq(Chars), NEW d \in Nat, NEW m \in Nat,
         d + m <= Len(text), Clean(text, d), \A j \in 1..m : text[d + j] # NewLine
  PROVE  LinePrinted(word, name, text, d, m)
<1> DEFINE line == SubSeq(text, d + 1, d + m)
           B == TextOut(word, name, SubSeq(text, 1, d))
           C == LineOut(word, name, line)
<1>1. /\ line \in Seq(Chars)
      /\ TextOut(word, name, SubSeq(text, 1, d + m)) = B \o C
      /\ d + m < Len(text) /\ text[d + m + 1] = NewLine =>
           /\ Clean(text, d + m + 1)
           /\ TextOut(word, name, SubSeq(text, 1, d + m + 1)) = B \o C
  <2>1. LineSearched(word, name, text, d, m)
    BY TextStep
  <2> QED
    BY <2>1 DEF LineSearched
<1>2. B \in Seq(Chars) /\ C \in Seq(Chars)
  <2>1. SubSeq(text, 1, d) \in Seq(Chars)
    BY NextPart
  <2>2. B \in Seq(Chars)
    BY <2>1, TextOutTyped
  <2>3. C \in Seq(Chars)
    BY <1>1, LineOutTyped
  <2> QED
    BY <2>2, <2>3
<1> HIDE DEF B, C
<1>3. ASSUME NEW e, LineEndsAt(text, d, m, e)
      PROVE  Clean(text, e) /\ TextOut(word, name, SubSeq(text, 1, e)) = B \o C
  <2>1. CASE e = d + m /\ Clean(text, e)
    BY <1>1, <2>1
  <2>2. CASE e = d + m + 1 /\ e <= Len(text) /\ text[e] = NewLine
    <3>1. d + m < Len(text) /\ text[d + m + 1] = NewLine
      BY <2>2
    <3> QED
      BY <1>1, <2>2, <3>1
  <2> QED
    BY <1>3, <2>1, <2>2 DEF LineEndsAt
<1> QED
  BY <1>2, <1>3 DEF B, C, LinePrinted

\* When a line was searched, what was searched reaches to its end, or past its newline.
LEMMA SearchedMore ==
  ASSUME OnEntry, Pos \in Nat, Pos <= Len(Stored(fname)), NEW d \in 0..Pos, Searched(d),
         NEW m \in 0..(Pos - d), \A j \in 1..m : Stored(fname)[d + j] # NewLine
  PROVE  \A e \in 0..Pos :
           /\ LineEndsAt(Stored(fname), d, m, e)
           /\ \/ out' = out \o LineOut(Argument, fname, SubSeq(Stored(fname), d + 1, d + m))
              \/ /\ out' = out
                 /\ LineOut(Argument, fname, SubSeq(Stored(fname), d + 1, d + m)) = <<>>
           /\ UNCHANGED <<fd_array, fname, args>>
           => Searched(e)'
<1> DEFINE text == Stored(fname)
           line == SubSeq(text, d + 1, d + m)
           A == EntriesOut(Argument, Entry - 1)
           B == TextOut(Argument, fname, SubSeq(text, 1, d))
           C == LineOut(Argument, fname, line)
           Result(e) == TextOut(Argument, fname, SubSeq(text, 1, e))
<1>1. /\ fname \in Seq(Chars) /\ text \in Seq(Chars) /\ Len(text) \in Nat /\ A \in Seq(Chars)
  BY EntryFacts
<1>2. d \in Nat /\ m \in Nat /\ d + m <= Len(text) /\ Clean(text, d) /\ out = A \o B
  BY DEF Searched
<1>3. /\ C \in Seq(Chars) /\ B \in Seq(Chars)
      /\ \A e : LineEndsAt(text, d, m, e) => Clean(text, e) /\ Result(e) = B \o C
  <2>1. \A j \in 1..m : text[d + j] # NewLine
    OBVIOUS
  <2> DEFINE word == Argument
             name == fname
  <2>2. name \in Seq(Chars)
    BY <1>1
  <2> HIDE DEF text, word, name
  <2>3. LinePrinted(word, name, text, d, m)
    BY <1>1, <1>2, <2>1, <2>2, TextMore
  <2> QED
    BY <2>3 DEF word, name, LinePrinted
<1> SUFFICES ASSUME NEW e \in 0..Pos, LineEndsAt(text, d, m, e),
                    out' = out \o C \/ (out' = out /\ C = <<>>),
                    UNCHANGED <<fd_array, fname, args>>
             PROVE  Searched(e)'
  OBVIOUS
<1>4. Clean(text, e) /\ Result(e) = B \o C
  BY <1>3
<1> HIDE DEF A, B, C, Result
<1>5. out' = A \o Result(e)
  <2>1. CASE out' = out \o C
    <3>1. Regrouped(A, B, C)
      BY <1>1, <1>3, Regroup, Zenon
    <3>2. (A \o B) \o C = A \o (B \o C)
      BY <3>1 DEF Regrouped
    <3> QED
      BY <1>2, <1>4, <2>1, <3>2
  <2>2. CASE out' = out /\ C = <<>>
    <3>1. B \o C = B
      BY <1>3, <2>2, ConcatEmptySeq
    <3> QED
      BY <1>2, <1>4, <2>2, <3>1
  <2> QED
    BY <2>1, <2>2
<1>6. Argument' = Argument /\ Entry' = Entry /\ Pos' = Pos /\ Stored(fname)' = text
  BY DEF Argument, Entry, Pos, Stored
<1> QED
  BY <1>4, <1>5, <1>6 DEF Searched, A, Result

\* A line that is not carried, and has no newline in the buffer, ends where its newline
\* is to come, or with the text.
LEMMA LineIsWhole ==
  ASSUME TextFiles, BufferInv, OnEntry, ~Unfinished, Pos \in Nat, Pos <= Len(Stored(fname)),
         NEW d \in 0..Pos, line_start \in Nat, last = line_start + (Pos - d), last <= BUFSIZE,
         last < BUFSIZE \/ cnt = 0 => AtEndOfText, LineEnd = last,
         \A j \in 1..(Pos - d) : Stored(fname)[d + j] # NewLine
  PROVE  Clean(Stored(fname), Pos)
<1> DEFINE text == Stored(fname)
<1>1. Len(text) \in Nat /\ BUFSIZE \in Nat
  BY EntryFacts, Sizes
<1>2. SUFFICES ASSUME Pos # Len(text) PROVE text[Pos + 1] = NewLine
  BY DEF Clean
<1>3. ~(last < BUFSIZE) /\ cnt # 0
  BY <1>2 DEF AtEndOfText
<1>4. last = BUFSIZE
  BY <1>1, <1>3
<1>5. data[LineEnd] # NewLine
  BY <1>4 DEF BufferInv
<1>6. line_start = 0
  BY <1>3, <1>5 DEF Unfinished
<1>7. d \in Nat /\ Pos = d + BUFSIZE /\ Pos < Len(text)
  BY <1>1, <1>2, <1>4, <1>6
<1> HIDE DEF text
<1>8. d + 1 \in 1..(Len(text) - BUFSIZE)
  BY <1>1, <1>7
<1>9. PICK q \in (d + 1)..((d + 1) + BUFSIZE) : text[q] = NewLine
  BY <1>8, EntryIsText DEF text
<1>10. q = Pos + 1
  <2> SUFFICES ASSUME q # Pos + 1 PROVE FALSE
    OBVIOUS
  <2> DEFINE j == q - d
  <2>1. j \in 1..(Pos - d) /\ d + j = q
    BY <1>1, <1>7, <1>9
  <2> HIDE DEF j
  <2>2. text[d + j] # NewLine
    BY <2>1 DEF text
  <2> QED
    BY <1>9, <2>1, <2>2
<1> QED
  BY <1>9, <1>10

\* A line is searched, and printed if it has the word.
LEMMA GrepSearches ==
  ASSUME IInv, ArgsInv, TextFiles, BufferInv, GrepPlaces, prog = "grep", args # <<>>,
         args' = args, GrepSearch
  PROVE  BufferInv' /\ GrepPlaces'
<1>1. label = "line" /\ ~Unfinished
  BY DEF GrepSearch, At
<1>2. pc = "user" /\ dir_fd = 2 /\ fd = 3 /\ OnEntry /\ TextOpen
  BY <1>1, AtLine
<1> DEFINE text == Stored(fname)
           m == LineEnd - line_start
<1>3. PICK d \in 0..Pos :
        /\ d \in Nat /\ Pos - d \in Nat /\ Searched(d) /\ line_start \in Nat /\ last \in Nat
        /\ last = line_start + (Pos - d) /\ last <= BUFSIZE
        /\ last < BUFSIZE \/ cnt = 0 => AtEndOfText
        /\ Holds(data, line_start, text, d, Pos - d)
        /\ m \in 0..(Pos - d) /\ LineEnd <= BUFSIZE /\ LineEnd = line_start + m
        /\ \A j \in 1..m : text[d + j] # NewLine
        /\ LineEnd < last => text[d + m + 1] = NewLine
        /\ LineEnd < last <=> m < Pos - d
        /\ DOMAIN Ended = 0..BUFSIZE /\ Ended[LineEnd] = NUL /\ Ended[BUFSIZE] # NewLine
        /\ \A p \in 0..BUFSIZE : p # LineEnd => Ended[p] = data[p]
        /\ Holds(Ended, line_start, text, d, m) /\ Strlen(Ended, line_start) = m
  BY <1>1, AtLine
<1>4. Pos \in Nat /\ Pos <= Len(text) /\ Len(text) \in Nat /\ BUFSIZE \in Nat
  BY <1>2, Sizes, OpenText, EntryFacts, EntryIsText
<1>5. /\ data' = Ended /\ line_end' = LineEnd /\ label' = "next"
      /\ UNCHANGED <<dir_fd, fd, fname, last, cnt, line_start>>
  BY DEF GrepSearch, Goto
<1>6. BufferInv'
  BY <1>3, <1>5 DEF BufferInv
<1> HIDE DEF m, text
<1>7. m \in Nat /\ d + m <= Len(text)
  BY <1>3, <1>4
<1>8. Clean(text, d)
  BY <1>3 DEF Searched, text
<1>9. /\ UNCHANGED <<fd_array, pc>>
      /\ \/ out' = out \o LineOut(Argument, fname, SubSeq(text, d + 1, d + m))
         \/ /\ out' = out
            /\ LineOut(Argument, fname, SubSeq(text, d + 1, d + m)) = <<>>
  BY <1>2, <1>3, <1>7, <1>8, LineWritten DEF text
<1>10. Pos' = Pos /\ Entry' = Entry /\ Stored(fname)' = text
  BY <1>5, <1>9 DEF Pos, Entry, Stored, text
<1>11. OnEntry' /\ TextOpen'
  BY <1>2, <1>5, <1>9, <1>10 DEF OnEntry, OpenAs, TextOpen, FreeBut, text
<1>12. last' < BUFSIZE \/ cnt' = 0 => AtEndOfText'
  BY <1>3, <1>5, <1>10 DEF AtEndOfText, text
<1>13. \A e \in 0..Pos : LineEndsAt(text, d, m, e) => Searched(e)'
  <2>1. \A e \in 0..Pos :
           /\ LineEndsAt(Stored(fname), d, m, e)
           /\ \/ out' = out \o LineOut(Argument, fname, SubSeq(Stored(fname), d + 1, d + m))
              \/ /\ out' = out
                 /\ LineOut(Argument, fname, SubSeq(Stored(fname), d + 1, d + m)) = <<>>
           /\ UNCHANGED <<fd_array, fname, args>>
           => Searched(e)'
    BY <1>2, <1>3, <1>4, SearchedMore DEF text
  <2> QED
    BY <1>5, <1>9, <2>1 DEF text
<1>14. NextPlace'
  <2>1. CASE LineEnd < last
    <3>0. d + m + 1 \in 0..Pos
      BY <1>3, <1>4, <2>1
    <3> PICK e \in 0..Pos : e = d + m + 1
      BY <3>0
    <3>1. text[e] = NewLine /\ e <= Len(text) /\ e \in 0..Pos /\ e = d + m + 1
      BY <1>3, <1>4, <2>1
    <3>2. Searched(e)'
      BY <1>13, <3>1 DEF LineEndsAt
    <3>3. last - (LineEnd + 1) = Pos - e /\ LineEnd + 1 \in Nat /\ LineEnd \in Nat
      <4>1. LineEnd = line_start + m /\ line_start \in Nat /\ d \in Nat /\ last = line_start + (Pos - d)
        BY <1>3
      <4> QED
        BY <1>4, <1>7, <3>1, <4>1
    <3>4. ASSUME NEW j \in 1..(Pos - e) PROVE Ended[(LineEnd + 1) + j - 1] = text[e + j]
      <4> DEFINE q == m + 1 + j
      <4>1. /\ q \in 1..(Pos - d) /\ line_start + q - 1 = (LineEnd + 1) + j - 1 /\ d + q = e + j
            /\ (LineEnd + 1) + j - 1 \in 0..BUFSIZE /\ (LineEnd + 1) + j - 1 # LineEnd
        BY <1>3, <1>4, <3>1
      <4> HIDE DEF q
      <4>2. data[line_start + q - 1] = text[d + q]
        BY <1>3, <4>1 DEF Holds
      <4> QED
        BY <1>3, <4>1, <4>2
    <3>5. Holds(data', line_end' + 1, Stored(fname)', e, Pos' - e)
      BY <1>5, <1>10, <3>4 DEF Holds
    <3>6. /\ line_end' \in Nat /\ last' \in Nat /\ last' <= BUFSIZE /\ e \in 0..Pos'
          /\ last' - (line_end' + 1) = Pos' - e
      BY <1>3, <1>5, <1>10, <3>1, <3>3
    <3> QED
      BY <1>12, <3>2, <3>5, <3>6 DEF NextPlace
  <2>2. CASE ~(LineEnd < last)
    <3>1. LineEnd = last /\ m = Pos - d /\ d + m = Pos
      BY <1>3, <1>4, <2>2
    <3>2. Clean(text, Pos)
      BY <1>1, <1>2, <1>3, <1>4, <3>1, LineIsWhole DEF text
    <3>3. Pos \in 0..Pos
      BY <1>4
    <3> PICK e \in 0..Pos : e = Pos
      BY <3>3
    <3>4. Searched(e)' /\ e = Pos' /\ e \in 0..Pos'
      BY <1>10, <1>13, <3>1, <3>2 DEF LineEndsAt
    <3>5. line_end' >= last' /\ line_end' \in Nat /\ last' \in Nat /\ last' <= BUFSIZE
      BY <1>3, <1>5, <3>1
    <3> QED
      BY <1>12, <3>4, <3>5 DEF NextPlace
  <2> QED
    BY <2>1, <2>2
<1> QED
  BY <1>2, <1>5, <1>6, <1>9, <1>11, <1>14 DEF GrepPlaces

\* It goes to the next line of what it has read, reads on, or closes the entry when
\* nothing is left of it.
LEMMA GrepGoesOn ==
  ASSUME IInv, TextFiles, BufferInv, GrepPlaces, args' = args, GrepNext
  PROVE  BufferInv' /\ GrepPlaces'
<1>1. label = "next" /\ line_start' = line_end + 1 /\ UNCHANGED <<dir_fd, fd, fname, data, cnt>>
  BY DEF GrepNext, At
<1>2. pc = "user" /\ dir_fd = 2 /\ fd = 3 /\ OnEntry /\ TextOpen /\ NextPlace
  BY <1>1 DEF GrepPlaces
<1>3. PICK d \in 0..Pos :
        /\ Searched(d) /\ line_end \in Nat /\ last \in Nat /\ last <= BUFSIZE
        /\ last < BUFSIZE \/ cnt = 0 => AtEndOfText
        /\ \/ line_end >= last /\ d = Pos
           \/ /\ last - (line_end + 1) = Pos - d
              /\ Holds(data, line_end + 1, Stored(fname), d, Pos - d)
  BY <1>2 DEF NextPlace
<1>4. Pos \in Nat /\ d \in Nat /\ BUFSIZE \in Nat \ {0}
  BY <1>2, Sizes, OpenText, EntryFacts, EntryIsText
<1>5. BufferInv'
  BY <1>1 DEF BufferInv
<1>6. CASE line_end + 1 < last
  <2>1. label' = "line" /\ UNCHANGED <<vars, last>>
    BY <1>3, <1>6 DEF GrepNext, Goto
  <2>2. pc' = "user"
    BY <1>2, <2>1 DEF vars
  <2>3. /\ OnEntry' /\ TextOpen' /\ d \in 0..Pos' /\ Searched(d)' /\ Pos' = Pos
        /\ Stored(fname)' = Stored(fname) /\ (AtEndOfText => AtEndOfText')
    BY <1>1, <1>2, <1>3, <2>1, SameEntry
  <2>4. /\ last - (line_end + 1) = Pos - d
        /\ Holds(data, line_end + 1, Stored(fname), d, Pos - d)
    BY <1>3, <1>6
  <2>5. Holds(data', line_start', Stored(fname)', d, Pos' - d)
    BY <1>1, <2>3, <2>4
  <2>6. /\ line_start' \in Nat /\ last' \in Nat /\ last' - line_start' = Pos' - d /\ last' <= BUFSIZE
        /\ (last' < BUFSIZE \/ cnt' = 0 => AtEndOfText')
    BY <1>1, <1>3, <2>1, <2>3, <2>4
  <2>7. LinePlace'
    BY <2>3, <2>5, <2>6 DEF LinePlace
  <2> QED
    BY <1>1, <1>2, <1>5, <2>1, <2>2, <2>3, <2>7 DEF GrepPlaces
<1>7. CASE line_end + 1 >= last
  <2>1. d = Pos
    BY <1>3, <1>4, <1>7
  <2>2. last' = 0
    BY <1>3, <1>7 DEF GrepNext
  <2>3. CASE cnt = 0
    <3>1. syscall_close(3) /\ label' = "closed"
      BY <1>2, <1>3, <1>7, <2>3 DEF GrepNext, Goto
    <3>2. /\ UNCHANGED <<pc, out, fate>> /\ ret'.count = 0 /\ fd_array'[2] = fd_array[2]
          /\ FreeBut({2})'
      BY <1>2, <3>1, CloseEntry DEF TextOpen
    <3>3. Entry' = Entry /\ Argument' = Argument
      BY <3>2 DEF Entry, Argument
    <3>4. OnEntry'
      BY <1>1, <1>2, <3>2, <3>3 DEF OnEntry, OpenAs
    <3>5. SubSeq(Stored(fname), 1, d) = Stored(fname)
      <4>1. d = Len(Stored(fname)) /\ Stored(fname) \in Seq(Chars)
        BY <1>2, <1>3, <2>1, <2>3, EntryFacts DEF AtEndOfText
      <4> QED
        BY <4>1, SubSeqFull
    <3>6. out = EntriesOut(Argument, Entry)
      BY <1>2, <1>3, <3>5, EntryFacts DEF Searched
    <3> QED
      BY <1>1, <1>2, <1>5, <3>1, <3>2, <3>3, <3>4, <3>6 DEF GrepPlaces
  <2>4. CASE cnt # 0
    <3>1. syscall_read(3, BUFSIZE) /\ label' = "chunk"
      BY <1>2, <1>3, <1>7, <2>4 DEF GrepNext, Goto
    <3>2. last' = Pos - d /\ last' < BUFSIZE /\ BUFSIZE - last' = BUFSIZE
      BY <1>4, <2>1, <2>2
    <3>3. syscall_read(3, BUFSIZE - last') /\ fd' = 3
      BY <1>1, <1>2, <3>1, <3>2
    <3>4. Holds(data', 0, Stored(fname), d, last')
      BY <2>2 DEF Holds
    <3>5. GrepPlaces'
      BY <1>1, <1>2, <1>3, <3>1, <3>2, <3>3, <3>4, ReadsOn
    <3> QED
      BY <1>5, <3>5
  <2> QED
    BY <2>3, <2>4
<1> QED
  BY <1>3, <1>6, <1>7

\* The kernel copies a byte for grep, or returns to it with the next part.
LEMMA GrepWaits ==
  ASSUME IInv, TextFiles, GrepPlaces, args' = args, Kernel
  PROVE  GrepPlaces'
<1>1. pc = "read_data" /\ (ReadByte \/ ReadReturns) /\ UNCHANGED <<label, dir_fd, fd, fname, last, data>>
  BY DEF Kernel, ReadByte, ReadReturns, own, grepvars
<1>2. label = "chunk" /\ dir_fd = 2 /\ fd = 3 /\ OnEntry /\ TextOpen /\ ReadingPlace
  BY <1>1 DEF GrepPlaces, Fresh
<1>3. PICK d \in 0..Pos : /\ Searched(d) /\ last = Pos - d /\ last < BUFSIZE
                          /\ Holds(data, 0, Stored(fname), d, last)
                          /\ fd_read = 3 /\ length = BUFSIZE - last
  BY <1>2 DEF ReadingPlace
<1>4. /\ Pos \in Nat /\ Pos <= Len(Stored(fname)) /\ Len(Stored(fname)) \in Nat
      /\ BUFSIZE \in Nat /\ fname \in Names /\ Dentry(fname).type # 1 /\ d \in Nat
  BY <1>2, Sizes, OpenText, EntryFacts, EntryIsText
<1>5. CASE ReadByte
  <2>1. UNCHANGED <<fd_array, pc, fd_read, length, out>>
    BY <1>5 DEF ReadByte
  <2>2. Pos' = Pos /\ Stored(fname)' = Stored(fname)
    BY <1>1, <2>1 DEF Pos, Stored
  <2>3. OnEntry' /\ d \in 0..Pos' /\ Searched(d)'
    BY <1>1, <1>2, <1>3, <1>4, <2>1, <2>2, StaysSearched
  <2>4. TextOpen'
    BY <1>1, <1>2, <2>1, <2>2 DEF TextOpen, FreeBut
  <2>5. ReadingPlace'
    BY <1>1, <1>3, <2>1, <2>2, <2>3 DEF ReadingPlace, Holds
  <2> QED
    BY <1>1, <1>2, <2>1, <2>3, <2>4, <2>5 DEF GrepPlaces
<1>6. CASE ReadReturns
  <2> DEFINE text == Stored(fname)
             left == Len(text) - Pos
             count == ret'.count
  <2>1. /\ pc' = "user" /\ UNCHANGED <<out, fate>> /\ fd_array'[2] = fd_array[2]
        /\ FreeBut({2, 3})' /\ Pos' = Pos + count /\ count \in Nat
        /\ fd_array'[3].flags = 1 /\ fd_array'[3].ops = fd_array[3].ops
        /\ fd_array'[3].inode = fd_array[3].inode
        /\ count = IF length < left THEN length ELSE left
        /\ Holds(ret'.bytes, 1, text, Pos, count)
    BY <1>2, <1>3, <1>4, <1>6, TextReturns
  <2>2. OnEntry' /\ d \in 0..Pos' /\ Searched(d)'
    <3> HIDE DEF text, left, count
    <3>1. Pos' \in Nat /\ Pos <= Pos'
      BY <1>4, <2>1
    <3>2. fd_array'[2] = fd_array[2] /\ UNCHANGED <<fname, args, out>>
      BY <1>1, <2>1
    <3> QED
      BY <1>2, <1>3, <1>4, <3>1, <3>2, StaysSearched
  <2>3. Stored(fname)' = text
    BY <1>1 DEF Stored
  <2>4. /\ last' \in Nat /\ last' < BUFSIZE /\ Pos' = d + last' + count /\ last' + count <= BUFSIZE
        /\ Pos' <= Len(text) /\ Pos = d + last'
        /\ (last' + count < BUFSIZE => Pos' = Len(text))
    BY <1>1, <1>3, <1>4, <2>1
  <2>5. AtEndOfText' <=> Pos' = Len(text)
    BY <2>3 DEF AtEndOfText
  <2>6. TextOpen'
    BY <1>1, <1>2, <2>1, <2>3, <2>4 DEF TextOpen
  <2>7. Holds(data', 0, Stored(fname)', d, last') /\ Holds(ret'.bytes, 1, Stored(fname)', d + last', count)
    BY <1>1, <1>3, <2>1, <2>3, <2>4
  <2>8. ChunkPlace'
    BY <2>1, <2>2, <2>4, <2>5, <2>7 DEF ChunkPlace
  <2> QED
    BY <1>1, <1>2, <2>1, <2>2, <2>6, <2>8 DEF GrepPlaces
<1> QED
  BY <1>1, <1>5, <1>6

\* A step of grep is one of its own, of the kernel, or the halt behind a message.
LEMMA GrepMoves ==
  ASSUME ProgramNext, prog = "grep"
  PROVE  /\ Kernel \/ Dying \/ Grep
         /\ UNCHANGED <<prog, args>>
BY DEF ProgramNext, Launch, Kernel, Dying, Exit, Goto, Die, Cat, CatBegin, CatOpened, CatLoop, CatWritten,
       Ls, LsBegin, LsOpened, LsLoop, LsWritten, Grep, GrepBegin, GrepOpened, GrepEntry, GrepFile,
       GrepChunk, GrepCarry, GrepSearch, GrepNext, GrepClosed, Counter, CounterBegin, CounterAsk,
       CounterChoice, CounterCount, Syserr, SyserrBegin, SyserrAsk, SyserrSelect, SyserrCall,
       SyserrOther, SyserrCheck, SyserrVerdict, SyserrEnd, InTest, User, UserCall, UserEnd, At

\* Every step of grep leads from one of its places to another.
LEMMA GrepStep ==
  ASSUME ProgramInv, TextFiles, GrepInv, ProgramNext, prog = "grep"
  PROVE  GrepInv'
<1>1. /\ \/ Kernel \/ Dying \/ GrepBegin \/ GrepOpened \/ GrepEntry \/ GrepFile \/ GrepChunk
         \/ GrepCarry \/ GrepSearch \/ GrepNext \/ GrepClosed
      /\ UNCHANGED <<prog, args>>
  BY GrepMoves DEF Grep
<1>2. stale' = stale
  BY <1>1 DEF Kernel, Dying, GrepBegin, GrepOpened, GrepEntry, GrepFile, GrepChunk, GrepCarry,
              GrepSearch, GrepNext, GrepClosed, own
<1>3. SUFFICES ASSUME args # <<>>, stale # NewLine PROVE BufferInv' /\ GrepPlaces'
  BY <1>1, <1>2 DEF GrepInv
<1>4. IInv /\ ArgsInv /\ BufferInv /\ GrepPlaces /\ args' = args
  BY <1>1, <1>3 DEF GrepInv, ProgramInv
<1>5. data' = data => BufferInv'
  BY <1>4 DEF BufferInv
<1>6. CASE Kernel
  BY <1>4, <1>5, <1>6, GrepWaits DEF Kernel, own, grepvars
<1>7. CASE Dying
  BY <1>4, <1>7 DEF GrepPlaces, Dying
<1>8. CASE GrepBegin
  BY <1>3, <1>4, <1>5, <1>8, GrepBegins DEF GrepBegin, own, grepvars
<1>9. CASE GrepOpened
  BY <1>4, <1>5, <1>9, GrepReadsOn DEF GrepOpened, grepvars
<1>10. CASE GrepClosed
  BY <1>4, <1>5, <1>10, GrepReadsOn DEF GrepClosed, own, grepvars
<1>11. CASE GrepEntry
  BY <1>4, <1>5, <1>11, GrepTakes DEF GrepEntry, grepvars
<1>12. CASE GrepFile
  BY <1>4, <1>5, <1>12, GrepOpens DEF GrepFile
<1>13. CASE GrepChunk
  BY <1>4, <1>13, GrepTakesChunk
<1>14. CASE GrepCarry
  BY <1>4, <1>14, GrepCarries
<1>15. CASE GrepSearch
  BY <1>3, <1>4, <1>15, GrepSearches
<1>16. CASE GrepNext
  BY <1>4, <1>16, GrepGoesOn
<1> QED
  BY <1>1, <1>6, <1>7, <1>8, <1>9, <1>10, <1>11, <1>12, <1>13, <1>14, <1>15, <1>16

\* The shell starts grep with its buffer untouched; what grep is at does not change
\* while nothing does.
LEMMA GrepNextInv == TextFiles /\ ProgramInv /\ GrepInv /\ [ProgramNext]_all => GrepInv'
<1> SUFFICES ASSUME TextFiles, ProgramInv, GrepInv, [ProgramNext]_all PROVE GrepInv'
  OBVIOUS
<1>1. CASE UNCHANGED all
  <2>1. /\ UNCHANGED <<fd_array, pc, fd_read, length, ret, out, fate, failed, k>>
        /\ UNCHANGED <<prog, args, label, status, dir_fd, fd, fname, data, last, cnt,
                       line_start, line_end, stale>>
    BY <1>1 DEF all, vars, locals, own, grepvars, tests
  <2>2. Argument' = Argument /\ Entry' = Entry /\ Pos' = Pos /\ Stored(fname)' = Stored(fname)
    BY <2>1 DEF Argument, Entry, Pos, Stored
  <2>3. \A d : Searched(d) => Searched(d)'
    BY <2>1, <2>2 DEF Searched
  <2>4. /\ Fresh => Fresh'
        /\ OpenAs(<<".">>) => OpenAs(<<".">>)'
        /\ FreeBut({2}) => FreeBut({2})'
        /\ TextOpen => TextOpen'
        /\ OnEntry => OnEntry'
        /\ AtEndOfText => AtEndOfText'
        /\ GrepAnswered => GrepAnswered'
    BY <2>1, <2>2 DEF Fresh, NoneOpen, OpenAs, FreeBut, TextOpen, OnEntry, AtEndOfText, GrepAnswered
  <2>5. ReadingPlace => ReadingPlace'
    BY <2>1, <2>2, <2>3 DEF ReadingPlace, Holds
  <2>6. ChunkPlace => ChunkPlace'
    BY <2>1, <2>2, <2>3, <2>4 DEF ChunkPlace, Holds
  <2>7. LinePlace => LinePlace'
    BY <2>1, <2>2, <2>3, <2>4 DEF LinePlace, Holds
  <2>8. NextPlace => NextPlace'
    BY <2>1, <2>2, <2>3, <2>4 DEF NextPlace, Holds
  <2>9. GrepPlaces => GrepPlaces'
    BY <2>1, <2>2, <2>4, <2>5, <2>6, <2>7, <2>8 DEF GrepPlaces
  <2>10. BufferInv => BufferInv'
    BY <2>1 DEF BufferInv
  <2> QED
    BY <2>1, <2>9, <2>10 DEF GrepInv
<1>2. CASE ProgramNext /\ prog = "shell"
  <2>1. Launch
    BY <1>2, ShellMoves DEF ProgramInv, ShellInv, Fresh, Kernel, ReadByte, ReadReturns, Dying
  <2>2. UNCHANGED <<data, stale>>
    BY <2>1 DEF Launch, own, grepvars
  <2>3. prog' = "grep" => label' = "start" /\ Fresh'
    BY <1>2, <2>1, FreshStart DEF ProgramInv
  <2> QED
    BY <1>2, <2>2, <2>3 DEF GrepInv, BufferInv, GrepPlaces
<1>3. CASE ProgramNext /\ prog = "grep"
  BY <1>3, GrepStep
<1>4. CASE ProgramNext /\ prog \notin {"shell", "grep"}
  <2>1. prog' = prog
    BY <1>4, ShellMoves
  <2> QED
    BY <1>4, <2>1 DEF GrepInv
<1> QED
  BY <1>1, <1>2, <1>3, <1>4

\* At the shell's prompt the bytes of the buffer are what the stack held.
LEMMA GrepInitInv == ProgramInit => GrepInv
<1>1. Garbage \subseteq [0..BUFSIZE -> STRING]
  BY ProgramsAssumption, Zenon
<1>2. ASSUME ProgramInit PROVE data \in [0..BUFSIZE -> STRING] /\ stale = data[BUFSIZE]
  BY <1>1, <1>2 DEF ProgramInit
<1>3. ASSUME ProgramInit PROVE prog = "shell"
  BY <1>3 DEF ProgramInit
<1> QED
  BY <1>2, <1>3 DEF GrepInv, BufferInv

\* cat shows all of the file it is given and nothing else, for any image, any
\* command line and any size of its buffer, or says that there is none (cat.c).
THEOREM Shows == ProgramSpec => []CatShowsFile
<1>1. ProgramInv => CatShowsFile
  BY DEF ProgramInv, CatInv, CatPlaces, CatShowsFile, Done
<1> QED
  BY <1>1, ProgramInitInv, ProgramNextInv, PTL DEF ProgramSpec

\* ls lists every name of the directory, once and in order, and comes to its end in
\* a full directory too (ls.c).
THEOREM Lists == ProgramSpec => []LsListsDirectory
<1>1. ProgramInv => LsListsDirectory
  BY DEF ProgramInv, LsInv, LsPlaces, LsListsDirectory, Lined, Done
<1> QED
  BY <1>1, ProgramInitInv, ProgramNextInv, PTL DEF ProgramSpec

\* The kernel refuses every call that syserr expects it to refuse (syserr.c).
THEOREM Refuses == ProgramSpec => []SyserrPasses
<1>1. ProgramInv => SyserrPasses
  BY DEF ProgramInv, SyserrInv, SyserrPasses
<1> QED
  BY <1>1, ProgramInitInv, ProgramNextInv, PTL DEF ProgramSpec

\* counter prints the numbers from 1 on, each on its line, in decimal and without a
\* zero in front, however far it counts (counter.c, itoa).
THEOREM CountsOn == ProgramSpec => []CounterCounts
<1>1. ProgramInv => CounterCounts
  <2> SUFFICES ASSUME ProgramInv, prog = "counter", label = "count"
               PROVE  /\ Len(LinesOf(Tail(out))) = k
                      /\ \A l \in 1..k : Value(LinesOf(Tail(out))[l], 10) = l
                                       /\ LinesOf(Tail(out))[l][1] # "0"
    BY DEF CounterCounts
  <2>1. PICK text : out = Prompt \o text /\ Numbered(text, k)
    BY DEF ProgramInv, CounterInv, CounterPlaces
  <2>2. Tail(out) = text
    BY <2>1, PromptConcat DEF Numbered
  <2> QED
    BY <2>1, <2>2 DEF Numbered
<1> QED
  BY <1>1, ProgramInitInv, ProgramNextInv, PTL DEF ProgramSpec

\* A program is started under the name and with the arguments that the emulation under
\* Linux would give it, but for a blank left at the end, whatever is typed at the shell
\* (execute, getargs; ece391emulate.c).
THEOREM Parsed == ProgramSpec => []ArgsAsTyped
<1>1. ProgramInv => ArgsAsTyped
  <2> SUFFICES ASSUME ProgramInv, prog # "shell", command[1] # Blank
               PROVE  LET words == ece391_execute(command)
                      IN  /\ exe_name(command) = words[1]
                          /\ Argument = ece391_getargs(words)
                               \o IF args # <<>> /\ Last(args) = Blank THEN <<Blank>> ELSE <<>>
    BY DEF ArgsAsTyped
  <2> DEFINE S == STRING \cup {Blank}
  <2>1. command \in Commands /\ args = args_of(command)
    BY DEF ProgramInv, ArgsInv
  <2>2. /\ command \in Seq(STRING) /\ command # <<>> /\ Len(args_of(command)) <= BUFSIZE
        /\ \A j \in 1..Len(command) : command[j] # NewLine
    <3>1. \A c \in Commands : /\ c \in Seq(STRING) \ {<<>>} /\ Len(args_of(c)) <= BUFSIZE
                              /\ \A j \in 1..Len(c) : c[j] \notin {NewLine, NUL}
      BY ProgramsAssumption, Zenon
    <3> QED
      BY <2>1, <3>1
  <2>3. BUFSIZE \in Nat
    BY ProgramsAssumption, Zenon
  <2>4. Blank \in S /\ STRING \subseteq S
    OBVIOUS
  <2> HIDE DEF S
  <2>5. Typed(S, command)
    BY <2>2, <2>4, SeqMonotonic DEF Typed
  <2>6. /\ exe_name(command) = ece391_execute(command)[1]
        /\ syscall_getargs(args_of(command), BUFSIZE) = ece391_getargs(ece391_execute(command))
             \o IF args_of(command) # <<>> /\ Last(args_of(command)) = Blank
                 THEN <<Blank>> ELSE <<>>
    BY <2>2, <2>3, <2>4, <2>5, CommandParsed
  <2> QED
    BY <2>1, <2>6 DEF Argument
<1> QED
  BY <1>1, ProgramInitInv, ProgramNextInv, PTL DEF ProgramSpec

\* grep prints every line of a text that has the word, once and whole, whatever the
\* size of its buffer cuts it into, for any image whose entries are texts of lines as
\* long as the buffer at most, unless the byte past the buffer is a newline (grep.c).
THEOREM Greps == ProgramSpec => []GrepPrintsMatches
<1> DEFINE J == TextFiles => GrepInv
<1>1. ProgramInit => J
  BY GrepInitInv
<1>2. ProgramInv /\ J /\ [ProgramNext]_all => J'
  BY GrepNextInv DEF TextFiles
<1>3. ProgramInv /\ J => GrepPrintsMatches
  <2> SUFFICES ASSUME J, prog = "grep", label = "exit", args # <<>>, stale # NewLine, TextFiles
               PROVE  /\ status = 0
                      /\ out = FlattenSeq([e \in 1..Len(Listing) |->
                           IF Listing[e][1] = "." THEN <<>> ELSE Matches(Listing[e])])
    BY DEF GrepPrintsMatches, Done
  <2>1. status = 0 /\ out = EntriesOut(Argument, Len(Listing))
    BY DEF GrepInv, GrepPlaces
  <2>2. \A e \in 1..Len(Listing) : Matches(Listing[e]) = TextOut(Argument, Listing[e], Stored(Listing[e]))
    BY DEF Matches, TextOut, LineOut
  <2>3. \A e \in 1..Len(Listing) :
          EntryOut(Argument, e) = IF Listing[e][1] = "." THEN <<>> ELSE Matches(Listing[e])
    BY <2>2 DEF EntryOut
  <2>4. EntriesOut(Argument, Len(Listing)) =
          FlattenSeq([e \in 1..Len(Listing) |->
                        IF Listing[e][1] = "." THEN <<>> ELSE Matches(Listing[e])])
    BY <2>3 DEF EntriesOut
  <2> QED
    BY <2>1, <2>4
<1> HIDE DEF J
<1> QED
  BY <1>1, <1>2, <1>3, ProgramInitInv, ProgramNextInv, PTL DEF ProgramSpec

\* The descriptors and the loop of read_data are what they are for any calls under
\* the calls of these programs too.
THEOREM ProgramsTyped == ProgramSpec => [](TypeOK /\ CopiesTheFile)
<1>1. ProgramInv => TypeOK /\ CopiesTheFile
  BY DEF ProgramInv, IInv
<1> QED
  BY <1>1, ProgramInitInv, ProgramNextInv, PTL DEF ProgramSpec

\* Each program sees the files as the streams of FileStreams, and only its own reads
\* move a position.
THEOREM ProgramsStreams == ProgramSpec => ImplementsStreams /\ OnlyReadsMove
<1>1. ProgramInit => Streams!Init
  BY InitMaps DEF ProgramInit
<1>2. ProgramInv => IInv
  BY DEF ProgramInv
<1> QED
  BY <1>1, <1>2, ProgramInitInv, ProgramNextInv, CallsMap, Moves, PTL
     DEF ProgramSpec, ImplementsStreams, Streams!Spec, OnlyReadsMove
================================================================================
