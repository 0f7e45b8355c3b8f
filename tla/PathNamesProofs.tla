--------------------------- MODULE PathNamesProofs ---------------------------
(***************************************************************************)
(* Paths, for strings of every length over every set of characters.        *)
(***************************************************************************)
EXTENDS PathNames, FiniteSetTheorems, SequenceTheorems, WellFoundedInduction, TLAPS

-----------------------------------------------------------------------------
(***************************************************************************)
(* Induction and recursion up to a number.                                 *)
(***************************************************************************)
LEMMA UpToNumber ==
    ASSUME NEW N \in Nat, NEW S, 0 \in S, \A n \in 0 .. (N - 1) : n \in S => n + 1 \in S
    PROVE  \A n \in 0 .. N : n \in S
<1> DEFINE Missing == {n \in 0 .. N : n \notin S}
<1>1. ASSUME Missing # {}
      PROVE  FALSE
  <2>1. IsWellFoundedOn(OpToRel(<, Nat), Nat)
    BY NatLessThanWellFounded
  <2>2. Missing \subseteq Nat
    OBVIOUS
  <2> HIDE DEF Missing
  <2>3. PICK x \in Missing : \A y \in Missing : ~ (<<y, x>> \in OpToRel(<, Nat))
    BY <1>1, <2>1, <2>2, WFMin
  <2> USE DEF Missing
  <2>4. x \in 0 .. N /\ x # 0
    OBVIOUS
  <2>5. x - 1 \in 0 .. (N - 1) /\ x - 1 \in 0 .. N
    BY <2>4
  <2>6. x - 1 \in Missing
    <3>1. x - 1 \in S => (x - 1) + 1 \in S
      BY <2>5
    <3>2. (x - 1) + 1 = x
      BY <2>4
    <3> QED
      BY <2>5, <3>1, <3>2
  <2> HIDE DEF Missing
  <2>7. <<x - 1, x>> \in Nat \X Nat /\ <<x - 1, x>>[1] < <<x - 1, x>>[2]
    BY <2>4, <2>5
  <2>8. <<x - 1, x>> \in OpToRel(<, Nat)
    BY <2>7 DEF OpToRel
  <2> QED
    BY <2>3, <2>6, <2>8
<1> QED
  BY <1>1

\* A function is defined by its first value and the step to the next one.
IsDefined(D, a, N, F) ==
    \E f \in [0 .. N -> D] : f[0] = a /\ \A k \in 1 .. N : f[k] = F[<<f[k - 1], k>>]

LEMMA Recursion ==
    ASSUME NEW D, NEW a \in D, NEW N \in Nat, NEW F \in [D \X (1 .. N) -> D]
    PROVE  IsDefined(D, a, N, F)
<1> DEFINE Starts(f, n) ==
                /\ f \in [0 .. n -> D] /\ f[0] = a
                /\ \A k \in 1 .. n : f[k] = F[<<f[k - 1], k>>]
           S == {n \in 0 .. N : \E f : Starts(f, n)}
<1>1. 0 \in S
  <2> DEFINE f == [k \in 0 .. 0 |-> a]
  <2>1. f \in [0 .. 0 -> D] /\ f[0] = a
    OBVIOUS
  <2>2. \A k \in 1 .. 0 : f[k] = F[<<f[k - 1], k>>]
    OBVIOUS
  <2> HIDE DEF f
  <2>3. Starts(f, 0)
    BY <2>1, <2>2
  <2> QED
    BY <2>3
<1>2. ASSUME NEW n \in 0 .. (N - 1), n \in S
      PROVE  n + 1 \in S
  <2>1. PICK f : Starts(f, n)
    BY <1>2
  <2> DEFINE g == [k \in 0 .. (n + 1) |-> IF k = n + 1 THEN F[<<f[n], n + 1>>] ELSE f[k]]
  <2>2. F[<<f[n], n + 1>>] \in D
    <3>1. f[n] \in D /\ n + 1 \in 1 .. N
      BY <2>1
    <3> QED
      BY <3>1
  <2>3. \A k \in 0 .. n : k \in 0 .. (n + 1) /\ k # n + 1 /\ g[k] = f[k] /\ f[k] \in D
    BY <2>1
  <2>4. n + 1 \in 0 .. (n + 1) /\ g[n + 1] = F[<<f[n], n + 1>>]
    OBVIOUS
  <2>5. \A k \in 0 .. (n + 1) : k \in 0 .. n \/ k = n + 1
    OBVIOUS
  <2>6. g = [k \in 0 .. (n + 1) |-> g[k]] /\ \A k \in 0 .. (n + 1) : g[k] \in D
    BY <2>2, <2>3, <2>4, <2>5
  <2> HIDE DEF g
  <2>7. g \in [0 .. (n + 1) -> D]
    BY <2>6
  <2>8. ASSUME NEW k \in 1 .. (n + 1)
        PROVE  g[k] = F[<<g[k - 1], k>>]
    <3>1. k - 1 \in 0 .. n /\ (k = n + 1 => k - 1 = n) /\ (k # n + 1 => k \in 1 .. n /\ k \in 0 .. n)
      OBVIOUS
    <3>2. g[k - 1] = f[k - 1]
      BY <2>3, <3>1
    <3>3. CASE k = n + 1
      BY <2>4, <3>1, <3>2, <3>3
    <3>4. CASE k # n + 1
      BY <2>1, <2>3, <3>1, <3>2, <3>4
    <3> QED
      BY <3>3, <3>4
  <2>9. g[0] = a
    BY <2>1, <2>3
  <2>10. Starts(g, n + 1)
    BY <2>7, <2>8, <2>9
  <2>11. n + 1 \in 0 .. N
    OBVIOUS
  <2> HIDE DEF Starts
  <2> QED
    BY <2>10, <2>11
<1>3. N \in S
  <2> HIDE DEF S
  <2>1. \A n \in 0 .. N : n \in S
    BY <1>1, <1>2, UpToNumber
  <2> QED
    BY <2>1
<1> QED
  BY <1>3 DEF IsDefined

-----------------------------------------------------------------------------
(***************************************************************************)
(* The recursive functions of Names.                                       *)
(***************************************************************************)
SplitUpTo(s) ==
    CHOOSE f : f = [k \in 0 .. Len(s) |->
        IF k = 0 THEN << <<>> >> ELSE Extended(f[k - 1], s[k])]

\* Lists of at least one string.
Lists == Seq(Seq(Chars)) \ {<<>>}

LEMMA ExtendedList ==
    ASSUME NEW p \in Lists, NEW c \in Chars
    PROVE  Extended(p, c) \in Lists
<1>1. p \in Seq(Seq(Chars)) /\ Len(p) \in Nat /\ Len(p) # 0 /\ Len(p) \in 1 .. Len(p)
  BY EmptySeq DEF Lists
<1>2. CASE c = Slash
  BY <1>1, <1>2, EmptySeq, AppendProperties DEF Extended, Lists
<1>3. CASE c # Slash
  <2>1. p[Len(p)] \in Seq(Chars)
    BY <1>1, ElementOfSeq
  <2>2. Append(p[Len(p)], c) \in Seq(Chars)
    BY <2>1, AppendProperties
  <2>3. Extended(p, c) = [p EXCEPT ![Len(p)] = Append(p[Len(p)], c)]
    BY <1>3 DEF Extended
  <2>4. Extended(p, c) \in Seq(Seq(Chars)) /\ Len(Extended(p, c)) = Len(p)
    BY <1>1, <2>2, <2>3, ExceptSeq
  <2> QED
    BY <1>1, <2>4, EmptySeq DEF Lists
<1> QED
  BY <1>2, <1>3

LEMMA SplitSteps ==
    ASSUME NEW s \in Seq(Chars)
    PROVE  /\ SplitUpTo(s) \in [0 .. Len(s) -> Lists]
           /\ SplitUpTo(s)[0] = << <<>> >>
           /\ \A k \in 1 .. Len(s) : SplitUpTo(s)[k] = Extended(SplitUpTo(s)[k - 1], s[k])
           /\ SplitAt(s) = SplitUpTo(s)[Len(s)]
<1> DEFINE N == Len(s)
           F == [x \in Lists \X (1 .. N) |-> Extended(x[1], s[x[2]])]
           P(f) == f = [k \in 0 .. N |-> IF k = 0 THEN << <<>> >> ELSE Extended(f[k - 1], s[k])]
<1>1. N \in Nat /\ \A k \in 1 .. N : s[k] \in Chars
  BY LenProperties, ElementOfSeq
<1>2. << <<>> >> \in Lists
  <2>1. <<>> \in Seq(Chars) /\ << <<>> >> # <<>>
    BY EmptySeq
  <2> QED
    BY <2>1 DEF Lists
<1>3. F \in [Lists \X (1 .. N) -> Lists]
  BY <1>1, ExtendedList
<1>4. PICK f \in [0 .. N -> Lists] : f[0] = << <<>> >> /\ \A k \in 1 .. N : f[k] = F[<<f[k - 1], k>>]
  <2> DEFINE a == << <<>> >>
  <2>1. N \in Nat /\ a \in Lists
    BY <1>1, <1>2
  <2> HIDE DEF N, F, a
  <2>2. IsDefined(Lists, a, N, F)
    BY <1>3, <2>1, Recursion
  <2> QED
    BY <2>2 DEF a, IsDefined
<1>5. \A k \in 1 .. N : f[k] = Extended(f[k - 1], s[k])
  <2>1. \A k \in 1 .. N : k - 1 \in 0 .. N
    BY <1>1
  <2> QED
    BY <1>4, <2>1
<1>6. P(f)
  <2>1. \A k \in 0 .. N : k = 0 \/ k \in 1 .. N
    BY <1>1
  <2> HIDE DEF N, F
  <2> QED
    BY <1>4, <1>5, <2>1
<1>7. P(SplitUpTo(s))
  <2>1. SplitUpTo(s) = CHOOSE g : P(g)
    BY DEF SplitUpTo
  <2> HIDE DEF P
  <2> QED
    BY <1>6, <2>1
<1> DEFINE g == SplitUpTo(s)
<1>8. g[0] = << <<>> >> /\ \A k \in 1 .. N : g[k] = Extended(g[k - 1], s[k])
  <2> HIDE DEF g
  <2>1. P(g)
    BY <1>7 DEF g
  <2>2. 0 \in 0 .. N /\ \A k \in 1 .. N : k \in 0 .. N /\ k # 0
    BY <1>1
  <2> HIDE DEF N
  <2> QED
    BY <2>1, <2>2
<1>9. \A k \in 0 .. N : k \in {j \in 0 .. N : g[j] \in Lists}
  <2> DEFINE T == {j \in 0 .. N : g[j] \in Lists}
  <2> HIDE DEF g
  <2>1. 0 \in T
    <3>1. 0 \in 0 .. N /\ g[0] \in Lists
      BY <1>1, <1>2, <1>8
    <3> QED
      BY <3>1
  <2>2. ASSUME NEW k \in 0 .. (N - 1), k \in T
        PROVE  k + 1 \in T
    <3>1. k + 1 \in 1 .. N /\ k + 1 \in 0 .. N /\ (k + 1) - 1 = k
      BY <1>1
    <3> QED
      BY <1>1, <1>8, <2>2, <3>1, ExtendedList
  <2> HIDE DEF T
  <2>3. \A k \in 0 .. N : k \in T
    BY <1>1, <2>1, <2>2, UpToNumber
  <2> QED
    BY <2>3 DEF T
<1>10. g \in [0 .. N -> Lists]
  <2>1. g = [k \in 0 .. N |-> g[k]]
    BY <1>7
  <2> HIDE DEF g
  <2> QED
    BY <1>9, <2>1
<1>11. SplitAt(s) = g[N]
  BY Zenon DEF SplitAt, SplitUpTo
<1> QED
  BY <1>8, <1>10, <1>11

SlashedUpTo(p) ==
    CHOOSE f : f = [k \in 0 .. Len(p) |->
        IF k = 0 THEN <<>> ELSE f[k - 1] \o <<Slash>> \o p[k]]

LEMMA SlashIsChar == Slash \in Chars /\ <<Slash>> \in Seq(Chars) /\ Len(<<Slash>>) = 1
<1>1. Slash \in Chars
  BY CharsAssumption
<1>2. <<>> \in Seq(Chars) /\ Append(<<>>, Slash) = <<Slash>>
  BY EmptySeq
<1>3. <<Slash>> \in Seq(Chars)
  BY <1>1, <1>2, AppendProperties
<1> QED
  BY <1>1, <1>3

\* Strings put behind one another.
LEMMA StringsConcat ==
    ASSUME NEW s \in Seq(Chars), NEW t \in Seq(Chars)
    PROVE  s \o t \in Seq(Chars) /\ Len(s \o t) = Len(s) + Len(t)
BY ConcatProperties

LEMMA StringsAssociate ==
    ASSUME NEW s \in Seq(Chars), NEW t \in Seq(Chars), NEW u \in Seq(Chars)
    PROVE  (s \o t) \o u = s \o (t \o u)
BY ConcatAssociative

LEMMA SlashedSteps ==
    ASSUME NEW p \in Seq(Seq(Chars))
    PROVE  /\ SlashedUpTo(p) \in [0 .. Len(p) -> Seq(Chars)]
           /\ SlashedUpTo(p)[0] = <<>>
           /\ \A k \in 1 .. Len(p) : SlashedUpTo(p)[k] = SlashedUpTo(p)[k - 1] \o <<Slash>> \o p[k]
           /\ Slashed(p) = SlashedUpTo(p)[Len(p)]
<1> DEFINE N == Len(p)
           D == Seq(Chars)
           Step(x, k) == x \o <<Slash>> \o p[k]
           F == [x \in D \X (1 .. N) |-> Step(x[1], x[2])]
           P(f) == f = [k \in 0 .. N |-> IF k = 0 THEN <<>> ELSE Step(f[k - 1], k)]
<1>1. N \in Nat /\ <<>> \in D
  BY LenProperties, EmptySeq
<1>2. \A x \in D, k \in 1 .. N : Step(x, k) \in D
  <2> SUFFICES ASSUME NEW x \in D, NEW k \in 1 .. N
               PROVE  x \o <<Slash>> \o p[k] \in D
    OBVIOUS
  <2>1. p[k] \in D
    BY ElementOfSeq
  <2>2. x \o <<Slash>> \in D
    BY SlashIsChar, ConcatProperties
  <2> QED
    BY <2>1, <2>2, ConcatProperties
<1> HIDE DEF Step
<1>3. F \in [D \X (1 .. N) -> D]
  BY <1>2
<1>4. PICK f \in [0 .. N -> D] : f[0] = <<>> /\ \A k \in 1 .. N : f[k] = F[<<f[k - 1], k>>]
  <2> DEFINE a == <<>>
  <2>1. N \in Nat /\ a \in D
    BY <1>1
  <2> HIDE DEF N, F, a, D
  <2>2. IsDefined(D, a, N, F)
    BY <1>3, <2>1, Recursion
  <2> QED
    BY <2>2 DEF a, IsDefined
<1>5. P(f)
  <2>1. \A k \in 1 .. N : f[k] = Step(f[k - 1], k)
    <3>1. \A k \in 1 .. N : k - 1 \in 0 .. N
      BY <1>1
    <3> QED
      BY <1>4, <3>1
  <2>2. \A k \in 0 .. N : k = 0 \/ k \in 1 .. N
    BY <1>1
  <2> HIDE DEF N, F
  <2> QED
    BY <1>4, <2>1, <2>2
<1>6. P(SlashedUpTo(p))
  <2>1. SlashedUpTo(p) = CHOOSE f1 : P(f1)
    BY DEF SlashedUpTo, Step
  <2> HIDE DEF P
  <2> QED
    BY <1>5, <2>1
<1> DEFINE g == SlashedUpTo(p)
<1>7. g[0] = <<>> /\ \A k \in 1 .. N : g[k] = Step(g[k - 1], k)
  <2> HIDE DEF g
  <2>1. P(g)
    BY <1>6 DEF g
  <2>2. 0 \in 0 .. N /\ \A k \in 1 .. N : k \in 0 .. N /\ k # 0
    BY <1>1
  <2> HIDE DEF N
  <2> QED
    BY <2>1, <2>2
<1>8. \A k \in 0 .. N : g[k] \in D
  <2> DEFINE T == {j \in 0 .. N : g[j] \in D}
  <2> HIDE DEF g
  <2>1. 0 \in T
    <3>1. 0 \in 0 .. N /\ g[0] \in D
      BY <1>1, <1>7
    <3> QED
      BY <3>1
  <2>2. ASSUME NEW k \in 0 .. (N - 1), k \in T
        PROVE  k + 1 \in T
    <3>1. k + 1 \in 1 .. N /\ k + 1 \in 0 .. N /\ (k + 1) - 1 = k
      BY <1>1
    <3> QED
      BY <1>2, <1>7, <2>2, <3>1
  <2> HIDE DEF T
  <2>3. \A k \in 0 .. N : k \in T
    BY <1>1, <2>1, <2>2, UpToNumber
  <2> QED
    BY <2>3 DEF T
<1>9. g \in [0 .. N -> D]
  <2>1. g = [k \in 0 .. N |-> g[k]]
    BY <1>6
  <2> HIDE DEF g
  <2> QED
    BY <1>8, <2>1
<1>10. Slashed(p) = g[N]
  BY Zenon DEF Slashed, SlashedUpTo
<1> QED
  BY <1>7, <1>9, <1>10 DEF Step

\* A part more is a slash and the part more.
LEMMA SlashedAppend ==
    ASSUME NEW q \in Seq(Seq(Chars)), NEW x \in Seq(Chars)
    PROVE  /\ Slashed(q) \in Seq(Chars)
           /\ Slashed(Append(q, x)) = (Slashed(q) \o <<Slash>>) \o x
<1> DEFINE p == Append(q, x)
           N == Len(q)
           f == SlashedUpTo(q)
           g == SlashedUpTo(p)
           S == {k \in 0 .. N : g[k] = f[k]}
<1>1. /\ p \in Seq(Seq(Chars)) /\ Len(p) = N + 1 /\ p[N + 1] = x /\ N \in Nat
      /\ \A k \in 1 .. N : p[k] = q[k]
  BY AppendProperties, LenProperties
<1>2. f[0] = <<>> /\ \A k \in 1 .. N : f[k] = f[k - 1] \o <<Slash>> \o q[k]
  BY SlashedSteps
<1>3. g[0] = <<>> /\ \A k \in 1 .. N + 1 : g[k] = g[k - 1] \o <<Slash>> \o p[k]
  BY <1>1, SlashedSteps
<1>4. Slashed(q) = f[N] /\ Slashed(p) = g[N + 1] /\ f \in [0 .. N -> Seq(Chars)]
  BY <1>1, SlashedSteps
<1> HIDE DEF p, f, g
<1>5. \A k \in 0 .. N : k \in S
  <2>1. 0 \in S
    BY <1>1, <1>2, <1>3
  <2>2. ASSUME NEW k \in 0 .. (N - 1), k \in S
        PROVE  k + 1 \in S
    <3>1. k + 1 \in 1 .. N /\ k + 1 \in 1 .. N + 1 /\ k + 1 \in 0 .. N /\ (k + 1) - 1 = k
      BY <1>1
    <3> QED
      BY <1>1, <1>2, <1>3, <2>2, <3>1
  <2> HIDE DEF S
  <2> QED
    BY <1>1, <2>1, <2>2, UpToNumber
<1>6. g[N] = f[N] /\ f[N] \in Seq(Chars)
  <2>1. N \in 0 .. N
    BY <1>1
  <2> QED
    BY <1>4, <1>5, <2>1
<1>7. g[N + 1] = g[N] \o <<Slash>> \o x
  <2>1. N + 1 \in 1 .. N + 1 /\ (N + 1) - 1 = N
    BY <1>1
  <2> QED
    BY <1>1, <1>3, <2>1
<1> QED
  BY <1>4, <1>6, <1>7 DEF p

\* A list of strings has a last one.
LEMMA ListHasLast ==
    ASSUME NEW p \in Lists
    PROVE  \E q \in Seq(Seq(Chars)), x \in Seq(Chars) : p = Append(q, x)
BY SequenceEmptyOrAppend DEF Lists

LEMMA ExtendedAppend ==
    ASSUME NEW q \in Seq(Seq(Chars)), NEW x \in Seq(Chars), NEW c \in Chars
    PROVE  Extended(Append(q, x), c) =
               IF c = Slash THEN Append(Append(q, x), <<>>) ELSE Append(q, Append(x, c))
<1> DEFINE p == Append(q, x)
           y == Append(x, c)
<1>1. /\ p \in Seq(Seq(Chars)) /\ Len(p) = Len(q) + 1 /\ p[Len(q) + 1] = x
      /\ \A k \in 1 .. Len(q) : p[k] = q[k]
  BY AppendProperties
<1>2. CASE c = Slash
  BY <1>2 DEF Extended
<1>3. CASE c # Slash
  <2>1. y \in Seq(Chars) /\ Len(q) \in Nat
    BY AppendProperties, LenProperties
  <2>2. /\ Append(q, y) \in Seq(Seq(Chars)) /\ Len(Append(q, y)) = Len(q) + 1
        /\ Append(q, y)[Len(q) + 1] = y
        /\ \A k \in 1 .. Len(q) : Append(q, y)[k] = q[k]
    BY <2>1, AppendProperties
  <2>3. Extended(p, c) = [p EXCEPT ![Len(q) + 1] = y]
    BY <1>1, <1>3 DEF Extended
  <2> DEFINE e == Extended(p, c)
             r == Append(q, y)
             n == Len(q) + 1
  <2>4. n \in 1 .. Len(p) /\ n \in Nat /\ n = Len(q) + 1
    BY <1>1, <2>1
  <2> HIDE DEF p, y
  <2>5. /\ e \in Seq(Seq(Chars)) /\ Len(e) = n
        /\ \A j \in 1 .. n : e[j] = IF j = n THEN y ELSE p[j]
    BY <1>1, <2>1, <2>3, <2>4, ExceptSeq
  <2>6. \A j \in 1 .. n : e[j] = r[j]
    <3>1. \A j \in 1 .. n : j = n \/ j \in 1 .. Len(q)
      BY <2>1, <2>4
    <3> QED
      BY <1>1, <2>1, <2>2, <2>4, <2>5, <3>1
  <2>7. r \in Seq(Seq(Chars)) /\ Len(r) = n
    BY <2>2
  <2> HIDE DEF e, r, n
  <2>8. e = r
    BY <2>5, <2>6, <2>7, SeqEqual
  <2> QED
    BY <1>3, <2>8 DEF e, r, p, y
<1> QED
  BY <1>2, <1>3

\* A character more in the last part is a character more altogether.
LEMMA SlashedExtended ==
    ASSUME NEW p \in Lists, NEW c \in Chars
    PROVE  /\ Slashed(p) \in Seq(Chars)
           /\ Slashed(Extended(p, c)) = Append(Slashed(p), c)
<1>1. PICK q \in Seq(Seq(Chars)), x \in Seq(Chars) : p = Append(q, x)
  BY ListHasLast
<1> DEFINE b == Slashed(q) \o <<Slash>>
<1>2. p \in Seq(Seq(Chars)) /\ Slashed(p) \in Seq(Chars) /\ Slashed(p) = b \o x /\ b \in Seq(Chars)
  BY <1>1, SlashedAppend, SlashIsChar, ConcatProperties DEF Lists
<1>3. CASE c = Slash
  <2>1. Slashed(Append(p, <<>>)) = (Slashed(p) \o <<Slash>>) \o <<>>
    BY <1>2, SlashedAppend, EmptySeq
  <2>2. Append(Slashed(p), Slash) = Slashed(p) \o <<Slash>> /\ Append(Slashed(p), Slash) \in Seq(Chars)
    BY <1>2, SlashIsChar, AppendIsConcat, AppendProperties
  <2>3. (Slashed(p) \o <<Slash>>) \o <<>> = Slashed(p) \o <<Slash>>
    BY <2>2, ConcatEmptySeq
  <2>4. Extended(p, c) = Append(p, <<>>)
    BY <1>1, <1>3, ExtendedAppend
  <2> QED
    BY <1>2, <1>3, <2>1, <2>2, <2>3, <2>4
<1>4. CASE c # Slash
  <2>1. Append(x, c) \in Seq(Chars) /\ Append(x, c) = x \o <<c>>
    BY AppendProperties, AppendIsConcat
  <2>2. Extended(p, c) = Append(q, Append(x, c))
    BY <1>1, <1>4, ExtendedAppend
  <2>3. Slashed(Extended(p, c)) = b \o (x \o <<c>>)
    BY <2>1, <2>2, SlashedAppend
  <2>4. <<c>> \in Seq(Chars)
    OBVIOUS
  <2>5. Append(b \o x, c) = (b \o x) \o <<c>>
    BY <1>2, AppendIsConcat
  <2> HIDE DEF b
  <2>6. (b \o x) \o <<c>> = b \o (x \o <<c>>)
    BY <1>2, <2>4, ConcatAssociative
  <2> QED
    BY <1>2, <2>3, <2>5, <2>6
<1> QED
  BY <1>2, <1>3, <1>4

\* No part has a slash in it.
SlashFree(s) == \A i \in 1 .. Len(s) : s[i] # Slash
PartsSlashFree(p) == \A k \in 1 .. Len(p) : SlashFree(p[k])

LEMMA ExtendedSlashFree ==
    ASSUME NEW p \in Lists, NEW c \in Chars, PartsSlashFree(p)
    PROVE  PartsSlashFree(Extended(p, c))
<1>1. PICK q \in Seq(Seq(Chars)), x \in Seq(Chars) : p = Append(q, x)
  BY ListHasLast
<1>2. Len(q) \in Nat /\ Len(x) \in Nat
  BY LenProperties
<1>3. Len(p) = Len(q) + 1 /\ p[Len(q) + 1] = x /\ \A k \in 1 .. Len(q) : p[k] = q[k]
  BY <1>1, AppendProperties
<1>4. SlashFree(x) /\ \A k \in 1 .. Len(q) : SlashFree(q[k])
  <2>1. Len(q) + 1 \in 1 .. Len(p) /\ \A k \in 1 .. Len(q) : k \in 1 .. Len(p)
    BY <1>2, <1>3
  <2>2. \A k \in 1 .. Len(p) : SlashFree(p[k])
    BY DEF PartsSlashFree
  <2> QED
    BY <1>3, <2>1, <2>2
<1>5. CASE c = Slash
  <2>1. SlashFree(<<>>) /\ <<>> \in Seq(Chars)
    BY EmptySeq DEF SlashFree
  <2> DEFINE e == Append(p, <<>>)
  <2>2. /\ Len(e) = Len(p) + 1 /\ e[Len(p) + 1] = <<>> /\ Len(p) \in Nat
        /\ \A k \in 1 .. Len(p) : e[k] = p[k]
    BY <2>1, AppendProperties, LenProperties DEF Lists
  <2>3. \A k \in 1 .. Len(p) + 1 : k = Len(p) + 1 \/ k \in 1 .. Len(p)
    BY <2>2
  <2>4. Extended(p, c) = e
    BY <1>1, <1>5, ExtendedAppend
  <2> HIDE DEF e
  <2>5. PartsSlashFree(e)
    BY <2>1, <2>2, <2>3 DEF PartsSlashFree
  <2> QED
    BY <2>4, <2>5
<1>6. CASE c # Slash
  <2> DEFINE y == Append(x, c)
             e == Append(q, y)
  <2>1. /\ y \in Seq(Chars) /\ Len(y) = Len(x) + 1 /\ y[Len(x) + 1] = c
        /\ \A i \in 1 .. Len(x) : y[i] = x[i]
    BY AppendProperties
  <2>2. \A i \in 1 .. Len(x) + 1 : i = Len(x) + 1 \/ i \in 1 .. Len(x)
    BY <1>2
  <2>3. Extended(p, c) = e
    BY <1>1, <1>6, ExtendedAppend
  <2> HIDE DEF y
  <2>4. SlashFree(y)
    BY <1>4, <1>6, <2>1, <2>2 DEF SlashFree
  <2>5. Len(e) = Len(q) + 1 /\ e[Len(q) + 1] = y /\ \A k \in 1 .. Len(q) : e[k] = q[k]
    BY <2>1, AppendProperties
  <2>6. \A k \in 1 .. Len(q) + 1 : k = Len(q) + 1 \/ k \in 1 .. Len(q)
    BY <1>2
  <2> HIDE DEF e
  <2>7. PartsSlashFree(e)
    BY <1>4, <2>4, <2>5, <2>6 DEF PartsSlashFree
  <2> QED
    BY <2>3, <2>7
<1> QED
  BY <1>5, <1>6

\* Splitting loses nothing but the slashes.
LEMMA SplitFacts ==
    ASSUME NEW s \in Seq(Chars)
    PROVE  /\ SplitAt(s) \in Lists
           /\ PartsSlashFree(SplitAt(s))
           /\ Slashed(SplitAt(s)) = <<Slash>> \o s
<1> DEFINE N == Len(s)
           g == SplitUpTo(s)
           S == {k \in 0 .. N : /\ PartsSlashFree(g[k])
                                /\ Slashed(g[k]) = <<Slash>> \o SubSeq(s, 1, k)}
<1>1. N \in Nat
  BY LenProperties
<1>2. /\ g \in [0 .. N -> Lists] /\ g[0] = << <<>> >> /\ SplitAt(s) = g[N]
      /\ \A k \in 1 .. N : g[k] = Extended(g[k - 1], s[k])
  BY SplitSteps
<1> HIDE DEF g
<1>3. 0 \in S
  <2>1. PartsSlashFree(<< <<>> >>)
    BY DEF PartsSlashFree, SlashFree
  <2>2. <<>> \in Seq(Seq(Chars)) /\ <<>> \in Seq(Chars) /\ Len(<<>>) = 0
    BY EmptySeq
  <2>3. Slashed(<<>>) = <<>>
    <3>1. SlashedUpTo(<<>>)[0] = <<>> /\ Slashed(<<>>) = SlashedUpTo(<<>>)[Len(<<>>)]
      BY <2>2, SlashedSteps
    <3> QED
      BY <2>2, <3>1
  <2>4. Slashed(<< <<>> >>) = (<<>> \o <<Slash>>) \o <<>>
    <3>1. Append(<<>>, <<>>) = << <<>> >>
      OBVIOUS
    <3>2. Slashed(Append(<<>>, <<>>)) = (Slashed(<<>>) \o <<Slash>>) \o <<>>
      BY <2>2, SlashedAppend
    <3> QED
      BY <2>3, <3>1, <3>2
  <2>5. (<<>> \o <<Slash>>) \o <<>> = <<Slash>> \o <<>>
    BY SlashIsChar, ConcatEmptySeq
  <2>6. SubSeq(s, 1, 0) = <<>>
    BY SubSeqEmpty
  <2>7. 0 \in 0 .. N
    BY <1>1
  <2> QED
    BY <1>2, <2>1, <2>4, <2>5, <2>6, <2>7
<1>4. ASSUME NEW k \in 0 .. (N - 1), k \in S
      PROVE  k + 1 \in S
  <2>1. k + 1 \in 1 .. N /\ k + 1 \in 0 .. N /\ (k + 1) - 1 = k /\ k \in 0 .. N
    BY <1>1
  <2>2. s[k + 1] \in Chars /\ g[k] \in Lists /\ g[k + 1] = Extended(g[k], s[k + 1])
    <3>1. s[k + 1] \in Chars
      BY <2>1, ElementOfSeq
    <3> QED
      BY <1>2, <2>1, <3>1
  <2>3. PartsSlashFree(g[k + 1])
    BY <1>4, <2>2, ExtendedSlashFree
  <2> DEFINE u == SubSeq(s, 1, k)
  <2>4. u \in Seq(Chars)
    <3>1. \A i \in 1 .. k : i \in 1 .. N
      BY <1>1
    <3>2. \A i \in 1 .. k : s[i] \in Chars
      BY <3>1, ElementOfSeq
    <3> QED
      BY <3>2, SubSeqProperties
  <2>5. SubSeq(s, 1, k + 1) = u \o <<s[k + 1]>>
    <3>1. 1 \in 1 .. Len(s) /\ k + 1 \in 1 .. Len(s)
      BY <1>1
    <3> QED
      BY <2>1, <3>1, SubSeqRecursiveSecond
  <2>6. Slashed(g[k + 1]) = Append(<<Slash>> \o u, s[k + 1])
    BY <1>4, <2>2, SlashedExtended
  <2> HIDE DEF u
  <2>7. <<Slash>> \o u \in Seq(Chars) /\ <<s[k + 1]>> \in Seq(Chars)
    <3>1. <<Slash>> \o u \in Seq(Chars)
      BY <2>4, SlashIsChar, ConcatProperties
    <3> QED
      BY <2>2, <3>1
  <2>8. Append(<<Slash>> \o u, s[k + 1]) = (<<Slash>> \o u) \o <<s[k + 1]>>
    BY <2>2, <2>7, AppendIsConcat
  <2>9. (<<Slash>> \o u) \o <<s[k + 1]>> = <<Slash>> \o (u \o <<s[k + 1]>>)
    BY <2>4, <2>7, SlashIsChar, ConcatAssociative
  <2> QED
    BY <2>1, <2>3, <2>5, <2>6, <2>8, <2>9
<1>5. N \in S
  <2> HIDE DEF S
  <2>1. \A k \in 0 .. N : k \in S
    BY <1>1, <1>3, <1>4, UpToNumber
  <2>2. N \in 0 .. N
    BY <1>1
  <2> QED
    BY <2>1, <2>2
<1>6. N \in 0 .. N
  BY <1>1
<1>7. SubSeq(s, 1, N) = s
  BY SubSeqFull
<1> QED
  BY <1>2, <1>5, <1>6, <1>7

-----------------------------------------------------------------------------
\* Induction on the length of a sequence.
LEMMA SequenceInduction ==
    ASSUME NEW S, NEW T, <<>> \in T, \A s \in Seq(S), e \in S : s \in T => Append(s, e) \in T
    PROVE  \A s \in Seq(S) : s \in T
<1> SUFFICES ASSUME NEW r \in Seq(S)
             PROVE  r \in T
  OBVIOUS
<1> DEFINE U == {n \in 0 .. Len(r) : \A s \in Seq(S) : Len(s) = n => s \in T}
<1>1. Len(r) \in Nat
  BY LenProperties
<1>2. 0 \in U
  <2>1. 0 \in 0 .. Len(r) /\ \A s \in Seq(S) : Len(s) = 0 => s = <<>>
    BY <1>1, EmptySeq
  <2> QED
    BY <2>1
<1>3. ASSUME NEW n \in 0 .. (Len(r) - 1), n \in U
      PROVE  n + 1 \in U
  <2>1. n + 1 \in 0 .. Len(r) /\ n + 1 # 0 /\ n \in Nat
    BY <1>1
  <2>2. ASSUME NEW s \in Seq(S), Len(s) = n + 1
        PROVE  s \in T
    <3>1. s # <<>>
      BY <2>1, <2>2, EmptySeq
    <3>2. PICK q \in Seq(S), e \in S : s = Append(q, e)
      BY <3>1, SequenceEmptyOrAppend
    <3>3. Len(s) = Len(q) + 1 /\ Len(q) \in Nat
      BY <3>2, AppendProperties, LenProperties
    <3>4. Len(q) = n
      BY <2>1, <2>2, <3>3
    <3> QED
      BY <1>3, <3>2, <3>4
  <2> QED
    BY <2>1, <2>2
<1> HIDE DEF U
<1>4. \A n \in 0 .. Len(r) : n \in U
  BY <1>1, <1>2, <1>3, UpToNumber
<1>5. Len(r) \in 0 .. Len(r)
  BY <1>1
<1> QED
  BY <1>4, <1>5 DEF U

Kept(e, x) == IF e = x THEN <<>> ELSE <<e>>

WithoutUpTo(s, x) ==
    CHOOSE f : f = [k \in 0 .. Len(s) |->
        IF k = 0 THEN <<>> ELSE f[k - 1] \o Kept(s[k], x)]

LEMMA WithoutSteps ==
    ASSUME NEW S, NEW s \in Seq(S), NEW x
    PROVE  /\ WithoutUpTo(s, x) \in [0 .. Len(s) -> Seq(S)]
           /\ WithoutUpTo(s, x)[0] = <<>>
           /\ \A k \in 1 .. Len(s) :
                 WithoutUpTo(s, x)[k] =
                     WithoutUpTo(s, x)[k - 1] \o Kept(s[k], x)
           /\ Without(s, x) = WithoutUpTo(s, x)[Len(s)]
<1> DEFINE N == Len(s)
           D == Seq(S)
           Step(v, k) == v \o Kept(s[k], x)
           F == [v \in D \X (1 .. N) |-> Step(v[1], v[2])]
           P(f) == f = [k \in 0 .. N |-> IF k = 0 THEN <<>> ELSE Step(f[k - 1], k)]
<1>1. N \in Nat /\ <<>> \in D
  BY LenProperties, EmptySeq
<1>2. \A v \in D, k \in 1 .. N : Step(v, k) \in D
  <2> SUFFICES ASSUME NEW v \in D, NEW k \in 1 .. N
               PROVE  v \o Kept(s[k], x) \in D
    OBVIOUS
  <2>1. s[k] \in S
    BY ElementOfSeq
  <2>2. <<s[k]>> \in Seq(S)
    BY <2>1
  <2> DEFINE w == Kept(s[k], x)
  <2>3. w \in Seq(S)
    BY <1>1, <2>2 DEF Kept
  <2> HIDE DEF w
  <2>4. v \o w \in Seq(S)
    BY <2>3, ConcatProperties
  <2> QED
    BY <2>4 DEF w
<1> HIDE DEF Step
<1>3. F \in [D \X (1 .. N) -> D]
  BY <1>2
<1>4. PICK f \in [0 .. N -> D] : f[0] = <<>> /\ \A k \in 1 .. N : f[k] = F[<<f[k - 1], k>>]
  <2> DEFINE a == <<>>
  <2>1. N \in Nat /\ a \in D
    BY <1>1
  <2> HIDE DEF N, F, a, D
  <2>2. IsDefined(D, a, N, F)
    BY <1>3, <2>1, Recursion
  <2> QED
    BY <2>2 DEF a, IsDefined
<1>5. P(f)
  <2>1. \A k \in 1 .. N : f[k] = Step(f[k - 1], k)
    <3>1. \A k \in 1 .. N : k - 1 \in 0 .. N
      BY <1>1
    <3> QED
      BY <1>4, <3>1
  <2>2. \A k \in 0 .. N : k = 0 \/ k \in 1 .. N
    BY <1>1
  <2> HIDE DEF N, F
  <2> QED
    BY <1>4, <2>1, <2>2
<1>6. P(WithoutUpTo(s, x))
  <2>1. WithoutUpTo(s, x) = CHOOSE f1 : P(f1)
    BY DEF WithoutUpTo, Step
  <2> HIDE DEF P
  <2> QED
    BY <1>5, <2>1
<1> DEFINE g == WithoutUpTo(s, x)
<1>7. g[0] = <<>> /\ \A k \in 1 .. N : g[k] = Step(g[k - 1], k)
  <2> HIDE DEF g
  <2>1. P(g)
    BY <1>6 DEF g
  <2>2. 0 \in 0 .. N /\ \A k \in 1 .. N : k \in 0 .. N /\ k # 0
    BY <1>1
  <2> HIDE DEF N
  <2> QED
    BY <2>1, <2>2
<1>8. \A k \in 0 .. N : g[k] \in D
  <2> DEFINE T == {j \in 0 .. N : g[j] \in D}
  <2> HIDE DEF g
  <2>1. 0 \in T
    <3>1. 0 \in 0 .. N /\ g[0] \in D
      BY <1>1, <1>7
    <3> QED
      BY <3>1
  <2>2. ASSUME NEW k \in 0 .. (N - 1), k \in T
        PROVE  k + 1 \in T
    <3>1. k + 1 \in 1 .. N /\ k + 1 \in 0 .. N /\ (k + 1) - 1 = k
      BY <1>1
    <3> QED
      BY <1>2, <1>7, <2>2, <3>1
  <2> HIDE DEF T
  <2>3. \A k \in 0 .. N : k \in T
    BY <1>1, <2>1, <2>2, UpToNumber
  <2> QED
    BY <2>3 DEF T
<1>9. g \in [0 .. N -> D]
  <2>1. g = [k \in 0 .. N |-> g[k]]
    BY <1>6
  <2> HIDE DEF g
  <2> QED
    BY <1>8, <2>1
<1>10. Without(s, x) = g[N]
  BY Zenon DEF Without, WithoutUpTo, Kept
<1> QED
  BY <1>7, <1>9, <1>10 DEF Step

LEMMA WithoutAppend ==
    ASSUME NEW S, NEW s \in Seq(S), NEW e \in S, NEW x
    PROVE  /\ Without(<<>>, x) = <<>>
           /\ Without(Append(s, e), x) = Without(s, x) \o Kept(e, x)
<1> DEFINE p == Append(s, e)
           N == Len(s)
           f == WithoutUpTo(s, x)
           g == WithoutUpTo(p, x)
           T == {k \in 0 .. N : g[k] = f[k]}
<1>1. /\ p \in Seq(S) /\ Len(p) = N + 1 /\ p[N + 1] = e /\ N \in Nat
      /\ \A k \in 1 .. N : p[k] = s[k]
  BY AppendProperties, LenProperties
<1>2. f[0] = <<>> /\ \A k \in 1 .. N : f[k] = f[k - 1] \o Kept(s[k], x)
  BY WithoutSteps
<1>3. /\ g[0] = <<>>
      /\ \A k \in 1 .. N + 1 : g[k] = g[k - 1] \o Kept(p[k], x)
  BY <1>1, WithoutSteps
<1>4. Without(s, x) = f[N] /\ Without(p, x) = g[N + 1]
  BY <1>1, WithoutSteps
<1>5. Without(<<>>, x) = <<>>
  <2>1. <<>> \in Seq(S) /\ Len(<<>>) = 0
    BY EmptySeq
  <2>2. WithoutUpTo(<<>>, x)[0] = <<>> /\ Without(<<>>, x) = WithoutUpTo(<<>>, x)[Len(<<>>)]
    BY <2>1, WithoutSteps
  <2> QED
    BY <2>1, <2>2
<1> HIDE DEF p, f, g
<1>6. \A k \in 0 .. N : k \in T
  <2>1. 0 \in T
    BY <1>1, <1>2, <1>3
  <2>2. ASSUME NEW k \in 0 .. (N - 1), k \in T
        PROVE  k + 1 \in T
    <3>1. k + 1 \in 1 .. N /\ k + 1 \in 1 .. N + 1 /\ k + 1 \in 0 .. N /\ (k + 1) - 1 = k
      BY <1>1
    <3> QED
      BY <1>1, <1>2, <1>3, <2>2, <3>1
  <2> HIDE DEF T
  <2> QED
    BY <1>1, <2>1, <2>2, UpToNumber
<1>7. g[N] = f[N]
  <2>1. N \in 0 .. N
    BY <1>1
  <2> QED
    BY <1>6, <2>1
<1>8. g[N + 1] = g[N] \o Kept(e, x)
  <2>1. N + 1 \in 1 .. N + 1 /\ (N + 1) - 1 = N
    BY <1>1
  <2> QED
    BY <1>1, <1>3, <2>1
<1> QED
  BY <1>4, <1>5, <1>7, <1>8 DEF p

\* Nothing else is left out.
LEMMA WithoutFacts ==
    ASSUME NEW S, NEW s \in Seq(S), NEW x
    PROVE  /\ Without(s, x) \in Seq(S \ {x})
           /\ x \notin S => Without(s, x) = s
<1> DEFINE T == {r \in Seq(S) : /\ Without(r, x) \in Seq(S \ {x})
                                /\ x \notin S => Without(r, x) = r}
<1>1. <<>> \in T
  <2>1. <<>> \in Seq(S) /\ <<>> \in Seq(S \ {x})
    BY EmptySeq
  <2>2. Without(<<>>, x) = <<>>
    <3>1. <<>> \in Seq({0}) /\ 0 \in {0}
      BY EmptySeq
    <3> QED
      BY <3>1, WithoutAppend
  <2> QED
    BY <2>1, <2>2
<1>2. ASSUME NEW r \in Seq(S), NEW e \in S, r \in T
      PROVE  Append(r, e) \in T
  <2> DEFINE w == Without(r, x)
  <2>1. Without(Append(r, e), x) = w \o Kept(e, x)
    BY WithoutAppend
  <2>2. w \in Seq(S \ {x}) /\ (x \notin S => w = r) /\ Append(r, e) \in Seq(S)
    BY <1>2, AppendProperties
  <2> HIDE DEF w
  <2>3. CASE e = x
    <3>1. w \o <<>> = w
      BY <2>2, ConcatEmptySeq
    <3> QED
      BY <2>1, <2>2, <2>3, <3>1 DEF Kept
  <2>4. CASE e # x
    <3>1. e \in S \ {x}
      BY <2>4
    <3>2. w \o <<e>> = Append(w, e) /\ Append(w, e) \in Seq(S \ {x})
      BY <2>2, <3>1, AppendIsConcat, AppendProperties
    <3> QED
      BY <2>1, <2>2, <2>4, <3>2 DEF Kept
  <2> QED
    BY <2>3, <2>4
<1> HIDE DEF T
<1>3. s \in T
  BY <1>1, <1>2, SequenceInduction
<1> QED
  BY <1>3 DEF T

LEMMA WithoutConcat ==
    ASSUME NEW S, NEW s \in Seq(S), NEW t \in Seq(S), NEW x
    PROVE  Without(s \o t, x) = Without(s, x) \o Without(t, x)
<1> DEFINE T == {r \in Seq(S) : Without(s \o r, x) = Without(s, x) \o Without(r, x)}
<1>1. Without(s, x) \in Seq(S)
  <2>1. Without(s, x) \in Seq(S \ {x}) /\ S \ {x} \subseteq S
    BY WithoutFacts
  <2> QED
    BY <2>1, SeqMonotonic
<1>2. <<>> \in T
  <2>1. Without(<<>>, x) = <<>>
    <3>1. <<>> \in Seq({0}) /\ 0 \in {0}
      BY EmptySeq
    <3> QED
      BY <3>1, WithoutAppend
  <2>2. s \o <<>> = s /\ Without(s, x) \o <<>> = Without(s, x) /\ <<>> \in Seq(S)
    BY <1>1, ConcatEmptySeq, EmptySeq
  <2> QED
    BY <2>1, <2>2
<1>3. ASSUME NEW r \in Seq(S), NEW e \in S, r \in T
      PROVE  Append(r, e) \in T
  <2> DEFINE w == Kept(e, x)
  <2>1. Without(Append(r, e), x) = Without(r, x) \o w
    BY WithoutAppend
  <2>2. s \o r \in Seq(S) /\ <<e>> \in Seq(S)
    BY ConcatProperties
  <2>3. Append(s \o r, e) = s \o Append(r, e)
    <3>1. Append(s \o r, e) = (s \o r) \o <<e>> /\ Append(r, e) = r \o <<e>>
      BY <2>2, AppendIsConcat
    <3>2. (s \o r) \o <<e>> = s \o (r \o <<e>>)
      BY <2>2, ConcatAssociative
    <3> QED
      BY <3>1, <3>2
  <2>4. Without(Append(s \o r, e), x) = Without(s \o r, x) \o w
    <3> DEFINE q == s \o r
    <3>1. q \in Seq(S)
      BY <2>2
    <3> HIDE DEF q
    <3>2. Without(Append(q, e), x) = Without(q, x) \o w
      BY <3>1, WithoutAppend
    <3> QED
      BY <3>2 DEF q
  <2>5. w \in Seq(S) /\ Without(r, x) \in Seq(S)
    <3>1. Without(r, x) \in Seq(S \ {x}) /\ S \ {x} \subseteq S
      BY WithoutFacts
    <3>2. Without(r, x) \in Seq(S)
      BY <3>1, SeqMonotonic
    <3>3. <<>> \in Seq(S)
      BY EmptySeq
    <3> QED
      BY <2>2, <3>2, <3>3 DEF Kept
  <2> HIDE DEF w
  <2>6. (Without(s, x) \o Without(r, x)) \o w = Without(s, x) \o (Without(r, x) \o w)
    BY <1>1, <2>5, ConcatAssociative
  <2>7. Append(r, e) \in Seq(S)
    BY AppendProperties
  <2>8. Without(s \o r, x) = Without(s, x) \o Without(r, x)
    BY <1>3
  <2> QED
    BY <2>1, <2>3, <2>4, <2>6, <2>7, <2>8
<1> HIDE DEF T
<1>4. t \in T
  BY <1>2, <1>3, SequenceInduction
<1> QED
  BY <1>4 DEF T

-----------------------------------------------------------------------------
(***************************************************************************)
(* Positions in a string.                                                  *)
(***************************************************************************)
LEMMA LeastAndGreatest ==
    ASSUME NEW n \in Nat, NEW I \in SUBSET (1 .. n), I # {}
    PROVE  /\ Min(I) \in I /\ \A i \in I : Min(I) <= i
           /\ Max(I) \in I /\ \A i \in I : Max(I) >= i
<1>1. \E m \in I : \A i \in I : m <= i
  <2> DEFINE T == {k \in 0 .. n : \A i \in I : i > k}
  <2>1. CASE \A k \in 0 .. n : k \in T
    <3>1. n \in 0 .. n
      OBVIOUS
    <3>2. PICK i \in I : i > n
      BY <2>1, <3>1
    <3>3. i \in 1 .. n
      OBVIOUS
    <3> QED
      BY <3>2, <3>3
  <2>2. CASE ~ \A k \in 0 .. n : k \in T
    <3>1. 0 \in T
      OBVIOUS
    <3>2. PICK k \in 0 .. (n - 1) : k \in T /\ k + 1 \notin T
      <4> HIDE DEF T
      <4> QED
        BY <2>2, <3>1, UpToNumber
    <3>3. PICK m \in I : ~ (m > k + 1)
      BY <3>2
    <3>4. m = k + 1 /\ \A i \in I : i \in Nat /\ i > k
      BY <3>2, <3>3
    <3>5. \A i \in I : m <= i
      BY <3>4
    <3> QED
      BY <3>5
  <2> QED
    BY <2>1, <2>2
<1>2. \E m \in I : \A i \in I : m >= i
  <2> DEFINE T == {k \in 0 .. n : \A i \in I : i < (n + 1) - k}
  <2>1. CASE \A k \in 0 .. n : k \in T
    <3>1. n \in 0 .. n
      OBVIOUS
    <3>2. PICK i \in I : i < (n + 1) - n
      BY <2>1, <3>1
    <3>3. i \in 1 .. n
      OBVIOUS
    <3> QED
      BY <3>2, <3>3
  <2>2. CASE ~ \A k \in 0 .. n : k \in T
    <3>1. 0 \in T
      OBVIOUS
    <3>2. PICK k \in 0 .. (n - 1) : k \in T /\ k + 1 \notin T
      <4> HIDE DEF T
      <4> QED
        BY <2>2, <3>1, UpToNumber
    <3>3. PICK m \in I : ~ (m < (n + 1) - (k + 1))
      BY <3>2
    <3>4. m = n - k /\ \A i \in I : i \in Nat /\ i < (n + 1) - k
      BY <3>2, <3>3
    <3>5. \A i \in I : m >= i
      BY <3>4
    <3> QED
      BY <3>5
  <2> QED
    BY <2>1, <2>2
<1> QED
  BY <1>1, <1>2 DEF Min, Max

LEMMA FirstDotFacts ==
    ASSUME NEW s \in Seq(Chars)
    PROVE  /\ FirstDot(s) \in 0 .. Len(s)
           /\ FirstDot(s) = 0 => \A k \in 1 .. Len(s) : s[k] # Dot
           /\ FirstDot(s) # 0 =>
                 s[FirstDot(s)] = Dot /\ \A k \in 1 .. (FirstDot(s) - 1) : s[k] # Dot
<1> DEFINE n == Len(s)
           I == {i \in 1 .. n : s[i] = Dot}
<1>1. n \in Nat /\ I \in SUBSET (1 .. n)
  BY LenProperties
<1>2. FirstDot(s) = IF I # {} THEN Min(I) ELSE 0
  BY DEF FirstDot, SelectInSeq
<1>3. CASE I = {}
  BY <1>1, <1>2, <1>3
<1>4. CASE I # {}
  <2>1. Min(I) \in I /\ \A i \in I : Min(I) <= i
    <3> HIDE DEF I, n
    <3> QED
      BY <1>1, <1>4, LeastAndGreatest
  <2>2. FirstDot(s) = Min(I)
    BY <1>2, <1>4
  <2> DEFINE m == Min(I)
  <2> HIDE DEF m
  <2>3. m \in I /\ \A i \in I : m <= i
    BY <2>1 DEF m
  <2>4. \A k \in 1 .. (m - 1) : s[k] # Dot
    BY <1>1, <2>3
  <2> QED
    BY <1>1, <2>2, <2>3, <2>4 DEF m
<1> QED
  BY <1>3, <1>4

LEMMA MarkFacts ==
    ASSUME NEW s \in Seq(Chars)
    PROVE  /\ FirstMark(s) \in 0 .. Len(s) /\ LastMark(s) \in 0 .. Len(s)
           /\ FirstMark(s) = 0 => IsBlank(s)
           /\ FirstMark(s) # 0 => s[FirstMark(s)] # Blank
           /\ \A k \in 1 .. Len(s) : k < FirstMark(s) => s[k] = Blank
           /\ LastMark(s) # 0 => s[LastMark(s)] # Blank
           /\ \A k \in 1 .. Len(s) : k > LastMark(s) => s[k] = Blank
<1> DEFINE n == Len(s)
           I == {i \in 1 .. n : s[i] # Blank}
<1>1. n \in Nat /\ I \in SUBSET (1 .. n)
  BY LenProperties
<1>2. /\ FirstMark(s) = IF I # {} THEN Min(I) ELSE 0
      /\ LastMark(s) = IF I # {} THEN Max(I) ELSE 0
  BY DEF FirstMark, LastMark, SelectInSeq, SelectLastInSeq
<1>3. CASE I = {}
  BY <1>1, <1>2, <1>3 DEF IsBlank
<1>4. CASE I # {}
  <2>1. Min(I) \in I /\ Max(I) \in I /\ \A i \in I : Min(I) <= i /\ Max(I) >= i
    <3> HIDE DEF I, n
    <3> QED
      BY <1>1, <1>4, LeastAndGreatest
  <2>2. FirstMark(s) = Min(I) /\ LastMark(s) = Max(I)
    BY <1>2, <1>4
  <2> DEFINE m == Max(I)
  <2> HIDE DEF m
  <2>3. m \in I /\ \A i \in I : m >= i
    BY <2>1 DEF m
  <2>4. \A k \in 1 .. n : k > m => s[k] = Blank
    BY <1>1, <2>3
  <2> DEFINE m1 == Min(I)
  <2> HIDE DEF m1
  <2>5. m1 \in I /\ m1 \in 1 .. n /\ s[m1] # Blank /\ \A i \in I : m1 <= i
    BY <2>1 DEF m1
  <2>6. \A k \in 1 .. n : k < m1 => s[k] = Blank
    BY <1>1, <2>5
  <2>7. FirstMark(s) = m1 /\ LastMark(s) = m /\ m \in 1 .. n /\ s[m] # Blank
    BY <2>2, <2>3 DEF m, m1
  <2> HIDE DEF I
  <2> QED
    BY <1>1, <2>4, <2>5, <2>6, <2>7
<1> QED
  BY <1>3, <1>4

-----------------------------------------------------------------------------
(***************************************************************************)
(* The conversion to 8.3 names and back.                                   *)
(***************************************************************************)
LEMMA SanitizedFacts ==
    ASSUME NEW c \in Chars
    PROVE  /\ Sanitized(c) \in ValidChars
           /\ Sanitized(c) = Blank <=> c = Blank
           /\ c \in ValidChars => Sanitized(c) = c
<1>1. Blank \in ValidChars /\ "_" \in ValidChars /\ Blank # "_"
  BY CharsAssumption DEF Blank
<1>2. c \in DOMAIN Capital => Capital[c] \in ValidChars /\ Capital[c] # Blank
  BY CharsAssumption
<1> QED
  BY <1>1, <1>2 DEF Sanitized

LEMMA CharFacts ==
    /\ Blank \in Chars /\ Blank \in ValidChars /\ Dot \in Chars /\ Slash \in Chars
    /\ Dot \notin ValidChars /\ Slash \notin ValidChars /\ Dot # Slash
    /\ ValidChars \subseteq Chars
BY CharsAssumption DEF Dot, Slash, Blank

LEMMA StemFacts ==
    ASSUME NEW s \in Seq(Chars)
    PROVE  Stem(s) \in Seq(Chars) /\ Rest(s) \in Seq(Chars)
<1>1. Len(s) \in Nat /\ FirstDot(s) \in 0 .. Len(s) /\ \A k \in 1 .. Len(s) : s[k] \in Chars
  BY LenProperties, FirstDotFacts, ElementOfSeq
<1> DEFINE d == FirstDot(s)
<1> HIDE DEF d
<1>2. d \in 0 .. Len(s)
  BY <1>1 DEF d
<1>3. SubSeq(s, 1, d - 1) \in Seq(Chars)
  <2>1. \A i \in 1 .. (d - 1) : s[i] \in Chars
    BY <1>1, <1>2
  <2> QED
    BY <1>2, <2>1, SubSeqProperties
<1>4. SubSeq(s, d + 1, Len(s)) \in Seq(Chars)
  <2>1. \A i \in (d + 1) .. Len(s) : s[i] \in Chars
    BY <1>1, <1>2
  <2> QED
    BY <1>1, <1>2, <2>1, SubSeqProperties
<1>5. <<>> \in Seq(Chars)
  BY EmptySeq
<1> QED
  BY <1>3, <1>4, <1>5 DEF Stem, Rest, d

\* The names the conversion makes: no blank in front of a base that has a mark,
\* none between the marks of an extension.
ExtensionEnds(x, e) ==
    e \in 0 .. ExtensionLength /\ \A k \in 1 .. ExtensionLength : x[k] = Blank <=> k > e

LegalNames ==
    {name \in [base : [1 .. BaseLength -> ValidChars],
               extension : [1 .. ExtensionLength -> ValidChars]] :
        /\ name.base[1] = Blank => \A k \in 1 .. BaseLength : name.base[k] = Blank
        /\ \E e \in 0 .. ExtensionLength : ExtensionEnds(name.extension, e)}

LEMMA PaddedFacts ==
    ASSUME NEW s \in Seq(Chars), NEW n \in Nat
    PROVE  /\ \A k \in 1 .. n : Padded(s, n)[k] \in Chars
           /\ \A k \in 1 .. n : k <= Len(s) => Padded(s, n)[k] = s[k]
           /\ \A k \in 1 .. n : k > Len(s) => Padded(s, n)[k] = Blank
<1>1. Len(s) \in Nat /\ \A k \in 1 .. Len(s) : s[k] \in Chars
  BY LenProperties, ElementOfSeq
<1> QED
  BY <1>1, CharFacts DEF Padded

LEMMA ShortFileNameFacts ==
    ASSUME NEW s \in Seq(Chars)
    PROVE  /\ ShortFileName(s) \in [1 .. BaseLength -> ValidChars]
           /\ ShortFileName(s)[1] = Blank =>
                 \A k \in 1 .. BaseLength : ShortFileName(s)[k] = Blank
<1> DEFINE t == Stem(s)
           stem == IF IsBlank(t) THEN <<>> ELSE SubSeq(t, FirstMark(t), Len(t))
           b == ShortFileName(s)
<1>1. t \in Seq(Chars) /\ BaseLength \in Nat /\ 1 \in 1 .. BaseLength
  BY StemFacts, LengthAssumption
<1>2. Len(t) \in Nat /\ \A k \in 1 .. Len(t) : t[k] \in Chars
  BY <1>1, LenProperties, ElementOfSeq
<1>3. /\ FirstMark(t) \in 0 .. Len(t)
      /\ FirstMark(t) = 0 => IsBlank(t)
      /\ FirstMark(t) # 0 => t[FirstMark(t)] # Blank
  BY <1>1, MarkFacts
<1>4. b = [k \in 1 .. BaseLength |-> Sanitized(Padded(stem, BaseLength)[k])]
  BY DEF ShortFileName
<1> HIDE DEF t
<1>5. stem \in Seq(Chars) /\ (~IsBlank(t) => Len(stem) >= 1 /\ stem[1] # Blank)
  <2>1. CASE IsBlank(t)
    BY <2>1, EmptySeq
  <2>2. CASE ~IsBlank(t)
    <3> DEFINE m == FirstMark(t)
    <3> HIDE DEF m
    <3>1. m \in 1 .. Len(t) /\ t[m] # Blank
      BY <1>2, <1>3, <2>2 DEF m
    <3>2. \A i \in m .. Len(t) : t[i] \in Chars
      BY <1>2, <3>1
    <3>3. /\ SubSeq(t, m, Len(t)) \in Seq(Chars)
          /\ Len(SubSeq(t, m, Len(t))) = Len(t) - m + 1
          /\ \A i \in 1 .. Len(t) - m + 1 : SubSeq(t, m, Len(t))[i] = t[m + i - 1]
      BY <1>2, <3>1, <3>2, SubSeqProperties
    <3>4. 1 \in 1 .. Len(t) - m + 1 /\ m + 1 - 1 = m /\ Len(t) - m + 1 >= 1
      BY <1>2, <3>1
    <3>5. stem = SubSeq(t, m, Len(t))
      BY <2>2 DEF m
    <3> QED
      BY <3>1, <3>3, <3>4, <3>5
  <2> QED
    BY <2>1, <2>2
<1>6. IsBlank(t) => Len(stem) = 0
  BY EmptySeq
<1> HIDE DEF stem, b
<1>7. \A k \in 1 .. BaseLength : b[k] = Sanitized(Padded(stem, BaseLength)[k])
  BY <1>4
<1>8. b \in [1 .. BaseLength -> ValidChars]
  BY <1>1, <1>4, <1>5, PaddedFacts, SanitizedFacts
<1>9. b[1] = Blank => IsBlank(t)
  <2>1. ~IsBlank(t) => Padded(stem, BaseLength)[1] # Blank
    BY <1>1, <1>5, PaddedFacts
  <2>2. Padded(stem, BaseLength)[1] \in Chars
    BY <1>1, <1>5, PaddedFacts
  <2> QED
    BY <1>1, <1>7, <2>1, <2>2, SanitizedFacts
<1>10. IsBlank(t) => \A k \in 1 .. BaseLength : b[k] = Blank
  <2>1. IsBlank(t) => \A k \in 1 .. BaseLength : Padded(stem, BaseLength)[k] = Blank
    <3> SUFFICES ASSUME IsBlank(t), NEW k \in 1 .. BaseLength
                 PROVE  Padded(stem, BaseLength)[k] = Blank
      OBVIOUS
    <3>1. k > Len(stem)
      BY <1>1, <1>6
    <3> QED
      BY <1>1, <1>5, <3>1, PaddedFacts
  <2> QED
    BY <1>7, <2>1, CharFacts, SanitizedFacts
<1> QED
  BY <1>8, <1>9, <1>10 DEF b

LEMMA ShortFileExtensionFacts ==
    ASSUME NEW s \in Seq(Chars)
    PROVE  /\ ShortFileExtension(s) \in [1 .. ExtensionLength -> ValidChars]
           /\ \E e \in 0 .. ExtensionLength : ExtensionEnds(ShortFileExtension(s), e)
<1> DEFINE marks == Without(Rest(s), Blank)
           n == ExtensionLength
           x == ShortFileExtension(s)
<1>1. Rest(s) \in Seq(Chars) /\ n \in Nat
  BY StemFacts, LengthAssumption
<1>2. marks \in Seq(Chars \ {Blank})
  BY <1>1, WithoutFacts
<1>3. x = [k \in 1 .. n |-> Sanitized(Padded(marks, n)[k])]
  BY DEF ShortFileExtension
<1> HIDE DEF marks, x
<1>4. /\ marks \in Seq(Chars) /\ Len(marks) \in Nat
      /\ \A k \in 1 .. Len(marks) : marks[k] \in Chars /\ marks[k] # Blank
  <2>1. marks \in Seq(Chars)
    BY <1>2, SeqMonotonic
  <2>2. \A k \in 1 .. Len(marks) : marks[k] \in Chars \ {Blank}
    BY <1>2, ElementOfSeq
  <2> QED
    BY <2>1, <2>2, LenProperties
<1>5. x \in [1 .. n -> ValidChars]
  <2> HIDE DEF n
  <2> QED
    BY <1>1, <1>3, <1>4, PaddedFacts, SanitizedFacts
<1> DEFINE e == IF Len(marks) <= n THEN Len(marks) ELSE n
<1>6. e \in 0 .. n /\ \A k \in 1 .. n : k > e <=> k > Len(marks)
  BY <1>1, <1>4
<1>7. \A k \in 1 .. n : x[k] = Blank <=> k > Len(marks)
  <2> HIDE DEF n
  <2> TAKE k \in 1 .. n
  <2>1. Padded(marks, n)[k] \in Chars
    BY <1>1, <1>4, PaddedFacts
  <2>2. x[k] = Blank <=> Padded(marks, n)[k] = Blank
    BY <1>3, <2>1, SanitizedFacts
  <2>3. CASE k <= Len(marks)
    <3>1. Padded(marks, n)[k] = marks[k] /\ k \in 1 .. Len(marks)
      BY <1>1, <1>4, <2>3, PaddedFacts
    <3> QED
      BY <1>1, <1>4, <2>2, <2>3, <3>1
  <2>4. CASE k > Len(marks)
    <3>1. Padded(marks, n)[k] = Blank
      BY <1>1, <1>4, <2>4, PaddedFacts
    <3> QED
      BY <2>2, <2>4, <3>1
  <2> QED
    BY <1>1, <1>4, <2>3, <2>4
<1> HIDE DEF e
<1>8. ExtensionEnds(x, e)
  BY <1>6, <1>7 DEF ExtensionEnds
<1> QED
  BY <1>5, <1>6, <1>8 DEF x

LEMMA ConvertedIsLegal ==
    ASSUME NEW s \in Seq(Chars)
    PROVE  Converted(s) \in LegalNames
BY ShortFileNameFacts, ShortFileExtensionFacts DEF Converted, LegalNames

LEMMA ShownExtensionFacts ==
    ASSUME NEW x \in [1 .. ExtensionLength -> ValidChars], NEW e \in 0 .. ExtensionLength,
           ExtensionEnds(x, e)
    PROVE  /\ ShownExtension(x) \in Seq(ValidChars) /\ Len(ShownExtension(x)) = e
           /\ \A k \in 1 .. e : ShownExtension(x)[k] = x[k] /\ x[k] # Blank
<1> DEFINE n == ExtensionLength
           I == {i \in 1 .. Len(x) : x[i] = Blank}
           b == SelectInSeq(x, LAMBDA c : c = Blank)
<1>1. n \in Nat /\ x \in Seq(ValidChars) /\ Len(x) = n
  BY LengthAssumption
<1>2. \A k \in 1 .. n : x[k] \in ValidChars /\ (x[k] = Blank <=> k > e)
  BY DEF ExtensionEnds
<1>3. b = IF I # {} THEN Min(I) ELSE 0
  BY DEF SelectInSeq
<1>4. ShownExtension(x) = IF b = 0 THEN x ELSE SubSeq(x, 1, b - 1)
  BY DEF ShownExtension
<1>5. CASE e = n
  <2>1. I = {}
    BY <1>1, <1>2, <1>5
  <2>2. ShownExtension(x) = x
    BY <1>3, <1>4, <2>1
  <2> QED
    BY <1>1, <1>2, <1>5, <2>2
<1>6. CASE e # n
  <2>1. e + 1 \in I /\ \A i \in I : i >= e + 1
    BY <1>1, <1>2, <1>6
  <2>2. Min(I) \in I /\ \A i \in I : Min(I) <= i
    <3>1. I \in SUBSET (1 .. n) /\ I # {}
      BY <1>1, <2>1
    <3> HIDE DEF I, n
    <3> QED
      BY <1>1, <3>1, LeastAndGreatest
  <2>3. b = e + 1
    <3> DEFINE m == Min(I)
    <3>1. m \in I /\ m \in Nat
      BY <1>1, <2>2
    <3>2. b = m /\ m >= e + 1 /\ m <= e + 1
      BY <1>3, <2>1, <2>2, <3>1
    <3> HIDE DEF m
    <3> QED
      BY <3>1, <3>2
  <2>4. ShownExtension(x) = SubSeq(x, 1, e)
    <3>1. b # 0 /\ b - 1 = e
      BY <2>3
    <3> HIDE DEF b
    <3> QED
      BY <1>4, <3>1
  <2>5. \A k \in 1 .. e : k \in 1 .. n
    BY <1>1
  <2>6. /\ SubSeq(x, 1, e) \in Seq(ValidChars) /\ Len(SubSeq(x, 1, e)) = e
        /\ \A k \in 1 .. e : SubSeq(x, 1, e)[k] = x[k]
    <3>1. \A k \in 1 .. e : x[k] \in ValidChars
      BY <1>2, <2>5
    <3>2. /\ SubSeq(x, 1, e) \in Seq(ValidChars)
          /\ Len(SubSeq(x, 1, e)) = IF 1 <= e THEN e - 1 + 1 ELSE 0
          /\ \A k \in 1 .. e - 1 + 1 : SubSeq(x, 1, e)[k] = x[1 + k - 1]
      BY <3>1, SubSeqProperties
    <3> QED
      BY <3>2
  <2>7. \A k \in 1 .. e : x[k] # Blank
    BY <1>2, <2>5
  <2> QED
    BY <2>4, <2>6, <2>7
<1> QED
  BY <1>5, <1>6

\* The characters of a file name, whose extension has e marks.
Spells(name, e) ==
    LET s == FileName(name)
        l == LastMark(name.base)
    IN  /\ s \in Seq(Chars)
        /\ l \in 0 .. BaseLength
        /\ Len(s) = IF e = 0 THEN l ELSE l + 1 + e
        /\ \A k \in 1 .. l : s[k] = name.base[k]
        /\ e # 0 => s[l + 1] = Dot /\ \A k \in 1 .. e : s[l + 1 + k] = name.extension[k]

LEMMA BaseIsString ==
    ASSUME NEW name \in LegalNames
    PROVE  /\ name.base \in Seq(Chars) /\ Len(name.base) = BaseLength /\ BaseLength \in Nat
           /\ \A k \in 1 .. BaseLength : name.base[k] \in ValidChars
           /\ 1 \in 1 .. BaseLength
<1>1. name.base \in [1 .. BaseLength -> ValidChars] /\ BaseLength \in Nat \ {0}
  BY LengthAssumption DEF LegalNames
<1>2. name.base \in Seq(ValidChars) /\ Len(name.base) = BaseLength
  BY <1>1
<1> QED
  BY <1>1, <1>2, SeqMonotonic, CharFacts

LEMMA FileNameFacts ==
    ASSUME NEW name \in LegalNames, NEW e \in 0 .. ExtensionLength,
           ExtensionEnds(name.extension, e)
    PROVE  Spells(name, e)
<1> DEFINE b == name.base
           x == name.extension
           l == LastMark(b)
           u == SubSeq(b, 1, l)
           v == ShownExtension(x)
<1>1. b \in Seq(Chars) /\ Len(b) = BaseLength /\ BaseLength \in Nat
  BY BaseIsString
<1>2. l \in 0 .. BaseLength
  BY <1>1, MarkFacts
<1>3. x \in [1 .. ExtensionLength -> ValidChars] /\ ExtensionLength \in Nat \ {0}
  BY LengthAssumption DEF LegalNames
<1>4. /\ v \in Seq(ValidChars) /\ Len(v) = e
      /\ \A k \in 1 .. e : v[k] = x[k]
  BY <1>3, ShownExtensionFacts
<1>5. v \in Seq(Chars)
  BY <1>4, SeqMonotonic, CharFacts
<1>6. x[1] = Blank <=> e = 0
  <2>1. 1 \in 1 .. ExtensionLength
    BY <1>3
  <2>2. x[1] = Blank <=> 1 > e
    BY <2>1 DEF ExtensionEnds
  <2> QED
    BY <1>3, <2>2
<1>7. FileName(name) = u \o (IF e = 0 THEN <<>> ELSE <<Dot>> \o v)
  BY <1>6 DEF FileName
<1> HIDE DEF l, v, b, x
<1>8. u \in Seq(Chars) /\ Len(u) = l /\ \A k \in 1 .. l : u[k] = b[k]
  <2>1. \A k \in 1 .. l : b[k] \in Chars
    <3>1. \A k \in 1 .. l : k \in 1 .. Len(b)
      BY <1>1, <1>2
    <3> QED
      BY <1>1, <3>1, ElementOfSeq
  <2>2. /\ SubSeq(b, 1, l) \in Seq(Chars)
        /\ Len(SubSeq(b, 1, l)) = IF 1 <= l THEN l - 1 + 1 ELSE 0
        /\ \A k \in 1 .. l - 1 + 1 : SubSeq(b, 1, l)[k] = b[1 + k - 1]
    BY <1>2, <2>1, SubSeqProperties
  <2> QED
    BY <1>1, <1>2, <2>2
<1> HIDE DEF u
<1>9. CASE e = 0
  <2>1. u \o <<>> = u
    BY <1>8, ConcatEmptySeq
  <2>2. FileName(name) = u
    BY <1>7, <1>9, <2>1
  <2> QED
    BY <1>2, <1>8, <1>9, <2>2 DEF Spells, l, b
<1>10. CASE e # 0
  <2>1. <<Dot>> \in Seq(Chars) /\ Len(<<Dot>>) = 1 /\ <<Dot>>[1] = Dot
    BY CharFacts
  <2> DEFINE w == <<Dot>> \o v
             s == u \o w
  <2>2. /\ w \in Seq(Chars) /\ Len(w) = 1 + e
        /\ \A i \in 1 .. 1 + e : w[i] = IF i <= 1 THEN <<Dot>>[i] ELSE v[i - 1]
    BY <1>4, <1>5, <2>1, ConcatProperties
  <2>3. w[1] = Dot /\ \A k \in 1 .. e : w[1 + k] = x[k]
    <3>1. 1 \in 1 .. 1 + e /\ \A k \in 1 .. e : 1 + k \in 1 .. 1 + e /\ ~(1 + k <= 1) /\ (1 + k) - 1 = k
      OBVIOUS
    <3> HIDE DEF w
    <3> QED
      BY <1>4, <2>1, <2>2, <3>1
  <2> HIDE DEF w
  <2>4. /\ s \in Seq(Chars) /\ Len(s) = l + (1 + e)
        /\ \A i \in 1 .. l + (1 + e) : s[i] = IF i <= l THEN u[i] ELSE w[i - l]
    <3>1. /\ s \in Seq(Chars) /\ Len(s) = Len(u) + Len(w)
          /\ \A i \in 1 .. Len(u) + Len(w) :
                s[i] = IF i <= Len(u) THEN u[i] ELSE w[i - Len(u)]
      BY <1>8, <2>2, ConcatProperties
    <3> HIDE DEF s
    <3> QED
      BY <1>8, <2>2, <3>1
  <2>5. FileName(name) = s
    BY <1>7, <1>10 DEF w
  <2> HIDE DEF s
  <2>6. \A k \in 1 .. l : s[k] = b[k]
    <3>1. \A k \in 1 .. l : k \in 1 .. l + (1 + e) /\ k <= l
      BY <1>2
    <3> QED
      BY <1>8, <2>4, <3>1
  <2>7. s[l + 1] = Dot
    <3>1. l + 1 \in 1 .. l + (1 + e) /\ ~(l + 1 <= l) /\ (l + 1) - l = 1
      BY <1>1, <1>2
    <3> QED
      BY <2>3, <2>4, <3>1
  <2>8. \A k \in 1 .. e : s[l + 1 + k] = x[k]
    <3> TAKE k \in 1 .. e
    <3>1. /\ l + 1 + k \in 1 .. l + (1 + e) /\ ~(l + 1 + k <= l)
          /\ (l + 1 + k) - l = 1 + k
      BY <1>1, <1>2
    <3> QED
      BY <2>3, <2>4, <3>1
  <2>9. l + (1 + e) = l + 1 + e
    BY <1>1, <1>2
  <2> QED
    BY <1>2, <1>10, <2>4, <2>5, <2>6, <2>7, <2>8, <2>9 DEF Spells, l, b, x
<1> QED
  BY <1>9, <1>10

LEMMA FileNameSlashFree ==
    ASSUME NEW name \in LegalNames
    PROVE  FileName(name) \in Seq(Chars) /\ SlashFree(FileName(name))
<1>1. PICK e \in 0 .. ExtensionLength : ExtensionEnds(name.extension, e)
  BY DEF LegalNames
<1> DEFINE s == FileName(name)
           l == LastMark(name.base)
<1>2. /\ s \in Seq(Chars) /\ l \in 0 .. BaseLength
      /\ Len(s) = IF e = 0 THEN l ELSE l + 1 + e
      /\ \A k \in 1 .. l : s[k] = name.base[k]
      /\ e # 0 => s[l + 1] = Dot /\ \A k \in 1 .. e : s[l + 1 + k] = name.extension[k]
  BY <1>1, FileNameFacts DEF Spells
<1>3. /\ \A k \in 1 .. BaseLength : name.base[k] \in ValidChars
      /\ \A k \in 1 .. ExtensionLength : name.extension[k] \in ValidChars
      /\ BaseLength \in Nat /\ ExtensionLength \in Nat
  BY LengthAssumption DEF LegalNames
<1> HIDE DEF s, l
<1>4. ASSUME NEW i \in 1 .. Len(s)
      PROVE  s[i] # Slash
  <2>1. CASE i <= l
    <3>1. i \in 1 .. l /\ i \in 1 .. BaseLength
      BY <1>2, <1>3, <2>1
    <3> QED
      BY <1>2, <1>3, <3>1, CharFacts
  <2>2. CASE i > l
    <3>1. e # 0 /\ (i = l + 1 \/ (i - (l + 1) \in 1 .. e /\ l + 1 + (i - (l + 1)) = i))
      BY <1>2, <1>3, <2>2
    <3>2. CASE i = l + 1
      BY <1>2, <3>1, <3>2, CharFacts
    <3>3. CASE i # l + 1
      <4> DEFINE k == i - (l + 1)
      <4>1. k \in 1 .. e /\ l + 1 + k = i /\ k \in 1 .. ExtensionLength
        BY <1>3, <3>1, <3>3
      <4> HIDE DEF k
      <4>2. s[i] = name.extension[k]
        BY <1>2, <3>1, <4>1
      <4> QED
        BY <1>3, <4>1, <4>2, CharFacts
    <3> QED
      BY <3>2, <3>3
  <2> QED
    BY <1>2, <1>3, <2>1, <2>2
<1> QED
  BY <1>2, <1>4 DEF SlashFree, s

\* Where the name is cut into its base and its extension.
LEMMA FileNameIsCut ==
    ASSUME NEW name \in LegalNames, NEW e \in 0 .. ExtensionLength,
           ExtensionEnds(name.extension, e)
    PROVE  LET s == FileName(name)
               l == LastMark(name.base)
           IN  /\ Stem(s) \in Seq(Chars) /\ Len(Stem(s)) = l
               /\ \A k \in 1 .. l : Stem(s)[k] = name.base[k]
               /\ Rest(s) \in Seq(Chars) /\ Len(Rest(s)) = e
               /\ \A k \in 1 .. e : Rest(s)[k] = name.extension[k]
<1> DEFINE s == FileName(name)
           l == LastMark(name.base)
           b == name.base
           x == name.extension
           d == FirstDot(s)
<1>1. /\ s \in Seq(Chars) /\ l \in 0 .. BaseLength
      /\ Len(s) = IF e = 0 THEN l ELSE l + 1 + e
      /\ \A k \in 1 .. l : s[k] = b[k]
      /\ e # 0 => s[l + 1] = Dot /\ \A k \in 1 .. e : s[l + 1 + k] = x[k]
  BY FileNameFacts DEF Spells
<1>2. /\ \A k \in 1 .. BaseLength : b[k] \in ValidChars
      /\ \A k \in 1 .. ExtensionLength : x[k] \in ValidChars
      /\ BaseLength \in Nat /\ ExtensionLength \in Nat
  BY LengthAssumption DEF LegalNames
<1>3. /\ d \in 0 .. Len(s)
      /\ d = 0 => \A k \in 1 .. Len(s) : s[k] # Dot
      /\ d # 0 => s[d] = Dot /\ \A k \in 1 .. (d - 1) : s[k] # Dot
  BY <1>1, FirstDotFacts
<1>4. /\ Stem(s) = IF d = 0 THEN s ELSE SubSeq(s, 1, d - 1)
      /\ Rest(s) = IF d = 0 THEN <<>> ELSE SubSeq(s, d + 1, Len(s))
  BY DEF Stem, Rest
<1>5. l \in Nat /\ e \in Nat /\ \A i \in 1 .. Len(s) : s[i] \in Chars
  BY <1>1, <1>2, ElementOfSeq
<1> HIDE DEF s, l, d, b, x
<1>6. \A k \in 1 .. l : s[k] # Dot
  <2>1. \A k \in 1 .. l : k \in 1 .. BaseLength
    BY <1>1, <1>2
  <2> QED
    BY <1>1, <1>2, <2>1, CharFacts
<1>7. CASE e = 0
  <2>1. d = 0
    BY <1>1, <1>3, <1>5, <1>6, <1>7
  <2>2. Stem(s) = s /\ Rest(s) = <<>>
    BY <1>4, <2>1
  <2> QED
    BY <1>1, <1>7, <2>2, EmptySeq DEF s, l, b, x
<1>8. CASE e # 0
  <2>1. d = l + 1
    <3>1. l + 1 \in 1 .. Len(s) /\ s[l + 1] = Dot
      BY <1>1, <1>5, <1>8
    <3>2. d # 0
      BY <1>3, <3>1
    <3>3. d \in Nat /\ ~(d <= l)
      <4>1. d \in Nat /\ (d <= l => d \in 1 .. l)
        BY <1>3, <1>5, <3>2
      <4> QED
        BY <1>3, <1>6, <3>2, <4>1
    <3>4. ~(d > l + 1)
      <4>1. d > l + 1 => l + 1 \in 1 .. (d - 1)
        BY <1>5, <3>3
      <4> QED
        BY <1>3, <3>1, <3>2, <4>1
    <3> QED
      BY <1>5, <3>3, <3>4
  <2>2. Stem(s) = SubSeq(s, 1, l) /\ Rest(s) = SubSeq(s, l + 2, l + 1 + e)
    <3>1. d # 0 /\ d - 1 = l /\ d + 1 = l + 2 /\ Len(s) = l + 1 + e
      BY <1>1, <1>5, <1>8, <2>1
    <3> QED
      BY <1>4, <3>1
  <2>3. /\ SubSeq(s, 1, l) \in Seq(Chars) /\ Len(SubSeq(s, 1, l)) = l
        /\ \A k \in 1 .. l : SubSeq(s, 1, l)[k] = b[k]
    <3>1. \A i \in 1 .. l : i \in 1 .. Len(s)
      BY <1>1, <1>5, <1>8
    <3>2. \A i \in 1 .. l : s[i] \in Chars
      BY <1>5, <3>1
    <3>3. /\ SubSeq(s, 1, l) \in Seq(Chars)
          /\ Len(SubSeq(s, 1, l)) = IF 1 <= l THEN l - 1 + 1 ELSE 0
          /\ \A k \in 1 .. l - 1 + 1 : SubSeq(s, 1, l)[k] = s[1 + k - 1]
      BY <1>5, <3>2, SubSeqProperties
    <3>4. /\ Len(SubSeq(s, 1, l)) = l
          /\ \A k \in 1 .. l : SubSeq(s, 1, l)[k] = s[k]
      BY <1>5, <3>3
    <3> QED
      BY <1>1, <3>3, <3>4
  <2>4. /\ SubSeq(s, l + 2, l + 1 + e) \in Seq(Chars)
        /\ Len(SubSeq(s, l + 2, l + 1 + e)) = e
        /\ \A k \in 1 .. e : SubSeq(s, l + 2, l + 1 + e)[k] = x[k]
    <3> DEFINE m == l + 2
               n == l + 1 + e
               r == SubSeq(s, m, n)
    <3>1. \A i \in m .. n : i \in 1 .. Len(s)
      BY <1>1, <1>5, <1>8
    <3>2. \A i \in m .. n : s[i] \in Chars
      BY <1>5, <3>1
    <3>3. m \in Int /\ n \in Int /\ n - m + 1 = e /\ m <= n
      BY <1>5, <1>8
    <3> HIDE DEF m, n
    <3>4. /\ r \in Seq(Chars) /\ Len(r) = IF m <= n THEN n - m + 1 ELSE 0
          /\ \A k \in 1 .. n - m + 1 : r[k] = s[m + k - 1]
      BY <3>2, <3>3, SubSeqProperties
    <3> HIDE DEF r
    <3>5. r \in Seq(Chars) /\ Len(r) = e /\ \A k \in 1 .. e : r[k] = s[m + k - 1]
      BY <3>3, <3>4
    <3>6. \A k \in 1 .. e : r[k] = x[k]
      <4> TAKE k \in 1 .. e
      <4>1. m + k - 1 = l + 1 + k
        BY <1>5 DEF m
      <4> QED
        BY <1>1, <1>8, <3>5, <4>1
    <3> QED
      BY <3>5, <3>6 DEF r, m, n
  <2> QED
    BY <2>2, <2>3, <2>4 DEF s, l, b, x
<1> QED
  BY <1>7, <1>8

\* A converted name is the conversion of the name that is shown for it.
LEMMA ConvertedFileName ==
    ASSUME NEW name \in LegalNames
    PROVE  Converted(FileName(name)) = name
<1>1. PICK e \in 0 .. ExtensionLength : ExtensionEnds(name.extension, e)
  BY DEF LegalNames
<1> DEFINE s == FileName(name)
           b == name.base
           x == name.extension
           l == LastMark(b)
           t == Stem(s)
           r == Rest(s)
<1>2. /\ t \in Seq(Chars) /\ Len(t) = l
      /\ \A k \in 1 .. l : t[k] = b[k]
      /\ r \in Seq(Chars) /\ Len(r) = e
      /\ \A k \in 1 .. e : r[k] = x[k]
  BY <1>1, FileNameIsCut
<1>3. /\ b \in [1 .. BaseLength -> ValidChars] /\ x \in [1 .. ExtensionLength -> ValidChars]
      /\ name = [base |-> b, extension |-> x]
      /\ b[1] = Blank => \A k \in 1 .. BaseLength : b[k] = Blank
      /\ BaseLength \in Nat /\ ExtensionLength \in Nat
  BY LengthAssumption DEF LegalNames
<1>4. /\ \A k \in 1 .. ExtensionLength : x[k] = Blank <=> k > e
  BY <1>1 DEF ExtensionEnds
<1>5. /\ l \in 0 .. BaseLength
      /\ l # 0 => b[l] # Blank
      /\ \A k \in 1 .. BaseLength : k > l => b[k] = Blank
  BY BaseIsString, MarkFacts
<1>6. /\ \A k \in 1 .. BaseLength : b[k] \in ValidChars /\ b[k] \in Chars /\ Sanitized(b[k]) = b[k]
      /\ \A k \in 1 .. ExtensionLength :
            x[k] \in ValidChars /\ x[k] \in Chars /\ Sanitized(x[k]) = x[k]
  BY <1>3, CharFacts, SanitizedFacts
<1> DEFINE stem == IF IsBlank(t) THEN <<>> ELSE SubSeq(t, FirstMark(t), Len(t))
<1>7. ShortFileName(s) = [k \in 1 .. BaseLength |-> Sanitized(Padded(stem, BaseLength)[k])]
  BY DEF ShortFileName
<1> DEFINE marks == Without(r, Blank)
<1>8. ShortFileExtension(s) =
          [k \in 1 .. ExtensionLength |-> Sanitized(Padded(marks, ExtensionLength)[k])]
  BY DEF ShortFileExtension
<1> HIDE DEF s, l, t, r, b, x
<1>9. stem \in Seq(Chars) /\ Len(stem) = l /\ \A k \in 1 .. l : stem[k] = b[k]
  <2>1. CASE l = 0
    <3>1. IsBlank(t)
      BY <1>2, <2>1 DEF IsBlank
    <3> QED
      BY <2>1, <3>1, EmptySeq
  <2>2. CASE l # 0
    <3>1. 1 \in 1 .. l /\ l \in 1 .. l /\ 1 \in 1 .. BaseLength /\ l \in 1 .. BaseLength
      BY <1>3, <1>5, <2>2
    <3>2. b[1] # Blank
      BY <1>3, <1>5, <2>2, <3>1
    <3>3. t[1] # Blank /\ ~IsBlank(t)
      BY <1>2, <3>1, <3>2 DEF IsBlank
    <3>4. FirstMark(t) = 1
      <4>1. /\ FirstMark(t) \in 0 .. Len(t)
            /\ FirstMark(t) = 0 => IsBlank(t)
            /\ \A k \in 1 .. Len(t) : k < FirstMark(t) => t[k] = Blank
        BY <1>2, MarkFacts
      <4> DEFINE m == FirstMark(t)
      <4> HIDE DEF m
      <4>2. m \in Nat /\ m # 0 /\ ~(1 < m)
        BY <1>2, <1>5, <3>1, <3>3, <4>1 DEF m
      <4>3. m = 1
        BY <4>2
      <4> QED
        BY <4>3 DEF m
    <3>5. SubSeq(t, 1, Len(t)) = t
      BY <1>2, SubSeqFull
    <3>6. stem = t
      BY <3>3, <3>4, <3>5
    <3> QED
      BY <1>2, <3>6
  <2> QED
    BY <2>1, <2>2
<1> HIDE DEF stem
<1>10. ShortFileName(s) = b
  <2>1. \A k \in 1 .. BaseLength : Padded(stem, BaseLength)[k] = b[k]
    <3> TAKE k \in 1 .. BaseLength
    <3>1. CASE k <= l
      <4>1. k \in 1 .. l
        BY <1>3, <1>5, <3>1
      <4>2. Padded(stem, BaseLength)[k] = stem[k]
        BY <1>3, <1>9, <3>1, PaddedFacts
      <4> QED
        BY <1>9, <4>1, <4>2
    <3>2. CASE k > l
      <4>1. Padded(stem, BaseLength)[k] = Blank
        BY <1>3, <1>9, <3>2, PaddedFacts
      <4> QED
        BY <1>5, <3>2, <4>1
    <3> QED
      BY <1>3, <1>5, <3>1, <3>2
  <2>2. b = [k \in 1 .. BaseLength |-> b[k]]
    BY <1>3
  <2> QED
    BY <1>6, <1>7, <2>1, <2>2
<1>11. marks = r
  <2>1. \A k \in 1 .. e : k \in 1 .. ExtensionLength /\ ~(k > e)
    BY <1>3
  <2>2. \A k \in 1 .. Len(r) : r[k] \in Chars \ {Blank}
    BY <1>2, <1>4, <1>6, <2>1
  <2>3. r \in [1 .. Len(r) -> Chars] /\ Len(r) \in Nat
    BY <1>2, LenProperties
  <2>4. r \in [1 .. Len(r) -> Chars \ {Blank}]
    BY <2>2, <2>3
  <2>5. r \in Seq(Chars \ {Blank})
    BY <2>3, <2>4, SeqDef
  <2>6. Blank \notin Chars \ {Blank}
    OBVIOUS
  <2> HIDE DEF marks
  <2> QED
    BY <2>5, <2>6, WithoutFacts DEF marks
<1> HIDE DEF marks
<1>12. ShortFileExtension(s) = x
  <2>1. \A k \in 1 .. ExtensionLength : Padded(marks, ExtensionLength)[k] = x[k]
    <3> TAKE k \in 1 .. ExtensionLength
    <3>1. CASE k <= e
      <4>1. k \in 1 .. e
        BY <1>3, <3>1
      <4>2. Padded(marks, ExtensionLength)[k] = r[k]
        BY <1>2, <1>3, <1>11, <3>1, PaddedFacts
      <4> QED
        BY <1>2, <4>1, <4>2
    <3>2. CASE k > e
      <4>1. Padded(marks, ExtensionLength)[k] = Blank
        BY <1>2, <1>3, <1>11, <3>2, PaddedFacts
      <4> QED
        BY <1>4, <3>2, <4>1
    <3> QED
      BY <1>3, <3>1, <3>2
  <2>2. x = [k \in 1 .. ExtensionLength |-> x[k]]
    BY <1>3
  <2> QED
    BY <1>6, <1>8, <2>1, <2>2
<1>13. Converted(s) = [base |-> b, extension |-> x]
  BY <1>10, <1>12 DEF Converted
<1> QED
  BY <1>3, <1>13 DEF s

\* The length counted for a name is never too large, and too small only with a
\* blank inside.
LEMMA NameLengthFacts ==
    ASSUME NEW name \in LegalNames
    PROVE  /\ NameLength(name) \in Nat /\ Len(FileName(name)) \in Nat
           /\ NameLength(name) <= Len(FileName(name))
           /\ NameLength(name) = Len(FileName(name)) <=> ~HasInnerBlank(name)
<1>1. PICK e \in 0 .. ExtensionLength : ExtensionEnds(name.extension, e)
  BY DEF LegalNames
<1> DEFINE b == name.base
           x == name.extension
           l == LastMark(b)
           I == {k \in 1 .. Len(b) : b[k] # Blank}
<1>2. /\ FileName(name) \in Seq(Chars) /\ l \in 0 .. BaseLength
      /\ Len(FileName(name)) = IF e = 0 THEN l ELSE l + 1 + e
  BY <1>1, FileNameFacts DEF Spells
<1>3. /\ x \in [1 .. ExtensionLength -> ValidChars] /\ ExtensionLength \in Nat \ {0}
      /\ \A k \in 1 .. ExtensionLength : x[k] = Blank <=> k > e
  BY <1>1, LengthAssumption DEF LegalNames, ExtensionEnds
<1>4. /\ b \in Seq(Chars) /\ Len(b) = BaseLength /\ BaseLength \in Nat
      /\ \A k \in 1 .. BaseLength : k > l => b[k] = Blank
  BY BaseIsString, MarkFacts
<1>5. Marks(b) = Cardinality(I)
  BY DEF Marks
<1>6. Marks(x) = e
  <2>1. {k \in 1 .. Len(x) : x[k] # Blank} = 1 .. e
    <3>1. Len(x) = ExtensionLength
      BY <1>3
    <3> HIDE DEF x
    <3> QED
      BY <1>3, <3>1
  <2>2. Cardinality(1 .. e) = IF 1 > e THEN 0 ELSE e - 1 + 1
    BY FS_Interval
  <2>3. Marks(x) = Cardinality(1 .. e)
    BY <2>1 DEF Marks
  <2> QED
    BY <1>3, <2>2, <2>3
<1>7. NameLength(name) = Marks(b) + Marks(x) + (IF e = 0 THEN 0 ELSE 1)
  <2>1. 1 \in 1 .. ExtensionLength /\ (1 > e <=> e = 0)
    BY <1>3
  <2>2. x[1] = Blank <=> e = 0
    BY <1>3, <2>1
  <2> QED
    BY <2>2 DEF NameLength
<1>8. HasInnerBlank(name) <=> Marks(b) # l
  BY DEF HasInnerBlank
<1> HIDE DEF l, b, x
<1>9. Marks(b) \in Nat /\ Marks(b) <= l
  <2>1. I \subseteq 1 .. l
    BY <1>2, <1>4
  <2>2. IsFiniteSet(1 .. l) /\ Cardinality(1 .. l) = IF 1 > l THEN 0 ELSE l - 1 + 1
    BY <1>2, FS_Interval
  <2> HIDE DEF I
  <2>3. IsFiniteSet(I) /\ Cardinality(I) <= Cardinality(1 .. l)
    BY <2>1, <2>2, FS_Subset
  <2>4. Cardinality(I) \in Nat
    BY <2>3, FS_CardinalityType
  <2>5. Cardinality(1 .. l) = l
    BY <1>2, <1>4, <2>2
  <2> QED
    BY <1>5, <2>3, <2>4, <2>5
<1> DEFINE c == Marks(b)
<1> HIDE DEF c
<1>10. c \in Nat /\ c <= l /\ l \in Nat /\ e \in Nat
  BY <1>2, <1>3, <1>4, <1>9 DEF c
<1>11. NameLength(name) = c + e + (IF e = 0 THEN 0 ELSE 1)
  BY <1>6, <1>7 DEF c
<1>12. HasInnerBlank(name) <=> c # l
  BY <1>8 DEF c
<1> QED
  BY <1>2, <1>10, <1>11, <1>12

-----------------------------------------------------------------------------
(***************************************************************************)
(* Splitting what was joined.                                              *)
(***************************************************************************)
LEMMA SplitAppend ==
    ASSUME NEW s \in Seq(Chars), NEW c \in Chars
    PROVE  /\ SplitAt(<<>>) = << <<>> >>
           /\ SplitAt(Append(s, c)) = Extended(SplitAt(s), c)
<1> DEFINE p == Append(s, c)
           N == Len(s)
           f == SplitUpTo(s)
           g == SplitUpTo(p)
           S == {k \in 0 .. N : g[k] = f[k]}
<1>1. /\ p \in Seq(Chars) /\ Len(p) = N + 1 /\ p[N + 1] = c /\ N \in Nat
      /\ \A k \in 1 .. N : p[k] = s[k]
  BY AppendProperties, LenProperties
<1>2. f[0] = << <<>> >> /\ \A k \in 1 .. N : f[k] = Extended(f[k - 1], s[k])
  BY SplitSteps
<1>3. g[0] = << <<>> >> /\ \A k \in 1 .. N + 1 : g[k] = Extended(g[k - 1], p[k])
  BY <1>1, SplitSteps
<1>4. SplitAt(s) = f[N] /\ SplitAt(p) = g[N + 1]
  BY <1>1, SplitSteps
<1>5. SplitAt(<<>>) = << <<>> >>
  <2>1. <<>> \in Seq(Chars) /\ Len(<<>>) = 0
    BY EmptySeq
  <2>2. SplitUpTo(<<>>)[0] = << <<>> >> /\ SplitAt(<<>>) = SplitUpTo(<<>>)[Len(<<>>)]
    BY <2>1, SplitSteps
  <2> QED
    BY <2>1, <2>2
<1> HIDE DEF p, f, g
<1>6. \A k \in 0 .. N : k \in S
  <2>1. 0 \in S
    BY <1>1, <1>2, <1>3
  <2>2. ASSUME NEW k \in 0 .. (N - 1), k \in S
        PROVE  k + 1 \in S
    <3>1. k + 1 \in 1 .. N /\ k + 1 \in 1 .. N + 1 /\ k + 1 \in 0 .. N /\ (k + 1) - 1 = k
      BY <1>1
    <3> QED
      BY <1>1, <1>2, <1>3, <2>2, <3>1
  <2> HIDE DEF S
  <2> QED
    BY <1>1, <2>1, <2>2, UpToNumber
<1>7. g[N] = f[N]
  <2>1. N \in 0 .. N
    BY <1>1
  <2> QED
    BY <1>6, <2>1
<1>8. g[N + 1] = Extended(g[N], c)
  <2>1. N + 1 \in 1 .. N + 1 /\ (N + 1) - 1 = N
    BY <1>1
  <2> QED
    BY <1>1, <1>3, <2>1
<1> QED
  BY <1>4, <1>5, <1>7, <1>8 DEF p

\* Appending to the second of two sequences.
LEMMA AppendConcat ==
    ASSUME NEW S, NEW s \in Seq(S), NEW t \in Seq(S), NEW e \in S
    PROVE  s \o Append(t, e) = Append(s \o t, e)
<1>1. s \o t \in Seq(S) /\ <<e>> \in Seq(S)
  BY ConcatProperties
<1>2. Append(s \o t, e) = (s \o t) \o <<e>> /\ Append(t, e) = t \o <<e>>
  BY <1>1, AppendIsConcat
<1>3. (s \o t) \o <<e>> = s \o (t \o <<e>>)
  BY <1>1, ConcatAssociative
<1> QED
  BY <1>2, <1>3

LEMMA ListsAppendOne ==
    ASSUME NEW s \in Seq(Seq(Chars)), NEW x \in Seq(Chars)
    PROVE  Append(s, x) \in Seq(Seq(Chars)) /\ Append(s, x) # <<>>
BY AppendProperties

LEMMA ListsAppend ==
    ASSUME NEW s \in Seq(Seq(Chars)), NEW t \in Seq(Seq(Chars)), NEW x \in Seq(Chars)
    PROVE  s \o Append(t, x) = Append(s \o t, x) /\ s \o t \in Seq(Seq(Chars))
BY AppendConcat, ConcatProperties

LEMMA ExtendedConcat ==
    ASSUME NEW a \in Seq(Seq(Chars)), NEW b \in Lists, NEW c \in Chars
    PROVE  Extended(a \o b, c) = a \o Extended(b, c)
<1>1. PICK q \in Seq(Seq(Chars)), x \in Seq(Chars) : b = Append(q, x)
  BY ListHasLast
<1>2. a \o q \in Seq(Seq(Chars)) /\ a \o b = Append(a \o q, x) /\ b \in Seq(Seq(Chars))
  BY <1>1, ListsAppend DEF Lists
<1>3. CASE c = Slash
  <2>1. Extended(a \o b, c) = Append(a \o b, <<>>)
    <3> DEFINE r == a \o q
    <3>1. r \in Seq(Seq(Chars))
      BY <1>2
    <3> HIDE DEF r
    <3>2. Extended(Append(r, x), c) = Append(Append(r, x), <<>>)
      BY <1>3, <3>1, ExtendedAppend
    <3> QED
      BY <1>2, <3>2 DEF r
  <2>2. Extended(b, c) = Append(b, <<>>)
    BY <1>1, <1>3, ExtendedAppend
  <2>3. a \o Append(b, <<>>) = Append(a \o b, <<>>)
    <3> DEFINE y == <<>>
    <3>1. y \in Seq(Chars)
      BY EmptySeq
    <3>2. b \in Seq(Seq(Chars))
      BY <1>2
    <3> HIDE DEF y
    <3>3. a \o Append(b, y) = Append(a \o b, y)
      BY <3>1, <3>2, ListsAppend
    <3> QED
      BY <3>3 DEF y
  <2> QED
    BY <2>1, <2>2, <2>3
<1>4. CASE c # Slash
  <2> DEFINE y == Append(x, c)
  <2>1. Extended(a \o b, c) = Append(a \o q, y)
    <3> DEFINE r == a \o q
    <3>1. r \in Seq(Seq(Chars))
      BY <1>2
    <3> HIDE DEF r
    <3>2. Extended(Append(r, x), c) = Append(r, y)
      BY <1>4, <3>1, ExtendedAppend
    <3> QED
      BY <1>2, <3>2 DEF r
  <2>2. Extended(b, c) = Append(q, y)
    BY <1>1, <1>4, ExtendedAppend
  <2>3. y \in Seq(Chars)
    BY AppendProperties
  <2> HIDE DEF y
  <2>4. a \o Append(q, y) = Append(a \o q, y)
    BY <2>3, ListsAppend
  <2> QED
    BY <2>1, <2>2, <2>4
<1> QED
  BY <1>3, <1>4

\* The parts on both sides of a slash.
LEMMA SplitConcat ==
    ASSUME NEW s \in Seq(Chars), NEW t \in Seq(Chars)
    PROVE  SplitAt((s \o <<Slash>>) \o t) = SplitAt(s) \o SplitAt(t)
<1> DEFINE u == s \o <<Slash>>
           T == {r \in Seq(Chars) : SplitAt(u \o r) = SplitAt(s) \o SplitAt(r)}
<1>1. /\ u \in Seq(Chars) /\ u = Append(s, Slash)
      /\ SplitAt(s) \in Lists /\ SplitAt(s) \in Seq(Seq(Chars))
  BY SlashIsChar, ConcatProperties, AppendIsConcat, SplitFacts DEF Lists
<1>2. <<>> \in T
  <2>1. <<>> \in Seq(Chars) /\ u \o <<>> = u
    BY <1>1, EmptySeq, ConcatEmptySeq
  <2>2. SplitAt(<<>>) = << <<>> >>
    BY SlashIsChar, SplitAppend
  <2>3. SplitAt(u) = Append(SplitAt(s), <<>>)
    <3>1. SplitAt(u) = Extended(SplitAt(s), Slash)
      BY <1>1, SlashIsChar, SplitAppend
    <3> QED
      BY <3>1 DEF Extended
  <2>4. Append(SplitAt(s), <<>>) = SplitAt(s) \o << <<>> >>
    BY <1>1, <2>1, AppendIsConcat
  <2> QED
    BY <2>1, <2>2, <2>3, <2>4
<1>3. ASSUME NEW r \in Seq(Chars), NEW c \in Chars, r \in T
      PROVE  Append(r, c) \in T
  <2> HIDE DEF u
  <2>1. u \o Append(r, c) = Append(u \o r, c)
    BY <1>1, AppendConcat
  <2>2. SplitAt(Append(u \o r, c)) = Extended(SplitAt(u \o r), c)
    <3> DEFINE v == u \o r
    <3>1. v \in Seq(Chars)
      BY <1>1, ConcatProperties
    <3> HIDE DEF v
    <3>2. SplitAt(Append(v, c)) = Extended(SplitAt(v), c)
      BY <3>1, SplitAppend
    <3> QED
      BY <3>2 DEF v
  <2>3. SplitAt(u \o r) = SplitAt(s) \o SplitAt(r) /\ SplitAt(r) \in Lists
    BY <1>3, SplitFacts
  <2>4. Extended(SplitAt(s) \o SplitAt(r), c) = SplitAt(s) \o Extended(SplitAt(r), c)
    BY <1>1, <2>3, ExtendedConcat
  <2>5. SplitAt(Append(r, c)) = Extended(SplitAt(r), c)
    BY SplitAppend
  <2>6. Append(r, c) \in Seq(Chars)
    BY AppendProperties
  <2> QED
    BY <2>1, <2>2, <2>3, <2>4, <2>5, <2>6
<1> HIDE DEF T
<1>4. t \in T
  BY <1>2, <1>3, SequenceInduction
<1> QED
  BY <1>4 DEF T

LEMMA SlashFreeAppend ==
    ASSUME NEW x \in Seq(Chars), NEW c \in Chars
    PROVE  SlashFree(Append(x, c)) <=> SlashFree(x) /\ c # Slash
<1>1. /\ Len(Append(x, c)) = Len(x) + 1 /\ Append(x, c)[Len(x) + 1] = c /\ Len(x) \in Nat
      /\ \A i \in 1 .. Len(x) : Append(x, c)[i] = x[i]
  BY AppendProperties, LenProperties
<1>2. /\ \A i \in 1 .. Len(x) + 1 : i = Len(x) + 1 \/ i \in 1 .. Len(x)
      /\ Len(x) + 1 \in 1 .. Len(x) + 1 /\ \A i \in 1 .. Len(x) : i \in 1 .. Len(x) + 1
  BY <1>1
<1> QED
  BY <1>1, <1>2 DEF SlashFree

\* A string without a slash is one part.
LEMMA SplitSlashFree ==
    ASSUME NEW x \in Seq(Chars), SlashFree(x)
    PROVE  SplitAt(x) = <<x>>
<1> DEFINE T == {r \in Seq(Chars) : SlashFree(r) => SplitAt(r) = <<r>>}
<1>1. <<>> \in T
  <2>1. <<>> \in Seq(Chars)
    BY EmptySeq
  <2>2. SplitAt(<<>>) = << <<>> >>
    BY SlashIsChar, <2>1, SplitAppend
  <2> QED
    BY <2>1, <2>2
<1>2. ASSUME NEW r \in Seq(Chars), NEW c \in Chars, r \in T
      PROVE  Append(r, c) \in T
  <2>1. Append(r, c) \in Seq(Chars)
    BY AppendProperties
  <2>2. ASSUME SlashFree(Append(r, c))
        PROVE  SplitAt(Append(r, c)) = <<Append(r, c)>>
    <3>1. SlashFree(r) /\ c # Slash
      BY <2>2, SlashFreeAppend
    <3>2. SplitAt(Append(r, c)) = Extended(<<r>>, c)
      BY <1>2, <3>1, SplitAppend
    <3>3. <<>> \in Seq(Seq(Chars)) /\ Append(<<>>, r) = <<r>>
      BY EmptySeq
    <3>4. Extended(Append(<<>>, r), c) = Append(<<>>, Append(r, c))
      BY <3>1, <3>3, ExtendedAppend
    <3>5. Append(<<>>, Append(r, c)) = <<Append(r, c)>>
      OBVIOUS
    <3> QED
      BY <3>2, <3>3, <3>4, <3>5
  <2> QED
    BY <2>1, <2>2
<1> HIDE DEF T
<1>3. x \in T
  BY <1>1, <1>2, SequenceInduction
<1> QED
  BY <1>3 DEF T

\* What is behind the first slash.
LEMMA BehindSlash ==
    ASSUME NEW s \in Seq(Chars)
    PROVE  /\ Tail(<<Slash>> \o s) = s /\ <<Slash>> \o s \in Seq(Chars)
           /\ Head(<<Slash>> \o s) = Slash /\ <<Slash>> \o s # <<>>
           /\ Len(<<Slash>> \o s) = Len(s) + 1
<1> DEFINE t == <<Slash>> \o s
<1>1. /\ t \in Seq(Chars) /\ Len(t) = 1 + Len(s) /\ Len(s) \in Nat
      /\ \A i \in 1 .. 1 + Len(s) : t[i] = IF i <= 1 THEN <<Slash>>[i] ELSE s[i - 1]
  BY SlashIsChar, ConcatProperties, LenProperties
<1> HIDE DEF t
<1>2. t # <<>>
  BY <1>1, EmptySeq
<1>3. Head(t) = Slash
  <2>1. 1 \in 1 .. 1 + Len(s)
    BY <1>1
  <2>2. Head(t) = t[1]
    BY <1>1, <1>2
  <2> QED
    BY <1>1, <2>1, <2>2
<1>4. /\ Tail(t) \in Seq(Chars) /\ Len(Tail(t)) = Len(t) - 1
      /\ \A i \in 1 .. Len(Tail(t)) : Tail(t)[i] = t[i + 1]
  BY <1>1, <1>2, HeadTailProperties
<1>5. Tail(t) = s
  <2>1. Len(Tail(t)) = Len(s)
    BY <1>1, <1>4
  <2>2. \A i \in 1 .. Len(s) : Tail(t)[i] = s[i]
    <3> TAKE i \in 1 .. Len(s)
    <3>1. i + 1 \in 1 .. 1 + Len(s) /\ ~(i + 1 <= 1) /\ (i + 1) - 1 = i
      BY <1>1
    <3> QED
      BY <1>1, <1>4, <2>1, <3>1
  <2> QED
    BY <1>4, <2>1, <2>2, SeqEqual
<1> QED
  BY <1>1, <1>2, <1>3, <1>5 DEF t

LEMMA JoinedAppend ==
    ASSUME NEW q \in Seq(Seq(Chars)), NEW x \in Seq(Chars)
    PROVE  /\ q # <<>> => Slashed(q) = <<Slash>> \o Joined(q) /\ Joined(q) \in Seq(Chars)
           /\ Slashed(Append(q, x)) = <<Slash>> \o Joined(Append(q, x))
           /\ Joined(Append(q, x)) \in Seq(Chars)
           /\ Joined(Append(q, x)) = IF q = <<>> THEN x ELSE (Joined(q) \o <<Slash>>) \o x
<1> DEFINE T == {p \in Seq(Seq(Chars)) : p # <<>> =>
                    Slashed(p) = <<Slash>> \o Joined(p) /\ Joined(p) \in Seq(Chars)}
           Next1(p, y) ==
               Joined(Append(p, y)) = IF p = <<>> THEN y ELSE (Joined(p) \o <<Slash>>) \o y
<1>1. ASSUME NEW p \in Seq(Seq(Chars)), NEW y \in Seq(Chars), p \in T
      PROVE  Append(p, y) \in T /\ Append(p, y) # <<>> /\ Next1(p, y)
  <2>1. Append(p, y) \in Seq(Seq(Chars)) /\ Append(p, y) # <<>>
    BY ListsAppendOne
  <2>2. Joined(Append(p, y)) = Tail(Slashed(Append(p, y)))
    BY <2>1 DEF Joined
  <2>3. Slashed(Append(p, y)) = (Slashed(p) \o <<Slash>>) \o y
    BY SlashedAppend
  <2>4. CASE p = <<>>
    <3>1. Slashed(p) = <<>>
      <4>1. Len(p) = 0
        BY <2>4, EmptySeq
      <4> QED
        BY <4>1, SlashedSteps
    <3>2. <<>> \o <<Slash>> = <<Slash>>
      BY SlashIsChar, ConcatEmptySeq
    <3>3. Slashed(Append(p, y)) = <<Slash>> \o y
      BY <2>3, <3>1, <3>2
    <3>4. Joined(Append(p, y)) = y
      BY <2>2, <3>3, BehindSlash
    <3> QED
      BY <2>1, <2>4, <3>3, <3>4
  <2>5. CASE p # <<>>
    <3> DEFINE j == Joined(p)
               z == (j \o <<Slash>>) \o y
    <3>1. Slashed(p) = <<Slash>> \o j /\ j \in Seq(Chars)
      BY <1>1, <2>5
    <3> HIDE DEF j
    <3>2. j \o <<Slash>> \in Seq(Chars) /\ z \in Seq(Chars)
      <4>1. j \o <<Slash>> \in Seq(Chars)
        BY <3>1, SlashIsChar, ConcatProperties
      <4> QED
        BY <4>1, ConcatProperties
    <3>3. (<<Slash>> \o j) \o <<Slash>> = <<Slash>> \o (j \o <<Slash>>)
      BY <3>1, SlashIsChar, StringsAssociate
    <3>4. (<<Slash>> \o (j \o <<Slash>>)) \o y = <<Slash>> \o z
      BY <3>2, SlashIsChar, StringsAssociate
    <3>5. Slashed(Append(p, y)) = <<Slash>> \o z
      BY <2>3, <3>1, <3>3, <3>4
    <3>6. Joined(Append(p, y)) = z
      <4> HIDE DEF z
      <4> QED
        BY <2>2, <3>2, <3>5, BehindSlash
    <3> QED
      BY <2>1, <2>5, <3>2, <3>5, <3>6 DEF j
  <2> QED
    BY <2>4, <2>5
<1>2. <<>> \in T
  BY EmptySeq
<1> HIDE DEF T, Next1
<1>3. \A p \in Seq(Seq(Chars)) : p \in T
  BY <1>1, <1>2, SequenceInduction
<1>4. q \in T /\ Append(q, x) \in T /\ Append(q, x) # <<>> /\ Next1(q, x)
  BY <1>1, <1>3
<1> QED
  BY <1>4 DEF T, Next1

\* Parts that make a path: none is empty, none has a slash in it.
Proper(p) ==
    p \in Seq(Seq(Chars)) /\ PartsSlashFree(p) /\ \A k \in 1 .. Len(p) : p[k] # <<>>

LEMMA ProperAppend ==
    ASSUME NEW q \in Seq(Seq(Chars)), NEW x \in Seq(Chars)
    PROVE  /\ PartsSlashFree(Append(q, x)) <=> PartsSlashFree(q) /\ SlashFree(x)
           /\ Proper(Append(q, x)) <=> Proper(q) /\ SlashFree(x) /\ x # <<>>
<1> DEFINE p == Append(q, x)
<1>1. /\ p \in Seq(Seq(Chars)) /\ Len(p) = Len(q) + 1 /\ p[Len(q) + 1] = x /\ Len(q) \in Nat
      /\ \A k \in 1 .. Len(q) : p[k] = q[k]
  BY AppendProperties, LenProperties
<1>2. /\ \A k \in 1 .. Len(q) + 1 : k = Len(q) + 1 \/ k \in 1 .. Len(q)
      /\ Len(q) + 1 \in 1 .. Len(q) + 1 /\ \A k \in 1 .. Len(q) : k \in 1 .. Len(q) + 1
  BY <1>1
<1> HIDE DEF p
<1>3. PartsSlashFree(p) <=> PartsSlashFree(q) /\ SlashFree(x)
  BY <1>1, <1>2 DEF PartsSlashFree
<1>4. (\A k \in 1 .. Len(p) : p[k] # <<>>) <=> (\A k \in 1 .. Len(q) : q[k] # <<>>) /\ x # <<>>
  BY <1>1, <1>2
<1>5. Proper(p) <=> Proper(q) /\ SlashFree(x) /\ x # <<>>
  BY <1>1, <1>3, <1>4 DEF Proper
<1> QED
  BY <1>3, <1>5 DEF p

\* Joining undoes splitting, and splitting undoes joining.
LEMMA SplitJoined ==
    ASSUME NEW p \in Lists, PartsSlashFree(p)
    PROVE  SplitAt(Joined(p)) = p
<1> DEFINE T == {q \in Seq(Seq(Chars)) :
                    q # <<>> /\ PartsSlashFree(q) => SplitAt(Joined(q)) = q}
<1>1. <<>> \in T
  BY EmptySeq
<1>2. ASSUME NEW q \in Seq(Seq(Chars)), NEW x \in Seq(Chars), q \in T
      PROVE  Append(q, x) \in T
  <2>1. Append(q, x) \in Seq(Seq(Chars))
    BY AppendProperties
  <2>2. ASSUME PartsSlashFree(Append(q, x))
        PROVE  SplitAt(Joined(Append(q, x))) = Append(q, x)
    <3>1. PartsSlashFree(q) /\ SlashFree(x)
      BY <2>2, ProperAppend
    <3>2. SplitAt(x) = <<x>>
      BY <3>1, SplitSlashFree
    <3>3. CASE q = <<>>
      <4>1. Joined(Append(q, x)) = x
        BY <3>3, JoinedAppend
      <4>2. Append(q, x) = <<x>>
        BY <3>3
      <4> QED
        BY <3>2, <4>1, <4>2
    <3>4. CASE q # <<>>
      <4> DEFINE j == Joined(q)
      <4>1. Joined(Append(q, x)) = (j \o <<Slash>>) \o x /\ j \in Seq(Chars)
        BY <3>4, JoinedAppend
      <4>2. SplitAt(j) = q
        BY <1>2, <3>1, <3>4
      <4> HIDE DEF j
      <4>3. SplitAt((j \o <<Slash>>) \o x) = q \o <<x>>
        BY <3>2, <4>1, <4>2, SplitConcat
      <4>4. Append(q, x) = q \o <<x>>
        BY AppendIsConcat
      <4> QED
        BY <4>1, <4>3, <4>4
    <3> QED
      BY <3>3, <3>4
  <2> QED
    BY <2>1, <2>2
<1> HIDE DEF T
<1>3. \A q \in Seq(Seq(Chars)) : q \in T
  BY <1>1, <1>2, SequenceInduction
<1> QED
  BY <1>3 DEF T, Lists

LEMMA JoinedSplit ==
    ASSUME NEW s \in Seq(Chars)
    PROVE  Joined(SplitAt(s)) = s
<1>1. SplitAt(s) # <<>> /\ Slashed(SplitAt(s)) = <<Slash>> \o s
  BY SplitFacts DEF Lists
<1>2. Joined(SplitAt(s)) = Tail(Slashed(SplitAt(s)))
  BY <1>1 DEF Joined
<1> QED
  BY <1>1, <1>2, BehindSlash

\* A path put together neither begins nor ends with a slash.
LEMMA JoinedEnds ==
    ASSUME NEW p, Proper(p), p # <<>>
    PROVE  /\ Joined(p) \in Seq(Chars) /\ Joined(p) # <<>>
           /\ Head(Joined(p)) # Slash /\ Last(Joined(p)) # Slash
<1> DEFINE Good(s) == /\ s \in Seq(Chars) /\ Len(s) # 0
                      /\ s[1] # Slash /\ s[Len(s)] # Slash
           T == {q \in Seq(Seq(Chars)) : q # <<>> /\ Proper(q) => Good(Joined(q))}
<1>1. <<>> \in T
  BY EmptySeq
<1>2. ASSUME NEW q \in Seq(Seq(Chars)), NEW x \in Seq(Chars), q \in T
      PROVE  Append(q, x) \in T
  <2>1. Append(q, x) \in Seq(Seq(Chars))
    BY AppendProperties
  <2>2. ASSUME Proper(Append(q, x))
        PROVE  Good(Joined(Append(q, x)))
    <3>1. Proper(q) /\ SlashFree(x) /\ x # <<>>
      BY <2>2, ProperAppend
    <3>2. Len(x) \in Nat \ {0} /\ x[1] # Slash /\ x[Len(x)] # Slash
      <4>1. Len(x) \in Nat \ {0}
        BY <3>1, EmptySeq
      <4>2. 1 \in 1 .. Len(x) /\ Len(x) \in 1 .. Len(x)
        BY <4>1
      <4> QED
        BY <3>1, <4>1, <4>2 DEF SlashFree
    <3>3. CASE q = <<>>
      <4>1. Joined(Append(q, x)) = x
        BY <3>3, JoinedAppend
      <4> QED
        BY <3>2, <4>1
    <3>4. CASE q # <<>>
      <4> DEFINE j == Joined(q)
                 u == j \o <<Slash>>
                 v == u \o x
      <4>1. Joined(Append(q, x)) = v
        BY <3>4, JoinedAppend
      <4>2. j \in Seq(Chars) /\ Len(j) # 0 /\ j[1] # Slash /\ Len(j) \in Nat
        BY <1>2, <3>1, <3>4, LenProperties
      <4> HIDE DEF j
      <4>3. /\ u \in Seq(Chars) /\ Len(u) = Len(j) + 1
            /\ \A i \in 1 .. Len(j) + 1 : u[i] = IF i <= Len(j) THEN j[i] ELSE <<Slash>>[i - Len(j)]
        BY <4>2, SlashIsChar, ConcatProperties
      <4>4. u[1] # Slash
        <5>1. 1 \in 1 .. Len(j) + 1 /\ 1 <= Len(j)
          BY <4>2
        <5> QED
          BY <4>2, <4>3, <5>1
      <4> HIDE DEF u
      <4>5. /\ v \in Seq(Chars) /\ Len(v) = Len(u) + Len(x)
            /\ \A i \in 1 .. Len(u) + Len(x) : v[i] = IF i <= Len(u) THEN u[i] ELSE x[i - Len(u)]
        <5>1. u \in Seq(Chars) /\ x \in Seq(Chars)
          BY <4>3
        <5> QED
          BY <5>1, ConcatProperties
      <4> HIDE DEF v
      <4>6. v[1] # Slash
        <5>1. 1 \in 1 .. Len(u) + Len(x) /\ 1 <= Len(u)
          BY <3>2, <4>2, <4>3
        <5> QED
          BY <4>4, <4>5, <5>1
      <4>7. v[Len(v)] # Slash /\ Len(v) # 0
        <5>1. /\ Len(u) + Len(x) \in 1 .. Len(u) + Len(x) /\ ~(Len(u) + Len(x) <= Len(u))
              /\ (Len(u) + Len(x)) - Len(u) = Len(x) /\ Len(u) + Len(x) # 0
          BY <3>2, <4>2, <4>3
        <5> QED
          BY <3>2, <4>5, <5>1
      <4> QED
        BY <4>1, <4>5, <4>6, <4>7
    <3> QED
      BY <3>3, <3>4
  <2> HIDE DEF Good
  <2> QED
    BY <2>1, <2>2
<1> HIDE DEF T, Good
<1>3. \A q \in Seq(Seq(Chars)) : q \in T
  BY <1>1, <1>2, SequenceInduction
<1>4. Good(Joined(p))
  BY <1>3 DEF T, Proper
<1> DEFINE s == Joined(p)
<1>5. s \in Seq(Chars) /\ Len(s) # 0 /\ s[1] # Slash /\ s[Len(s)] # Slash
  BY <1>4 DEF Good
<1> HIDE DEF s
<1>6. s # <<>> /\ Head(s) = s[1] /\ Last(s) = s[Len(s)]
  BY <1>5, EmptySeq DEF Last
<1> QED
  BY <1>5, <1>6 DEF s

-----------------------------------------------------------------------------
(***************************************************************************)
(* What lf12_parse_path makes of its input.                                *)
(***************************************************************************)
LEMMA LeadingSlash ==
    ASSUME NEW s \in Seq(Chars)
    PROVE  LET t == WithoutLeadingSlash(s)
           IN  /\ t \in Seq(Chars)
               /\ \/ t = s /\ (s # <<>> => s[1] # Slash)
                  \/ /\ Len(s) = Len(t) + 1 /\ s[1] = Slash /\ s = <<Slash>> \o t
                     /\ \A i \in 1 .. Len(t) : t[i] = s[i + 1]
<1> DEFINE t == WithoutLeadingSlash(s)
<1>1. CASE s # <<>> /\ Head(s) = Slash
  <2>1. t = Tail(s)
    BY <1>1 DEF WithoutLeadingSlash
  <2>2. Len(s) \in Nat \ {0} /\ Head(s) = s[1]
    BY <1>1, EmptySeq
  <2>3. /\ Tail(s) \in Seq(Chars) /\ Len(Tail(s)) = Len(s) - 1
        /\ \A i \in 1 .. Len(Tail(s)) : Tail(s)[i] = s[i + 1]
    BY <1>1, HeadTailProperties
  <2> HIDE DEF t
  <2>4. Len(s) = Len(t) + 1 /\ \A i \in 1 .. Len(t) : t[i] = s[i + 1]
    BY <2>1, <2>2, <2>3
  <2>5. s = <<Slash>> \o t
    <3> DEFINE r == <<Slash>> \o t
    <3>1. /\ r \in Seq(Chars) /\ Len(r) = 1 + Len(t) /\ Len(t) \in Nat
          /\ \A i \in 1 .. 1 + Len(t) : r[i] = IF i <= 1 THEN <<Slash>>[i] ELSE t[i - 1]
      BY <2>1, <2>3, SlashIsChar, ConcatProperties, LenProperties
    <3> HIDE DEF r
    <3>2. \A i \in 1 .. Len(s) : s[i] = r[i]
      <4> TAKE i \in 1 .. Len(s)
      <4>1. CASE i = 1
        <5>1. 1 \in 1 .. 1 + Len(t) /\ 1 <= 1
          BY <3>1
        <5> QED
          BY <1>1, <2>2, <3>1, <4>1, <5>1
      <4>2. CASE i # 1
        <5>1. i - 1 \in 1 .. Len(t) /\ i \in 1 .. 1 + Len(t) /\ ~(i <= 1) /\ (i - 1) + 1 = i
          BY <2>2, <2>4, <3>1, <4>2
        <5> QED
          BY <2>4, <3>1, <5>1
      <4> QED
        BY <4>1, <4>2
    <3>3. Len(r) = Len(s)
      BY <2>4, <3>1
    <3> QED
      BY <3>1, <3>2, <3>3, SeqEqual DEF r
  <2> QED
    BY <1>1, <2>1, <2>2, <2>3, <2>4, <2>5, Zenon DEF t
<1>2. CASE ~(s # <<>> /\ Head(s) = Slash)
  <2>1. t = s
    BY <1>2 DEF WithoutLeadingSlash
  <2>2. s # <<>> => Head(s) = s[1]
    BY EmptySeq
  <2> QED
    BY <1>2, <2>1, <2>2
<1> QED
  BY <1>1, <1>2, Zenon

LEMMA TrailingSlash ==
    ASSUME NEW s \in Seq(Chars), s # <<>>
    PROVE  LET t == WithoutTrailingSlash(s)
           IN  /\ t \in Seq(Chars)
               /\ \/ t = s /\ s[Len(s)] # Slash
                  \/ /\ Len(s) = Len(t) + 1 /\ s[Len(s)] = Slash /\ s = t \o <<Slash>>
                     /\ \A i \in 1 .. Len(t) : t[i] = s[i]
<1> DEFINE t == WithoutTrailingSlash(s)
<1>1. Len(s) \in Nat \ {0} /\ Last(s) = s[Len(s)]
  BY EmptySeq DEF Last
<1>2. CASE Last(s) = Slash
  <2>1. t = SubSeq(s, 1, Len(s) - 1)
    BY <1>2 DEF WithoutTrailingSlash, Front
  <2>2. \A i \in 1 .. Len(s) - 1 : i \in 1 .. Len(s)
    BY <1>1
  <2>3. \A i \in 1 .. Len(s) - 1 : s[i] \in Chars
    BY <2>2, ElementOfSeq
  <2> DEFINE n == Len(s) - 1
  <2>4. n \in Nat /\ Len(s) = n + 1
    BY <1>1
  <2> HIDE DEF n, t
  <2>5. t = SubSeq(s, 1, n) /\ \A i \in 1 .. n : s[i] \in Chars
    BY <2>1, <2>3 DEF n
  <2>6. t \in Seq(Chars) /\ Len(t) = n /\ \A i \in 1 .. n : t[i] = s[i]
    <3>1. /\ SubSeq(s, 1, n) \in Seq(Chars)
          /\ Len(SubSeq(s, 1, n)) = IF 1 <= n THEN n - 1 + 1 ELSE 0
          /\ \A k \in 1 .. n - 1 + 1 : SubSeq(s, 1, n)[k] = s[1 + k - 1]
      BY <2>4, <2>5, SubSeqProperties
    <3> QED
      BY <2>4, <2>5, <3>1
  <2>7. s = t \o <<Slash>>
    <3> DEFINE r == t \o <<Slash>>
    <3>1. /\ r \in Seq(Chars) /\ Len(r) = n + 1
          /\ \A i \in 1 .. n + 1 : r[i] = IF i <= n THEN t[i] ELSE <<Slash>>[i - n]
      <4>1. /\ r \in Seq(Chars) /\ Len(r) = Len(t) + 1
            /\ \A i \in 1 .. Len(t) + 1 :
                  r[i] = IF i <= Len(t) THEN t[i] ELSE <<Slash>>[i - Len(t)]
        BY <2>6, SlashIsChar, ConcatProperties
      <4> HIDE DEF r
      <4> QED
        BY <2>6, <4>1
    <3> HIDE DEF r
    <3>2. \A i \in 1 .. Len(s) : s[i] = r[i]
      <4> TAKE i \in 1 .. Len(s)
      <4>1. CASE i = n + 1
        <5>1. n + 1 \in 1 .. n + 1 /\ ~(n + 1 <= n) /\ (n + 1) - n = 1
          BY <2>4
        <5>2. s[i] = Slash
          BY <1>1, <1>2, <2>4, <4>1
        <5>3. r[n + 1] = <<Slash>>[1]
          BY <3>1, <5>1
        <5> QED
          BY <4>1, <5>2, <5>3
      <4>2. CASE i # n + 1
        <5>1. i \in 1 .. n /\ i \in 1 .. n + 1 /\ i <= n
          BY <2>4, <4>2
        <5> QED
          BY <2>6, <3>1, <5>1
      <4> QED
        BY <4>1, <4>2
    <3>3. Len(r) = Len(s)
      BY <2>4, <3>1
    <3> QED
      BY <3>1, <3>2, <3>3, SeqEqual DEF r
  <2> QED
    BY <1>1, <1>2, <2>4, <2>6, <2>7 DEF t
<1>3. CASE Last(s) # Slash
  <2>1. t = s
    BY <1>3 DEF WithoutTrailingSlash
  <2> QED
    BY <1>1, <1>3, <2>1
<1> QED
  BY <1>2, <1>3

TwoSlashesAtEnd(s) == Len(s) >= 3 /\ s[Len(s)] = Slash /\ s[Len(s) - 1] = Slash

Bare(s) == WithoutTrailingSlash(WithoutLeadingSlash(s))

LEMMA BareEndsInSlash ==
    ASSUME NEW s \in Seq(Chars), ~IsEmptyPath(s)
    PROVE  /\ Bare(s) \in Seq(Chars)
           /\ Bare(s) # <<>> /\ Last(Bare(s)) = Slash <=> TwoSlashesAtEnd(s)
           /\ \E lead, trail \in {<<>>, <<Slash>>} : s = (lead \o Bare(s)) \o trail
<1> DEFINE t == WithoutLeadingSlash(s)
           r == WithoutTrailingSlash(t)
           n == Len(s)
           m == Len(t)
           k == Len(r)
<1>1. t # <<>> /\ r = Bare(s)
  BY DEF IsEmptyPath, Bare
<1>2. /\ t \in Seq(Chars)
      /\ \/ t = s /\ (s # <<>> => s[1] # Slash)
         \/ /\ n = m + 1 /\ s[1] = Slash /\ s = <<Slash>> \o t
            /\ \A i \in 1 .. m : t[i] = s[i + 1]
  BY LeadingSlash
<1> HIDE DEF t
<1>3. /\ r \in Seq(Chars)
      /\ \/ r = t /\ t[m] # Slash
         \/ /\ m = k + 1 /\ t[m] = Slash /\ t = r \o <<Slash>>
            /\ \A i \in 1 .. k : r[i] = t[i]
  BY <1>1, <1>2, TrailingSlash
<1> HIDE DEF r
<1>4. n \in Nat /\ m \in Nat \ {0} /\ k \in Nat /\ (r = <<>> <=> k = 0) /\ (s = <<>> <=> n = 0)
  BY <1>1, <1>2, <1>3, EmptySeq, LenProperties
<1>5. (r # <<>> /\ r[k] = Slash) <=> (n >= 3 /\ s[n] = Slash /\ s[n - 1] = Slash)
  <2>1. CASE r = t /\ t[m] # Slash
    <3>1. ~(r[k] = Slash)
      BY <2>1
    <3>2. ~(s[n] = Slash /\ n >= 3)
      <4>1. CASE t = s
        BY <2>1, <4>1
      <4>2. CASE n = m + 1 /\ \A i \in 1 .. m : t[i] = s[i + 1]
        <5>1. m \in 1 .. m
          BY <1>4
        <5> QED
          BY <2>1, <4>2, <5>1
      <4> QED
        BY <1>2, <4>1, <4>2
    <3> QED
      BY <3>1, <3>2
  <2>2. CASE m = k + 1 /\ t[m] = Slash /\ \A i \in 1 .. k : r[i] = t[i]
    <3>1. CASE t = s /\ (s # <<>> => s[1] # Slash)
      <4>1. n = k + 1 /\ s[n] = Slash /\ s[1] # Slash
        BY <1>4, <2>2, <3>1
      <4>2. k # 0 => r[k] = s[n - 1]
        <5>1. k # 0 => k \in 1 .. k /\ n - 1 = k
          BY <1>4, <4>1
        <5> QED
          BY <2>2, <3>1, <5>1
      <4>3. k # 1 \/ r[k] # Slash
        <5>1. k = 1 => n - 1 = 1
          BY <4>1
        <5> QED
          BY <4>1, <4>2, <5>1
      <4> QED
        BY <1>4, <4>1, <4>2, <4>3
    <3>2. CASE n = m + 1 /\ s[1] = Slash /\ \A i \in 1 .. m : t[i] = s[i + 1]
      <4>1. n = k + 2 /\ s[n] = Slash
        <5>1. m \in 1 .. m /\ m + 1 = n
          BY <1>4, <3>2
        <5> QED
          BY <1>4, <2>2, <3>2, <5>1
      <4>2. k # 0 => r[k] = s[n - 1]
        <5>1. k # 0 => k \in 1 .. k /\ k \in 1 .. m /\ k + 1 = n - 1
          BY <1>4, <2>2, <4>1
        <5> QED
          BY <2>2, <3>2, <5>1
      <4> QED
        BY <1>4, <4>1, <4>2
    <3> QED
      BY <1>2, <3>1, <3>2
  <2> QED
    BY <1>3, <2>1, <2>2
<1>6. PICK lead \in {<<>>, <<Slash>>} : s = lead \o t
  BY <1>2, ConcatEmptySeq
<1>7. PICK trail \in {<<>>, <<Slash>>} : t = r \o trail
  BY <1>3, ConcatEmptySeq
<1>8. s = (lead \o r) \o trail
  <2>1. lead \in Seq(Chars) /\ trail \in Seq(Chars)
    BY SlashIsChar, EmptySeq
  <2>2. r \in Seq(Chars)
    BY <1>3
  <2>3. (lead \o r) \o trail = lead \o (r \o trail)
    BY <2>1, <2>2, StringsAssociate
  <2> QED
    BY <1>6, <1>7, <2>3
<1> QED
  BY <1>1, <1>3, <1>5, <1>8 DEF TwoSlashesAtEnd, Last

\* The parts there are, and the one there is not.
LEMMA SplitInputFacts ==
    ASSUME NEW s \in Seq(Chars), ~IsEmptyPath(s)
    PROVE  /\ Len(SplitInput(s)) \in Nat
           /\ TwoSlashesAtEnd(s) =>
                 /\ Last(SplitInput(s)) = Wild
                 /\ Wild \in {SplitInput(s)[k] : k \in 1 .. Len(SplitInput(s))}
           /\ ~TwoSlashesAtEnd(s) =>
                 /\ SplitInput(s) = SplitAt(Bare(s))
                 /\ SplitInput(s) \in Lists /\ PartsSlashFree(SplitInput(s))
                 /\ \E lead, trail \in {<<>>, <<Slash>>} :
                        s = (lead \o Joined(SplitInput(s))) \o trail
<1> DEFINE p == SplitInput(s)
           q == SplitAt(Bare(s))
<1>1. /\ Bare(s) \in Seq(Chars)
      /\ Bare(s) # <<>> /\ Last(Bare(s)) = Slash <=> TwoSlashesAtEnd(s)
      /\ \E lead, trail \in {<<>>, <<Slash>>} : s = (lead \o Bare(s)) \o trail
  BY BareEndsInSlash
<1>2. p = IF TwoSlashesAtEnd(s) THEN Front(q) \o <<Wild>> ELSE q
  BY <1>1 DEF SplitInput, Bare
<1>3. q \in Lists /\ PartsSlashFree(q) /\ Joined(q) = Bare(s)
  BY <1>1, SplitFacts, JoinedSplit
<1> HIDE DEF p, q
<1>4. CASE TwoSlashesAtEnd(s)
  <2> DEFINE S == Seq(Chars) \union {Wild}
             f == Front(q)
             w == <<Wild>>
  <2>1. f \in Seq(S)
    <3>1. q \in Seq(Seq(Chars)) /\ Len(q) \in Nat
      BY <1>3, LenProperties DEF Lists
    <3>2. \A i \in 1 .. Len(q) - 1 : i \in 1 .. Len(q)
      BY <3>1
    <3>3. \A i \in 1 .. Len(q) - 1 : q[i] \in S
      BY <3>1, <3>2, ElementOfSeq
    <3> HIDE DEF S
    <3>4. SubSeq(q, 1, Len(q) - 1) \in Seq(S)
      BY <3>1, <3>3, SubSeqProperties
    <3> QED
      BY <3>4 DEF Front
  <2>2. w \in Seq(S) /\ Len(w) = 1 /\ w[1] = Wild
    <3>1. Wild \in S
      OBVIOUS
    <3> HIDE DEF S
    <3> QED
      BY <3>1
  <2> HIDE DEF f, w, S
  <2>3. /\ f \o w \in Seq(S) /\ Len(f \o w) = Len(f) + 1 /\ Len(f) \in Nat
        /\ \A i \in 1 .. Len(f) + 1 : (f \o w)[i] = IF i <= Len(f) THEN f[i] ELSE w[i - Len(f)]
    <3>1. /\ f \o w \in Seq(S) /\ Len(f \o w) = Len(f) + Len(w)
          /\ \A i \in 1 .. Len(f) + Len(w) :
                (f \o w)[i] = IF i <= Len(f) THEN f[i] ELSE w[i - Len(f)]
      BY <2>1, <2>2, ConcatProperties
    <3> DEFINE v == f \o w
    <3> HIDE DEF v
    <3> QED
      BY <2>1, <2>2, <3>1, LenProperties DEF v
  <2>4. (f \o w)[Len(f) + 1] = Wild
    <3>1. Len(f) + 1 \in 1 .. Len(f) + 1 /\ ~(Len(f) + 1 <= Len(f)) /\ (Len(f) + 1) - Len(f) = 1
      BY <2>3
    <3> QED
      BY <2>2, <2>3, <3>1
  <2>5. p = f \o w
    BY <1>2, <1>4 DEF f, w
  <2>6. Len(p) \in Nat /\ Len(p) \in 1 .. Len(p) /\ p[Len(p)] = Wild
    BY <2>3, <2>4, <2>5
  <2> QED
    BY <1>4, <2>6 DEF Last, p
<1>5. CASE ~TwoSlashesAtEnd(s)
  <2>1. p = q /\ Len(q) \in Nat
    BY <1>2, <1>3, <1>5, LenProperties DEF Lists
  <2> QED
    BY <1>1, <1>3, <1>5, <2>1 DEF p, q
<1> QED
  BY <1>4, <1>5

\* A path put together is taken apart again, with or without a slash in front.
LEMMA SplitInputJoined ==
    ASSUME NEW p, Proper(p), p # <<>>
    PROVE  /\ ~IsEmptyPath(Joined(p)) /\ SplitInput(Joined(p)) = p
           /\ ~IsEmptyPath(Slashed(p)) /\ SplitInput(Slashed(p)) = p
<1> DEFINE j == Joined(p)
           s == Slashed(p)
<1>1. p \in Lists /\ PartsSlashFree(p) /\ p \in Seq(Seq(Chars))
  BY DEF Proper, Lists
<1>2. j \in Seq(Chars) /\ j # <<>> /\ Head(j) # Slash /\ Last(j) # Slash
  BY JoinedEnds
<1>3. SplitAt(j) = p
  BY <1>1, SplitJoined
<1>4. s = <<Slash>> \o j
  <2>1. PICK q \in Seq(Seq(Chars)), x \in Seq(Chars) : p = Append(q, x)
    BY <1>1, ListHasLast
  <2> QED
    BY <2>1, JoinedAppend
<1> HIDE DEF j, s
<1>5. s # <<>> /\ Head(s) = Slash /\ Tail(s) = j
  BY <1>2, <1>4, BehindSlash
<1>6. WithoutLeadingSlash(j) = j /\ WithoutLeadingSlash(s) = j
  BY <1>2, <1>5 DEF WithoutLeadingSlash
<1>7. WithoutTrailingSlash(j) = j
  BY <1>2 DEF WithoutTrailingSlash
<1>8. SplitInput(j) = p /\ SplitInput(s) = p
  BY <1>2, <1>3, <1>6, <1>7 DEF SplitInput
<1> QED
  BY <1>2, <1>6, <1>8 DEF IsEmptyPath, j, s

-----------------------------------------------------------------------------
(***************************************************************************)
(* Paths of converted names.                                               *)
(***************************************************************************)
Files(names) == [k \in 1 .. Len(names) |-> FileName(names[k])]

LEMMA BuildPathFacts ==
    ASSUME NEW p \in Seq(Seq(Chars))
    PROVE  /\ BuildPath(p) \in Seq(LegalNames) /\ Len(BuildPath(p)) = Len(p)
           /\ \A k \in 1 .. Len(p) : BuildPath(p)[k] = Converted(p[k])
<1> DEFINE b == BuildPath(p)
           n == Len(p)
<1>1. n \in Nat /\ b = [k \in 1 .. n |-> Converted(p[k])]
  BY LenProperties DEF BuildPath
<1>2. \A k \in 1 .. n : Converted(p[k]) \in LegalNames
  BY ElementOfSeq, ConvertedIsLegal
<1> HIDE DEF b, n
<1>3. b \in [1 .. n -> LegalNames]
  BY <1>1, <1>2
<1>4. b \in Seq(LegalNames) /\ Len(b) = n
  BY <1>1, <1>3
<1> QED
  BY <1>1, <1>4 DEF b, n

LEMMA FilesFacts ==
    ASSUME NEW names \in Seq(LegalNames)
    PROVE  /\ Files(names) \in Seq(Seq(Chars)) /\ Len(Files(names)) = Len(names)
           /\ \A k \in 1 .. Len(names) : Files(names)[k] = FileName(names[k])
           /\ PartsSlashFree(Files(names))
           /\ (\A k \in 1 .. Len(names) : ~IsNameless(names[k])) => Proper(Files(names))
           /\ BuildPath(Files(names)) = names
           /\ EntryPath(names) = Slashed(Files(names))
<1> DEFINE f == Files(names)
           n == Len(names)
<1>1. n \in Nat /\ f = [k \in 1 .. n |-> FileName(names[k])]
  BY LenProperties DEF Files
<1>2. \A k \in 1 .. n : names[k] \in LegalNames
  BY ElementOfSeq
<1>3. \A k \in 1 .. n : FileName(names[k]) \in Seq(Chars) /\ SlashFree(FileName(names[k]))
  BY <1>2, FileNameSlashFree
<1>4. EntryPath(names) = Slashed(f)
  BY DEF EntryPath, Files
<1> HIDE DEF f, n
<1>5. f \in [1 .. n -> Seq(Chars)] /\ \A k \in 1 .. n : f[k] = FileName(names[k])
  BY <1>1, <1>3
<1>6. f \in Seq(Seq(Chars)) /\ Len(f) = n
  BY <1>1, <1>5
<1>7. PartsSlashFree(f)
  BY <1>3, <1>5, <1>6 DEF PartsSlashFree
<1>8. (\A k \in 1 .. n : ~IsNameless(names[k])) => Proper(f)
  BY <1>5, <1>6, <1>7 DEF Proper, IsNameless
<1>9. BuildPath(f) = names
  <2>1. /\ BuildPath(f) \in Seq(LegalNames) /\ Len(BuildPath(f)) = n
        /\ \A k \in 1 .. n : BuildPath(f)[k] = Converted(f[k])
    BY <1>6, BuildPathFacts
  <2>2. \A k \in 1 .. n : Converted(f[k]) = names[k]
    BY <1>2, <1>5, ConvertedFileName
  <2>3. Len(names) = n
    BY DEF n
  <2> DEFINE b == BuildPath(f)
  <2> HIDE DEF b
  <2>4. b \in Seq(LegalNames) /\ Len(b) = Len(names) /\ \A k \in 1 .. Len(b) : b[k] = names[k]
    BY <2>1, <2>2, <2>3 DEF b
  <2>5. b = names
    BY <2>4, SeqEqual
  <2> QED
    BY <2>5 DEF b
<1> QED
  BY <1>4, <1>5, <1>6, <1>7, <1>8, <1>9 DEF f, n

\* A path of names that are not all blank is found again.
LEMMA EntryPathIsReparsed ==
    ASSUME NEW names \in Seq(LegalNames), names # <<>>,
           \A k \in 1 .. Len(names) : ~IsNameless(names[k])
    PROVE  /\ ~IsEmptyPath(EntryPath(names)) /\ BuildPath(SplitInput(EntryPath(names))) = names
           /\ BuildPath(SplitInput(Joined(Files(names)))) = names
<1>1. Proper(Files(names)) /\ EntryPath(names) = Slashed(Files(names))
  BY FilesFacts
<1>2. Files(names) # <<>>
  <2>1. Len(names) # 0 /\ Len(Files(names)) = Len(names)
    BY EmptySeq, FilesFacts
  <2> QED
    BY <2>1, EmptySeq
<1>3. BuildPath(Files(names)) = names
  BY FilesFacts
<1> DEFINE f == Files(names)
<1> HIDE DEF f
<1>4. Proper(f) /\ f # <<>> /\ EntryPath(names) = Slashed(f) /\ BuildPath(f) = names
  BY <1>1, <1>2, <1>3 DEF f
<1>5. ~IsEmptyPath(Slashed(f)) /\ SplitInput(Slashed(f)) = f /\ SplitInput(Joined(f)) = f
  BY <1>4, SplitInputJoined
<1> QED
  BY <1>4, <1>5 DEF f

-----------------------------------------------------------------------------
(***************************************************************************)
(* Destinations of recursive puts.                                         *)
(***************************************************************************)
LEMMA TokensFacts ==
    ASSUME NEW s \in Seq(Chars), NEW t \in Seq(Chars)
    PROVE  /\ Tokens(s) \in Seq(Seq(Chars))
           /\ Tokens((s \o <<Slash>>) \o t) = Tokens(s) \o Tokens(t)
           /\ Tokens(s \o <<Slash>>) = Tokens(s)
<1>1. SplitAt(s) \in Seq(Seq(Chars)) /\ SplitAt(t) \in Seq(Seq(Chars)) /\ <<>> \in Seq(Chars)
  BY SplitFacts, EmptySeq DEF Lists
<1> DEFINE x == <<>>
           S == Seq(Chars)
<1>2. x \in S
  BY <1>1
<1>3. Tokens(s) \in Seq(S)
  <2>1. Without(SplitAt(s), x) \in Seq(S \ {x})
    BY <1>1, WithoutFacts
  <2>2. S \ {x} \subseteq S
    OBVIOUS
  <2> HIDE DEF x, S
  <2>3. Without(SplitAt(s), x) \in Seq(S)
    BY <2>1, <2>2, SeqMonotonic
  <2> QED
    BY <2>3 DEF Tokens, x
<1>4. \A r \in Seq(Chars) : Tokens((s \o <<Slash>>) \o r) = Tokens(s) \o Tokens(r)
  <2> TAKE r \in Seq(Chars)
  <2>1. SplitAt((s \o <<Slash>>) \o r) = SplitAt(s) \o SplitAt(r)
    BY SplitConcat
  <2>2. SplitAt(r) \in Seq(Seq(Chars))
    BY SplitFacts DEF Lists
  <2>3. Without(SplitAt(s) \o SplitAt(r), x) = Without(SplitAt(s), x) \o Without(SplitAt(r), x)
    BY <1>1, <2>2, WithoutConcat
  <2> QED
    BY <2>1, <2>3 DEF Tokens
<1>5. Tokens(x) = x
  <2>1. SplitAt(x) = <<x>>
    BY <1>1, SlashIsChar, SplitAppend
  <2>2. Without(Append(<<>>, x), x) = Without(<<>>, x) \o Kept(x, x) /\ Without(<<>>, x) = <<>>
    <3> DEFINE q == <<>>
    <3>1. q \in Seq(S)
      BY EmptySeq
    <3> HIDE DEF x, S, q
    <3>2. Without(Append(q, x), x) = Without(q, x) \o Kept(x, x) /\ Without(<<>>, x) = <<>>
      BY <1>2, <3>1, WithoutAppend
    <3> QED
      BY <3>2 DEF q
  <2>3. Kept(x, x) = <<>> /\ Append(<<>>, x) = <<x>> /\ <<>> \o <<>> = <<>>
    BY <1>1, ConcatEmptySeq DEF Kept
  <2> QED
    BY <2>1, <2>2, <2>3 DEF Tokens
<1>6. Tokens(s \o <<Slash>>) = Tokens(s)
  <2>1. (s \o <<Slash>>) \o x = s \o <<Slash>>
    <3>1. s \o <<Slash>> \in Seq(Chars)
      BY SlashIsChar, ConcatProperties
    <3> QED
      BY <3>1, ConcatEmptySeq
  <2>2. Tokens((s \o <<Slash>>) \o x) = Tokens(s) \o Tokens(x)
    BY <1>2, <1>4
  <2>3. Tokens(s) \o x = Tokens(s)
    BY <1>3, ConcatEmptySeq
  <2> QED
    BY <1>5, <2>1, <2>2, <2>3
<1> QED
  BY <1>3, <1>4, <1>6

\* destination_path names the components it is told.
Told(s, d) == BuildPath(Tokens((d \o <<Slash>>) \o s))

LEMMA DestinationPathFacts ==
    ASSUME NEW s \in Seq(Chars), NEW d \in Seq(Chars), Tokens(s) # <<>>
    PROVE  /\ Told(s, d) \in Seq(LegalNames) /\ Told(s, d) # <<>>
           /\ DestinationPath(s, d) = Joined(Files(Told(s, d)))
           /\ DestinationPath(s, d) \in Seq(Chars)
<1> DEFINE x == (d \o (IF d # <<>> /\ Last(d) = Slash THEN <<>> ELSE <<Slash>>)) \o s
           told == Tokens((d \o <<Slash>>) \o s)
           names == Told(s, d)
<1>1. DestinationPath(s, d) = ConvertPath(x)
  BY DEF DestinationPath
<1>2. told = Tokens(d) \o Tokens(s) /\ Tokens(d) \in Seq(Seq(Chars)) /\ Tokens(s) \in Seq(Seq(Chars))
  BY TokensFacts
<1>3. Tokens(x) = told
  <2>1. CASE d # <<>> /\ Last(d) = Slash
    <3> DEFINE c == WithoutTrailingSlash(d)
    <3>1. c \in Seq(Chars) /\ d = c \o <<Slash>>
      BY <2>1, TrailingSlash DEF Last
    <3>2. x = d \o s
      BY <2>1, ConcatEmptySeq
    <3> HIDE DEF c, x
    <3>3. Tokens(d \o s) = Tokens(c) \o Tokens(s)
      BY <3>1, TokensFacts
    <3>4. Tokens(d) = Tokens(c)
      BY <3>1, TokensFacts
    <3> QED
      BY <1>2, <3>2, <3>3, <3>4
  <2>2. CASE ~(d # <<>> /\ Last(d) = Slash)
    BY <2>2
  <2> QED
    BY <2>1, <2>2
<1>4. told \in Seq(Seq(Chars)) /\ Len(told) # 0
  <2>1. told \in Seq(Seq(Chars)) /\ Len(told) = Len(Tokens(d)) + Len(Tokens(s))
    BY <1>2, ConcatProperties
  <2>2. Len(Tokens(s)) \in Nat \ {0} /\ Len(Tokens(d)) \in Nat
    BY <1>2, EmptySeq, LenProperties
  <2> QED
    BY <2>1, <2>2
<1>5. names = BuildPath(told)
  BY DEF Told
<1> HIDE DEF x, told, names
<1>6. /\ names \in Seq(LegalNames) /\ Len(names) = Len(told)
      /\ \A k \in 1 .. Len(told) : names[k] = Converted(told[k])
  BY <1>4, <1>5, BuildPathFacts
<1>7. names # <<>>
  BY <1>4, <1>6, EmptySeq
<1>8. ConvertPath(x) = Joined([k \in 1 .. Len(told) |-> FileName(Converted(told[k]))])
  BY <1>3 DEF ConvertPath
<1>9. [k \in 1 .. Len(told) |-> FileName(Converted(told[k]))] = Files(names)
  BY <1>6 DEF Files
<1>10. Joined(Files(names)) \in Seq(Chars)
  <2>1. Files(names) \in Seq(Seq(Chars)) /\ Len(Files(names)) # 0
    BY <1>4, <1>6, FilesFacts
  <2>2. Files(names) # <<>>
    BY <2>1, EmptySeq
  <2>3. PICK q \in Seq(Seq(Chars)), y \in Seq(Chars) : Files(names) = Append(q, y)
    BY <2>1, <2>2, SequenceEmptyOrAppend
  <2> QED
    BY <2>3, JoinedAppend
<1> QED
  BY <1>1, <1>6, <1>7, <1>8, <1>9, <1>10 DEF names

-----------------------------------------------------------------------------
(***************************************************************************)
(* The length of a path.                                                   *)
(***************************************************************************)
PathLengthUpTo(p) ==
    CHOOSE f : f = [k \in 0 .. Len(p) |->
        IF k = 0 THEN 1 ELSE f[k - 1] + NameLength(p[k]) + 1]

LEMMA PathLengthSteps ==
    ASSUME NEW p \in Seq(LegalNames)
    PROVE  /\ PathLengthUpTo(p) \in [0 .. Len(p) -> Int]
           /\ PathLengthUpTo(p)[0] = 1
           /\ \A k \in 1 .. Len(p) :
                 PathLengthUpTo(p)[k] = PathLengthUpTo(p)[k - 1] + NameLength(p[k]) + 1
           /\ PathLength(p) = PathLengthUpTo(p)[Len(p)]
<1> DEFINE N == Len(p)
           D == Int
           Step(v, k) == v + NameLength(p[k]) + 1
           F == [v \in D \X (1 .. N) |-> Step(v[1], v[2])]
           P(f) == f = [k \in 0 .. N |-> IF k = 0 THEN 1 ELSE Step(f[k - 1], k)]
<1>1. N \in Nat /\ 1 \in D
  BY LenProperties
<1>2. \A v \in D, k \in 1 .. N : Step(v, k) \in D
  <2> SUFFICES ASSUME NEW v \in D, NEW k \in 1 .. N
               PROVE  v + NameLength(p[k]) + 1 \in D
    OBVIOUS
  <2>1. p[k] \in LegalNames
    BY ElementOfSeq
  <2>2. NameLength(p[k]) \in Nat
    BY <2>1, NameLengthFacts
  <2> QED
    BY <2>2
<1> HIDE DEF Step
<1>3. F \in [D \X (1 .. N) -> D]
  BY <1>2
<1>4. PICK f \in [0 .. N -> D] : f[0] = 1 /\ \A k \in 1 .. N : f[k] = F[<<f[k - 1], k>>]
  <2> DEFINE a == 1
  <2>1. N \in Nat /\ a \in D
    BY <1>1
  <2> HIDE DEF N, F, a, D
  <2>2. IsDefined(D, a, N, F)
    BY <1>3, <2>1, Recursion
  <2> QED
    BY <2>2 DEF a, IsDefined
<1>5. P(f)
  <2>1. \A k \in 1 .. N : f[k] = Step(f[k - 1], k)
    <3>1. \A k \in 1 .. N : k - 1 \in 0 .. N
      BY <1>1
    <3> QED
      BY <1>4, <3>1
  <2>2. \A k \in 0 .. N : k = 0 \/ k \in 1 .. N
    BY <1>1
  <2> HIDE DEF N, F
  <2> QED
    BY <1>4, <2>1, <2>2
<1>6. P(PathLengthUpTo(p))
  <2>1. PathLengthUpTo(p) = CHOOSE f1 : P(f1)
    BY DEF PathLengthUpTo, Step
  <2> HIDE DEF P
  <2> QED
    BY <1>5, <2>1
<1> DEFINE g == PathLengthUpTo(p)
<1>7. g[0] = 1 /\ \A k \in 1 .. N : g[k] = Step(g[k - 1], k)
  <2> HIDE DEF g
  <2>1. P(g)
    BY <1>6 DEF g
  <2>2. 0 \in 0 .. N /\ \A k \in 1 .. N : k \in 0 .. N /\ k # 0
    BY <1>1
  <2> HIDE DEF N
  <2> QED
    BY <2>1, <2>2
<1>8. \A k \in 0 .. N : g[k] \in D
  <2> DEFINE T == {j \in 0 .. N : g[j] \in D}
  <2> HIDE DEF g
  <2>1. 0 \in T
    <3>1. 0 \in 0 .. N /\ g[0] \in D
      BY <1>1, <1>7
    <3> QED
      BY <3>1
  <2>2. ASSUME NEW k \in 0 .. (N - 1), k \in T
        PROVE  k + 1 \in T
    <3>1. k + 1 \in 1 .. N /\ k + 1 \in 0 .. N /\ (k + 1) - 1 = k
      BY <1>1
    <3>2. g[k] \in D /\ g[k + 1] = Step(g[k], k + 1)
      BY <1>7, <2>2, <3>1
    <3> HIDE DEF D
    <3> QED
      BY <1>2, <3>1, <3>2
  <2> HIDE DEF T
  <2>3. \A k \in 0 .. N : k \in T
    BY <1>1, <2>1, <2>2, UpToNumber
  <2> QED
    BY <2>3 DEF T
<1>9. g \in [0 .. N -> D]
  <2>1. g = [k \in 0 .. N |-> g[k]]
    BY <1>6
  <2> HIDE DEF g
  <2> QED
    BY <1>8, <2>1
<1>10. PathLength(p) = g[N]
  BY Zenon DEF PathLength, PathLengthUpTo
<1> QED
  BY <1>7, <1>9, <1>10 DEF Step

\* The length is never too large, and exact when no name has a blank inside.
LEMMA PathLengthFacts ==
    ASSUME NEW p \in Seq(LegalNames)
    PROVE  PathLength(p) = Len(EntryPath(p)) + 1 <=> \A k \in 1 .. Len(p) : ~HasInnerBlank(p[k])
<1> DEFINE f == Files(p)
           n == Len(p)
           L == PathLengthUpTo(p)
           s == SlashedUpTo(f)
<1>1. /\ f \in Seq(Seq(Chars)) /\ Len(f) = n /\ EntryPath(p) = Slashed(f)
      /\ \A k \in 1 .. n : f[k] = FileName(p[k])
  BY FilesFacts
<1>2. /\ L \in [0 .. n -> Int] /\ L[0] = 1 /\ PathLength(p) = L[n]
      /\ \A k \in 1 .. n : L[k] = L[k - 1] + NameLength(p[k]) + 1
  BY PathLengthSteps
<1> HIDE DEF f
<1>3. /\ s \in [0 .. n -> Seq(Chars)] /\ s[0] = <<>> /\ Slashed(f) = s[n]
      /\ \A k \in 1 .. n : s[k] = s[k - 1] \o <<Slash>> \o f[k]
  BY <1>1, SlashedSteps
<1>4. n \in Nat /\ \A k \in 1 .. n : p[k] \in LegalNames /\ f[k] \in Seq(Chars)
  <2>1. \A k \in 1 .. n : p[k] \in LegalNames
    BY ElementOfSeq
  <2>2. \A k \in 1 .. n : f[k] \in Seq(Chars)
    BY <1>1, ElementOfSeq
  <2> QED
    BY <2>1, <2>2, LenProperties
<1> HIDE DEF n, L, s
<1>5. \A k \in 0 .. n : L[k] \in Int /\ s[k] \in Seq(Chars) /\ Len(s[k]) \in Nat
  <2>1. \A k \in 0 .. n : s[k] \in Seq(Chars)
    BY <1>3
  <2>2. \A k \in 0 .. n : Len(s[k]) \in Nat
    BY <2>1, LenProperties
  <2> QED
    BY <1>2, <2>1, <2>2
<1>6. \A k \in 1 .. n : Len(s[k]) = Len(s[k - 1]) + 1 + Len(f[k])
  <2> TAKE k \in 1 .. n
  <2>1. k - 1 \in 0 .. n
    BY <1>4
  <2> DEFINE u == s[k - 1]
             v == u \o <<Slash>>
  <2>2. u \in Seq(Chars) /\ f[k] \in Seq(Chars) /\ s[k] = v \o f[k]
    BY <1>3, <1>4, <2>1
  <2> HIDE DEF u
  <2>3. v \in Seq(Chars) /\ Len(v) = Len(u) + 1
    BY <2>2, SlashIsChar, ConcatProperties
  <2> HIDE DEF v
  <2>4. Len(v \o f[k]) = Len(v) + Len(f[k])
    BY <2>2, <2>3, ConcatProperties
  <2> QED
    BY <2>2, <2>3, <2>4 DEF u
<1>7. \A k \in 1 .. n :
          /\ NameLength(p[k]) \in Nat /\ Len(f[k]) \in Nat
          /\ NameLength(p[k]) <= Len(f[k])
          /\ NameLength(p[k]) = Len(f[k]) <=> ~HasInnerBlank(p[k])
  BY <1>1, <1>4, NameLengthFacts
<1> DEFINE Exact(k) == \A i \in 1 .. k : ~HasInnerBlank(p[i])
           T == {k \in 0 .. n : /\ L[k] <= Len(s[k]) + 1
                                /\ L[k] = Len(s[k]) + 1 <=> Exact(k)}
<1>8. 0 \in T
  <2>1. L[0] = Len(s[0]) + 1
    BY <1>2, <1>3, EmptySeq
  <2>2. 0 \in 0 .. n /\ Exact(0) /\ L[0] <= Len(s[0]) + 1
    BY <1>4, <2>1, <1>2
  <2> HIDE DEF Exact
  <2> QED
    BY <2>1, <2>2
<1>9. ASSUME NEW k \in 0 .. (n - 1), k \in T
      PROVE  k + 1 \in T
  <2>1. k + 1 \in 1 .. n /\ k + 1 \in 0 .. n /\ (k + 1) - 1 = k /\ k \in 0 .. n
    BY <1>4
  <2>2. Exact(k + 1) <=> Exact(k) /\ ~HasInnerBlank(p[k + 1])
    <3>1. /\ \A i \in 1 .. k + 1 : i = k + 1 \/ i \in 1 .. k
          /\ k + 1 \in 1 .. k + 1 /\ \A i \in 1 .. k : i \in 1 .. k + 1
      BY <2>1
    <3> QED
      BY <3>1
  <2> DEFINE l == L[k]
             c == Len(s[k])
             m == NameLength(p[k + 1])
             w == Len(f[k + 1])
             e == Exact(k)
             h == HasInnerBlank(p[k + 1])
  <2> HIDE DEF Exact
  <2>3. /\ l \in Int /\ c \in Nat /\ m \in Nat /\ w \in Nat
        /\ l <= c + 1 /\ (l = c + 1 <=> e) /\ m <= w /\ (m = w <=> ~h)
    BY <1>5, <1>7, <1>9, <2>1
  <2>4. L[k + 1] = l + m + 1 /\ Len(s[k + 1]) = c + 1 + w
    BY <1>2, <1>6, <2>1
  <2>5. Exact(k + 1) <=> e /\ ~h
    BY <2>2
  <2> HIDE DEF l, c, m, w, e, h
  <2>6. L[k + 1] <= Len(s[k + 1]) + 1
    BY <2>3, <2>4
  <2>7. L[k + 1] = Len(s[k + 1]) + 1 <=> l = c + 1 /\ m = w
    BY <2>3, <2>4
  <2> QED
    BY <2>1, <2>3, <2>5, <2>6, <2>7
<1> HIDE DEF T, Exact
<1>10. n \in T
  <2>1. \A k \in 0 .. n : k \in T
    BY <1>4, <1>8, <1>9, UpToNumber
  <2>2. n \in 0 .. n
    BY <1>4
  <2> QED
    BY <2>1, <2>2
<1>11. L[n] = Len(s[n]) + 1 <=> Exact(n)
  BY <1>10 DEF T
<1> QED
  BY <1>1, <1>2, <1>3, <1>11 DEF Exact, n

-----------------------------------------------------------------------------
(***************************************************************************)
(* How two paths are related.                                              *)
(***************************************************************************)
LEMMA PrefixFacts ==
    ASSUME NEW S, NEW s \in Seq(S), NEW t \in Seq(S)
    PROVE  IsPrefix(s, t) <=> Len(s) <= Len(t) /\ \A i \in 1 .. Len(s) : s[i] = t[i]
<1> DEFINE n == Len(s)
           u == SubSeq(t, 1, n)
<1>1. n \in Nat /\ Len(t) \in Nat
  BY LenProperties
<1>2. SubSeq(s, 1, n) = s
  BY SubSeqFull
<1>3. CASE ~(n <= Len(t))
  BY <1>3 DEF IsPrefix
<1>4. CASE n <= Len(t)
  <2>1. \A i \in 1 .. n : i \in 1 .. Len(t)
    BY <1>1, <1>4
  <2>2. \A i \in 1 .. n : t[i] \in S
    BY <2>1, ElementOfSeq
  <2> HIDE DEF n
  <2>3. u \in Seq(S) /\ Len(u) = n /\ \A i \in 1 .. n : u[i] = t[i]
    <3>1. /\ u \in Seq(S) /\ Len(u) = IF 1 <= n THEN n - 1 + 1 ELSE 0
          /\ \A i \in 1 .. n - 1 + 1 : u[i] = t[1 + i - 1]
      BY <1>1, <2>2, SubSeqProperties
    <3> HIDE DEF u
    <3> QED
      BY <1>1, <3>1
  <2> HIDE DEF u
  <2>4. s = u <=> \A i \in 1 .. n : s[i] = t[i]
    <3>1. Len(s) = n
      BY DEF n
    <3>2. ASSUME \A i \in 1 .. n : s[i] = t[i]
          PROVE  s = u
      <4>1. Len(s) = Len(u) /\ \A i \in 1 .. Len(s) : s[i] = u[i]
        BY <2>3, <3>1, <3>2
      <4> QED
        BY <2>3, <4>1, SeqEqual
    <3> QED
      BY <2>3, <3>2
  <2> QED
    BY <1>2, <1>4, <2>4 DEF IsPrefix, u, n
<1> QED
  BY <1>3, <1>4

Relations == {"unrelated", "equal", "first", "second"}

\* The loop of lf12_path_get_parent at one component, x its result on the rest.
Compared(a, b, x, k) ==
    IF k > Len(a) \/ k > Len(b) \/ a[k] # b[k] THEN "unrelated"
    ELSE IF k = Len(b) THEN IF k = Len(a) THEN "equal" ELSE "second"
    ELSE IF k = Len(a) THEN "first"
    ELSE x

ParentFrom(a, b) ==
    CHOOSE f : f = [k \in 1 .. Len(a) + 1 |-> Compared(a, b, f[k + 1], k)]

LEMMA ParentSteps ==
    ASSUME NEW S, NEW a \in Seq(S), NEW b \in Seq(S)
    PROVE  /\ \A k \in 1 .. Len(a) :
                 ParentFrom(a, b)[k] = Compared(a, b, ParentFrom(a, b)[k + 1], k)
           /\ PathGetParent(a, b) =
                 CASE a = <<>> /\ b = <<>> -> "equal"
                   [] a = <<>> /\ b # <<>> -> "first"
                   [] a # <<>> /\ b = <<>> -> "second"
                   [] OTHER -> ParentFrom(a, b)[1]
<1> DEFINE N == Len(a)
           D == Relations
           F == [v \in D \X (1 .. N) |-> Compared(a, b, v[1], N + 1 - v[2])]
           P(f) == f = [k \in 1 .. N + 1 |-> Compared(a, b, f[k + 1], k)]
<1>1. N \in Nat /\ "unrelated" \in D
  BY LenProperties DEF Relations
<1>2. \A x \in D, k \in Int : Compared(a, b, x, k) \in D
  BY DEF Compared, Relations
<1>3. F \in [D \X (1 .. N) -> D]
  <2>1. \A k \in 1 .. N : N + 1 - k \in Int
    BY <1>1
  <2> HIDE DEF D, N
  <2> QED
    BY <1>2, <2>1
<1>4. PICK g \in [0 .. N -> D] : g[0] = "unrelated" /\ \A k \in 1 .. N : g[k] = F[<<g[k - 1], k>>]
  <2> DEFINE x == "unrelated"
  <2>1. N \in Nat /\ x \in D
    BY <1>1
  <2> HIDE DEF N, F, x, D
  <2>2. IsDefined(D, x, N, F)
    BY <1>3, <2>1, Recursion
  <2> QED
    BY <2>2 DEF x, IsDefined
<1>5. \A k \in 1 .. N : g[k] = Compared(a, b, g[k - 1], N + 1 - k)
  <2>1. \A k \in 1 .. N : k - 1 \in 0 .. N
    BY <1>1
  <2> HIDE DEF D, N
  <2> QED
    BY <1>4, <2>1
<1> DEFINE f == [k \in 1 .. N + 1 |-> g[N + 1 - k]]
<1>6. P(f)
  <2>1. \A k \in 1 .. N + 1 : f[k] = Compared(a, b, f[k + 1], k)
    <3> TAKE k \in 1 .. N + 1
    <3>1. CASE k = N + 1
      <4>1. f[k] = "unrelated"
        <5>1. N + 1 - k = 0
          BY <1>1, <3>1
        <5> QED
          BY <1>4, <5>1
      <4>2. k > Len(a)
        BY <1>1, <3>1
      <4>3. Compared(a, b, f[k + 1], k) = "unrelated"
        BY <4>2 DEF Compared
      <4> QED
        BY <4>1, <4>3
    <3>2. CASE k # N + 1
      <4> DEFINE j == N + 1 - k
      <4>1. /\ k \in 1 .. N + 1 /\ k + 1 \in 1 .. N + 1 /\ j \in 1 .. N
            /\ N + 1 - (k + 1) = j - 1 /\ N + 1 - j = k
        BY <1>1, <3>2
      <4>2. f[k] = g[j] /\ f[k + 1] = g[j - 1]
        BY <4>1
      <4> HIDE DEF j, f
      <4> QED
        BY <1>5, <4>1, <4>2
    <3> QED
      BY <3>1, <3>2
  <2> DEFINE h == [k \in 1 .. N + 1 |-> Compared(a, b, f[k + 1], k)]
  <2>2. \A k \in 1 .. N + 1 : f[k] = h[k]
    BY <2>1
  <2>3. f = [k \in 1 .. N + 1 |-> f[k]] /\ h = [k \in 1 .. N + 1 |-> h[k]]
    OBVIOUS
  <2> HIDE DEF f
  <2> QED
    BY <2>1, <2>3
<1> HIDE DEF f
<1>7. P(ParentFrom(a, b))
  <2>1. ParentFrom(a, b) = CHOOSE f1 : P(f1)
    BY DEF ParentFrom
  <2> HIDE DEF P
  <2> QED
    BY <1>6, <2>1
<1>8. \A k \in 1 .. N : ParentFrom(a, b)[k] = Compared(a, b, ParentFrom(a, b)[k + 1], k)
  <2> DEFINE q == ParentFrom(a, b)
  <2> HIDE DEF q
  <2>1. P(q)
    BY <1>7 DEF q
  <2>2. \A k \in 1 .. N : k \in 1 .. N + 1
    BY <1>1
  <2> HIDE DEF N
  <2>3. \A k \in 1 .. N : q[k] = Compared(a, b, q[k + 1], k)
    BY <2>1, <2>2
  <2> QED
    BY <2>3 DEF q
<1>9. PathGetParent(a, b) =
          CASE a = <<>> /\ b = <<>> -> "equal"
            [] a = <<>> /\ b # <<>> -> "first"
            [] a # <<>> /\ b = <<>> -> "second"
            [] OTHER -> ParentFrom(a, b)[1]
  BY Zenon DEF PathGetParent, ParentFrom, Compared
<1> QED
  BY <1>8, <1>9

Relation(a, b) ==
    CASE a = b -> "equal"
      [] IsStrictPrefix(a, b) -> "first"
      [] IsStrictPrefix(b, a) -> "second"
      [] OTHER -> "unrelated"

LEMMA ParentIsRelation ==
    ASSUME NEW S, NEW a \in Seq(S), NEW b \in Seq(S)
    PROVE  PathGetParent(a, b) = Relation(a, b)
<1> DEFINE n == Len(a)
           m == Len(b)
           g == ParentFrom(a, b)
           Same(k) == \A i \in 1 .. k : a[i] = b[i]
<1>1. n \in Nat /\ m \in Nat /\ (a = <<>> <=> n = 0) /\ (b = <<>> <=> m = 0)
  BY LenProperties, EmptySeq
<1>2. /\ IsStrictPrefix(a, b) <=> n < m /\ Same(n)
      /\ IsStrictPrefix(b, a) <=> m < n /\ Same(m)
      /\ a = b <=> n = m /\ Same(n)
  <2>1. a = b <=> n = m /\ Same(n)
    BY SeqEqual
  <2>2. IsPrefix(a, b) <=> n <= m /\ Same(n)
    BY PrefixFacts
  <2>3. IsPrefix(b, a) <=> m <= n /\ Same(m)
    <3>1. IsPrefix(b, a) <=> m <= n /\ \A i \in 1 .. m : b[i] = a[i]
      BY PrefixFacts
    <3> QED
      BY <3>1
  <2> HIDE DEF Same, n, m
  <2> QED
    BY <1>1, <2>1, <2>2, <2>3 DEF IsStrictPrefix
<1>3. /\ \A k \in 1 .. n : g[k] = Compared(a, b, g[k + 1], k)
      /\ PathGetParent(a, b) =
            CASE a = <<>> /\ b = <<>> -> "equal"
              [] a = <<>> /\ b # <<>> -> "first"
              [] a # <<>> /\ b = <<>> -> "second"
              [] OTHER -> g[1]
  BY ParentSteps
<1>4. \A k, j \in Nat : k <= j /\ Same(j) => Same(k)
  OBVIOUS
<1> DEFINE R == Relation(a, b)
<1>5. /\ n = m /\ Same(n) => R = "equal"
      /\ n < m /\ Same(n) => R = "first"
      /\ m < n /\ Same(m) => R = "second"
      /\ ~(n <= m /\ Same(n)) /\ ~(m <= n /\ Same(m)) => R = "unrelated"
  <2> HIDE DEF Same, n, m
  <2> QED
    BY <1>1, <1>2 DEF Relation
<1> HIDE DEF g, R
\* From any component on, when those before it are the same.
<1> DEFINE Right(k) == k <= n /\ k <= m /\ Same(k - 1) => g[k] = R
           T == {j \in 0 .. n : j # 0 => Right(n + 1 - j)}
<1>6. ASSUME NEW k \in 1 .. n, k < n => Right(k + 1)
      PROVE  Right(k)
  <2> SUFFICES ASSUME k <= m, Same(k - 1)
               PROVE  g[k] = R
    OBVIOUS
  <2>1. g[k] = Compared(a, b, g[k + 1], k)
    BY <1>3
  <2>2. k \in Nat /\ k # 0 /\ k <= n
    BY <1>1
  <2>3. CASE a[k] # b[k]
    <3>1. \A j \in Nat : k <= j => ~Same(j)
      BY <2>2, <2>3
    <3>2. g[k] = "unrelated"
      BY <2>1, <2>3 DEF Compared
    <3> HIDE DEF Same, n, m
    <3>3. ~Same(n) /\ ~Same(m)
      BY <1>1, <2>2, <3>1
    <3> QED
      BY <1>5, <3>2, <3>3
  <2>4. CASE a[k] = b[k]
    <3>1. Same(k)
      <4>1. \A i \in 1 .. k : i = k \/ i \in 1 .. (k - 1)
        BY <2>2
      <4> QED
        BY <2>4, <4>1
    <3> HIDE DEF Same
    <3>2. CASE k = m
      <4>1. g[k] = IF k = n THEN "equal" ELSE "second"
        BY <1>1, <2>1, <2>2, <2>4, <3>2 DEF Compared
      <4>2. k = n => R = "equal"
        BY <1>5, <3>1, <3>2
      <4>3. k # n => R = "second"
        BY <1>1, <1>5, <2>2, <3>1, <3>2
      <4> QED
        BY <4>1, <4>2, <4>3
    <3>3. CASE k # m /\ k = n
      <4>1. g[k] = "first"
        BY <1>1, <2>1, <2>2, <2>4, <3>3 DEF Compared
      <4>2. n < m /\ Same(n)
        BY <1>1, <2>2, <3>1, <3>3
      <4> QED
        BY <1>5, <4>1, <4>2
    <3>4. CASE k # m /\ k # n
      <4>1. g[k] = g[k + 1]
        BY <1>1, <2>1, <2>2, <2>4, <3>4 DEF Compared
      <4>2. k < n /\ k + 1 <= n /\ k + 1 <= m /\ (k + 1) - 1 = k
        BY <1>1, <2>2, <3>4
      <4>3. g[k + 1] = R
        BY <1>6, <3>1, <4>2
      <4> QED
        BY <4>1, <4>3
    <3> QED
      BY <3>2, <3>3, <3>4
  <2> QED
    BY <2>3, <2>4
<1> HIDE DEF Right
<1>7. 0 \in T
  BY <1>1
<1>8. ASSUME NEW j \in 0 .. (n - 1), j \in T
      PROVE  j + 1 \in T
  <2> DEFINE k == n - j
  <2>1. /\ k \in 1 .. n /\ n + 1 - (j + 1) = k /\ (k < n <=> j # 0) /\ n + 1 - j = k + 1
        /\ j + 1 \in 0 .. n
    BY <1>1
  <2>2. k < n => Right(k + 1)
    BY <1>8, <2>1
  <2> HIDE DEF k
  <2>3. Right(k)
    BY <1>6, <2>1, <2>2
  <2> QED
    BY <2>1, <2>3
<1>9. n # 0 => Right(1)
  <2> HIDE DEF T
  <2>1. \A j \in 0 .. n : j \in T
    BY <1>1, <1>7, <1>8, UpToNumber
  <2> USE DEF T
  <2>2. n \in 0 .. n /\ n + 1 - n = 1
    BY <1>1
  <2> QED
    BY <2>1, <2>2
<1>10. CASE n # 0 /\ m # 0
  <2>1. 1 <= n /\ 1 <= m /\ Same(1 - 1)
    BY <1>1, <1>10
  <2>2. g[1] = R
    BY <1>9, <1>10, <2>1 DEF Right
  <2>3. a # <<>> /\ b # <<>>
    BY <1>1, <1>10
  <2> QED
    BY <1>3, <2>2, <2>3 DEF R
<1>11. CASE n = 0 \/ m = 0
  <2>1. Same(0)
    OBVIOUS
  <2> HIDE DEF Same
  <2>2. /\ n = 0 /\ m = 0 => R = "equal"
        /\ n = 0 /\ m # 0 => R = "first"
        /\ n # 0 /\ m = 0 => R = "second"
    BY <1>1, <1>5, <2>1
  <2> QED
    BY <1>1, <1>3, <1>11, <2>2 DEF R
<1> QED
  BY <1>10, <1>11

-----------------------------------------------------------------------------
(***************************************************************************)
(* The life of a path.                                                     *)
(***************************************************************************)
\* What every step hands on to the next.
TextInv ==
    /\ argument \in Seq(Chars) /\ text \in Seq(Chars)
    /\ dest # NoDestination =>
          /\ dest \in Seq(Chars) /\ Tokens(argument) # <<>>
          /\ text = DestinationPath(argument, dest)

PartsInv ==
    /\ step \in {"given", "split", "undefined", "empty", "built", "shown", "again"}
    /\ step \in {"split", "undefined", "built", "shown", "again"} =>
          ~IsEmptyPath(text) /\ parts = SplitInput(text)

PathInv ==
    /\ step \in {"given", "split", "undefined", "empty"} => path = <<>>
    /\ step \in {"built", "shown", "again"} =>
          /\ Wild \notin {parts[k] : k \in 1 .. Len(parts)}
          /\ path = BuildPath(parts)

ShownInv ==
    /\ step \in {"shown", "again"} => length = PathLength(path) /\ shown = EntryPath(path)
    /\ step = "again" =>
          reparsed = IF IsEmptyPath(shown) THEN <<>> ELSE BuildPath(SplitInput(shown))

HandedOn == TextInv /\ PartsInv /\ PathInv /\ ShownInv

LEMMA InitHandedOn == Init => HandedOn
<1> SUFFICES ASSUME Init
             PROVE  HandedOn
  OBVIOUS
<1>1. argument \in Seq(Chars)
  BY StringsAssumption DEF Init
<1>2. ASSUME dest = NoDestination, text = argument
      PROVE  TextInv
  BY <1>1, <1>2 DEF TextInv
<1>3. ASSUME dest \in Destinations, Tokens(argument) # <<>>,
             text = DestinationPath(argument, dest)
      PROVE  TextInv
  <2>1. dest \in Seq(Chars)
    BY <1>3, StringsAssumption
  <2>2. text \in Seq(Chars)
    BY <1>1, <1>3, <2>1, DestinationPathFacts
  <2> QED
    BY <1>1, <1>3, <2>1, <2>2 DEF TextInv
<1>4. TextInv
  BY <1>2, <1>3 DEF Init
<1> QED
  BY <1>4 DEF Init, HandedOn, PartsInv, PathInv, ShownInv

LEMMA NextHandedOn == HandedOn /\ [Next]_vars => HandedOn'
<1> SUFFICES ASSUME HandedOn, [Next]_vars
             PROVE  HandedOn'
  OBVIOUS
<1> USE DEF HandedOn
<1>1. CASE Split
  <2>1. TextInv'
    BY <1>1 DEF Split, TextInv
  <2>2. PartsInv'
    BY <1>1 DEF Split, PartsInv
  <2>3. PathInv' /\ ShownInv'
    BY <1>1 DEF Split, PartsInv, PathInv, ShownInv
  <2> QED
    BY <2>1, <2>2, <2>3
<1>2. CASE Build
  <2>1. TextInv'
    BY <1>2 DEF Build, TextInv
  <2>2. PartsInv'
    BY <1>2 DEF Build, PartsInv
  <2>3. PathInv' /\ ShownInv'
    BY <1>2 DEF Build, PartsInv, PathInv, ShownInv
  <2> QED
    BY <2>1, <2>2, <2>3
<1>3. CASE GetEntryPath
  <2>1. TextInv'
    BY <1>3 DEF GetEntryPath, TextInv
  <2>2. PartsInv'
    BY <1>3 DEF GetEntryPath, PartsInv
  <2>3. PathInv' /\ ShownInv'
    BY <1>3 DEF GetEntryPath, PartsInv, PathInv, ShownInv
  <2> QED
    BY <2>1, <2>2, <2>3
<1>4. CASE ParseAgain
  <2>1. TextInv'
    BY <1>4 DEF ParseAgain, TextInv
  <2>2. PartsInv'
    BY <1>4 DEF ParseAgain, PartsInv
  <2>3. PathInv' /\ ShownInv'
    BY <1>4 DEF ParseAgain, PartsInv, PathInv, ShownInv
  <2> QED
    BY <2>1, <2>2, <2>3
<1>5. CASE UNCHANGED vars
  BY <1>5 DEF vars, TextInv, PartsInv, PathInv, ShownInv
<1> QED
  BY <1>1, <1>2, <1>3, <1>4, <1>5 DEF Next

LEMMA PathsHandedOn == Spec => []HandedOn
BY InitHandedOn, NextHandedOn, PTL DEF Spec

\* A path that is built has components, every one a legal name.
LEMMA BuiltPath ==
    ASSUME HandedOn, step \in {"built", "shown", "again"}
    PROVE  /\ parts \in Lists /\ path = BuildPath(parts)
           /\ path \in Seq(LegalNames) /\ path # <<>>
<1>1. /\ text \in Seq(Chars) /\ ~IsEmptyPath(text) /\ parts = SplitInput(text)
      /\ Wild \notin {parts[k] : k \in 1 .. Len(parts)} /\ path = BuildPath(parts)
  BY DEF HandedOn, TextInv, PartsInv, PathInv
<1>2. parts \in Lists
  BY <1>1, SplitInputFacts
<1>3. parts \in Seq(Seq(Chars)) /\ Len(parts) # 0
  BY <1>2, EmptySeq DEF Lists
<1>4. BuildPath(parts) \in Seq(LegalNames) /\ Len(BuildPath(parts)) # 0
  BY <1>3, BuildPathFacts
<1> QED
  BY <1>1, <1>2, <1>4, EmptySeq

\* Splitting a path loses nothing but a slash at either end, whatever the
\* string: the parts, none of which has a slash in it, give the string again.
\* Only behind two slashes at the end does _lf12_split_input leave a part
\* without a pointer.
THEOREM PathsAreSplitExactly == Spec => []SplitIsExact
<1>1. HandedOn => SplitIsExact
  <2> SUFFICES ASSUME HandedOn, step \in {"split", "undefined", "built"}
               PROVE  IF EndsInTwoSlashes
                      THEN Last(parts) = Wild
                      ELSE /\ \A k \in 1 .. Len(parts) :
                                 \A i \in 1 .. Len(parts[k]) : parts[k][i] # Slash
                           /\ text \in {lead \o Joined(parts) \o trail :
                                            lead, trail \in {<<>>, <<Slash>>}}
    BY DEF SplitIsExact
  <2>1. text \in Seq(Chars) /\ ~IsEmptyPath(text) /\ parts = SplitInput(text)
    BY DEF HandedOn, TextInv, PartsInv
  <2>2. EndsInTwoSlashes <=> TwoSlashesAtEnd(text)
    BY DEF EndsInTwoSlashes, TwoSlashesAtEnd
  <2>3. CASE TwoSlashesAtEnd(text)
    BY <2>1, <2>2, <2>3, SplitInputFacts
  <2>4. CASE ~TwoSlashesAtEnd(text)
    <3>1. /\ PartsSlashFree(parts)
          /\ \E lead, trail \in {<<>>, <<Slash>>} : text = (lead \o Joined(parts)) \o trail
      BY <2>1, <2>4, SplitInputFacts
    <3>2. text \in {(lead \o Joined(parts)) \o trail : lead, trail \in {<<>>, <<Slash>>}}
      <4> DEFINE Ends == {<<>>, <<Slash>>}
                 F(lead, trail) == (lead \o Joined(parts)) \o trail
      <4>1. PICK lead \in Ends, trail \in Ends : text = F(lead, trail)
        BY <3>1
      <4> HIDE DEF Ends, F
      <4>2. text \in {F(u, v) : u, v \in Ends}
        BY <4>1
      <4> QED
        BY <4>2 DEF Ends, F
    <3>3. \A k \in 1 .. Len(parts) : \A i \in 1 .. Len(parts[k]) : parts[k][i] # Slash
      BY <3>1 DEF PartsSlashFree, SlashFree
    <3> QED
      BY <2>2, <2>4, <3>2, <3>3
  <2> QED
    BY <2>3, <2>4
<1> QED
  BY <1>1, PathsHandedOn, PTL

\* The path f12 shows for an entry leads to that entry again, unless a name is
\* all blanks; and a converted name holds valid characters only.
THEOREM ShownPathsAreFound == Spec => []ConversionIsStable
<1>1. HandedOn => ConversionIsStable
  <2> SUFFICES ASSUME HandedOn
               PROVE  ConversionIsStable
    OBVIOUS
  <2>1. CASE path = <<>>
    <3>1. step # "again"
      BY <2>1, BuiltPath
    <3>2. Len(path) = 0
      BY <2>1, EmptySeq
    <3> QED
      BY <3>1, <3>2 DEF ConversionIsStable
  <2>2. CASE path # <<>>
    <3>1. step \in {"built", "shown", "again"}
      BY <2>2 DEF HandedOn, PartsInv, PathInv
    <3>2. path \in Seq(LegalNames)
      BY <3>1, BuiltPath
    <3>3. \A k \in 1 .. Len(path) : path[k] \in LegalNames
      BY <3>2, ElementOfSeq
    <3>4. \A k \in 1 .. Len(path) : \A i \in 1 .. BaseLength : path[k].base[i] \in ValidChars
      BY <3>3, BaseIsString
    <3>5. ASSUME step = "again", \A k \in 1 .. Len(path) : ~IsNameless(path[k])
          PROVE  reparsed = path
      <4>1. /\ shown = EntryPath(path)
            /\ reparsed = IF IsEmptyPath(shown) THEN <<>> ELSE BuildPath(SplitInput(shown))
        BY <3>5 DEF HandedOn, ShownInv
      <4>2. ~IsEmptyPath(EntryPath(path)) /\ BuildPath(SplitInput(EntryPath(path))) = path
        BY <2>2, <3>2, <3>5, EntryPathIsReparsed
      <4> QED
        BY <4>1, <4>2
    <3> QED
      BY <3>4, <3>5 DEF ConversionIsStable
  <2> QED
    BY <2>1, <2>2
<1> QED
  BY <1>1, PathsHandedOn, PTL

\* The buffer _lf12_get_path_length sizes for the path of an entry is exactly
\* large enough when, and only when, no name in it has a blank inside.
THEOREM BufferIsExactWithoutBlanks == Spec => []LengthExactWithoutBlanks
<1>1. HandedOn => LengthExactWithoutBlanks
  <2> SUFFICES ASSUME HandedOn, step \in {"shown", "again"}
               PROVE  length = Len(shown) + 1
                          <=> \A k \in 1 .. Len(path) : ~HasInnerBlank(path[k])
    BY DEF LengthExactWithoutBlanks
  <2>1. length = PathLength(path) /\ shown = EntryPath(path)
    BY DEF HandedOn, ShownInv
  <2>2. path \in Seq(LegalNames)
    BY BuiltPath
  <2> QED
    BY <2>1, <2>2, PathLengthFacts
<1> QED
  BY <1>1, PathsHandedOn, PTL

\* A recursive put writes where its arguments say: the path destination_path
\* makes is parsed into the components of the destination and those of the file.
THEOREM PutsFindTheirPlace == Spec => []PutsWhereToldTo
<1>1. HandedOn => PutsWhereToldTo
  <2> DEFINE told == Tokens(dest \o <<Slash>> \o argument)
             names == [k \in 1 .. Len(told) |-> Converted(told[k])]
  <2> SUFFICES ASSUME HandedOn, step = "built", dest # NoDestination,
                      \A k \in 1 .. Len(names) : ~IsNameless(names[k])
               PROVE  path = names
    BY DEF PutsWhereToldTo
  <2>1. /\ argument \in Seq(Chars) /\ dest \in Seq(Chars) /\ Tokens(argument) # <<>>
        /\ text = DestinationPath(argument, dest)
    BY DEF HandedOn, TextInv
  <2>2. names = Told(argument, dest)
    BY DEF Told, BuildPath
  <2>3. parts = SplitInput(text) /\ path = BuildPath(parts)
    BY DEF HandedOn, PartsInv, PathInv
  <2> DEFINE n == names
  <2> HIDE DEF names, n
  <2>4. /\ names \in Seq(LegalNames) /\ names # <<>>
        /\ text = Joined(Files(names))
    BY <2>1, <2>2, DestinationPathFacts
  <2>5. BuildPath(SplitInput(Joined(Files(names)))) = names
    BY <2>4, EntryPathIsReparsed
  <2> QED
    BY <2>3, <2>4, <2>5
<1> QED
  BY <1>1, PathsHandedOn, PTL

\* The relation f12_move decides on is that of prefixes, whatever the two paths
\* and however deep.
THEOREM RelationsArePrefixes == Spec => []RelationIsPrefix
<1>1. HandedOn => RelationIsPrefix
  <2> SUFFICES ASSUME HandedOn, step = "built", NEW s \in Others
               PROVE  LET other == IF IsEmptyPath(s) THEN <<>> ELSE BuildPath(SplitInput(s))
                      IN  PathGetParent(other, path) =
                              CASE other = path -> "equal"
                                [] IsStrictPrefix(other, path) -> "first"
                                [] IsStrictPrefix(path, other) -> "second"
                                [] OTHER -> "unrelated"
    BY DEF RelationIsPrefix
  <2> DEFINE other == IF IsEmptyPath(s) THEN <<>> ELSE BuildPath(SplitInput(s))
             p == SplitInput(s)
             S == LegalNames \union {Converted(p[k]) : k \in 1 .. Len(p)}
  <2>1. path \in Seq(S)
    <3>1. path \in Seq(LegalNames) /\ LegalNames \subseteq S
      BY BuiltPath
    <3> HIDE DEF S
    <3> QED
      BY <3>1, SeqMonotonic
  <2>2. other \in Seq(S)
    <3>1. CASE IsEmptyPath(s)
      BY <3>1, EmptySeq
    <3>2. CASE ~IsEmptyPath(s)
      <4>1. Len(p) \in Nat
        <5>1. s \in Seq(Chars)
          BY StringsAssumption
        <5> QED
          BY <3>2, <5>1, SplitInputFacts
      <4>2. other = [k \in 1 .. Len(p) |-> Converted(p[k])]
        BY <3>2 DEF BuildPath
      <4>3. \A k \in 1 .. Len(p) : Converted(p[k]) \in S
        OBVIOUS
      <4> HIDE DEF S, p, other
      <4>4. other \in [1 .. Len(p) -> S]
        BY <4>2, <4>3
      <4> QED
        BY <4>1, <4>4
    <3> QED
      BY <3>1, <3>2
  <2> HIDE DEF other, S
  <2>3. PathGetParent(other, path) = Relation(other, path)
    BY <2>1, <2>2, ParentIsRelation
  <2> QED
    BY <2>3 DEF Relation, other
<1> QED
  BY <1>1, PathsHandedOn, PTL
=============================================================================
