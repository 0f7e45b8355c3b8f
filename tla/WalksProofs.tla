----------------------------- MODULE WalksProofs -----------------------------
(***************************************************************************)
(* The walks, for trees of every depth and width.                          *)
(*                                                                         *)
(* Positions are in a linear order, that of a walk.  What has been listed  *)
(* is at every moment what is to be listed before the slot that the loop   *)
(* looks at next (WalkInv).  The counts and the widths are computed by     *)
(* recursion over the tree; proofs about them go from the leaves up, the   *)
(* counts are numbers of positions, and the widths bound every line below. *)
(***************************************************************************)
EXTENDS WalkProperties, FiniteSetTheorems, FunctionTheorems, SequenceTheorems,
        WellFoundedInduction, TLAPS

-----------------------------------------------------------------------------
(***************************************************************************)
(* Induction and recursion up to a number.                                 *)
(***************************************************************************)
LEMMA LeastNumber ==
    ASSUME NEW S \in SUBSET Nat, S # {}
    PROVE  \E n \in S : \A m \in S : n <= m
<1>1. IsWellFoundedOn(OpToRel(<, Nat), Nat)
  BY NatLessThanWellFounded
<1>2. PICK n \in S : \A m \in S : ~ (<<m, n>> \in OpToRel(<, Nat))
  BY <1>1, WFMin
<1>3. ASSUME NEW m \in S, m < n
      PROVE  FALSE
  <2>1. <<m, n>> \in Nat \X Nat /\ <<m, n>>[1] < <<m, n>>[2]
    BY <1>3
  <2>2. <<m, n>> \in OpToRel(<, Nat)
    BY <2>1 DEF OpToRel
  <2> QED
    BY <1>2, <2>2
<1> QED
  BY <1>3

LEMMA UpToNumber ==
    ASSUME NEW N \in Nat, NEW S, 0 \in S, \A n \in 0 .. (N - 1) : n \in S => n + 1 \in S
    PROVE  \A n \in 0 .. N : n \in S
<1> DEFINE Missing == {n \in 0 .. N : n \notin S}
<1>1. ASSUME Missing # {}
      PROVE  FALSE
  <2>1. Missing \in SUBSET Nat
    OBVIOUS
  <2> HIDE DEF Missing
  <2>2. PICK x \in Missing : \A y \in Missing : x <= y
    BY <1>1, <2>1, LeastNumber
  <2> USE DEF Missing
  <2>3. x \in 0 .. N /\ x # 0 /\ x - 1 \in 0 .. (N - 1) /\ x - 1 \in 0 .. N
    OBVIOUS
  <2>4. x - 1 \in Missing
    <3>1. x - 1 \in S => (x - 1) + 1 \in S
      BY <2>3
    <3>2. (x - 1) + 1 = x
      BY <2>3
    <3> QED
      BY <2>3, <3>1, <3>2
  <2> HIDE DEF Missing
  <2>5. x <= x - 1
    BY <2>2, <2>4
  <2> QED
    BY <2>3, <2>5
<1> QED
  BY <1>1

\* f is the function that the recursion from a by F defines.
IsDefined(D, a, N, F) ==
    \E f \in [0 .. N -> D] : f[0] = a /\ \A k \in 1 .. N : f[k] = F[<<f[k - 1], k>>]

LEMMA Recursion ==
    ASSUME NEW D, NEW a \in D, NEW N \in Nat, NEW F \in [D \X (1 .. N) -> D]
    PROVE  IsDefined(D, a, N, F)
<1> DEFINE Starts(f, n) ==
                /\ f \in [0 .. n -> D] /\ f[0] = a
                /\ \A k \in 1 .. n : f[k] = F[<<f[k - 1], k>>]
           S == {n \in 0 .. N : \E f : Starts(f, n)}
<1>1. 0 \in S
  <2> DEFINE f == [k \in 0 .. 0 |-> a]
  <2>1. f \in [0 .. 0 -> D] /\ f[0] = a
    OBVIOUS
  <2>2. \A k \in 1 .. 0 : f[k] = F[<<f[k - 1], k>>]
    OBVIOUS
  <2> HIDE DEF f
  <2>3. Starts(f, 0)
    BY <2>1, <2>2
  <2> QED
    BY <2>3
<1>2. ASSUME NEW n \in 0 .. (N - 1), n \in S
      PROVE  n + 1 \in S
  <2>1. PICK f : Starts(f, n)
    BY <1>2
  <2> DEFINE g == [k \in 0 .. (n + 1) |-> IF k = n + 1 THEN F[<<f[n], n + 1>>] ELSE f[k]]
  <2>2. F[<<f[n], n + 1>>] \in D
    <3>1. f[n] \in D /\ n + 1 \in 1 .. N
      BY <2>1
    <3> QED
      BY <3>1
  <2>3. \A k \in 0 .. n : k \in 0 .. (n + 1) /\ k # n + 1 /\ g[k] = f[k] /\ f[k] \in D
    BY <2>1
  <2>4. n + 1 \in 0 .. (n + 1) /\ g[n + 1] = F[<<f[n], n + 1>>]
    OBVIOUS
  <2>5. \A k \in 0 .. (n + 1) : k \in 0 .. n \/ k = n + 1
    OBVIOUS
  <2>6. g = [k \in 0 .. (n + 1) |-> g[k]] /\ \A k \in 0 .. (n + 1) : g[k] \in D
    BY <2>2, <2>3, <2>4, <2>5
  <2> HIDE DEF g
  <2>7. g \in [0 .. (n + 1) -> D]
    BY <2>6
  <2>8. ASSUME NEW k \in 1 .. (n + 1)
        PROVE  g[k] = F[<<g[k - 1], k>>]
    <3>1. k - 1 \in 0 .. n /\ (k = n + 1 => k - 1 = n) /\ (k # n + 1 => k \in 1 .. n /\ k \in 0 .. n)
      OBVIOUS
    <3>2. g[k - 1] = f[k - 1]
      BY <2>3, <3>1
    <3>3. CASE k = n + 1
      BY <2>4, <3>1, <3>2, <3>3
    <3>4. CASE k # n + 1
      BY <2>1, <2>3, <3>1, <3>2, <3>4
    <3> QED
      BY <3>3, <3>4
  <2>9. g[0] = a
    BY <2>1, <2>3
  <2>10. Starts(g, n + 1)
    BY <2>7, <2>8, <2>9
  <2>11. n + 1 \in 0 .. N
    OBVIOUS
  <2> HIDE DEF Starts
  <2> QED
    BY <2>10, <2>11
<1>3. N \in S
  <2> HIDE DEF S
  <2>1. \A n \in 0 .. N : n \in S
    BY <1>1, <1>2, UpToNumber
  <2> QED
    BY <2>1
<1> QED
  BY <1>3 DEF IsDefined

-----------------------------------------------------------------------------
(***************************************************************************)
(* Positions and the order of a walk.                                      *)
(***************************************************************************)
Slot == Nat \ {0}

Positions == Seq(Slot)

\* p is q or above it.
Leads(p, q) == Len(p) <= Len(q) /\ \A m \in 1 .. Len(p) : p[m] = q[m]

\* q is below p or in a later slot at place k, where they part.
PartAt(p, q, k) ==
    /\ k - 1 <= Len(p)
    /\ \A m \in 1 .. k - 1 : p[m] = q[m]
    /\ k <= Len(p) => p[k] < q[k]

Earlier(p, q) == \E k \in 1 .. Len(q) : PartAt(p, q, k)

LEMMA PositionFacts ==
    ASSUME NEW p \in Positions
    PROVE  /\ Len(p) \in Nat /\ DOMAIN p = 1 .. Len(p)
           /\ \A k \in 1 .. Len(p) : p[k] \in Slot
           /\ p = <<>> <=> Len(p) = 0
BY DEF Positions

LEMMA EmptyPosition == <<>> \in Positions /\ Len(<<>>) = 0
BY DEF Positions

LEMMA SamePosition ==
    ASSUME NEW p \in Positions, NEW q \in Positions, Len(p) = Len(q),
           \A k \in 1 .. Len(p) : p[k] = q[k]
    PROVE  p = q
BY SeqEqual DEF Positions

LEMMA AppendFacts ==
    ASSUME NEW p \in Positions, NEW k \in Slot
    PROVE  /\ Append(p, k) \in Positions /\ Append(p, k) # <<>>
           /\ Len(Append(p, k)) = Len(p) + 1
           /\ \A m \in 1 .. Len(p) : Append(p, k)[m] = p[m]
           /\ Append(p, k)[Len(p) + 1] = k
           /\ Front(Append(p, k)) = p /\ Last(Append(p, k)) = k
<1>1. /\ Append(p, k) \in Positions /\ Append(p, k) # <<>>
      /\ Len(Append(p, k)) = Len(p) + 1
      /\ \A m \in 1 .. Len(p) : Append(p, k)[m] = p[m]
      /\ Append(p, k)[Len(p) + 1] = k
  BY DEF Positions
<1>2. Len(p) \in Nat /\ (Len(p) + 1) - 1 = Len(p)
  BY PositionFacts
<1>3. Front(Append(p, k)) = p
  <2>1. Front(Append(p, k)) = SubSeq(Append(p, k), 1, Len(p))
    BY <1>1, <1>2 DEF Front
  <2> QED
    BY <1>1, <1>2, <2>1 DEF Positions
<1> QED
  BY <1>1, <1>2, <1>3 DEF Last

LEMMA FrontFacts ==
    ASSUME NEW p \in Positions, p # <<>>
    PROVE  /\ Front(p) \in Positions /\ Len(Front(p)) = Len(p) - 1
           /\ \A m \in 1 .. Len(p) - 1 : Front(p)[m] = p[m]
           /\ Last(p) \in Slot /\ Last(p) = p[Len(p)]
           /\ p = Append(Front(p), Last(p))
<1>1. Len(p) \in Nat /\ Len(p) # 0 /\ Len(p) - 1 \in Nat /\ Len(p) \in 1 .. Len(p)
  BY PositionFacts
<1>2. /\ Front(p) \in Positions /\ Len(Front(p)) = Len(p) - 1
      /\ \A m \in 1 .. Len(p) - 1 : Front(p)[m] = p[m]
  <2> DEFINE n == Len(p) - 1
  <2>1. n \in Nat /\ n <= Len(p)
    BY <1>1
  <2> HIDE DEF n
  <2>2. /\ SubSeq(p, 1, n) \in Positions /\ Len(SubSeq(p, 1, n)) = n
        /\ \A m \in 1 .. n : SubSeq(p, 1, n)[m] = p[m]
    BY <2>1 DEF Positions
  <2> QED
    BY <2>2 DEF n, Front
<1>3. Last(p) \in Slot /\ Last(p) = p[Len(p)]
  BY <1>1, PositionFacts DEF Last
<1>4. p = Append(Front(p), Last(p))
  <2> DEFINE q == Append(Front(p), Last(p))
  <2>1. /\ q \in Positions /\ Len(q) = (Len(p) - 1) + 1
        /\ \A m \in 1 .. Len(p) - 1 : q[m] = Front(p)[m]
        /\ q[(Len(p) - 1) + 1] = Last(p)
    BY <1>2, <1>3, AppendFacts
  <2> HIDE DEF q
  <2>2. Len(p) = Len(q) /\ \A k \in 1 .. Len(p) : p[k] = q[k]
    BY <1>1, <1>2, <1>3, <2>1
  <2>3. p = q
    BY <2>1, <2>2, SamePosition
  <2> QED
    BY <2>3 DEF q
<1> QED
  BY <1>2, <1>3, <1>4

LEMMA SameBeginning ==
    ASSUME NEW p \in Positions, NEW q \in Positions, NEW n \in Nat, n <= Len(p), n <= Len(q)
    PROVE  SubSeq(p, 1, n) = SubSeq(q, 1, n) <=> \A m \in 1 .. n : p[m] = q[m]
<1>1. /\ SubSeq(p, 1, n) \in Positions /\ SubSeq(q, 1, n) \in Positions
      /\ Len(SubSeq(p, 1, n)) = n /\ Len(SubSeq(q, 1, n)) = n
      /\ \A m \in 1 .. n : SubSeq(p, 1, n)[m] = p[m] /\ SubSeq(q, 1, n)[m] = q[m]
  BY DEF Positions
<1> QED
  BY <1>1, SamePosition

LEMMA PrecedesIs ==
    ASSUME NEW p \in Positions, NEW q \in Positions
    PROVE  Precedes(p, q) <=> Earlier(p, q)
<1>1. Len(p) \in Nat /\ Len(q) \in Nat
  BY PositionFacts
<1>2. IsStrictPrefix(p, q) <=> Len(p) < Len(q) /\ \A m \in 1 .. Len(p) : p[m] = q[m]
  <2>1. Len(p) <= Len(q) => (SubSeq(p, 1, Len(p)) = SubSeq(q, 1, Len(p))
                                <=> \A m \in 1 .. Len(p) : p[m] = q[m])
    BY <1>1, SameBeginning
  <2> QED
    BY <1>1, <2>1, SamePosition DEF IsStrictPrefix, IsPrefix
<1>3. \A k \in 1 .. Len(p) : k <= Len(q) =>
        (SubSeq(p, 1, k - 1) = SubSeq(q, 1, k - 1) <=> \A m \in 1 .. k - 1 : p[m] = q[m])
  <2> SUFFICES ASSUME NEW k \in 1 .. Len(p), k <= Len(q)
               PROVE  SubSeq(p, 1, k - 1) = SubSeq(q, 1, k - 1)
                          <=> \A m \in 1 .. k - 1 : p[m] = q[m]
    OBVIOUS
  <2>1. k - 1 \in Nat /\ k - 1 <= Len(p) /\ k - 1 <= Len(q)
    BY <1>1
  <2> QED
    BY <2>1, SameBeginning
<1>4. ASSUME Precedes(p, q)
      PROVE  Earlier(p, q)
  <2>1. CASE IsStrictPrefix(p, q)
    <3>1. Len(p) + 1 \in 1 .. Len(q) /\ PartAt(p, q, Len(p) + 1)
      BY <1>1, <1>2, <2>1 DEF PartAt
    <3> QED
      BY <3>1 DEF Earlier
  <2>2. CASE ~ IsStrictPrefix(p, q)
    <3>1. PICK k \in 1 .. Len(p) : /\ k <= Len(q) /\ p[k] < q[k]
                                   /\ SubSeq(p, 1, k - 1) = SubSeq(q, 1, k - 1)
      BY <1>4, <2>2 DEF Precedes
    <3>2. k \in 1 .. Len(q) /\ PartAt(p, q, k)
      BY <1>1, <1>3, <3>1 DEF PartAt
    <3> QED
      BY <3>2 DEF Earlier
  <2> QED
    BY <2>1, <2>2
<1>5. ASSUME Earlier(p, q)
      PROVE  Precedes(p, q)
  <2>1. PICK k \in 1 .. Len(q) : PartAt(p, q, k)
    BY <1>5 DEF Earlier
  <2>2. CASE k <= Len(p)
    <3>1. k \in 1 .. Len(p) /\ k <= Len(q) /\ p[k] < q[k]
      BY <1>1, <2>1, <2>2 DEF PartAt
    <3>2. SubSeq(p, 1, k - 1) = SubSeq(q, 1, k - 1)
      BY <1>3, <2>1, <3>1 DEF PartAt
    <3> QED
      BY <3>1, <3>2 DEF Precedes
  <2>3. CASE k > Len(p)
    <3>1. k - 1 = Len(p) /\ Len(p) < Len(q)
      BY <1>1, <2>1, <2>3 DEF PartAt
    <3> QED
      BY <1>2, <2>1, <3>1 DEF PartAt, Precedes
  <2> QED
    BY <1>1, <2>2, <2>3
<1> QED
  BY <1>4, <1>5

LEMMA EarlierIsOrder ==
    /\ \A p \in Positions : ~ Earlier(p, p)
    /\ \A p, q, r \in Positions : Earlier(p, q) /\ Earlier(q, r) => Earlier(p, r)
    /\ \A p, q \in Positions : p = q \/ Earlier(p, q) \/ Earlier(q, p)
<1>1. ASSUME NEW p \in Positions, Earlier(p, p)
      PROVE  FALSE
  <2>1. PICK k \in 1 .. Len(p) : PartAt(p, p, k)
    BY <1>1 DEF Earlier
  <2>2. Len(p) \in Nat /\ p[k] \in Nat
    BY PositionFacts DEF Slot
  <2> QED
    BY <2>1, <2>2 DEF PartAt
<1>2. ASSUME NEW p \in Positions, NEW q \in Positions, NEW r \in Positions,
             Earlier(p, q), Earlier(q, r)
      PROVE  Earlier(p, r)
  <2>1. PICK k \in 1 .. Len(q) : PartAt(p, q, k)
    BY <1>2 DEF Earlier
  <2>2. PICK l \in 1 .. Len(r) : PartAt(q, r, l)
    BY <1>2 DEF Earlier
  <2>3. /\ Len(p) \in Nat /\ Len(q) \in Nat /\ Len(r) \in Nat
        /\ \A m \in 1 .. Len(p) : p[m] \in Nat
        /\ \A m \in 1 .. Len(q) : q[m] \in Nat
        /\ \A m \in 1 .. Len(r) : r[m] \in Nat
    BY PositionFacts DEF Slot
  <2>4. CASE k < l
    <3>1. k \in 1 .. Len(r) /\ k \in 1 .. l - 1
      BY <2>3, <2>4
    <3>2. PartAt(p, r, k)
      BY <2>1, <2>2, <2>3, <3>1 DEF PartAt
    <3> QED
      BY <3>1, <3>2 DEF Earlier
  <2>5. CASE l <= k
    <3>1. l - 1 <= Len(p)
      BY <2>1, <2>3, <2>5 DEF PartAt
    <3>2. \A m \in 1 .. l - 1 : p[m] = r[m]
      <4> SUFFICES ASSUME NEW m \in 1 .. l - 1
                   PROVE  p[m] = r[m]
        OBVIOUS
      <4>1. m \in 1 .. k - 1
        BY <2>5
      <4> QED
        BY <2>1, <2>2, <4>1 DEF PartAt
    <3>3. l <= Len(p) => p[l] < r[l]
      <4> SUFFICES ASSUME l <= Len(p)
                   PROVE  p[l] < r[l]
        OBVIOUS
      <4>1. l \in 1 .. Len(p) /\ l \in 1 .. Len(q) /\ l \in 1 .. Len(r)
        BY <2>3, <2>5
      <4>2. p[l] <= q[l]
        BY <2>1, <2>3, <2>5, <4>1 DEF PartAt
      <4>3. q[l] < r[l]
        BY <2>2, <4>1 DEF PartAt
      <4> QED
        BY <2>3, <4>1, <4>2, <4>3
    <3>4. PartAt(p, r, l)
      BY <3>1, <3>2, <3>3 DEF PartAt
    <3> QED
      BY <3>4 DEF Earlier
  <2> QED
    BY <2>3, <2>4, <2>5
<1>3. ASSUME NEW p \in Positions, NEW q \in Positions, p # q
      PROVE  Earlier(p, q) \/ Earlier(q, p)
  <2>1. /\ Len(p) \in Nat /\ Len(q) \in Nat
        /\ \A m \in 1 .. Len(p) : p[m] \in Nat
        /\ \A m \in 1 .. Len(q) : q[m] \in Nat
    BY PositionFacts DEF Slot
  <2> DEFINE D == {k \in Nat : k # 0 /\ (k \in 1 .. Len(p) /\ k \in 1 .. Len(q) => p[k] # q[k])}
  <2>2. D \in SUBSET Nat /\ D # {}
    <3>1. Len(p) + 1 \in D
      BY <2>1
    <3> QED
      BY <3>1
  <2> HIDE DEF D
  <2>3. PICK k \in D : \A m \in D : k <= m
    BY <2>2, LeastNumber
  <2> USE DEF D
  <2>4. k \in Nat /\ k >= 1
    BY <2>3
  <2>5. \A m \in 1 .. k - 1 : m \in 1 .. Len(p) /\ m \in 1 .. Len(q) /\ p[m] = q[m]
    <3> SUFFICES ASSUME NEW m \in 1 .. k - 1
                 PROVE  m \in 1 .. Len(p) /\ m \in 1 .. Len(q) /\ p[m] = q[m]
      OBVIOUS
    <3>1. m \notin D
      <4>1. m \in Int /\ m < k
        BY <2>4
      <4> HIDE DEF D
      <4> QED
        BY <2>3, <2>4, <4>1
    <3> QED
      BY <2>4, <3>1
  <2>6. k - 1 <= Len(p) /\ k - 1 <= Len(q)
    <3>1. CASE k = 1
      BY <2>1, <3>1
    <3>2. CASE k # 1
      BY <2>1, <2>4, <2>5, <3>2
    <3> QED
      BY <3>1, <3>2
  <2>7. CASE k > Len(p) /\ k > Len(q)
    <3>1. Len(p) = Len(q)
      BY <2>1, <2>4, <2>6, <2>7
    <3>2. \A m \in 1 .. Len(p) : p[m] = q[m]
      BY <2>1, <2>4, <2>5, <2>6, <2>7
    <3> QED
      BY <1>3, <3>1, <3>2, SamePosition
  <2>8. CASE k <= Len(q) /\ (k <= Len(p) => p[k] < q[k])
    <3>1. k \in 1 .. Len(q) /\ PartAt(p, q, k)
      BY <2>1, <2>4, <2>5, <2>6, <2>8 DEF PartAt
    <3> QED
      BY <3>1 DEF Earlier
  <2>9. CASE k <= Len(p) /\ (k <= Len(q) => q[k] < p[k])
    <3>1. k \in 1 .. Len(p) /\ PartAt(q, p, k)
      BY <2>1, <2>4, <2>5, <2>6, <2>9 DEF PartAt
    <3> QED
      BY <3>1 DEF Earlier
  <2>10. k <= Len(p) /\ k <= Len(q) => p[k] # q[k] /\ p[k] \in Nat /\ q[k] \in Nat
    BY <2>1, <2>3, <2>4
  <2> HIDE DEF D
  <2> QED
    BY <2>1, <2>4, <2>7, <2>8, <2>9, <2>10
<1> QED
  BY <1>1, <1>2, <1>3

\* p is below h, by way of a slot before k.
BelowBefore(p, h, k) == Leads(h, p) /\ Len(h) < Len(p) /\ p[Len(h) + 1] < k

LEMMA LeadsFacts ==
    ASSUME NEW p \in Positions, NEW h \in Positions, NEW k \in Slot
    PROVE  /\ Leads(p, p)
           /\ Leads(h, p) /\ Len(p) <= Len(h) => p = h
           /\ Leads(Append(h, k), p) <=> Leads(h, p) /\ Len(h) < Len(p) /\ p[Len(h) + 1] = k
           /\ Leads(p, Append(h, k)) <=> Leads(p, h) \/ p = Append(h, k)
<1> DEFINE a == Append(h, k)
<1>1. /\ Len(p) \in Nat /\ Len(h) \in Nat /\ a \in Positions /\ Len(a) = Len(h) + 1
      /\ \A m \in 1 .. Len(h) : a[m] = h[m]
      /\ a[Len(h) + 1] = k
  BY PositionFacts, AppendFacts
<1> HIDE DEF a
<1>2. Leads(h, p) /\ Len(p) <= Len(h) => p = h
  <2> SUFFICES ASSUME Leads(h, p), Len(p) <= Len(h)
               PROVE  p = h
    OBVIOUS
  <2>1. Len(h) = Len(p) /\ \A m \in 1 .. Len(h) : h[m] = p[m]
    BY <1>1 DEF Leads
  <2> QED
    BY <2>1, SamePosition
<1>3. Leads(a, p) <=> Leads(h, p) /\ Len(h) < Len(p) /\ p[Len(h) + 1] = k
  <2>1. ASSUME Leads(a, p)
        PROVE  Leads(h, p) /\ Len(h) < Len(p) /\ p[Len(h) + 1] = k
    BY <1>1, <2>1 DEF Leads
  <2>2. ASSUME Leads(h, p), Len(h) < Len(p), p[Len(h) + 1] = k
        PROVE  Leads(a, p)
    <3>1. \A m \in 1 .. Len(a) : a[m] = p[m]
      BY <1>1, <2>2 DEF Leads
    <3> QED
      BY <1>1, <2>2, <3>1 DEF Leads
  <2> QED
    BY <2>1, <2>2
<1>4. ASSUME Leads(p, a)
      PROVE  Leads(p, h) \/ p = a
  <2>1. CASE Len(p) <= Len(h)
    BY <1>1, <1>4, <2>1 DEF Leads
  <2>2. CASE Len(p) > Len(h)
    <3>1. Len(p) = Len(a) /\ \A m \in 1 .. Len(p) : p[m] = a[m]
      BY <1>1, <1>4, <2>2 DEF Leads
    <3> QED
      BY <1>1, <3>1, SamePosition
  <2> QED
    BY <1>1, <2>1, <2>2
<1>5. Leads(p, p) /\ Leads(a, a)
  BY <1>1 DEF Leads
<1>6. Leads(p, h) => Leads(p, a)
  BY <1>1 DEF Leads
<1> QED
  BY <1>2, <1>3, <1>4, <1>5, <1>6 DEF a

LEMMA EarlierSlot ==
    ASSUME NEW p \in Positions, NEW h \in Positions, NEW k \in Slot
    PROVE  Earlier(p, Append(h, k)) <=> Earlier(p, h) \/ p = h \/ BelowBefore(p, h, k)
<1> DEFINE a == Append(h, k)
<1>1. /\ Len(p) \in Nat /\ Len(h) \in Nat /\ a \in Positions /\ Len(a) = Len(h) + 1
      /\ \A m \in 1 .. Len(h) : a[m] = h[m]
      /\ a[Len(h) + 1] = k
  BY PositionFacts, AppendFacts
<1> HIDE DEF a
<1>2. \A m \in 1 .. Len(h) : PartAt(p, a, m) <=> PartAt(p, h, m)
  <2> SUFFICES ASSUME NEW m \in 1 .. Len(h)
               PROVE  PartAt(p, a, m) <=> PartAt(p, h, m)
    OBVIOUS
  <2>1. \A l \in 1 .. m : a[l] = h[l]
    BY <1>1
  <2>2. m \in 1 .. m /\ \A l \in 1 .. m - 1 : l \in 1 .. m
    BY <1>1
  <2> QED
    BY <2>1, <2>2 DEF PartAt
<1>3. PartAt(p, a, Len(h) + 1) <=> p = h \/ BelowBefore(p, h, k)
  <2>1. ASSUME PartAt(p, a, Len(h) + 1)
        PROVE  p = h \/ BelowBefore(p, h, k)
    <3>1. Leads(h, p)
      BY <1>1, <2>1 DEF PartAt, Leads
    <3> QED
      BY <1>1, <2>1, <3>1, LeadsFacts DEF PartAt, BelowBefore
  <2>2. ASSUME p = h \/ BelowBefore(p, h, k)
        PROVE  PartAt(p, a, Len(h) + 1)
    BY <1>1, <2>2 DEF PartAt, BelowBefore, Leads
  <2> QED
    BY <2>1, <2>2
<1>4. 1 .. Len(a) = (1 .. Len(h)) \union {Len(h) + 1}
  BY <1>1
<1> QED
  BY <1>2, <1>3, <1>4 DEF Earlier, a

LEMMA EarlierFirst ==
    ASSUME NEW p \in Positions, NEW h \in Positions
    PROVE  Earlier(p, Append(h, 1)) <=> Earlier(p, h) \/ p = h
<1>1. /\ Len(p) \in Nat /\ Len(h) \in Nat /\ 1 \in Slot
      /\ \A m \in 1 .. Len(p) : p[m] \in Nat /\ p[m] >= 1
  BY PositionFacts DEF Slot
<1>2. ~ BelowBefore(p, h, 1)
  BY <1>1 DEF BelowBefore
<1> QED
  BY <1>1, <1>2, EarlierSlot

\* What comes between a slot, what is below it and the next slot.
LEMMA EarlierNext ==
    ASSUME NEW p \in Positions, NEW h \in Positions, NEW k \in Slot
    PROVE  /\ Earlier(p, Append(h, k + 1)) <=> Earlier(p, Append(h, k)) \/ Leads(Append(h, k), p)
           /\ Earlier(p, Append(Append(h, k), 1))
                <=> Earlier(p, Append(h, k)) \/ p = Append(h, k)
<1>1. /\ Len(p) \in Nat /\ Len(h) \in Nat /\ k + 1 \in Slot /\ 1 \in Slot /\ k \in Nat
      /\ \A m \in 1 .. Len(p) : p[m] \in Nat /\ p[m] >= 1
  BY PositionFacts DEF Slot
<1>7. Append(h, k) \in Positions /\ Len(Append(h, k)) \in Nat
  BY <1>1, AppendFacts
<1>2. Earlier(p, Append(h, k + 1)) <=> Earlier(p, h) \/ p = h \/ BelowBefore(p, h, k + 1)
  BY <1>1, EarlierSlot
<1>3. Earlier(p, Append(h, k)) <=> Earlier(p, h) \/ p = h \/ BelowBefore(p, h, k)
  BY EarlierSlot
<1>4. BelowBefore(p, h, k + 1) <=> BelowBefore(p, h, k) \/ Leads(Append(h, k), p)
  <2>1. Len(h) < Len(p) => p[Len(h) + 1] \in Nat
    BY <1>1
  <2>2. Leads(Append(h, k), p) <=> Leads(h, p) /\ Len(h) < Len(p) /\ p[Len(h) + 1] = k
    BY LeadsFacts
  <2> QED
    BY <1>1, <2>1, <2>2 DEF BelowBefore
<1>5. Earlier(p, Append(Append(h, k), 1)) <=> Earlier(p, Append(h, k)) \/ p = Append(h, k)
  BY <1>7, EarlierFirst
<1> QED
  BY <1>2, <1>3, <1>4, <1>5

-----------------------------------------------------------------------------
(***************************************************************************)
(* Trees.                                                                  *)
(***************************************************************************)
LEMMA TreeFacts ==
    ASSUME NEW t, IsTree(t)
    PROVE  /\ IsFiniteSet(DOMAIN t) /\ DOMAIN t \subseteq Positions
           /\ <<>> \in DOMAIN t
           /\ \A p \in DOMAIN t : t[p] \in Entry /\ t[p].slots \in Nat
           /\ \A p \in DOMAIN t \ {<<>>} :
                 /\ Front(p) \in DOMAIN t
                 /\ Last(p) \in 1 .. t[Front(p)].slots
                 /\ t[Front(p)].kind = "directory"
           /\ \A p \in DOMAIN t : \A k \in 1 .. t[p].slots :
                 t[p].kind = "directory" /\ k \in Slot /\ Append(p, k) \in DOMAIN t
BY DEF IsTree, Entry, Positions, Slot

\* Above every position is the tree.
LEMMA TreeAbove ==
    ASSUME NEW t, IsTree(t), NEW p \in DOMAIN t, NEW h \in Positions, NEW k \in Slot,
           Leads(Append(h, k), p)
    PROVE  h \in DOMAIN t /\ k \in 1 .. t[h].slots /\ t[h].kind = "directory"
           /\ Append(h, k) \in DOMAIN t
<1>1. p \in Positions /\ Len(p) \in Nat /\ Len(h) \in Nat
  BY TreeFacts, PositionFacts
<1> DEFINE Above(q, n) == q \in DOMAIN t /\ Leads(q, p) /\ Len(q) = Len(p) - n
           S == {n \in Nat : \E q \in Positions : Above(q, n)}
<1>2. 0 \in S
  <2>1. Above(p, 0)
    BY <1>1, LeadsFacts DEF Slot
  <2> HIDE DEF Above
  <2> QED
    BY <1>1, <2>1
<1>3. ASSUME NEW n \in 0 .. (Len(p) - 1), n \in S
      PROVE  n + 1 \in S
  <2>1. PICK q \in Positions : Above(q, n)
    BY <1>3
  <2>2. q # <<>> /\ Len(q) \in Nat
    BY <1>1, <2>1, PositionFacts
  <2>3. Front(q) \in DOMAIN t
    BY <2>1, <2>2, TreeFacts
  <2>4. Front(q) \in Positions /\ Len(Front(q)) = Len(q) - 1
        /\ \A m \in 1 .. Len(q) - 1 : Front(q)[m] = q[m]
    BY <2>2, FrontFacts
  <2>5. Leads(Front(q), p) /\ Len(Front(q)) = Len(p) - (n + 1)
    BY <1>1, <2>1, <2>2, <2>4 DEF Leads
  <2> QED
    BY <2>3, <2>4, <2>5
<1>4. \A n \in 0 .. Len(p) : n \in S
  <2> HIDE DEF S
  <2> QED
    BY <1>1, <1>2, <1>3, UpToNumber
<1> DEFINE a == Append(h, k)
<1>5. a \in Positions /\ Len(a) = Len(h) + 1 /\ Len(a) <= Len(p) /\ a # <<>>
      /\ Front(a) = h /\ Last(a) = k
  BY AppendFacts DEF Leads
<1>6. Leads(a, p)
  OBVIOUS
<1> HIDE DEF a
<1>7. PICK q \in Positions : Above(q, Len(p) - Len(a))
  <2>1. Len(p) - Len(a) \in 0 .. Len(p)
    BY <1>1, <1>5
  <2> HIDE DEF Above
  <2>2. Len(p) - Len(a) \in S
    BY <1>4, <2>1
  <2> QED
    BY <2>2
<1>8. q = a
  <2>1. Len(q) = Len(a)
    BY <1>1, <1>5, <1>7
  <2>2. \A m \in 1 .. Len(a) : q[m] = a[m]
    BY <1>6, <1>7, <2>1 DEF Leads
  <2> QED
    BY <1>5, <2>1, <2>2, SamePosition
<1>9. a \in DOMAIN t
  BY <1>7, <1>8
<1> QED
  BY <1>5, <1>9, TreeFacts DEF a

\* Below an entry without slots is nothing.
LEMMA LeafIsAlone ==
    ASSUME NEW t, IsTree(t), NEW p \in DOMAIN t, NEW h \in Positions,
           Leads(h, p), h \in DOMAIN t => t[h].slots = 0
    PROVE  p = h
<1>1. p \in Positions /\ Len(p) \in Nat /\ Len(h) \in Nat
  BY TreeFacts, PositionFacts
<1>2. ASSUME Len(h) < Len(p)
      PROVE  FALSE
  <2> DEFINE k == p[Len(h) + 1]
  <2>1. k \in Slot
    BY <1>1, <1>2, PositionFacts
  <2>2. Leads(Append(h, k), p)
    BY <1>1, <1>2, <2>1, LeadsFacts
  <2>3. h \in DOMAIN t /\ k \in 1 .. t[h].slots
    BY <2>1, <2>2, TreeAbove
  <2> QED
    BY <2>3
<1> QED
  BY <1>1, <1>2, LeadsFacts DEF Slot

\* Before the slot behind a table is all that is below its directory.
LEMMA EndOfTable ==
    ASSUME NEW t, IsTree(t), NEW h \in DOMAIN t, NEW p \in DOMAIN t
    PROVE  /\ Earlier(p, Append(h, t[h].slots + 1)) <=> Earlier(p, h) \/ Leads(h, p)
           /\ h # <<>> => (Earlier(p, Append(h, t[h].slots + 1))
                              <=> Earlier(p, Append(Front(h), Last(h) + 1)))
           /\ h = <<>> => Earlier(p, Append(h, t[h].slots + 1))
<1> DEFINE n == t[h].slots
<1>1. /\ p \in Positions /\ h \in Positions /\ n \in Nat /\ n + 1 \in Slot
      /\ Len(p) \in Nat /\ Len(h) \in Nat
  <2>1. /\ p \in Positions /\ h \in Positions /\ n \in Nat
    BY TreeFacts
  <2> QED
    BY <2>1, PositionFacts DEF Slot
<1>2. Leads(h, p) /\ Len(h) < Len(p) => p[Len(h) + 1] < n + 1
  <2> SUFFICES ASSUME Leads(h, p), Len(h) < Len(p)
               PROVE  p[Len(h) + 1] < n + 1
    OBVIOUS
  <2> DEFINE k == p[Len(h) + 1]
  <2>1. k \in Slot
    BY <1>1, PositionFacts
  <2>2. Leads(Append(h, k), p)
    BY <1>1, <2>1, LeadsFacts
  <2>3. k \in 1 .. t[h].slots
    BY <1>1, <2>1, <2>2, TreeAbove
  <2> HIDE DEF k
  <2>4. k < n + 1
    BY <1>1, <2>3
  <2> QED
    BY <2>4 DEF k
<1> HIDE DEF n
<1>3. Leads(h, p) <=> p = h \/ BelowBefore(p, h, n + 1)
  <2>1. Leads(h, p) /\ Len(p) <= Len(h) => p = h
    BY <1>1, LeadsFacts DEF Slot
  <2>2. p = h => Leads(h, p)
    BY <1>1 DEF Leads
  <2> QED
    BY <1>1, <1>2, <2>1, <2>2 DEF BelowBefore
<1>4. Earlier(p, Append(h, n + 1)) <=> Earlier(p, h) \/ Leads(h, p)
  BY <1>1, <1>3, EarlierSlot
<1>5. ASSUME h # <<>>
      PROVE  Earlier(p, Append(h, n + 1)) <=> Earlier(p, Append(Front(h), Last(h) + 1))
  <2>1. Front(h) \in Positions /\ Last(h) \in Slot /\ h = Append(Front(h), Last(h))
    BY <1>1, <1>5, FrontFacts
  <2>2. Earlier(p, Append(Front(h), Last(h) + 1)) <=> Earlier(p, h) \/ Leads(h, p)
    BY <1>1, <2>1, EarlierNext
  <2> QED
    BY <1>4, <2>2
<1>6. h = <<>> => Leads(h, p)
  BY <1>1, EmptyPosition DEF Leads
<1> QED
  BY <1>4, <1>5, <1>6 DEF n

-----------------------------------------------------------------------------
(***************************************************************************)
(* Lists in the order of a walk.                                           *)
(***************************************************************************)
\* The part of S before a place.
Preceding(S, c) == {p \in S : Earlier(p, c)}

\* s lists S in order, up to some place.
Listing(s, S) ==
    /\ s \in Seq(S)
    /\ \A k \in 1 .. Len(s) - 1 : Earlier(s[k], s[k + 1])
    /\ s # <<>> => \A p \in S : Earlier(p, s[Len(s)]) => p \in Range(s)

LEMMA RangeIs ==
    ASSUME NEW S, NEW s \in Seq(S), NEW x
    PROVE  /\ Range(s) \subseteq S
           /\ \A k \in 1 .. Len(s) : s[k] \in Range(s)
           /\ Range(<<>>) = {}
           /\ Range(Append(s, x)) = Range(s) \union {x}
<1>1. /\ DOMAIN s = 1 .. Len(s) /\ Len(s) \in Nat /\ \A k \in 1 .. Len(s) : s[k] \in S
      /\ DOMAIN Append(s, x) = 1 .. Len(s) + 1
      /\ \A k \in 1 .. Len(s) : Append(s, x)[k] = s[k]
      /\ Append(s, x)[Len(s) + 1] = x
  <2>1. s \in Seq(S \union {x}) /\ Len(s) \in Nat
    OBVIOUS
  <2> QED
    BY <2>1
<1>2. 1 .. Len(s) + 1 = (1 .. Len(s)) \union {Len(s) + 1}
  BY <1>1
<1>3. Range(Append(s, x)) = Range(s) \union {x}
  <2>1. ASSUME NEW y \in Range(Append(s, x))
        PROVE  y \in Range(s) \union {x}
    BY <1>1, <1>2, <2>1 DEF Range
  <2>2. ASSUME NEW y \in Range(s)
        PROVE  y \in Range(Append(s, x))
    BY <1>1, <1>2, <2>2 DEF Range
  <2>3. x \in Range(Append(s, x))
    BY <1>1, <1>2 DEF Range
  <2> QED
    BY <2>1, <2>2, <2>3
<1> QED
  BY <1>1, <1>3 DEF Range

LEMMA NothingListed ==
    ASSUME NEW S
    PROVE  Listing(<<>>, S) /\ Range(<<>>) = {}
BY DEF Listing, Range

LEMMA AppendListed ==
    ASSUME NEW S \in SUBSET Positions, NEW s, Listing(s, S), NEW a \in S,
           Range(s) = Preceding(S, a)
    PROVE  Listing(Append(s, a), S) /\ Range(Append(s, a)) = Range(s) \union {a}
<1> DEFINE z == Append(s, a)
<1>1. s \in Seq(S) /\ Len(s) \in Nat
  BY DEF Listing
<1>2. /\ z \in Seq(S) /\ Len(z) = Len(s) + 1 /\ z[Len(z)] = a
      /\ \A k \in 1 .. Len(s) : z[k] = s[k]
  BY <1>1
<1>3. Range(z) = Range(s) \union {a} /\ \A k \in 1 .. Len(s) : s[k] \in Range(s)
  BY <1>1, RangeIs
<1> HIDE DEF z
<1>4. ASSUME NEW k \in 1 .. Len(z) - 1
      PROVE  Earlier(z[k], z[k + 1])
  <2>1. k \in 1 .. Len(s) /\ z[k] = s[k]
    BY <1>1, <1>2
  <2>2. CASE k = Len(s)
    <3>1. s[k] \in Preceding(S, a)
      BY <1>3, <2>1
    <3> QED
      BY <1>2, <2>1, <2>2, <3>1 DEF Preceding
  <2>3. CASE k # Len(s)
    <3>1. k \in 1 .. Len(s) - 1 /\ k + 1 \in 1 .. Len(s)
      BY <1>1, <2>1, <2>3
    <3> QED
      BY <1>2, <2>1, <3>1 DEF Listing
  <2> QED
    BY <2>2, <2>3
<1>5. ASSUME NEW p \in S, Earlier(p, z[Len(z)])
      PROVE  p \in Range(z)
  BY <1>2, <1>3, <1>5 DEF Preceding
<1> QED
  BY <1>2, <1>3, <1>4, <1>5 DEF z, Listing

LEMMA ListingBegins ==
    ASSUME NEW S \in SUBSET Positions, NEW s, Listing(s, S)
    PROVE  Begins(s, S)
<1>1. s \in Seq(S) /\ Len(s) \in Nat /\ (s # <<>> => Len(s) \in 1 .. Len(s))
      /\ \A k \in 1 .. Len(s) : s[k] \in S /\ s[k] \in Positions
  BY DEF Listing
<1>2. \A k \in 1 .. Len(s) - 1 : Precedes(s[k], s[k + 1])
  <2> SUFFICES ASSUME NEW k \in 1 .. Len(s) - 1
               PROVE  Precedes(s[k], s[k + 1])
    OBVIOUS
  <2>1. k \in 1 .. Len(s) /\ k + 1 \in 1 .. Len(s)
    BY <1>1
  <2>2. Earlier(s[k], s[k + 1])
    BY DEF Listing
  <2> QED
    BY <1>1, <2>1, <2>2, PrecedesIs
<1>3. ASSUME s # <<>>, NEW p \in S, Precedes(p, Last(s))
      PROVE  p \in Range(s)
  <2>1. Last(s) = s[Len(s)] /\ s[Len(s)] \in Positions
    BY <1>1, <1>3 DEF Last
  <2>2. Earlier(p, s[Len(s)])
    BY <1>3, <2>1, PrecedesIs
  <2> QED
    BY <1>3, <2>2 DEF Listing
<1> QED
  BY <1>1, <1>2, <1>3 DEF Begins

\* The list s, and a if it is to be listed.
Grown(s, a, S) == IF a \in S THEN Append(s, a) ELSE s

\* A walk comes to a place.
LEMMA Enter ==
    ASSUME NEW S, S \subseteq Positions, NEW s, Listing(s, S),
           NEW a \in Positions, Range(s) = Preceding(S, a)
    PROVE  /\ Listing(Grown(s, a, S), S)
           /\ Range(Grown(s, a, S)) = Preceding(S, a) \union (S \intersect {a})
           /\ Range(Grown(s, a, S)) = Preceding(S, Append(a, 1))
<1>1. /\ Listing(Grown(s, a, S), S)
      /\ Range(Grown(s, a, S)) = Preceding(S, a) \union (S \intersect {a})
  <2>1. CASE a \in S
    <3>1. Listing(Append(s, a), S) /\ Range(Append(s, a)) = Range(s) \union {a}
      BY <2>1, AppendListed
    <3> QED
      BY <2>1, <3>1 DEF Grown
  <2>2. CASE a \notin S
    BY <2>2 DEF Grown
  <2> QED
    BY <2>1, <2>2
<1>2. \A p \in S : Earlier(p, Append(a, 1)) <=> Earlier(p, a) \/ p = a
  BY EarlierFirst
<1>3. Preceding(S, Append(a, 1)) = Preceding(S, a) \union (S \intersect {a})
  BY <1>2 DEF Preceding
<1> QED
  BY <1>1, <1>3

\* A walk comes to slot k of h, and nothing is to be listed below that.
LEMMA Visit ==
    ASSUME NEW S, S \subseteq Positions, NEW s, Listing(s, S),
           NEW h \in Positions, NEW k \in Slot, Range(s) = Preceding(S, Append(h, k)),
           \A p \in S : Leads(Append(h, k), p) => p = Append(h, k)
    PROVE  /\ Listing(Grown(s, Append(h, k), S), S)
           /\ Range(Grown(s, Append(h, k), S)) = Preceding(S, Append(h, k + 1))
<1> DEFINE a == Append(h, k)
<1>1. a \in Positions
  BY AppendFacts
<1>2. Leads(a, a) /\ \A p \in S : Earlier(p, Append(h, k + 1)) <=> Earlier(p, a) \/ Leads(a, p)
  <2>1. Leads(a, a)
    BY <1>1, LeadsFacts DEF Slot
  <2> QED
    BY <2>1, EarlierNext
<1> HIDE DEF a
<1>3. Range(s) = Preceding(S, a) /\ \A p \in S : Leads(a, p) => p = a
  BY DEF a
<1>4. /\ Listing(Grown(s, a, S), S)
      /\ Range(Grown(s, a, S)) = Preceding(S, a) \union (S \intersect {a})
  BY <1>1, <1>3, Enter
<1>5. Preceding(S, Append(h, k + 1)) = Preceding(S, a) \union (S \intersect {a})
  BY <1>2, <1>3 DEF Preceding
<1> QED
  BY <1>4, <1>5 DEF a

-----------------------------------------------------------------------------
(***************************************************************************)
(* The walks.                                                              *)
(***************************************************************************)
\* What f12 list shows.
Lines ==
    IF IsDirectory(entry[<<>>])
    THEN {p \in DOMAIN entry \ {<<>>} :
            ~ListSkips(entry[p]) /\ (cmd.recursive \/ Len(p) = 1)}
    ELSE {p \in {<<>>} : ~ListSkips(entry[p])}

\* What a walk is to list.
Wanted ==
    CASE cmd.op = "get" -> {<<>>} \union Below
      [] cmd.op = "move" -> Below
      [] OTHER -> Lines

MovesFile == cmd.op = "move" /\ ~IsDirectory(entry[<<>>])

\* The directories behind which the loop of move looks for a child too many.
LastDirectories ==
    {p \in Below : Last(p) = Slots(Front(p)) /\ IsDirectory(entry[p]) /\ ChildCount(p) > 2}

\* The loop of move is inside all of them that it has come to.
MoveInv ==
    /\ pc = "walk" => \A p \in LastDirectories : Earlier(p, Append(here, i)) => Leads(p, here)
    /\ pc = "walk" /\ here = <<>> => i <= Slots(here)
    /\ here # <<>> => here \in Below /\ IsDirectory(entry[here]) /\ ChildCount(here) > 2
    /\ pc = "done" => LastDirectories = {}
    /\ pc = "undefined" => LastDirectories # {}

\* What has been listed is what is wanted before the slot the loop looks at next.
ListedInv ==
    /\ IF MovesFile THEN pc = "start" \/ (pc = "done" /\ made = << <<>> >>)
                    ELSE Listing(made, Wanted)
    /\ pc = "walk" => Range(made) = Preceding(Wanted, Append(here, i))
    /\ pc = "done" => MovesFile \/ Range(made) = Wanted

PlaceInv ==
    /\ cmd \in Commands /\ entry \in Trees
    /\ pc \in {"start", "walk", "done", "failed", "undefined"}
    /\ here \in DOMAIN entry /\ i \in 1 .. Slots(here) + 1
    /\ pc = "start" => here = <<>> /\ i = 1 /\ made = <<>>
    /\ cmd.op = "list" /\ ~cmd.recursive => here = <<>>

WalkInv ==
    /\ PlaceInv
    /\ ListedInv
    /\ cmd.op = "move" => MoveInv

LEMMA Leaves ==
    ASSUME NEW t, IsTree(t), NEW h \in DOMAIN t, t[h].kind # "directory"
    PROVE  t[h].slots = 0 /\ \A p \in DOMAIN t : Leads(h, p) => p = h
<1>1. t[h].slots = 0
  <2>1. t[h].slots \in Nat /\ ~ 1 \in 1 .. t[h].slots
    BY TreeFacts
  <2> QED
    BY <2>1
<1> QED
  BY <1>1, TreeFacts, LeafIsAlone

\* A child beside the dots is the third.
LEMMA ThirdChild ==
    ASSUME NEW t, IsTree(t), IsImageTree(t), NEW h \in DOMAIN t, h # <<>>,
           NEW k \in 1 .. t[h].slots, t[Append(h, k)].kind \notin {"empty", "dot"}
    PROVE  Cardinality({l \in 1 .. t[h].slots : ~IsEmpty(t[Append(h, l)])}) > 2
<1> DEFINE n == t[h].slots
           dots == {l \in 1 .. n : t[Append(h, l)].kind = "dot"}
           used == {l \in 1 .. n : ~IsEmpty(t[Append(h, l)])}
<1>1. n \in Nat /\ t[h].kind = "directory"
  BY TreeFacts
<1>2. Cardinality(dots) = 2
  BY <1>1 DEF IsImageTree
<1>3. IsFiniteSet(1 .. n)
  BY <1>1, FS_Interval
<1>4. IsFiniteSet(dots) /\ IsFiniteSet(used)
  BY <1>3, FS_Subset
<1>5. dots \union {k} \subseteq used /\ k \notin dots
  BY DEF IsEmpty
<1> HIDE DEF dots, used
<1>6. Cardinality(dots \union {k}) = 3
  <2>1. Cardinality(dots \union {k}) = Cardinality(dots) + 1
    BY <1>4, <1>5, FS_AddElement
  <2> QED
    BY <1>2, <2>1
<1>7. Cardinality(dots \union {k}) <= Cardinality(used) /\ Cardinality(used) \in Nat
  BY <1>4, <1>5, FS_Subset, FS_CardinalityType
<1>8. Cardinality(used) > 2
  BY <1>6, <1>7
<1> QED
  BY <1>8 DEF used

LEMMA WalkFacts ==
    ASSUME PlaceInv
    PROVE  /\ IsTree(entry) /\ IsImageTree(entry)
           /\ here \in Positions /\ Slots(here) \in Nat /\ i \in Slot
           /\ i > Slots(here) <=> i = Slots(here) + 1
           /\ i <= Slots(here) => i \in 1 .. Slots(here)
           /\ Below \subseteq Positions /\ Below \subseteq DOMAIN entry
           /\ Wanted \subseteq Positions /\ Wanted \subseteq DOMAIN entry
           /\ cmd.op \in {"get", "list", "move"} /\ cmd.recursive \in BOOLEAN
<1>1. IsTree(entry) /\ IsImageTree(entry)
  BY TreesAssumption DEF PlaceInv
<1>2. DOMAIN entry \subseteq Positions /\ <<>> \in DOMAIN entry
      /\ \A p \in DOMAIN entry : entry[p].slots \in Nat
  BY <1>1, TreeFacts
<1>3. here \in Positions /\ Slots(here) \in Nat /\ i \in 1 .. Slots(here) + 1
  BY <1>2 DEF PlaceInv, Slots
<1>4. Below \subseteq DOMAIN entry /\ Wanted \subseteq DOMAIN entry
  <2>1. Below \subseteq DOMAIN entry /\ Lines \subseteq DOMAIN entry
    BY <1>2 DEF Below, Lines
  <2> QED
    BY <1>2, <2>1 DEF Wanted
<1>5. cmd.op \in {"get", "list", "move"} /\ cmd.recursive \in BOOLEAN
  <2>1. cmd \in [op : {"get", "list", "move"}, recursive : BOOLEAN]
    BY CommandsAssumption DEF PlaceInv
  <2> QED
    BY <2>1
<1> QED
  BY <1>1, <1>2, <1>3, <1>4, <1>5 DEF Slot

\* The tree and the command stay what they are.
LEMMA SameWanted ==
    ASSUME UNCHANGED <<cmd, entry>>
    PROVE  /\ Wanted' = Wanted /\ Below' = Below /\ LastDirectories' = LastDirectories
           /\ MovesFile' = MovesFile
           /\ \A p : Slots(p)' = Slots(p) /\ ChildCount(p)' = ChildCount(p)
<1>1. \A p : Slots(p)' = Slots(p)
  BY DEF Slots
<1>2. \A p, k : Child(p, k)' = Child(p, k)
  BY DEF Child
<1>3. \A p : ChildCount(p)' = ChildCount(p)
  BY <1>1, <1>2 DEF ChildCount
<1>4. Below' = Below /\ Lines' = Lines
  BY DEF Below, Lines
<1>5. LastDirectories' = LastDirectories
  BY <1>1, <1>3, <1>4 DEF LastDirectories
<1> QED
  BY <1>1, <1>3, <1>4, <1>5 DEF Wanted, MovesFile

\* A step of get or list to another place.
LEMMA WalkGoes ==
    ASSUME WalkInv, UNCHANGED <<cmd, entry>>, cmd.op # "move",
           pc' = "walk", here' \in DOMAIN entry, i' \in 1 .. entry[here'].slots + 1,
           Listing(made', Wanted), Range(made') = Preceding(Wanted, Append(here', i')),
           cmd.op = "list" /\ ~cmd.recursive => here' = <<>>
    PROVE  WalkInv'
<1>1. Wanted' = Wanted /\ ~ MovesFile'
  BY SameWanted DEF MovesFile
<1>2. ListedInv'
  BY <1>1 DEF ListedInv
<1>3. PlaceInv'
  BY DEF WalkInv, PlaceInv, Slots
<1> QED
  BY <1>2, <1>3 DEF WalkInv

\* Its last step.
LEMMA WalkStops ==
    ASSUME WalkInv, UNCHANGED <<cmd, entry, here, i>>, cmd.op # "move",
           pc' \in {"done", "failed", "undefined"}, Listing(made', Wanted),
           pc' = "done" => Range(made') = Wanted
    PROVE  WalkInv'
<1>1. Wanted' = Wanted /\ ~ MovesFile'
  BY SameWanted DEF MovesFile
<1>2. ListedInv'
  BY <1>1 DEF ListedInv
<1>3. PlaceInv'
  BY DEF WalkInv, PlaceInv, Slots
<1> QED
  BY <1>2, <1>3 DEF WalkInv

LEMMA ChildFacts ==
    ASSUME PlaceInv, NEW h \in DOMAIN entry, NEW k \in 1 .. entry[h].slots
    PROVE  /\ Append(h, k) \in DOMAIN entry /\ Append(h, k) \in Positions
           /\ Append(h, k) # <<>> /\ h \in Positions
           /\ entry[Append(h, k)] = Child(h, k)
           /\ entry[Append(h, k)].slots \in Nat /\ entry[h].slots \in Nat
           /\ entry[Append(h, k)].kind \in {"empty", "file", "lfn", "directory", "dot"}
           /\ k \in Slot /\ k + 1 \in 1 .. entry[h].slots + 1
           /\ 1 \in 1 .. entry[Append(h, k)].slots + 1
           /\ Leads(Append(h, k), Append(h, k))
           /\ entry[Append(h, k)].kind # "directory" =>
                \A p \in Wanted : Leads(Append(h, k), p) => p = Append(h, k)
           /\ entry[<<>>].kind = "directory"
<1> DEFINE a == Append(h, k)
<1>1. IsTree(entry) /\ Wanted \subseteq DOMAIN entry
  BY WalkFacts
<1>2. /\ a \in DOMAIN entry /\ a \in Positions /\ h \in Positions
      /\ k \in Slot /\ entry[h].slots \in Nat /\ entry[a].slots \in Nat
      /\ entry[a] \in Entry
  BY <1>1, TreeFacts
<1>3. a # <<>> /\ Leads(a, a)
  BY <1>2, AppendFacts, LeadsFacts
<1> HIDE DEF a
<1>4. entry[<<>>].kind = "directory"
  <2> DEFINE m == a[1]
  <2>1. Len(a) \in Nat /\ Len(a) # 0 /\ m \in Slot
    BY <1>2, <1>3, PositionFacts
  <2>2. /\ <<>> \in Positions /\ Append(<<>>, m) \in Positions
        /\ Len(Append(<<>>, m)) = 1 /\ Append(<<>>, m)[1] = m
    <3> HIDE DEF m
    <3>1. /\ <<>> \in Positions /\ Len(<<>>) = 0 /\ Append(<<>>, m) \in Positions
          /\ Len(Append(<<>>, m)) = Len(<<>>) + 1 /\ Append(<<>>, m)[Len(<<>>) + 1] = m
      BY <2>1, EmptyPosition, AppendFacts
    <3> QED
      BY <3>1
  <2>3. Leads(Append(<<>>, m), a)
    BY <2>1, <2>2 DEF Leads
  <2> HIDE DEF m
  <2> QED
    BY <1>1, <1>2, <2>1, <2>2, <2>3, TreeAbove
<1>5. entry[a].kind # "directory" => \A p \in Wanted : Leads(a, p) => p = a
  BY <1>1, <1>2, Leaves
<1> QED
  BY <1>2, <1>3, <1>4, <1>5 DEF a, Child, Entry

\* Before the entry the walk was given comes nothing.
LEMMA AtFirst ==
    ASSUME WalkInv, pc = "start", ~ MovesFile
    PROVE  /\ here = <<>> /\ i = 1 /\ made = <<>> /\ <<>> \in DOMAIN entry
           /\ Listing(made, Wanted) /\ Range(made) = Preceding(Wanted, <<>>)
           /\ Preceding(Wanted, <<>>) = {}
<1>1. here = <<>> /\ i = 1 /\ made = <<>> /\ Listing(made, Wanted)
  BY DEF WalkInv, PlaceInv, ListedInv
<1>2. Range(made) = {}
  BY <1>1, NothingListed
<1>3. Preceding(Wanted, <<>>) = {}
  BY EmptyPosition DEF Preceding, Earlier
<1> QED
  BY <1>1, <1>2, <1>3 DEF WalkInv, PlaceInv

LEMMA ReturnInv ==
    ASSUME WalkInv, Return
    PROVE  WalkInv'
<1>1. /\ UNCHANGED <<cmd, entry, made>> /\ pc = "walk" /\ cmd.op # "move"
      /\ i > Slots(here) /\ PlaceInv /\ ~ MovesFile
  BY DEF Return, WalkInv, MovesFile
<1>2. /\ IsTree(entry) /\ i = entry[here].slots + 1 /\ here \in DOMAIN entry
      /\ Wanted \subseteq DOMAIN entry
  <2>1. i > Slots(here) <=> i = Slots(here) + 1
    BY <1>1, WalkFacts
  <2> QED
    BY <1>1, <2>1, WalkFacts DEF PlaceInv, Slots
<1>3. Listing(made, Wanted) /\ Range(made) = Preceding(Wanted, Append(here, i))
  BY <1>1 DEF WalkInv, ListedInv
<1>4. CASE here = <<>>
  <2>1. pc' = "done" /\ UNCHANGED <<here, i>>
    BY <1>1, <1>4 DEF Return
  <2>2. \A p \in Wanted : Earlier(p, Append(here, i))
    BY <1>2, <1>4, EndOfTable
  <2>3. Range(made) = Wanted
    BY <1>3, <2>2 DEF Preceding
  <2> QED
    BY <1>1, <1>3, <2>1, <2>3, WalkStops
<1>5. CASE here # <<>>
  <2>1. here' = Front(here) /\ i' = Last(here) + 1 /\ pc' = "walk"
    BY <1>1, <1>5 DEF Return
  <2>2. here' \in DOMAIN entry /\ i' \in 1 .. entry[here'].slots + 1
    <3>1. /\ Front(here) \in DOMAIN entry /\ Last(here) \in 1 .. entry[Front(here)].slots
          /\ entry[Front(here)].slots \in Nat
      BY <1>2, <1>5, TreeFacts
    <3> QED
      BY <2>1, <3>1
  <2>3. \A p \in Wanted : Earlier(p, Append(here, i)) <=> Earlier(p, Append(here', i'))
    BY <1>2, <1>5, <2>1, EndOfTable
  <2>4. Range(made) = Preceding(Wanted, Append(here', i'))
    BY <1>3, <2>3 DEF Preceding
  <2>5. ~ (cmd.op = "list" /\ ~cmd.recursive)
    BY <1>1, <1>5 DEF PlaceInv
  <2> QED
    BY <1>1, <1>3, <2>1, <2>2, <2>4, <2>5, WalkGoes
<1> QED
  BY <1>4, <1>5

LEMMA GetEntryInv ==
    ASSUME WalkInv, GetEntry
    PROVE  WalkInv'
<1>1. /\ UNCHANGED <<cmd, entry>> /\ cmd.op = "get" /\ pc = "start"
      /\ PlaceInv /\ ~ MovesFile
  BY DEF GetEntry, WalkInv, MovesFile
<1>2. /\ here = <<>> /\ i = 1 /\ made = <<>> /\ <<>> \in DOMAIN entry
      /\ Listing(made, Wanted) /\ Range(made) = Preceding(Wanted, <<>>)
      /\ Preceding(Wanted, <<>>) = {}
  BY <1>1, AtFirst
<1>3. Wanted = {<<>>} \union Below /\ Wanted \subseteq Positions
  BY <1>1, WalkFacts DEF Wanted
<1>4. /\ Listing(Append(made, <<>>), Wanted)
      /\ Range(Append(made, <<>>)) = {<<>>}
      /\ Range(Append(made, <<>>)) = Preceding(Wanted, Append(<<>>, 1))
  <2>1. <<>> \in Wanted /\ <<>> \in Positions
    BY <1>3, EmptyPosition
  <2>2. /\ Listing(Append(made, <<>>), Wanted)
        /\ Range(Append(made, <<>>))
              = Preceding(Wanted, <<>>) \union (Wanted \intersect {<<>>})
        /\ Range(Append(made, <<>>)) = Preceding(Wanted, Append(<<>>, 1))
    BY <1>2, <1>3, <2>1, Enter DEF Grown
  <2> QED
    BY <1>2, <2>1, <2>2
<1>5. CASE pc' \in {"failed", "undefined"}
  <2>1. UNCHANGED <<here, i>> /\ (made' = made \/ made' = Append(made, <<>>))
    BY <1>5 DEF GetEntry, DumpFile, DumpDirectory
  <2> QED
    BY <1>1, <1>2, <1>4, <1>5, <2>1, WalkStops
<1>6. CASE pc' = "done"
  <2>1. UNCHANGED <<here, i>> /\ made' = Append(made, <<>>) /\ ~IsDirectory(entry[<<>>])
    BY <1>1, <1>6 DEF GetEntry, DumpFile, DumpDirectory
  <2>2. Wanted = {<<>>}
    <3>1. entry[<<>>].kind # "directory" /\ Below \subseteq DOMAIN entry /\ IsTree(entry)
      BY <1>1, <2>1, WalkFacts DEF IsDirectory
    <3>2. \A p \in Below : Leads(<<>>, p)
      BY EmptyPosition, PositionFacts, WalkFacts, <1>1 DEF Leads
    <3>3. \A p \in Below : p = <<>>
      BY <1>2, <3>1, <3>2, Leaves
    <3> QED
      BY <1>3, <3>3
  <2> QED
    BY <1>1, <1>4, <1>6, <2>1, <2>2, WalkStops
<1>7. CASE pc' = "walk"
  <2>1. here' = <<>> /\ i' = 1 /\ made' = Append(made, <<>>)
    BY <1>1, <1>7 DEF GetEntry, DumpFile, DumpDirectory
  <2>2. i' \in 1 .. entry[here'].slots + 1
    <3>1. entry[<<>>].slots \in Nat
      BY <1>1, WalkFacts, TreeFacts
    <3> QED
      BY <2>1, <3>1
  <2> QED
    BY <1>1, <1>2, <1>4, <1>7, <2>1, <2>2, WalkGoes
<1>8. pc' \in {"failed", "undefined", "done", "walk"}
  BY DEF GetEntry, DumpFile, DumpDirectory
<1> QED
  BY <1>5, <1>6, <1>7, <1>8

LEMMA GetChildInv ==
    ASSUME WalkInv, GetChild
    PROVE  WalkInv'
<1>1. /\ UNCHANGED <<cmd, entry>> /\ cmd.op = "get" /\ pc = "walk"
      /\ PlaceInv /\ ~ MovesFile /\ i <= Slots(here)
  BY DEF GetChild, WalkInv, MovesFile
<1>2. /\ here \in DOMAIN entry /\ i \in 1 .. entry[here].slots
      /\ Wanted = {<<>>} \union Below /\ Wanted \subseteq Positions
  BY <1>1, WalkFacts DEF PlaceInv, Slots, Wanted
<1> DEFINE a == Append(here, i)
<1>3. /\ a \in DOMAIN entry /\ a \in Positions /\ a # <<>> /\ here \in Positions
      /\ entry[a] = Child(here, i) /\ i \in Slot /\ i + 1 \in 1 .. entry[here].slots + 1
      /\ 1 \in 1 .. entry[a].slots + 1
      /\ entry[a].kind \in {"empty", "file", "lfn", "directory", "dot"}
      /\ entry[a].kind # "directory" => \A p \in Wanted : Leads(a, p) => p = a
  BY <1>1, <1>2, ChildFacts
<1>4. Listing(made, Wanted) /\ Range(made) = Preceding(Wanted, a)
  BY <1>1 DEF WalkInv, ListedInv
<1>5. a \in Wanted <=> ~GetSkips(entry[a])
  BY <1>2, <1>3 DEF Below, GetSkips
<1>6. \/ GetSkips(entry[a]) /\ pc' = "walk" /\ here' = here /\ i' = i + 1 /\ made' = made
      \/ UNCHANGED <<here, i, made>> /\ pc' \in {"failed", "undefined"}
      \/ /\ UNCHANGED <<here, i>> /\ pc' = "failed" /\ made' = Append(made, a)
         /\ ~GetSkips(entry[a])
      \/ /\ IsDirectory(entry[a]) /\ ~GetSkips(entry[a])
         /\ pc' = "walk" /\ here' = a /\ i' = 1 /\ made' = Append(made, a)
      \/ /\ ~IsDirectory(entry[a]) /\ ~GetSkips(entry[a])
         /\ pc' = "walk" /\ here' = here /\ i' = i + 1 /\ made' = Append(made, a)
  <2> HIDE DEF a
  <2>1. \/ GetSkips(Child(here, i)) /\ i' = i + 1 /\ UNCHANGED <<pc, here, made>>
        \/ /\ ~GetSkips(Child(here, i))
           /\ \/ pc' = "undefined" /\ UNCHANGED <<here, i, made>>
              \/ IsDirectory(Child(here, i)) /\ DumpDirectory(a)
              \/ /\ ~IsDirectory(Child(here, i))
                 /\ DumpFile(a, i' = i + 1 /\ UNCHANGED <<pc, here>>)
    BY DEF GetChild, a
  <2> QED
    BY <1>1, <1>3, <2>1 DEF DumpDirectory, DumpFile
<1> HIDE DEF a
<1>7. ~GetSkips(entry[a]) =>
        /\ Listing(Append(made, a), Wanted)
        /\ Range(Append(made, a)) = Preceding(Wanted, Append(a, 1))
  <2> SUFFICES ASSUME ~GetSkips(entry[a])
               PROVE  /\ Listing(Append(made, a), Wanted)
                      /\ Range(Append(made, a)) = Preceding(Wanted, Append(a, 1))
    OBVIOUS
  <2>1. a \in Wanted
    BY <1>5
  <2> QED
    BY <1>2, <1>3, <1>4, <2>1, Enter DEF Grown
<1>8. ASSUME ~IsDirectory(entry[a]) \/ GetSkips(entry[a]), pc' = "walk", here' = here,
             i' = i + 1, made' = IF a \in Wanted THEN Append(made, a) ELSE made
      PROVE  WalkInv'
  <2>1. entry[a].kind # "directory"
    BY <1>8 DEF IsDirectory, GetSkips, IsEmpty, IsDotDir
  <2>2. Listing(made', Wanted) /\ Range(made') = Preceding(Wanted, Append(here, i + 1))
    <3>1. /\ Listing(Grown(made, a, Wanted), Wanted)
          /\ Range(Grown(made, a, Wanted)) = Preceding(Wanted, Append(here, i + 1))
      BY <1>2, <1>3, <1>4, <2>1, Visit DEF a
    <3> QED
      BY <1>8, <3>1 DEF Grown
  <2> QED
    BY <1>1, <1>2, <1>3, <1>8, <2>2, WalkGoes
<1>9. CASE pc' = "walk" /\ here' = a /\ i' = 1 /\ made' = Append(made, a)
           /\ ~GetSkips(entry[a])
  BY <1>1, <1>3, <1>7, <1>9, WalkGoes
<1>10. CASE pc' \in {"failed", "undefined"} /\ UNCHANGED <<here, i>>
            /\ (made' = made \/ (made' = Append(made, a) /\ ~GetSkips(entry[a])))
  BY <1>1, <1>4, <1>7, <1>10, WalkStops
<1> QED
  BY <1>5, <1>6, <1>8, <1>9, <1>10

LEMMA ListEntryInv ==
    ASSUME WalkInv, ListEntry
    PROVE  WalkInv'
<1>1. /\ UNCHANGED <<cmd, entry, here, i>> /\ cmd.op = "list" /\ pc = "start"
      /\ PlaceInv /\ ~ MovesFile /\ pc' = "walk"
      /\ made' = IF IsDirectory(entry[<<>>]) \/ ListSkips(entry[<<>>]) THEN <<>>
                 ELSE << <<>> >>
  BY DEF ListEntry, WalkInv, MovesFile
<1>2. /\ here = <<>> /\ i = 1 /\ made = <<>> /\ <<>> \in DOMAIN entry
      /\ Listing(made, Wanted) /\ Range(made) = Preceding(Wanted, <<>>)
  BY <1>1, AtFirst
<1>3. Wanted = Lines /\ Wanted \subseteq Positions
  BY <1>1, WalkFacts DEF Wanted
<1>4. <<>> \in Wanted <=> ~IsDirectory(entry[<<>>]) /\ ~ListSkips(entry[<<>>])
  BY <1>2, <1>3 DEF Lines
<1>5. made' = IF <<>> \in Wanted THEN Append(made, <<>>) ELSE made
  BY <1>1, <1>2, <1>4
<1>6. Listing(made', Wanted) /\ Range(made') = Preceding(Wanted, Append(<<>>, 1))
  <2> DEFINE top == <<>>
  <2>2. Listing(made, Wanted) /\ Range(made) = Preceding(Wanted, top) /\ top \in Positions
    BY <1>2, EmptyPosition
  <2> HIDE DEF top
  <2>1. /\ Listing(Grown(made, top, Wanted), Wanted)
        /\ Range(Grown(made, top, Wanted)) = Preceding(Wanted, Append(top, 1))
    BY <1>3, <2>2, Enter
  <2> QED
    BY <1>5, <2>1 DEF Grown, top
<1>7. i' \in 1 .. entry[here'].slots + 1
  BY <1>1 DEF PlaceInv, Slots
<1> QED
  BY <1>1, <1>2, <1>6, <1>7, WalkGoes

LEMMA ListChildInv ==
    ASSUME WalkInv, ListChild
    PROVE  WalkInv'
<1>1. /\ UNCHANGED <<cmd, entry>> /\ cmd.op = "list" /\ pc = "walk" /\ pc' = "walk"
      /\ PlaceInv /\ ~ MovesFile /\ i <= Slots(here)
  BY DEF ListChild, WalkInv, MovesFile
<1>2. /\ here \in DOMAIN entry /\ i \in 1 .. entry[here].slots
      /\ Wanted = Lines /\ Wanted \subseteq Positions /\ cmd.recursive \in BOOLEAN
      /\ (~cmd.recursive => here = <<>>)
  BY <1>1, WalkFacts DEF PlaceInv, Slots, Wanted
<1> DEFINE a == Append(here, i)
<1>3. /\ a \in DOMAIN entry /\ a \in Positions /\ a # <<>> /\ here \in Positions
      /\ entry[a] = Child(here, i) /\ i \in Slot /\ i + 1 \in 1 .. entry[here].slots + 1
      /\ 1 \in 1 .. entry[a].slots + 1
      /\ entry[a].kind \in {"empty", "file", "lfn", "directory", "dot"}
      /\ entry[a].kind # "directory" => \A p \in Wanted : Leads(a, p) => p = a
      /\ entry[<<>>].kind = "directory"
  BY <1>1, <1>2, ChildFacts
<1>4. Listing(made, Wanted) /\ Range(made) = Preceding(Wanted, a)
  BY <1>1 DEF WalkInv, ListedInv
<1> DEFINE enters == cmd.recursive /\ IsDirectory(entry[a]) /\ ~IsDotDir(entry[a])
<1>5. /\ made' = IF ListSkips(entry[a]) THEN made ELSE Append(made, a)
      /\ here' = IF enters THEN a ELSE here
      /\ i' = IF enters THEN 1 ELSE i + 1
  BY <1>3 DEF ListChild
<1>6. ~cmd.recursive => Len(a) = 1
  BY <1>2, <1>3, AppendFacts, EmptyPosition
<1>7. a \in Wanted <=> ~ListSkips(entry[a])
  BY <1>2, <1>3, <1>6 DEF Lines, IsDirectory
<1> HIDE DEF a
<1>8. made' = IF a \in Wanted THEN Append(made, a) ELSE made
  BY <1>5, <1>7
<1>9. CASE enters
  <2>1. Listing(made', Wanted) /\ Range(made') = Preceding(Wanted, Append(a, 1))
    BY <1>2, <1>3, <1>4, <1>8, Enter DEF Grown
  <2> QED
    BY <1>1, <1>3, <1>5, <1>9, <2>1, WalkGoes
<1>10. CASE ~ enters
  <2>1. \A p \in Wanted : Leads(a, p) => p = a
    <3>1. CASE cmd.recursive
      <4>1. entry[a].kind # "directory"
        BY <1>10, <3>1 DEF IsDirectory, IsDotDir
      <4> QED
        BY <1>3, <4>1
    <3>2. CASE ~ cmd.recursive
      <4>1. \A p \in Wanted : Len(p) = 1
        BY <1>2, <1>3, <3>2 DEF Lines, IsDirectory
      <4>2. Len(a) = 1
        BY <1>6, <3>2
      <4>3. ASSUME NEW p \in Wanted, Leads(a, p)
            PROVE  p = a
        <5>1. Len(p) = 1 /\ p \in Positions
          BY <1>2, <4>1
        <5> QED
          BY <1>3, <4>2, <4>3, <5>1, LeadsFacts DEF Slot
      <4> QED
        BY <4>3
    <3> QED
      BY <3>1, <3>2
  <2>2. Listing(made', Wanted) /\ Range(made') = Preceding(Wanted, Append(here, i + 1))
    <3>1. /\ Listing(Grown(made, a, Wanted), Wanted)
          /\ Range(Grown(made, a, Wanted)) = Preceding(Wanted, Append(here, i + 1))
      BY <1>2, <1>3, <1>4, <2>1, Visit DEF a
    <3> QED
      BY <1>8, <3>1 DEF Grown
  <2> QED
    BY <1>1, <1>2, <1>3, <1>5, <1>10, <2>2, WalkGoes
<1> QED
  BY <1>9, <1>10

LEMMA MoveEntryInv ==
    ASSUME WalkInv, MoveEntry
    PROVE  WalkInv'
<1>1. /\ UNCHANGED <<cmd, entry, here, i>> /\ cmd.op = "move" /\ pc = "start" /\ PlaceInv
      /\ here = <<>> /\ i = 1 /\ IsTree(entry) /\ IsImageTree(entry) /\ <<>> \in DOMAIN entry
      /\ entry[<<>>].slots \in Nat /\ Wanted \subseteq Positions
  <2>1. PlaceInv /\ pc = "start" /\ UNCHANGED <<cmd, entry, here, i>> /\ cmd.op = "move"
    BY DEF MoveEntry, WalkInv
  <2>2. IsTree(entry) /\ IsImageTree(entry) /\ Wanted \subseteq Positions
    BY <2>1, WalkFacts
  <2> QED
    BY <2>1, <2>2, TreeFacts DEF PlaceInv
<1>2. Wanted' = Wanted /\ MovesFile' = MovesFile /\ LastDirectories' = LastDirectories
      /\ Wanted = Below /\ Below \subseteq DOMAIN entry /\ LastDirectories \subseteq Below
  BY <1>1, SameWanted, WalkFacts DEF Wanted, LastDirectories
<1>3. CASE IsDirectory(entry[<<>>])
  <2>1. pc' = "walk" /\ made' = <<>> /\ ~ MovesFile
    BY <1>1, <1>3 DEF MoveEntry, MovesFile
  <2>2. Listing(made', Wanted) /\ Range(made') = {}
    BY <2>1, NothingListed
  <2>3. \A p \in Below : ~ Earlier(p, Append(<<>>, 1))
    <3>1. \A p \in Below : p \in Positions /\ p # <<>> /\ ~ Earlier(p, <<>>)
      BY <1>1, <1>2, EmptyPosition DEF Below, Earlier
    <3> QED
      BY <3>1, EmptyPosition, EarlierFirst
  <2>4. Preceding(Wanted, Append(here', i')) = {}
    BY <1>1, <1>2, <2>3 DEF Preceding
  <2>5. ListedInv'
    BY <1>2, <2>1, <2>2, <2>4 DEF ListedInv
  <2>6. i' <= entry'[here'].slots /\ i' \in 1 .. entry'[here'].slots + 1
    <3>1. entry[<<>>].kind = "directory" /\ entry[<<>>].slots # 0
      BY <1>1, <1>3 DEF IsImageTree, IsDirectory
    <3> QED
      BY <1>1, <3>1
  <2>7. MoveInv'
    BY <1>1, <1>2, <2>1, <2>3, <2>6 DEF MoveInv, Slots
  <2>8. PlaceInv'
    BY <1>1, <2>1, <2>6 DEF PlaceInv, Slots
  <2> QED
    BY <2>5, <2>7, <2>8 DEF WalkInv
<1>4. CASE ~IsDirectory(entry[<<>>])
  <2>1. pc' = "done" /\ made' = << <<>> >> /\ MovesFile
    BY <1>1, <1>4 DEF MoveEntry, MovesFile
  <2>2. Below = {}
    <3>1. \A p \in Below : Leads(<<>>, p) /\ p \in DOMAIN entry /\ p # <<>>
      BY <1>1, <1>2, EmptyPosition, PositionFacts DEF Leads, Below
    <3>2. \A p \in Below : p = <<>>
      BY <1>1, <1>4, <3>1, Leaves DEF IsDirectory
    <3> QED
      BY <3>1, <3>2
  <2>3. ListedInv'
    BY <1>2, <2>1 DEF ListedInv
  <2>4. MoveInv'
    BY <1>1, <1>2, <2>1, <2>2 DEF MoveInv
  <2>5. PlaceInv'
    BY <1>1, <2>1 DEF PlaceInv, Slots
  <2> QED
    BY <2>3, <2>4, <2>5 DEF WalkInv
<1> QED
  BY <1>3, <1>4

\* The loop of move is at slot of dir, having climbed if it had to.
MoveAt(dir, slot) ==
    /\ dir \in DOMAIN entry /\ slot \in 1 .. entry[dir].slots
    /\ Range(made) = Preceding(Below, Append(dir, slot))
    /\ \A p \in LastDirectories : Earlier(p, Append(dir, slot)) => Leads(p, dir)
    /\ dir # <<>> => dir \in Below /\ IsDirectory(entry[dir]) /\ ChildCount(dir) > 2

MoveStep(dir, slot) ==
    LET child == Child(dir, slot)
        skips == IsDotDir(child) \/ IsEmpty(child)
        enters == ~skips /\ IsDirectory(child) /\ ChildCount(Append(dir, slot)) > 2
    IN  /\ made' = IF skips THEN made ELSE Append(made, Append(dir, slot))
        /\ here' = IF enters THEN Append(dir, slot) ELSE dir
        /\ i' = IF enters THEN 1 ELSE IF skips THEN AfterSkip(slot) ELSE slot + 1
        /\ pc' = IF i' <= Slots(here') \/ here' # <<>> THEN "walk" ELSE "done"

LEMMA MoveClimbs ==
    ASSUME PlaceInv, MoveInv, cmd.op = "move", pc = "walk",
           Range(made) = Preceding(Below, Append(here, i))
    PROVE  /\ i <= Slots(here) => MoveAt(here, i)
           /\ i > Slots(here) =>
                /\ here # <<>>
                /\ Last(here) + 1 > Slots(Front(here)) => LastDirectories # {}
                /\ Last(here) + 1 <= Slots(Front(here)) => MoveAt(Front(here), Last(here) + 1)
<1>1. /\ IsTree(entry) /\ IsImageTree(entry) /\ here \in DOMAIN entry /\ here \in Positions
      /\ Slots(here) = entry[here].slots /\ Below \subseteq DOMAIN entry
      /\ i \in 1 .. entry[here].slots + 1 /\ entry[here].slots \in Nat
      /\ i > Slots(here) <=> i = Slots(here) + 1
      /\ i <= Slots(here) => i \in 1 .. entry[here].slots
  BY WalkFacts DEF PlaceInv, Slots
<1>2. i <= Slots(here) => MoveAt(here, i)
  BY <1>1 DEF MoveAt, MoveInv
<1>3. ASSUME i > Slots(here)
      PROVE  /\ here # <<>>
             /\ Last(here) + 1 > Slots(Front(here)) => LastDirectories # {}
             /\ Last(here) + 1 <= Slots(Front(here)) => MoveAt(Front(here), Last(here) + 1)
  <2>1. here # <<>> /\ here \in Below /\ IsDirectory(entry[here]) /\ ChildCount(here) > 2
    BY <1>1, <1>3 DEF MoveInv
  <2> DEFINE dir == Front(here)
             slot == Last(here) + 1
  <2>2. /\ dir \in DOMAIN entry /\ Last(here) \in 1 .. entry[dir].slots
        /\ entry[dir].slots \in Nat /\ entry[dir].kind = "directory"
        /\ dir \in Positions /\ Last(here) \in Slot /\ here = Append(dir, Last(here))
    BY <1>1, <2>1, TreeFacts, FrontFacts
  <2>3. Slots(dir) = entry[dir].slots
    BY DEF Slots
  <2>4. slot > Slots(dir) => LastDirectories # {}
    <3>1. slot > Slots(dir) => here \in LastDirectories
      BY <2>1, <2>2, <2>3 DEF LastDirectories
    <3> QED
      BY <3>1
  <2>5. ASSUME slot <= Slots(dir)
        PROVE  MoveAt(dir, slot)
    <3>1. slot \in 1 .. entry[dir].slots
      BY <2>2, <2>3, <2>5
    <3>2. i = entry[here].slots + 1
      BY <1>1, <1>3
    <3>3. \A p \in Below : Earlier(p, Append(here, i)) <=> Earlier(p, Append(dir, slot))
      BY <1>1, <2>1, <3>2, EndOfTable
    <3>4. Range(made) = Preceding(Below, Append(dir, slot))
      BY <3>3 DEF Preceding
    <3>5. ASSUME NEW p \in LastDirectories, Earlier(p, Append(dir, slot))
          PROVE  Leads(p, dir)
      <4>1. p \in Below /\ p \in Positions /\ Last(p) = Slots(Front(p))
        BY <1>1, TreeFacts DEF LastDirectories
      <4>2. Leads(p, here)
        BY <3>3, <3>5, <4>1 DEF MoveInv
      <4>3. p # here
        BY <2>2, <2>3, <2>5, <4>1
      <4>4. Leads(p, Append(dir, Last(here)))
                => Leads(p, dir) \/ p = Append(dir, Last(here))
        <5> HIDE DEF dir
        <5> QED
          BY <2>2, <4>1, LeadsFacts
      <4> QED
        BY <2>2, <4>2, <4>3, <4>4
    <3>6. ASSUME dir # <<>>
          PROVE  dir \in Below /\ IsDirectory(entry[dir]) /\ ChildCount(dir) > 2
      <4>1. dir \in Below /\ IsDirectory(entry[dir])
        BY <2>2, <3>6 DEF Below, IsEmpty, IsDotDir, IsDirectory
      <4>2. entry[here].kind \notin {"empty", "dot"}
        BY <2>1 DEF Below, IsEmpty, IsDotDir
      <4>3. Cardinality({l \in 1 .. entry[dir].slots : ~IsEmpty(entry[Append(dir, l)])}) > 2
        <5> HIDE DEF dir
        <5> QED
          BY <1>1, <2>2, <3>6, <4>2, ThirdChild
      <4> QED
        BY <4>1, <4>3 DEF ChildCount, Child, Slots
    <3> QED
      BY <2>2, <3>1, <3>4, <3>5, <3>6 DEF MoveAt
  <2> QED
    BY <2>1, <2>4, <2>5
<1> QED
  BY <1>2, <1>3

\* A directory with not more than the two dots has nothing below it.
LEMMA FewChildren ==
    ASSUME PlaceInv, NEW a \in DOMAIN entry, a # <<>>, ~ (ChildCount(a) > 2),
           NEW p \in Below, Leads(a, p)
    PROVE  p = a
<1>1. /\ IsTree(entry) /\ IsImageTree(entry) /\ p \in DOMAIN entry
      /\ a \in Positions /\ p \in Positions /\ Len(a) \in Nat /\ Len(p) \in Nat
  <2>1. IsTree(entry) /\ IsImageTree(entry) /\ Below \subseteq DOMAIN entry
    BY WalkFacts
  <2> QED
    BY <2>1, TreeFacts, PositionFacts
<1>2. ASSUME Len(a) < Len(p)
      PROVE  FALSE
  <2> DEFINE k == p[Len(a) + 1]
             b == Append(a, k)
  <2>1. k \in Slot
    BY <1>1, <1>2, PositionFacts
  <2> HIDE DEF k
  <2>2. Leads(b, p)
    BY <1>1, <1>2, <2>1, LeadsFacts DEF k
  <2>3. k \in 1 .. entry[a].slots /\ b \in DOMAIN entry /\ b \in Positions
    BY <1>1, <2>1, <2>2, TreeAbove, AppendFacts
  <2>4. entry[b].kind \notin {"empty", "dot"}
    <3>1. p = b => entry[b].kind \notin {"empty", "dot"}
      BY DEF Below, IsEmpty, IsDotDir
    <3>2. entry[b].kind # "directory" => p = b
      BY <1>1, <2>2, <2>3, Leaves
    <3> QED
      BY <3>1, <3>2
  <2>5. Cardinality({l \in 1 .. entry[a].slots : ~IsEmpty(entry[Append(a, l)])}) > 2
    BY <1>1, <2>3, <2>4, ThirdChild
  <2> QED
    BY <2>5 DEF ChildCount, Child, Slots
<1> QED
  BY <1>1, <1>2, LeadsFacts DEF Slot

LEMMA MoveStepInv ==
    ASSUME WalkInv, UNCHANGED <<cmd, entry>>, cmd.op = "move", pc = "walk",
           NEW dir, NEW slot, MoveAt(dir, slot), MoveStep(dir, slot)
    PROVE  WalkInv'
<1>1. /\ PlaceInv /\ IsTree(entry) /\ Wanted = Below /\ ~ MovesFile
      /\ Below \subseteq Positions /\ Below \subseteq DOMAIN entry /\ Listing(made, Below)
  <2>1. PlaceInv /\ ListedInv /\ Wanted = Below /\ ~ MovesFile
    BY DEF WalkInv, ListedInv, Wanted
  <2> QED
    BY <2>1, WalkFacts DEF ListedInv
<1> DEFINE a == Append(dir, slot)
<1>2. /\ dir \in DOMAIN entry /\ slot \in 1 .. entry[dir].slots /\ dir \in Positions
      /\ a \in DOMAIN entry /\ a \in Positions /\ a # <<>>
      /\ entry[a] = Child(dir, slot) /\ slot \in Slot
      /\ slot + 1 \in 1 .. entry[dir].slots + 1 /\ entry[dir].slots \in Nat
      /\ 1 \in 1 .. entry[a].slots + 1
      /\ entry[a].kind # "directory" => \A p \in Below : Leads(a, p) => p = a
      /\ Leads(a, a)
  <2>1. dir \in DOMAIN entry /\ slot \in 1 .. entry[dir].slots
    BY DEF MoveAt
  <2> QED
    BY <1>1, <2>1, ChildFacts
<1>3. /\ Range(made) = Preceding(Below, a)
      /\ \A p \in LastDirectories : Earlier(p, a) => Leads(p, dir)
      /\ dir # <<>> => dir \in Below /\ IsDirectory(entry[dir]) /\ ChildCount(dir) > 2
  BY DEF MoveAt
<1> DEFINE skips == IsDotDir(entry[a]) \/ IsEmpty(entry[a])
           enters == ~skips /\ IsDirectory(entry[a]) /\ ChildCount(a) > 2
<1>4. /\ made' = IF skips THEN made ELSE Append(made, a)
      /\ here' = IF enters THEN a ELSE dir
      /\ i' = IF enters THEN 1 ELSE slot + 1
      /\ pc' = IF i' <= Slots(here') \/ here' # <<>> THEN "walk" ELSE "done"
  BY <1>2 DEF MoveStep, AfterSkip
<1>5. a \in Below <=> ~ skips
  BY <1>2 DEF Below
<1> HIDE DEF a
<1>6. made' = Grown(made, a, Below)
  BY <1>4, <1>5 DEF Grown
<1>7. /\ Wanted' = Below /\ ~ MovesFile' /\ LastDirectories' = LastDirectories /\ Below' = Below
      /\ \A p : ChildCount(p)' = ChildCount(p)
      /\ \A p \in LastDirectories : p \in Below /\ p \in Positions
      /\ \A p \in LastDirectories : IsDirectory(entry[p]) /\ ChildCount(p) > 2
  BY <1>1, SameWanted DEF LastDirectories
<1>8. Slots(here') = entry[here'].slots
  BY DEF Slots
<1>9. CASE enters
  <2>1. here' = a /\ i' = 1 /\ pc' = "walk"
    BY <1>2, <1>4, <1>9
  <2>2. Listing(made', Below) /\ Range(made') = Preceding(Below, Append(a, 1))
    BY <1>1, <1>2, <1>3, <1>6, Enter
  <2>3. ListedInv'
    BY <1>7, <2>1, <2>2 DEF ListedInv
  <2>4. PlaceInv'
    BY <1>1, <1>2, <2>1 DEF PlaceInv, Slots
  <2>5. ASSUME NEW p \in LastDirectories, Earlier(p, Append(a, 1))
        PROVE  Leads(p, a)
    <3>1. Earlier(p, a) \/ p = a
      BY <1>2, <1>7, <2>5, EarlierFirst
    <3>2. Earlier(p, a) => Leads(p, a)
      BY <1>2, <1>3, <1>7, LeadsFacts DEF a
    <3> QED
      BY <1>2, <3>1, <3>2
  <2>6. MoveInv'
    <3>1. ChildCount(a)' > 2 /\ ChildCount(a)' = ChildCount(a)
      BY <1>7, <1>9
    <3>2. ChildCount(here)' > 2
      BY <2>1, <3>1 DEF ChildCount, Child, Slots
    <3> QED
      BY <1>2, <1>5, <1>7, <1>9, <2>1, <2>5, <3>2 DEF MoveInv
  <2> QED
    BY <2>3, <2>4, <2>6 DEF WalkInv
<1>10. CASE ~ enters
  <2>1. here' = dir /\ i' = slot + 1
    BY <1>4, <1>10
  <2>2. pc' = IF slot + 1 <= entry[dir].slots \/ dir # <<>> THEN "walk" ELSE "done"
    BY <1>4, <1>8, <2>1
  <2>3. \A p \in Below : Leads(a, p) => p = a
    <3>1. CASE skips \/ ~IsDirectory(entry[a])
      BY <1>2, <3>1 DEF IsDotDir, IsEmpty, IsDirectory
    <3>2. CASE ~ (ChildCount(a) > 2)
      BY <1>1, <1>2, <3>2, FewChildren
    <3> QED
      BY <1>10, <3>1, <3>2
  <2>4. Listing(made', Below) /\ Range(made') = Preceding(Below, Append(dir, slot + 1))
    BY <1>1, <1>2, <1>3, <1>6, <2>3, Visit DEF a
  <2>5. ASSUME NEW p \in LastDirectories, Earlier(p, Append(dir, slot + 1))
        PROVE  Leads(p, dir)
    <3>1. Earlier(p, a) \/ Leads(a, p)
      BY <1>2, <1>7, <2>5, EarlierNext DEF a
    <3>2. ~ Leads(a, p)
      <4>1. Leads(a, p) => p = a
        BY <1>7, <2>3
      <4>2. p # a
        BY <1>5, <1>7, <1>10
      <4> QED
        BY <4>1, <4>2
    <3> QED
      BY <1>3, <3>1, <3>2
  <2>6. ASSUME pc' = "done"
        PROVE  /\ LastDirectories = {}
               /\ Range(made') = Below
    <3>1. dir = <<>> /\ slot + 1 = entry[<<>>].slots + 1
      BY <1>2, <2>2, <2>6
    <3>2. \A p \in Below : Earlier(p, Append(dir, slot + 1))
      BY <1>1, <1>2, <3>1, EndOfTable
    <3>3. \A p \in LastDirectories : p = <<>>
      <4>1. \A p \in LastDirectories : Leads(p, <<>>) /\ p \in Positions
        BY <1>7, <2>5, <3>1, <3>2
      <4> QED
        BY <4>1, EmptyPosition, PositionFacts DEF Leads
    <3>4. \A p \in LastDirectories : p # <<>>
      BY <1>7 DEF Below
    <3> QED
      BY <2>4, <3>2, <3>3, <3>4 DEF Preceding
  <2>7. ListedInv'
    BY <1>7, <2>1, <2>2, <2>4, <2>6 DEF ListedInv
  <2>8. PlaceInv'
    BY <1>1, <1>2, <2>1, <2>2 DEF PlaceInv, Slots
  <2>9. MoveInv'
    <3>1. dir # <<>> => ChildCount(dir)' > 2
      BY <1>3, <1>7
    <3>2. here' # <<>> => ChildCount(here)' > 2
      BY <2>1, <3>1 DEF ChildCount, Child, Slots
    <3>3. pc' = "walk" /\ here' = <<>> => i' <= Slots(here)'
      BY <2>1, <2>2 DEF Slots
    <3> QED
      BY <1>3, <1>7, <2>1, <2>2, <2>5, <2>6, <3>2, <3>3 DEF MoveInv
  <2> QED
    BY <2>7, <2>8, <2>9 DEF WalkInv
<1> QED
  BY <1>9, <1>10

LEMMA MoveChildInv ==
    ASSUME WalkInv, MoveChild
    PROVE  WalkInv'
<1>1. /\ UNCHANGED <<cmd, entry>> /\ cmd.op = "move" /\ pc = "walk"
      /\ PlaceInv /\ MoveInv /\ ~ MovesFile /\ Wanted = Below
      /\ Listing(made, Below) /\ Range(made) = Preceding(Below, Append(here, i))
  <2>1. /\ UNCHANGED <<cmd, entry>> /\ cmd.op = "move" /\ pc = "walk"
        /\ PlaceInv /\ MoveInv /\ ListedInv
    BY DEF MoveChild, WalkInv
  <2> QED
    BY <2>1 DEF ListedInv, Wanted
<1> DEFINE dir == IF i > Slots(here) THEN Front(here) ELSE here
           slot == IF i > Slots(here) THEN Last(here) + 1 ELSE i
<1>2. /\ i <= Slots(here) => MoveAt(here, i)
      /\ i > Slots(here) =>
            /\ here # <<>>
            /\ Last(here) + 1 > Slots(Front(here)) => LastDirectories # {}
            /\ Last(here) + 1 <= Slots(Front(here)) => MoveAt(Front(here), Last(here) + 1)
  BY <1>1, MoveClimbs
<1>3. /\ i \in Nat /\ Slots(here) \in Nat
      /\ i > Slots(here) => Last(here) + 1 \in Nat /\ Slots(Front(here)) \in Nat
  <2>1. i \in Slot /\ Slots(here) \in Nat /\ here \in Positions /\ IsTree(entry)
        /\ here \in DOMAIN entry
    BY <1>1, WalkFacts DEF PlaceInv
  <2>2. here # <<>> => Last(here) \in Slot /\ entry[Front(here)].slots \in Nat
    BY <2>1, FrontFacts, TreeFacts
  <2> QED
    BY <1>2, <2>1, <2>2 DEF Slot, Slots
<1>4. \/ slot > Slots(dir) /\ pc' = "undefined" /\ UNCHANGED <<here, i, made>>
      \/ ~ (slot > Slots(dir)) /\ MoveStep(dir, slot)
  BY DEF MoveChild, MoveStep, Behind
<1>5. CASE slot > Slots(dir) /\ pc' = "undefined" /\ UNCHANGED <<here, i, made>>
  <2>1. LastDirectories # {}
    BY <1>2, <1>3, <1>5
  <2>2. /\ Wanted' = Below /\ ~ MovesFile' /\ LastDirectories' = LastDirectories
        /\ Below' = Below /\ ChildCount(here)' = ChildCount(here)
    <3>1. \A p : ChildCount(p)' = ChildCount(p)
      BY <1>1, SameWanted
    <3>2. ChildCount(here)' = ChildCount(here)
      BY <1>1, <1>5 DEF ChildCount, Child, Slots
    <3> QED
      BY <1>1, <3>2, SameWanted
  <2>3. ListedInv'
    BY <1>1, <1>5, <2>2 DEF ListedInv
  <2>4. PlaceInv'
    BY <1>1, <1>5 DEF PlaceInv, Slots
  <2>5. MoveInv'
    BY <1>1, <1>5, <2>1, <2>2 DEF MoveInv
  <2> QED
    BY <2>3, <2>4, <2>5 DEF WalkInv
<1>6. CASE ~ (slot > Slots(dir)) /\ MoveStep(dir, slot)
  <2>1. MoveAt(dir, slot)
    <3>1. CASE i > Slots(here)
      BY <1>2, <1>3, <1>6, <3>1
    <3>2. CASE ~ (i > Slots(here))
      BY <1>2, <1>3, <1>6, <3>2
    <3> QED
      BY <3>1, <3>2
  <2> HIDE DEF dir, slot
  <2> QED
    BY <1>1, <1>6, <2>1, MoveStepInv
<1> QED
  BY <1>4, <1>5, <1>6

LEMMA WalkInit == Init => WalkInv
<1> SUFFICES ASSUME Init
             PROVE  WalkInv
  OBVIOUS
<1>1. /\ cmd \in Commands /\ entry \in Trees /\ pc = "start" /\ here = <<>> /\ i = 1
      /\ made = <<>>
  BY DEF Init
<1>2. <<>> \in DOMAIN entry /\ entry[<<>>].slots \in Nat
  BY <1>1, TreesAssumption, TreeFacts
<1>3. PlaceInv
  BY <1>1, <1>2 DEF PlaceInv, Slots
<1>4. ListedInv
  BY <1>1, NothingListed DEF ListedInv
<1>5. MoveInv
  BY <1>1 DEF MoveInv
<1> QED
  BY <1>3, <1>4, <1>5 DEF WalkInv

LEMMA WalkStep == WalkInv /\ [Next]_vars => WalkInv'
<1> SUFFICES ASSUME WalkInv, [Next]_vars
             PROVE  WalkInv'
  OBVIOUS
<1>1. CASE UNCHANGED vars
  BY <1>1 DEF vars, WalkInv, PlaceInv, ListedInv, MoveInv, Wanted, Below, Lines, MovesFile,
              LastDirectories, ChildCount, Child, Slots
<1>2. CASE GetEntry
  BY <1>2, GetEntryInv
<1>3. CASE GetChild
  BY <1>3, GetChildInv
<1>4. CASE ListEntry
  BY <1>4, ListEntryInv
<1>5. CASE ListChild
  BY <1>5, ListChildInv
<1>6. CASE MoveEntry
  BY <1>6, MoveEntryInv
<1>7. CASE MoveChild
  BY <1>7, MoveChildInv
<1>8. CASE Return
  BY <1>8, ReturnInv
<1> QED
  BY <1>1, <1>2, <1>3, <1>4, <1>5, <1>6, <1>7, <1>8 DEF Next

\* The walks of f12 get, f12 list and f12 move --verbose list, at every moment,
\* exactly what comes before the slot that their loop looks at next.
THEOREM WalksInductive == Spec => []WalkInv
<1> QED
  BY WalkInit, WalkStep, PTL DEF Spec

\* For every tree, f12 get creates the entries below the one it was given in the
\* order of its walk, each once and each directory before what is in it: wherever
\* it stops, the host has the beginning of a full copy, and the whole of it when
\* _f12_dump_f12_structure succeeds.
THEOREM GetCopiesInOrder == Spec => []CopiesInOrder
<1>1. WalkInv => CopiesInOrder
  <2> SUFFICES ASSUME WalkInv, cmd.op = "get"
               PROVE  /\ Begins(made, {<<>>} \union Below)
                      /\ pc = "done" => Range(made) = {<<>>} \union Below
    BY DEF CopiesInOrder
  <2>1. /\ Wanted = {<<>>} \union Below /\ Wanted \subseteq Positions
        /\ Listing(made, Wanted) /\ (pc = "done" => Range(made) = Wanted)
    <3>1. PlaceInv /\ ListedInv /\ ~ MovesFile /\ Wanted = {<<>>} \union Below
      BY DEF WalkInv, MovesFile, Wanted
    <3> QED
      BY <3>1, WalkFacts DEF ListedInv
  <2> QED
    BY <2>1, ListingBegins
<1> QED
  BY <1>1, WalksInductive, PTL

\* For every tree, f12 move --verbose lists the entries below the directory that
\* is moved in order and each once; and the loop of _f12_dump_move reads a child
\* behind a table exactly when a directory with something in it sits in the last
\* slot of its own.
THEOREM MoveListsEachOnce == Spec => []MoveListsOnce
<1>1. WalkInv => MoveListsOnce
  <2> SUFFICES ASSUME WalkInv, cmd.op = "move"
               PROVE  MoveListsOnce
    BY DEF MoveListsOnce
  <2>1. /\ PlaceInv /\ ListedInv /\ MoveInv
        /\ Wanted = Below /\ Below \subseteq Positions /\ Below \subseteq DOMAIN entry
        /\ IsTree(entry) /\ <<>> \in DOMAIN entry
    <3>1. PlaceInv /\ ListedInv /\ MoveInv /\ Wanted = Below
      BY DEF WalkInv, Wanted
    <3> QED
      BY <3>1, WalkFacts, TreeFacts
  <2>2. ~DirectoryInLastSlot <=> LastDirectories = {}
    BY DEF DirectoryInLastSlot, LastDirectories
  <2>3. CASE IsDirectory(entry[<<>>])
    <3>1. ~ MovesFile /\ Listing(made, Below) /\ (pc = "done" => Range(made) = Below)
      BY <2>1, <2>3 DEF ListedInv, MovesFile
    <3>2. Begins(made, Below)
      BY <2>1, <3>1, ListingBegins
    <3> QED
      BY <2>1, <2>2, <2>3, <3>1, <3>2 DEF MoveListsOnce, MoveInv
  <2>4. CASE ~IsDirectory(entry[<<>>])
    <3>1. pc = "done" => made = << <<>> >>
      BY <2>1, <2>4 DEF ListedInv, MovesFile
    <3> QED
      BY <2>1, <2>2, <2>4, <3>1 DEF MoveListsOnce, MoveInv
  <2> QED
    BY <2>3, <2>4
<1> QED
  BY <1>1, WalksInductive, PTL

-----------------------------------------------------------------------------
(***************************************************************************)
(* The sums and the largest numbers of the loops.                          *)
(***************************************************************************)
TotalUpTo(n, of) ==
    CHOOSE f : f = [k \in 0 .. n |-> IF k = 0 THEN 0 ELSE f[k - 1] + of[k]]

LEMMA TotalSteps ==
    ASSUME NEW n \in Nat, NEW of, \A k \in 1 .. n : of[k] \in Nat
    PROVE  /\ TotalUpTo(n, of) \in [0 .. n -> Nat]
           /\ TotalUpTo(n, of)[0] = 0
           /\ \A k \in 1 .. n : TotalUpTo(n, of)[k] = TotalUpTo(n, of)[k - 1] + of[k]
           /\ Total(n, of) = TotalUpTo(n, of)[n]
<1> DEFINE Step(v, k) == v + of[k]
           F == [v \in Nat \X (1 .. n) |-> Step(v[1], v[2])]
           P(f) == f = [k \in 0 .. n |-> IF k = 0 THEN 0 ELSE Step(f[k - 1], k)]
<1>1. \A v \in Nat, k \in 1 .. n : Step(v, k) \in Nat
  OBVIOUS
<1> HIDE DEF Step
<1>2. F \in [Nat \X (1 .. n) -> Nat]
  BY <1>1
<1>3. PICK f \in [0 .. n -> Nat] : f[0] = 0 /\ \A k \in 1 .. n : f[k] = F[<<f[k - 1], k>>]
  <2> HIDE DEF F
  <2>1. IsDefined(Nat, 0, n, F)
    BY <1>2, Recursion
  <2> QED
    BY <2>1 DEF IsDefined
<1>4. P(f)
  <2>1. \A k \in 1 .. n : k - 1 \in 0 .. n
    OBVIOUS
  <2>2. \A k \in 1 .. n : f[k] = Step(f[k - 1], k)
    BY <1>3, <2>1
  <2>3. \A k \in 0 .. n : k = 0 \/ k \in 1 .. n
    OBVIOUS
  <2> HIDE DEF F
  <2> QED
    BY <1>3, <2>2, <2>3
<1> DEFINE g == TotalUpTo(n, of)
<1>5. P(g)
  <2>1. g = CHOOSE f1 : P(f1)
    BY DEF TotalUpTo, Step
  <2> HIDE DEF P, g
  <2> QED
    BY <1>4, <2>1
<1> HIDE DEF g
<1>6. g[0] = 0 /\ \A k \in 1 .. n : g[k] = Step(g[k - 1], k)
  <2>1. 0 \in 0 .. n /\ \A k \in 1 .. n : k \in 0 .. n /\ k # 0
    OBVIOUS
  <2> QED
    BY <1>5, <2>1
<1>7. \A k \in 0 .. n : g[k] \in Nat
  <2> DEFINE S == {j \in 0 .. n : g[j] \in Nat}
  <2>1. 0 \in S
    BY <1>6
  <2>2. ASSUME NEW k \in 0 .. (n - 1), k \in S
        PROVE  k + 1 \in S
    <3>1. k + 1 \in 1 .. n /\ k + 1 \in 0 .. n /\ (k + 1) - 1 = k
      OBVIOUS
    <3> QED
      BY <1>1, <1>6, <2>2, <3>1
  <2> HIDE DEF S
  <2>3. \A k \in 0 .. n : k \in S
    BY <2>1, <2>2, UpToNumber
  <2> QED
    BY <2>3 DEF S
<1>8. g \in [0 .. n -> Nat]
  BY <1>5, <1>7
<1>9. Total(n, of) = g[n]
  BY Zenon DEF Total, TotalUpTo, g
<1> QED
  BY <1>6, <1>8, <1>9 DEF g, Step

LargestUpTo(n, of) ==
    CHOOSE f : f = [k \in 0 .. n |-> IF k = 0 THEN 0 ELSE Larger(f[k - 1], of[k])]

LEMMA LargestSteps ==
    ASSUME NEW n \in Nat, NEW of, \A k \in 1 .. n : of[k] \in Nat
    PROVE  /\ LargestUpTo(n, of) \in [0 .. n -> Nat]
           /\ LargestUpTo(n, of)[0] = 0
           /\ \A k \in 1 .. n : LargestUpTo(n, of)[k] = Larger(LargestUpTo(n, of)[k - 1], of[k])
           /\ Largest(n, of) = LargestUpTo(n, of)[n]
<1> DEFINE Step(v, k) == Larger(v, of[k])
           F == [v \in Nat \X (1 .. n) |-> Step(v[1], v[2])]
           P(f) == f = [k \in 0 .. n |-> IF k = 0 THEN 0 ELSE Step(f[k - 1], k)]
<1>1. \A v \in Nat, k \in 1 .. n : Step(v, k) \in Nat
  BY DEF Larger
<1> HIDE DEF Step
<1>2. F \in [Nat \X (1 .. n) -> Nat]
  BY <1>1
<1>3. PICK f \in [0 .. n -> Nat] : f[0] = 0 /\ \A k \in 1 .. n : f[k] = F[<<f[k - 1], k>>]
  <2> HIDE DEF F
  <2>1. IsDefined(Nat, 0, n, F)
    BY <1>2, Recursion
  <2> QED
    BY <2>1 DEF IsDefined
<1>4. P(f)
  <2>1. \A k \in 1 .. n : k - 1 \in 0 .. n
    OBVIOUS
  <2>2. \A k \in 1 .. n : f[k] = Step(f[k - 1], k)
    BY <1>3, <2>1
  <2>3. \A k \in 0 .. n : k = 0 \/ k \in 1 .. n
    OBVIOUS
  <2> HIDE DEF F
  <2> QED
    BY <1>3, <2>2, <2>3
<1> DEFINE g == LargestUpTo(n, of)
<1>5. P(g)
  <2>1. g = CHOOSE f1 : P(f1)
    BY DEF LargestUpTo, Step
  <2> HIDE DEF P, g
  <2> QED
    BY <1>4, <2>1
<1> HIDE DEF g
<1>6. g[0] = 0 /\ \A k \in 1 .. n : g[k] = Step(g[k - 1], k)
  <2>1. 0 \in 0 .. n /\ \A k \in 1 .. n : k \in 0 .. n /\ k # 0
    OBVIOUS
  <2> QED
    BY <1>5, <2>1
<1>7. \A k \in 0 .. n : g[k] \in Nat
  <2> DEFINE S == {j \in 0 .. n : g[j] \in Nat}
  <2>1. 0 \in S
    BY <1>6
  <2>2. ASSUME NEW k \in 0 .. (n - 1), k \in S
        PROVE  k + 1 \in S
    <3>1. k + 1 \in 1 .. n /\ k + 1 \in 0 .. n /\ (k + 1) - 1 = k
      OBVIOUS
    <3> QED
      BY <1>1, <1>6, <2>2, <3>1
  <2> HIDE DEF S
  <2>3. \A k \in 0 .. n : k \in S
    BY <2>1, <2>2, UpToNumber
  <2> QED
    BY <2>3 DEF S
<1>8. g \in [0 .. n -> Nat]
  BY <1>5, <1>7
<1>9. Largest(n, of) = g[n]
  BY Zenon DEF Largest, LargestUpTo, g
<1> QED
  BY <1>6, <1>8, <1>9 DEF g, Step

LEMMA TotalIsNumber ==
    ASSUME NEW n \in Nat, NEW of, \A k \in 1 .. n : of[k] \in Nat
    PROVE  Total(n, of) \in Nat
<1>1. n \in 0 .. n
  OBVIOUS
<1> QED
  BY <1>1, TotalSteps

LEMMA LargestBounds ==
    ASSUME NEW n \in Nat, NEW of, \A k \in 1 .. n : of[k] \in Nat
    PROVE  Largest(n, of) \in Nat /\ \A k \in 1 .. n : of[k] <= Largest(n, of)
<1> DEFINE g == LargestUpTo(n, of)
<1>1. /\ g \in [0 .. n -> Nat] /\ g[0] = 0 /\ Largest(n, of) = g[n]
      /\ \A k \in 1 .. n : g[k] = Larger(g[k - 1], of[k])
  BY LargestSteps
<1> HIDE DEF g
<1>2. Largest(n, of) \in Nat
  <2>1. n \in 0 .. n
    OBVIOUS
  <2> QED
    BY <1>1, <2>1
<1> DEFINE S == {m \in 0 .. n : \A k \in 1 .. m : of[k] <= g[m]}
<1>3. 0 \in S
  OBVIOUS
<1>4. ASSUME NEW m \in 0 .. (n - 1), m \in S
      PROVE  m + 1 \in S
  <2>1. m + 1 \in 1 .. n /\ m + 1 \in 0 .. n /\ (m + 1) - 1 = m /\ m \in 0 .. n
    OBVIOUS
  <2>2. g[m + 1] = Larger(g[m], of[m + 1]) /\ g[m] \in Nat /\ of[m + 1] \in Nat
    BY <1>1, <2>1
  <2>3. g[m] <= g[m + 1] /\ of[m + 1] <= g[m + 1] /\ g[m + 1] \in Nat
    BY <2>2 DEF Larger
  <2>4. \A k \in 1 .. (m + 1) : k = m + 1 \/ (k \in 1 .. m /\ k \in 1 .. n)
    OBVIOUS
  <2>5. \A k \in 1 .. m : of[k] <= g[m]
    BY <1>4
  <2>6. ASSUME NEW k \in 1 .. (m + 1)
        PROVE  of[k] <= g[m + 1]
    <3>1. CASE k = m + 1
      BY <2>3, <3>1
    <3>2. CASE k # m + 1
      <4>1. k \in 1 .. m /\ of[k] \in Nat
        BY <2>4, <3>2
      <4>2. of[k] <= g[m]
        BY <2>5, <4>1
      <4> QED
        BY <2>2, <2>3, <4>1, <4>2
    <3> QED
      BY <3>1, <3>2
  <2> QED
    BY <2>1, <2>6
<1> HIDE DEF S
<1>5. \A m \in 0 .. n : m \in S
  BY <1>3, <1>4, UpToNumber
<1>6. n \in S
  BY <1>5
<1> QED
  BY <1>1, <1>2, <1>6 DEF S

-----------------------------------------------------------------------------
(***************************************************************************)
(* Induction and recursion over a tree: what is below a child is less than *)
(* what is below its directory.                                            *)
(***************************************************************************)
Rank(t, p) == Cardinality({q \in DOMAIN t : Leads(p, q)})

LEMMA RankFacts ==
    ASSUME NEW t, IsTree(t), NEW p \in DOMAIN t
    PROVE  /\ Rank(t, p) \in Nat /\ Rank(t, p) # 0
           /\ Rank(t, p) <= Cardinality(DOMAIN t)
           /\ \A k \in 1 .. t[p].slots :
                 Append(p, k) \in DOMAIN t /\ Rank(t, Append(p, k)) < Rank(t, p)
<1> DEFINE D == DOMAIN t
           Under(h) == {q \in D : Leads(h, q)}
<1>1. IsFiniteSet(D) /\ D \subseteq Positions
  BY TreeFacts
<1>2. \A h : /\ IsFiniteSet(Under(h)) /\ Cardinality(Under(h)) \in Nat
             /\ Cardinality(Under(h)) <= Cardinality(D)
  <2> SUFFICES ASSUME NEW h
               PROVE  /\ IsFiniteSet(Under(h)) /\ Cardinality(Under(h)) \in Nat
                      /\ Cardinality(Under(h)) <= Cardinality(D)
    OBVIOUS
  <2>1. Under(h) \in SUBSET D
    OBVIOUS
  <2> HIDE DEF Under, D
  <2> QED
    BY <1>1, <2>1, FS_Subset, FS_CardinalityType
<1>3. p \in Under(p)
  BY <1>1, LeadsFacts DEF Slot
<1>4. Cardinality(Under(p)) # 0
  <2> HIDE DEF Under
  <2> QED
    BY <1>2, <1>3, FS_EmptySet
<1>5. ASSUME NEW k \in 1 .. t[p].slots
      PROVE  Append(p, k) \in D /\ Cardinality(Under(Append(p, k))) < Cardinality(Under(p))
  <2> DEFINE a == Append(p, k)
  <2>1. a \in D /\ a \in Positions /\ p \in Positions /\ k \in Slot /\ Len(p) \in Nat
        /\ Len(a) = Len(p) + 1
    BY <1>1, TreeFacts, AppendFacts, PositionFacts
  <2>2. \A q \in D : Leads(a, q) => Leads(p, q)
    <3>1. \A q \in D : Leads(Append(p, k), q)
                        <=> Leads(p, q) /\ Len(p) < Len(q) /\ q[Len(p) + 1] = k
      BY <1>1, <2>1, LeadsFacts
    <3> QED
      BY <3>1
  <2>3. ~ Leads(a, p)
    BY <2>1 DEF Leads
  <2>4. Under(a) \in SUBSET Under(p) /\ Under(a) # Under(p)
    BY <1>3, <2>2, <2>3
  <2> HIDE DEF Under, a, D
  <2>5. Cardinality(Under(a)) <= Cardinality(Under(p))
        /\ Cardinality(Under(a)) # Cardinality(Under(p))
    BY <1>2, <2>4, FS_Subset
  <2>6. Cardinality(Under(a)) < Cardinality(Under(p))
    BY <1>2, <2>5
  <2> QED
    BY <2>1, <2>6 DEF a
<1> QED
  BY <1>2, <1>4, <1>5 DEF Rank

\* What is so of an entry when it is so of its children is so of all.
LEMMA TreeInduction ==
    ASSUME NEW t, IsTree(t), NEW S,
           \A p \in DOMAIN t : (\A k \in 1 .. t[p].slots : Append(p, k) \in S) => p \in S
    PROVE  \A p \in DOMAIN t : p \in S
<1> DEFINE Missing == {p \in DOMAIN t : p \notin S}
           Ranks == {Rank(t, p) : p \in Missing}
<1>1. ASSUME Missing # {}
      PROVE  FALSE
  <2>1. Ranks \in SUBSET Nat /\ Ranks # {}
    BY <1>1, RankFacts
  <2> HIDE DEF Ranks
  <2>2. PICK r \in Ranks : \A m \in Ranks : r <= m
    BY <2>1, LeastNumber
  <2> USE DEF Ranks
  <2>3. PICK p \in Missing : r = Rank(t, p)
    BY <2>2
  <2>4. \A k \in 1 .. t[p].slots : Append(p, k) \in S
    <3> SUFFICES ASSUME NEW k \in 1 .. t[p].slots, Append(p, k) \notin S
                 PROVE  FALSE
      OBVIOUS
    <3>1. Append(p, k) \in DOMAIN t /\ Rank(t, Append(p, k)) < Rank(t, p)
          /\ Rank(t, p) \in Nat /\ Rank(t, Append(p, k)) \in Nat
      BY <2>3, RankFacts
    <3>2. Rank(t, Append(p, k)) \in Ranks
      BY <3>1
    <3> HIDE DEF Ranks
    <3>3. r <= Rank(t, Append(p, k))
      BY <2>2, <3>2
    <3> QED
      BY <2>3, <3>1, <3>3
  <2> QED
    BY <2>3, <2>4
<1> QED
  BY <1>1

\* H computes a number for a position from those of the children.
ComputesUp(t, H) ==
    /\ H \in [[DOMAIN t -> Nat] \X DOMAIN t -> Nat]
    /\ \A f, g \in [DOMAIN t -> Nat], p \in DOMAIN t :
          (\A k \in 1 .. t[p].slots : f[Append(p, k)] = g[Append(p, k)])
              => H[<<f, p>>] = H[<<g, p>>]

\* There is the function that the recursion by H defines.
IsComputed(t, H) ==
    \E f \in [DOMAIN t -> Nat] : \A p \in DOMAIN t : f[p] = H[<<f, p>>]

LEMMA TreeRecursion ==
    ASSUME NEW t, IsTree(t), NEW H, ComputesUp(t, H)
    PROVE  IsComputed(t, H)
<1> USE DEF ComputesUp, IsComputed
<1> DEFINE D == DOMAIN t
           N == Cardinality(D)
           Solves(f, n) == f \in [D -> Nat]
                           /\ \A p \in D : Rank(t, p) <= n => f[p] = H[<<f, p>>]
           S == {n \in 0 .. N : \E f : Solves(f, n)}
<1>1. N \in Nat /\ \A p \in D : Rank(t, p) \in Nat /\ Rank(t, p) # 0 /\ Rank(t, p) <= N
  <2>1. IsFiniteSet(D)
    BY TreeFacts
  <2> QED
    BY <2>1, RankFacts, FS_CardinalityType
<1>2. \A p \in D : \A k \in 1 .. t[p].slots :
        Append(p, k) \in D /\ Rank(t, Append(p, k)) < Rank(t, p)
  BY RankFacts
<1> HIDE DEF N
<1>3. 0 \in S
  <2> DEFINE f == [p \in D |-> 0]
  <2>1. f \in [D -> Nat] /\ \A p \in D : ~ (Rank(t, p) <= 0)
    BY <1>1
  <2> HIDE DEF f
  <2>2. Solves(f, 0)
    BY <2>1
  <2> QED
    BY <1>1, <2>2
<1>4. ASSUME NEW n \in 0 .. (N - 1), n \in S
      PROVE  n + 1 \in S
  <2>1. PICK f : Solves(f, n)
    BY <1>4
  <2> DEFINE g == [p \in D |-> IF Rank(t, p) <= n THEN f[p] ELSE H[<<f, p>>]]
  <2>2. \A p \in D : f[p] \in Nat /\ H[<<f, p>>] \in Nat
    BY <2>1
  <2>3. g \in [D -> Nat]
    BY <2>2
  <2>4. \A p \in D : Rank(t, p) <= n => g[p] = f[p]
    OBVIOUS
  <2>5. \A p \in D : g[p] = H[<<f, p>>]
    BY <2>1
  <2> HIDE DEF g
  <2>6. ASSUME NEW p \in D, Rank(t, p) <= n + 1
        PROVE  g[p] = H[<<g, p>>]
    <3>1. \A k \in 1 .. t[p].slots : Rank(t, Append(p, k)) <= n /\ Append(p, k) \in D
      BY <1>1, <1>2, <2>6
    <3>2. \A k \in 1 .. t[p].slots : f[Append(p, k)] = g[Append(p, k)]
      BY <2>4, <3>1
    <3>3. H[<<f, p>>] = H[<<g, p>>]
      BY <2>1, <2>3, <3>2
    <3> QED
      BY <2>5, <3>3
  <2>7. Solves(g, n + 1)
    BY <2>3, <2>6
  <2>8. n + 1 \in 0 .. N
    BY <1>1
  <2> HIDE DEF Solves
  <2> QED
    BY <2>7, <2>8
<1> HIDE DEF S
<1>5. \A n \in 0 .. N : n \in S
  BY <1>1, <1>3, <1>4, UpToNumber
<1>6. N \in S
  BY <1>1, <1>5
<1>7. PICK f : Solves(f, N)
  BY <1>6 DEF S
<1> QED
  BY <1>1, <1>7

\* The entries of K below p.
Counted(K, p) == {q \in K : Leads(p, q) /\ q # p}

\* f is counted at each entry as one for every child in K and what is below the
\* child.
CountsUp(t, K, f, of) ==
    /\ \A p \in DOMAIN t : f[p] \in Nat /\ f[p] = Total(t[p].slots, of[p])
    /\ \A p \in DOMAIN t : \A k \in 1 .. t[p].slots :
          of[p][k] = (IF Append(p, k) \in K THEN 1 ELSE 0) + f[Append(p, k)]

\* It is the number of the entries of K below it.
LEMMA CountIsCardinality ==
    ASSUME NEW t, IsTree(t), NEW K, K \subseteq DOMAIN t, NEW f, NEW of,
           CountsUp(t, K, f, of)
    PROVE  \A p \in DOMAIN t : f[p] = Cardinality(Counted(K, p))
<1> USE DEF CountsUp
<1> DEFINE S == {p \in DOMAIN t : f[p] = Cardinality(Counted(K, p))}
<1>1. \A T \in SUBSET K : IsFiniteSet(T) /\ Cardinality(T) \in Nat
  <2>1. \A T \in SUBSET K : T \in SUBSET DOMAIN t
    OBVIOUS
  <2> QED
    BY <2>1, TreeFacts, FS_Subset, FS_CardinalityType
<1>2. ASSUME NEW p \in DOMAIN t, \A k \in 1 .. t[p].slots : Append(p, k) \in S
      PROVE  p \in S
  <2> DEFINE n == t[p].slots
             U == TotalUpTo(n, of[p])
             Before(k) == {q \in K : BelowBefore(q, p, k + 1)}
             W == {k \in 0 .. n : U[k] = Cardinality(Before(k))}
  <2>1. /\ n \in Nat /\ p \in Positions /\ Len(p) \in Nat
        /\ K \subseteq Positions
        /\ \A k \in 1 .. n : k \in Slot /\ Append(p, k) \in DOMAIN t /\ Append(p, k) \in Positions
    BY TreeFacts, PositionFacts
  <2>2. \A k \in 1 .. n : of[p][k] \in Nat
    <3> SUFFICES ASSUME NEW k \in 1 .. n
                 PROVE  of[p][k] \in Nat
      OBVIOUS
    <3>1. f[Append(p, k)] \in Nat
      BY <2>1
    <3> QED
      BY <3>1
  <2> HIDE DEF n
  <2>3. /\ U[0] = 0 /\ Total(n, of[p]) = U[n]
        /\ \A k \in 1 .. n : U[k] = U[k - 1] + of[p][k]
    BY <2>1, <2>2, TotalSteps
  <2> HIDE DEF U
  <2>4. 0 \in W
    <3>1. Before(0) = {}
      <4>1. \A q \in K : \A k \in 1 .. Len(q) : q[k] \in Nat /\ q[k] >= 1
        BY <2>1, PositionFacts DEF Slot
      <4>2. \A q \in K : Len(q) \in Nat
        BY <2>1, PositionFacts
      <4> QED
        BY <2>1, <4>1, <4>2 DEF BelowBefore
    <3>2. Cardinality(Before(0)) = 0
      <4> HIDE DEF Before
      <4> QED
        BY <3>1, FS_EmptySet
    <3>3. 0 \in 0 .. n
      BY <2>1
    <3> HIDE DEF Before
    <3> QED
      BY <2>3, <3>2, <3>3
  <2>5. ASSUME NEW k \in 0 .. (n - 1), k \in W
        PROVE  k + 1 \in W
    <3> DEFINE l == k + 1
               a == Append(p, l)
               Here == {q \in K : q = a}
    <3>1. l \in 1 .. n /\ l - 1 = k /\ l \in Nat /\ l \in 0 .. n
      BY <2>1
    <3> HIDE DEF l
    <3>2. U[l] = U[k] + of[p][l] /\ U[k] = Cardinality(Before(k))
      BY <2>3, <2>5, <3>1
    <3>3. of[p][l] = (IF a \in K THEN 1 ELSE 0) + f[a] /\ f[a] = Cardinality(Counted(K, a))
      BY <1>2, <2>1, <3>1 DEF n
    <3>4. /\ Before(l) = Before(k) \union (Here \union Counted(K, a))
          /\ Before(k) \intersect (Here \union Counted(K, a)) = {}
          /\ Here \intersect Counted(K, a) = {}
      <4>1. \A q \in K : /\ Len(q) \in Nat
                         /\ \A m \in 1 .. Len(q) : q[m] \in Nat
        BY <2>1, PositionFacts DEF Slot
      <4>2. \A q \in K : Leads(a, q) <=> Leads(p, q) /\ Len(p) < Len(q) /\ q[Len(p) + 1] = l
        BY <2>1, <3>1, LeadsFacts
      <4>3. Leads(a, a)
        BY <2>1, <3>1, LeadsFacts DEF Slot
      <4>4. \A q \in K : BelowBefore(q, p, l + 1) <=> BelowBefore(q, p, k + 1) \/ Leads(a, q)
        <5> SUFFICES ASSUME NEW q \in K
                     PROVE  BelowBefore(q, p, l + 1)
                                <=> BelowBefore(q, p, k + 1) \/ Leads(a, q)
          OBVIOUS
        <5>1. Leads(p, q) /\ Len(p) < Len(q) => q[Len(p) + 1] \in Nat
          BY <2>1, <4>1
        <5> QED
          BY <2>1, <3>1, <4>2, <5>1 DEF BelowBefore, l
      <4>5. \A q \in K : Leads(a, q) => ~ BelowBefore(q, p, k + 1)
        BY <3>1, <4>2 DEF BelowBefore, l
      <4> HIDE DEF a
      <4> QED
        BY <4>3, <4>4, <4>5 DEF Counted
    <3>5. Cardinality(Here) = IF a \in K THEN 1 ELSE 0
      <4>1. CASE a \in K
        <5>1. Here = {a}
          BY <4>1
        <5> HIDE DEF Here, a
        <5> QED
          BY <4>1, <5>1, FS_Singleton
      <4>2. CASE a \notin K
        <5>1. Here = {}
          BY <4>2
        <5> HIDE DEF Here, a
        <5> QED
          BY <4>2, <5>1, FS_EmptySet
      <4> QED
        BY <4>1, <4>2
    <3>6. Here \in SUBSET K /\ Before(k) \in SUBSET K /\ Counted(K, a) \in SUBSET K
          /\ (Here \union Counted(K, a)) \in SUBSET K
      BY DEF Counted
    <3> HIDE DEF Here, Before, a
    <3>7. Cardinality(Here \union Counted(K, a)) = Cardinality(Here) + Cardinality(Counted(K, a))
      <4>1. IsFiniteSet(Here) /\ IsFiniteSet(Counted(K, a)) /\ Cardinality({}) = 0
            /\ Cardinality(Here) \in Nat /\ Cardinality(Counted(K, a)) \in Nat
        BY <1>1, <3>6, FS_EmptySet
      <4>2. Cardinality(Here \union Counted(K, a))
                = Cardinality(Here) + Cardinality(Counted(K, a))
                      - Cardinality(Here \intersect Counted(K, a))
        BY <4>1, FS_Union
      <4>3. Cardinality(Here \intersect Counted(K, a)) = 0
        BY <3>4, <4>1
      <4> QED
        BY <4>1, <4>2, <4>3
    <3>8. Cardinality(Before(l))
              = Cardinality(Before(k)) + Cardinality(Here \union Counted(K, a))
      <4> DEFINE R == Here \union Counted(K, a)
      <4>1. R \in SUBSET K
        BY <3>6
      <4>2. Before(l) = Before(k) \union R /\ Before(k) \intersect R = {}
        BY <3>4
      <4> HIDE DEF R
      <4>3. IsFiniteSet(Before(k)) /\ IsFiniteSet(R) /\ Cardinality({}) = 0
            /\ Cardinality(Before(k)) \in Nat /\ Cardinality(R) \in Nat
        BY <1>1, <3>6, <4>1, FS_EmptySet
      <4>4. Cardinality(Before(k) \union R)
                = Cardinality(Before(k)) + Cardinality(R) - Cardinality(Before(k) \intersect R)
        BY <4>3, FS_Union
      <4>6. Cardinality(Before(k) \intersect R) = 0
        BY <4>2, <4>3
      <4>7. Cardinality(Before(k) \union R) = Cardinality(Before(k)) + Cardinality(R)
        BY <4>3, <4>4, <4>6
      <4>5. Cardinality(Before(l)) = Cardinality(Before(k)) + Cardinality(R)
        BY <4>2, <4>7
      <4> QED
        BY <4>5 DEF R
    <3>9. Cardinality(Here) \in Nat /\ Cardinality(Counted(K, a)) \in Nat
          /\ Cardinality(Before(k)) \in Nat
      BY <1>1, <3>6
    <3>10. U[l] = Cardinality(Before(l))
      BY <3>2, <3>3, <3>5, <3>7, <3>8, <3>9
    <3> QED
      BY <3>1, <3>10 DEF l
  <2> HIDE DEF W
  <2>6. \A k \in 0 .. n : k \in W
    BY <2>1, <2>4, <2>5, UpToNumber
  <2>7. n \in W
    BY <2>1, <2>6
  <2>8. Before(n) = Counted(K, p)
    <3>1. \A q \in K : BelowBefore(q, p, n + 1) <=> Leads(p, q) /\ q # p
      <4> SUFFICES ASSUME NEW q \in K
                   PROVE  BelowBefore(q, p, n + 1) <=> Leads(p, q) /\ q # p
        OBVIOUS
      <4>1. q \in Positions /\ q \in DOMAIN t /\ Len(q) \in Nat
        BY <2>1, PositionFacts
      <4>2. ASSUME Leads(p, q), Len(p) < Len(q)
            PROVE  q[Len(p) + 1] < n + 1
        <5> DEFINE m == q[Len(p) + 1]
        <5>1. m \in Slot
          BY <2>1, <4>1, <4>2, PositionFacts
        <5> HIDE DEF m
        <5>2. Leads(Append(p, m), q)
          BY <2>1, <4>1, <4>2, <5>1, LeadsFacts DEF m
        <5>3. m \in 1 .. n
          BY <2>1, <4>1, <5>1, <5>2, TreeAbove DEF n
        <5>4. m < n + 1
          BY <2>1, <5>3
        <5> QED
          BY <5>4 DEF m
      <4>3. Leads(p, q) => (q # p <=> Len(p) < Len(q))
        <5>1. Leads(p, q) /\ Len(q) <= Len(p) => q = p
          BY <2>1, <4>1, LeadsFacts DEF Slot
        <5> QED
          BY <2>1, <4>1, <5>1 DEF Leads
      <4> QED
        BY <4>2, <4>3 DEF BelowBefore
    <3> QED
      BY <3>1 DEF Counted
  <2>9. f[p] = Total(n, of[p])
    BY DEF n
  <2> HIDE DEF Before
  <2> QED
    BY <2>3, <2>7, <2>8, <2>9 DEF W
<1> HIDE DEF S
<1>3. \A p \in DOMAIN t : p \in S
  BY <1>2, TreeInduction
<1> QED
  BY <1>3 DEF S

-----------------------------------------------------------------------------
(***************************************************************************)
(* The characters of a number.                                             *)
(***************************************************************************)
LEMMA TensAre ==
    /\ Tens[1] = 10 /\ Tens[2] = 100 /\ Tens[3] = 1000 /\ Tens[4] = 10000
    /\ Tens[5] = 100000 /\ Tens[6] = 1000000 /\ Tens[7] = 10000000
    /\ Tens[8] = 100000000 /\ Tens[9] = 1000000000
<1> DEFINE P(f) == f = [k \in 1 .. 9 |-> IF k = 1 THEN 10 ELSE 10 * f[k - 1]]
           w == [k \in 1 .. 9 |->
                    CASE k = 1 -> 10 [] k = 2 -> 100 [] k = 3 -> 1000 [] k = 4 -> 10000
                      [] k = 5 -> 100000 [] k = 6 -> 1000000 [] k = 7 -> 10000000
                      [] k = 8 -> 100000000 [] OTHER -> 1000000000]
<1>1. P(w)
  <2>1. /\ w[1] = 10 /\ w[2] = 100 /\ w[3] = 1000 /\ w[4] = 10000
        /\ w[5] = 100000 /\ w[6] = 1000000 /\ w[7] = 10000000
        /\ w[8] = 100000000 /\ w[9] = 1000000000
    OBVIOUS
  <2>2. w = [k \in 1 .. 9 |-> w[k]]
    OBVIOUS
  <2> HIDE DEF w
  <2>3. \A k \in 1 .. 9 : w[k] = IF k = 1 THEN 10 ELSE 10 * w[k - 1]
    <3> SUFFICES ASSUME NEW k \in 1 .. 9
                 PROVE  w[k] = IF k = 1 THEN 10 ELSE 10 * w[k - 1]
      OBVIOUS
    <3>1. k \in {1, 2, 3, 4, 5, 6, 7, 8, 9}
      OBVIOUS
    <3> QED
      BY <2>1, <3>1
  <2> QED
    BY <2>2, <2>3
<1>2. P(Tens)
  <2>1. Tens = CHOOSE f : P(f)
    BY DEF Tens
  <2> HIDE DEF P, w
  <2> QED
    BY <1>1, <2>1
<1> HIDE DEF w
<1>3. Tens[1] = 10 /\ \A k \in 2 .. 9 : Tens[k] = 10 * Tens[k - 1]
  <2>1. \A k \in 1 .. 9 : Tens[k] = IF k = 1 THEN 10 ELSE 10 * Tens[k - 1]
    BY <1>2
  <2> QED
    BY <2>1
<1>4. /\ Tens[2] = 10 * Tens[1] /\ Tens[3] = 10 * Tens[2] /\ Tens[4] = 10 * Tens[3]
      /\ Tens[5] = 10 * Tens[4] /\ Tens[6] = 10 * Tens[5] /\ Tens[7] = 10 * Tens[6]
      /\ Tens[8] = 10 * Tens[7] /\ Tens[9] = 10 * Tens[8]
  BY <1>3
<1> QED
  BY <1>3, <1>4

\* The digits that are counted are those that are printed.
LEMMA DigitsAre ==
    ASSUME NEW number \in Nat
    PROVE  DigitCount(number) = Digits(number) /\ Digits(number) \in Nat \ {0}
<1> DEFINE Above == {k \in 1 .. 9 : number < Tens[k]} \union {10}
           m == Min(Above)
           Under == {k \in 1 .. 9 : Tens[k] <= number}
<1>1. \A k \in 1 .. 9 : Tens[k] \in Nat /\ \A l \in k .. 9 : Tens[k] <= Tens[l]
  <2> SUFFICES ASSUME NEW k \in 1 .. 9
               PROVE  Tens[k] \in Nat /\ \A l \in k .. 9 : Tens[k] <= Tens[l]
    OBVIOUS
  <2>1. k \in {1, 2, 3, 4, 5, 6, 7, 8, 9}
    OBVIOUS
  <2>2. \A l \in k .. 9 : l \in {1, 2, 3, 4, 5, 6, 7, 8, 9}
    OBVIOUS
  <2>3. Tens[k] \in Nat
    BY <2>1, TensAre
  <2>4. ASSUME NEW l \in k .. 9
        PROVE  Tens[k] <= Tens[l]
    BY <2>1, <2>2, TensAre
  <2> QED
    BY <2>3, <2>4
<1>2. m \in Above /\ \A k \in Above : m <= k
  <2>1. Above \in SUBSET Nat /\ Above # {}
    OBVIOUS
  <2> HIDE DEF Above
  <2>2. \E k \in Above : \A l \in Above : k <= l
    BY <2>1, LeastNumber
  <2> QED
    BY <2>2 DEF Min
<1> HIDE DEF m
<1>3. m \in 1 .. 10
  BY <1>2
<1>4. Under = 1 .. m - 1
  <2>1. ASSUME NEW k \in 1 .. m - 1
        PROVE  k \in Under
    <3>1. k \in 1 .. 9 /\ k \notin Above
      <4>1. k \in 1 .. 9 /\ ~ (m <= k)
        BY <1>3
      <4> HIDE DEF Above
      <4> QED
        BY <1>2, <4>1
    <3>2. Tens[k] \in Nat
      BY <1>1, <3>1
    <3> QED
      BY <3>1, <3>2
  <2>2. ASSUME NEW k \in Under, k >= m
        PROVE  FALSE
    <3>1. m \in 1 .. 9 /\ number < Tens[m]
      BY <1>2, <1>3, <2>2
    <3>2. Tens[m] <= Tens[k] /\ Tens[m] \in Nat /\ Tens[k] \in Nat /\ Tens[k] <= number
      BY <1>1, <2>2, <3>1
    <3> QED
      BY <3>1, <3>2
  <2>3. \A k \in Under : k \in 1 .. 9
    OBVIOUS
  <2> HIDE DEF Under
  <2>4. \A k \in Under : k \in 1 .. m - 1
    BY <1>3, <2>2, <2>3
  <2> QED
    BY <2>1, <2>4
<1>5. Cardinality(Under) = m - 1
  <2> HIDE DEF Under
  <2>1. m - 1 \in Int /\ Cardinality(1 .. m - 1) = IF 1 > m - 1 THEN 0 ELSE (m - 1) - 1 + 1
    BY <1>3, FS_Interval
  <2> QED
    BY <1>3, <1>4, <2>1
<1>6. Digits(number) = 1 + (m - 1)
  BY <1>5 DEF Digits
<1>7. DigitCount(number) = m
  BY DEF DigitCount, m
<1> QED
  BY <1>3, <1>6, <1>7

LEMMA SizeTexts ==
    /\ \A bytes \in Nat : /\ FormatBytesLen(bytes) = SizeText(bytes)
                          /\ SizeText(bytes) \in Nat /\ SizeText(bytes) >= 7
    /\ SizeText(0) = 7
<1>1. \A bytes \in Nat : ShownSize(bytes) \in Nat
  <2> SUFFICES ASSUME NEW bytes \in Nat
               PROVE  ShownSize(bytes) \in Nat
    OBVIOUS
  <2>1. bytes \div 1024 \in Nat /\ bytes \div (1024 * 1024) \in Nat
    OBVIOUS
  <2> QED
    BY <2>1 DEF ShownSize
<1>2. \A bytes \in Nat : /\ FormatBytesLen(bytes) = SizeText(bytes)
                         /\ SizeText(bytes) \in Nat /\ SizeText(bytes) >= 7
  <2> SUFFICES ASSUME NEW bytes \in Nat
               PROVE  /\ FormatBytesLen(bytes) = SizeText(bytes)
                      /\ SizeText(bytes) \in Nat /\ SizeText(bytes) >= 7
    OBVIOUS
  <2>1. DigitCount(ShownSize(bytes)) = Digits(ShownSize(bytes))
        /\ Digits(ShownSize(bytes)) \in Nat \ {0}
    BY <1>1, DigitsAre
  <2> QED
    BY <2>1 DEF FormatBytesLen, SizeText
<1>3. SizeText(0) = 7
  <2>1. ShownSize(0) = 0
    BY DEF ShownSize
  <2>2. {k \in 1 .. 9 : Tens[k] <= 0} = {}
    <3>1. \A k \in 1 .. 9 : k \in {1, 2, 3, 4, 5, 6, 7, 8, 9}
      OBVIOUS
    <3> QED
      BY <3>1, TensAre
  <2>3. Digits(0) = 1 + 0
    BY <2>2, FS_EmptySet DEF Digits
  <2> QED
    BY <2>1, <2>3 DEF SizeText
<1> QED
  BY <1>2, <1>3

-----------------------------------------------------------------------------
(***************************************************************************)
(* The counts and the widths at every position.                            *)
(***************************************************************************)
FilesOf(f, pos) ==
    [k \in 1 .. Slots(pos) |->
        IF IsDirectory(Child(pos, k))
        THEN IF IsDotDir(Child(pos, k)) THEN 0 ELSE f[Append(pos, k)]
        ELSE IF IsEmpty(Child(pos, k)) THEN 0 ELSE 1]

FilesAt(f, pos) == Total(Slots(pos), FilesOf(f, pos))

LEMMA FileCountsAre ==
    ASSUME PlaceInv
    PROVE  /\ FileCounts \in [DOMAIN entry -> Nat]
           /\ \A pos \in DOMAIN entry : FileCounts[pos] = FilesAt(FileCounts, pos)
           /\ \A pos \in DOMAIN entry : \A k \in 1 .. Slots(pos) :
                  FilesOf(FileCounts, pos)[k] \in Nat
<1> DEFINE D == DOMAIN entry
           H == [x \in [D -> Nat] \X D |-> FilesAt(x[1], x[2])]
           P(f) == f = [pos \in D |-> FilesAt(f, pos)]
<1>1. /\ IsTree(entry)
      /\ \A pos \in D : /\ Slots(pos) \in Nat /\ Len(pos) \in Nat
                        /\ entry[pos].length \in Nat /\ entry[pos].size \in Nat
      /\ \A pos \in D : \A k \in 1 .. Slots(pos) :
            Append(pos, k) \in D /\ Child(pos, k) = entry[Append(pos, k)]
  <2>1. IsTree(entry)
    BY WalkFacts
  <2>2. \A pos \in D : entry[pos] \in Entry /\ pos \in Positions
    BY <2>1, TreeFacts
  <2>3. \A pos \in D : entry[pos].slots \in Nat /\ entry[pos].length \in Nat
                       /\ entry[pos].size \in Nat
    BY <2>2 DEF Entry
  <2> QED
    BY <2>1, <2>2, <2>3, TreeFacts, PositionFacts DEF Slots, Child
<1>2. \A f : \A pos \in D : (\A k \in 1 .. Slots(pos) : f[Append(pos, k)] \in Nat)
        => FilesAt(f, pos) \in Nat /\ \A k \in 1 .. Slots(pos) : FilesOf(f, pos)[k] \in Nat
  <2> SUFFICES ASSUME NEW f, NEW pos \in D,
                      \A k \in 1 .. Slots(pos) : f[Append(pos, k)] \in Nat
               PROVE  FilesAt(f, pos) \in Nat /\ \A k \in 1 .. Slots(pos) : FilesOf(f, pos)[k] \in Nat
    OBVIOUS
  <2>1. \A k \in 1 .. Slots(pos) : FilesOf(f, pos)[k] \in Nat
    BY <1>1 DEF FilesOf
  <2>2. FilesAt(f, pos) \in Nat
    BY <1>1, <2>1, TotalIsNumber DEF FilesAt
  <2> QED
    BY <2>1, <2>2
<1>3. \A f, g, pos : (\A k \in 1 .. Slots(pos) : f[Append(pos, k)] = g[Append(pos, k)])
        => FilesAt(f, pos) = FilesAt(g, pos)
  <2> SUFFICES ASSUME NEW f, NEW g, NEW pos,
                      \A k \in 1 .. Slots(pos) : f[Append(pos, k)] = g[Append(pos, k)]
               PROVE  FilesAt(f, pos) = FilesAt(g, pos)
    OBVIOUS
  <2>1. FilesOf(f, pos) = FilesOf(g, pos)
    BY DEF FilesOf
  <2> QED
    BY <2>1 DEF FilesAt
<1>4. PICK f \in [D -> Nat] : P(f)
  <2>1. H \in [[D -> Nat] \X D -> Nat]
    <3>1. \A f \in [D -> Nat], pos \in D : FilesAt(f, pos) \in Nat
      BY <1>1, <1>2
    <3> QED
      BY <3>1
  <2>2. \A f, g \in [D -> Nat], p \in D :
            (\A k \in 1 .. entry[p].slots : f[Append(p, k)] = g[Append(p, k)])
                => H[<<f, p>>] = H[<<g, p>>]
    BY <1>3 DEF Slots
  <2>3. \A f \in [D -> Nat], p \in D : H[<<f, p>>] = FilesAt(f, p)
    OBVIOUS
  <2> HIDE DEF H
  <2>4. ComputesUp(entry, H)
    BY <2>1, <2>2 DEF ComputesUp
  <2>5. PICK f \in [D -> Nat] : \A p \in D : f[p] = H[<<f, p>>]
    <3>1. IsComputed(entry, H)
      BY <1>1, <2>4, TreeRecursion
    <3> QED
      BY <3>1 DEF IsComputed
  <2>6. P(f)
    BY <2>3, <2>5
  <2> QED
    BY <2>6
<1>5. P(FileCounts)
  <2>1. FileCounts = CHOOSE f1 : P(f1)
    BY Zenon DEF FileCounts, FilesAt, FilesOf
  <2> HIDE DEF P
  <2> QED
    BY <1>4, <2>1
<1> DEFINE S == {pos \in D : FileCounts[pos] \in Nat}
<1>6. \A pos \in D : FileCounts[pos] = FilesAt(FileCounts, pos)
  <2> DEFINE g == FileCounts
  <2>1. P(g)
    BY <1>5
  <2> HIDE DEF g
  <2>2. \A pos \in D : g[pos] = FilesAt(g, pos)
    BY <2>1
  <2> QED
    BY <2>2 DEF g
<1>7. \A pos \in D : (\A k \in 1 .. entry[pos].slots : Append(pos, k) \in S) => pos \in S
  BY <1>2, <1>6 DEF Slots
<1> HIDE DEF S
<1>8. \A pos \in DOMAIN entry : pos \in S
  BY <1>1, <1>7, TreeInduction
<1>9. \A pos \in D : FileCounts[pos] \in Nat
  BY <1>8 DEF S
<1>10. FileCounts \in [D -> Nat]
  <2> DEFINE g == FileCounts
  <2>1. P(g) /\ \A pos \in D : g[pos] \in Nat
    BY <1>5, <1>9
  <2> HIDE DEF g
  <2>2. g \in [D -> Nat]
    BY <2>1
  <2> QED
    BY <2>2 DEF g
<1> QED
  BY <1>1, <1>2, <1>6, <1>9, <1>10

DirectoriesOf(f, pos) ==
    [k \in 1 .. Slots(pos) |->
        IF IsDirectory(Child(pos, k)) /\ ~IsDotDir(Child(pos, k))
        THEN 1 + f[Append(pos, k)]
        ELSE 0]

DirectoriesAt(f, pos) == Total(Slots(pos), DirectoriesOf(f, pos))

LEMMA DirectoryCountsAre ==
    ASSUME PlaceInv
    PROVE  /\ DirectoryCounts \in [DOMAIN entry -> Nat]
           /\ \A pos \in DOMAIN entry : DirectoryCounts[pos] = DirectoriesAt(DirectoryCounts, pos)
           /\ \A pos \in DOMAIN entry : \A k \in 1 .. Slots(pos) :
                  DirectoriesOf(DirectoryCounts, pos)[k] \in Nat
<1> DEFINE D == DOMAIN entry
           H == [x \in [D -> Nat] \X D |-> DirectoriesAt(x[1], x[2])]
           P(f) == f = [pos \in D |-> DirectoriesAt(f, pos)]
<1>1. /\ IsTree(entry)
      /\ \A pos \in D : /\ Slots(pos) \in Nat /\ Len(pos) \in Nat
                        /\ entry[pos].length \in Nat /\ entry[pos].size \in Nat
      /\ \A pos \in D : \A k \in 1 .. Slots(pos) :
            Append(pos, k) \in D /\ Child(pos, k) = entry[Append(pos, k)]
  <2>1. IsTree(entry)
    BY WalkFacts
  <2>2. \A pos \in D : entry[pos] \in Entry /\ pos \in Positions
    BY <2>1, TreeFacts
  <2>3. \A pos \in D : entry[pos].slots \in Nat /\ entry[pos].length \in Nat
                       /\ entry[pos].size \in Nat
    BY <2>2 DEF Entry
  <2> QED
    BY <2>1, <2>2, <2>3, TreeFacts, PositionFacts DEF Slots, Child
<1>2. \A f : \A pos \in D : (\A k \in 1 .. Slots(pos) : f[Append(pos, k)] \in Nat)
        => DirectoriesAt(f, pos) \in Nat /\ \A k \in 1 .. Slots(pos) : DirectoriesOf(f, pos)[k] \in Nat
  <2> SUFFICES ASSUME NEW f, NEW pos \in D,
                      \A k \in 1 .. Slots(pos) : f[Append(pos, k)] \in Nat
               PROVE  DirectoriesAt(f, pos) \in Nat /\ \A k \in 1 .. Slots(pos) : DirectoriesOf(f, pos)[k] \in Nat
    OBVIOUS
  <2>1. \A k \in 1 .. Slots(pos) : DirectoriesOf(f, pos)[k] \in Nat
    BY <1>1 DEF DirectoriesOf
  <2>2. DirectoriesAt(f, pos) \in Nat
    BY <1>1, <2>1, TotalIsNumber DEF DirectoriesAt
  <2> QED
    BY <2>1, <2>2
<1>3. \A f, g, pos : (\A k \in 1 .. Slots(pos) : f[Append(pos, k)] = g[Append(pos, k)])
        => DirectoriesAt(f, pos) = DirectoriesAt(g, pos)
  <2> SUFFICES ASSUME NEW f, NEW g, NEW pos,
                      \A k \in 1 .. Slots(pos) : f[Append(pos, k)] = g[Append(pos, k)]
               PROVE  DirectoriesAt(f, pos) = DirectoriesAt(g, pos)
    OBVIOUS
  <2>1. DirectoriesOf(f, pos) = DirectoriesOf(g, pos)
    BY DEF DirectoriesOf
  <2> QED
    BY <2>1 DEF DirectoriesAt
<1>4. PICK f \in [D -> Nat] : P(f)
  <2>1. H \in [[D -> Nat] \X D -> Nat]
    <3>1. \A f \in [D -> Nat], pos \in D : DirectoriesAt(f, pos) \in Nat
      BY <1>1, <1>2
    <3> QED
      BY <3>1
  <2>2. \A f, g \in [D -> Nat], p \in D :
            (\A k \in 1 .. entry[p].slots : f[Append(p, k)] = g[Append(p, k)])
                => H[<<f, p>>] = H[<<g, p>>]
    BY <1>3 DEF Slots
  <2>3. \A f \in [D -> Nat], p \in D : H[<<f, p>>] = DirectoriesAt(f, p)
    OBVIOUS
  <2> HIDE DEF H
  <2>4. ComputesUp(entry, H)
    BY <2>1, <2>2 DEF ComputesUp
  <2>5. PICK f \in [D -> Nat] : \A p \in D : f[p] = H[<<f, p>>]
    <3>1. IsComputed(entry, H)
      BY <1>1, <2>4, TreeRecursion
    <3> QED
      BY <3>1 DEF IsComputed
  <2>6. P(f)
    BY <2>3, <2>5
  <2> QED
    BY <2>6
<1>5. P(DirectoryCounts)
  <2>1. DirectoryCounts = CHOOSE f1 : P(f1)
    BY Zenon DEF DirectoryCounts, DirectoriesAt, DirectoriesOf
  <2> HIDE DEF P
  <2> QED
    BY <1>4, <2>1
<1> DEFINE S == {pos \in D : DirectoryCounts[pos] \in Nat}
<1>6. \A pos \in D : DirectoryCounts[pos] = DirectoriesAt(DirectoryCounts, pos)
  <2> DEFINE g == DirectoryCounts
  <2>1. P(g)
    BY <1>5
  <2> HIDE DEF g
  <2>2. \A pos \in D : g[pos] = DirectoriesAt(g, pos)
    BY <2>1
  <2> QED
    BY <2>2 DEF g
<1>7. \A pos \in D : (\A k \in 1 .. entry[pos].slots : Append(pos, k) \in S) => pos \in S
  BY <1>2, <1>6 DEF Slots
<1> HIDE DEF S
<1>8. \A pos \in DOMAIN entry : pos \in S
  BY <1>1, <1>7, TreeInduction
<1>9. \A pos \in D : DirectoryCounts[pos] \in Nat
  BY <1>8 DEF S
<1>10. DirectoryCounts \in [D -> Nat]
  <2> DEFINE g == DirectoryCounts
  <2>1. P(g) /\ \A pos \in D : g[pos] \in Nat
    BY <1>5, <1>9
  <2> HIDE DEF g
  <2>2. g \in [D -> Nat]
    BY <2>1
  <2> QED
    BY <2>2 DEF g
<1> QED
  BY <1>1, <1>2, <1>6, <1>9, <1>10

WidthsOf(f, pos) ==
    [k \in 1 .. Slots(pos) |->
        IF IsEmpty(Child(pos, k)) THEN 0
        ELSE IF /\ IsDirectory(Child(pos, k)) /\ ~IsDotDir(Child(pos, k))
                /\ cmd.recursive
                /\ Slots(Append(pos, k)) > 0
             THEN Larger(4 + 2 * Len(pos) + Child(pos, k).length, f[Append(pos, k)])
        ELSE 4 + 2 * Len(pos) + Child(pos, k).length]

WidthAt(f, pos) ==
    IF ~IsDirectory(entry[pos]) THEN 4 + 2 * Len(pos) + entry[pos].length
    ELSE Largest(Slots(pos), WidthsOf(f, pos))

LEMMA WidthsAre ==
    ASSUME PlaceInv
    PROVE  /\ Widths \in [DOMAIN entry -> Nat]
           /\ \A pos \in DOMAIN entry : Widths[pos] = WidthAt(Widths, pos)
           /\ \A pos \in DOMAIN entry : \A k \in 1 .. Slots(pos) :
                  WidthsOf(Widths, pos)[k] \in Nat
<1> DEFINE D == DOMAIN entry
           H == [x \in [D -> Nat] \X D |-> WidthAt(x[1], x[2])]
           P(f) == f = [pos \in D |-> WidthAt(f, pos)]
<1>1. /\ IsTree(entry)
      /\ \A pos \in D : /\ Slots(pos) \in Nat /\ Len(pos) \in Nat
                        /\ entry[pos].length \in Nat /\ entry[pos].size \in Nat
      /\ \A pos \in D : \A k \in 1 .. Slots(pos) :
            Append(pos, k) \in D /\ Child(pos, k) = entry[Append(pos, k)]
  <2>1. IsTree(entry)
    BY WalkFacts
  <2>2. \A pos \in D : entry[pos] \in Entry /\ pos \in Positions
    BY <2>1, TreeFacts
  <2>3. \A pos \in D : entry[pos].slots \in Nat /\ entry[pos].length \in Nat
                       /\ entry[pos].size \in Nat
    BY <2>2 DEF Entry
  <2> QED
    BY <2>1, <2>2, <2>3, TreeFacts, PositionFacts DEF Slots, Child
<1>2. \A f : \A pos \in D : (\A k \in 1 .. Slots(pos) : f[Append(pos, k)] \in Nat)
        => WidthAt(f, pos) \in Nat /\ \A k \in 1 .. Slots(pos) : WidthsOf(f, pos)[k] \in Nat
  <2> SUFFICES ASSUME NEW f, NEW pos \in D,
                      \A k \in 1 .. Slots(pos) : f[Append(pos, k)] \in Nat
               PROVE  WidthAt(f, pos) \in Nat /\ \A k \in 1 .. Slots(pos) : WidthsOf(f, pos)[k] \in Nat
    OBVIOUS
  <2>1. \A k \in 1 .. Slots(pos) : WidthsOf(f, pos)[k] \in Nat
    BY <1>1 DEF WidthsOf, Larger
  <2>2. WidthAt(f, pos) \in Nat
    BY <1>1, <2>1, LargestBounds DEF WidthAt
  <2> QED
    BY <2>1, <2>2
<1>3. \A f, g, pos : (\A k \in 1 .. Slots(pos) : f[Append(pos, k)] = g[Append(pos, k)])
        => WidthAt(f, pos) = WidthAt(g, pos)
  <2> SUFFICES ASSUME NEW f, NEW g, NEW pos,
                      \A k \in 1 .. Slots(pos) : f[Append(pos, k)] = g[Append(pos, k)]
               PROVE  WidthAt(f, pos) = WidthAt(g, pos)
    OBVIOUS
  <2>1. WidthsOf(f, pos) = WidthsOf(g, pos)
    BY DEF WidthsOf
  <2> QED
    BY <2>1 DEF WidthAt
<1>4. PICK f \in [D -> Nat] : P(f)
  <2>1. H \in [[D -> Nat] \X D -> Nat]
    <3>1. \A f \in [D -> Nat], pos \in D : WidthAt(f, pos) \in Nat
      BY <1>1, <1>2
    <3> QED
      BY <3>1
  <2>2. \A f, g \in [D -> Nat], p \in D :
            (\A k \in 1 .. entry[p].slots : f[Append(p, k)] = g[Append(p, k)])
                => H[<<f, p>>] = H[<<g, p>>]
    BY <1>3 DEF Slots
  <2>3. \A f \in [D -> Nat], p \in D : H[<<f, p>>] = WidthAt(f, p)
    OBVIOUS
  <2> HIDE DEF H
  <2>4. ComputesUp(entry, H)
    BY <2>1, <2>2 DEF ComputesUp
  <2>5. PICK f \in [D -> Nat] : \A p \in D : f[p] = H[<<f, p>>]
    <3>1. IsComputed(entry, H)
      BY <1>1, <2>4, TreeRecursion
    <3> QED
      BY <3>1 DEF IsComputed
  <2>6. P(f)
    BY <2>3, <2>5
  <2> QED
    BY <2>6
<1>5. P(Widths)
  <2>1. Widths = CHOOSE f1 : P(f1)
    BY Zenon DEF Widths, WidthAt, WidthsOf
  <2> HIDE DEF P
  <2> QED
    BY <1>4, <2>1
<1> DEFINE S == {pos \in D : Widths[pos] \in Nat}
<1>6. \A pos \in D : Widths[pos] = WidthAt(Widths, pos)
  <2> DEFINE g == Widths
  <2>1. P(g)
    BY <1>5
  <2> HIDE DEF g
  <2>2. \A pos \in D : g[pos] = WidthAt(g, pos)
    BY <2>1
  <2> QED
    BY <2>2 DEF g
<1>7. \A pos \in D : (\A k \in 1 .. entry[pos].slots : Append(pos, k) \in S) => pos \in S
  BY <1>2, <1>6 DEF Slots
<1> HIDE DEF S
<1>8. \A pos \in DOMAIN entry : pos \in S
  BY <1>1, <1>7, TreeInduction
<1>9. \A pos \in D : Widths[pos] \in Nat
  BY <1>8 DEF S
<1>10. Widths \in [D -> Nat]
  <2> DEFINE g == Widths
  <2>1. P(g) /\ \A pos \in D : g[pos] \in Nat
    BY <1>5, <1>9
  <2> HIDE DEF g
  <2>2. g \in [D -> Nat]
    BY <2>1
  <2> QED
    BY <2>2 DEF g
<1> QED
  BY <1>1, <1>2, <1>6, <1>9, <1>10

SizeLensOf(f, pos) ==
    [k \in 1 .. Slots(pos) |->
        IF IsEmpty(Child(pos, k)) \/ IsDotDir(Child(pos, k)) THEN 0
        ELSE IF IsDirectory(Child(pos, k)) /\ cmd.recursive
             THEN f[Append(pos, k)]
        ELSE FormatBytesLen(Child(pos, k).size)]

SizeLenAt(f, pos) ==
    IF ~IsDirectory(entry[pos]) THEN FormatBytesLen(entry[pos].size)
    ELSE Largest(Slots(pos), SizeLensOf(f, pos))

LEMMA SizeLensAre ==
    ASSUME PlaceInv
    PROVE  /\ SizeLens \in [DOMAIN entry -> Nat]
           /\ \A pos \in DOMAIN entry : SizeLens[pos] = SizeLenAt(SizeLens, pos)
           /\ \A pos \in DOMAIN entry : \A k \in 1 .. Slots(pos) :
                  SizeLensOf(SizeLens, pos)[k] \in Nat
<1> DEFINE D == DOMAIN entry
           H == [x \in [D -> Nat] \X D |-> SizeLenAt(x[1], x[2])]
           P(f) == f = [pos \in D |-> SizeLenAt(f, pos)]
<1>1. /\ IsTree(entry)
      /\ \A pos \in D : /\ Slots(pos) \in Nat /\ Len(pos) \in Nat
                        /\ entry[pos].length \in Nat /\ entry[pos].size \in Nat
      /\ \A pos \in D : \A k \in 1 .. Slots(pos) :
            Append(pos, k) \in D /\ Child(pos, k) = entry[Append(pos, k)]
  <2>1. IsTree(entry)
    BY WalkFacts
  <2>2. \A pos \in D : entry[pos] \in Entry /\ pos \in Positions
    BY <2>1, TreeFacts
  <2>3. \A pos \in D : entry[pos].slots \in Nat /\ entry[pos].length \in Nat
                       /\ entry[pos].size \in Nat
    BY <2>2 DEF Entry
  <2> QED
    BY <2>1, <2>2, <2>3, TreeFacts, PositionFacts DEF Slots, Child
<1>2. \A f : \A pos \in D : (\A k \in 1 .. Slots(pos) : f[Append(pos, k)] \in Nat)
        => SizeLenAt(f, pos) \in Nat /\ \A k \in 1 .. Slots(pos) : SizeLensOf(f, pos)[k] \in Nat
  <2> SUFFICES ASSUME NEW f, NEW pos \in D,
                      \A k \in 1 .. Slots(pos) : f[Append(pos, k)] \in Nat
               PROVE  SizeLenAt(f, pos) \in Nat /\ \A k \in 1 .. Slots(pos) : SizeLensOf(f, pos)[k] \in Nat
    OBVIOUS
  <2>1. \A k \in 1 .. Slots(pos) : SizeLensOf(f, pos)[k] \in Nat
    BY <1>1, SizeTexts DEF SizeLensOf
  <2>2. SizeLenAt(f, pos) \in Nat
    BY <1>1, <2>1, LargestBounds, SizeTexts DEF SizeLenAt
  <2> QED
    BY <2>1, <2>2
<1>3. \A f, g, pos : (\A k \in 1 .. Slots(pos) : f[Append(pos, k)] = g[Append(pos, k)])
        => SizeLenAt(f, pos) = SizeLenAt(g, pos)
  <2> SUFFICES ASSUME NEW f, NEW g, NEW pos,
                      \A k \in 1 .. Slots(pos) : f[Append(pos, k)] = g[Append(pos, k)]
               PROVE  SizeLenAt(f, pos) = SizeLenAt(g, pos)
    OBVIOUS
  <2>1. SizeLensOf(f, pos) = SizeLensOf(g, pos)
    BY DEF SizeLensOf
  <2> QED
    BY <2>1 DEF SizeLenAt
<1>4. PICK f \in [D -> Nat] : P(f)
  <2>1. H \in [[D -> Nat] \X D -> Nat]
    <3>1. \A f \in [D -> Nat], pos \in D : SizeLenAt(f, pos) \in Nat
      BY <1>1, <1>2
    <3> QED
      BY <3>1
  <2>2. \A f, g \in [D -> Nat], p \in D :
            (\A k \in 1 .. entry[p].slots : f[Append(p, k)] = g[Append(p, k)])
                => H[<<f, p>>] = H[<<g, p>>]
    BY <1>3 DEF Slots
  <2>3. \A f \in [D -> Nat], p \in D : H[<<f, p>>] = SizeLenAt(f, p)
    OBVIOUS
  <2> HIDE DEF H
  <2>4. ComputesUp(entry, H)
    BY <2>1, <2>2 DEF ComputesUp
  <2>5. PICK f \in [D -> Nat] : \A p \in D : f[p] = H[<<f, p>>]
    <3>1. IsComputed(entry, H)
      BY <1>1, <2>4, TreeRecursion
    <3> QED
      BY <3>1 DEF IsComputed
  <2>6. P(f)
    BY <2>3, <2>5
  <2> QED
    BY <2>6
<1>5. P(SizeLens)
  <2>1. SizeLens = CHOOSE f1 : P(f1)
    BY Zenon DEF SizeLens, SizeLenAt, SizeLensOf
  <2> HIDE DEF P
  <2> QED
    BY <1>4, <2>1
<1> DEFINE S == {pos \in D : SizeLens[pos] \in Nat}
<1>6. \A pos \in D : SizeLens[pos] = SizeLenAt(SizeLens, pos)
  <2> DEFINE g == SizeLens
  <2>1. P(g)
    BY <1>5
  <2> HIDE DEF g
  <2>2. \A pos \in D : g[pos] = SizeLenAt(g, pos)
    BY <2>1
  <2> QED
    BY <2>2 DEF g
<1>7. \A pos \in D : (\A k \in 1 .. entry[pos].slots : Append(pos, k) \in S) => pos \in S
  BY <1>2, <1>6 DEF Slots
<1> HIDE DEF S
<1>8. \A pos \in DOMAIN entry : pos \in S
  BY <1>1, <1>7, TreeInduction
<1>9. \A pos \in D : SizeLens[pos] \in Nat
  BY <1>8 DEF S
<1>10. SizeLens \in [D -> Nat]
  <2> DEFINE g == SizeLens
  <2>1. P(g) /\ \A pos \in D : g[pos] \in Nat
    BY <1>5, <1>9
  <2> HIDE DEF g
  <2>2. g \in [D -> Nat]
    BY <2>1
  <2> QED
    BY <2>2 DEF g
<1> QED
  BY <1>1, <1>2, <1>6, <1>9, <1>10

-----------------------------------------------------------------------------
(***************************************************************************)
(* The counts of f12 info.                                                 *)
(***************************************************************************)
\* A list in the order of a walk has nothing twice.
LEMMA ListedOnce ==
    ASSUME NEW S, S \subseteq Positions, IsFiniteSet(S), NEW s, Listing(s, S),
           NEW K, K \subseteq Range(s)
    PROVE  Cardinality({k \in 1 .. Len(s) : s[k] \in K}) = Cardinality(K)
<1>1. /\ s \in Seq(S) /\ Len(s) \in Nat /\ DOMAIN s = 1 .. Len(s)
      /\ \A k \in 1 .. Len(s) : s[k] \in S /\ s[k] \in Positions
      /\ \A k \in 1 .. Len(s) - 1 : Earlier(s[k], s[k + 1])
  BY DEF Listing
<1>2. ASSUME NEW k \in 1 .. Len(s), NEW l \in 1 .. Len(s), k < l
      PROVE  Earlier(s[k], s[l])
  <2> DEFINE T == {m \in 0 .. Len(s) : k < m => Earlier(s[k], s[m])}
  <2>1. 0 \in T
    BY <1>1
  <2>2. ASSUME NEW m \in 0 .. (Len(s) - 1), m \in T
        PROVE  m + 1 \in T
    <3>1. m + 1 \in 0 .. Len(s) /\ m \in Nat
      BY <1>1
    <3>2. CASE k < m
      <4>1. m \in 1 .. Len(s) - 1 /\ m \in 1 .. Len(s) /\ m + 1 \in 1 .. Len(s)
        BY <1>1, <3>2
      <4>2. Earlier(s[k], s[m]) /\ Earlier(s[m], s[m + 1])
        BY <1>1, <2>2, <3>2, <4>1
      <4>3. s[k] \in Positions /\ s[m] \in Positions /\ s[m + 1] \in Positions
        BY <1>1, <4>1
      <4>4. Earlier(s[k], s[m + 1])
        BY <4>2, <4>3, EarlierIsOrder
      <4> QED
        BY <3>1, <4>4
    <3>3. CASE k = m
      <4>1. m \in 1 .. Len(s) - 1
        BY <1>1, <3>3
      <4>2. Earlier(s[k], s[m + 1])
        BY <1>1, <3>3, <4>1
      <4> QED
        BY <3>1, <4>2
    <3>4. CASE k > m
      BY <3>1, <3>4
    <3> QED
      BY <3>1, <3>2, <3>3, <3>4
  <2> HIDE DEF T
  <2>3. \A m \in 0 .. Len(s) : m \in T
    BY <1>1, <2>1, <2>2, UpToNumber
  <2>4. l \in T
    BY <1>1, <2>3
  <2> QED
    BY <1>2, <2>4 DEF T
<1> DEFINE A == {k \in 1 .. Len(s) : s[k] \in K}
           F == [k \in A |-> s[k]]
<1>3. F \in [A -> K]
  OBVIOUS
<1>4. \A k, l \in A : F[k] = F[l] => k = l
  <2> SUFFICES ASSUME NEW k \in A, NEW l \in A, s[k] = s[l], k # l
               PROVE  FALSE
    OBVIOUS
  <2>1. ~ Earlier(s[k], s[k])
    BY <1>1, EarlierIsOrder
  <2>2. k < l \/ l < k
    BY <1>1
  <2> QED
    BY <1>2, <2>1, <2>2
<1>5. \A p \in K : \E k \in A : F[k] = p
  <2> SUFFICES ASSUME NEW p \in K
               PROVE  \E k \in A : F[k] = p
    OBVIOUS
  <2>1. PICK k \in 1 .. Len(s) : s[k] = p
    BY <1>1 DEF Range
  <2> QED
    BY <2>1
<1>6. IsFiniteSet(A)
  <2>1. IsFiniteSet(1 .. Len(s)) /\ A \in SUBSET (1 .. Len(s))
    BY <1>1, FS_Interval
  <2> HIDE DEF A
  <2> QED
    BY <2>1, FS_Subset
<1> HIDE DEF A, F
<1>7. F \in Bijection(A, K)
  BY <1>3, <1>4, <1>5, Fun_IsBij
<1>8. ExistsBijection(A, K)
  BY <1>7, Fun_ExistsBij
<1>9. Cardinality(K) = Cardinality(A)
  BY <1>6, <1>8, FS_Bijection
<1> QED
  BY <1>9 DEF A

Files == {p \in DOMAIN entry \ {<<>>} : entry[p].kind \in {"file", "lfn"}}

Directories == {p \in DOMAIN entry \ {<<>>} : entry[p].kind = "directory"}

LEMMA NothingCounted ==
    ASSUME NEW of
    PROVE  Total(0, of) = 0
<1>1. \A k \in 1 .. 0 : of[k] \in Nat
  OBVIOUS
<1> QED
  BY <1>1, TotalSteps

LEMMA RootCounts ==
    ASSUME PlaceInv
    PROVE  /\ FileCounts[<<>>] = Cardinality(Files)
           /\ DirectoryCounts[<<>>] = Cardinality(Directories)
<1> DEFINE D == DOMAIN entry
<1>1. /\ IsTree(entry) /\ <<>> \in D
      /\ \A p \in D : Slots(p) = entry[p].slots /\ p \in Positions /\ Len(p) \in Nat
      /\ \A p \in D : entry[p].kind # "directory" => Slots(p) = 0
  <2>1. IsTree(entry)
    BY WalkFacts
  <2> QED
    BY <2>1, TreeFacts, Leaves, PositionFacts DEF Slots
<1>2. \A p \in D : \A k \in 1 .. entry[p].slots :
        /\ Append(p, k) \in D /\ Append(p, k) # <<>> /\ Child(p, k) = entry[Append(p, k)]
        /\ entry[Append(p, k)].kind \in {"empty", "file", "lfn", "directory", "dot"}
  BY ChildFacts
<1>3. /\ \A p \in D : FileCounts[p] \in Nat
      /\ \A p \in D : FileCounts[p] = Total(entry[p].slots, FilesOf(FileCounts, p))
      /\ \A p \in D : DirectoryCounts[p] \in Nat
      /\ \A p \in D :
            DirectoryCounts[p] = Total(entry[p].slots, DirectoriesOf(DirectoryCounts, p))
  BY <1>1, FileCountsAre, DirectoryCountsAre DEF FilesAt, DirectoriesAt
<1>4. \A p \in D : entry[p].kind # "directory" => FileCounts[p] = 0 /\ DirectoryCounts[p] = 0
  BY <1>1, <1>3, NothingCounted
<1>5. \A K \in SUBSET (D \ {<<>>}) : Counted(K, <<>>) = K
  BY <1>1, EmptyPosition DEF Counted, Leads
<1>6. FileCounts[<<>>] = Cardinality(Files)
  <2> DEFINE f == FileCounts
             of == [p \in D |-> FilesOf(f, p)]
  <2>1. \A p \in D : \A k \in 1 .. entry[p].slots :
            of[p][k] = (IF Append(p, k) \in Files THEN 1 ELSE 0) + f[Append(p, k)]
    <3> SUFFICES ASSUME NEW p \in D, NEW k \in 1 .. entry[p].slots
                 PROVE  of[p][k] = (IF Append(p, k) \in Files THEN 1 ELSE 0) + f[Append(p, k)]
      OBVIOUS
    <3> DEFINE c == Append(p, k)
    <3>1. /\ c \in D /\ c # <<>> /\ Child(p, k) = entry[c]
          /\ entry[c].kind \in {"empty", "file", "lfn", "directory", "dot"}
          /\ f[c] \in Nat /\ (entry[c].kind # "directory" => f[c] = 0)
      BY <1>2, <1>3, <1>4
    <3>2. of[p][k] = IF IsDirectory(entry[c])
                     THEN IF IsDotDir(entry[c]) THEN 0 ELSE f[c]
                     ELSE IF IsEmpty(entry[c]) THEN 0 ELSE 1
      BY <1>1, <3>1 DEF FilesOf
    <3>3. c \in Files <=> entry[c].kind \in {"file", "lfn"}
      BY <3>1 DEF Files
    <3> HIDE DEF c, f, of
    <3>4. of[p][k] = (IF c \in Files THEN 1 ELSE 0) + f[c]
      BY <3>1, <3>2, <3>3 DEF IsDirectory, IsDotDir, IsEmpty
    <3> QED
      BY <3>4 DEF c
  <2>2. \A p \in D : f[p] \in Nat /\ f[p] = Total(entry[p].slots, of[p])
    BY <1>3
  <2>3. Files \subseteq D /\ Files \in SUBSET (D \ {<<>>})
    BY DEF Files
  <2> HIDE DEF f, of
  <2>4. \A p \in D : f[p] = Cardinality(Counted(Files, p))
    <3>1. CountsUp(entry, Files, f, of)
      BY <2>1, <2>2 DEF CountsUp
    <3>2. IsTree(entry) /\ Files \subseteq DOMAIN entry
      BY <1>1, <2>3
    <3> QED
      BY <3>1, <3>2, CountIsCardinality
  <2>5. Counted(Files, <<>>) = Files
    BY <1>5, <2>3
  <2> QED
    BY <1>1, <2>4, <2>5 DEF f
<1>7. DirectoryCounts[<<>>] = Cardinality(Directories)
  <2> DEFINE f == DirectoryCounts
             of == [p \in D |-> DirectoriesOf(f, p)]
  <2>1. \A p \in D : \A k \in 1 .. entry[p].slots :
            of[p][k] = (IF Append(p, k) \in Directories THEN 1 ELSE 0) + f[Append(p, k)]
    <3> SUFFICES ASSUME NEW p \in D, NEW k \in 1 .. entry[p].slots
                 PROVE  of[p][k]
                            = (IF Append(p, k) \in Directories THEN 1 ELSE 0) + f[Append(p, k)]
      OBVIOUS
    <3> DEFINE c == Append(p, k)
    <3>1. /\ c \in D /\ c # <<>> /\ Child(p, k) = entry[c]
          /\ f[c] \in Nat /\ (entry[c].kind # "directory" => f[c] = 0)
      BY <1>2, <1>3, <1>4
    <3>2. of[p][k] = IF IsDirectory(entry[c]) /\ ~IsDotDir(entry[c]) THEN 1 + f[c] ELSE 0
      BY <1>1, <3>1 DEF DirectoriesOf
    <3>3. c \in Directories <=> entry[c].kind = "directory"
      BY <3>1 DEF Directories
    <3> HIDE DEF c, f, of
    <3>4. of[p][k] = (IF c \in Directories THEN 1 ELSE 0) + f[c]
      BY <3>1, <3>2, <3>3 DEF IsDirectory, IsDotDir
    <3> QED
      BY <3>4 DEF c
  <2>2. \A p \in D : f[p] \in Nat /\ f[p] = Total(entry[p].slots, of[p])
    BY <1>3
  <2>3. Directories \subseteq D /\ Directories \in SUBSET (D \ {<<>>})
    BY DEF Directories
  <2> HIDE DEF f, of
  <2>4. \A p \in D : f[p] = Cardinality(Counted(Directories, p))
    <3>1. CountsUp(entry, Directories, f, of)
      BY <2>1, <2>2 DEF CountsUp
    <3>2. IsTree(entry) /\ Directories \subseteq DOMAIN entry
      BY <1>1, <2>3
    <3> QED
      BY <3>1, <3>2, CountIsCardinality
  <2>5. Counted(Directories, <<>>) = Directories
    BY <1>5, <2>3
  <2> QED
    BY <1>1, <2>4, <2>5 DEF f
<1> QED
  BY <1>6, <1>7

\* For every tree, lf12_get_file_count and lf12_get_directory_count of f12 info
\* agree with what f12 get creates and with what f12 list --recursive shows, but
\* for long file names, which are files to the first two.
THEOREM CountsAreTheSame == Spec => []CountsAgree
<1>1. WalkInv => CountsAgree
  <2> SUFFICES ASSUME WalkInv, pc = "done", IsDirectory(entry[<<>>])
               PROVE  CountsAgree
    BY DEF CountsAgree
  <2>1. /\ PlaceInv /\ IsTree(entry) /\ Wanted \subseteq Positions
        /\ Wanted \subseteq DOMAIN entry
        /\ IsFiniteSet(DOMAIN entry) /\ <<>> \in DOMAIN entry
        /\ entry[<<>>].kind = "directory"
    <3>1. PlaceInv /\ IsTree(entry) /\ IsImageTree(entry) /\ Wanted \subseteq Positions
          /\ Wanted \subseteq DOMAIN entry
      BY WalkFacts DEF WalkInv
    <3> QED
      BY <3>1, TreeFacts DEF IsImageTree, IsDirectory
  <2>2. Listing(made, Wanted) /\ Range(made) = Wanted
    BY DEF WalkInv, ListedInv, MovesFile
  <2>3. \A T \in SUBSET DOMAIN entry : IsFiniteSet(T) /\ Cardinality(T) \in Nat
    BY <2>1, FS_Subset, FS_CardinalityType
  <2> DEFINE lines(kinds) == Cardinality({k \in 1 .. Len(made) : entry[made[k]].kind \in kinds})
             shown(kinds) == {p \in Wanted : entry[p].kind \in kinds}
             long == {p \in Below : entry[p].kind = "lfn"}
  <2>4. \A kinds : lines(kinds) = Cardinality(shown(kinds))
    <3> SUFFICES ASSUME NEW kinds
                 PROVE  lines(kinds) = Cardinality(shown(kinds))
      OBVIOUS
    <3>1. made \in Seq(Wanted) /\ \A k \in 1 .. Len(made) : made[k] \in Wanted
      BY <2>2 DEF Listing
    <3>2. {k \in 1 .. Len(made) : entry[made[k]].kind \in kinds}
              = {k \in 1 .. Len(made) : made[k] \in shown(kinds)}
      BY <3>1
    <3>3. shown(kinds) \subseteq Range(made) /\ IsFiniteSet(Wanted)
      BY <2>1, <2>2, <2>3
    <3> HIDE DEF shown
    <3>4. Cardinality({k \in 1 .. Len(made) : made[k] \in shown(kinds)})
              = Cardinality(shown(kinds))
      BY <2>1, <2>2, <3>3, ListedOnce
    <3> QED
      BY <3>2, <3>4
  <2>5. FileCounts[<<>>] = Cardinality(Files)
        /\ DirectoryCounts[<<>>] = Cardinality(Directories)
    BY <2>1, RootCounts
  <2>6. Files \subseteq DOMAIN entry /\ Directories \subseteq DOMAIN entry
        /\ <<>> \notin Directories /\ long \subseteq DOMAIN entry
    BY DEF Files, Directories, Below
  <2>7. ASSUME cmd.op = "get"
        PROVE  /\ lines({"file", "lfn"}) = FileCounts[<<>>]
               /\ lines({"directory"}) = DirectoryCounts[<<>>] + 1
    <3>1. Wanted = {<<>>} \union Below
      BY <2>7 DEF Wanted
    <3>2. shown({"file", "lfn"}) = Files
      BY <2>1, <3>1 DEF Files, Below, IsEmpty, IsDotDir
    <3>3. shown({"directory"}) = Directories \union {<<>>}
      BY <2>1, <3>1 DEF Directories, Below, IsEmpty, IsDotDir
    <3>4. Cardinality(Directories \union {<<>>}) = Cardinality(Directories) + 1
      BY <2>3, <2>6, FS_AddElement
    <3> HIDE DEF lines, shown
    <3> QED
      BY <2>4, <2>5, <3>2, <3>3, <3>4
  <2>8. ASSUME cmd.op = "list", cmd.recursive
        PROVE  /\ lines({"file"}) + Cardinality(long) = FileCounts[<<>>]
               /\ lines({"directory"}) = DirectoryCounts[<<>>]
    <3>1. Wanted = Lines
      BY <2>8 DEF Wanted
    <3>2. /\ Files = shown({"file"}) \union long
          /\ shown({"file"}) \intersect long = {}
      BY <2>1, <2>8, <3>1 DEF Files, Lines, Below, ListSkips, IsEmpty, IsDotDir
    <3>3. shown({"directory"}) = Directories
      BY <2>1, <2>8, <3>1 DEF Directories, Lines, ListSkips, IsEmpty
    <3>4. shown({"file"}) \in SUBSET DOMAIN entry /\ long \in SUBSET DOMAIN entry
      BY <2>1, <2>6
    <3> HIDE DEF lines, shown, long
    <3> DEFINE R == shown({"file"})
    <3>5. /\ IsFiniteSet(R) /\ IsFiniteSet(long)
          /\ Cardinality(R) \in Nat /\ Cardinality(long) \in Nat
      BY <2>3, <3>4
    <3>6. R \intersect long = {} /\ Files = R \union long /\ lines({"file"}) = Cardinality(R)
      BY <2>4, <3>2
    <3> HIDE DEF R
    <3>7. Cardinality(R \union long)
              = Cardinality(R) + Cardinality(long) - Cardinality(R \intersect long)
      BY <3>5, FS_Union
    <3>8. Cardinality(R \intersect long) = 0
      BY <3>6, FS_EmptySet
    <3>9. Cardinality(R \union long) = Cardinality(R) + Cardinality(long)
      BY <3>5, <3>7, <3>8
    <3> QED
      BY <2>4, <2>5, <3>3, <3>6, <3>9
  <2> QED
    BY <2>7, <2>8 DEF CountsAgree
<1> QED
  BY <1>1, WalksInductive, PTL

-----------------------------------------------------------------------------
(***************************************************************************)
(* The widths of f12 list.                                                 *)
(***************************************************************************)
LEMMA OneBelow ==
    ASSUME PlaceInv, NEW h \in DOMAIN entry, NEW k \in 1 .. entry[h].slots,
           ~IsEmpty(entry[Append(h, k)])
    PROVE  /\ 4 + 2 * Len(h) + entry[Append(h, k)].length <= Widths[h]
           /\ ~IsDirectory(entry[Append(h, k)]) =>
                 SizeText(entry[Append(h, k)].size) <= SizeLens[h]
           /\ /\ cmd.recursive /\ entry[Append(h, k)].kind = "directory"
              /\ entry[Append(h, k)].slots > 0
              => /\ Widths[Append(h, k)] <= Widths[h]
                 /\ SizeLens[Append(h, k)] <= SizeLens[h]
<1> DEFINE a == Append(h, k)
           n == entry[h].slots
<1>1. /\ a \in DOMAIN entry /\ Child(h, k) = entry[a] /\ n \in Nat /\ h \in Positions
      /\ Slots(h) = n /\ Slots(a) = entry[a].slots /\ k \in 1 .. Slots(h)
  BY ChildFacts DEF Slots
<1>2. IsTree(entry) /\ entry[a] \in Entry /\ Len(h) \in Nat /\ entry[h].kind = "directory"
  BY <1>1, WalkFacts, TreeFacts, PositionFacts
<1>3. IsDirectory(entry[h]) /\ entry[a].length \in Nat /\ entry[a].size \in Nat
  BY <1>2 DEF Entry, IsDirectory
<1>4. /\ Widths[h] = Largest(n, WidthsOf(Widths, h))
      /\ \A l \in 1 .. n : WidthsOf(Widths, h)[l] \in Nat
      /\ SizeLens[h] = Largest(n, SizeLensOf(SizeLens, h))
      /\ \A l \in 1 .. n : SizeLensOf(SizeLens, h)[l] \in Nat
      /\ Widths[a] \in Nat /\ SizeLens[a] \in Nat
  BY <1>1, <1>3, WidthsAre, SizeLensAre DEF WidthAt, SizeLenAt
<1>5. /\ WidthsOf(Widths, h)[k] <= Widths[h] /\ SizeLensOf(SizeLens, h)[k] <= SizeLens[h]
      /\ Widths[h] \in Nat /\ SizeLens[h] \in Nat
      /\ WidthsOf(Widths, h)[k] \in Nat /\ SizeLensOf(SizeLens, h)[k] \in Nat
  BY <1>1, <1>4, LargestBounds
<1> HIDE DEF a, n
<1>6. /\ ~IsEmpty(entry[a])
      /\ WidthsOf(Widths, h)[k]
            = IF /\ IsDirectory(entry[a]) /\ ~IsDotDir(entry[a])
                 /\ cmd.recursive
                 /\ Slots(a) > 0
              THEN Larger(4 + 2 * Len(h) + entry[a].length, Widths[a])
              ELSE 4 + 2 * Len(h) + entry[a].length
  BY <1>1 DEF WidthsOf, a
<1>7. SizeLensOf(SizeLens, h)[k]
            = IF IsDotDir(entry[a]) THEN 0
              ELSE IF IsDirectory(entry[a]) /\ cmd.recursive THEN SizeLens[a]
              ELSE FormatBytesLen(entry[a].size)
  BY <1>1, <1>6 DEF SizeLensOf, a
<1>8. 4 + 2 * Len(h) + entry[a].length <= Widths[h]
  BY <1>2, <1>3, <1>4, <1>5, <1>6 DEF Larger
<1>9. ~IsDirectory(entry[a]) => SizeText(entry[a].size) <= SizeLens[h]
  BY <1>3, <1>5, <1>7, SizeTexts DEF IsDirectory, IsDotDir
<1>10. ASSUME cmd.recursive, entry[a].kind = "directory", entry[a].slots > 0
       PROVE  Widths[a] <= Widths[h] /\ SizeLens[a] <= SizeLens[h]
  <2>1. IsDirectory(entry[a]) /\ ~IsDotDir(entry[a]) /\ Slots(a) > 0
    BY <1>1, <1>10 DEF IsDirectory, IsDotDir
  <2>2. SizeLensOf(SizeLens, h)[k] = SizeLens[a]
    BY <1>7, <1>10, <2>1
  <2>3. WidthsOf(Widths, h)[k] = Larger(4 + 2 * Len(h) + entry[a].length, Widths[a])
    BY <1>6, <1>10, <2>1
  <2> QED
    BY <1>2, <1>3, <1>4, <1>5, <2>2, <2>3 DEF Larger
<1> QED
  BY <1>8, <1>9, <1>10 DEF a

\* The widths of the whole tree are enough for every entry that is listed.
LEMMA AllBelow ==
    ASSUME PlaceInv, NEW p \in DOMAIN entry, p # <<>>, ~IsEmpty(entry[p]),
           cmd.recursive \/ Len(p) = 1
    PROVE  /\ 4 + 2 * (Len(p) - 1) + entry[p].length <= NameWidth
           /\ ~IsDirectory(entry[p]) => SizeText(entry[p].size) <= SizeLen
<1>1. /\ IsTree(entry) /\ p \in Positions /\ Len(p) \in Nat /\ Len(p) # 0
      /\ DOMAIN entry \subseteq Positions /\ <<>> \in DOMAIN entry
      /\ \A h \in DOMAIN entry : Len(h) \in Nat /\ Widths[h] \in Nat /\ SizeLens[h] \in Nat
                                 /\ entry[h].slots \in Nat
  <2>1. IsTree(entry)
    BY WalkFacts
  <2> QED
    BY <2>1, TreeFacts, PositionFacts, WidthsAre, SizeLensAre
<1> DEFINE Fits(h) == Widths[h] <= NameWidth /\ SizeLens[h] <= SizeLen
           S == {n \in 0 .. Len(p) - 1 :
                    \A h \in DOMAIN entry : Leads(h, p) /\ Len(h) = n => Fits(h)}
<1>2. 0 \in S
  <2>1. \A h \in DOMAIN entry : Len(h) = 0 => h = <<>>
    BY <1>1, PositionFacts
  <2>2. Fits(<<>>)
    BY <1>1 DEF NameWidth, SizeLen
  <2> HIDE DEF Fits
  <2> QED
    BY <1>1, <2>1, <2>2
<1>3. ASSUME NEW n \in 0 .. ((Len(p) - 1) - 1), n \in S
      PROVE  n + 1 \in S
  <2>1. n + 1 \in 0 .. Len(p) - 1 /\ cmd.recursive
    <3> DEFINE m == Len(p)
    <3>3. m \in Nat /\ n \in 0 .. ((m - 1) - 1)
      BY <1>1
    <3> HIDE DEF m
    <3>4. n + 1 \in 0 .. m - 1 /\ m # 1
      BY <3>3
    <3>1. n + 1 \in 0 .. Len(p) - 1 /\ Len(p) # 1
      BY <3>4 DEF m
    <3>2. cmd.recursive
      BY Zenon, <3>1
    <3> QED
      BY <3>1, <3>2
  <2>2. ASSUME NEW h \in DOMAIN entry, Leads(h, p), Len(h) = n + 1
        PROVE  Fits(h)
    <3> DEFINE g == Front(h)
               k == Last(h)
               m == p[Len(h) + 1]
    <3>1. h \in Positions /\ h # <<>> /\ Len(h) < Len(p)
      BY <1>1, <2>1, <2>2, PositionFacts
    <3>2. /\ g \in DOMAIN entry /\ k \in 1 .. entry[g].slots /\ h = Append(g, k)
          /\ Len(g) = n /\ \A l \in 1 .. n : g[l] = h[l]
      <4>1. g \in DOMAIN entry /\ k \in 1 .. entry[g].slots
        BY <1>1, <3>1, TreeFacts
      <4>2. /\ h = Append(g, k) /\ Len(g) = Len(h) - 1
            /\ \A l \in 1 .. Len(h) - 1 : g[l] = h[l]
        BY <3>1, FrontFacts
      <4>3. Len(h) - 1 = n
        BY <2>2
      <4> QED
        BY <4>1, <4>2, <4>3
    <3>3. Leads(g, p)
      BY <1>1, <2>2, <3>2 DEF Leads
    <3>4. m \in Slot
      BY <1>1, <3>1, PositionFacts
    <3> HIDE DEF g, k
    <3>5. entry[h].kind = "directory" /\ entry[h].slots > 0
      <4> HIDE DEF m
      <4>1. Leads(Append(h, m), p)
        BY <1>1, <2>2, <3>1, <3>4, LeadsFacts DEF m
      <4>2. m \in 1 .. entry[h].slots /\ entry[h].kind = "directory"
        BY <1>1, <3>1, <3>4, <4>1, TreeAbove
      <4> QED
        BY <1>1, <4>2
    <3>6. Fits(g)
      BY <1>3, <3>2, <3>3
    <3>7. Widths[h] <= Widths[g] /\ SizeLens[h] <= SizeLens[g]
      <4>1. ~IsEmpty(entry[h])
        BY <3>5 DEF IsEmpty
      <4> QED
        BY <2>1, <3>2, <3>5, <4>1, OneBelow
    <3>8. NameWidth \in Nat /\ SizeLen \in Nat
      BY <1>1 DEF NameWidth, SizeLen
    <3> QED
      BY <1>1, <3>2, <3>6, <3>7, <3>8
  <2> HIDE DEF Fits
  <2> QED
    BY <2>1, <2>2
<1> HIDE DEF S
<1>4. \A n \in 0 .. (Len(p) - 1) : n \in S
  <2> DEFINE N == Len(p) - 1
  <2>1. N \in Nat /\ \A n \in 0 .. (N - 1) : n \in S => n + 1 \in S
    BY <1>1, <1>3
  <2> HIDE DEF N
  <2>2. \A n \in 0 .. N : n \in S
    BY <1>2, <2>1, UpToNumber
  <2> QED
    BY <2>2 DEF N
<1>5. Len(p) - 1 \in S
  BY <1>1, <1>4
<1> DEFINE h == Front(p)
           k == Last(p)
<1>6. /\ h \in DOMAIN entry /\ k \in 1 .. entry[h].slots /\ p = Append(h, k)
      /\ Len(h) = Len(p) - 1 /\ \A l \in 1 .. Len(p) - 1 : h[l] = p[l]
  BY <1>1, TreeFacts, FrontFacts
<1>7. Leads(h, p)
  BY <1>1, <1>6 DEF Leads
<1> HIDE DEF h, k
<1>8. Fits(h)
  BY <1>5, <1>6, <1>7 DEF S
<1>9. /\ 4 + 2 * Len(h) + entry[p].length <= Widths[h]
      /\ ~IsDirectory(entry[p]) => SizeText(entry[p].size) <= SizeLens[h]
  BY <1>6, OneBelow
<1>10. entry[p].length \in Nat /\ entry[p].size \in Nat
  <2>1. entry[p] \in Entry
    BY <1>1, TreeFacts
  <2> QED
    BY <2>1 DEF Entry
<1>11. NameWidth \in Nat /\ SizeLen \in Nat /\ SizeText(entry[p].size) \in Nat
  BY <1>1, <1>10, SizeTexts DEF NameWidth, SizeLen
<1> QED
  BY <1>1, <1>6, <1>8, <1>9, <1>10, <1>11

\* For every tree, and whatever the lengths of names and sizes, the widths that
\* _f12_list_width and _f12_list_size_len measure before the listing are enough
\* for every line of it: all lines are of one length.
THEOREM ListColumnsAlign == Spec => []ColumnsAligned
<1>1. WalkInv => ColumnsAligned
  <2> SUFFICES ASSUME WalkInv, cmd.op = "list", pc = "done",
                      NEW p \in Range(made), NEW q \in Range(made)
               PROVE  LineLength(p) = LineLength(q)
    BY DEF ColumnsAligned
  <2>1. /\ PlaceInv /\ IsTree(entry) /\ IsImageTree(entry)
        /\ p \in Lines /\ q \in Lines /\ cmd.recursive \in BOOLEAN
    <3>1. PlaceInv /\ Range(made) = Wanted /\ Wanted = Lines
      BY DEF WalkInv, ListedInv, MovesFile, Wanted
    <3> QED
      BY <3>1, WalkFacts
  <2>2. CASE ~IsDirectory(entry[<<>>])
    BY <2>1, <2>2 DEF Lines
  <2>3. CASE IsDirectory(entry[<<>>])
    <3>1. NameWidth \in Nat /\ SizeLen \in Nat
      <4>1. <<>> \in DOMAIN entry
        BY <2>1, TreeFacts
      <4> QED
        BY <2>1, <4>1, WidthsAre, SizeLensAre DEF NameWidth, SizeLen
    <3>2. ASSUME NEW r \in Lines
          PROVE  /\ LineLength(r) = NameWidth + Larger(SizeLen + 1, SizeText(entry[r].size))
                 /\ \/ SizeText(entry[r].size) = 7
                    \/ SizeText(entry[r].size) <= SizeLen
                 /\ SizeText(entry[r].size) \in Nat /\ SizeText(entry[r].size) >= 7
      <4>1. /\ r \in DOMAIN entry /\ r # <<>> /\ ~ListSkips(entry[r])
            /\ cmd.recursive \/ Len(r) = 1
        BY <2>3 DEF Lines
      <4>2. entry[r] \in Entry /\ r \in Positions /\ Len(r) \in Nat
        BY <2>1, <4>1, TreeFacts, PositionFacts
      <4>3. entry[r].length \in Nat /\ entry[r].size \in Nat
        BY <4>2 DEF Entry
      <4>4. /\ 4 + 2 * (Len(r) - 1) + entry[r].length <= NameWidth
            /\ ~IsDirectory(entry[r]) => SizeText(entry[r].size) <= SizeLen
        BY <2>1, <4>1, AllBelow DEF ListSkips
      <4>5. IsDirectory(entry[r]) => SizeText(entry[r].size) = 7
        BY <2>1, <4>1, SizeTexts DEF IsImageTree
      <4>6. SizeText(entry[r].size) \in Nat /\ SizeText(entry[r].size) >= 7
        BY <4>3, SizeTexts
      <4> DEFINE depth == 2 * (Len(r) - 1)
                 text == Larger(SizeLen + 1, SizeText(entry[r].size))
      <4>7. LineLength(r) = depth + 4 + Larger(NameWidth - 4 - depth, entry[r].length) + text
        BY <4>1 DEF LineLength
      <4>8. Larger(NameWidth - 4 - depth, entry[r].length) = NameWidth - 4 - depth
        BY <3>1, <4>2, <4>3, <4>4 DEF Larger
      <4>9. text \in Nat /\ depth \in Int
        BY <3>1, <4>2, <4>6 DEF Larger
      <4> HIDE DEF text, depth
      <4>10. LineLength(r) = NameWidth + text
        BY <3>1, <4>7, <4>8, <4>9
      <4> QED
        BY <4>4, <4>5, <4>6, <4>10 DEF text
    <3>3. Larger(SizeLen + 1, SizeText(entry[p].size))
              = Larger(SizeLen + 1, SizeText(entry[q].size))
      BY <2>1, <3>1, <3>2 DEF Larger
    <3> QED
      BY <2>1, <3>2, <3>3
  <2> QED
    BY <2>2, <2>3
<1> QED
  BY <1>1, WalksInductive, PTL
=============================================================================
