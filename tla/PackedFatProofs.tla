-------------------------- MODULE PackedFatProofs ---------------------------
(***************************************************************************)
(* Proof that a table survives packing and unpacking, for every number of  *)
(* clusters and every table of 12-bit entries.                             *)
(***************************************************************************)
EXTENDS PackedFat, TLAPS

(***************************************************************************)
(* Arithmetic on words and bytes.                                          *)
(***************************************************************************)
LEMMA LowIsByte == ASSUME NEW w \in Words PROVE Low(w) \in Bytes
BY DEF Words, Low, Bytes

LEMMA HighIsByte == ASSUME NEW w \in Words PROVE High(w) \in Bytes
BY DEF Words, High, Bytes

LEMMA WordOfBytes ==
    ASSUME NEW lo \in Bytes, NEW hi \in Bytes
    PROVE  Word(lo, hi) \in Words
BY DEF Bytes, Words, Word

LEMMA WordParts == ASSUME NEW w \in Words PROVE Word(Low(w), High(w)) = w
BY DEF Words, Low, High, Word

\* The word of an odd entry a behind an even entry b.
LEMMA JoinedIsWord ==
    ASSUME NEW a \in TwelveBits, NEW b \in TwelveBits
    PROVE  Joined(a, b) \in Words
BY DEF TwelveBits, Words, Joined

LEMMA JoinedUpper ==
    ASSUME NEW a \in TwelveBits, NEW b \in TwelveBits
    PROVE  UpperTwelve(Joined(a, b)) = a
BY DEF TwelveBits, Joined, UpperTwelve

\* The low byte of that word completes b, whose own low byte is in place.
LEMMA JoinedLower ==
    ASSUME NEW a \in TwelveBits, NEW b \in TwelveBits,
           NEW lo \in Bytes, NEW hi \in Bytes,
           LowerTwelve(Word(lo, hi)) = b
    PROVE  LowerTwelve(Word(lo, Low(Joined(a, b)))) = b
BY DEF TwelveBits, Bytes, LowerTwelve, Word, Low, Joined

LEMMA EvenLower ==
    ASSUME NEW b \in TwelveBits
    PROVE  b \in Words /\ LowerTwelve(b) = b
BY DEF TwelveBits, Words, LowerTwelve

LEMMA TwelveBitParts ==
    ASSUME NEW w \in Words
    PROVE  UpperTwelve(w) \in TwelveBits /\ LowerTwelve(w) \in TwelveBits
BY DEF TwelveBits, Words, UpperTwelve, LowerTwelve

(***************************************************************************)
(* The buffer.                                                             *)
(***************************************************************************)
\* The word of an entry lies inside the buffer.
LEMMA OffsetInside ==
    ASSUME NEW n \in Indices
    PROVE  Offset(n) \in Offsets /\ Offset(n) + 1 \in Offsets
BY ClusterCountAssumption, FatSizeAssumption DEF Indices, Offsets, Offset

\* The words of two entries overlap for an odd entry and the one before only.
LEMMA OffsetsApart ==
    ASSUME NEW m \in Indices, NEW n \in Indices, m < n, ~Odd(n) \/ m # n - 1
    PROVE  Offset(m) + 1 < Offset(n)
BY ClusterCountAssumption DEF Indices, Offset, Odd

LEMMA OffsetsShared ==
    ASSUME NEW n \in Indices, Odd(n)
    PROVE  n - 1 \in Indices /\ ~Odd(n - 1) /\ Offset(n - 1) + 1 = Offset(n)
BY ClusterCountAssumption DEF Indices, Offset, Odd

\* What StoreWord leaves at each offset.
LEMMA StoredBytes ==
    ASSUME NEW bytes \in [Offsets -> Bytes],
           NEW k \in Offsets, k + 1 \in Offsets,
           NEW word \in Words
    PROVE  /\ StoreWord(bytes, k, word) \in [Offsets -> Bytes]
           /\ StoreWord(bytes, k, word)[k] = Low(word)
           /\ StoreWord(bytes, k, word)[k + 1] = High(word)
           /\ \A j \in Offsets :
                j # k /\ j # k + 1 => StoreWord(bytes, k, word)[j] = bytes[j]
<1>1. Low(word) \in Bytes /\ High(word) \in Bytes
  BY LowIsByte, HighIsByte
<1>2. k # k + 1
  BY FatSizeAssumption DEF Offsets
<1>. QED  BY <1>1, <1>2 DEF StoreWord

\* Every entry read back has 12 bits.
LEMMA ReadRange ==
    ASSUME NEW bytes \in [Offsets -> Bytes], NEW n \in Indices
    PROVE  ReadFatEntry(bytes, n) \in TwelveBits
<1>1. LoadWord(bytes, Offset(n)) \in Words
  BY OffsetInside, WordOfBytes DEF LoadWord
<1>. QED  BY <1>1, TwelveBitParts DEF ReadFatEntry

\* The word of an entry has 16 bits.
LEMMA WordRange ==
    ASSUME NEW table \in [Indices -> TwelveBits], NEW n \in Indices
    PROVE  PackedWord(table, n) \in Words
<1>1. CASE Odd(n)
  BY <1>1, OffsetsShared, JoinedIsWord DEF PackedWord
<1>2. CASE ~Odd(n)
  BY <1>2, EvenLower DEF PackedWord
<1>. QED  BY <1>1, <1>2

\* Reading entry n depends on its two bytes only.
LEMMA ReadDepends ==
    ASSUME NEW f, NEW g, NEW n,
           f[Offset(n)] = g[Offset(n)], f[Offset(n) + 1] = g[Offset(n) + 1]
    PROVE  ReadFatEntry(f, n) = ReadFatEntry(g, n)
BY DEF ReadFatEntry, LoadWord

\* An entry is read back right after it was packed.
LEMMA PackedIsRead ==
    ASSUME NEW table \in [Indices -> TwelveBits], NEW n \in Indices,
           NEW bytes \in [Offsets -> Bytes]
    PROVE  ReadFatEntry(StoreWord(bytes, Offset(n), PackedWord(table, n)), n)
               = table[n]
<1>. DEFINE word == PackedWord(table, n)
<1>1. word \in Words
  BY WordRange
<1>2. LoadWord(StoreWord(bytes, Offset(n), word), Offset(n)) = word
  BY <1>1, OffsetInside, StoredBytes, WordParts DEF LoadWord
<1>3. CASE Odd(n)
  <2>1. word = Joined(table[n], table[n - 1]) /\ n - 1 \in Indices
    BY <1>3, OffsetsShared DEF PackedWord
  <2>2. UpperTwelve(word) = table[n]
    BY <2>1, JoinedUpper
  <2>. QED  BY <1>2, <1>3, <2>2 DEF ReadFatEntry
<1>4. CASE ~Odd(n)
  <2>1. LowerTwelve(word) = table[n]
    BY <1>4, EvenLower DEF PackedWord
  <2>. QED  BY <1>2, <1>4, <2>1 DEF ReadFatEntry
<1>. QED  BY <1>3, <1>4

\* Packing an entry leaves every entry before it as it was.
LEMMA PackingKeeps ==
    ASSUME NEW table \in [Indices -> TwelveBits], NEW n \in Indices,
           NEW bytes \in [Offsets -> Bytes],
           NEW m \in Indices, m < n, ReadFatEntry(bytes, m) = table[m]
    PROVE  ReadFatEntry(StoreWord(bytes, Offset(n), PackedWord(table, n)), m)
               = table[m]
<1>. DEFINE word == PackedWord(table, n)
            stored == StoreWord(bytes, Offset(n), word)
<1>1. word \in Words
  BY WordRange
<1>2. Offset(m) \in Offsets /\ Offset(m) + 1 \in Offsets /\ Offset(n) \in Offsets
      /\ Offset(n) + 1 \in Offsets
  BY OffsetInside
<1>3. Offset(m) \in Int /\ Offset(n) \in Int
  BY <1>2, FatSizeAssumption DEF Offsets
<1>4. CASE ~Odd(n) \/ m # n - 1
  <2>1. Offset(m) + 1 < Offset(n)
    BY <1>4, OffsetsApart
  <2>2. stored[Offset(m)] = bytes[Offset(m)]
        /\ stored[Offset(m) + 1] = bytes[Offset(m) + 1]
    <3>1. /\ Offset(m) # Offset(n) /\ Offset(m) # Offset(n) + 1
          /\ Offset(m) + 1 # Offset(n) /\ Offset(m) + 1 # Offset(n) + 1
      BY <1>3, <2>1
    <3>. QED  BY <1>1, <1>2, <3>1, StoredBytes
  <2>. QED  BY <2>2, ReadDepends
<1>5. CASE Odd(n) /\ m = n - 1
  <2>1. ~Odd(m) /\ Offset(m) + 1 = Offset(n)
    BY <1>5, OffsetsShared
  <2>2. Offset(m) # Offset(n) /\ Offset(m) # Offset(n) + 1
    BY <1>3, <2>1
  <2>3. stored[Offset(m)] = bytes[Offset(m)] /\ stored[Offset(m) + 1] = Low(word)
    BY <1>1, <1>2, <2>1, <2>2, StoredBytes
  <2>4. word = Joined(table[n], table[m])
    BY <1>5 DEF PackedWord
  <2>5. LowerTwelve(Word(bytes[Offset(m)], bytes[Offset(m) + 1])) = table[m]
    BY <2>1 DEF ReadFatEntry, LoadWord
  <2>6. LowerTwelve(Word(bytes[Offset(m)], Low(word))) = table[m]
    BY <1>2, <2>4, <2>5, JoinedLower
  <2>. QED  BY <2>1, <2>3, <2>6 DEF ReadFatEntry, LoadWord
<1>. QED  BY <1>4, <1>5

(***************************************************************************)
(* The inductive invariant: what was packed reads back, and what was       *)
(* unpacked is what was packed.                                            *)
(***************************************************************************)
UnpackedSoFar ==
    loop = "unpack" => \A n \in Indices : n < index => loaded[n] = entries[n]

IInv == TypeOK /\ PackedSoFar /\ UnpackedSoFar

LEMMA EntriesAreTwelveBits == [Indices -> Entries] \subseteq [Indices -> TwelveBits]
<1>1. Entries \subseteq TwelveBits
  BY EntriesAssumption DEF TwelveBits
<1>. QED  BY <1>1

LEMMA InitInvariant == PackInit => IInv
<1>. SUFFICES ASSUME PackInit
              PROVE  IInv
  OBVIOUS
<1>1. TypeOK
  <2>1. 0 \in Bytes /\ 0 \in TwelveBits /\ 0 \in 0 .. ClusterCount
    BY ClusterCountAssumption DEF Bytes, TwelveBits
  <2>. QED  BY <2>1 DEF PackInit, TypeOK
<1>2. \A n \in Indices : ~(n < index)
  BY ClusterCountAssumption DEF PackInit, Indices
<1>. QED  BY <1>1, <1>2 DEF PackInit, IInv, PackedSoFar, UnpackedSoFar

LEMMA NextInvariant == IInv /\ [PackNext]_packVars => IInv'
<1>. SUFFICES ASSUME IInv, [PackNext]_packVars
              PROVE  IInv'
  OBVIOUS
<1>. USE DEF IInv
<1>1. entries \in [Indices -> TwelveBits] /\ index \in Int /\ packed \in [Offsets -> Bytes]
  BY EntriesAreTwelveBits, ClusterCountAssumption DEF TypeOK
<1>2. CASE PackEntry
  <2>1. index \in Indices /\ index' \in 0 .. ClusterCount
    BY <1>2, ClusterCountAssumption DEF PackEntry, TypeOK, Indices
  <2>2. packed' \in [Offsets -> Bytes]
    BY <1>1, <1>2, <2>1, WordRange, OffsetInside, StoredBytes DEF PackEntry
  <2>3. TypeOK'
    BY <1>2, <2>1, <2>2 DEF PackEntry, TypeOK
  <2>4. PackedSoFar'
    <3>. SUFFICES ASSUME NEW n \in Indices, n < index + 1
                  PROVE  ReadFatEntry(packed', n) = entries[n]
      BY <1>2 DEF PackEntry, PackedSoFar
    <3>1. CASE n = index
      BY <1>1, <1>2, <3>1, PackedIsRead DEF PackEntry
    <3>2. CASE n < index
      <4>1. ReadFatEntry(packed, n) = entries[n]
        BY <1>2, <3>2 DEF PackEntry, PackedSoFar
      <4>. QED  BY <1>1, <1>2, <2>1, <3>2, <4>1, PackingKeeps DEF PackEntry
    <3>. QED  BY <1>1, <3>1, <3>2, ClusterCountAssumption DEF Indices
  <2>5. UnpackedSoFar'
    BY <1>2 DEF PackEntry, UnpackedSoFar
  <2>. QED  BY <2>3, <2>4, <2>5
<1>3. CASE StartReading
  <2>1. TypeOK'
    BY <1>3, ClusterCountAssumption DEF StartReading, TypeOK
  <2>2. PackedSoFar'
    <3>1. \A n \in Indices : n < index
      BY <1>3, ClusterCountAssumption DEF StartReading, Indices
    <3>. QED  BY <1>3, <3>1 DEF StartReading, PackedSoFar
  <2>3. UnpackedSoFar'
    <3>1. \A n \in Indices : ~(n < 0)
      BY ClusterCountAssumption DEF Indices
    <3>. QED  BY <1>3, <3>1 DEF StartReading, UnpackedSoFar
  <2>. QED  BY <2>1, <2>2, <2>3
<1>4. CASE UnpackEntry
  <2>1. index \in Indices /\ index' \in 0 .. ClusterCount
    BY <1>4, ClusterCountAssumption DEF UnpackEntry, TypeOK, Indices
  <2>2. TypeOK'
    BY <1>1, <1>4, <2>1, ReadRange DEF UnpackEntry, TypeOK
  <2>3. PackedSoFar'
    BY <1>4 DEF UnpackEntry, PackedSoFar
  <2>4. UnpackedSoFar'
    <3>. SUFFICES ASSUME NEW n \in Indices, n < index + 1
                  PROVE  loaded'[n] = entries[n]
      BY <1>4 DEF UnpackEntry, UnpackedSoFar
    <3>1. ReadFatEntry(packed, index) = entries[index]
      BY <1>4, <2>1 DEF UnpackEntry, PackedSoFar
    <3>2. n = index \/ n < index
      BY <1>1, ClusterCountAssumption DEF Indices
    <3>. QED  BY <1>4, <2>1, <3>1, <3>2 DEF UnpackEntry, UnpackedSoFar, TypeOK
  <2>. QED  BY <2>2, <2>3, <2>4
<1>5. CASE UNCHANGED packVars
  BY <1>5 DEF packVars, TypeOK, PackedSoFar, UnpackedSoFar
<1>. QED  BY <1>2, <1>3, <1>4, <1>5 DEF PackNext

LEMMA LoadedFromInvariant == IInv => LoadedIsSaved
<1>. SUFFICES ASSUME IInv, loop = "unpack", index = ClusterCount
              PROVE  loaded = entries
  BY DEF LoadedIsSaved
<1>1. \A n \in Indices : n < index
  BY ClusterCountAssumption DEF Indices
<1>2. \A n \in Indices : loaded[n] = entries[n]
  BY <1>1 DEF IInv, UnpackedSoFar
<1>. QED  BY <1>2 DEF IInv, TypeOK

\* No iteration of create_fat destroys an entry packed before it.
THEOREM PackingKeepsEntries == PackSpec => []PackedSoFar
<1>1. IInv => PackedSoFar
  BY DEF IInv
<1>. QED  BY InitInvariant, NextInvariant, <1>1, PTL DEF PackSpec

\* The next command loads the table that a command saved, for every number
\* of clusters and every table of 12-bit entries.
THEOREM TableSurvivesPacking == PackSpec => []LoadedIsSaved
BY InitInvariant, NextInvariant, LoadedFromInvariant, PTL DEF PackSpec
=============================================================================
