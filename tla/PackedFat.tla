----------------------------- MODULE PackedFat ------------------------------
(***************************************************************************)
(* The file allocation table on its way to the disk and back (libfat12/    *)
(* io.c): create_fat packs the entries, 12 bits each, into a buffer of     *)
(* SectorsPerFat * SectorSize bytes, a 16-bit word at a time; the words    *)
(* overlap, and a word of an odd entry completes the byte it shares with   *)
(* the entry before.  read_fat_entries unpacks a buffer of the same size.  *)
(*                                                                         *)
(* Two assumptions stand for what the code relies on and does not check:   *)
(* the entries have 12 bits, and the buffer has room for all of them (the  *)
(* module Geometry shows when a new image breaks the second).              *)
(***************************************************************************)
EXTENDS Fat

CONSTANTS FatSize,  \* the bytes of the buffer
          Entries   \* the values an entry of the table may have

ASSUME EntriesAssumption == \A e \in Entries : e \in Nat /\ e < 4096
ASSUME FatSizeAssumption ==
    FatSize \in Nat /\ (3 * (ClusterCount - 1)) \div 2 + 2 <= FatSize

VARIABLES
    entries,     \* f12_meta->fat_entries of the writing command
    packed,      \* the packed buffer, on the disk between the two loops
    loaded,      \* f12_meta->fat_entries of the next command
    loop, index  \* the loop that runs and its counter

packVars == <<entries, packed, loaded, loop, index>>

Indices == 0 .. ClusterCount - 1
Offsets == 0 .. FatSize - 1

(***************************************************************************)
(* Words of 16 bits in the buffer, the low byte first.                     *)
(***************************************************************************)
Bytes == {n \in Nat : n < 256}
Words == {n \in Nat : n < 65536}
TwelveBits == {n \in Nat : n < 4096}

Low(word) == word % 256
High(word) == word \div 256
Word(low, high) == low + 256 * high

StoreWord(bytes, k, word) ==
    [bytes EXCEPT ![k] = Low(word), ![k + 1] = High(word)]

LoadWord(bytes, k) == Word(bytes[k], bytes[k + 1])

(***************************************************************************)
(* Entry n has the word at n * 3 / 2: an even entry in its low 12 bits, an *)
(* odd one in its high 12 bits, above the high nibble of the entry before. *)
(***************************************************************************)
Offset(n) == (n * 3) \div 2

Odd(n) == n % 2 = 1

\* (entry << 4) | (before >> 8) in 16 bits.  The operands of the disjunction
\* have no bit in common, so that it is a sum.
Joined(entry, before) == ((entry * 16) % 65536) + (before \div 256)

\* (Variant with a fault: the odd word forgets the entry before.)
PackedWordAlone(table, n) == IF Odd(n) THEN Joined(table[n], 0) ELSE table[n]

PackedWord(table, n) ==
    IF Odd(n) THEN Joined(table[n], table[n - 1]) ELSE table[n]

UpperTwelve(word) == word \div 16
LowerTwelve(word) == word % 4096

\* (Variant with a fault: the neighbour's nibble is kept.)
ReadFatEntryUnmasked(bytes, n) ==
    IF Odd(n) THEN UpperTwelve(LoadWord(bytes, Offset(n)))
    ELSE LoadWord(bytes, Offset(n))

\* _lf12_read_fat_entry
ReadFatEntry(bytes, n) ==
    IF Odd(n) THEN UpperTwelve(LoadWord(bytes, Offset(n)))
    ELSE LowerTwelve(LoadWord(bytes, Offset(n)))

PackInit ==
    /\ entries \in [Indices -> Entries]
    /\ packed = [k \in Offsets |-> 0]
    /\ loaded = [n \in Indices |-> 0]
    /\ loop = "pack"
    /\ index = 0

\* An iteration of the loop of create_fat.
PackEntry ==
    /\ loop = "pack" /\ index < ClusterCount
    /\ packed' = StoreWord(packed, Offset(index), PackedWord(entries, index))
    /\ index' = index + 1
    /\ UNCHANGED <<entries, loaded, loop>>

\* The buffer is written and read back.
StartReading ==
    /\ loop = "pack" /\ index = ClusterCount
    /\ loop' = "unpack"
    /\ index' = 0
    /\ UNCHANGED <<entries, packed, loaded>>

\* An iteration of the loop of read_fat_entries.
UnpackEntry ==
    /\ loop = "unpack" /\ index < ClusterCount
    /\ loaded' = [loaded EXCEPT ![index] = ReadFatEntry(packed, index)]
    /\ index' = index + 1
    /\ UNCHANGED <<entries, packed, loop>>

PackNext == PackEntry \/ StartReading \/ UnpackEntry

PackSpec == PackInit /\ [][PackNext]_packVars

-----------------------------------------------------------------------------
\* The buffer holds bytes and the counters stay in the tables.
TypeOK ==
    /\ entries \in [Indices -> Entries]
    /\ packed \in [Offsets -> Bytes]
    /\ loaded \in [Indices -> TwelveBits]
    /\ loop \in {"pack", "unpack"}
    /\ index \in 0 .. ClusterCount

\* No iteration of create_fat destroys an entry packed before it, although
\* its word overwrites a byte of the entry before.
PackedSoFar ==
    \A n \in Indices :
        loop = "unpack" \/ n < index => ReadFatEntry(packed, n) = entries[n]

\* A command loads the table the command before it saved (write_fats,
\* read_fat_entries).
LoadedIsSaved ==
    loop = "unpack" /\ index = ClusterCount => loaded = entries
=============================================================================
