---------------------------- MODULE ImageContent ----------------------------
(***************************************************************************)
(* Chains and what their clusters hold: the properties that are proved in  *)
(* ImageProofs for every value of the constants, and the invariant they    *)
(* follow from.  They speak of every entry on the disk, reachable from the *)
(* root directory or left over in a cluster that is not.                   *)
(***************************************************************************)
EXTENDS ImageSafety

EntriesOnDisk ==
    {root[i] : i \in DOMAIN root}
        \union {data[c].slots[i] : c \in Clusters, i \in 1 .. SlotsPerCluster}

\* The table a command would load from the disk.
LoadedFat == [c \in Clusters |-> IF c \in Stored THEN fats[1][c] ELSE 0]

OnDiskChain(h) == HasChain(LoadedFat, h)

\* Two different chains that entries on the disk start never share a cluster.
ClustersFrom(h) ==
    {c \in Stored : \E n \in 1 .. Cardinality(Clusters) :
                        c = Walk(LoadedFat, h, n)[n]}

ChainsDisjoint ==
    \A g, h \in HeadsOnDisk \intersect Stored :
        g # h => ClustersFrom(g) \intersect ClustersFrom(h) = {}

\* A directory entry on the disk never leads to clusters that hold the bytes
\* of a file: a directory is written before the entry that names it.
DirectoriesHoldEntries ==
    \A e \in EntriesOnDisk :
        IsSubdir(e) /\ OnDiskChain(e.first)
            => HoldsDirectory(Chain(LoadedFat, e.first))

\* The clusters of a file hold that file, all of it and in order, but for those
\* of the blocks.
HoldsFile(e, others) ==
    OnDiskChain(e.first) =>
        LET s == Chain(LoadedFat, e.first)
        IN  /\ Len(s) = e.size
            /\ \A k \in 1 .. Len(s) : data[s[k]] \in {FileBlock(e.size, k)} \union others

\* The clusters of every file hold that file, at every moment: content is
\* written before the entry, and clusters in use are never written again.
ContentIntact == \A e \in EntriesOnDisk : ~e.dir => HoldsFile(e, {})

\* With deletions, which zero a file before its entry: never the bytes of
\* another file or of a directory.
ContentIntactOrErased == \A e \in EntriesOnDisk : ~e.dir => HoldsFile(e, {ZeroBlock})
-----------------------------------------------------------------------------
(***************************************************************************)
(* The invariant.  A command that has read the disk goes by the table in   *)
(* its memory, everybody else by the first copy.                           *)
(***************************************************************************)
Working == Running /\ pc # "format"

Table == IF Working THEN fat ELSE fats[1]

Entries ==
    EntriesOnDisk \union UNION {{tabs[p][i] : i \in DOMAIN tabs[p]} : p \in DOMAIN tabs}

\* What a cluster of a file may hold instead: zeros, if files are deleted at all.
Erased == IF \E c \in Commands : c.op = "del" THEN {ZeroBlock} ELSE {}

\* In a table t with the contents d of the clusters, the part of a chain that the
\* disk keeps holds a file.
FileAt(t, d, first, size) ==
    LET E == Extent(t, first)
    IN  /\ (\E c \in E : t[c] = EndOfChain) => Cardinality(E) = size
        /\ \A c \in E : d[c] \in {FileBlock(size, PlaceIn(E, c))} \union Erased

\* It holds no bytes of a file.
NoFileAt(t, d, first) == \A c \in Extent(t, first) : d[c].kind # "file"

\* Entries S with different first clusters have no cluster in common.
Apart(t, S) ==
    \A e, f \in S : e.first # f.first => Extent(t, e.first) \intersect Extent(t, f.first) = {}

\* A directory and a file never have the same first cluster.
OneKindEach(S) ==
    \A e, f \in S : e.first = f.first /\ e.first \in Stored => e.dir = f.dir

FilesAt(t, d, S) == \A e \in S : ~e.dir => FileAt(t, d, e.first, e.size)

DirectoriesAt(t, d, S) == \A e \in S : IsSubdir(e) => NoFileAt(t, d, e.first)

UnsavedLinks == \A c \in Unsaved : fat[c] \notin Stored

ExtentsApart == Apart(Table, Entries)

OneKind == OneKindEach(Entries)

FilesHeld == FilesAt(Table, data, Entries)

\* No entry leads yet to the chain made for a file.
NewChain ==
    pc = "path" =>
        /\ FileAt(fat, data, head, cmd.files[job].size)
        /\ \A e \in Entries : Extent(fat, head) \intersect Extent(fat, e.first) = {}

\* A directory that an entry on the disk names has been written, and so has one
\* that is no longer to be written.
TablesHeld ==
    /\ DirectoriesAt(Table, data, EntriesOnDisk)
    /\ pc = "dirs" =>
        \A p \in DOMAIN tabs \ {<<>>} : p \notin todo => NoFileAt(fat, data, HeadOf(p))

\* Every table in memory is that of a directory entry, and once the scan is over
\* every directory entry has its table.
TablesLed ==
    \A p \in DOMAIN tabs \ {<<>>} :
        /\ Front(p) \in DOMAIN tabs
        /\ Last(p) \in DOMAIN tabs[Front(p)]
        /\ IsSubdir(tabs[Front(p)][Last(p)])

TreeInv ==
    /\ TablesLed
    /\ Running /\ pc # "scan" => TablesComplete

\* What else the phases have set up.
PhasesSet ==
    /\ ~Working => \A p \in DOMAIN tabs : \A i \in DOMAIN tabs[p] : tabs[p][i] = EmptyEntry
    /\ pc \in {"visit", "sweep", "erase"} => cmd.op = "del"
    /\ <<>> \notin todo

ContentInv ==
    /\ UnsavedLinks
    /\ ExtentsApart
    /\ OneKind
    /\ FilesHeld
    /\ NewChain
    /\ TablesHeld
    /\ TreeInv
    /\ PhasesSet
-----------------------------------------------------------------------------
(***************************************************************************)
(* The invariant of a move: how far its memory and the disk have come      *)
(* apart.                                                                  *)
(***************************************************************************)
\* No two directory entries in the memory of a command name the same cluster: every
\* directory gets clusters that nothing names yet, also on an image that commands have
\* left half-written.  (An interrupted move leaves two entries of one directory.)
Unshared ==
    \A p, q \in DOMAIN tabs \ {<<>>} : HeadOf(p) = HeadOf(q) => p = q

\* What a reader finds for a directory that the command has in its memory.
FoundAt(p) == IF p = <<>> THEN root ELSE ReadTable(Chain(LoadedFat, HeadOf(p)))

Readable == \A p \in DOMAIN tabs \ {<<>>} : OnDiskChain(HeadOf(p))

\* Slot i of directory d has given up its entry to slot j of directory dest; the
\* disk differs from the memory in these two slots at most, and no longer in the
\* second one when dest has been written.
Moving(d, i, dest, j) ==
    /\ <<d, i>> # <<dest, j>>
    /\ tabs[d][i] = EmptyEntry
    /\ IsStrictPrefix(Front(cmd.path), cmd.dest) => IsStrictPrefix(d, dest)
    /\ \A p \in DOMAIN tabs :
        /\ DOMAIN FoundAt(p) = DOMAIN tabs[p]
        /\ \A k \in DOMAIN tabs[p] :
            <<p, k>> \in {<<d, i>>, <<dest, j>>} \/ FoundAt(p)[k] = tabs[p][k]
    /\ FoundAt(d)[i] \in {EmptyEntry, tabs[dest][j]}
    /\ FoundAt(dest)[j] \in {EmptyEntry, tabs[dest][j]}
    /\ pc = "dirs" /\ dest \notin todo \union {<<>>} => FoundAt(dest)[j] = tabs[dest][j]

MoveInv ==
    /\ ~Running => cmd = NoCommand
    /\ cmd.op = "move" => pc \in {"scan", "fat", "dirs"}
    /\ pc = "scan" \/ cmd.op = "move" => fat = LoadedFat /\ Readable
    /\ pc = "scan" => \A p \in DOMAIN tabs : tabs[p] = FoundAt(p)
    /\ cmd.op = "move" /\ pc # "scan" /\ Unshared =>
        \E d, dest \in DOMAIN tabs :
            \E i \in DOMAIN tabs[d], j \in DOMAIN tabs[dest] : Moving(d, i, dest, j)
-----------------------------------------------------------------------------
(***************************************************************************)
(* The invariant of a deletion.                                            *)
(***************************************************************************)
\* The names along the slots p.
NamesAlong(p) == [k \in 1 .. Len(p) |-> tabs[SubSeq(p, 1, k - 1)][p[k]].name]

\* No deletion has read two directory entries that name the same cluster.
DirectoriesDistinct == Opened("del") => Unshared

\* Slot i of directory d is the victim, or below it.
Doomed(d, i) ==
    /\ d \in DOMAIN tabs
    /\ i \in Victims(tabs[d])
    /\ IsPrefix(cmd.path, NamesAlong(Append(d, i)))

\* Slot i of directory d has been erased in memory; the disk differs in this slot
\* at most, and no longer when d has been written.
Erasing(d, i) ==
    /\ d \in DOMAIN tabs /\ i \in DOMAIN tabs[d]
    /\ tabs[d][i] = EmptyEntry
    /\ Len(d) >= Len(cmd.path) => IsPrefix(cmd.path, NamesAlong(d))
    /\ \A p \in DOMAIN tabs :
        /\ DOMAIN FoundAt(p) = DOMAIN tabs[p]
        /\ \A k \in DOMAIN tabs[p] : <<p, k>> = <<d, i>> \/ FoundAt(p)[k] = tabs[p][k]
    /\ \/ FoundAt(d)[i] = EmptyEntry
       \/ IsPrefix(cmd.path, Append(NamesAlong(d), FoundAt(d)[i].name))
    /\ pc = "dirs" /\ d \notin todo \union {<<>>} => FoundAt(d)[i] = EmptyEntry

DelInv ==
    cmd.op = "del" =>
        /\ pc \in {"scan", "visit", "sweep", "erase", "fat", "dirs"}
        /\ fat = LoadedFat /\ Readable
        /\ pc # "scan" => Unshared
        /\ pc \in {"visit", "sweep", "erase"} => \A p \in DOMAIN tabs : tabs[p] = FoundAt(p)
        /\ pc = "sweep" => at \in DOMAIN tabs /\ IsPrefix(cmd.path, NamesAlong(at))
        /\ pc \in {"visit", "erase"} => Doomed(at, slot)
        /\ pc \in {"fat", "dirs"} => Erasing(at, slot)
=============================================================================
