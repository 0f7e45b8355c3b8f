------------------------------- MODULE Image -------------------------------
(***************************************************************************)
(* A FAT12 image and the f12 commands that change it: create (f12_create), *)
(* put (f12_put), both with _f12_walk_dir for a source directory, del      *)
(* (f12_del) and move (f12_move), each down to libfat12.                   *)
(*                                                                         *)
(* A command is one process.  It reads the first FAT copy, the root        *)
(* directory and every subdirectory into memory, works on the memory and   *)
(* writes everything back: the FAT copies one after the other, the         *)
(* directories children first, the root directory last.  File contents are *)
(* written before the metadata, and a deletion zeroes contents before it   *)
(* writes the metadata.  Any step may be the last one of its process: it   *)
(* is interrupted, or a write fails, and the command returns at once; the  *)
(* write under way may then have reached the disk in part.                 *)
(*                                                                         *)
(* Abstractions.  A file is its size in clusters, which stands for its     *)
(* bytes as well.  Names are compared only.  The bios parameter block is   *)
(* rewritten with the bytes it has and is left out, as are attributes      *)
(* other than the directory bit and time stamps.                           *)
(***************************************************************************)
EXTENDS Fat, SequencesExt

CONSTANTS NumberOfFats,     \* copies of the FAT on the disk
          RootSlots,        \* RootDirEntries
          SlotsPerCluster,  \* directory entries in a cluster
          DirClusters,      \* clusters of a new directory (244 * 32 bytes)
          NewDirSlots,      \* entries of a new directory in memory (224)
          ChainLimit,       \* clusters in 65536 bytes
          Names,            \* 8.3 names of files and directories
          NoName,           \* the zeroed name of an unused entry
          Dot, DotDot,
          Commands          \* the commands that may be run

ASSUME NumberOfFatsAssumption == NumberOfFats \in Nat \ {0}
ASSUME SlotAssumption ==
    /\ RootSlots \in Nat
    /\ SlotsPerCluster \in Nat \ {0}
    /\ DirClusters \in Nat \ {0}
    /\ ChainLimit \in Nat /\ DirClusters < ChainLimit
    /\ NewDirSlots \in 3 .. (DirClusters * SlotsPerCluster)
ASSUME NamesAssumption ==
    /\ {NoName, Dot, DotDot} \intersect Names = {}
    /\ NoName # Dot /\ NoName # DotDot /\ Dot # DotDot

Paths == Seq(Names) \ {<<>>}

\* A regular source file and where it is put; a source directory is the
\* sequence of the regular files fts_read finds in it.
Job == [path : Paths, size : Nat]

AllCommands ==
    [op : {"create", "put"}, files : Seq(Job)]
        \union [op : {"del"}, path : Paths, recursive : BOOLEAN, soft : BOOLEAN]
        \union [op : {"move"}, path : Paths, dest : Paths \union {<<>>},
                recursive : BOOLEAN]

ASSUME CommandsAssumption == Commands \subseteq AllCommands

NoCommand == [op |-> "none"]
-----------------------------------------------------------------------------
VARIABLES
    \* the disk
    fats,   \* fats[k] is FAT copy k, without the clusters it does not keep
    root,   \* the root directory
    data,   \* data[c] is the content of cluster c
    \* the running command and its memory
    pc,     \* the phase it is in
    cmd,    \* its arguments
    fat,    \* fat_entries
    tabs,   \* the directory tables, by the slots that lead to each
    at,     \* the directory it is working in
    slot,   \* the entry of that directory it is about to delete
    head,   \* first cluster of the file it is putting
    job,    \* which of its files it is putting
    copy,   \* the FAT copy it writes next
    todo,   \* the directories it has still to write
    res     \* how the last command ended

disk == <<fats, root, data>>
vars == <<fats, root, data, pc, cmd, fat, tabs, at, slot, head, job, copy, todo, res>>

AnyEntry == [name : Names \union {NoName, Dot, DotDot}, dir : BOOLEAN,
             first : Clusters \union {0}, size : Nat]

EmptyEntry == [name |-> NoName, dir |-> FALSE, first |-> 0, size |-> 0]

\* An entry without a name is zeros.
Entry == {e \in AnyEntry : e.name = NoName => e = EmptyEntry}

\* A cluster holds zeros, part of a file or part of a directory.
Block == [kind : {"zero", "file", "dir"}, slots : [1 .. SlotsPerCluster -> Entry],
          size : Nat, part : Nat]

EmptySlots == [i \in 1 .. SlotsPerCluster |-> EmptyEntry]
ZeroBlock == [kind |-> "zero", slots |-> EmptySlots, size |-> 0, part |-> 0]
FileBlock(size, part) ==
    [kind |-> "file", slots |-> EmptySlots, size |-> size, part |-> part]
DirBlock(slots) == [kind |-> "dir", slots |-> slots, size |-> 0, part |-> 0]

Init ==
    /\ fats = [k \in 1 .. NumberOfFats |-> [c \in Stored |-> 0]]
    /\ root = [i \in 1 .. RootSlots |-> EmptyEntry]
    /\ data = [c \in Clusters |-> ZeroBlock]
    /\ pc = "idle"
    /\ cmd = NoCommand
    /\ fat = [c \in Clusters |-> 0]
    /\ tabs = [p \in {<<>>} |-> <<>>]
    /\ at = <<>>
    /\ slot = 0
    /\ head = 0
    /\ job = 0
    /\ copy = 0
    /\ todo = {}
    /\ res = "none"

\* The process is over and its memory is gone.
Ends(phase, result) ==
    /\ pc' = phase
    /\ cmd' = NoCommand
    /\ fat' = [c \in Clusters |-> 0]
    /\ tabs' = [p \in {<<>>} |-> <<>>]
    /\ at' = <<>>
    /\ slot' = 0
    /\ head' = 0
    /\ job' = 0
    /\ copy' = 0
    /\ todo' = {}
    /\ res' = result

Exit(result) == Ends("idle", result)

\* The process does something C leaves undefined (it reads fat_entries out of
\* bounds, writes past a heap block or exhausts its stack), or the image has
\* lost its bios parameter block: nothing is said of what follows.
Undefined == Ends("undefined", "none") /\ UNCHANGED disk
-----------------------------------------------------------------------------
(***************************************************************************)
(* Directory entries and tables.                                           *)
(***************************************************************************)
IsEmpty(e) == e.name = NoName
IsDotDir(e) == e.dir /\ e.name \in {Dot, DotDot}
IsSubdir(e) == e.dir /\ ~IsEmpty(e) /\ ~IsDotDir(e)

SlotsNamed(table, name) == {i \in DOMAIN table : table[i].name = name}

FirstFree(table) == Min(SlotsNamed(table, NoName))

\* (Variant with a fault: a free slot is taken before the name is looked for.)
EntrySlotsFreeFirst(table, name) ==
    IF SlotsNamed(table, NoName) # {} THEN SlotsNamed(table, NoName)
                                      ELSE SlotsNamed(table, name)

\* Where lf12_create_entry_from_path looks for the entry of a name.
EntrySlots(table, name) ==
    IF SlotsNamed(table, name) # {} THEN SlotsNamed(table, name)
                                    ELSE SlotsNamed(table, NoName)

ChildCount(table) == Cardinality({i \in DOMAIN table : ~IsEmpty(table[i])})

\* (Variant with a fault: unused entries are visited as well.)
VictimsAndUnused(table) == {i \in DOMAIN table : ~IsDotDir(table[i])}

\* The slots a recursive deletion visits.
Victims(table) ==
    {i \in DOMAIN table : ~IsEmpty(table[i]) /\ ~IsDotDir(table[i])}

\* The path of names leads along the slots of p (lf12_entry_from_path: the
\* first entry with the name, at every level).
Resolves(path, p) ==
    /\ Len(p) = Len(path)
    /\ \A k \in 1 .. Len(p) :
        LET dir == SubSeq(p, 1, k - 1)
        IN  /\ dir \in DOMAIN tabs
            /\ SlotsNamed(tabs[dir], path[k]) # {}
            /\ p[k] = Min(SlotsNamed(tabs[dir], path[k]))

\* (Variant with a fault: a directory comes before its children.)
BeforeChildren(p, q) ==
    \/ IsStrictPrefix(p, q)
    \/ \E k \in 1 .. Len(p) :
        /\ k <= Len(q)
        /\ SubSeq(p, 1, k - 1) = SubSeq(q, 1, k - 1)
        /\ p[k] < q[k]

\* p comes before q when directories are visited in slot order, children
\* before the directory itself.
Before(p, q) ==
    \/ IsStrictPrefix(q, p)
    \/ \E k \in 1 .. Len(p) :
        /\ k <= Len(q)
        /\ SubSeq(p, 1, k - 1) = SubSeq(q, 1, k - 1)
        /\ p[k] < q[k]

(***************************************************************************)
(* Clusters on the disk.                                                   *)
(***************************************************************************)
Visits(s, c) == \E k \in 1 .. Len(s) : s[k] = c

Position(s, c) == CHOOSE k \in 1 .. Len(s) : s[k] = c

\* write_to_cluster_chain for the bytes of a file of that many clusters.
StoreFile(s, size) ==
    [c \in Clusters |->
        IF Visits(s, c) THEN FileBlock(size, Position(s, c)) ELSE data[c]]

\* (Variants with a fault: unused entries are not written; the last entry of the
\* table is not written.)
StoreTableOver(s, table) ==
    [c \in Clusters |->
        IF Visits(s, c)
        THEN DirBlock([i \in 1 .. SlotsPerCluster |->
                LET m == (Position(s, c) - 1) * SlotsPerCluster + i
                IN  IF m \in DOMAIN table /\ ~IsEmpty(table[m])
                    THEN table[m] ELSE data[c].slots[i]])
        ELSE data[c]]

StoreTableShort(s, table) ==
    [c \in Clusters |->
        IF Visits(s, c)
        THEN DirBlock([i \in 1 .. SlotsPerCluster |->
                LET m == (Position(s, c) - 1) * SlotsPerCluster + i
                IN  IF m \in 1 .. Len(table) - 1 THEN table[m] ELSE EmptyEntry])
        ELSE data[c]]

\* create_directory and write_to_cluster_chain: the table, then zeros.
StoreTable(s, table) ==
    [c \in Clusters |->
        IF Visits(s, c)
        THEN DirBlock([i \in 1 .. SlotsPerCluster |->
                LET m == (Position(s, c) - 1) * SlotsPerCluster + i
                IN  IF m \in DOMAIN table THEN table[m] ELSE EmptyEntry])
        ELSE data[c]]

\* erase_cluster_chain.
ZeroChain(s) == [c \in Clusters |-> IF Visits(s, c) THEN ZeroBlock ELSE data[c]]

\* load_cluster_chain for a directory.
ReadTable(s) ==
    [m \in 1 .. Len(s) * SlotsPerCluster |->
        data[s[(m - 1) \div SlotsPerCluster + 1]].slots[((m - 1) % SlotsPerCluster) + 1]]

HoldsDirectory(s) == \A k \in 1 .. Len(s) : data[s[k]].kind # "file"
-----------------------------------------------------------------------------
(***************************************************************************)
(* Opening the image: lf12_read_metadata.  The first FAT copy, the root    *)
(* directory, then every subdirectory in the order of the recursive scan.  *)
(***************************************************************************)
Start(c) ==
    /\ pc = "idle"
    /\ c.op # "create"
    /\ pc' = "scan"
    /\ cmd' = c
    /\ fat' = [k \in Clusters |-> IF k \in Stored THEN fats[1][k] ELSE 0]
    /\ tabs' = [p \in {<<>>} |-> root]
    /\ res' = "none"
    /\ UNCHANGED <<fats, root, data, at, slot, head, job, copy, todo>>

Subdirectories(d) ==
    {Append(d, i) : i \in {i \in DOMAIN tabs[d] : IsSubdir(tabs[d][i])}}

Unscanned == (UNION {Subdirectories(d) : d \in DOMAIN tabs}) \ DOMAIN tabs

\* The first cluster of the entry that the slots p lead to.
HeadOf(p) == tabs[Front(p)][Last(p)].first

\* A directory below itself is scanned until the stack is exhausted.
HeadsAbove(p) == {HeadOf(SubSeq(p, 1, k)) : k \in 1 .. Len(p) - 1}

\* lf12_read_dir_entry and scan_subsequent_entries for entry i of d.
ScanEntry(d, i) ==
    LET p == Append(d, i)
        first == tabs[d][i].first
    IN  /\ p \in Unscanned
        /\ \A q \in Unscanned : q = p \/ Before(p, q)
        /\ IF /\ HasChain(fat, first)
              /\ HoldsDirectory(Chain(fat, first))
              /\ first \notin HeadsAbove(p)
           THEN /\ tabs' = [q \in DOMAIN tabs \union {p} |->
                                IF q = p THEN ReadTable(Chain(fat, first)) ELSE tabs[q]]
                /\ UNCHANGED <<fats, root, data, pc, cmd, fat, at, slot, head,
                               job, copy, todo, res>>
           ELSE Undefined

ScanDirectory ==
    /\ pc = "scan"
    /\ \E d \in DOMAIN tabs : \E i \in DOMAIN tabs[d] : ScanEntry(d, i)

Opened(op) == pc = "scan" /\ Unscanned = {} /\ cmd.op = op

\* (Variant with a fault: the first FAT copy is skipped.)
BeginWriteAtLast ==
    /\ pc' = "fat"
    /\ copy' = NumberOfFats

\* lf12_write_metadata is called.
BeginWrite ==
    /\ pc' = "fat"
    /\ copy' = 1
-----------------------------------------------------------------------------
(***************************************************************************)
(* f12_create.  Its files are put as those of f12_put are.                 *)
(***************************************************************************)
\* f12_create opens the image for writing, which truncates it, and makes up
\* metadata without any entry.
StartCreate(c) ==
    /\ pc = "idle"
    /\ c.op = "create"
    /\ pc' = "format"
    /\ cmd' = c
    /\ tabs' = [p \in {<<>>} |-> [i \in 1 .. RootSlots |-> EmptyEntry]]
    /\ res' = "none"
    /\ UNCHANGED <<fats, root, data, fat, at, slot, head, job, copy, todo>>

\* lf12_create_image writes zeros and the metadata; then come the files of the
\* root directory option.
Format ==
    /\ pc = "format"
    /\ fats' = [k \in 1 .. NumberOfFats |-> [c \in Stored |-> 0]]
    /\ root' = [i \in 1 .. RootSlots |-> EmptyEntry]
    /\ data' = [c \in Clusters |-> ZeroBlock]
    /\ IF cmd.files = <<>>
       THEN Exit("ok")
       ELSE /\ pc' = "create"
            /\ job' = 1
            /\ UNCHANGED <<cmd, fat, tabs, at, slot, head, copy, todo, res>>
-----------------------------------------------------------------------------
(***************************************************************************)
(* f12_put.  For every file: allocate its chain, write its content, then   *)
(* walk its path, making the directories that are missing, and fill in the *)
(* directory entry.  The metadata is written once, after the last file; a  *)
(* failure ends the command without writing it.                            *)
(***************************************************************************)
BeginPut ==
    /\ Opened("put")
    /\ IF cmd.files = <<>>
       THEN BeginWrite /\ UNCHANGED job
       ELSE pc' = "create" /\ job' = 1 /\ UNCHANGED copy
    /\ UNCHANGED <<fats, root, data, cmd, fat, tabs, at, slot, head, todo, res>>

CreateFile ==
    /\ pc = "create"
    /\ LET size == cmd.files[job].size
           linked == Allocate(fat, size)
           first == AllocatedHead(fat, size)
       IN  /\ CanAllocate(fat, size)
           /\ size < ChainLimit
           /\ fat' = linked
           /\ head' = first
           /\ data' = StoreFile(Chain(linked, first), size)
    /\ pc' = "path"
    /\ at' = <<>>
    /\ UNCHANGED <<fats, root, cmd, tabs, slot, job, copy, todo, res>>

\* F12_IMAGE_FULL, or F12_LOGIC_ERROR when the bytes of the chain do not fit
\* the uint16_t of write_to_cluster_chain.
CreateFileFails ==
    /\ pc = "create"
    /\ LET size == cmd.files[job].size
       IN  \/ ~CanAllocate(fat, size) /\ Exit("full")
           \/ CanAllocate(fat, size) /\ size >= ChainLimit /\ Exit("logic")
    /\ UNCHANGED disk

PathOf == cmd.files[job].path
Component == PathOf[Len(at) + 1]
AtLastComponent == Len(at) + 1 = Len(PathOf)

\* lf12_path_create_directories: the directory exists.
EnterDirectory ==
    /\ pc = "path"
    /\ ~AtLastComponent
    /\ SlotsNamed(tabs[at], Component) # {}
    /\ LET i == Min(SlotsNamed(tabs[at], Component))
       IN  tabs[at][i].dir /\ at' = Append(at, i)
    /\ UNCHANGED <<fats, root, data, pc, cmd, fat, tabs, slot, head, job, copy, todo, res>>

\* lf12_create_directory_table: the entry of a new directory, and its table
\* with the two dot entries.
NewDirectory(name, first) ==
    [name |-> name, dir |-> TRUE, first |-> first, size |-> 0]

NewTable ==
    [i \in 1 .. NewDirSlots |->
        IF i = 1 THEN NewDirectory(Dot, 0)
        ELSE IF i = 2 THEN NewDirectory(DotDot, 0)
        ELSE EmptyEntry]

\* lf12_path_create_directories: the directory is made in the first free slot.
MakeDirectory ==
    /\ pc = "path"
    /\ ~AtLastComponent
    /\ SlotsNamed(tabs[at], Component) = {}
    /\ SlotsNamed(tabs[at], NoName) # {}
    /\ CanAllocate(fat, DirClusters)
    /\ LET i == FirstFree(tabs[at])
           p == Append(at, i)
           e == NewDirectory(Component, AllocatedHead(fat, DirClusters))
           edited == [tabs EXCEPT ![at][i] = e]
       IN  /\ tabs' = [q \in DOMAIN tabs \union {p} |->
                            IF q = p THEN NewTable ELSE edited[q]]
           /\ at' = p
    /\ fat' = Allocate(fat, DirClusters)
    /\ UNCHANGED <<fats, root, data, pc, cmd, slot, head, job, copy, todo, res>>

FileEntry(e, name, first, size) ==
    [name |-> name, dir |-> e.dir, first |-> first, size |-> size]

\* lf12_create_entry_from_path finds the entry with the name or the first free
\* one; lf12_create_file fills it in and leaves its directory bit alone.
FillEntry ==
    /\ pc = "path"
    /\ AtLastComponent
    /\ EntrySlots(tabs[at], Component) # {}
    /\ LET i == Min(EntrySlots(tabs[at], Component))
           e == FileEntry(tabs[at][i], Component, head, cmd.files[job].size)
       IN  tabs' = [tabs EXCEPT ![at][i] = e]
    /\ IF job = Len(cmd.files)
       THEN BeginWrite /\ UNCHANGED job
       ELSE pc' = "create" /\ job' = job + 1 /\ UNCHANGED copy
    /\ UNCHANGED <<fats, root, data, cmd, fat, at, slot, head, todo, res>>

\* F12_NOT_A_DIR, F12_DIR_FULL, or F12_IMAGE_FULL for a new directory.
WalkPathFails ==
    /\ pc = "path"
    /\ \/ /\ ~AtLastComponent
          /\ \E i \in SlotsNamed(tabs[at], Component) :
                i = Min(SlotsNamed(tabs[at], Component)) /\ ~tabs[at][i].dir
          /\ Exit("failed")
       \/ /\ SlotsNamed(tabs[at], Component) = {}
          /\ SlotsNamed(tabs[at], NoName) = {}
          /\ Exit("failed")
       \/ /\ ~AtLastComponent
          /\ SlotsNamed(tabs[at], Component) = {}
          /\ SlotsNamed(tabs[at], NoName) # {}
          /\ ~CanAllocate(fat, DirClusters)
          /\ Exit("full")
    /\ UNCHANGED disk
-----------------------------------------------------------------------------
(***************************************************************************)
(* f12_del.  The victim and, with the recursive flag, what is below it:    *)
(* children first, in slot order.  For every entry lf12_del_entry zeroes   *)
(* the content, then the entry, and writes all metadata.  No FAT entry is  *)
(* given back.                                                             *)
(***************************************************************************)
Located(d, i) == d \in DOMAIN tabs /\ i \in DOMAIN tabs[d]

\* A directory with more than two entries, the dot entries included.
HasChildren(d, i) == tabs[d][i].dir /\ ChildCount(tabs[Append(d, i)]) > 2

\* A directory with more than two slots, used or not.
NeedsRecursive(d, i) == tabs[d][i].dir /\ Len(tabs[Append(d, i)]) > 2

Target(d, i) == Located(d, i) /\ Resolves(cmd.path, Append(d, i))

BeginDelete ==
    /\ Opened("del")
    /\ ~cmd.soft
    /\ \E d \in DOMAIN tabs : \E i \in DOMAIN tabs[d] :
        /\ Target(d, i)
        /\ cmd.recursive \/ ~NeedsRecursive(d, i)
        /\ at' = d
        /\ slot' = i
    /\ pc' = "visit"
    /\ UNCHANGED <<fats, root, data, cmd, fat, tabs, head, job, copy, todo, res>>

\* With soft_delete lf12_del_entry returns before it does anything, for every
\* child and for the victim; a directory that has children is refused.
SoftDelete ==
    /\ Opened("del")
    /\ cmd.soft
    /\ \E d \in DOMAIN tabs : \E i \in DOMAIN tabs[d] :
        /\ Target(d, i)
        /\ cmd.recursive \/ ~NeedsRecursive(d, i)
        /\ Exit(IF HasChildren(d, i) THEN "failed" ELSE "ok")
    /\ UNCHANGED disk

\* Not found, or F12_IS_DIR.
DeleteRefused ==
    /\ Opened("del")
    /\ \A d \in DOMAIN tabs : \A i \in DOMAIN tabs[d] :
        Target(d, i) => ~cmd.recursive /\ NeedsRecursive(d, i)
    /\ Exit("failed")
    /\ UNCHANGED disk

\* recursive_del_entry looks at an entry: its children come first.
VisitEntry ==
    /\ pc = "visit"
    /\ Located(at, slot)
    /\ IF HasChildren(at, slot)
       THEN pc' = "sweep" /\ at' = Append(at, slot) /\ slot' = 0
       ELSE pc' = "erase" /\ UNCHANGED <<at, slot>>
    /\ UNCHANGED <<fats, root, data, cmd, fat, tabs, head, job, copy, todo, res>>

\* The loop over the children, and the directory itself after it.
SweepDirectory ==
    /\ pc = "sweep"
    /\ at \in DOMAIN tabs
    /\ IF Victims(tabs[at]) # {}
       THEN pc' = "visit" /\ slot' = Min(Victims(tabs[at])) /\ UNCHANGED at
       ELSE pc' = "erase" /\ at' = Front(at) /\ slot' = Last(at)
    /\ UNCHANGED <<fats, root, data, cmd, fat, tabs, head, job, copy, todo, res>>

\* lf12_del_entry up to its call of lf12_write_metadata.
EraseEntry ==
    /\ pc = "erase"
    /\ Located(at, slot)
    /\ LET first == tabs[at][slot].first
           edited == [tabs EXCEPT ![at][slot] = EmptyEntry]
       IN  IF first = 0 \/ HasChain(fat, first)
           THEN /\ data' = IF first = 0 THEN data ELSE ZeroChain(Chain(fat, first))
                /\ tabs' = [p \in {p \in DOMAIN tabs : ~IsPrefix(Append(at, slot), p)}
                                |-> edited[p]]
                /\ BeginWrite
                /\ UNCHANGED <<fats, root, cmd, fat, at, slot, head, job, todo, res>>
           ELSE Undefined
-----------------------------------------------------------------------------
(***************************************************************************)
(* f12_move and lf12_move_entry.  The entry goes to the first free slot of *)
(* the destination directory, whatever names that directory holds.         *)
(***************************************************************************)
Relocated(p, from, to) ==
    IF IsPrefix(from, p) THEN to \o SubSeq(p, Len(from) + 1, Len(p)) ELSE p

Rekeyed(tables, from, to) ==
    [q \in {Relocated(p, from, to) : p \in DOMAIN tables} |->
        tables[CHOOSE p \in DOMAIN tables : Relocated(p, from, to) = q]]

\* The entry (d, i) can be moved into the directory dest.
Movable(d, i, dest) ==
    /\ ~IsPrefix(cmd.path, cmd.dest)
    /\ Target(d, i)
    /\ cmd.recursive \/ ~NeedsRecursive(d, i)
    /\ Resolves(cmd.dest, dest)
    /\ SlotsNamed(tabs[dest], NoName) # {}

MoveEntry ==
    /\ Opened("move")
    /\ \E d, dest \in DOMAIN tabs : \E i \in DOMAIN tabs[d] :
        /\ Movable(d, i, dest)
        /\ LET j == FirstFree(tabs[dest])
               edited == [[tabs EXCEPT ![dest][j] = tabs[d][i]]
                             EXCEPT ![d][i] = EmptyEntry]
           IN  tabs' = Rekeyed(edited, Append(d, i), Append(dest, j))
    /\ BeginWrite
    /\ UNCHANGED <<fats, root, data, cmd, fat, at, slot, head, job, todo, res>>

\* Nothing to do for a path onto itself; every other refusal is an error.
MoveRefused ==
    /\ Opened("move")
    /\ \A d, dest \in DOMAIN tabs : \A i \in DOMAIN tabs[d] : ~Movable(d, i, dest)
    /\ Exit(IF cmd.path = cmd.dest THEN "ok" ELSE "failed")
    /\ UNCHANGED disk
-----------------------------------------------------------------------------
(***************************************************************************)
(* lf12_write_metadata: write_fats, then write_root_dir, which writes the  *)
(* subdirectories before the root directory.                               *)
(***************************************************************************)
\* (Variant with a fault: two entries too many are written.)
SavedFatWhole == fat

SavedFat == [c \in Stored |-> fat[c]]

WriteFat ==
    /\ pc = "fat"
    /\ fats' = [fats EXCEPT ![copy] = SavedFat]
    /\ IF copy < NumberOfFats
       THEN copy' = copy + 1 /\ UNCHANGED <<pc, todo>>
       ELSE pc' = "dirs" /\ copy' = 0 /\ todo' = DOMAIN tabs \ {<<>>}
    /\ UNCHANGED <<root, data, cmd, fat, tabs, at, slot, head, job, res>>

\* p is the directory write_directory writes next.
IsNext(p) == p \in todo /\ \A q \in todo : q = p \/ Before(p, q)

\* write_directory can follow the chain of p, and its buffer holds the table.
CanStore(p) ==
    /\ HasChain(fat, HeadOf(p))
    /\ Len(tabs[p]) <= Len(Chain(fat, HeadOf(p))) * SlotsPerCluster

WriteDirectory ==
    /\ pc = "dirs"
    /\ \E p \in todo :
        /\ IsNext(p)
        /\ IF CanStore(p)
           THEN /\ data' = StoreTable(Chain(fat, HeadOf(p)), tabs[p])
                /\ todo' = todo \ {p}
                /\ UNCHANGED <<fats, root, pc, cmd, fat, tabs, at, slot, head, job, copy, res>>
           ELSE Undefined

\* (Variant with a fault: a deletion goes on above its victim.)
DeletionGoesOnAbove == cmd.op = "del" /\ at # <<>>

\* A recursive deletion goes on with the next child.
DeletionGoesOn == cmd.op = "del" /\ Len(at) >= Len(cmd.path)

WriteRoot ==
    /\ pc = "dirs"
    /\ todo = {}
    /\ root' = tabs[<<>>]
    /\ IF DeletionGoesOn
       THEN /\ pc' = "sweep"
            /\ slot' = 0
            /\ UNCHANGED <<cmd, fat, tabs, at, head, job, copy, todo, res>>
       ELSE Exit("ok")
    /\ UNCHANGED <<fats, data>>
-----------------------------------------------------------------------------
(***************************************************************************)
(* The process is killed or a read or write fails: the command is over.    *)
(* The write under way may have stored its first clusters, FAT entries or  *)
(* root directory entries.                                                 *)
(***************************************************************************)
Running == pc \notin {"idle", "undefined"}

Interrupted == Running /\ Exit("interrupted")

InterruptedBetweenWrites == pc # "format" /\ Interrupted /\ UNCHANGED disk

InterruptedInFormat == pc = "format" /\ Undefined

InterruptedInFile ==
    /\ pc = "create"
    /\ LET size == cmd.files[job].size
           s == Chain(Allocate(fat, size), AllocatedHead(fat, size))
       IN  /\ CanAllocate(fat, size)
           /\ size < ChainLimit
           /\ \E k \in 1 .. Len(s) : data' = StoreFile(SubSeq(s, 1, k), size)
    /\ Interrupted
    /\ UNCHANGED <<fats, root>>

InterruptedInErase ==
    /\ pc = "erase"
    /\ LET s == Chain(fat, tabs[at][slot].first)
       IN  /\ HasChain(fat, tabs[at][slot].first)
           /\ \E k \in 1 .. Len(s) : data' = ZeroChain(SubSeq(s, 1, k))
    /\ Interrupted
    /\ UNCHANGED <<fats, root>>

InterruptedInFat ==
    /\ pc = "fat"
    /\ \E m \in Stored :
        fats' = [fats EXCEPT ![copy] =
                    [c \in Stored |-> IF c <= m THEN fat[c] ELSE fats[copy][c]]]
    /\ Interrupted
    /\ UNCHANGED <<root, data>>

InterruptedInDirectory ==
    /\ pc = "dirs"
    /\ \E p \in todo :
        LET s == Chain(fat, HeadOf(p))
        IN  /\ IsNext(p)
            /\ CanStore(p)
            /\ \E k \in 1 .. Len(s) : data' = StoreTable(SubSeq(s, 1, k), tabs[p])
    /\ Interrupted
    /\ UNCHANGED <<fats, root>>

InterruptedInRoot ==
    /\ pc = "dirs"
    /\ todo = {}
    /\ \E k \in 1 .. RootSlots :
        root' = [i \in 1 .. RootSlots |-> IF i <= k THEN tabs[<<>>][i] ELSE root[i]]
    /\ Interrupted
    /\ UNCHANGED <<fats, data>>

Interrupt ==
    \/ InterruptedBetweenWrites
    \/ InterruptedInFormat
    \/ InterruptedInFile
    \/ InterruptedInErase
    \/ InterruptedInFat
    \/ InterruptedInDirectory
    \/ InterruptedInRoot

\* Nothing is modelled after undefined behaviour.
Halted == pc = "undefined" /\ UNCHANGED vars
-----------------------------------------------------------------------------
\* The steps a command takes by itself.
Step ==
    \/ ScanDirectory
    \/ Format \/ BeginPut \/ CreateFile \/ CreateFileFails
    \/ EnterDirectory \/ MakeDirectory \/ FillEntry \/ WalkPathFails
    \/ BeginDelete \/ SoftDelete \/ DeleteRefused
    \/ VisitEntry \/ SweepDirectory \/ EraseEntry
    \/ MoveEntry \/ MoveRefused
    \/ WriteFat \/ WriteDirectory \/ WriteRoot

Next ==
    \/ \E c \in Commands : Start(c) \/ StartCreate(c)
    \/ Step
    \/ Interrupt
    \/ Halted

Spec == Init /\ [][Next]_vars

\* A started process keeps running until it ends: its steps are fair.
FairSpec == Spec /\ WF_vars(Step)
=============================================================================
