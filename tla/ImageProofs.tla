---------------------------- MODULE ImageProofs ----------------------------
(***************************************************************************)
(* Theorems about Image, for every number of clusters and FAT copies, all  *)
(* sizes of directories, and any set of commands, in six parts.            *)
(*                                                                         *)
(* The variables keep their types (TypeInv).                               *)
(*                                                                         *)
(* Every directory entry on the disk leads to allocated clusters in every  *)
(* FAT copy, whenever a command stops: the table in memory contains every  *)
(* copy and only grows, and entries are written to the disk only when all  *)
(* copies equal it (SafetyInv).                                            *)
(*                                                                         *)
(* Chains never share a cluster, and what a chain holds is what its entry  *)
(* says, whenever a command stops.  The argument: chains are made of free  *)
(* clusters, contents are written to clusters that no entry leads to yet,  *)
(* and a directory is written over its own chain only (ContentInv).        *)
(*                                                                         *)
(* A command changes nothing that a reader can see before it formats,      *)
(* erases or writes directories.  The argument: until then it writes file  *)
(* contents, to clusters that no entry on the disk leads to, and FAT       *)
(* copies, which only grow; so every entry on the disk, and with it every  *)
(* table that names lead to, keeps its chain and what is in it.            *)
(*                                                                         *)
(* A move downwards never loses the entry.  The argument: while a move     *)
(* writes, every table on the disk is the one in memory but for two slots  *)
(* (MoveInv); the one that gains the entry is written before the one above *)
(* it that gives it up; from then on a reader finds every table of the     *)
(* memory, and before it what the disk has held all along.                 *)
(*                                                                         *)
(* A deletion removes only its victim and what is below it, unless two     *)
(* entries name the same directory.  The argument: it works in directories *)
(* below its path, and while it writes, every table on the disk is the one *)
(* in memory but for the slot it has erased (DelInv); so each write only   *)
(* empties slots, and those it empties are at the path or below it.        *)
(***************************************************************************)
EXTENDS ImageProperties, FatProofs, SequenceTheorems

-----------------------------------------------------------------------------
(***************************************************************************)
(* The types of the values the actions build.                              *)
(***************************************************************************)
LEMMA EntryTypes ==
    /\ EmptyEntry \in Entry
    /\ ~ IsSubdir(EmptyEntry)
    /\ ZeroBlock \in Block
    /\ \A size, part \in Nat : FileBlock(size, part) \in Block
    /\ \A slots \in [1 .. SlotsPerCluster -> Entry] : DirBlock(slots) \in Block
<1>1. EmptyEntry \in AnyEntry
  BY DEF EmptyEntry, AnyEntry
<1>2. EmptyEntry \in Entry
  BY <1>1 DEF Entry
<1>3. ~ IsSubdir(EmptyEntry)
  BY DEF IsSubdir, EmptyEntry
<1>4. EmptySlots \in [1 .. SlotsPerCluster -> Entry]
  BY <1>2 DEF EmptySlots
<1> QED
  BY <1>2, <1>3, <1>4 DEF ZeroBlock, FileBlock, DirBlock, Block

LEMMA DirectoryEntryType ==
    ASSUME NEW name \in Names \union {Dot, DotDot}, NEW first \in Clusters \union {0}
    PROVE  NewDirectory(name, first) \in Entry
<1>1. NewDirectory(name, first) \in AnyEntry
  BY DEF NewDirectory, AnyEntry
<1>2. name # NoName
  BY NamesAssumption
<1> QED
  BY <1>1, <1>2 DEF NewDirectory, Entry

LEMMA NewTableType ==
    NewTable \in Seq(Entry)
<1>1. NewDirSlots \in Nat
  BY SlotAssumption
<1>2. \A i \in 1 .. NewDirSlots : NewTable[i] \in Entry
  BY DirectoryEntryType, EntryTypes DEF NewTable
<1>3. NewTable = [i \in 1 .. NewDirSlots |-> NewTable[i]]
  BY DEF NewTable
<1> QED
  BY <1>1, <1>2, <1>3

LEMMA StoreFileType ==
    ASSUME data \in [Clusters -> Block], NEW s, NEW size \in Nat
    PROVE  StoreFile(s, size) \in [Clusters -> Block]
<1>1. ASSUME NEW c \in Clusters, Visits(s, c)
      PROVE  FileBlock(size, Position(s, c)) \in Block
  <2>1. Position(s, c) \in 1 .. Len(s)
    BY <1>1 DEF Visits, Position
  <2>2. Position(s, c) \in Nat
    BY <2>1
  <2> QED
    BY <2>2, EntryTypes
<1> QED
  BY <1>1 DEF StoreFile

LEMMA StoreTableType ==
    ASSUME data \in [Clusters -> Block], NEW s, NEW table \in Seq(Entry)
    PROVE  StoreTable(s, table) \in [Clusters -> Block]
<1>1. ASSUME NEW c
      PROVE  DirBlock([i \in 1 .. SlotsPerCluster |->
                LET m == (Position(s, c) - 1) * SlotsPerCluster + i
                IN  IF m \in DOMAIN table THEN table[m] ELSE EmptyEntry]) \in Block
  BY EntryTypes
<1> QED
  BY <1>1 DEF StoreTable

LEMMA ZeroChainType ==
    ASSUME data \in [Clusters -> Block], NEW s
    PROVE  ZeroChain(s) \in [Clusters -> Block]
  BY EntryTypes DEF ZeroChain

\* load_cluster_chain reads entries, whatever clusters the chain has.
LEMMA ReadTableType ==
    ASSUME data \in [Clusters -> Block], NEW s \in Seq(Clusters)
    PROVE  ReadTable(s) \in Seq(Entry)
<1> DEFINE n == Len(s) * SlotsPerCluster
<1>1. SlotsPerCluster \in Nat \ {0} /\ Len(s) \in Nat
  BY SlotAssumption
<1>2. n \in Nat
  BY <1>1
<1>3. ASSUME NEW m \in 1 .. n
      PROVE  /\ (m - 1) \div SlotsPerCluster + 1 \in 1 .. Len(s)
             /\ ((m - 1) % SlotsPerCluster) + 1 \in 1 .. SlotsPerCluster
  BY <1>1, <1>3, SMTT(30)
<1>4. ASSUME NEW m \in 1 .. n
      PROVE  data[s[(m - 1) \div SlotsPerCluster + 1]]
                .slots[((m - 1) % SlotsPerCluster) + 1] \in Entry
  <2>1. s[(m - 1) \div SlotsPerCluster + 1] \in Clusters
    BY <1>3
  <2> QED
    BY <1>3, <2>1 DEF Block
<1> QED
  BY <1>2, <1>4 DEF ReadTable

LEMMA AppendFacts ==
    ASSUME NEW s \in Seq(Nat), NEW i \in Nat
    PROVE  /\ Append(s, i) \in Seq(Nat)
           /\ Len(Append(s, i)) = Len(s) + 1
           /\ Append(s, i) # <<>>
<1>1. Append(s, i) \in Seq(Nat) /\ Len(Append(s, i)) = Len(s) + 1
  OBVIOUS
<1>2. Len(s) \in Nat /\ Len(<<>>) = 0
  OBVIOUS
<1> QED
  BY <1>1, <1>2

\* What follows the first m slots of a path.
LEMMA TailType ==
    ASSUME NEW p \in Seq(Nat), NEW m \in Nat
    PROVE  SubSeq(p, m + 1, Len(p)) \in Seq(Nat)
<1>1. Len(p) \in Nat
  OBVIOUS
<1>2. \A k \in (m + 1) .. Len(p) : p[k] \in Nat
  OBVIOUS
<1> QED
  BY <1>1, <1>2, SubSeqProperties

\* Changing an entry of a table in memory.
LEMMA EditType ==
    ASSUME NEW tables, DOMAIN tables \subseteq Seq(Nat),
           tables \in [DOMAIN tables -> Seq(Entry)],
           NEW d \in DOMAIN tables, NEW i \in DOMAIN tables[d], NEW e \in Entry
    PROVE  LET edited == [tables EXCEPT ![d][i] = e]
           IN  /\ edited \in [DOMAIN tables -> Seq(Entry)]
               /\ \A p \in DOMAIN tables : Len(edited[p]) = Len(tables[p])
               /\ \A p \in DOMAIN tables : DOMAIN edited[p] = DOMAIN tables[p]
               /\ edited[d][i] = e
               /\ \A p \in DOMAIN tables : \A k \in DOMAIN tables[p] :
                    <<p, k>> # <<d, i>> => edited[p][k] = tables[p][k]
<1> DEFINE edited == [tables EXCEPT ![d][i] = e]
           table == [tables[d] EXCEPT ![i] = e]
<1>1. tables[d] \in Seq(Entry)
  OBVIOUS
<1>2. table \in Seq(Entry) /\ Len(table) = Len(tables[d]) /\ DOMAIN table = DOMAIN tables[d]
  BY <1>1
<1>3. edited = [p \in DOMAIN tables |-> IF p = d THEN table ELSE tables[p]]
  OBVIOUS
<1> QED
  BY <1>2, <1>3

\* A command with files to put.
LEMMA PutCommand ==
    ASSUME cmd \in Commands, cmd.op \in {"create", "put"}
    PROVE  /\ cmd.files \in Seq(Job)
           /\ \A k \in 1 .. Len(cmd.files) :
                /\ cmd.files[k].size \in Nat
                /\ cmd.files[k].path \in Seq(Names)
                /\ Len(cmd.files[k].path) > 0
<1>1. cmd \in AllCommands
  BY CommandsAssumption
<1>2. cmd.files \in Seq(Job)
  BY <1>1 DEF AllCommands
<1>3. ASSUME NEW k \in 1 .. Len(cmd.files)
      PROVE  cmd.files[k].size \in Nat /\ cmd.files[k].path \in Paths
  <2>1. cmd.files[k] \in Job
    BY <1>2
  <2> QED
    BY <2>1 DEF Job
<1> QED
  BY <1>2, <1>3 DEF Paths

LEMMA DeleteCommand ==
    ASSUME cmd \in Commands, cmd.op \in {"del", "move"}
    PROVE  cmd.path \in Seq(Names) /\ Len(cmd.path) > 0
<1>1. cmd \in AllCommands
  BY CommandsAssumption
<1>2. cmd.path \in Paths
  BY <1>1 DEF AllCommands
<1> QED
  BY <1>2 DEF Paths

-----------------------------------------------------------------------------
(***************************************************************************)
(* TypeInv is inductive.  One lemma for each action that does more than    *)
(* end the command.                                                        *)
(***************************************************************************)
LEMMA InitTypeInv == Init => TypeInv
<1> SUFFICES ASSUME Init PROVE TypeInv
  OBVIOUS
<1>1. 0 \in FatValues /\ Stored \subseteq Clusters
  BY ClusterSets DEF FatValues
<1>2. TypeOK
  <2>1. fats \in [1 .. NumberOfFats -> [Stored -> FatValues]]
    BY <1>1 DEF Init
  <2>2. root \in [1 .. RootSlots -> Entry] /\ data \in [Clusters -> Block]
    BY EntryTypes DEF Init
  <2>3. fat \in [Clusters -> FatValues]
    BY <1>1 DEF Init
  <2>4. DOMAIN tabs \subseteq Seq(Nat) /\ tabs \in [DOMAIN tabs -> Seq(Entry)]
    BY DEF Init
  <2> QED
    BY <2>1, <2>2, <2>3, <2>4, NumberOfFatsAssumption DEF Init, TypeOK
<1>3. PhaseOK
  BY DEF Init, PhaseOK, Running
<1> QED
  BY <1>2, <1>3 DEF TypeInv

LEMMA EndsTypeInv ==
    ASSUME TypeInv, NEW phase \in {"idle", "undefined"},
           NEW result \in {"none", "ok", "failed", "full", "logic", "interrupted"},
           Ends(phase, result),
           fats' \in [1 .. NumberOfFats -> [Stored -> FatValues]],
           root' \in [1 .. RootSlots -> Entry],
           data' \in [Clusters -> Block]
    PROVE  TypeInv'
<1>1. 0 \in FatValues
  BY DEF FatValues
<1>2. fat' \in [Clusters -> FatValues]
  BY <1>1 DEF Ends
<1>3. DOMAIN tabs' = {<<>>} /\ tabs' \in [DOMAIN tabs' -> Seq(Entry)]
      /\ DOMAIN tabs' \subseteq Seq(Nat)
  BY DEF Ends
<1>4. TypeOK'
  BY <1>2, <1>3, NumberOfFatsAssumption DEF Ends, TypeOK
<1>5. PhaseOK'
  BY <1>3 DEF Ends, PhaseOK, Running
<1> QED
  BY <1>4, <1>5 DEF TypeInv

\* In particular a command may end at any point and leave the disk alone.
LEMMA DiskUnchangedTypeInv ==
    ASSUME TypeInv, UNCHANGED disk,
           \/ Undefined
           \/ \E result \in {"none", "ok", "failed", "full", "logic", "interrupted"} :
                Exit(result)
    PROVE  TypeInv'
<1>1. /\ fats' \in [1 .. NumberOfFats -> [Stored -> FatValues]]
      /\ root' \in [1 .. RootSlots -> Entry]
      /\ data' \in [Clusters -> Block]
  BY DEF TypeInv, TypeOK, disk
<1> QED
  BY <1>1, EndsTypeInv DEF Undefined, Exit

LEMMA StartTypeInv ==
    ASSUME TypeInv, NEW c \in Commands, Start(c) \/ StartCreate(c)
    PROVE  TypeInv'
<1>1. RootSlots \in Nat /\ Stored \subseteq Clusters /\ 0 \in FatValues /\ 1 \in 1 .. NumberOfFats
  BY SlotAssumption, NumberOfFatsAssumption, ClusterSets DEF FatValues
<1> DEFINE empty == [i \in 1 .. RootSlots |-> EmptyEntry]
<1>2. root \in Seq(Entry) /\ Len(root) = RootSlots /\ empty \in Seq(Entry) /\ Len(empty) = RootSlots
  <2>1. root \in [1 .. RootSlots -> Entry] /\ empty \in [1 .. RootSlots -> Entry]
    BY EntryTypes DEF TypeInv, TypeOK
  <2> QED
    BY <1>1, <2>1
<1>3. pc = "idle" /\ todo = {} /\ copy = 0
  BY DEF Start, StartCreate, TypeInv, PhaseOK
<1>4. CASE Start(c)
  <2>1. fat' \in [Clusters -> FatValues]
    BY <1>1, <1>4 DEF Start, TypeInv, TypeOK
  <2>2. tabs' = [p \in {<<>>} |-> root]
    BY <1>4 DEF Start
  <2>3. DOMAIN tabs' = {<<>>} /\ tabs' \in [DOMAIN tabs' -> Seq(Entry)]
    BY <1>2, <2>2
  <2>4. TypeOK'
    BY <1>3, <1>4, <2>1, <2>3 DEF Start, TypeInv, TypeOK
  <2>5. PhaseOK'
    BY <1>2, <1>3, <1>4, <2>2 DEF Start, PhaseOK
  <2> QED
    BY <2>4, <2>5 DEF TypeInv
<1>5. CASE StartCreate(c)
  <2>1. tabs' = [p \in {<<>>} |-> empty]
    BY <1>5 DEF StartCreate
  <2>2. DOMAIN tabs' = {<<>>} /\ tabs' \in [DOMAIN tabs' -> Seq(Entry)]
    BY <1>2, <2>1
  <2>3. TypeOK'
    BY <1>3, <1>5, <2>2 DEF StartCreate, TypeInv, TypeOK
  <2>4. TablesComplete'
    BY <2>1, EntryTypes DEF TablesComplete, IsSubdir, IsEmpty, IsDotDir
  <2>5. PhaseOK'
    BY <1>2, <1>3, <1>5, <2>1, <2>4 DEF StartCreate, PhaseOK
  <2> QED
    BY <2>3, <2>5 DEF TypeInv
<1> QED
  BY <1>4, <1>5

LEMMA ScanDirectoryTypeInv == TypeInv /\ ScanDirectory => TypeInv'
<1> SUFFICES ASSUME TypeInv, ScanDirectory PROVE TypeInv'
  OBVIOUS
<1>1. PICK d \in DOMAIN tabs : \E i \in DOMAIN tabs[d] : ScanEntry(d, i)
  BY DEF ScanDirectory
<1>2. PICK i \in DOMAIN tabs[d] : ScanEntry(d, i)
  BY <1>1
<1> DEFINE p == Append(d, i)
           table == ReadTable(Chain(fat, tabs[d][i].first))
<1>3. CASE Undefined
  BY <1>3, DiskUnchangedTypeInv DEF Undefined
<1>4. CASE ~ Undefined
  <2>1. /\ HasChain(fat, tabs[d][i].first)
        /\ p \notin DOMAIN tabs
        /\ tabs' = [q \in DOMAIN tabs \union {p} |-> IF q = p THEN table ELSE tabs[q]]
        /\ UNCHANGED <<fats, root, data, pc, cmd, fat, at, slot, head, job, copy, todo, res>>
    BY <1>2, <1>4 DEF ScanEntry, Unscanned
  <2>2. table \in Seq(Entry)
    BY <2>1, ChainType, ReadTableType DEF TypeInv, TypeOK
  <2>3. p \in Seq(Nat)
    BY DEF TypeInv, TypeOK
  <2>4. /\ DOMAIN tabs' = DOMAIN tabs \union {p}
        /\ tabs' \in [DOMAIN tabs' -> Seq(Entry)]
        /\ \A q \in DOMAIN tabs : tabs'[q] = tabs[q]
    BY <2>1, <2>2 DEF TypeInv, TypeOK
  <2>5. TypeOK'
    BY <2>1, <2>3, <2>4 DEF TypeInv, TypeOK
  <2>6. pc = "scan"
    BY DEF ScanDirectory
  <2>7. PhaseOK'
    BY <2>1, <2>4, <2>6 DEF TypeInv, PhaseOK, Running
  <2> QED
    BY <2>5, <2>7 DEF TypeInv
<1> QED
  BY <1>3, <1>4

LEMMA FormatTypeInv == TypeInv /\ Format => TypeInv'
<1> SUFFICES ASSUME TypeInv, Format PROVE TypeInv'
  OBVIOUS
<1>1. /\ fats' \in [1 .. NumberOfFats -> [Stored -> FatValues]]
      /\ root' \in [1 .. RootSlots -> Entry]
      /\ data' \in [Clusters -> Block]
  BY EntryTypes DEF Format, FatValues
<1>2. CASE cmd.files = <<>>
  BY <1>1, <1>2, EndsTypeInv DEF Format, Exit
<1>3. CASE cmd.files # <<>>
  <2>1. pc = "format" /\ cmd.op = "create" /\ cmd \in Commands
    BY DEF Format, TypeInv, TypeOK, PhaseOK, NoCommand
  <2>2. /\ pc' = "create" /\ job' = 1
        /\ UNCHANGED <<cmd, fat, tabs, at, slot, head, copy, todo, res>>
    BY <1>3 DEF Format
  <2>3. job' \in 1 .. Len(cmd.files)
    BY <1>3, <2>1, <2>2, PutCommand
  <2>4. TypeOK'
    BY <1>1, <2>2 DEF TypeInv, TypeOK
  <2>5. TablesComplete'
    BY <2>1, <2>2 DEF TypeInv, PhaseOK, TablesComplete
  <2>6. PhaseOK'
    BY <2>1, <2>2, <2>3, <2>5 DEF TypeInv, PhaseOK, Running
  <2> QED
    BY <2>4, <2>6 DEF TypeInv
<1> QED
  BY <1>2, <1>3

\* When the scan is over every directory has its table.
LEMMA ScannedComplete ==
    ASSUME Unscanned = {}
    PROVE  TablesComplete
<1> SUFFICES ASSUME NEW d \in DOMAIN tabs, NEW i \in DOMAIN tabs[d], IsSubdir(tabs[d][i])
             PROVE  Append(d, i) \in DOMAIN tabs
  BY DEF TablesComplete
<1>1. Append(d, i) \in Subdirectories(d)
  BY DEF Subdirectories
<1> QED
  BY <1>1 DEF Unscanned

LEMMA BeginPutTypeInv == TypeInv /\ BeginPut => TypeInv'
<1> SUFFICES ASSUME TypeInv, BeginPut PROVE TypeInv'
  OBVIOUS
<1>1. pc = "scan" /\ cmd.op = "put" /\ cmd \in Commands
  BY DEF BeginPut, Opened, TypeInv, TypeOK, NoCommand
<1>2. TablesComplete
  BY ScannedComplete DEF BeginPut, Opened
<1>3. UNCHANGED <<fats, root, data, cmd, fat, tabs, at, slot, head, todo, res>>
  BY DEF BeginPut
<1>4. TablesComplete'
  BY <1>2, <1>3 DEF TablesComplete
<1>5. CASE cmd.files = <<>>
  <2>1. pc' = "fat" /\ copy' = 1 /\ job' = job
    BY <1>5 DEF BeginPut, BeginWrite
  <2> QED
    BY <1>1, <1>3, <2>1, NumberOfFatsAssumption DEF TypeInv, TypeOK, PhaseOK, Running
<1>6. CASE cmd.files # <<>>
  <2>1. pc' = "create" /\ copy' = copy /\ job' = 1
    BY <1>6 DEF BeginPut
  <2>2. job' \in 1 .. Len(cmd.files)
    BY <1>1, <1>6, <2>1, PutCommand
  <2> QED
    BY <1>1, <1>3, <1>4, <2>1, <2>2 DEF TypeInv, TypeOK, PhaseOK, Running
<1> QED
  BY <1>5, <1>6

LEMMA CreateFileTypeInv == TypeInv /\ CreateFile => TypeInv'
<1> SUFFICES ASSUME TypeInv, CreateFile PROVE TypeInv'
  OBVIOUS
<1> DEFINE size == cmd.files[job].size
<1>1. /\ pc = "create" /\ cmd \in Commands /\ cmd.op \in {"create", "put"}
      /\ job \in 1 .. Len(cmd.files) /\ TablesComplete
  BY DEF CreateFile, TypeInv, TypeOK, PhaseOK, NoCommand
<1>2. size \in Nat /\ Len(cmd.files[job].path) > 0
  BY <1>1, PutCommand
<1>3. /\ CanAllocate(fat, size)
      /\ fat' = Allocate(fat, size) /\ head' = AllocatedHead(fat, size)
      /\ data' = StoreFile(Chain(fat', head'), size)
      /\ pc' = "path" /\ at' = <<>>
      /\ UNCHANGED <<fats, root, cmd, tabs, slot, job, copy, todo, res>>
  BY DEF CreateFile
<1>4. fat' \in [Clusters -> FatValues] /\ head' \in Clusters
  BY <1>2, <1>3, AllocateFacts DEF TypeInv, TypeOK
<1>5. data' \in [Clusters -> Block]
  BY <1>2, <1>3, StoreFileType DEF TypeInv, TypeOK
<1>6. TypeOK'
  BY <1>3, <1>4, <1>5 DEF TypeInv, TypeOK
<1>7. TablesComplete'
  BY <1>1, <1>3 DEF TablesComplete
<1>8. PhaseOK'
  BY <1>1, <1>2, <1>3, <1>7 DEF TypeInv, PhaseOK, Running
<1> QED
  BY <1>6, <1>8 DEF TypeInv

LEMMA EnterDirectoryTypeInv == TypeInv /\ EnterDirectory => TypeInv'
<1> SUFFICES ASSUME TypeInv, EnterDirectory PROVE TypeInv'
  OBVIOUS
<1> DEFINE i == Min(SlotsNamed(tabs[at], Component))
<1>1. /\ pc = "path" /\ cmd \in Commands /\ cmd.op \in {"create", "put"}
      /\ job \in 1 .. Len(cmd.files) /\ TablesComplete
      /\ at \in DOMAIN tabs /\ Len(at) < Len(PathOf) /\ at \in Seq(Nat)
  BY DEF EnterDirectory, TypeInv, TypeOK, PhaseOK, NoCommand, PathOf
<1>2. PathOf \in Seq(Names)
  BY <1>1, PutCommand DEF PathOf
<1>3. Component \in Names
  BY <1>1, <1>2 DEF Component
<1>4. tabs[at] \in Seq(Entry)
  BY <1>1 DEF TypeInv, TypeOK
<1>5. i \in SlotsNamed(tabs[at], Component)
  <2>1. SlotsNamed(tabs[at], Component) \in SUBSET Nat
    BY <1>4 DEF SlotsNamed
  <2> QED
    BY <2>1, MinOfNaturals DEF EnterDirectory
<1>6. i \in DOMAIN tabs[at] /\ i \in Nat /\ tabs[at][i].name = Component
  BY <1>4, <1>5 DEF SlotsNamed
<1>7. tabs[at][i].dir /\ at' = Append(at, i) /\ ~ AtLastComponent
      /\ UNCHANGED <<fats, root, data, pc, cmd, fat, tabs, slot, head, job, copy, todo, res>>
  BY DEF EnterDirectory
<1>8. IsSubdir(tabs[at][i])
  BY <1>3, <1>6, <1>7, NamesAssumption DEF IsSubdir, IsEmpty, IsDotDir
<1>9. at' \in DOMAIN tabs
  BY <1>1, <1>6, <1>7, <1>8 DEF TablesComplete
<1>10. Len(at') < Len(PathOf)
  BY <1>1, <1>2, <1>6, <1>7 DEF AtLastComponent
<1>11. TypeOK'
  BY <1>1, <1>6, <1>7 DEF TypeInv, TypeOK
<1>12. TablesComplete'
  BY <1>1, <1>7 DEF TablesComplete
<1>13. PhaseOK'
  BY <1>1, <1>7, <1>9, <1>10, <1>12 DEF TypeInv, PhaseOK, Running, PathOf
<1> QED
  BY <1>11, <1>13 DEF TypeInv

LEMMA MakeDirectoryTypeInv == TypeInv /\ MakeDirectory => TypeInv'
<1> SUFFICES ASSUME TypeInv, MakeDirectory PROVE TypeInv'
  OBVIOUS
<1> DEFINE i == FirstFree(tabs[at])
           p == Append(at, i)
           e == NewDirectory(Component, AllocatedHead(fat, DirClusters))
           edited == [tabs EXCEPT ![at][i] = e]
<1>1. /\ pc = "path" /\ cmd \in Commands /\ cmd.op \in {"create", "put"}
      /\ job \in 1 .. Len(cmd.files) /\ TablesComplete
      /\ at \in DOMAIN tabs /\ Len(at) < Len(PathOf) /\ at \in Seq(Nat)
  BY DEF MakeDirectory, TypeInv, TypeOK, PhaseOK, NoCommand, PathOf
<1>2. PathOf \in Seq(Names)
  BY <1>1, PutCommand DEF PathOf
<1>3. Component \in Names
  BY <1>1, <1>2 DEF Component
<1>4. tabs[at] \in Seq(Entry) /\ fat \in [Clusters -> FatValues]
  BY <1>1 DEF TypeInv, TypeOK
<1>5. i \in SlotsNamed(tabs[at], NoName)
  <2>1. SlotsNamed(tabs[at], NoName) \in SUBSET Nat
    BY <1>4 DEF SlotsNamed
  <2> QED
    BY <2>1, MinOfNaturals DEF MakeDirectory, FirstFree
<1>6. i \in DOMAIN tabs[at] /\ i \in Nat
  BY <1>4, <1>5 DEF SlotsNamed
<1>7. /\ tabs' = [q \in DOMAIN tabs \union {p} |-> IF q = p THEN NewTable ELSE edited[q]]
      /\ fat' = Allocate(fat, DirClusters) /\ at' = p
      /\ CanAllocate(fat, DirClusters) /\ ~ AtLastComponent
      /\ UNCHANGED <<fats, root, data, pc, cmd, slot, head, job, copy, todo, res>>
  BY DEF MakeDirectory
<1>8. fat' \in [Clusters -> FatValues] /\ AllocatedHead(fat, DirClusters) \in Clusters
  BY <1>4, <1>7, AllocateFacts, SlotAssumption
<1>9. e \in Entry
  BY <1>3, <1>8, DirectoryEntryType
<1>10. /\ edited \in [DOMAIN tabs -> Seq(Entry)]
       /\ \A q \in DOMAIN tabs : Len(edited[q]) = Len(tabs[q])
       /\ \A q \in DOMAIN tabs : DOMAIN edited[q] = DOMAIN tabs[q]
       /\ \A q \in DOMAIN tabs : \A k \in DOMAIN tabs[q] :
            <<q, k>> # <<at, i>> => edited[q][k] = tabs[q][k]
  BY <1>1, <1>6, <1>9, EditType DEF TypeInv, TypeOK
<1>11. p \in Seq(Nat) /\ p # <<>> /\ Len(p) = Len(at) + 1
  BY <1>1, <1>6
<1> HIDE DEF edited, e, i
<1>12. /\ DOMAIN tabs' = DOMAIN tabs \union {p}
       /\ tabs' \in [DOMAIN tabs' -> Seq(Entry)]
       /\ tabs'[p] = NewTable
       /\ \A q \in DOMAIN tabs \ {p} : tabs'[q] = edited[q]
  BY <1>7, <1>10, NewTableType
<1>13. TypeOK'
  BY <1>7, <1>8, <1>11, <1>12 DEF TypeInv, TypeOK
<1>14. TablesComplete'
  <2>1. SUFFICES ASSUME NEW d \in DOMAIN tabs', NEW k \in DOMAIN tabs'[d],
                        IsSubdir(tabs'[d][k])
                 PROVE  Append(d, k) \in DOMAIN tabs'
    BY DEF TablesComplete, IsSubdir, IsEmpty, IsDotDir
  <2>2. CASE d = p
    <3>1. ~ IsSubdir(NewTable[k])
      <4>1. k \in 1 .. NewDirSlots
        BY <1>12, <2>2 DEF NewTable
      <4> QED
        BY <4>1, EntryTypes DEF NewTable, NewDirectory, IsSubdir, IsEmpty, IsDotDir
    <3> QED
      BY <1>12, <2>1, <2>2, <3>1
  <2>3. CASE d # p /\ <<d, k>> = <<at, i>>
    BY <1>12, <2>3
  <2>4. CASE d # p /\ <<d, k>> # <<at, i>>
    <3>1. d \in DOMAIN tabs /\ k \in DOMAIN tabs[d] /\ tabs'[d][k] = tabs[d][k]
      BY <1>10, <1>12, <2>4
    <3> QED
      BY <1>1, <1>12, <2>1, <3>1 DEF TablesComplete
  <2> QED
    BY <2>2, <2>3, <2>4
<1>15. <<>> \in DOMAIN tabs' /\ Len(tabs'[<<>>]) = RootSlots
  BY <1>1, <1>10, <1>11, <1>12 DEF TypeInv, PhaseOK, Running
<1>16. Len(at') < Len(PathOf)
  BY <1>1, <1>2, <1>7, <1>11 DEF AtLastComponent
<1>17. PhaseOK'
  BY <1>1, <1>7, <1>12, <1>14, <1>15, <1>16 DEF TypeInv, PhaseOK, PathOf
<1> QED
  BY <1>13, <1>17 DEF TypeInv

LEMMA FillEntryTypeInv == TypeInv /\ FillEntry => TypeInv'
<1> SUFFICES ASSUME TypeInv, FillEntry PROVE TypeInv'
  OBVIOUS
<1> DEFINE i == Min(EntrySlots(tabs[at], Component))
           e == FileEntry(tabs[at][i], Component, head, cmd.files[job].size)
           edited == [tabs EXCEPT ![at][i] = e]
<1>1. /\ pc = "path" /\ cmd \in Commands /\ cmd.op \in {"create", "put"}
      /\ job \in 1 .. Len(cmd.files) /\ TablesComplete
      /\ at \in DOMAIN tabs /\ Len(at) < Len(PathOf) /\ at \in Seq(Nat)
  BY DEF FillEntry, TypeInv, TypeOK, PhaseOK, NoCommand, PathOf
<1>2. PathOf \in Seq(Names) /\ cmd.files[job].size \in Nat /\ cmd.files \in Seq(Job)
  BY <1>1, PutCommand DEF PathOf
<1>3. Component \in Names
  BY <1>1, <1>2 DEF Component
<1>4. tabs[at] \in Seq(Entry) /\ head \in Clusters \union {0}
  BY <1>1 DEF TypeInv, TypeOK
<1>5. i \in EntrySlots(tabs[at], Component)
  <2>1. EntrySlots(tabs[at], Component) \in SUBSET Nat
    BY <1>4 DEF EntrySlots, SlotsNamed
  <2> QED
    BY <2>1, MinOfNaturals DEF FillEntry
<1>6. /\ i \in DOMAIN tabs[at] /\ i \in Nat
      /\ tabs[at][i].name \in {Component, NoName}
  <2>1. i \in SlotsNamed(tabs[at], Component) \union SlotsNamed(tabs[at], NoName)
    BY <1>5 DEF EntrySlots
  <2> HIDE DEF i
  <2> QED
    BY <1>4, <2>1 DEF SlotsNamed
<1>7. /\ tabs' = edited
      /\ UNCHANGED <<fats, root, data, cmd, fat, at, slot, head, todo, res>>
  BY DEF FillEntry
<1>8. tabs[at][i] \in Entry
  BY <1>4, <1>6
<1>9. e \in Entry /\ (IsSubdir(e) => IsSubdir(tabs[at][i]))
  <2>1. tabs[at][i] \in AnyEntry
    BY <1>8 DEF Entry
  <2>2. e \in AnyEntry /\ e.name = Component /\ e.dir = tabs[at][i].dir
    BY <1>2, <1>3, <1>4, <2>1 DEF AnyEntry, FileEntry
  <2>3. e \in Entry
    BY <1>3, <2>2, NamesAssumption DEF Entry
  <2>4. tabs[at][i].name = NoName => ~ tabs[at][i].dir
    BY <1>8 DEF Entry, EmptyEntry
  <2>5. IsSubdir(e) => IsSubdir(tabs[at][i])
    BY <1>3, <1>6, <2>2, <2>4, NamesAssumption DEF IsSubdir, IsEmpty, IsDotDir
  <2> QED
    BY <2>3, <2>5
<1>10. /\ edited \in [DOMAIN tabs -> Seq(Entry)]
       /\ \A q \in DOMAIN tabs : Len(edited[q]) = Len(tabs[q])
       /\ \A q \in DOMAIN tabs : DOMAIN edited[q] = DOMAIN tabs[q]
       /\ edited[at][i] = e
       /\ \A q \in DOMAIN tabs : \A k \in DOMAIN tabs[q] :
            <<q, k>> # <<at, i>> => edited[q][k] = tabs[q][k]
  BY <1>1, <1>6, <1>9, EditType DEF TypeInv, TypeOK
<1> HIDE DEF edited, e, i
<1>11. TablesComplete'
  <2>1. SUFFICES ASSUME NEW d \in DOMAIN tabs, NEW k \in DOMAIN tabs[d],
                        IsSubdir(tabs'[d][k])
                 PROVE  Append(d, k) \in DOMAIN tabs
    BY <1>7, <1>10 DEF TablesComplete, IsSubdir, IsEmpty, IsDotDir
  <2>2. IsSubdir(tabs[d][k])
    BY <1>7, <1>9, <1>10, <2>1
  <2> QED
    BY <1>1, <2>2 DEF TablesComplete
<1>12. <<>> \in DOMAIN tabs' /\ Len(tabs'[<<>>]) = RootSlots
  BY <1>1, <1>7, <1>10 DEF TypeInv, PhaseOK, Running
<1>13. CASE job = Len(cmd.files)
  <2>1. pc' = "fat" /\ copy' = 1 /\ job' = job
    BY <1>13 DEF FillEntry, BeginWrite
  <2>2. TypeOK'
    BY <1>7, <1>10, <2>1, NumberOfFatsAssumption DEF TypeInv, TypeOK
  <2>3. PhaseOK'
    BY <1>1, <1>7, <1>12, <2>1 DEF TypeInv, PhaseOK
  <2> QED
    BY <2>2, <2>3 DEF TypeInv
<1>14. CASE job # Len(cmd.files)
  <2>1. pc' = "create" /\ copy' = copy /\ job' = job + 1
    BY <1>14 DEF FillEntry
  <2>2. job' \in 1 .. Len(cmd.files)
    BY <1>1, <1>2, <1>14, <2>1
  <2>3. TypeOK'
    BY <1>1, <1>7, <1>10, <2>1, <2>2 DEF TypeInv, TypeOK
  <2>4. PhaseOK'
    BY <1>1, <1>7, <1>11, <1>12, <2>1, <2>2 DEF TypeInv, PhaseOK
  <2> QED
    BY <2>3, <2>4 DEF TypeInv
<1> QED
  BY <1>13, <1>14

LEMMA BeginDeleteTypeInv == TypeInv /\ BeginDelete => TypeInv'
<1> SUFFICES ASSUME TypeInv, BeginDelete PROVE TypeInv'
  OBVIOUS
<1>1. /\ pc = "scan" /\ pc' = "visit"
      /\ UNCHANGED <<fats, root, data, cmd, fat, tabs, head, job, copy, todo, res>>
  BY DEF BeginDelete, Opened
<1>2. at' \in DOMAIN tabs /\ slot' \in DOMAIN tabs[at']
  BY DEF BeginDelete
<1>3. at' \in Seq(Nat) /\ slot' \in Nat
  BY <1>2 DEF TypeInv, TypeOK
<1>4. TypeOK'
  BY <1>1, <1>3 DEF TypeInv, TypeOK
<1>5. PhaseOK'
  BY <1>1 DEF TypeInv, PhaseOK, Running
<1> QED
  BY <1>4, <1>5 DEF TypeInv

LEMMA VisitEntryTypeInv == TypeInv /\ VisitEntry => TypeInv'
<1> SUFFICES ASSUME TypeInv, VisitEntry PROVE TypeInv'
  OBVIOUS
<1>1. /\ pc = "visit" /\ pc' \in {"sweep", "erase"}
      /\ UNCHANGED <<fats, root, data, cmd, fat, tabs, head, job, copy, todo, res>>
  BY DEF VisitEntry
<1>2. /\ at' \in Seq(Nat) /\ slot' \in Nat
      /\ pc' = "sweep" => at' # <<>>
  <2>1. at \in Seq(Nat) /\ slot \in Nat
    BY DEF TypeInv, TypeOK
  <2>2. \/ pc' = "sweep" /\ at' = Append(at, slot) /\ slot' = 0
        \/ pc' = "erase" /\ at' = at /\ slot' = slot
    BY DEF VisitEntry
  <2>3. Append(at, slot) \in Seq(Nat) /\ Append(at, slot) # <<>>
    BY <2>1, AppendFacts
  <2>4. CASE pc' = "sweep" /\ at' = Append(at, slot) /\ slot' = 0
    BY <2>3, <2>4
  <2>5. CASE pc' = "erase" /\ at' = at /\ slot' = slot
    BY <2>1, <2>5
  <2> QED
    BY <2>2, <2>4, <2>5
<1>3. TypeOK'
  BY <1>1, <1>2 DEF TypeInv, TypeOK
<1>4. PhaseOK'
  BY <1>1, <1>2 DEF TypeInv, PhaseOK, Running
<1> QED
  BY <1>3, <1>4 DEF TypeInv

LEMMA SweepDirectoryTypeInv == TypeInv /\ SweepDirectory => TypeInv'
<1> SUFFICES ASSUME TypeInv, SweepDirectory PROVE TypeInv'
  OBVIOUS
<1>1. /\ pc = "sweep" /\ pc' \in {"visit", "erase"}
      /\ UNCHANGED <<fats, root, data, cmd, fat, tabs, head, job, copy, todo, res>>
  BY DEF SweepDirectory
<1>2. at \in Seq(Nat) /\ at # <<>> /\ at \in DOMAIN tabs /\ tabs[at] \in Seq(Entry)
  BY <1>1 DEF SweepDirectory, TypeInv, TypeOK, PhaseOK
<1>3. at' \in Seq(Nat) /\ slot' \in Nat
  <2>1. CASE Victims(tabs[at]) # {}
    <3>1. Victims(tabs[at]) \in SUBSET Nat
      BY <1>2 DEF Victims
    <3>2. Min(Victims(tabs[at])) \in Nat
      BY <2>1, <3>1, MinOfNaturals
    <3> QED
      BY <1>2, <2>1, <3>2 DEF SweepDirectory
  <2>2. CASE Victims(tabs[at]) = {}
    <3>1. at' = Front(at) /\ slot' = Last(at)
      BY <2>2 DEF SweepDirectory
    <3>2. Len(at) \in Nat \ {0}
      BY <1>2
    <3>3. Last(at) \in Nat
      BY <1>2, <3>2 DEF Last
    <3>4. Front(at) \in Seq(Nat)
      BY <1>2, <3>2 DEF Front
    <3> QED
      BY <3>1, <3>3, <3>4
  <2> QED
    BY <2>1, <2>2
<1>4. TypeOK'
  BY <1>1, <1>3 DEF TypeInv, TypeOK
<1>5. PhaseOK'
  BY <1>1 DEF TypeInv, PhaseOK, Running
<1> QED
  BY <1>4, <1>5 DEF TypeInv

LEMMA EraseEntryTypeInv == TypeInv /\ EraseEntry => TypeInv'
<1> SUFFICES ASSUME TypeInv, EraseEntry PROVE TypeInv'
  OBVIOUS
<1> DEFINE first == tabs[at][slot].first
           edited == [tabs EXCEPT ![at][slot] = EmptyEntry]
           kept == {p \in DOMAIN tabs : ~ IsPrefix(Append(at, slot), p)}
<1>1. pc = "erase" /\ at \in DOMAIN tabs /\ slot \in DOMAIN tabs[at]
  BY DEF EraseEntry, Located
<1>2. CASE ~ (first = 0 \/ HasChain(fat, first))
  BY <1>2, DiskUnchangedTypeInv DEF EraseEntry, Undefined
<1>3. CASE first = 0 \/ HasChain(fat, first)
  <2>1. /\ data' = IF first = 0 THEN data ELSE ZeroChain(Chain(fat, first))
        /\ tabs' = [p \in kept |-> edited[p]]
        /\ pc' = "fat" /\ copy' = 1
        /\ UNCHANGED <<fats, root, cmd, fat, at, slot, head, job, todo, res>>
    BY <1>3 DEF EraseEntry, BeginWrite
  <2>2. data' \in [Clusters -> Block]
    BY <2>1, ZeroChainType DEF TypeInv, TypeOK
  <2>3. /\ edited \in [DOMAIN tabs -> Seq(Entry)]
        /\ \A q \in DOMAIN tabs : Len(edited[q]) = Len(tabs[q])
    BY <1>1, EditType, EntryTypes DEF TypeInv, TypeOK
  <2> HIDE DEF edited
  <2>4. DOMAIN tabs' = kept /\ tabs' \in [DOMAIN tabs' -> Seq(Entry)]
    BY <2>1, <2>3
  <2>5. <<>> \in kept
    <3>1. Len(Append(at, slot)) = Len(at) + 1 /\ Len(at) \in Nat
      BY DEF TypeInv, TypeOK
    <3>2. ~ IsPrefix(Append(at, slot), <<>>)
      BY <3>1 DEF IsPrefix
    <3> QED
      BY <3>2 DEF TypeInv, PhaseOK
  <2>6. Len(tabs'[<<>>]) = RootSlots
    BY <1>1, <2>1, <2>3, <2>5 DEF TypeInv, PhaseOK, Running
  <2>7. todo = {}
    BY <1>1 DEF TypeInv, PhaseOK
  <2>8. TypeOK'
    BY <2>1, <2>2, <2>4, <2>7, NumberOfFatsAssumption DEF TypeInv, TypeOK
  <2>9. PhaseOK'
    BY <2>1, <2>4, <2>5, <2>6, <2>7 DEF PhaseOK
  <2> QED
    BY <2>8, <2>9 DEF TypeInv
<1> QED
  BY <1>2, <1>3

\* The slots that lead to a moved directory are replaced, those of others kept.
LEMMA RekeyedType ==
    ASSUME NEW tables, DOMAIN tables \subseteq Seq(Nat),
           tables \in [DOMAIN tables -> Seq(Entry)],
           <<>> \in DOMAIN tables,
           NEW from \in Seq(Nat), NEW to \in Seq(Nat), from # <<>>, to # <<>>
    PROVE  LET moved == Rekeyed(tables, from, to)
           IN  /\ DOMAIN moved \subseteq Seq(Nat)
               /\ moved \in [DOMAIN moved -> Seq(Entry)]
               /\ <<>> \in DOMAIN moved
               /\ moved[<<>>] = tables[<<>>]
<1> DEFINE Keys == {Relocated(p, from, to) : p \in DOMAIN tables}
           Origin(q) == CHOOSE p \in DOMAIN tables : Relocated(p, from, to) = q
           moved == Rekeyed(tables, from, to)
<1>1. ASSUME NEW p \in DOMAIN tables
      PROVE  /\ Relocated(p, from, to) \in Seq(Nat)
             /\ Relocated(p, from, to) = <<>> <=> p = <<>>
  <2>1. p \in Seq(Nat)
    OBVIOUS
  <2>2. CASE ~ IsPrefix(from, p)
    <3>1. Relocated(p, from, to) = p
      BY <2>2 DEF Relocated
    <3> QED
      BY <2>1, <3>1
  <2>3. CASE IsPrefix(from, p)
    <3>1. Relocated(p, from, to) = to \o SubSeq(p, Len(from) + 1, Len(p))
      BY <2>3 DEF Relocated
    <3>2. SubSeq(p, Len(from) + 1, Len(p)) \in Seq(Nat)
      <4>1. Len(from) \in Nat
        OBVIOUS
      <4> QED
        BY <2>1, <4>1, TailType
    <3>3. to \o SubSeq(p, Len(from) + 1, Len(p)) \in Seq(Nat)
      BY <3>2
    <3>4. Len(to \o SubSeq(p, Len(from) + 1, Len(p))) > 0
      BY <3>2, SMTT(30)
    <3>5. p # <<>>
      BY <2>1, <2>3 DEF IsPrefix
    <3> QED
      BY <3>1, <3>3, <3>4, <3>5
  <2> QED
    BY <2>2, <2>3
<1>2. ASSUME NEW q \in Keys
      PROVE  Origin(q) \in DOMAIN tables /\ Relocated(Origin(q), from, to) = q
  OBVIOUS
<1>3. moved = [q \in Keys |-> tables[Origin(q)]]
  BY DEF Rekeyed
<1>4. Keys \subseteq Seq(Nat) /\ <<>> \in Keys
  BY <1>1
<1>5. Origin(<<>>) = <<>>
  BY <1>1, <1>2, <1>4
<1>6. DOMAIN moved = Keys
  BY <1>3
<1>7. \A q \in Keys : moved[q] \in Seq(Entry)
  BY <1>2, <1>3
<1>8. moved[<<>>] = tables[<<>>]
  BY <1>3, <1>4, <1>5
<1>9. moved \in [Keys -> Seq(Entry)]
  <2> HIDE DEF Origin
  <2> QED
    BY <1>3, <1>7
<1> HIDE DEF Keys, Origin
<1> QED
  BY <1>4, <1>6, <1>8, <1>9

LEMMA MoveEntryTypeInv == TypeInv /\ MoveEntry => TypeInv'
<1> SUFFICES ASSUME TypeInv, MoveEntry PROVE TypeInv'
  OBVIOUS
<1>1. PICK d \in DOMAIN tabs, dest \in DOMAIN tabs : \E i \in DOMAIN tabs[d] :
        /\ Movable(d, i, dest)
        /\ LET j == FirstFree(tabs[dest])
               edited == [[tabs EXCEPT ![dest][j] = tabs[d][i]]
                             EXCEPT ![d][i] = EmptyEntry]
           IN  tabs' = Rekeyed(edited, Append(d, i), Append(dest, j))
  BY DEF MoveEntry
<1>2. PICK i \in DOMAIN tabs[d] :
        /\ Movable(d, i, dest)
        /\ LET j == FirstFree(tabs[dest])
               edited == [[tabs EXCEPT ![dest][j] = tabs[d][i]]
                             EXCEPT ![d][i] = EmptyEntry]
           IN  tabs' = Rekeyed(edited, Append(d, i), Append(dest, j))
  BY <1>1
<1> DEFINE j == FirstFree(tabs[dest])
           filled == [tabs EXCEPT ![dest][j] = tabs[d][i]]
           edited == [filled EXCEPT ![d][i] = EmptyEntry]
<1>3. /\ pc = "scan" /\ pc' = "fat" /\ copy' = 1
      /\ UNCHANGED <<fats, root, data, cmd, fat, at, slot, head, job, todo, res>>
  BY DEF MoveEntry, Opened, BeginWrite
<1>4. /\ tabs[d] \in Seq(Entry) /\ tabs[dest] \in Seq(Entry)
      /\ d \in Seq(Nat) /\ dest \in Seq(Nat) /\ i \in Nat
      /\ DOMAIN tabs \subseteq Seq(Nat) /\ tabs \in [DOMAIN tabs -> Seq(Entry)]
  BY DEF TypeInv, TypeOK
<1>5. j \in DOMAIN tabs[dest] /\ j \in Nat
  <2>1. SlotsNamed(tabs[dest], NoName) \in SUBSET Nat
    BY <1>4 DEF SlotsNamed
  <2>2. j \in SlotsNamed(tabs[dest], NoName)
    BY <1>2, <2>1, MinOfNaturals DEF Movable, FirstFree
  <2> HIDE DEF j
  <2> QED
    BY <1>4, <2>2 DEF SlotsNamed
<1>6. tabs[d][i] \in Entry
  BY <1>4
<1>7. /\ filled \in [DOMAIN tabs -> Seq(Entry)]
      /\ \A q \in DOMAIN tabs : Len(filled[q]) = Len(tabs[q])
      /\ \A q \in DOMAIN tabs : DOMAIN filled[q] = DOMAIN tabs[q]
  BY <1>4, <1>5, <1>6, EditType
<1>8. tabs' = Rekeyed(edited, Append(d, i), Append(dest, j))
  BY <1>2
<1> HIDE DEF filled, j
<1>9. DOMAIN filled = DOMAIN tabs
  BY <1>7
<1>10. /\ edited \in [DOMAIN tabs -> Seq(Entry)]
       /\ \A q \in DOMAIN tabs : Len(edited[q]) = Len(tabs[q])
  BY <1>4, <1>7, <1>9, EditType, EntryTypes
<1> HIDE DEF edited
<1>11. /\ Append(d, i) \in Seq(Nat) /\ Append(d, i) # <<>>
       /\ Append(dest, j) \in Seq(Nat) /\ Append(dest, j) # <<>>
  BY <1>4, <1>5, AppendFacts
<1>12. <<>> \in DOMAIN tabs /\ Len(tabs[<<>>]) = RootSlots /\ todo = {}
  BY <1>3 DEF TypeInv, PhaseOK, Running
<1>13. /\ DOMAIN tabs' \subseteq Seq(Nat)
       /\ tabs' \in [DOMAIN tabs' -> Seq(Entry)]
       /\ <<>> \in DOMAIN tabs'
       /\ tabs'[<<>>] = edited[<<>>]
  BY <1>4, <1>8, <1>10, <1>11, <1>12, RekeyedType
<1>14. TypeOK'
  BY <1>3, <1>12, <1>13, NumberOfFatsAssumption DEF TypeInv, TypeOK
<1>15. PhaseOK'
  BY <1>3, <1>10, <1>12, <1>13 DEF PhaseOK
<1> QED
  BY <1>14, <1>15 DEF TypeInv

LEMMA WriteFatTypeInv == TypeInv /\ WriteFat => TypeInv'
<1> SUFFICES ASSUME TypeInv, WriteFat PROVE TypeInv'
  OBVIOUS
<1>1. /\ pc = "fat" /\ copy \in 1 .. NumberOfFats /\ todo = {}
      /\ UNCHANGED <<root, data, cmd, fat, tabs, at, slot, head, job, res>>
  BY NumberOfFatsAssumption, SMTT(30) DEF WriteFat, TypeInv, TypeOK, PhaseOK
<1>2. SavedFat \in [Stored -> FatValues]
  BY ClusterSets DEF SavedFat, TypeInv, TypeOK
<1>3. fats' \in [1 .. NumberOfFats -> [Stored -> FatValues]]
  BY <1>2 DEF WriteFat, TypeInv, TypeOK
<1>4. CASE copy < NumberOfFats
  <2>1. copy' = copy + 1 /\ UNCHANGED <<pc, todo>>
    BY <1>4 DEF WriteFat
  <2>2. copy' \in 1 .. NumberOfFats
    BY <1>1, <1>4, <2>1, NumberOfFatsAssumption
  <2>3. TypeOK'
    BY <1>1, <1>3, <2>1, <2>2 DEF TypeInv, TypeOK
  <2>4. PhaseOK'
    BY <1>1, <2>1, <2>2 DEF TypeInv, PhaseOK, Running
  <2> QED
    BY <2>3, <2>4 DEF TypeInv
<1>5. CASE ~ (copy < NumberOfFats)
  <2>1. pc' = "dirs" /\ copy' = 0 /\ todo' = DOMAIN tabs \ {<<>>}
    BY <1>5 DEF WriteFat
  <2>2. TypeOK'
    BY <1>1, <1>3, <2>1, NumberOfFatsAssumption DEF TypeInv, TypeOK
  <2>3. PhaseOK'
    BY <1>1, <2>1 DEF TypeInv, PhaseOK, Running
  <2> QED
    BY <2>2, <2>3 DEF TypeInv
<1> QED
  BY <1>4, <1>5

LEMMA WriteDirectoryTypeInv == TypeInv /\ WriteDirectory => TypeInv'
<1> SUFFICES ASSUME TypeInv, WriteDirectory PROVE TypeInv'
  OBVIOUS
<1>1. PICK p \in todo :
        IF CanStore(p)
        THEN /\ data' = StoreTable(Chain(fat, HeadOf(p)), tabs[p])
             /\ todo' = todo \ {p}
             /\ UNCHANGED <<fats, root, pc, cmd, fat, tabs, at, slot, head, job, copy, res>>
        ELSE Undefined
  BY DEF WriteDirectory
<1>2. CASE ~ CanStore(p)
  BY <1>1, <1>2, DiskUnchangedTypeInv DEF Undefined
<1>3. CASE CanStore(p)
  <2>1. /\ pc = "dirs"
        /\ data' = StoreTable(Chain(fat, HeadOf(p)), tabs[p])
        /\ todo' = todo \ {p}
        /\ UNCHANGED <<fats, root, pc, cmd, fat, tabs, at, slot, head, job, copy, res>>
    BY <1>1, <1>3 DEF WriteDirectory
  <2>2. tabs[p] \in Seq(Entry)
    BY DEF TypeInv, TypeOK
  <2>3. data' \in [Clusters -> Block]
    BY <2>1, <2>2, StoreTableType DEF TypeInv, TypeOK
  <2>4. TypeOK'
    BY <2>1, <2>3 DEF TypeInv, TypeOK
  <2>5. PhaseOK'
    BY <2>1 DEF TypeInv, PhaseOK, Running
  <2> QED
    BY <2>4, <2>5 DEF TypeInv
<1> QED
  BY <1>2, <1>3

LEMMA WriteRootTypeInv == TypeInv /\ WriteRoot => TypeInv'
<1> SUFFICES ASSUME TypeInv, WriteRoot PROVE TypeInv'
  OBVIOUS
<1>1. pc = "dirs" /\ todo = {} /\ root' = tabs[<<>>] /\ UNCHANGED <<fats, data>>
  BY DEF WriteRoot
<1>2. tabs[<<>>] \in Seq(Entry) /\ Len(tabs[<<>>]) = RootSlots
  BY <1>1 DEF TypeInv, TypeOK, PhaseOK, Running
<1>3. root' \in [1 .. RootSlots -> Entry]
  BY <1>1, <1>2
<1>4. CASE ~ DeletionGoesOn
  <2>1. Exit("ok")
    BY <1>4 DEF WriteRoot
  <2> QED
    BY <1>1, <1>3, <2>1, EndsTypeInv DEF Exit, TypeInv, TypeOK
<1>5. CASE DeletionGoesOn
  <2>1. /\ pc' = "sweep" /\ slot' = 0
        /\ UNCHANGED <<cmd, fat, tabs, at, head, job, copy, todo, res>>
    BY <1>5 DEF WriteRoot
  <2>2. cmd \in Commands /\ cmd.op = "del"
    BY <1>5 DEF DeletionGoesOn, TypeInv, TypeOK, NoCommand
  <2>3. at # <<>>
    <3>1. Len(at) >= Len(cmd.path) /\ Len(cmd.path) > 0 /\ Len(cmd.path) \in Nat
      BY <1>5, <2>2, DeleteCommand DEF DeletionGoesOn
    <3>2. Len(at) \in Nat /\ Len(at) > 0
      BY <3>1 DEF TypeInv, TypeOK
    <3> QED
      BY <3>2
  <2>4. TypeOK'
    BY <1>1, <1>3, <2>1 DEF TypeInv, TypeOK
  <2>5. PhaseOK'
    BY <1>1, <2>1, <2>3 DEF TypeInv, PhaseOK, Running
  <2> QED
    BY <2>4, <2>5 DEF TypeInv
<1> QED
  BY <1>4, <1>5

LEMMA InterruptTypeInv == TypeInv /\ Interrupt => TypeInv'
<1> SUFFICES ASSUME TypeInv, Interrupt PROVE TypeInv'
  OBVIOUS
<1>1. /\ fats \in [1 .. NumberOfFats -> [Stored -> FatValues]]
      /\ root \in [1 .. RootSlots -> Entry]
      /\ data \in [Clusters -> Block]
      /\ fat \in [Clusters -> FatValues]
  BY DEF TypeInv, TypeOK
<1>2. CASE InterruptedBetweenWrites
  BY <1>2, DiskUnchangedTypeInv DEF InterruptedBetweenWrites, Interrupted
<1>3. CASE InterruptedInFormat
  BY <1>3, DiskUnchangedTypeInv DEF InterruptedInFormat, Undefined
<1>4. CASE InterruptedInFile
  <2>1. /\ cmd \in Commands /\ cmd.op \in {"create", "put"}
        /\ job \in 1 .. Len(cmd.files)
    BY <1>4 DEF InterruptedInFile, TypeInv, TypeOK, PhaseOK, NoCommand
  <2>2. cmd.files[job].size \in Nat
    BY <2>1, PutCommand
  <2>3. data' \in [Clusters -> Block]
    BY <1>1, <1>4, <2>2, StoreFileType DEF InterruptedInFile
  <2> QED
    BY <1>1, <1>4, <2>3, EndsTypeInv DEF InterruptedInFile, Interrupted, Exit
<1>5. CASE InterruptedInErase
  <2>1. data' \in [Clusters -> Block]
    BY <1>1, <1>5, ZeroChainType DEF InterruptedInErase
  <2> QED
    BY <1>1, <1>5, <2>1, EndsTypeInv DEF InterruptedInErase, Interrupted, Exit
<1>6. CASE InterruptedInFat
  <2>1. PICK m \in Stored :
            fats' = [fats EXCEPT ![copy] =
                        [c \in Stored |-> IF c <= m THEN fat[c] ELSE fats[copy][c]]]
    BY <1>6 DEF InterruptedInFat
  <2>2. copy \in 1 .. NumberOfFats
    BY <1>6, NumberOfFatsAssumption DEF InterruptedInFat, TypeInv, TypeOK, PhaseOK
  <2>3. [c \in Stored |-> IF c <= m THEN fat[c] ELSE fats[copy][c]] \in [Stored -> FatValues]
    BY <1>1, <2>2, ClusterSets
  <2>4. fats' \in [1 .. NumberOfFats -> [Stored -> FatValues]]
    BY <1>1, <2>1, <2>3
  <2> QED
    BY <1>1, <1>6, <2>4, EndsTypeInv DEF InterruptedInFat, Interrupted, Exit
<1>7. CASE InterruptedInDirectory
  <2>1. PICK p \in todo : \E s : data' = StoreTable(s, tabs[p])
    BY <1>7 DEF InterruptedInDirectory
  <2>2. tabs[p] \in Seq(Entry)
    BY DEF TypeInv, TypeOK
  <2>3. data' \in [Clusters -> Block]
    BY <1>1, <2>1, <2>2, StoreTableType
  <2> QED
    BY <1>1, <1>7, <2>3, EndsTypeInv DEF InterruptedInDirectory, Interrupted, Exit
<1>8. CASE InterruptedInRoot
  <2>1. tabs[<<>>] \in Seq(Entry) /\ Len(tabs[<<>>]) = RootSlots
    BY <1>8 DEF InterruptedInRoot, TypeInv, TypeOK, PhaseOK, Running
  <2>2. root' \in [1 .. RootSlots -> Entry]
    BY <1>1, <1>8, <2>1 DEF InterruptedInRoot
  <2> QED
    BY <1>1, <1>8, <2>2, EndsTypeInv DEF InterruptedInRoot, Interrupted, Exit
<1> QED
  BY <1>2, <1>3, <1>4, <1>5, <1>6, <1>7, <1>8 DEF Interrupt

\* The steps that end the command without a write.
LEMMA RefusedTypeInv ==
    TypeInv /\ (CreateFileFails \/ WalkPathFails \/ SoftDelete \/ DeleteRefused \/ MoveRefused)
        => TypeInv'
  BY DiskUnchangedTypeInv
     DEF CreateFileFails, WalkPathFails, SoftDelete, DeleteRefused, MoveRefused

LEMMA NextTypeInv == TypeInv /\ [Next]_vars => TypeInv'
<1> SUFFICES ASSUME TypeInv, [Next]_vars PROVE TypeInv'
  OBVIOUS
<1>1. CASE UNCHANGED vars
  BY <1>1 DEF vars, TypeInv, TypeOK, PhaseOK, Running, TablesComplete, IsSubdir, IsEmpty, IsDotDir
<1>2. CASE \E c \in Commands : Start(c) \/ StartCreate(c)
  BY <1>2, StartTypeInv
<1>3. CASE Step
  BY <1>3, ScanDirectoryTypeInv, FormatTypeInv, BeginPutTypeInv, CreateFileTypeInv,
     EnterDirectoryTypeInv, MakeDirectoryTypeInv, FillEntryTypeInv, BeginDeleteTypeInv,
     VisitEntryTypeInv, SweepDirectoryTypeInv, EraseEntryTypeInv, MoveEntryTypeInv,
     WriteFatTypeInv, WriteDirectoryTypeInv, WriteRootTypeInv, RefusedTypeInv
     DEF Step
<1>4. CASE Interrupt
  BY <1>4, InterruptTypeInv
<1> QED
  BY <1>1, <1>2, <1>3, <1>4 DEF Next, Halted

\* The variables keep their types: whatever is interrupted, the disk holds FAT
\* entries, directory entries and file blocks, and an unused directory entry is
\* zeros.
THEOREM TypeCorrect == Spec => []TypeOK
<1>1. Init => TypeInv
  BY InitTypeInv
<1>2. TypeInv /\ [Next]_vars => TypeInv'
  BY NextTypeInv
<1>3. TypeInv => TypeOK
  BY DEF TypeInv
<1> QED
  BY <1>1, <1>2, <1>3, PTL DEF Spec

-----------------------------------------------------------------------------
(***************************************************************************)
(* Tables below one another, and anchored heads.                           *)
(***************************************************************************)
LEMMA BelowTransitive ==
    ASSUME NEW f, NEW g, NEW h, Below(f, g), Below(g, h)
    PROVE  Below(f, h)
  BY DEF Below

LEMMA ZeroAnchored == \A f : Anchored(f, 0)
  BY DEF Anchored

LEMMA BlockHeads ==
    /\ EmptyEntry.first = 0
    /\ \A i \in 1 .. SlotsPerCluster : ZeroBlock.slots[i].first = 0
    /\ \A size, part : \A i \in 1 .. SlotsPerCluster :
            FileBlock(size, part).slots[i].first = 0
  BY DEF EmptyEntry, ZeroBlock, FileBlock, EmptySlots

\* The heads of the root directory and of the clusters.
LEMMA HeadsAnchoredFacts ==
    HeadsAnchored <=>
        \A k \in 1 .. NumberOfFats :
            /\ \A i \in DOMAIN root : Anchored(fats[k], root[i].first)
            /\ \A c \in Clusters : \A i \in 1 .. SlotsPerCluster :
                    Anchored(fats[k], data[c].slots[i].first)
  BY DEF HeadsAnchored, HeadsOnDisk

LEMMA HeadsAnchoredNext ==
    HeadsAnchored' <=>
        \A k \in 1 .. NumberOfFats :
            /\ \A i \in DOMAIN root' : Anchored(fats'[k], root'[i].first)
            /\ \A c \in Clusters : \A i \in 1 .. SlotsPerCluster :
                    Anchored(fats'[k], data'[c].slots[i].first)
  BY SMTT(30) DEF HeadsAnchored, HeadsOnDisk

\* A grown copy anchors the heads it has anchored before.
LEMMA GrownFatsAnchor ==
    ASSUME TypeInv, HeadsAnchored,
           \A k \in 1 .. NumberOfFats : Below(fats[k], fats'[k]),
           UNCHANGED <<root, data>>
    PROVE  HeadsAnchored'
<1>1. ASSUME NEW k \in 1 .. NumberOfFats, NEW h, Anchored(fats[k], h)
      PROVE  Anchored(fats'[k], h)
  <2>1. \A c \in Stored : fats[k][c] \in FatValues
    BY DEF TypeInv, TypeOK
  <2> QED
    BY <1>1, <2>1, AnchoredGrows
<1> QED
  BY <1>1, HeadsAnchoredFacts, HeadsAnchoredNext

\* In memory as well.
LEMMA GrownFatAnchors ==
    ASSUME TypeInv, NEW g, Below(fat, g), NEW h, Anchored(fat, h)
    PROVE  Anchored(g, h)
<1>1. \A c \in Stored : fat[c] \in FatValues
  BY ClusterSets DEF TypeInv, TypeOK
<1> QED
  BY <1>1, AnchoredGrows

\* What is anchored in a copy is anchored in the table of the running command,
\* and the other way round once all copies are written.
LEMMA ReadHeadsAnchored ==
    ASSUME TypeInv, SafetyInv, Running, pc # "format", NEW k \in 1 .. NumberOfFats,
           NEW h, Anchored(fats[k], h)
    PROVE  Anchored(fat, h)
<1>1. \A c \in Stored : fats[k][c] \in FatValues
  BY DEF TypeInv, TypeOK
<1>2. Below(fats[k], fat)
  BY DEF SafetyInv, FatsBelow
<1> QED
  BY <1>1, <1>2, AnchoredGrows

LEMMA WrittenHeadsAnchored ==
    ASSUME TypeInv, SafetyInv, pc = "dirs", NEW k \in 1 .. NumberOfFats,
           NEW h, Anchored(fat, h)
    PROVE  Anchored(fats[k], h)
<1>1. Below(fat, fats[k])
  BY DEF SafetyInv, CopiesSaved, Below
<1> QED
  BY <1>1, GrownFatAnchors

\* The memory of a command that ends says nothing.
LEMMA EndsSafetyInv ==
    ASSUME NEW phase \in {"idle", "undefined"}, NEW result, Ends(phase, result),
           HeadsAnchored', FirstFatLeads'
    PROVE  SafetyInv'
<1>1. MemoryAnchored'
  BY ZeroAnchored DEF Ends, MemoryAnchored
<1>2. FatsBelow' /\ CopiesSaved'
  BY DEF Ends, FatsBelow, CopiesSaved, Running
<1> QED
  BY <1>1, <1>2 DEF SafetyInv

LEMMA DiskUnchanged ==
    ASSUME SafetyInv, UNCHANGED disk
    PROVE  HeadsAnchored' /\ FirstFatLeads'
<1>1. UNCHANGED <<fats, root, data>>
  BY DEF disk
<1> QED
  BY <1>1 DEF SafetyInv, HeadsAnchored, HeadsOnDisk, FirstFatLeads

LEMMA DiskUnchangedSafetyInv ==
    ASSUME SafetyInv, UNCHANGED disk,
           Undefined \/ \E result : Exit(result)
    PROVE  SafetyInv'
<1>1. HeadsAnchored' /\ FirstFatLeads'
  BY DiskUnchanged
<1> QED
  BY <1>1, EndsSafetyInv DEF Undefined, Exit

\* A step that leaves the disk, the FAT in memory and the tables alone, and
\* writes nothing before or after.
LEMMA MemoryUnchangedSafetyInv ==
    ASSUME SafetyInv, Running, pc # "format",
           UNCHANGED <<fats, root, data, fat, tabs, head>>,
           pc' # "dirs", pc' = "fat" => copy' = 1, pc' = "path" => pc = "path"
    PROVE  SafetyInv'
<1>1. HeadsAnchored' /\ FirstFatLeads'
  BY DiskUnchanged DEF disk
<1>2. MemoryAnchored'
  BY DEF SafetyInv, MemoryAnchored
<1>3. FatsBelow'
  BY DEF SafetyInv, FatsBelow
<1>4. CopiesSaved'
  BY DEF CopiesSaved
<1> QED
  BY <1>1, <1>2, <1>3, <1>4 DEF SafetyInv

\* A step that leaves the disk alone and changes the memory.
LEMMA MemoryChangedSafetyInv ==
    ASSUME SafetyInv, Running, pc # "format",
           UNCHANGED <<fats, root, data>>, Below(fat, fat'), MemoryAnchored',
           pc' # "dirs", pc' = "fat" => copy' = 1
    PROVE  SafetyInv'
<1>1. HeadsAnchored' /\ FirstFatLeads'
  BY DiskUnchanged DEF disk
<1>2. FatsBelow'
  BY BelowTransitive DEF SafetyInv, FatsBelow
<1>3. CopiesSaved'
  BY DEF CopiesSaved
<1> QED
  BY <1>1, <1>2, <1>3 DEF SafetyInv

-----------------------------------------------------------------------------
(***************************************************************************)
(* SafetyInv is inductive: the steps that leave the disk alone.            *)
(***************************************************************************)
LEMMA InitSafetyInv == Init => SafetyInv
<1> SUFFICES ASSUME Init PROVE SafetyInv
  OBVIOUS
<1>1. HeadsAnchored
  BY ZeroAnchored, BlockHeads, HeadsAnchoredFacts DEF Init
<1>2. FirstFatLeads
  BY NumberOfFatsAssumption DEF Init, FirstFatLeads, Below
<1>3. MemoryAnchored
  BY ZeroAnchored DEF Init, MemoryAnchored
<1>4. FatsBelow /\ CopiesSaved
  BY DEF Init, FatsBelow, CopiesSaved, Running
<1> QED
  BY <1>1, <1>2, <1>3, <1>4 DEF SafetyInv

LEMMA StartSafetyInv ==
    ASSUME TypeInv, SafetyInv, NEW c \in Commands, Start(c) \/ StartCreate(c)
    PROVE  SafetyInv'
<1>1. HeadsAnchored' /\ FirstFatLeads'
  BY DiskUnchanged DEF Start, StartCreate, disk
<1>2. 1 \in 1 .. NumberOfFats /\ \A k \in Stored : fats[1][k] \in FatValues
  BY NumberOfFatsAssumption DEF TypeInv, TypeOK
<1>3. CASE Start(c)
  <2>1. \A k \in Stored : fat'[k] = fats[1][k]
    BY <1>3, ClusterSets DEF Start
  <2>2. Below(fats[1], fat')
    BY <2>1 DEF Below
  <2>3. ASSUME NEW h, Anchored(fats[1], h)
        PROVE  Anchored(fat', h)
    BY <1>2, <2>2, <2>3, AnchoredGrows
  <2>4. /\ tabs' = [p \in {<<>>} |-> root]
        /\ UNCHANGED fats
        /\ pc' = "scan"
    BY <1>3 DEF Start
  <2>5. MemoryAnchored'
    BY <1>2, <2>3, <2>4, ZeroAnchored, HeadsAnchoredFacts DEF SafetyInv, MemoryAnchored
  <2>6. FatsBelow'
    BY <2>2, <2>4, BelowTransitive DEF SafetyInv, FirstFatLeads, FatsBelow
  <2>7. CopiesSaved'
    BY <2>4 DEF CopiesSaved
  <2> QED
    BY <1>1, <2>5, <2>6, <2>7 DEF SafetyInv
<1>4. CASE StartCreate(c)
  <2>1. pc' = "format" /\ tabs' = [p \in {<<>>} |-> [i \in 1 .. RootSlots |-> EmptyEntry]]
    BY <1>4 DEF StartCreate
  <2>2. MemoryAnchored'
    BY <2>1, ZeroAnchored, BlockHeads DEF MemoryAnchored
  <2>3. FatsBelow' /\ CopiesSaved'
    BY <2>1 DEF FatsBelow, CopiesSaved
  <2> QED
    BY <1>1, <2>2, <2>3 DEF SafetyInv
<1> QED
  BY <1>3, <1>4

LEMMA ScanDirectorySafetyInv == TypeInv /\ SafetyInv /\ ScanDirectory => SafetyInv'
<1> SUFFICES ASSUME TypeInv, SafetyInv, ScanDirectory PROVE SafetyInv'
  OBVIOUS
<1>1. PICK d \in DOMAIN tabs : \E i \in DOMAIN tabs[d] : ScanEntry(d, i)
  BY DEF ScanDirectory
<1>2. PICK i \in DOMAIN tabs[d] : ScanEntry(d, i)
  BY <1>1
<1> DEFINE p == Append(d, i)
           s == Chain(fat, tabs[d][i].first)
<1>3. CASE Undefined
  BY <1>3, DiskUnchangedSafetyInv DEF Undefined
<1>4. CASE ~ Undefined
  <2>1. /\ HasChain(fat, tabs[d][i].first)
        /\ tabs' = [q \in DOMAIN tabs \union {p} |-> IF q = p THEN ReadTable(s) ELSE tabs[q]]
        /\ UNCHANGED <<fats, root, data, pc, cmd, fat, at, slot, head, job, copy, todo, res>>
    BY <1>2, <1>4 DEF ScanEntry
  <2>2. pc = "scan"
    BY DEF ScanDirectory
  <2>3. s \in Seq(Clusters)
    BY <2>1, ChainType
  <2>4. 1 \in 1 .. NumberOfFats /\ SlotsPerCluster \in Nat \ {0} /\ Len(s) \in Nat
    BY <2>3, NumberOfFatsAssumption, SlotAssumption
  <2> HIDE DEF s
  <2>5. ASSUME NEW m \in DOMAIN ReadTable(s)
        PROVE  Anchored(fat, ReadTable(s)[m].first)
    <3> DEFINE k == (m - 1) \div SlotsPerCluster + 1
               r == ((m - 1) % SlotsPerCluster) + 1
    <3>1. m \in 1 .. Len(s) * SlotsPerCluster
      BY DEF ReadTable
    <3>2. k \in 1 .. Len(s) /\ r \in 1 .. SlotsPerCluster
      BY <2>4, <3>1, SMTT(30)
    <3>3. ReadTable(s)[m] = data[s[k]].slots[r]
      BY <3>1 DEF ReadTable
    <3> HIDE DEF k, r
    <3>4. s[k] \in Clusters
      BY <2>3, <3>2
    <3>5. Anchored(fats[1], data[s[k]].slots[r].first)
      BY <2>4, <3>2, <3>4, HeadsAnchoredFacts DEF SafetyInv
    <3>6. Anchored(fat, data[s[k]].slots[r].first)
      BY <2>2, <2>4, <3>5, ReadHeadsAnchored DEF Running
    <3> QED
      BY <3>3, <3>6
  <2>6. ASSUME NEW q \in DOMAIN tabs', NEW m \in DOMAIN tabs'[q]
        PROVE  Anchored(fat, tabs'[q][m].first)
    <3>1. CASE q = p
      BY <2>1, <2>5, <3>1
    <3>2. CASE q # p
      <4>1. q \in DOMAIN tabs /\ tabs'[q] = tabs[q]
        BY <2>1, <3>2
      <4> QED
        BY <4>1 DEF SafetyInv, MemoryAnchored
    <3> QED
      BY <3>1, <3>2
  <2>7. MemoryAnchored'
    BY <2>1, <2>2, <2>6 DEF MemoryAnchored
  <2>8. Below(fat, fat')
    BY <2>1 DEF Below
  <2> QED
    BY <2>1, <2>2, <2>7, <2>8, MemoryChangedSafetyInv DEF Running
<1> QED
  BY <1>3, <1>4

LEMMA BeginPutSafetyInv == TypeInv /\ SafetyInv /\ BeginPut => SafetyInv'
<1> SUFFICES ASSUME TypeInv, SafetyInv, BeginPut PROVE SafetyInv'
  OBVIOUS
<1>1. /\ pc = "scan" /\ pc' \in {"fat", "create"} /\ (pc' = "fat" => copy' = 1)
      /\ UNCHANGED <<fats, root, data, fat, tabs, head>>
  BY DEF BeginPut, Opened, BeginWrite
<1> QED
  BY <1>1, MemoryUnchangedSafetyInv DEF Running

LEMMA EnterDirectorySafetyInv == TypeInv /\ SafetyInv /\ EnterDirectory => SafetyInv'
<1> SUFFICES ASSUME TypeInv, SafetyInv, EnterDirectory PROVE SafetyInv'
  OBVIOUS
<1>1. pc = "path" /\ pc' = "path" /\ UNCHANGED <<fats, root, data, fat, tabs, head>>
  BY DEF EnterDirectory
<1> QED
  BY <1>1, MemoryUnchangedSafetyInv DEF Running

\* Deletions that look at entries.
LEMMA VisitSafetyInv ==
    TypeInv /\ SafetyInv /\ (BeginDelete \/ VisitEntry \/ SweepDirectory) => SafetyInv'
<1> SUFFICES ASSUME TypeInv, SafetyInv, BeginDelete \/ VisitEntry \/ SweepDirectory
             PROVE  SafetyInv'
  OBVIOUS
<1>1. /\ pc \in {"scan", "visit", "sweep"} /\ pc' \in {"visit", "sweep", "erase"}
      /\ UNCHANGED <<fats, root, data, fat, tabs, head>>
  BY DEF BeginDelete, Opened, VisitEntry, SweepDirectory
<1> QED
  BY <1>1, MemoryUnchangedSafetyInv DEF Running

\* A table in memory is changed in one entry.
LEMMA EditAnchored ==
    ASSUME NEW tables, DOMAIN tables \subseteq Seq(Nat),
           tables \in [DOMAIN tables -> Seq(Entry)],
           NEW d \in DOMAIN tables, NEW i \in DOMAIN tables[d], NEW e \in Entry,
           NEW g, Anchored(g, e.first),
           \A p \in DOMAIN tables : \A k \in DOMAIN tables[p] : Anchored(g, tables[p][k].first)
    PROVE  LET edited == [tables EXCEPT ![d][i] = e]
           IN  \A p \in DOMAIN edited : \A k \in DOMAIN edited[p] :
                    Anchored(g, edited[p][k].first)
<1> DEFINE edited == [tables EXCEPT ![d][i] = e]
<1>1. /\ edited \in [DOMAIN tables -> Seq(Entry)]
      /\ \A p \in DOMAIN tables : DOMAIN edited[p] = DOMAIN tables[p]
      /\ edited[d][i] = e
      /\ \A p \in DOMAIN tables : \A k \in DOMAIN tables[p] :
            <<p, k>> # <<d, i>> => edited[p][k] = tables[p][k]
  BY EditType
<1> HIDE DEF edited
<1>2. DOMAIN edited = DOMAIN tables
  BY <1>1
<1>3. ASSUME NEW p \in DOMAIN edited, NEW k \in DOMAIN edited[p]
      PROVE  Anchored(g, edited[p][k].first)
  <2>1. p \in DOMAIN tables /\ k \in DOMAIN tables[p]
    BY <1>1, <1>2
  <2>2. CASE <<p, k>> = <<d, i>>
    BY <1>1, <2>2
  <2>3. CASE <<p, k>> # <<d, i>>
    BY <1>1, <2>1, <2>3
  <2> QED
    BY <2>2, <2>3
<1> QED
  BY <1>3 DEF edited

LEMMA MakeDirectorySafetyInv == TypeInv /\ SafetyInv /\ MakeDirectory => SafetyInv'
<1> SUFFICES ASSUME TypeInv, SafetyInv, MakeDirectory PROVE SafetyInv'
  OBVIOUS
<1> DEFINE i == FirstFree(tabs[at])
           p == Append(at, i)
           e == NewDirectory(Component, AllocatedHead(fat, DirClusters))
           edited == [tabs EXCEPT ![at][i] = e]
<1>1. /\ pc = "path" /\ cmd \in Commands /\ cmd.op \in {"create", "put"}
      /\ job \in 1 .. Len(cmd.files) /\ at \in DOMAIN tabs /\ Len(at) < Len(PathOf)
      /\ Len(at) \in Nat
  BY DEF MakeDirectory, TypeInv, TypeOK, PhaseOK, NoCommand, PathOf
<1>2. /\ fat \in [Clusters -> FatValues]
      /\ DOMAIN tabs \subseteq Seq(Nat) /\ tabs \in [DOMAIN tabs -> Seq(Entry)]
      /\ tabs[at] \in Seq(Entry)
  BY <1>1 DEF TypeInv, TypeOK
<1>3. Component \in Names
  <2>1. PathOf \in Seq(Names)
    BY <1>1, PutCommand DEF PathOf
  <2> QED
    BY <1>1, <2>1 DEF Component
<1>4. /\ tabs' = [q \in DOMAIN tabs \union {p} |-> IF q = p THEN NewTable ELSE edited[q]]
      /\ fat' = Allocate(fat, DirClusters)
      /\ CanAllocate(fat, DirClusters)
      /\ SlotsNamed(tabs[at], NoName) # {}
      /\ UNCHANGED <<fats, root, data, pc, cmd, slot, head, job, copy, todo, res>>
  BY DEF MakeDirectory
<1>5. /\ Below(fat, fat')
      /\ AllocatedHead(fat, DirClusters) \in Clusters
      /\ Anchored(fat', AllocatedHead(fat, DirClusters))
  BY <1>2, <1>4, AllocateFacts, SlotAssumption
<1>6. i \in DOMAIN tabs[at]
  <2>1. SlotsNamed(tabs[at], NoName) \in SUBSET Nat
    BY <1>2 DEF SlotsNamed
  <2>2. i \in SlotsNamed(tabs[at], NoName)
    BY <1>4, <2>1, MinOfNaturals DEF FirstFree
  <2> HIDE DEF i
  <2> QED
    BY <2>2 DEF SlotsNamed
<1>7. e \in Entry /\ Anchored(fat', e.first)
  BY <1>3, <1>5, DirectoryEntryType DEF NewDirectory
<1>8. \A q \in DOMAIN tabs : \A k \in DOMAIN tabs[q] : Anchored(fat', tabs[q][k].first)
  BY <1>5, GrownFatAnchors DEF SafetyInv, MemoryAnchored
<1>9. \A q \in DOMAIN edited : \A k \in DOMAIN edited[q] : Anchored(fat', edited[q][k].first)
  <2> HIDE DEF i, e
  <2> QED
    BY <1>1, <1>2, <1>6, <1>7, <1>8, EditAnchored
<1>10. \A k \in DOMAIN NewTable : Anchored(fat', NewTable[k].first)
  BY ZeroAnchored, BlockHeads DEF NewTable, NewDirectory
<1>11. DOMAIN edited = DOMAIN tabs
  OBVIOUS
<1> HIDE DEF edited, p
<1>12. ASSUME NEW q \in DOMAIN tabs', NEW k \in DOMAIN tabs'[q]
       PROVE  Anchored(fat', tabs'[q][k].first)
  <2>1. CASE q = p
    BY <1>4, <1>10, <2>1
  <2>2. CASE q # p
    BY <1>4, <1>9, <1>11, <2>2
  <2> QED
    BY <2>1, <2>2
<1>13. Anchored(fat', head)
  BY <1>1, <1>5, GrownFatAnchors DEF SafetyInv, MemoryAnchored
<1>14. MemoryAnchored'
  BY <1>4, <1>12, <1>13 DEF MemoryAnchored
<1> QED
  BY <1>1, <1>4, <1>5, <1>14, MemoryChangedSafetyInv DEF Running

LEMMA FillEntrySafetyInv == TypeInv /\ SafetyInv /\ FillEntry => SafetyInv'
<1> SUFFICES ASSUME TypeInv, SafetyInv, FillEntry PROVE SafetyInv'
  OBVIOUS
<1> DEFINE i == Min(EntrySlots(tabs[at], Component))
           e == FileEntry(tabs[at][i], Component, head, cmd.files[job].size)
<1>1. /\ pc = "path" /\ cmd \in Commands /\ cmd.op \in {"create", "put"}
      /\ job \in 1 .. Len(cmd.files) /\ at \in DOMAIN tabs /\ Len(at) < Len(PathOf)
      /\ Len(at) \in Nat
  BY DEF FillEntry, TypeInv, TypeOK, PhaseOK, NoCommand, PathOf
<1>2. /\ DOMAIN tabs \subseteq Seq(Nat) /\ tabs \in [DOMAIN tabs -> Seq(Entry)]
      /\ tabs[at] \in Seq(Entry) /\ head \in Clusters \union {0}
  BY <1>1 DEF TypeInv, TypeOK
<1>3. Component \in Names /\ cmd.files[job].size \in Nat
  <2>1. PathOf \in Seq(Names) /\ cmd.files[job].size \in Nat
    BY <1>1, PutCommand DEF PathOf
  <2> QED
    BY <1>1, <2>1 DEF Component
<1>4. /\ EntrySlots(tabs[at], Component) # {}
      /\ tabs' = [tabs EXCEPT ![at][i] = e]
      /\ pc' \in {"fat", "create"} /\ (pc' = "fat" => copy' = 1)
      /\ UNCHANGED <<fats, root, data, fat, head>>
  BY DEF FillEntry, BeginWrite
<1>5. i \in DOMAIN tabs[at]
  <2>1. EntrySlots(tabs[at], Component) \in SUBSET Nat
    BY <1>2 DEF EntrySlots, SlotsNamed
  <2>2. i \in EntrySlots(tabs[at], Component)
    BY <1>4, <2>1, MinOfNaturals
  <2> HIDE DEF i
  <2> QED
    BY <2>2 DEF EntrySlots, SlotsNamed
<1>6. e \in Entry /\ e.first = head
  <2>1. tabs[at][i].dir \in BOOLEAN
    BY <1>2, <1>5 DEF Entry, AnyEntry
  <2>2. e \in AnyEntry
    BY <1>2, <1>3, <2>1 DEF FileEntry, AnyEntry
  <2> QED
    BY <1>3, <2>2, NamesAssumption DEF FileEntry, Entry
<1>7. Anchored(fat, e.first)
  BY <1>1, <1>6 DEF SafetyInv, MemoryAnchored
<1> HIDE DEF i, e
<1>8. \A q \in DOMAIN tabs' : \A k \in DOMAIN tabs'[q] : Anchored(fat, tabs'[q][k].first)
  BY <1>1, <1>2, <1>4, <1>5, <1>6, <1>7, EditAnchored DEF SafetyInv, MemoryAnchored
<1>9. MemoryAnchored'
  BY <1>4, <1>8 DEF MemoryAnchored
<1>10. Below(fat, fat')
  BY <1>4 DEF Below
<1> QED
  BY <1>1, <1>4, <1>9, <1>10, MemoryChangedSafetyInv DEF Running

\* Moving directories only gives their tables other slots.
LEMMA RekeyedTables ==
    ASSUME NEW tables, NEW from, NEW to, NEW q \in DOMAIN Rekeyed(tables, from, to)
    PROVE  \E p \in DOMAIN tables : Rekeyed(tables, from, to)[q] = tables[p]
<1> DEFINE Keys == {Relocated(p, from, to) : p \in DOMAIN tables}
           Origin(r) == CHOOSE p \in DOMAIN tables : Relocated(p, from, to) = r
<1>1. q \in Keys
  BY DEF Rekeyed
<1>2. Origin(q) \in DOMAIN tables
  BY <1>1
<1>3. Rekeyed(tables, from, to)[q] = tables[Origin(q)]
  BY <1>1 DEF Rekeyed
<1> QED
  BY <1>2, <1>3

LEMMA MoveEntrySafetyInv == TypeInv /\ SafetyInv /\ MoveEntry => SafetyInv'
<1> SUFFICES ASSUME TypeInv, SafetyInv, MoveEntry PROVE SafetyInv'
  OBVIOUS
<1>1. PICK d \in DOMAIN tabs, dest \in DOMAIN tabs : \E i \in DOMAIN tabs[d] :
        /\ Movable(d, i, dest)
        /\ LET j == FirstFree(tabs[dest])
               edited == [[tabs EXCEPT ![dest][j] = tabs[d][i]]
                             EXCEPT ![d][i] = EmptyEntry]
           IN  tabs' = Rekeyed(edited, Append(d, i), Append(dest, j))
  BY DEF MoveEntry
<1>2. PICK i \in DOMAIN tabs[d] :
        /\ Movable(d, i, dest)
        /\ LET j == FirstFree(tabs[dest])
               edited == [[tabs EXCEPT ![dest][j] = tabs[d][i]]
                             EXCEPT ![d][i] = EmptyEntry]
           IN  tabs' = Rekeyed(edited, Append(d, i), Append(dest, j))
  BY <1>1
<1> DEFINE j == FirstFree(tabs[dest])
           filled == [tabs EXCEPT ![dest][j] = tabs[d][i]]
           edited == [filled EXCEPT ![d][i] = EmptyEntry]
<1>3. /\ pc = "scan" /\ pc' = "fat" /\ copy' = 1
      /\ UNCHANGED <<fats, root, data, fat, head>>
  BY DEF MoveEntry, Opened, BeginWrite
<1>4. /\ tabs[d] \in Seq(Entry) /\ tabs[dest] \in Seq(Entry)
      /\ DOMAIN tabs \subseteq Seq(Nat) /\ tabs \in [DOMAIN tabs -> Seq(Entry)]
  BY DEF TypeInv, TypeOK
<1>5. j \in DOMAIN tabs[dest]
  <2>1. SlotsNamed(tabs[dest], NoName) \in SUBSET Nat
    BY <1>4 DEF SlotsNamed
  <2>2. j \in SlotsNamed(tabs[dest], NoName)
    BY <1>2, <2>1, MinOfNaturals DEF Movable, FirstFree
  <2> HIDE DEF j
  <2> QED
    BY <2>2 DEF SlotsNamed
<1>6. tabs[d][i] \in Entry /\ Anchored(fat, tabs[d][i].first)
  BY <1>4 DEF SafetyInv, MemoryAnchored
<1>7. tabs' = Rekeyed(edited, Append(d, i), Append(dest, j))
  BY <1>2
<1> HIDE DEF j
<1>8. /\ filled \in [DOMAIN tabs -> Seq(Entry)]
      /\ \A q \in DOMAIN tabs : DOMAIN filled[q] = DOMAIN tabs[q]
  BY <1>4, <1>5, <1>6, EditType
<1>9. \A q \in DOMAIN filled : \A k \in DOMAIN filled[q] : Anchored(fat, filled[q][k].first)
  BY <1>4, <1>5, <1>6, EditAnchored DEF SafetyInv, MemoryAnchored
<1> HIDE DEF filled
<1>10. DOMAIN filled = DOMAIN tabs
  BY <1>8
<1>11. \A q \in DOMAIN edited : \A k \in DOMAIN edited[q] : Anchored(fat, edited[q][k].first)
  BY <1>4, <1>8, <1>9, <1>10, EditAnchored, EntryTypes, BlockHeads, ZeroAnchored
<1> HIDE DEF edited
<1>12. ASSUME NEW q \in DOMAIN tabs', NEW k \in DOMAIN tabs'[q]
       PROVE  Anchored(fat, tabs'[q][k].first)
  <2>1. PICK p \in DOMAIN edited : tabs'[q] = edited[p]
    BY <1>7, RekeyedTables
  <2> QED
    BY <1>11, <2>1
<1>13. MemoryAnchored'
  BY <1>3, <1>12 DEF MemoryAnchored
<1>14. Below(fat, fat')
  BY <1>3 DEF Below
<1> QED
  BY <1>3, <1>13, <1>14, MemoryChangedSafetyInv DEF Running

-----------------------------------------------------------------------------
(***************************************************************************)
(* The steps that write file contents or zeros.                            *)
(***************************************************************************)
LEMMA NoNewHeads ==
    ASSUME SafetyInv, UNCHANGED <<fats, root>>,
           \A c \in Clusters :
                \/ data'[c] = data[c]
                \/ \A i \in 1 .. SlotsPerCluster : data'[c].slots[i].first = 0
    PROVE  HeadsAnchored' /\ FirstFatLeads'
<1>1. HeadsAnchored'
  BY ZeroAnchored, HeadsAnchoredFacts, HeadsAnchoredNext DEF SafetyInv
<1>2. FirstFatLeads'
  BY DEF SafetyInv, FirstFatLeads
<1> QED
  BY <1>1, <1>2

LEMMA StoreFileHeads ==
    ASSUME NEW s, NEW size, NEW c \in Clusters
    PROVE  \/ StoreFile(s, size)[c] = data[c]
           \/ \A i \in 1 .. SlotsPerCluster : StoreFile(s, size)[c].slots[i].first = 0
  BY BlockHeads DEF StoreFile

LEMMA ZeroChainHeads ==
    ASSUME NEW s, NEW c \in Clusters
    PROVE  \/ ZeroChain(s)[c] = data[c]
           \/ \A i \in 1 .. SlotsPerCluster : ZeroChain(s)[c].slots[i].first = 0
  BY BlockHeads DEF ZeroChain

LEMMA CreateFileSafetyInv == TypeInv /\ SafetyInv /\ CreateFile => SafetyInv'
<1> SUFFICES ASSUME TypeInv, SafetyInv, CreateFile PROVE SafetyInv'
  OBVIOUS
<1> DEFINE size == cmd.files[job].size
<1>1. /\ pc = "create" /\ cmd \in Commands /\ cmd.op \in {"create", "put"}
      /\ job \in 1 .. Len(cmd.files)
  BY DEF CreateFile, TypeInv, TypeOK, PhaseOK, NoCommand
<1>2. size \in Nat
  BY <1>1, PutCommand
<1>3. /\ CanAllocate(fat, size)
      /\ fat' = Allocate(fat, size) /\ head' = AllocatedHead(fat, size)
      /\ data' = StoreFile(Chain(fat', head'), size)
      /\ pc' = "path"
      /\ UNCHANGED <<fats, root, tabs>>
  BY DEF CreateFile
<1>4. Below(fat, fat') /\ Anchored(fat', head')
  BY <1>2, <1>3, AllocateFacts DEF TypeInv, TypeOK
<1>5. HeadsAnchored' /\ FirstFatLeads'
  <2> HIDE DEF size
  <2> QED
    BY <1>3, NoNewHeads, StoreFileHeads
<1>6. MemoryAnchored'
  BY <1>3, <1>4, GrownFatAnchors DEF SafetyInv, MemoryAnchored
<1>7. FatsBelow'
  BY <1>1, <1>3, <1>4, BelowTransitive DEF SafetyInv, FatsBelow, Running
<1>8. CopiesSaved'
  BY <1>3 DEF CopiesSaved
<1> QED
  BY <1>5, <1>6, <1>7, <1>8 DEF SafetyInv

LEMMA EraseEntrySafetyInv == TypeInv /\ SafetyInv /\ EraseEntry => SafetyInv'
<1> SUFFICES ASSUME TypeInv, SafetyInv, EraseEntry PROVE SafetyInv'
  OBVIOUS
<1> DEFINE first == tabs[at][slot].first
           edited == [tabs EXCEPT ![at][slot] = EmptyEntry]
<1>1. pc = "erase" /\ at \in DOMAIN tabs /\ slot \in DOMAIN tabs[at]
      /\ DOMAIN tabs \subseteq Seq(Nat) /\ tabs \in [DOMAIN tabs -> Seq(Entry)]
  BY DEF EraseEntry, Located, TypeInv, TypeOK
<1>2. CASE ~ (first = 0 \/ HasChain(fat, first))
  BY <1>2, DiskUnchangedSafetyInv DEF EraseEntry, Undefined
<1>3. CASE first = 0 \/ HasChain(fat, first)
  <2>1. /\ data' = IF first = 0 THEN data ELSE ZeroChain(Chain(fat, first))
        /\ tabs' = [p \in {p \in DOMAIN tabs : ~ IsPrefix(Append(at, slot), p)} |-> edited[p]]
        /\ pc' = "fat" /\ copy' = 1
        /\ UNCHANGED <<fats, root, fat, head>>
    BY <1>3 DEF EraseEntry, BeginWrite
  <2>2. HeadsAnchored' /\ FirstFatLeads'
    BY <2>1, NoNewHeads, ZeroChainHeads
  <2>3. \A q \in DOMAIN edited : \A k \in DOMAIN edited[q] : Anchored(fat, edited[q][k].first)
    BY <1>1, EditAnchored, EntryTypes, BlockHeads, ZeroAnchored DEF SafetyInv, MemoryAnchored
  <2>4. DOMAIN edited = DOMAIN tabs
    OBVIOUS
  <2> HIDE DEF edited
  <2>5. \A q \in DOMAIN tabs' : \A k \in DOMAIN tabs'[q] : Anchored(fat', tabs'[q][k].first)
    BY <2>1, <2>3, <2>4
  <2>6. MemoryAnchored'
    BY <2>1, <2>5 DEF MemoryAnchored
  <2>7. FatsBelow'
    BY <1>1, <2>1 DEF SafetyInv, FatsBelow, Running
  <2>8. CopiesSaved'
    BY <2>1 DEF CopiesSaved
  <2> QED
    BY <2>2, <2>6, <2>7, <2>8 DEF SafetyInv
<1> QED
  BY <1>2, <1>3

LEMMA FormatSafetyInv == TypeInv /\ SafetyInv /\ Format => SafetyInv'
<1> SUFFICES ASSUME TypeInv, SafetyInv, Format PROVE SafetyInv'
  OBVIOUS
<1>1. /\ pc = "format"
      /\ fats' = [k \in 1 .. NumberOfFats |-> [c \in Stored |-> 0]]
      /\ root' = [i \in 1 .. RootSlots |-> EmptyEntry]
      /\ data' = [c \in Clusters |-> ZeroBlock]
  BY DEF Format
<1>2. HeadsAnchored'
  BY <1>1, ZeroAnchored, BlockHeads, HeadsAnchoredNext
<1>3. FirstFatLeads'
  BY <1>1, NumberOfFatsAssumption DEF FirstFatLeads, Below
<1>4. CASE cmd.files = <<>>
  BY <1>2, <1>3, <1>4, EndsSafetyInv DEF Format, Exit
<1>5. CASE cmd.files # <<>>
  <2>1. pc' = "create" /\ UNCHANGED <<fat, tabs>>
    BY <1>5 DEF Format
  <2>2. MemoryAnchored'
    BY <2>1 DEF SafetyInv, MemoryAnchored
  <2>3. FatsBelow'
    BY <1>1, <2>1 DEF FatsBelow, Below
  <2>4. CopiesSaved'
    BY <2>1 DEF CopiesSaved
  <2> QED
    BY <1>2, <1>3, <2>2, <2>3, <2>4 DEF SafetyInv
<1> QED
  BY <1>4, <1>5

-----------------------------------------------------------------------------
(***************************************************************************)
(* The steps of lf12_write_metadata.                                       *)
(***************************************************************************)
\* Storing entries of the FAT in one copy, all of them or the first ones.
LEMMA FatWritten ==
    ASSUME TypeInv, SafetyInv, pc = "fat", UNCHANGED <<root, data>>,
           NEW table \in [Stored -> FatValues],
           \A c \in Stored : table[c] = fat[c] \/ table[c] = fats[copy][c],
           fats' = [fats EXCEPT ![copy] = table]
    PROVE  /\ copy \in 1 .. NumberOfFats
           /\ \A k \in 1 .. NumberOfFats : fats'[k] = IF k = copy THEN table ELSE fats[k]
           /\ \A k \in 1 .. NumberOfFats : Below(fats[k], fats'[k]) /\ Below(fats'[k], fat)
           /\ HeadsAnchored'
           /\ FirstFatLeads'
<1>1. copy \in 1 .. NumberOfFats /\ 1 \in 1 .. NumberOfFats /\ NumberOfFats \in Nat
  BY NumberOfFatsAssumption DEF TypeInv, TypeOK, PhaseOK
<1>2. fats \in [1 .. NumberOfFats -> [Stored -> FatValues]]
  BY DEF TypeInv, TypeOK
<1>3. \A k \in 1 .. NumberOfFats : fats'[k] = IF k = copy THEN table ELSE fats[k]
  BY <1>1, <1>2
<1>4. \A k \in 1 .. NumberOfFats : Below(fats[k], fat)
  BY DEF SafetyInv, FatsBelow, Running
<1>5. \A k \in 1 .. NumberOfFats : Below(fats[k], fats[1])
  BY DEF SafetyInv, FirstFatLeads
<1>6. Below(fats[copy], table) /\ Below(table, fat)
  BY <1>1, <1>4 DEF Below
<1>7. \A k \in 1 .. NumberOfFats : Below(fats[k], fats'[k]) /\ Below(fats'[k], fat)
  BY <1>3, <1>4, <1>6 DEF Below
<1>8. HeadsAnchored'
  BY <1>7, GrownFatsAnchor DEF SafetyInv
<1>9. ASSUME NEW k \in 1 .. NumberOfFats
      PROVE  Below(fats'[k], fats'[1])
  <2>1. CASE copy = 1
    <3>1. fats'[1] = table /\ (k # 1 => fats'[k] = fats[k])
      BY <1>1, <1>3, <2>1
    <3>2. Below(fats[k], table)
      BY <1>4, <1>5, <2>1 DEF Below
    <3> QED
      BY <3>1, <3>2 DEF Below
  <2>2. CASE copy # 1
    <3>1. fats'[1] = fats[1]
      BY <1>1, <1>3, <2>2
    <3>2. \A c \in Stored : fats[1][c] = fat[c]
      <4>1. 1 < copy
        BY <1>1, <2>2
      <4> QED
        BY <1>1, <4>1 DEF SafetyInv, CopiesSaved
    <3>3. Below(fat, fats[1])
      BY <3>2 DEF Below
    <3> QED
      BY <1>7, <3>1, <3>3, BelowTransitive
  <2> QED
    BY <2>1, <2>2
<1>10. FirstFatLeads'
  BY <1>9 DEF FirstFatLeads
<1> QED
  BY <1>1, <1>3, <1>7, <1>8, <1>10

LEMMA WriteFatFacts ==
    ASSUME TypeInv, WriteFat
    PROVE  /\ pc = "fat" /\ UNCHANGED <<root, data>>
           /\ SavedFat \in [Stored -> FatValues]
           /\ \A c \in Stored : SavedFat[c] = fat[c]
           /\ fats' = [fats EXCEPT ![copy] = SavedFat]
  BY ClusterSets DEF WriteFat, SavedFat, TypeInv, TypeOK

LEMMA WriteFatSafetyInv == TypeInv /\ SafetyInv /\ WriteFat => SafetyInv'
<1> SUFFICES ASSUME TypeInv, SafetyInv, WriteFat PROVE SafetyInv'
  OBVIOUS
<1>1. /\ pc = "fat" /\ UNCHANGED <<root, data>>
      /\ SavedFat \in [Stored -> FatValues]
      /\ \A c \in Stored : SavedFat[c] = fat[c]
      /\ fats' = [fats EXCEPT ![copy] = SavedFat]
  BY WriteFatFacts
<1>2. /\ copy \in 1 .. NumberOfFats
      /\ \A k \in 1 .. NumberOfFats : fats'[k] = IF k = copy THEN SavedFat ELSE fats[k]
      /\ \A k \in 1 .. NumberOfFats : Below(fats'[k], fat)
      /\ HeadsAnchored' /\ FirstFatLeads'
  BY <1>1, FatWritten
<1>3. /\ UNCHANGED <<fat, tabs, head>>
      /\ \/ copy < NumberOfFats /\ copy' = copy + 1 /\ pc' = "fat"
         \/ ~ (copy < NumberOfFats) /\ pc' = "dirs"
  BY <1>1 DEF WriteFat
<1>4. MemoryAnchored'
  BY <1>3 DEF SafetyInv, MemoryAnchored
<1>5. FatsBelow'
  BY <1>2, <1>3 DEF FatsBelow
<1>6. \A k \in 1 .. NumberOfFats : k <= copy => \A c \in Stored : fats'[k][c] = fat[c]
  <2> SUFFICES ASSUME NEW k \in 1 .. NumberOfFats, k <= copy, NEW c \in Stored
               PROVE  fats'[k][c] = fat[c]
    OBVIOUS
  <2>1. CASE k = copy
    BY <1>1, <1>2, <2>1
  <2>2. CASE k # copy
    <3>1. k < copy /\ fats'[k] = fats[k]
      BY <1>2, <2>2
    <3> QED
      BY <1>1, <3>1 DEF SafetyInv, CopiesSaved
  <2> QED
    BY <2>1, <2>2
<1>7. CopiesSaved'
  <2>1. CASE copy < NumberOfFats /\ copy' = copy + 1 /\ pc' = "fat"
    BY <1>2, <1>3, <1>6, <2>1 DEF CopiesSaved
  <2>2. CASE ~ (copy < NumberOfFats) /\ pc' = "dirs"
    <3>1. \A k \in 1 .. NumberOfFats : k <= copy
      BY <1>2, <2>2, NumberOfFatsAssumption
    <3> QED
      BY <1>3, <1>6, <3>1 DEF CopiesSaved
  <2> QED
    BY <1>3, <2>1, <2>2
<1> QED
  BY <1>2, <1>4, <1>5, <1>7 DEF SafetyInv

\* A directory stored in full or in part brings heads from the memory only.
LEMMA StoreTableHeads ==
    ASSUME TypeInv, SafetyInv, pc = "dirs", NEW p \in DOMAIN tabs, NEW s,
           data' = StoreTable(s, tabs[p]), UNCHANGED <<fats, root>>
    PROVE  HeadsAnchored' /\ FirstFatLeads'
<1>1. ASSUME NEW k \in 1 .. NumberOfFats, NEW c \in Clusters, NEW i \in 1 .. SlotsPerCluster
      PROVE  Anchored(fats[k], data'[c].slots[i].first)
  <2>1. CASE ~ Visits(s, c)
    <3>1. data'[c] = data[c]
      BY <2>1 DEF StoreTable
    <3> QED
      BY <3>1, HeadsAnchoredFacts DEF SafetyInv
  <2>2. CASE Visits(s, c)
    <3> DEFINE m == (Position(s, c) - 1) * SlotsPerCluster + i
    <3>1. data'[c].slots[i] = IF m \in DOMAIN tabs[p] THEN tabs[p][m] ELSE EmptyEntry
      BY <2>2 DEF StoreTable, DirBlock
    <3> HIDE DEF m
    <3>2. Anchored(fat, data'[c].slots[i].first)
      BY <3>1, BlockHeads, ZeroAnchored DEF SafetyInv, MemoryAnchored
    <3> QED
      BY <3>2, WrittenHeadsAnchored
  <2> QED
    BY <2>1, <2>2
<1>2. HeadsAnchored'
  BY <1>1, HeadsAnchoredFacts, HeadsAnchoredNext DEF SafetyInv
<1>3. FirstFatLeads'
  BY DEF SafetyInv, FirstFatLeads
<1> QED
  BY <1>2, <1>3

LEMMA RootHeads ==
    ASSUME TypeInv, SafetyInv, pc = "dirs", UNCHANGED <<fats, data>>,
           root' \in [1 .. RootSlots -> Entry],
           \A i \in 1 .. RootSlots : root'[i] = root[i] \/ root'[i] = tabs[<<>>][i]
    PROVE  HeadsAnchored' /\ FirstFatLeads'
<1>1. /\ <<>> \in DOMAIN tabs /\ DOMAIN tabs[<<>>] = 1 .. RootSlots
      /\ DOMAIN root = 1 .. RootSlots
  BY DEF TypeInv, TypeOK, PhaseOK, Running
<1>2. ASSUME NEW k \in 1 .. NumberOfFats, NEW i \in DOMAIN root'
      PROVE  Anchored(fats[k], root'[i].first)
  <2>1. i \in 1 .. RootSlots
    OBVIOUS
  <2>2. Anchored(fats[k], root[i].first)
    BY <1>1, <2>1, HeadsAnchoredFacts DEF SafetyInv
  <2>3. Anchored(fats[k], tabs[<<>>][i].first)
    BY <1>1, <2>1, WrittenHeadsAnchored DEF SafetyInv, MemoryAnchored
  <2> QED
    BY <2>1, <2>2, <2>3
<1>3. HeadsAnchored'
  BY <1>2, HeadsAnchoredFacts, HeadsAnchoredNext DEF SafetyInv
<1>4. FirstFatLeads'
  BY DEF SafetyInv, FirstFatLeads
<1> QED
  BY <1>3, <1>4

LEMMA WriteDirectorySafetyInv == TypeInv /\ SafetyInv /\ WriteDirectory => SafetyInv'
<1> SUFFICES ASSUME TypeInv, SafetyInv, WriteDirectory PROVE SafetyInv'
  OBVIOUS
<1>1. PICK p \in todo :
        IF CanStore(p)
        THEN /\ data' = StoreTable(Chain(fat, HeadOf(p)), tabs[p])
             /\ todo' = todo \ {p}
             /\ UNCHANGED <<fats, root, pc, cmd, fat, tabs, at, slot, head, job, copy, res>>
        ELSE Undefined
  BY DEF WriteDirectory
<1>2. CASE ~ CanStore(p)
  BY <1>1, <1>2, DiskUnchangedSafetyInv DEF Undefined
<1>3. CASE CanStore(p)
  <2>1. /\ pc = "dirs" /\ p \in DOMAIN tabs
        /\ data' = StoreTable(Chain(fat, HeadOf(p)), tabs[p])
        /\ UNCHANGED <<fats, root, pc, fat, tabs, head>>
    BY <1>1, <1>3 DEF WriteDirectory, TypeInv, TypeOK
  <2>2. HeadsAnchored' /\ FirstFatLeads'
    BY <2>1, StoreTableHeads
  <2>3. MemoryAnchored'
    BY <2>1 DEF SafetyInv, MemoryAnchored
  <2>4. FatsBelow'
    BY <2>1 DEF SafetyInv, FatsBelow, Running
  <2>5. CopiesSaved'
    BY <2>1 DEF SafetyInv, CopiesSaved
  <2> QED
    BY <2>2, <2>3, <2>4, <2>5 DEF SafetyInv
<1> QED
  BY <1>2, <1>3

LEMMA WriteRootSafetyInv == TypeInv /\ SafetyInv /\ WriteRoot => SafetyInv'
<1> SUFFICES ASSUME TypeInv, SafetyInv, WriteRoot PROVE SafetyInv'
  OBVIOUS
<1>1. pc = "dirs" /\ root' = tabs[<<>>] /\ UNCHANGED <<fats, data>>
  BY DEF WriteRoot
<1>2. TypeInv'
  BY WriteRootTypeInv
<1>3. HeadsAnchored' /\ FirstFatLeads'
  BY <1>1, <1>2, RootHeads DEF TypeInv, TypeOK
<1>4. CASE ~ DeletionGoesOn
  BY <1>3, <1>4, EndsSafetyInv DEF WriteRoot, Exit
<1>5. CASE DeletionGoesOn
  <2>1. pc' = "sweep" /\ UNCHANGED <<fat, tabs, head>>
    BY <1>5 DEF WriteRoot
  <2>2. MemoryAnchored'
    BY <2>1 DEF SafetyInv, MemoryAnchored
  <2>3. FatsBelow'
    BY <1>1, <2>1 DEF SafetyInv, FatsBelow, Running
  <2>4. CopiesSaved'
    BY <2>1 DEF CopiesSaved
  <2> QED
    BY <1>3, <2>2, <2>3, <2>4 DEF SafetyInv
<1> QED
  BY <1>4, <1>5

-----------------------------------------------------------------------------
(***************************************************************************)
(* A command that is cut short.                                            *)
(***************************************************************************)
\* The first FAT entries of a copy have reached the disk.
LEMMA InterruptedInFatFacts ==
    ASSUME TypeInv, SafetyInv, InterruptedInFat
    PROVE  /\ \A k \in 1 .. NumberOfFats : Below(fats[k], fats'[k]) /\ Below(fats'[k], fat)
           /\ HeadsAnchored' /\ FirstFatLeads'
<1>1. PICK m \in Stored :
        fats' = [fats EXCEPT ![copy] =
                    [c \in Stored |-> IF c <= m THEN fat[c] ELSE fats[copy][c]]]
  BY DEF InterruptedInFat
<1> DEFINE table == [c \in Stored |-> IF c <= m THEN fat[c] ELSE fats[copy][c]]
<1>2. copy \in 1 .. NumberOfFats
  BY NumberOfFatsAssumption DEF InterruptedInFat, TypeInv, TypeOK, PhaseOK
<1>3. table \in [Stored -> FatValues]
  BY <1>2, ClusterSets DEF TypeInv, TypeOK
<1>4. \A c \in Stored : table[c] = fat[c] \/ table[c] = fats[copy][c]
  OBVIOUS
<1>5. fats' = [fats EXCEPT ![copy] = table]
  BY <1>1
<1> HIDE DEF table
<1>6. pc = "fat" /\ UNCHANGED <<root, data>>
  BY DEF InterruptedInFat
<1> QED
  BY <1>3, <1>4, <1>5, <1>6, FatWritten

LEMMA InterruptSafetyInv == TypeInv /\ SafetyInv /\ Interrupt => SafetyInv'
<1> SUFFICES ASSUME TypeInv, SafetyInv, Interrupt PROVE SafetyInv'
  OBVIOUS
<1>1. ASSUME Interrupted, HeadsAnchored', FirstFatLeads' PROVE SafetyInv'
  BY <1>1, EndsSafetyInv DEF Interrupted, Exit
<1>2. CASE InterruptedBetweenWrites
  BY <1>2, DiskUnchangedSafetyInv DEF InterruptedBetweenWrites, Interrupted
<1>3. CASE InterruptedInFormat
  BY <1>3, DiskUnchangedSafetyInv DEF InterruptedInFormat, Undefined
<1>4. CASE InterruptedInFile
  <2>1. PICK s, size : data' = StoreFile(s, size)
    BY <1>4 DEF InterruptedInFile
  <2>2. HeadsAnchored' /\ FirstFatLeads'
    BY <1>4, <2>1, NoNewHeads, StoreFileHeads DEF InterruptedInFile
  <2> QED
    BY <1>1, <1>4, <2>2 DEF InterruptedInFile
<1>5. CASE InterruptedInErase
  <2>1. PICK s : data' = ZeroChain(s)
    BY <1>5 DEF InterruptedInErase
  <2>2. HeadsAnchored' /\ FirstFatLeads'
    BY <1>5, <2>1, NoNewHeads, ZeroChainHeads DEF InterruptedInErase
  <2> QED
    BY <1>1, <1>5, <2>2 DEF InterruptedInErase
<1>6. CASE InterruptedInFat
  BY <1>1, <1>6, InterruptedInFatFacts DEF InterruptedInFat
<1>7. CASE InterruptedInDirectory
  <2>1. PICK p \in todo : \E s : data' = StoreTable(s, tabs[p])
    BY <1>7 DEF InterruptedInDirectory
  <2>2. PICK s : data' = StoreTable(s, tabs[p])
    BY <2>1
  <2>3. p \in DOMAIN tabs
    BY DEF TypeInv, TypeOK
  <2>4. HeadsAnchored' /\ FirstFatLeads'
    BY <1>7, <2>2, <2>3, StoreTableHeads DEF InterruptedInDirectory
  <2> QED
    BY <1>1, <1>7, <2>4 DEF InterruptedInDirectory
<1>8. CASE InterruptedInRoot
  <2>1. PICK n \in 1 .. RootSlots :
            root' = [i \in 1 .. RootSlots |-> IF i <= n THEN tabs[<<>>][i] ELSE root[i]]
    BY <1>8 DEF InterruptedInRoot
  <2>2. \A i \in 1 .. RootSlots : root'[i] = root[i] \/ root'[i] = tabs[<<>>][i]
    BY <2>1
  <2>3. TypeInv'
    BY InterruptTypeInv
  <2>4. HeadsAnchored' /\ FirstFatLeads'
    BY <1>8, <2>2, <2>3, RootHeads DEF InterruptedInRoot, TypeInv, TypeOK
  <2> QED
    BY <1>1, <1>8, <2>4 DEF InterruptedInRoot
<1> QED
  BY <1>2, <1>3, <1>4, <1>5, <1>6, <1>7, <1>8 DEF Interrupt

LEMMA RefusedSafetyInv ==
    SafetyInv /\ (CreateFileFails \/ WalkPathFails \/ SoftDelete \/ DeleteRefused \/ MoveRefused)
        => SafetyInv'
  BY DiskUnchangedSafetyInv
     DEF CreateFileFails, WalkPathFails, SoftDelete, DeleteRefused, MoveRefused

LEMMA NextSafetyInv == TypeInv /\ SafetyInv /\ [Next]_vars => SafetyInv'
<1> SUFFICES ASSUME TypeInv, SafetyInv, [Next]_vars PROVE SafetyInv'
  OBVIOUS
<1>1. CASE UNCHANGED vars
  BY <1>1 DEF vars, SafetyInv, HeadsAnchored, HeadsOnDisk, FirstFatLeads, MemoryAnchored,
              FatsBelow, CopiesSaved, Running
<1>2. CASE \E c \in Commands : Start(c) \/ StartCreate(c)
  BY <1>2, StartSafetyInv
<1>3. CASE Step
  BY <1>3, ScanDirectorySafetyInv, FormatSafetyInv, BeginPutSafetyInv, CreateFileSafetyInv,
     EnterDirectorySafetyInv, MakeDirectorySafetyInv, FillEntrySafetyInv, VisitSafetyInv,
     EraseEntrySafetyInv, MoveEntrySafetyInv, WriteFatSafetyInv, WriteDirectorySafetyInv,
     WriteRootSafetyInv, RefusedSafetyInv
     DEF Step
<1>4. CASE Interrupt
  BY <1>4, InterruptSafetyInv
<1> QED
  BY <1>1, <1>2, <1>3, <1>4 DEF Next, Halted

LEMMA SafetyInvariant == Spec => [](TypeInv /\ SafetyInv)
<1>1. Init => TypeInv /\ SafetyInv
  BY InitTypeInv, InitSafetyInv
<1>2. TypeInv /\ SafetyInv /\ [Next]_vars => (TypeInv /\ SafetyInv)'
  BY NextTypeInv, NextSafetyInv
<1> QED
  BY <1>1, <1>2, PTL DEF Spec

\* Whatever the commands are and wherever they are interrupted, the chain of
\* every directory entry on the disk is allocated in every FAT copy.
THEOREM EntriesNeverAheadOfFat == Spec => []HeadsAnchored
<1>1. TypeInv /\ SafetyInv => HeadsAnchored
  BY DEF SafetyInv
<1> QED
  BY <1>1, SafetyInvariant, PTL

\* The copy that commands read knows every allocation the others know.
THEOREM FirstCopyLeads == Spec => []FirstFatLeads
<1>1. TypeInv /\ SafetyInv => FirstFatLeads
  BY DEF SafetyInv
<1> QED
  BY <1>1, SafetyInvariant, PTL

LEMMA NextGrows ==
    TypeInv /\ SafetyInv /\ [Next]_vars
        => [pc # "format" => \A k \in 1 .. NumberOfFats : Below(fats[k], fats'[k])]_fats
<1> SUFFICES ASSUME TypeInv, SafetyInv, [Next]_vars, fats' # fats, pc # "format"
             PROVE  \A k \in 1 .. NumberOfFats : Below(fats[k], fats'[k])
  OBVIOUS
<1>1. CASE \E c \in Commands : Start(c) \/ StartCreate(c)
  BY <1>1 DEF Start, StartCreate
<1>2. CASE Step
  <2>1. CASE WriteFat
    BY <2>1, WriteFatFacts, FatWritten
  <2>2. CASE WriteDirectory
    BY <2>2 DEF WriteDirectory, Undefined, disk
  <2>3. CASE ScanDirectory
    BY <2>3 DEF ScanDirectory, ScanEntry, Undefined, disk
  <2>4. CASE CreateFileFails \/ WalkPathFails \/ SoftDelete \/ DeleteRefused \/ MoveRefused
    BY <2>4 DEF CreateFileFails, WalkPathFails, SoftDelete, DeleteRefused, MoveRefused, disk
  <2>5. CASE BeginPut \/ CreateFile \/ EnterDirectory \/ MakeDirectory \/ FillEntry
    BY <2>5 DEF BeginPut, CreateFile, EnterDirectory, MakeDirectory, FillEntry
  <2>6. CASE BeginDelete \/ VisitEntry \/ SweepDirectory \/ EraseEntry
    BY <2>6 DEF BeginDelete, VisitEntry, SweepDirectory, EraseEntry, Undefined, disk
  <2>7. CASE MoveEntry \/ WriteRoot
    BY <2>7 DEF MoveEntry, WriteRoot
  <2>8. CASE Format
    BY <2>8 DEF Format
  <2> QED
    BY <1>2, <2>1, <2>2, <2>3, <2>4, <2>5, <2>6, <2>7, <2>8 DEF Step
<1>3. CASE InterruptedInFat
  BY <1>3, InterruptedInFatFacts
<1>4. CASE Interrupt /\ ~ InterruptedInFat
  BY <1>4 DEF Interrupt, InterruptedBetweenWrites, InterruptedInFormat, InterruptedInFile,
              InterruptedInErase, InterruptedInDirectory, InterruptedInRoot, Undefined, disk
<1> QED
  BY <1>1, <1>2, <1>3, <1>4 DEF Next, Halted, vars

\* No command but f12_create ever changes or frees an allocated FAT entry of
\* any copy, not even when it is interrupted while it writes one.
THEOREM FatNeverShrinks == Spec => FatOnlyGrows
<1>1. TypeInv /\ SafetyInv /\ [Next]_vars
        => [pc # "format" => \A k \in 1 .. NumberOfFats : Below(fats[k], fats'[k])]_fats
  BY NextGrows
<1> QED
  BY <1>1, SafetyInvariant, PTL DEF Spec, FatOnlyGrows

-----------------------------------------------------------------------------
(***************************************************************************)
(* What is kept when extents and contents stay the same.                   *)
(***************************************************************************)
LEMMA NoExtent == \A t, h : h \notin Stored => Extent(t, h) = {}
  BY DEF Extent

LEMMA ApartKept ==
    ASSUME NEW t, NEW u, NEW S, NEW T, Apart(t, S),
           \A e \in T : e.first \in Stored =>
                            e \in S /\ Extent(u, e.first) = Extent(t, e.first)
    PROVE  Apart(u, T)
<1> SUFFICES ASSUME NEW e \in T, NEW f \in T, e.first # f.first
             PROVE  Extent(u, e.first) \intersect Extent(u, f.first) = {}
  BY DEF Apart
<1>1. CASE e.first \in Stored /\ f.first \in Stored
  BY <1>1 DEF Apart
<1>2. CASE ~ (e.first \in Stored /\ f.first \in Stored)
  BY <1>2, NoExtent
<1> QED
  BY <1>1, <1>2

LEMMA OneKindKept ==
    ASSUME NEW S, NEW T, OneKindEach(S), \A e \in T : e.first \in Stored => e \in S
    PROVE  OneKindEach(T)
  BY DEF OneKindEach

LEMMA FileKept ==
    ASSUME NEW t, NEW u, NEW d, NEW b, NEW first, NEW size, FileAt(t, d, first, size),
           Extent(u, first) = Extent(t, first),
           \A c \in Extent(t, first) : u[c] = t[c] /\ (b[c] = d[c] \/ b[c] \in Erased)
    PROVE  FileAt(u, b, first, size)
  BY DEF FileAt

LEMMA NoFileHere == \A t, d, first, size : first \notin Stored => FileAt(t, d, first, size)
  BY NoExtent DEF FileAt

LEMMA FilesKept ==
    ASSUME NEW t, NEW u, NEW d, NEW b, NEW S, NEW T, FilesAt(t, d, S),
           \A e \in T : e.first \in Stored =>
                /\ e \in S
                /\ Extent(u, e.first) = Extent(t, e.first)
                /\ \A c \in Extent(t, e.first) : u[c] = t[c],
           \A e \in T : e.first \in Stored /\ ~e.dir =>
                \A c \in Extent(t, e.first) : b[c] = d[c] \/ b[c] \in Erased
    PROVE  FilesAt(u, b, T)
<1> SUFFICES ASSUME NEW e \in T, ~e.dir
             PROVE  FileAt(u, b, e.first, e.size)
  BY DEF FilesAt
<1>1. CASE e.first \in Stored
  <2>1. FileAt(t, d, e.first, e.size)
    BY <1>1 DEF FilesAt
  <2> QED
    BY <1>1, <2>1, FileKept
<1>2. CASE e.first \notin Stored
  BY <1>2, NoFileHere
<1> QED
  BY <1>1, <1>2

LEMMA NoFileKept ==
    ASSUME NEW t, NEW u, NEW d, NEW b, NEW first, NoFileAt(t, d, first),
           first \in Stored => Extent(u, first) = Extent(t, first),
           first \in Stored =>
                \A c \in Extent(t, first) : b[c] = d[c] \/ b[c].kind # "file"
    PROVE  NoFileAt(u, b, first)
  BY NoExtent DEF NoFileAt

-----------------------------------------------------------------------------
(***************************************************************************)
(* Entries, on the disk and in memory.                                     *)
(***************************************************************************)
LEMMA OnDiskFacts ==
    \A e : e \in EntriesOnDisk <=>
        \/ \E i \in DOMAIN root : e = root[i]
        \/ \E c \in Clusters : \E i \in 1 .. SlotsPerCluster : e = data[c].slots[i]
  BY DEF EntriesOnDisk

LEMMA OnDiskNext ==
    \A e : e \in EntriesOnDisk' <=>
        \/ \E i \in DOMAIN root' : e = root'[i]
        \/ \E c \in Clusters : \E i \in 1 .. SlotsPerCluster : e = data'[c].slots[i]
  BY DEF EntriesOnDisk

LEMMA EntriesFacts ==
    \A e : e \in Entries <=>
        \/ e \in EntriesOnDisk
        \/ \E p \in DOMAIN tabs : \E i \in DOMAIN tabs[p] : e = tabs[p][i]
  BY DEF Entries

LEMMA EntriesNext ==
    \A e : e \in Entries' <=>
        \/ e \in EntriesOnDisk'
        \/ \E p \in DOMAIN tabs' : \E i \in DOMAIN tabs'[p] : e = tabs'[p][i]
  BY DEF Entries

LEMMA OnDiskAnchored ==
    ASSUME TypeInv, SafetyInv, NEW e \in EntriesOnDisk, NEW k \in 1 .. NumberOfFats
    PROVE  Anchored(fats[k], e.first)
  BY OnDiskFacts, HeadsAnchoredFacts DEF SafetyInv

LEMMA FirstCopy == 1 \in 1 .. NumberOfFats
  BY NumberOfFatsAssumption

LEMMA EntriesAnchored ==
    ASSUME TypeInv, SafetyInv, PhasesSet, NEW e \in Entries
    PROVE  Anchored(Table, e.first)
<1>1. CASE Working
  <2>1. Table = fat
    BY <1>1 DEF Table
  <2>2. CASE e \in EntriesOnDisk
    BY <1>1, <2>1, <2>2, FirstCopy, OnDiskAnchored, ReadHeadsAnchored DEF Working
  <2>3. CASE \E p \in DOMAIN tabs : \E i \in DOMAIN tabs[p] : e = tabs[p][i]
    BY <2>1, <2>3 DEF SafetyInv, MemoryAnchored
  <2> QED
    BY <2>2, <2>3, EntriesFacts
<1>2. CASE ~ Working
  <2>1. Table = fats[1]
    BY <1>2 DEF Table
  <2>2. CASE e \in EntriesOnDisk
    BY <2>1, <2>2, FirstCopy, OnDiskAnchored
  <2>3. CASE \E p \in DOMAIN tabs : \E i \in DOMAIN tabs[p] : e = tabs[p][i]
    BY <1>2, <2>1, <2>3, BlockHeads, ZeroAnchored DEF PhasesSet
  <2> QED
    BY <2>2, <2>3, EntriesFacts
<1> QED
  BY <1>1, <1>2

LEMMA NotStored == 0 \notin Stored /\ EmptyEntry.first \notin Stored /\ ~ EmptyEntry.dir
  BY ClusterSets, BlockHeads DEF EmptyEntry

\* While a command works on its memory its table grows, so no extent changes.
LEMMA WorkingExtents ==
    ASSUME TypeInv, SafetyInv, PhasesSet, Working, NEW g, Below(fat, g), NEW e \in Entries
    PROVE  /\ Extent(g, e.first) = Extent(fat, e.first)
           /\ \A c \in Extent(fat, e.first) : g[c] = fat[c]
<1>1. Anchored(fat, e.first)
  BY EntriesAnchored DEF Table
<1> QED
  BY <1>1, ExtentGrows

\* When it ends, the first copy takes the place of the table.
LEMMA CopyExtents ==
    ASSUME NEW f, NEW g, Below(f, g), NEW h, Anchored(f, h)
    PROVE  /\ Extent(f, h) = Extent(g, h)
           /\ \A c \in Extent(g, h) : f[c] = g[c]
  BY ExtentGrows

\* A step of the command that brings no entries but those it has read and
\* changes no cluster of a file, except to zeros.
LEMMA WorkingKeeps ==
    ASSUME TypeInv, SafetyInv, ContentInv, Working, Working', Below(fat, fat'),
           \A e \in Entries' : e.first \in Stored => e \in Entries,
           \A e \in Entries : ~e.dir =>
                \A c \in Extent(fat, e.first) : data'[c] = data[c] \/ data'[c] \in Erased
    PROVE  ExtentsApart' /\ OneKind' /\ FilesHeld'
<1>1. Table = fat /\ Table' = fat'
  BY DEF Table
<1>2. \A e \in Entries' : e.first \in Stored =>
            /\ e \in Entries
            /\ Extent(fat', e.first) = Extent(fat, e.first)
            /\ \A c \in Extent(fat, e.first) : fat'[c] = fat[c]
  BY WorkingExtents DEF ContentInv
<1>3. Apart(fat, Entries) /\ OneKindEach(Entries) /\ FilesAt(fat, data, Entries)
  BY <1>1 DEF ContentInv, ExtentsApart, OneKind, FilesHeld
<1>4. Apart(fat', Entries')
  BY <1>2, <1>3, ApartKept
<1>5. OneKindEach(Entries')
  BY <1>2, <1>3, OneKindKept
<1>6. FilesAt(fat', data', Entries')
  BY <1>2, <1>3, FilesKept
<1> QED
  BY <1>1, <1>4, <1>5, <1>6 DEF ExtentsApart, OneKind, FilesHeld

\* The directories that entries on the disk name hold entries still: those named
\* before, and those that have been written.
LEMMA DirectoriesKept ==
    ASSUME NEW t, NEW u, NEW d, NEW b, NEW S, NEW T, DirectoriesAt(t, d, S),
           \A e \in T : IsSubdir(e) /\ e.first \in Stored =>
                \/ /\ e \in S
                   /\ Extent(u, e.first) = Extent(t, e.first)
                   /\ \A c \in Extent(t, e.first) : b[c] = d[c] \/ b[c].kind # "file"
                \/ NoFileAt(u, b, e.first)
    PROVE  DirectoriesAt(u, b, T)
<1> SUFFICES ASSUME NEW e \in T, IsSubdir(e)
             PROVE  NoFileAt(u, b, e.first)
  BY DEF DirectoriesAt
<1>1. CASE e.first \notin Stored
  BY <1>1, NoExtent DEF NoFileAt
<1>2. CASE e.first \in Stored /\ e \in S
  <2>1. NoFileAt(t, d, e.first)
    BY <1>2 DEF DirectoriesAt
  <2> QED
    BY <1>2, <2>1, NoFileKept
<1> QED
  BY <1>1, <1>2

LEMMA EndsTree ==
    ASSUME NEW phase \in {"idle", "undefined"}, NEW result, Ends(phase, result)
    PROVE  /\ ~ Working' /\ ~ Running'
           /\ DOMAIN tabs' = {<<>>} /\ DOMAIN tabs'[<<>>] = {}
           /\ UnsavedLinks' /\ NewChain' /\ TreeInv' /\ PhasesSet'
<1>1. DOMAIN tabs' = {<<>>} /\ DOMAIN tabs'[<<>>] = {}
  BY DEF Ends
<1>2. ~ Running' /\ ~ Working' /\ pc' \notin {"path", "dirs", "visit", "sweep", "erase"}
  BY DEF Ends, Running, Working
<1>3. UnsavedLinks'
  BY NotStored DEF Ends, UnsavedLinks, Unsaved
<1>4. NewChain'
  BY <1>2 DEF NewChain
<1>5. TreeInv'
  BY <1>1, <1>2 DEF TreeInv, TablesLed
<1>6. PhasesSet'
  BY <1>1, <1>2 DEF PhasesSet, Ends
<1> QED
  BY <1>1, <1>2, <1>3, <1>4, <1>5, <1>6

\* A command that ends leaves the disk to the next one.
LEMMA EndsKeeps ==
    ASSUME TypeInv, SafetyInv, ContentInv, Working, HeadsAnchored',
           NEW phase \in {"idle", "undefined"}, NEW result, Ends(phase, result),
           Below(fats'[1], fat),
           \A e \in EntriesOnDisk' : e.first \in Stored => e \in Entries,
           \A e \in Entries : ~e.dir =>
                \A c \in Extent(fat, e.first) : data'[c] = data[c] \/ data'[c] \in Erased,
           DirectoriesAt(fat, data', EntriesOnDisk')
    PROVE  ContentInv'
<1>1. Table = fat /\ Table' = fats'[1] /\ pc' # "dirs"
  BY EndsTree DEF Table, Ends
<1>2. Entries' = EntriesOnDisk'
  BY EndsTree, EntriesNext
<1>3. ASSUME NEW e \in Entries'
      PROVE  /\ Extent(fats'[1], e.first) = Extent(fat, e.first)
             /\ \A c \in Extent(fat, e.first) : fats'[1][c] = fat[c]
  <2>1. Anchored(fats'[1], e.first)
    BY <1>2, FirstCopy, OnDiskNext, HeadsAnchoredNext
  <2> QED
    BY <2>1, CopyExtents
<1>4. Apart(fat, Entries) /\ OneKindEach(Entries) /\ FilesAt(fat, data, Entries)
  BY <1>1 DEF ContentInv, ExtentsApart, OneKind, FilesHeld
<1>5. \A e \in Entries' : e.first \in Stored =>
            /\ e \in Entries
            /\ Extent(fats'[1], e.first) = Extent(fat, e.first)
            /\ \A c \in Extent(fat, e.first) : fats'[1][c] = fat[c]
  BY <1>2, <1>3
<1>6. Apart(fats'[1], Entries')
  BY <1>4, <1>5, ApartKept
<1>7. OneKindEach(Entries')
  BY <1>4, <1>5, OneKindKept
<1>8. FilesAt(fats'[1], data', Entries')
  BY <1>4, <1>5, FilesKept
<1>9. DirectoriesAt(fats'[1], data', EntriesOnDisk')
  <2>1. \A e \in EntriesOnDisk' : IsSubdir(e) /\ e.first \in Stored =>
            /\ e \in EntriesOnDisk'
            /\ Extent(fats'[1], e.first) = Extent(fat, e.first)
            /\ \A c \in Extent(fat, e.first) : data'[c] = data'[c] \/ data'[c].kind # "file"
    BY <1>2, <1>3
  <2> QED
    BY <2>1, DirectoriesKept
<1> QED
  BY <1>1, <1>6, <1>7, <1>8, <1>9, EndsTree
     DEF ContentInv, ExtentsApart, OneKind, FilesHeld, TablesHeld

\* It has changed nothing on the disk.
LEMMA DiskUnchangedContentInv ==
    ASSUME TypeInv, SafetyInv, ContentInv, Working, UNCHANGED disk,
           Undefined \/ \E result : Exit(result)
    PROVE  ContentInv'
<1>1. PICK phase \in {"idle", "undefined"} : \E result : Ends(phase, result)
  BY DEF Undefined, Exit
<1>2. UNCHANGED <<fats, root, data>>
  BY DEF disk
<1>3. HeadsAnchored'
  BY DiskUnchanged
<1>4. Below(fats'[1], fat)
  BY <1>2, FirstCopy DEF SafetyInv, FatsBelow, Working
<1>5. EntriesOnDisk' = EntriesOnDisk
  BY <1>2 DEF EntriesOnDisk
<1>6. \A e \in EntriesOnDisk' : e.first \in Stored => e \in Entries
  BY <1>5, EntriesFacts
<1>7. DirectoriesAt(fat, data', EntriesOnDisk')
  BY <1>2, <1>5 DEF ContentInv, TablesHeld, Table
<1> QED
  BY <1>1, <1>2, <1>3, <1>4, <1>6, <1>7, EndsKeeps

-----------------------------------------------------------------------------
(***************************************************************************)
(* Steps in memory.                                                        *)
(***************************************************************************)
LEMMA MemoryStepKeeps ==
    ASSUME TypeInv, SafetyInv, ContentInv, Working, Working', Below(fat, fat'),
           UNCHANGED <<root, data>>,
           ExtentsApart', OneKind', FilesHeld', NewChain', UnsavedLinks', TreeInv', PhasesSet',
           pc' = "dirs" => todo' = DOMAIN tabs' \ {<<>>}
    PROVE  ContentInv'
<1>1. EntriesOnDisk' = EntriesOnDisk /\ EntriesOnDisk \subseteq Entries
  BY EntriesFacts DEF EntriesOnDisk
<1>2. Table = fat /\ Table' = fat'
  BY DEF Table
<1>3. \A e \in EntriesOnDisk' : IsSubdir(e) /\ e.first \in Stored =>
            /\ e \in EntriesOnDisk
            /\ Extent(fat', e.first) = Extent(fat, e.first)
            /\ \A c \in Extent(fat, e.first) : data'[c] = data[c] \/ data'[c].kind # "file"
  BY <1>1, WorkingExtents DEF ContentInv
<1>4. DirectoriesAt(fat, data, EntriesOnDisk)
  BY <1>2 DEF ContentInv, TablesHeld
<1>5. DirectoriesAt(fat', data', EntriesOnDisk')
  BY <1>3, <1>4, DirectoriesKept
<1>6. TablesHeld'
  BY <1>2, <1>5 DEF TablesHeld
<1> QED
  BY <1>6 DEF ContentInv

\* A step that leaves the table alone and brings no new entry.
LEMMA ReadingStepKeeps ==
    ASSUME TypeInv, SafetyInv, ContentInv, Working, Working',
           UNCHANGED <<root, data, fat>>,
           \A e \in Entries' : e.first \in Stored => e \in Entries,
           pc' = "path" => pc = "path" /\ UNCHANGED <<head, cmd, job>>,
           TreeInv', PhasesSet',
           pc' = "dirs" => todo' = DOMAIN tabs' \ {<<>>}
    PROVE  ContentInv'
<1>1. Below(fat, fat')
  BY DEF Below
<1>2. ExtentsApart' /\ OneKind' /\ FilesHeld'
  BY <1>1, WorkingKeeps
<1>3. UnsavedLinks'
  BY DEF ContentInv, UnsavedLinks
<1>4. NewChain'
  <2> SUFFICES ASSUME pc' = "path"
               PROVE  NewChain'
    BY DEF NewChain
  <2>1. pc = "path" /\ UNCHANGED <<head, cmd, job, fat, data>>
    OBVIOUS
  <2>2. FileAt(fat, data, head, cmd.files[job].size)
    BY <2>1 DEF ContentInv, NewChain
  <2>3. ASSUME NEW e \in Entries'
        PROVE  Extent(fat, head) \intersect Extent(fat, e.first) = {}
    <3>1. CASE e.first \in Stored
      BY <2>1, <3>1 DEF ContentInv, NewChain
    <3>2. CASE e.first \notin Stored
      BY <3>2, NoExtent
    <3> QED
      BY <3>1, <3>2
  <2> QED
    BY <2>1, <2>2, <2>3 DEF NewChain
<1> QED
  BY <1>1, <1>2, <1>3, <1>4, MemoryStepKeeps

LEMMA SameTabsTree ==
    ASSUME TreeInv, UNCHANGED tabs, Running, pc # "scan" \/ pc' = "scan" \/ Unscanned = {}
    PROVE  TreeInv'
<1>1. TablesLed'
  BY DEF TreeInv, TablesLed
<1>2. pc' # "scan" => TablesComplete
  BY ScannedComplete DEF TreeInv
<1>3. pc' # "scan" => TablesComplete'
  BY <1>2 DEF TablesComplete
<1> QED
  BY <1>1, <1>3 DEF TreeInv

\* The tables stay what they are.
LEMMA SameTabsKeeps ==
    ASSUME TypeInv, SafetyInv, ContentInv, Working, Working',
           UNCHANGED <<root, data, fat, tabs>>,
           pc # "scan" \/ pc' = "scan" \/ Unscanned = {},
           pc' = "path" => pc = "path" /\ UNCHANGED <<head, cmd, job>>,
           pc' \in {"visit", "sweep", "erase"} => cmd'.op = "del",
           pc' = "dirs" \/ UNCHANGED todo,
           pc' = "dirs" => todo' = DOMAIN tabs' \ {<<>>}
    PROVE  ContentInv'
<1>1. \A e \in Entries' : e \in Entries
  BY EntriesFacts, EntriesNext, OnDiskFacts, OnDiskNext
<1>2. TreeInv'
  BY SameTabsTree DEF ContentInv, Working
<1>3. PhasesSet'
  BY DEF PhasesSet, ContentInv
<1> QED
  BY <1>1, <1>2, <1>3, ReadingStepKeeps

LEMMA BeginPutContent ==
    TypeInv /\ SafetyInv /\ ContentInv /\ BeginPut => ContentInv'
<1> SUFFICES ASSUME TypeInv, SafetyInv, ContentInv, BeginPut PROVE ContentInv'
  OBVIOUS
<1>1. /\ pc = "scan" /\ Unscanned = {} /\ pc' \in {"fat", "create"}
      /\ UNCHANGED <<root, data, fat, tabs, todo>>
  BY DEF BeginPut, Opened, BeginWrite
<1> QED
  BY <1>1, SameTabsKeeps DEF Working, Running

LEMMA EnterDirectoryContent ==
    TypeInv /\ SafetyInv /\ ContentInv /\ EnterDirectory => ContentInv'
<1> SUFFICES ASSUME TypeInv, SafetyInv, ContentInv, EnterDirectory PROVE ContentInv'
  OBVIOUS
<1>1. /\ pc = "path" /\ pc' = "path"
      /\ UNCHANGED <<root, data, fat, tabs, todo, head, cmd, job>>
  BY DEF EnterDirectory
<1> QED
  BY <1>1, SameTabsKeeps DEF Working, Running

LEMMA VisitContent ==
    TypeInv /\ SafetyInv /\ ContentInv /\ (BeginDelete \/ VisitEntry \/ SweepDirectory)
        => ContentInv'
<1> SUFFICES ASSUME TypeInv, SafetyInv, ContentInv, BeginDelete \/ VisitEntry \/ SweepDirectory
             PROVE  ContentInv'
  OBVIOUS
<1>1. /\ (pc = "scan" /\ Unscanned = {}) \/ pc \in {"visit", "sweep"}
      /\ pc' \in {"visit", "sweep", "erase"} /\ cmd'.op = "del"
      /\ UNCHANGED <<root, data, fat, tabs, todo>>
  BY DEF BeginDelete, Opened, VisitEntry, SweepDirectory, ContentInv, PhasesSet
<1> QED
  BY <1>1, SameTabsKeeps DEF Working, Running

LEMMA WriteFatContent ==
    TypeInv /\ SafetyInv /\ ContentInv /\ WriteFat => ContentInv'
<1> SUFFICES ASSUME TypeInv, SafetyInv, ContentInv, WriteFat PROVE ContentInv'
  OBVIOUS
<1>1. /\ pc = "fat" /\ pc' \in {"fat", "dirs"}
      /\ UNCHANGED <<root, data, fat, tabs>>
      /\ pc' = "dirs" \/ UNCHANGED todo
      /\ pc' = "dirs" => todo' = DOMAIN tabs' \ {<<>>}
  BY DEF WriteFat
<1> QED
  BY <1>1, SameTabsKeeps DEF Working, Running

-----------------------------------------------------------------------------
(***************************************************************************)
(* Slots that lead to a directory.                                         *)
(***************************************************************************)
LEMMA FrontLast ==
    ASSUME NEW p \in Seq(Nat), p # <<>>
    PROVE  /\ Front(p) \in Seq(Nat) /\ Last(p) \in Nat
           /\ Len(Front(p)) = Len(p) - 1
           /\ \A k \in 1 .. Len(p) - 1 : Front(p)[k] = p[k]
           /\ p = Append(Front(p), Last(p))
<1>1. Len(p) \in Nat /\ Len(p) # 0
  OBVIOUS
<1>2. /\ Front(p) \in Seq(Nat) /\ Len(Front(p)) = Len(p) - 1
      /\ \A k \in 1 .. Len(p) - 1 : Front(p)[k] = p[k]
  <2>1. Front(p) = SubSeq(p, 1, Len(p) - 1)
    BY DEF Front
  <2>2. \A k \in 1 .. Len(p) - 1 : p[k] \in Nat
    BY <1>1
  <2>3. /\ SubSeq(p, 1, Len(p) - 1) \in Seq(Nat)
        /\ Len(SubSeq(p, 1, Len(p) - 1)) = Len(p) - 1
        /\ \A k \in 1 .. Len(p) - 1 : SubSeq(p, 1, Len(p) - 1)[k] = p[k]
    <3> DEFINE n == Len(p) - 1
    <3>1. n \in Nat /\ \A k \in 1 .. n : p[k] \in Nat
      BY <1>1, <2>2
    <3> HIDE DEF n
    <3>2. /\ SubSeq(p, 1, n) \in Seq(Nat)
          /\ Len(SubSeq(p, 1, n)) = IF 1 <= n THEN n - 1 + 1 ELSE 0
          /\ \A k \in 1 .. n - 1 + 1 : SubSeq(p, 1, n)[k] = p[1 + k - 1]
      BY <3>1, SubSeqProperties, 1 \in Int, n \in Int
    <3>3. /\ Len(SubSeq(p, 1, n)) = n
          /\ \A k \in 1 .. n : SubSeq(p, 1, n)[k] = p[k]
      BY <3>1, <3>2
    <3> QED
      BY <3>2, <3>3 DEF n
  <2> QED
    BY <2>1, <2>3
<1>3. Last(p) \in Nat
  BY <1>1 DEF Last
<1>4. /\ Append(Front(p), Last(p)) \in Seq(Nat)
      /\ Len(Append(Front(p), Last(p))) = Len(p)
  BY <1>1, <1>2, <1>3
<1>5. \A k \in 1 .. Len(p) : Append(Front(p), Last(p))[k] = p[k]
  BY <1>1, <1>2, <1>3 DEF Last
<1>6. p = Append(Front(p), Last(p))
  BY <1>4, <1>5
<1> QED
  BY <1>2, <1>3, <1>6

LEMMA AppendEnds ==
    ASSUME NEW s \in Seq(Nat), NEW i \in Nat
    PROVE  Front(Append(s, i)) = s /\ Last(Append(s, i)) = i
<1> DEFINE p == Append(s, i)
<1>1. /\ p \in Seq(Nat) /\ Len(p) = Len(s) + 1 /\ p # <<>>
      /\ Len(s) \in Nat
      /\ \A k \in 1 .. Len(s) : p[k] = s[k]
      /\ p[Len(s) + 1] = i
  BY AppendFacts
<1> HIDE DEF p
<1>2. Last(p) = i
  BY <1>1 DEF Last
<1>3. /\ Front(p) \in Seq(Nat) /\ Len(Front(p)) = Len(s)
      /\ \A k \in 1 .. Len(s) : Front(p)[k] = s[k]
  <2>1. Len(p) - 1 = Len(s)
    BY <1>1
  <2>2. /\ Front(p) \in Seq(Nat) /\ Len(Front(p)) = Len(p) - 1
        /\ \A k \in 1 .. Len(p) - 1 : Front(p)[k] = p[k]
    BY <1>1, FrontLast
  <2> QED
    BY <1>1, <2>1, <2>2
<1>4. Front(p) = s
  BY <1>3
<1> QED
  BY <1>2, <1>4 DEF p

\* The clusters a write that is interrupted has reached.
LEMMA PrefixOfChain ==
    ASSUME NEW s \in Seq(Clusters), NEW k \in 1 .. Len(s)
    PROVE  /\ Len(SubSeq(s, 1, k)) = k
           /\ \A m \in 1 .. k : SubSeq(s, 1, k)[m] = s[m] /\ m \in 1 .. Len(s)
<1>1. k \in Nat /\ 1 <= k /\ \A m \in 1 .. k : s[m] \in Clusters
  OBVIOUS
<1>2. /\ Len(SubSeq(s, 1, k)) = IF 1 <= k THEN k - 1 + 1 ELSE 0
      /\ \A m \in 1 .. k - 1 + 1 : SubSeq(s, 1, k)[m] = s[1 + m - 1]
  BY <1>1, SubSeqProperties, 1 \in Int, k \in Int
<1> QED
  BY <1>1, <1>2

LEMMA TabsTypes ==
    ASSUME TypeInv
    PROVE  /\ DOMAIN tabs \subseteq Seq(Nat)
           /\ \A p \in DOMAIN tabs : p \in Seq(Nat) /\ tabs[p] \in Seq(Entry)
           /\ \A p \in DOMAIN tabs : \A i \in DOMAIN tabs[p] : i \in Nat /\ tabs[p][i] \in Entry
           /\ <<>> \in DOMAIN tabs
  BY DEF TypeInv, TypeOK, PhaseOK

\* The entry that a directory in memory belongs to.
LEMMA LedBy ==
    ASSUME TypeInv, TreeInv, NEW p \in DOMAIN tabs, p # <<>>
    PROVE  /\ Front(p) \in DOMAIN tabs /\ Last(p) \in DOMAIN tabs[Front(p)]
           /\ IsSubdir(tabs[Front(p)][Last(p)])
           /\ HeadOf(p) = tabs[Front(p)][Last(p)].first
           /\ tabs[Front(p)][Last(p)] \in Entries
           /\ p = Append(Front(p), Last(p))
  BY TabsTypes, FrontLast, EntriesFacts DEF TreeInv, TablesLed, HeadOf

LEMMA ScanDirectoryContent ==
    TypeInv /\ SafetyInv /\ ContentInv /\ ScanDirectory => ContentInv'
<1> SUFFICES ASSUME TypeInv, SafetyInv, ContentInv, ScanDirectory PROVE ContentInv'
  OBVIOUS
<1>1. PICK d \in DOMAIN tabs : \E i \in DOMAIN tabs[d] : ScanEntry(d, i)
  BY DEF ScanDirectory
<1>2. PICK i \in DOMAIN tabs[d] : ScanEntry(d, i)
  BY <1>1
<1> DEFINE p == Append(d, i)
           s == Chain(fat, tabs[d][i].first)
<1>3. pc = "scan" /\ Working
  BY DEF ScanDirectory, Working, Running
<1>4. CASE Undefined
  BY <1>3, <1>4, DiskUnchangedContentInv DEF Undefined
<1>5. CASE ~ Undefined
  <2>1. /\ HasChain(fat, tabs[d][i].first)
        /\ p \in Unscanned
        /\ tabs' = [q \in DOMAIN tabs \union {p} |-> IF q = p THEN ReadTable(s) ELSE tabs[q]]
        /\ UNCHANGED <<fats, root, data, pc, cmd, fat, at, slot, head, job, copy, todo, res>>
    BY <1>2, <1>5 DEF ScanEntry
  <2>2. /\ p \in Seq(Nat) /\ p # <<>> /\ Front(p) = d /\ Last(p) = i
        /\ p \notin DOMAIN tabs
    BY <2>1, TabsTypes, AppendFacts, AppendEnds DEF Unscanned
  <2>3. IsSubdir(tabs[d][i])
    <3>1. PICK d2 \in DOMAIN tabs : p \in Subdirectories(d2)
      BY <2>1 DEF Unscanned
    <3>2. PICK i2 \in DOMAIN tabs[d2] : IsSubdir(tabs[d2][i2]) /\ p = Append(d2, i2)
      BY <3>1 DEF Subdirectories
    <3>3. d2 = d /\ i2 = i
      BY <2>2, <3>2, TabsTypes, AppendEnds
    <3> QED
      BY <3>2, <3>3
  <2>4. s \in Seq(Clusters)
    BY <2>1, ChainType
  <2>5. SlotsPerCluster \in Nat \ {0} /\ Len(s) \in Nat
    BY <2>4, SlotAssumption
  <2> HIDE DEF s, p
  <2>6. ASSUME NEW m \in DOMAIN ReadTable(s)
        PROVE  ReadTable(s)[m] \in EntriesOnDisk
    <3> DEFINE k == (m - 1) \div SlotsPerCluster + 1
               r == ((m - 1) % SlotsPerCluster) + 1
    <3>1. m \in 1 .. Len(s) * SlotsPerCluster
      BY DEF ReadTable
    <3>2. k \in 1 .. Len(s) /\ r \in 1 .. SlotsPerCluster
      BY <2>5, <3>1, SMTT(30)
    <3>3. ReadTable(s)[m] = data[s[k]].slots[r]
      BY <3>1 DEF ReadTable
    <3> HIDE DEF k, r
    <3>4. s[k] \in Clusters
      BY <2>4, <3>2
    <3> QED
      BY <3>2, <3>3, <3>4, OnDiskFacts
  <2>7. ASSUME NEW e \in Entries'
        PROVE  e \in Entries
    <3>1. CASE e \in EntriesOnDisk'
      BY <2>1, <3>1, EntriesFacts, OnDiskFacts, OnDiskNext
    <3>2. ASSUME NEW q \in DOMAIN tabs', NEW m \in DOMAIN tabs'[q], e = tabs'[q][m]
          PROVE  e \in Entries
      <4>1. CASE q = p
        BY <2>1, <2>6, <3>2, <4>1, EntriesFacts
      <4>2. CASE q # p
        <5>1. q \in DOMAIN tabs /\ tabs'[q] = tabs[q]
          BY <2>1, <4>2
        <5> QED
          BY <3>2, <5>1, EntriesFacts
      <4> QED
        BY <4>1, <4>2
    <3> QED
      BY <3>1, <3>2, EntriesNext
  <2>8. TreeInv'
    <3>1. /\ DOMAIN tabs' = DOMAIN tabs \union {p}
          /\ \A q \in DOMAIN tabs : tabs'[q] = tabs[q]
      BY <2>1, <2>2
    <3>2. ASSUME NEW q \in DOMAIN tabs' \ {<<>>}
          PROVE  /\ Front(q) \in DOMAIN tabs'
                 /\ Last(q) \in DOMAIN tabs'[Front(q)]
                 /\ IsSubdir(tabs'[Front(q)][Last(q)])
      <4>1. CASE q = p
        BY <2>2, <2>3, <3>1, <4>1
      <4>2. CASE q \in DOMAIN tabs
        BY <3>1, <4>2 DEF ContentInv, TreeInv, TablesLed
      <4> QED
        BY <3>1, <4>1, <4>2
    <3>3. TablesLed'
      BY <3>2 DEF TablesLed
    <3> QED
      BY <1>3, <2>1, <3>3 DEF TreeInv
  <2>9. Working' /\ PhasesSet'
    BY <1>3, <2>1 DEF Working, Running, PhasesSet, ContentInv
  <2> QED
    BY <1>3, <2>1, <2>7, <2>8, <2>9, ReadingStepKeeps
<1> QED
  BY <1>4, <1>5

-----------------------------------------------------------------------------
(***************************************************************************)
(* A command starts, makes a new image, or is refused.                     *)
(***************************************************************************)
LEMMA NoHeads ==
    ASSUME NEW S, \A e \in S : e.first \notin Stored
    PROVE  \A t, d :
              /\ Apart(t, S) /\ OneKindEach(S)
              /\ FilesAt(t, d, S) /\ DirectoriesAt(t, d, S)
<1> SUFFICES ASSUME NEW t, NEW d
             PROVE  /\ Apart(t, S) /\ OneKindEach(S)
                    /\ FilesAt(t, d, S) /\ DirectoriesAt(t, d, S)
  OBVIOUS
<1>1. Apart(t, S) /\ OneKindEach(S)
  BY NoExtent DEF Apart, OneKindEach
<1>2. FilesAt(t, d, S)
  BY NoFileHere DEF FilesAt
<1>3. DirectoriesAt(t, d, S)
  BY NoExtent DEF DirectoriesAt, NoFileAt
<1> QED
  BY <1>1, <1>2, <1>3

LEMMA InitContentInv == Init => ContentInv
<1> SUFFICES ASSUME Init PROVE ContentInv
  OBVIOUS
<1>1. ~ Running /\ ~ Working
  BY DEF Init, Running, Working
<1>2. DOMAIN tabs = {<<>>} /\ DOMAIN tabs[<<>>] = {}
  BY DEF Init
<1>3. ASSUME NEW e \in Entries
      PROVE  e.first \notin Stored
  BY <1>2, EntriesFacts, OnDiskFacts, BlockHeads, NotStored DEF Init
<1>4. ExtentsApart /\ OneKind /\ FilesHeld
  BY <1>3, NoHeads DEF ExtentsApart, OneKind, FilesHeld
<1>5. TablesHeld
  <2>1. \A e \in EntriesOnDisk : e.first \notin Stored
    BY <1>3, EntriesFacts
  <2>2. DirectoriesAt(Table, data, EntriesOnDisk)
    BY <2>1, NoHeads
  <2> QED
    BY <2>2 DEF TablesHeld, Init
<1>6. UnsavedLinks /\ NewChain
  BY NotStored DEF Init, UnsavedLinks, NewChain, Unsaved
<1>7. TreeInv
  BY <1>1, <1>2 DEF TreeInv, TablesLed
<1>8. PhasesSet
  BY <1>2 DEF Init, PhasesSet
<1> QED
  BY <1>4, <1>5, <1>6, <1>7, <1>8 DEF ContentInv

LEMMA StartContent ==
    ASSUME TypeInv, SafetyInv, ContentInv, NEW c \in Commands, Start(c)
    PROVE  ContentInv'
<1>1. /\ pc = "idle" /\ pc' = "scan"
      /\ tabs' = [p \in {<<>>} |-> root]
      /\ fat' = [k \in Clusters |-> IF k \in Stored THEN fats[1][k] ELSE 0]
      /\ UNCHANGED <<fats, root, data, todo>>
  BY DEF Start
<1>2. ~ Working /\ Working' /\ Table = fats[1] /\ Table' = fat'
  BY <1>1 DEF Working, Running, Table
<1>3. \A k \in Stored : fats[1][k] = fat'[k]
  BY <1>1, ClusterSets
<1>4. EntriesOnDisk' = EntriesOnDisk
  BY <1>1 DEF EntriesOnDisk
<1>5. \A e \in Entries' : e \in Entries
  BY <1>1, <1>4, EntriesFacts, EntriesNext, OnDiskFacts
<1>6. \A h : /\ Extent(fat', h) = Extent(fats[1], h)
             /\ \A k \in Extent(fats[1], h) : fat'[k] = fats[1][k]
  <2>1. \A h : Extent(fat', h) = Extent(fats[1], h)
    BY <1>3, ExtentAgrees
  <2>2. \A h : Extent(fats[1], h) \subseteq Stored
    BY DEF Extent
  <2> QED
    BY <1>3, <2>1, <2>2
<1>7. \A e \in Entries' : e.first \in Stored =>
            /\ e \in Entries
            /\ Extent(fat', e.first) = Extent(fats[1], e.first)
            /\ \A k \in Extent(fats[1], e.first) : fat'[k] = fats[1][k]
  BY <1>5, <1>6
<1>8. Apart(fats[1], Entries) /\ OneKindEach(Entries) /\ FilesAt(fats[1], data, Entries)
  BY <1>2 DEF ContentInv, ExtentsApart, OneKind, FilesHeld
<1>9. Apart(fat', Entries')
  BY <1>7, <1>8, ApartKept
<1>10. OneKindEach(Entries')
  BY <1>7, <1>8, OneKindKept
<1>11. FilesAt(fat', data', Entries')
  BY <1>1, <1>7, <1>8, FilesKept
<1>12. TablesHeld'
  <2>1. DirectoriesAt(fats[1], data, EntriesOnDisk)
    BY <1>2 DEF ContentInv, TablesHeld
  <2>2. DirectoriesAt(fat', data', EntriesOnDisk')
    BY <1>1, <1>4, <1>6, <2>1, DirectoriesKept
  <2> QED
    BY <1>1, <1>2, <2>2 DEF TablesHeld
<1>13. UnsavedLinks'
  BY <1>1, NotStored DEF UnsavedLinks, Unsaved
<1>14. NewChain' /\ PhasesSet'
  BY <1>1, <1>2 DEF NewChain, PhasesSet, ContentInv
<1>15. TreeInv'
  BY <1>1 DEF TreeInv, TablesLed
<1> QED
  BY <1>2, <1>9, <1>10, <1>11, <1>12, <1>13, <1>14, <1>15
     DEF ContentInv, ExtentsApart, OneKind, FilesHeld

LEMMA StartCreateContent ==
    ASSUME TypeInv, SafetyInv, ContentInv, NEW c \in Commands, StartCreate(c)
    PROVE  ContentInv'
<1>1. /\ pc = "idle" /\ pc' = "format"
      /\ tabs' = [p \in {<<>>} |-> [i \in 1 .. RootSlots |-> EmptyEntry]]
      /\ UNCHANGED <<fats, root, data, fat, todo>>
  BY DEF StartCreate
<1>2. ~ Working /\ ~ Working' /\ Table = fats[1] /\ Table' = fats[1]
  BY <1>1 DEF Working, Running, Table
<1>3. EntriesOnDisk' = EntriesOnDisk
  BY <1>1 DEF EntriesOnDisk
<1>4. \A e \in Entries' : e.first \in Stored => e \in Entries
  BY <1>1, <1>3, EntriesFacts, EntriesNext, NotStored
<1>5. Apart(fats[1], Entries) /\ OneKindEach(Entries) /\ FilesAt(fats[1], data, Entries)
  BY <1>2 DEF ContentInv, ExtentsApart, OneKind, FilesHeld
<1>6. Apart(fats[1], Entries') /\ OneKindEach(Entries')
  BY <1>4, <1>5, ApartKept, OneKindKept
<1>7. FilesAt(fats[1], data', Entries')
  BY <1>1, <1>4, <1>5, FilesKept
<1>8. TablesHeld'
  BY <1>1, <1>2, <1>3 DEF ContentInv, TablesHeld, DirectoriesAt, NoFileAt
<1>9. UnsavedLinks' /\ NewChain' /\ PhasesSet'
  BY <1>1 DEF UnsavedLinks, NewChain, PhasesSet, ContentInv
<1>10. TreeInv'
  BY <1>1, EntryTypes DEF TreeInv, TablesLed, TablesComplete
<1> QED
  BY <1>2, <1>6, <1>7, <1>8, <1>9, <1>10
     DEF ContentInv, ExtentsApart, OneKind, FilesHeld

LEMMA FormatContent ==
    TypeInv /\ SafetyInv /\ ContentInv /\ Format => ContentInv'
<1> SUFFICES ASSUME TypeInv, SafetyInv, ContentInv, Format PROVE ContentInv'
  OBVIOUS
<1>1. /\ pc = "format"
      /\ root' = [i \in 1 .. RootSlots |-> EmptyEntry]
      /\ data' = [c \in Clusters |-> ZeroBlock]
  BY DEF Format
<1>2. ~ Working /\ Running
  BY <1>1 DEF Working, Running
<1>3. \/ Exit("ok")
      \/ pc' = "create" /\ UNCHANGED <<fat, tabs, todo>>
  BY DEF Format
<1>4. \A p \in DOMAIN tabs' : \A i \in DOMAIN tabs'[p] : tabs'[p][i] = EmptyEntry
  BY <1>2, <1>3, EndsTree DEF Exit, ContentInv, PhasesSet
<1>5. ASSUME NEW e \in Entries'
      PROVE  e.first \notin Stored
  BY <1>1, <1>4, EntriesNext, OnDiskNext, BlockHeads, NotStored
<1>6. ExtentsApart' /\ OneKind' /\ FilesHeld'
  BY <1>5, NoHeads DEF ExtentsApart, OneKind, FilesHeld
<1>7. TablesHeld'
  <2>1. \A e \in EntriesOnDisk' : e.first \notin Stored
    BY <1>5, EntriesNext
  <2>2. DirectoriesAt(Table', data', EntriesOnDisk')
    BY <2>1, NoHeads
  <2>3. pc' # "dirs"
    BY <1>3 DEF Exit, Ends
  <2> QED
    BY <2>2, <2>3 DEF TablesHeld
<1>8. UnsavedLinks' /\ NewChain' /\ TreeInv' /\ PhasesSet'
  <2>1. CASE Exit("ok")
    BY <2>1, EndsTree DEF Exit
  <2>2. CASE pc' = "create" /\ UNCHANGED <<fat, tabs, todo>>
    <3>1. TreeInv'
      BY <1>1, <1>2, <2>2, SameTabsTree DEF ContentInv
    <3>2. UnsavedLinks' /\ NewChain' /\ PhasesSet'
      BY <1>2, <1>4, <2>2 DEF UnsavedLinks, NewChain, PhasesSet, ContentInv
    <3> QED
      BY <3>1, <3>2
  <2> QED
    BY <1>3, <2>1, <2>2
<1> QED
  BY <1>6, <1>7, <1>8 DEF ContentInv

LEMMA RefusedContent ==
    TypeInv /\ SafetyInv /\ ContentInv
            /\ (CreateFileFails \/ WalkPathFails \/ SoftDelete \/ DeleteRefused \/ MoveRefused)
        => ContentInv'
<1> SUFFICES ASSUME TypeInv, SafetyInv, ContentInv,
                    CreateFileFails \/ WalkPathFails \/ SoftDelete \/ DeleteRefused \/ MoveRefused
             PROVE  ContentInv'
  OBVIOUS
<1>1. pc \in {"create", "path", "scan"} /\ UNCHANGED disk
  BY DEF CreateFileFails, WalkPathFails, SoftDelete, DeleteRefused, MoveRefused, Opened
<1>2. \E result : Exit(result)
  BY DEF CreateFileFails, WalkPathFails, SoftDelete, DeleteRefused, MoveRefused
<1> QED
  BY <1>1, <1>2, DiskUnchangedContentInv DEF Working, Running

-----------------------------------------------------------------------------
(***************************************************************************)
(* Contents are written to free clusters.                                  *)
(***************************************************************************)
\* What may be in the cluster c of data' without disturbing anything.
LEMMA FreeWrites ==
    ASSUME TypeInv, SafetyInv, ContentInv, Working, NEW n \in Nat, CanAllocate(fat, n),
           UNCHANGED root,
           \A c \in Clusters :
                \/ data'[c] = data[c]
                \/ /\ c \in FirstFit(fat, n)
                   /\ \A i \in 1 .. SlotsPerCluster : data'[c].slots[i] = EmptyEntry
    PROVE  /\ \A e \in EntriesOnDisk' : e \in EntriesOnDisk \/ e = EmptyEntry
           /\ \A e \in Entries : \A c \in Extent(fat, e.first) : data'[c] = data[c]
           /\ DirectoriesAt(fat, data', EntriesOnDisk')
<1>1. \A e \in EntriesOnDisk' : e \in EntriesOnDisk \/ e = EmptyEntry
  BY OnDiskFacts, OnDiskNext
<1>2. fat \in [Clusters -> FatValues]
  BY DEF TypeInv, TypeOK
<1>3. ASSUME NEW e \in Entries, NEW c \in Extent(fat, e.first)
      PROVE  data'[c] = data[c]
  <2>1. Anchored(fat, e.first)
    BY EntriesAnchored DEF Table, ContentInv
  <2>2. c \in Stored /\ c \notin FirstFit(fat, n)
    BY <1>2, <2>1, AllocatedExtent, ExtentFacts
  <2> QED
    BY <2>2, ClusterSets
<1>4. DirectoriesAt(fat, data', EntriesOnDisk')
  <2>1. DirectoriesAt(fat, data, EntriesOnDisk)
    BY DEF ContentInv, TablesHeld, Table
  <2>2. \A e \in EntriesOnDisk' : IsSubdir(e) /\ e.first \in Stored =>
            /\ e \in EntriesOnDisk
            /\ Extent(fat, e.first) = Extent(fat, e.first)
            /\ \A c \in Extent(fat, e.first) : data'[c] = data[c] \/ data'[c].kind # "file"
    BY <1>1, <1>3, NotStored, EntriesFacts
  <2> QED
    BY <2>1, <2>2, DirectoriesKept
<1> QED
  BY <1>1, <1>3, <1>4

LEMMA FileWrites ==
    ASSUME NEW s, NEW size, NEW S, \A k \in 1 .. Len(s) : s[k] \in S, data' = StoreFile(s, size)
    PROVE  \A c \in Clusters :
                \/ data'[c] = data[c]
                \/ /\ c \in S
                   /\ \A i \in 1 .. SlotsPerCluster : data'[c].slots[i] = EmptyEntry
<1> SUFFICES ASSUME NEW c \in Clusters
             PROVE  \/ data'[c] = data[c]
                    \/ /\ c \in S
                       /\ \A i \in 1 .. SlotsPerCluster : data'[c].slots[i] = EmptyEntry
  OBVIOUS
<1>1. CASE Visits(s, c)
  BY <1>1 DEF StoreFile, Visits, FileBlock, EmptySlots
<1>2. CASE ~ Visits(s, c)
  BY <1>2 DEF StoreFile
<1> QED
  BY <1>1, <1>2

LEMMA CreateFileContent ==
    TypeInv /\ SafetyInv /\ ContentInv /\ CreateFile => ContentInv'
<1> SUFFICES ASSUME TypeInv, SafetyInv, ContentInv, CreateFile PROVE ContentInv'
  OBVIOUS
<1> DEFINE size == cmd.files[job].size
           s == Chain(fat', head')
           E == Extent(fat', head')
<1>1. /\ pc = "create" /\ pc' = "path"
      /\ CanAllocate(fat, size)
      /\ fat' = Allocate(fat, size)
      /\ head' = AllocatedHead(fat, size)
      /\ data' = StoreFile(s, size)
      /\ UNCHANGED <<fats, root, cmd, tabs, slot, job, copy, todo, res>>
  BY DEF CreateFile
<1>2. Working /\ Working' /\ Running
  BY <1>1 DEF Working, Running
<1>3. size \in Nat /\ fat \in [Clusters -> FatValues]
  BY <1>1, PutCommand DEF TypeInv, TypeOK, PhaseOK, NoCommand
<1>4. /\ HasChain(fat', head') /\ Len(s) = size
      /\ \A k \in 1 .. Len(s) : s[k] \in FirstFit(fat, size)
  BY <1>1, <1>3, AllocatedChain
<1>5. Below(fat, fat') /\ Anchored(fat', head')
  BY <1>1, <1>3, AllocateFacts
<1>6. /\ E \subseteq FirstFit(fat, size)
      /\ \A h : Anchored(fat, h) => Extent(fat', h) = Extent(fat, h)
                                    /\ Extent(fat, h) \intersect FirstFit(fat, size) = {}
      /\ UnsavedLinks'
  BY <1>1, <1>3, AllocatedExtent DEF ContentInv, UnsavedLinks
<1>7. \A c \in Clusters :
            \/ data'[c] = data[c]
            \/ /\ c \in FirstFit(fat, size)
               /\ \A i \in 1 .. SlotsPerCluster : data'[c].slots[i] = EmptyEntry
  BY <1>1, <1>4, FileWrites
<1>8. /\ \A e \in EntriesOnDisk' : e \in EntriesOnDisk \/ e = EmptyEntry
      /\ \A e \in Entries : \A c \in Extent(fat, e.first) : data'[c] = data[c]
      /\ DirectoriesAt(fat, data', EntriesOnDisk')
  BY <1>1, <1>2, <1>3, <1>7, FreeWrites
<1>9. \A e \in Entries' : e.first \in Stored => e \in Entries
  BY <1>1, <1>8, EntriesFacts, EntriesNext, NotStored
<1>10. ExtentsApart' /\ OneKind' /\ FilesHeld'
  BY <1>2, <1>5, <1>8, <1>9, WorkingKeeps
<1>11. \A e \in Entries' : E \intersect Extent(fat', e.first) = {}
  BY <1>2, <1>6, <1>9, EntriesAnchored, NoExtent DEF Table, ContentInv
<1>12. FileAt(fat', data', head', size)
  <2>1. \A c \in Unsaved : fat'[c] \notin Stored
    BY <1>6 DEF UnsavedLinks
  <2>2. /\ \A k \in 1 .. Len(s) : s[k] \in Stored => s[k] \in E /\ PlaceIn(E, s[k]) = k
        /\ \A c \in E : \E k \in 1 .. Len(s) : s[k] = c
        /\ (\E c \in E : fat'[c] = EndOfChain) => Cardinality(E) = Len(s)
    BY <1>4, <1>5, <2>1, ChainPassesExtent
  <2>3. ASSUME NEW c \in E
        PROVE  data'[c] = FileBlock(size, PlaceIn(E, c))
    <3>1. c \in Stored /\ c \in Clusters
      BY ClusterSets DEF Extent
    <3>2. Visits(s, c)
      BY <2>2 DEF Visits
    <3>3. Position(s, c) \in 1 .. Len(s) /\ s[Position(s, c)] = c
      BY <3>2 DEF Visits, Position
    <3>4. PlaceIn(E, c) = Position(s, c)
      BY <2>2, <3>1, <3>3
    <3> QED
      BY <1>1, <3>1, <3>2, <3>4 DEF StoreFile
  <2> QED
    BY <1>4, <2>2, <2>3 DEF FileAt
<1>13. NewChain'
  BY <1>1, <1>11, <1>12 DEF NewChain
<1>14. TablesHeld'
  <2>1. \A e \in EntriesOnDisk' : IsSubdir(e) /\ e.first \in Stored =>
            /\ e \in EntriesOnDisk'
            /\ Extent(fat', e.first) = Extent(fat, e.first)
            /\ \A c \in Extent(fat, e.first) : data'[c] = data'[c] \/ data'[c].kind # "file"
    BY <1>2, <1>6, <1>9, EntriesNext, EntriesAnchored DEF Table, ContentInv
  <2>2. DirectoriesAt(fat', data', EntriesOnDisk')
    BY <1>8, <2>1, DirectoriesKept
  <2> QED
    BY <1>1, <1>2, <2>2 DEF TablesHeld, Table
<1>15. TreeInv' /\ PhasesSet'
  BY <1>1, <1>2, SameTabsTree DEF ContentInv, PhasesSet
<1> QED
  BY <1>6, <1>10, <1>13, <1>14, <1>15 DEF ContentInv

LEMMA InterruptedInFileContent ==
    TypeInv /\ SafetyInv /\ ContentInv /\ InterruptedInFile => ContentInv'
<1> SUFFICES ASSUME TypeInv, SafetyInv, ContentInv, InterruptedInFile PROVE ContentInv'
  OBVIOUS
<1> DEFINE size == cmd.files[job].size
           s == Chain(Allocate(fat, size), AllocatedHead(fat, size))
<1>1. PICK k \in 1 .. Len(s) : data' = StoreFile(SubSeq(s, 1, k), size)
  BY DEF InterruptedInFile
<1>2. /\ pc = "create" /\ CanAllocate(fat, size)
      /\ Ends("idle", "interrupted")
      /\ UNCHANGED <<fats, root>>
  BY DEF InterruptedInFile, Interrupted, Exit
<1>3. Working
  BY <1>2 DEF Working, Running
<1>4. size \in Nat /\ fat \in [Clusters -> FatValues]
  BY <1>2, PutCommand DEF TypeInv, TypeOK, PhaseOK, NoCommand
<1>5. s \in Seq(Clusters) /\ \A m \in 1 .. Len(s) : s[m] \in FirstFit(fat, size)
  BY <1>2, <1>4, AllocatedChain, ChainType
<1>6. \A m \in 1 .. Len(SubSeq(s, 1, k)) : SubSeq(s, 1, k)[m] \in FirstFit(fat, size)
  BY <1>5, PrefixOfChain
<1>7. \A c \in Clusters :
            \/ data'[c] = data[c]
            \/ /\ c \in FirstFit(fat, size)
               /\ \A i \in 1 .. SlotsPerCluster : data'[c].slots[i] = EmptyEntry
  BY <1>1, <1>6, FileWrites
<1>8. /\ \A e \in EntriesOnDisk' : e \in EntriesOnDisk \/ e = EmptyEntry
      /\ \A e \in Entries : \A c \in Extent(fat, e.first) : data'[c] = data[c]
      /\ DirectoriesAt(fat, data', EntriesOnDisk')
  BY <1>2, <1>3, <1>4, <1>7, FreeWrites
<1>9. \A e \in EntriesOnDisk' : e.first \in Stored => e \in Entries
  BY <1>8, EntriesFacts, NotStored
<1>10. Below(fats'[1], fat)
  BY <1>2, <1>3, FirstCopy DEF SafetyInv, FatsBelow, Working
<1>11. HeadsAnchored'
  BY InterruptSafetyInv DEF Interrupt, SafetyInv
<1> QED
  BY <1>2, <1>3, <1>8, <1>9, <1>10, <1>11, EndsKeeps

-----------------------------------------------------------------------------
(***************************************************************************)
(* New entries: they lead to clusters that no other entry leads to.        *)
(***************************************************************************)
LEMMA AddedEntry ==
    ASSUME NEW t, NEW d, NEW S, NEW T, NEW e,
           Apart(t, S), OneKindEach(S), FilesAt(t, d, S),
           \A f \in S : Extent(t, e.first) \intersect Extent(t, f.first) = {},
           \A f \in S : e.first \in Stored => f.first # e.first,
           ~ e.dir => FileAt(t, d, e.first, e.size),
           \A f \in T : f.first \in Stored => f \in S \/ f = e
    PROVE  Apart(t, T) /\ OneKindEach(T) /\ FilesAt(t, d, T)
<1>1. Apart(t, T)
  <2> SUFFICES ASSUME NEW f \in T, NEW g \in T, f.first # g.first
               PROVE  Extent(t, f.first) \intersect Extent(t, g.first) = {}
    BY DEF Apart
  <2>1. CASE f.first \notin Stored \/ g.first \notin Stored
    BY <2>1, NoExtent
  <2>2. CASE f.first \in Stored /\ g.first \in Stored
    <3>1. f \in S \/ f = e
      BY <2>2
    <3>2. g \in S \/ g = e
      BY <2>2
    <3> QED
      BY <3>1, <3>2 DEF Apart
  <2> QED
    BY <2>1, <2>2
<1>2. OneKindEach(T)
  <2> SUFFICES ASSUME NEW f \in T, NEW g \in T, f.first = g.first, f.first \in Stored
               PROVE  f.dir = g.dir
    BY DEF OneKindEach
  <2>1. f \in S \/ f = e
    OBVIOUS
  <2>2. g \in S \/ g = e
    OBVIOUS
  <2> QED
    BY <2>1, <2>2 DEF OneKindEach
<1>3. FilesAt(t, d, T)
  BY NoFileHere DEF FilesAt
<1> QED
  BY <1>1, <1>2, <1>3

\* The slot a file's entry is written to.
LEMMA FilledSlot ==
    ASSUME TypeInv, FillEntry
    PROVE  \E i \in DOMAIN tabs[at] :
              /\ at \in DOMAIN tabs
              /\ tabs'[at][i].first = head
              /\ tabs'[at][i].size = cmd.files[job].size
              /\ IsSubdir(tabs'[at][i]) <=> IsSubdir(tabs[at][i])
              /\ DOMAIN tabs' = DOMAIN tabs
              /\ \A q \in DOMAIN tabs : DOMAIN tabs'[q] = DOMAIN tabs[q]
              /\ \A q \in DOMAIN tabs : \A k \in DOMAIN tabs[q] :
                    <<q, k>> # <<at, i>> => tabs'[q][k] = tabs[q][k]
<1> DEFINE i == Min(EntrySlots(tabs[at], Component))
           e == FileEntry(tabs[at][i], Component, head, cmd.files[job].size)
<1>1. /\ pc = "path" /\ cmd \in Commands /\ cmd.op \in {"create", "put"}
      /\ job \in 1 .. Len(cmd.files) /\ at \in DOMAIN tabs /\ Len(at) < Len(PathOf)
      /\ Len(at) \in Nat
  BY DEF FillEntry, TypeInv, TypeOK, PhaseOK, NoCommand, PathOf
<1>2. /\ DOMAIN tabs \subseteq Seq(Nat) /\ tabs \in [DOMAIN tabs -> Seq(Entry)]
      /\ tabs[at] \in Seq(Entry) /\ head \in Clusters \union {0}
  BY <1>1 DEF TypeInv, TypeOK
<1>3. Component \in Names /\ cmd.files[job].size \in Nat
  <2>1. PathOf \in Seq(Names) /\ cmd.files[job].size \in Nat
    BY <1>1, PutCommand DEF PathOf
  <2> QED
    BY <1>1, <2>1 DEF Component
<1>4. /\ EntrySlots(tabs[at], Component) # {}
      /\ tabs' = [tabs EXCEPT ![at][i] = e]
  BY DEF FillEntry
<1>5. i \in DOMAIN tabs[at] /\ tabs[at][i].name \in {Component, NoName}
  <2>1. EntrySlots(tabs[at], Component) \in SUBSET Nat
    BY <1>2 DEF EntrySlots, SlotsNamed
  <2>2. i \in EntrySlots(tabs[at], Component)
    BY <1>4, <2>1, MinOfNaturals
  <2>3. i \in SlotsNamed(tabs[at], Component) \union SlotsNamed(tabs[at], NoName)
    BY <2>2 DEF EntrySlots
  <2> HIDE DEF i
  <2> QED
    BY <2>3 DEF SlotsNamed
<1>6. tabs[at][i] \in Entry
  BY <1>2, <1>5
<1>7. /\ e.first = head /\ e.size = cmd.files[job].size
      /\ e.name = Component /\ e.dir = tabs[at][i].dir
  BY DEF FileEntry
<1>8. e \in Entry /\ (IsSubdir(e) <=> IsSubdir(tabs[at][i]))
  <2>1. tabs[at][i].dir \in BOOLEAN
    BY <1>6 DEF Entry, AnyEntry
  <2>2. e \in AnyEntry
    BY <1>2, <1>3, <2>1 DEF FileEntry, AnyEntry
  <2>3. e \in Entry
    BY <1>3, <1>7, <2>2, NamesAssumption DEF Entry
  <2>4. tabs[at][i].name = NoName => ~ tabs[at][i].dir
    BY <1>6 DEF Entry, EmptyEntry
  <2>5. IsSubdir(e) <=> IsSubdir(tabs[at][i])
    BY <1>3, <1>5, <1>7, <2>4, NamesAssumption DEF IsSubdir, IsEmpty, IsDotDir
  <2> QED
    BY <2>3, <2>5
<1> HIDE DEF i, e
<1>9. /\ tabs' \in [DOMAIN tabs -> Seq(Entry)]
      /\ \A q \in DOMAIN tabs : DOMAIN tabs'[q] = DOMAIN tabs[q]
      /\ tabs'[at][i] = e
      /\ \A q \in DOMAIN tabs : \A k \in DOMAIN tabs[q] :
            <<q, k>> # <<at, i>> => tabs'[q][k] = tabs[q][k]
  BY <1>1, <1>2, <1>4, <1>5, <1>8, EditType
<1>10. DOMAIN tabs' = DOMAIN tabs
  BY <1>9
<1> QED
  BY <1>1, <1>5, <1>7, <1>8, <1>9, <1>10

LEMMA FillEntryContent ==
    TypeInv /\ SafetyInv /\ ContentInv /\ FillEntry => ContentInv'
<1> SUFFICES ASSUME TypeInv, SafetyInv, ContentInv, FillEntry PROVE ContentInv'
  OBVIOUS
<1>1. /\ pc = "path" /\ pc' \in {"fat", "create"}
      /\ UNCHANGED <<fats, root, data, cmd, fat, at, slot, head, todo, res>>
  BY DEF FillEntry, BeginWrite
<1>2. Working /\ Working' /\ Running /\ Table = fat /\ Table' = fat
  BY <1>1 DEF Working, Running, Table
<1>3. PICK i \in DOMAIN tabs[at] :
        /\ at \in DOMAIN tabs
        /\ tabs'[at][i].first = head
        /\ tabs'[at][i].size = cmd.files[job].size
        /\ IsSubdir(tabs'[at][i]) <=> IsSubdir(tabs[at][i])
        /\ DOMAIN tabs' = DOMAIN tabs
        /\ \A q \in DOMAIN tabs : DOMAIN tabs'[q] = DOMAIN tabs[q]
        /\ \A q \in DOMAIN tabs : \A k \in DOMAIN tabs[q] :
              <<q, k>> # <<at, i>> => tabs'[q][k] = tabs[q][k]
  BY FilledSlot
<1> DEFINE e == tabs'[at][i]
<1> HIDE DEF e
<1>4. ASSUME NEW f \in Entries'
      PROVE  f \in Entries \/ f = e
  <2>1. CASE f \in EntriesOnDisk'
    BY <1>1, <2>1, EntriesFacts, OnDiskFacts, OnDiskNext
  <2>2. ASSUME NEW q \in DOMAIN tabs', NEW k \in DOMAIN tabs'[q], f = tabs'[q][k]
        PROVE  f \in Entries \/ f = e
    <3>1. q \in DOMAIN tabs /\ k \in DOMAIN tabs[q]
      BY <1>3
    <3>2. CASE <<q, k>> = <<at, i>>
      BY <2>2, <3>2 DEF e
    <3>3. CASE <<q, k>> # <<at, i>>
      BY <1>3, <2>2, <3>1, <3>3, EntriesFacts
    <3> QED
      BY <3>2, <3>3
  <2> QED
    BY <2>1, <2>2, EntriesNext
<1>5. /\ FileAt(fat, data, head, cmd.files[job].size)
      /\ \A f \in Entries : Extent(fat, head) \intersect Extent(fat, f.first) = {}
  BY <1>1 DEF ContentInv, NewChain
<1>6. \A f \in Entries : head \in Stored => f.first # head
  BY <1>1, <1>5, ExtentFacts DEF SafetyInv, MemoryAnchored
<1>7. Apart(fat, Entries) /\ OneKindEach(Entries) /\ FilesAt(fat, data, Entries)
  BY <1>2 DEF ContentInv, ExtentsApart, OneKind, FilesHeld
<1>8. e.first = head /\ e.size = cmd.files[job].size
  BY <1>3 DEF e
<1>9. Apart(fat, Entries') /\ OneKindEach(Entries') /\ FilesAt(fat, data, Entries')
  BY <1>4, <1>5, <1>6, <1>7, <1>8, AddedEntry
<1>10. TreeInv'
  <2>1. \A q \in DOMAIN tabs : \A k \in DOMAIN tabs[q] :
            IsSubdir(tabs'[q][k]) <=> IsSubdir(tabs[q][k])
    BY <1>3 DEF IsSubdir, IsEmpty, IsDotDir
  <2>2. TablesLed'
    <3> SUFFICES ASSUME NEW q \in DOMAIN tabs' \ {<<>>}
                 PROVE  /\ Front(q) \in DOMAIN tabs'
                        /\ Last(q) \in DOMAIN tabs'[Front(q)]
                        /\ IsSubdir(tabs'[Front(q)][Last(q)])
      BY DEF TablesLed, IsSubdir, IsEmpty, IsDotDir
    <3>1. /\ Front(q) \in DOMAIN tabs
          /\ Last(q) \in DOMAIN tabs[Front(q)]
          /\ IsSubdir(tabs[Front(q)][Last(q)])
      BY <1>3 DEF ContentInv, TreeInv, TablesLed
    <3> QED
      BY <1>3, <2>1, <3>1
  <2>3. TablesComplete
    BY <1>1, <1>2 DEF ContentInv, TreeInv
  <2>4. TablesComplete'
    <3> SUFFICES ASSUME NEW q \in DOMAIN tabs', NEW k \in DOMAIN tabs'[q],
                        IsSubdir(tabs'[q][k])
                 PROVE  Append(q, k) \in DOMAIN tabs'
      BY DEF TablesComplete, IsSubdir, IsEmpty, IsDotDir
    <3> QED
      BY <1>3, <2>1, <2>3 DEF TablesComplete
  <2> QED
    BY <2>2, <2>4 DEF TreeInv
<1>11. ExtentsApart' /\ OneKind' /\ FilesHeld'
  BY <1>1, <1>2, <1>9 DEF ExtentsApart, OneKind, FilesHeld
<1>12. UnsavedLinks' /\ NewChain' /\ PhasesSet'
  BY <1>1, <1>2 DEF UnsavedLinks, NewChain, PhasesSet, ContentInv
<1>13. Below(fat, fat')
  BY <1>1 DEF Below
<1> QED
  BY <1>1, <1>2, <1>10, <1>11, <1>12, <1>13, MemoryStepKeeps

\* The directory a path is missing.
LEMMA MadeSlot ==
    ASSUME TypeInv, MakeDirectory
    PROVE  \E i \in DOMAIN tabs[at] :
              LET p == Append(at, i)
              IN  /\ at \in DOMAIN tabs /\ at \in Seq(Nat) /\ i \in Nat
                  /\ IsEmpty(tabs[at][i])
                  /\ at # p /\ at' = p
                  /\ DOMAIN tabs' = DOMAIN tabs \union {p}
                  /\ \A k \in DOMAIN tabs'[p] : tabs'[p][k].first = 0
                  /\ IsSubdir(tabs'[at][i]) /\ tabs'[at][i].dir
                  /\ tabs'[at][i].first = AllocatedHead(fat, DirClusters)
                  /\ \A q \in DOMAIN tabs \ {p} : DOMAIN tabs'[q] = DOMAIN tabs[q]
                  /\ \A q \in DOMAIN tabs \ {p} : \A k \in DOMAIN tabs[q] :
                        <<q, k>> # <<at, i>> => tabs'[q][k] = tabs[q][k]
<1> DEFINE i == FirstFree(tabs[at])
           p == Append(at, i)
           e == NewDirectory(Component, AllocatedHead(fat, DirClusters))
           edited == [tabs EXCEPT ![at][i] = e]
<1>1. /\ pc = "path" /\ cmd \in Commands /\ cmd.op \in {"create", "put"}
      /\ job \in 1 .. Len(cmd.files) /\ at \in DOMAIN tabs /\ Len(at) < Len(PathOf)
      /\ Len(at) \in Nat /\ at \in Seq(Nat)
  BY DEF MakeDirectory, TypeInv, TypeOK, PhaseOK, NoCommand, PathOf
<1>2. /\ fat \in [Clusters -> FatValues]
      /\ DOMAIN tabs \subseteq Seq(Nat) /\ tabs \in [DOMAIN tabs -> Seq(Entry)]
      /\ tabs[at] \in Seq(Entry)
  BY <1>1 DEF TypeInv, TypeOK
<1>3. Component \in Names
  <2>1. PathOf \in Seq(Names)
    BY <1>1, PutCommand DEF PathOf
  <2> QED
    BY <1>1, <2>1 DEF Component
<1>4. /\ tabs' = [q \in DOMAIN tabs \union {p} |-> IF q = p THEN NewTable ELSE edited[q]]
      /\ CanAllocate(fat, DirClusters)
      /\ SlotsNamed(tabs[at], NoName) # {}
      /\ at' = p
  BY DEF MakeDirectory
<1>5. AllocatedHead(fat, DirClusters) \in Clusters
  BY <1>2, <1>4, AllocateFacts, SlotAssumption
<1>6. i \in DOMAIN tabs[at] /\ i \in Nat /\ IsEmpty(tabs[at][i])
  <2>1. SlotsNamed(tabs[at], NoName) \in SUBSET Nat
    BY <1>2 DEF SlotsNamed
  <2>2. i \in SlotsNamed(tabs[at], NoName)
    BY <1>4, <2>1, MinOfNaturals DEF FirstFree
  <2> HIDE DEF i
  <2> QED
    BY <2>1, <2>2 DEF SlotsNamed, IsEmpty
<1>7. /\ e \in Entry /\ e.dir /\ IsSubdir(e)
      /\ e.first = AllocatedHead(fat, DirClusters)
  <2>1. e \in Entry
    BY <1>3, <1>5, DirectoryEntryType
  <2> QED
    BY <1>3, <2>1, NamesAssumption DEF NewDirectory, IsSubdir, IsEmpty, IsDotDir
<1>8. \A k \in DOMAIN NewTable : NewTable[k].first = 0
  BY BlockHeads DEF NewTable, NewDirectory
<1>9. p \in Seq(Nat) /\ Len(p) = Len(at) + 1 /\ at # p
  BY <1>1, <1>6, AppendFacts
<1> HIDE DEF i, e
<1>10. /\ edited \in [DOMAIN tabs -> Seq(Entry)]
       /\ \A q \in DOMAIN tabs : DOMAIN edited[q] = DOMAIN tabs[q]
       /\ edited[at][i] = e
       /\ \A q \in DOMAIN tabs : \A k \in DOMAIN tabs[q] :
            <<q, k>> # <<at, i>> => edited[q][k] = tabs[q][k]
  BY <1>1, <1>2, <1>6, <1>7, EditType
<1> HIDE DEF edited, p
<1>11. /\ DOMAIN tabs' = DOMAIN tabs \union {p}
       /\ tabs'[p] = NewTable
       /\ \A q \in DOMAIN tabs \ {p} : tabs'[q] = edited[q]
  BY <1>4
<1>12. tabs'[at] = edited[at]
  BY <1>1, <1>9, <1>11
<1> QED
  BY <1>1, <1>4, <1>6, <1>7, <1>8, <1>9, <1>10, <1>11, <1>12 DEF p

LEMMA MakeDirectoryContent ==
    TypeInv /\ SafetyInv /\ ContentInv /\ MakeDirectory => ContentInv'
<1> SUFFICES ASSUME TypeInv, SafetyInv, ContentInv, MakeDirectory PROVE ContentInv'
  OBVIOUS
<1>1. /\ pc = "path" /\ pc' = "path" /\ CanAllocate(fat, DirClusters)
      /\ fat' = Allocate(fat, DirClusters)
      /\ UNCHANGED <<fats, root, data, cmd, slot, head, job, copy, todo, res>>
  BY DEF MakeDirectory
<1>2. Working /\ Working' /\ Running /\ Table = fat /\ Table' = fat'
  BY <1>1 DEF Working, Running, Table
<1>3. DirClusters \in Nat /\ fat \in [Clusters -> FatValues]
  BY SlotAssumption DEF TypeInv, TypeOK
<1>4. PICK i \in DOMAIN tabs[at] :
         LET p == Append(at, i)
         IN  /\ at \in DOMAIN tabs /\ at \in Seq(Nat) /\ i \in Nat
             /\ IsEmpty(tabs[at][i])
             /\ at # p /\ at' = p
             /\ DOMAIN tabs' = DOMAIN tabs \union {p}
             /\ \A k \in DOMAIN tabs'[p] : tabs'[p][k].first = 0
             /\ IsSubdir(tabs'[at][i]) /\ tabs'[at][i].dir
             /\ tabs'[at][i].first = AllocatedHead(fat, DirClusters)
             /\ \A q \in DOMAIN tabs \ {p} : DOMAIN tabs'[q] = DOMAIN tabs[q]
             /\ \A q \in DOMAIN tabs \ {p} : \A k \in DOMAIN tabs[q] :
                   <<q, k>> # <<at, i>> => tabs'[q][k] = tabs[q][k]
  BY MadeSlot
<1> DEFINE p == Append(at, i)
           e == tabs'[at][i]
<1>5. /\ p \in Seq(Nat) /\ p # <<>> /\ Front(p) = at /\ Last(p) = i
  BY <1>4, AppendFacts, AppendEnds
<1>6. p \notin DOMAIN tabs
  <2> SUFFICES ASSUME p \in DOMAIN tabs
               PROVE  FALSE
    OBVIOUS
  <2>1. IsSubdir(tabs[Front(p)][Last(p)])
    BY <1>5 DEF ContentInv, TreeInv, TablesLed
  <2> QED
    BY <1>4, <1>5, <2>1 DEF IsSubdir
<1>7. /\ at' = p
      /\ DOMAIN tabs' = DOMAIN tabs \union {p}
      /\ \A k \in DOMAIN tabs'[p] : tabs'[p][k].first = 0
      /\ IsSubdir(e) /\ e.dir /\ e.first = AllocatedHead(fat, DirClusters)
      /\ \A q \in DOMAIN tabs : DOMAIN tabs'[q] = DOMAIN tabs[q]
      /\ \A q \in DOMAIN tabs : \A k \in DOMAIN tabs[q] :
            <<q, k>> # <<at, i>> => tabs'[q][k] = tabs[q][k]
  BY <1>4, <1>6
<1> HIDE DEF p, e
<1>8. ASSUME NEW f \in Entries', f.first \in Stored
      PROVE  f \in Entries \/ f = e
  <2>1. CASE f \in EntriesOnDisk'
    BY <1>1, <2>1, EntriesFacts, OnDiskFacts, OnDiskNext
  <2>2. ASSUME NEW q \in DOMAIN tabs', NEW k \in DOMAIN tabs'[q], f = tabs'[q][k]
        PROVE  f \in Entries \/ f = e
    <3>1. CASE q = p
      BY <1>7, <1>8, <2>2, <3>1, ClusterSets
    <3>2. CASE q # p /\ <<q, k>> = <<at, i>>
      BY <2>2, <3>2 DEF e
    <3>3. CASE q # p /\ <<q, k>> # <<at, i>>
      BY <1>7, <2>2, <3>3, EntriesFacts
    <3> QED
      BY <3>1, <3>2, <3>3
  <2> QED
    BY <2>1, <2>2, EntriesNext
<1>9. /\ Extent(fat', e.first) \subseteq FirstFit(fat, DirClusters)
      /\ \A h : Anchored(fat, h) =>
            /\ h # 0 => h # e.first \/ h \in Unsaved
            /\ Extent(fat', h) = Extent(fat, h)
            /\ Extent(fat, h) \intersect FirstFit(fat, DirClusters) = {}
      /\ UnsavedLinks'
  BY <1>1, <1>3, <1>7, AllocatedExtent DEF ContentInv, UnsavedLinks
<1>10. Below(fat, fat')
  BY <1>1, <1>3, AllocateFacts
<1>11. \A f \in Entries : Anchored(fat, f.first)
  BY <1>2, EntriesAnchored DEF ContentInv
<1>12. \A f \in Entries : /\ Extent(fat', e.first) \intersect Extent(fat', f.first) = {}
                          /\ e.first \in Stored => f.first # e.first
  BY <1>9, <1>11, NotStored DEF Unsaved
<1>13. \A f \in Entries : f.first \in Stored =>
            /\ f \in Entries
            /\ Extent(fat', f.first) = Extent(fat, f.first)
            /\ \A c \in Extent(fat, f.first) : fat'[c] = fat[c]
  BY <1>2, <1>10, WorkingExtents DEF ContentInv
<1>14. Apart(fat, Entries) /\ OneKindEach(Entries) /\ FilesAt(fat, data, Entries)
  BY <1>2 DEF ContentInv, ExtentsApart, OneKind, FilesHeld
<1>15. Apart(fat', Entries)
  BY <1>13, <1>14, ApartKept
<1>16. FilesAt(fat', data, Entries)
  BY <1>13, <1>14, FilesKept
<1>17. Apart(fat', Entries') /\ OneKindEach(Entries') /\ FilesAt(fat', data, Entries')
  BY <1>7, <1>8, <1>12, <1>14, <1>15, <1>16, AddedEntry, SMTT(30)
<1>18. ExtentsApart' /\ OneKind' /\ FilesHeld'
  BY <1>1, <1>2, <1>17 DEF ExtentsApart, OneKind, FilesHeld
<1>19. NewChain'
  <2>1. Anchored(fat, head)
    BY <1>1 DEF SafetyInv, MemoryAnchored
  <2>2. /\ Extent(fat', head) = Extent(fat, head)
        /\ \A c \in Extent(fat, head) : fat'[c] = fat[c]
    BY <1>10, <2>1, ExtentGrows
  <2>3. /\ FileAt(fat, data, head, cmd.files[job].size)
        /\ \A f \in Entries : Extent(fat, head) \intersect Extent(fat, f.first) = {}
    BY <1>1 DEF ContentInv, NewChain
  <2>4. FileAt(fat', data, head, cmd.files[job].size)
    BY <2>2, <2>3, FileKept
  <2>5. ASSUME NEW f \in Entries'
        PROVE  Extent(fat', head) \intersect Extent(fat', f.first) = {}
    <3>1. CASE f.first \notin Stored
      BY <3>1, NoExtent
    <3>2. CASE f \in Entries
      BY <1>9, <1>11, <2>2, <2>3, <3>2
    <3>3. CASE f = e
      BY <1>9, <2>1, <2>2, <3>3
    <3> QED
      BY <1>8, <3>1, <3>2, <3>3
  <2> QED
    BY <1>1, <2>4, <2>5 DEF NewChain
<1>20. TreeInv'
  <2>1. ASSUME NEW q \in DOMAIN tabs, NEW k \in DOMAIN tabs[q], IsSubdir(tabs[q][k])
        PROVE  IsSubdir(tabs'[q][k])
    <3>1. CASE <<q, k>> = <<at, i>>
      BY <1>4, <2>1, <3>1 DEF IsSubdir
    <3>2. CASE <<q, k>> # <<at, i>>
      BY <1>7, <2>1, <3>2
    <3> QED
      BY <3>1, <3>2
  <2>2. TablesLed'
    <3> SUFFICES ASSUME NEW q \in DOMAIN tabs' \ {<<>>}
                 PROVE  /\ Front(q) \in DOMAIN tabs'
                        /\ Last(q) \in DOMAIN tabs'[Front(q)]
                        /\ IsSubdir(tabs'[Front(q)][Last(q)])
      BY DEF TablesLed, IsSubdir, IsEmpty, IsDotDir
    <3>1. CASE q = p
      BY <1>4, <1>5, <1>7, <3>1 DEF e
    <3>2. CASE q # p
      <4>1. /\ Front(q) \in DOMAIN tabs
            /\ Last(q) \in DOMAIN tabs[Front(q)]
            /\ IsSubdir(tabs[Front(q)][Last(q)])
        BY <1>7, <3>2 DEF ContentInv, TreeInv, TablesLed
      <4> QED
        BY <1>7, <2>1, <4>1
    <3> QED
      BY <3>1, <3>2
  <2>3. TablesComplete'
    BY <1>1, MakeDirectoryTypeInv DEF TypeInv, PhaseOK
  <2> QED
    BY <2>2, <2>3 DEF TreeInv
<1>21. PhasesSet'
  BY <1>1, <1>2 DEF PhasesSet, ContentInv
<1> QED
  BY <1>1, <1>2, <1>9, <1>10, <1>18, <1>19, <1>20, <1>21, MemoryStepKeeps

-----------------------------------------------------------------------------
(***************************************************************************)
(* Deletions zero clusters and forget a part of the tree.                  *)
(***************************************************************************)
LEMMA ZeroWrites ==
    ASSUME TypeInv, SafetyInv, ContentInv, pc = "erase", UNCHANGED root,
           \A c \in Clusters : data'[c] = data[c] \/ data'[c] = ZeroBlock
    PROVE  /\ \A e \in EntriesOnDisk' : e \in EntriesOnDisk \/ e = EmptyEntry
           /\ \A e \in Entries : \A c \in Extent(fat, e.first) :
                    data'[c] = data[c] \/ data'[c] \in Erased
           /\ DirectoriesAt(fat, data', EntriesOnDisk')
<1>1. \A i \in 1 .. SlotsPerCluster : ZeroBlock.slots[i] = EmptyEntry
  BY DEF ZeroBlock, EmptySlots
<1>2. \A e \in EntriesOnDisk' : e \in EntriesOnDisk \/ e = EmptyEntry
  BY <1>1, OnDiskFacts, OnDiskNext
<1>3. ZeroBlock \in Erased
  BY DEF ContentInv, PhasesSet, TypeInv, TypeOK, NoCommand, Erased
<1>4. \A e \in Entries : \A c \in Extent(fat, e.first) :
            data'[c] = data[c] \/ data'[c] = ZeroBlock
  BY ClusterSets DEF Extent
<1>5. DirectoriesAt(fat, data', EntriesOnDisk')
  <2>1. DirectoriesAt(fat, data, EntriesOnDisk)
    BY DEF ContentInv, TablesHeld, Table, Working, Running
  <2>2. ZeroBlock.kind # "file"
    BY DEF ZeroBlock
  <2>3. \A e \in EntriesOnDisk' : IsSubdir(e) /\ e.first \in Stored =>
            /\ e \in EntriesOnDisk
            /\ Extent(fat, e.first) = Extent(fat, e.first)
            /\ \A c \in Extent(fat, e.first) : data'[c] = data[c] \/ data'[c].kind # "file"
    BY <1>2, <1>4, <2>2, NotStored, EntriesFacts
  <2> QED
    BY <2>1, <2>3, DirectoriesKept
<1> QED
  BY <1>2, <1>3, <1>4, <1>5

LEMMA ZeroedClusters ==
    ASSUME NEW s, data' = ZeroChain(s)
    PROVE  \A c \in Clusters : data'[c] = data[c] \/ data'[c] = ZeroBlock
  BY DEF ZeroChain

LEMMA PrefixIs ==
    ASSUME NEW S, NEW s \in Seq(S), NEW t \in Seq(S)
    PROVE  IsPrefix(s, t) <=>
                /\ Len(s) <= Len(t)
                /\ \A k \in 1 .. Len(s) : s[k] = t[k]
<1> DEFINE n == Len(s)
<1>1. n \in Nat /\ \A k \in 1 .. n : s[k] \in S
  OBVIOUS
<1>2. CASE ~ n <= Len(t)
  BY <1>2 DEF IsPrefix
<1>3. CASE n <= Len(t)
  <2>1. \A k \in 1 .. n : t[k] \in S
    BY <1>3
  <2> HIDE DEF n
  <2>2. /\ SubSeq(s, 1, n) \in Seq(S) /\ Len(SubSeq(s, 1, n)) = IF 1 <= n THEN n - 1 + 1 ELSE 0
        /\ \A k \in 1 .. n - 1 + 1 : SubSeq(s, 1, n)[k] = s[1 + k - 1]
    BY <1>1, SubSeqProperties, 1 \in Int, n \in Int
  <2>3. /\ SubSeq(t, 1, n) \in Seq(S) /\ Len(SubSeq(t, 1, n)) = IF 1 <= n THEN n - 1 + 1 ELSE 0
        /\ \A k \in 1 .. n - 1 + 1 : SubSeq(t, 1, n)[k] = t[1 + k - 1]
    BY <1>1, <2>1, SubSeqProperties, 1 \in Int, n \in Int
  <2>4. /\ Len(SubSeq(s, 1, n)) = n /\ Len(SubSeq(t, 1, n)) = n
        /\ \A k \in 1 .. n : SubSeq(s, 1, n)[k] = s[k] /\ SubSeq(t, 1, n)[k] = t[k]
    BY <1>1, <2>2, <2>3
  <2>5. SubSeq(s, 1, n) = SubSeq(t, 1, n) <=> \A k \in 1 .. n : s[k] = t[k]
    BY <2>2, <2>3, <2>4
  <2> QED
    BY <1>3, <2>5 DEF IsPrefix, n
<1> QED
  BY <1>2, <1>3

\* A directory and the slots of its entries are below the same directories.
LEMMA PrefixAppend ==
    ASSUME NEW v \in Seq(Nat), NEW d \in Seq(Nat), NEW i \in Nat
    PROVE  IsPrefix(v, Append(d, i)) <=> IsPrefix(v, d) \/ v = Append(d, i)
<1> DEFINE p == Append(d, i)
<1>1. /\ p \in Seq(Nat) /\ Len(p) = Len(d) + 1 /\ Len(d) \in Nat /\ Len(v) \in Nat
      /\ \A k \in 1 .. Len(d) : p[k] = d[k]
  BY AppendFacts
<1> HIDE DEF p
<1>2. IsPrefix(v, p) <=> Len(v) <= Len(p) /\ \A k \in 1 .. Len(v) : v[k] = p[k]
  BY <1>1, PrefixIs, SMTT(30)
<1>3. IsPrefix(v, d) <=> Len(v) <= Len(d) /\ \A k \in 1 .. Len(v) : v[k] = d[k]
  BY <1>1, PrefixIs
<1>4. CASE Len(v) <= Len(d)
  <2>1. v # p
    BY <1>1, <1>4
  <2>2. \A k \in 1 .. Len(v) : p[k] = d[k]
    BY <1>1, <1>4
  <2> QED
    BY <1>1, <1>2, <1>3, <1>4, <2>1, <2>2 DEF p
<1>5. CASE Len(v) > Len(d)
  <2>1. ~ IsPrefix(v, d)
    BY <1>1, <1>3, <1>5
  <2>2. IsPrefix(v, p) <=> v = p
    <3>1. ASSUME IsPrefix(v, p)
          PROVE  v = p
      <4>1. Len(v) = Len(p) /\ \A k \in 1 .. Len(v) : v[k] = p[k]
        BY <1>1, <1>2, <1>5, <3>1
      <4> QED
        BY <1>1, <4>1
    <3> QED
      BY <1>1, <1>2, <3>1
  <2> QED
    BY <2>1, <2>2 DEF p
<1> QED
  BY <1>1, <1>4, <1>5

LEMMA EraseEntryContent ==
    TypeInv /\ SafetyInv /\ ContentInv /\ EraseEntry => ContentInv'
<1> SUFFICES ASSUME TypeInv, SafetyInv, ContentInv, EraseEntry PROVE ContentInv'
  OBVIOUS
<1> DEFINE first == tabs[at][slot].first
           edited == [tabs EXCEPT ![at][slot] = EmptyEntry]
           v == Append(at, slot)
<1>1. /\ pc = "erase" /\ at \in DOMAIN tabs /\ slot \in DOMAIN tabs[at]
      /\ DOMAIN tabs \subseteq Seq(Nat) /\ tabs \in [DOMAIN tabs -> Seq(Entry)]
      /\ at \in Seq(Nat) /\ slot \in Nat
  BY DEF EraseEntry, Located, TypeInv, TypeOK
<1>2. Working /\ Running
  BY <1>1 DEF Working, Running
<1>3. CASE ~ (first = 0 \/ HasChain(fat, first))
  BY <1>2, <1>3, DiskUnchangedContentInv DEF EraseEntry, Undefined
<1>4. CASE first = 0 \/ HasChain(fat, first)
  <2>1. /\ data' = IF first = 0 THEN data ELSE ZeroChain(Chain(fat, first))
        /\ tabs' = [p \in {p \in DOMAIN tabs : ~ IsPrefix(v, p)} |-> edited[p]]
        /\ pc' = "fat" /\ copy' = 1
        /\ UNCHANGED <<fats, root, cmd, fat, at, slot, head, job, todo, res>>
    BY <1>4 DEF EraseEntry, BeginWrite
  <2>2. Working' /\ Table = fat /\ Table' = fat
    BY <1>2, <2>1 DEF Working, Running, Table
  <2>3. /\ \A q \in DOMAIN tabs : DOMAIN edited[q] = DOMAIN tabs[q]
        /\ edited[at][slot] = EmptyEntry
        /\ \A q \in DOMAIN tabs : \A k \in DOMAIN tabs[q] :
              <<q, k>> # <<at, slot>> => edited[q][k] = tabs[q][k]
    BY <1>1, EditType, EntryTypes
  <2> HIDE DEF edited, v
  <2>4. /\ \A q \in DOMAIN tabs' : q \in DOMAIN tabs /\ ~ IsPrefix(v, q) /\ tabs'[q] = edited[q]
        /\ \A q \in DOMAIN tabs : ~ IsPrefix(v, q) => q \in DOMAIN tabs'
    BY <2>1
  <2>5. \A c \in Clusters : data'[c] = data[c] \/ data'[c] = ZeroBlock
    BY <2>1, ZeroedClusters
  <2>6. /\ \A e \in EntriesOnDisk' : e \in EntriesOnDisk \/ e = EmptyEntry
        /\ \A e \in Entries : \A c \in Extent(fat, e.first) :
                 data'[c] = data[c] \/ data'[c] \in Erased
        /\ DirectoriesAt(fat, data', EntriesOnDisk')
    BY <1>1, <2>1, <2>5, ZeroWrites
  <2>7. ASSUME NEW e \in Entries', e.first \in Stored
        PROVE  e \in Entries
    <3>1. CASE e \in EntriesOnDisk'
      BY <2>6, <2>7, <3>1, EntriesFacts, NotStored
    <3>2. ASSUME NEW q \in DOMAIN tabs', NEW k \in DOMAIN tabs'[q], e = tabs'[q][k]
          PROVE  e \in Entries
      <4>1. q \in DOMAIN tabs /\ k \in DOMAIN tabs[q] /\ e = edited[q][k]
        BY <2>3, <2>4, <3>2
      <4>2. <<q, k>> # <<at, slot>>
        BY <2>3, <2>7, <4>1, NotStored
      <4> QED
        BY <2>3, <4>1, <4>2, EntriesFacts
    <3> QED
      BY <3>1, <3>2, EntriesNext
  <2>8. Below(fat, fat')
    BY <2>1 DEF Below
  <2>9. ExtentsApart' /\ OneKind' /\ FilesHeld'
    BY <1>2, <2>2, <2>6, <2>7, <2>8, WorkingKeeps
  <2>10. TablesHeld'
    BY <2>1, <2>2, <2>6 DEF TablesHeld
  <2>11. TablesLed'
    <3> SUFFICES ASSUME NEW q \in DOMAIN tabs' \ {<<>>}
                 PROVE  /\ Front(q) \in DOMAIN tabs'
                        /\ Last(q) \in DOMAIN tabs'[Front(q)]
                        /\ IsSubdir(tabs'[Front(q)][Last(q)])
      BY DEF TablesLed, IsSubdir, IsEmpty, IsDotDir
    <3>1. q \in DOMAIN tabs /\ q \in Seq(Nat) /\ ~ IsPrefix(v, q)
      BY <1>1, <2>4
    <3>2. /\ Front(q) \in DOMAIN tabs /\ Last(q) \in DOMAIN tabs[Front(q)]
          /\ IsSubdir(tabs[Front(q)][Last(q)])
          /\ q = Append(Front(q), Last(q))
      BY <3>1, LedBy DEF ContentInv
    <3>3. Front(q) \in Seq(Nat) /\ Last(q) \in Nat /\ v \in Seq(Nat)
      BY <1>1, <3>1, FrontLast, AppendFacts DEF v
    <3>4. ~ IsPrefix(v, Front(q)) /\ v # q
      <4>1. IsPrefix(v, Append(Front(q), Last(q)))
                <=> IsPrefix(v, Front(q)) \/ v = Append(Front(q), Last(q))
        BY <3>3, PrefixAppend
      <4> QED
        BY <3>1, <3>2, <4>1
    <3>5. <<Front(q), Last(q)>> # <<at, slot>>
      BY <3>2, <3>4 DEF v
    <3> QED
      BY <2>3, <2>4, <3>2, <3>4, <3>5
  <2>12. TablesComplete'
    <3> SUFFICES ASSUME NEW q \in DOMAIN tabs', NEW k \in DOMAIN tabs'[q],
                        IsSubdir(tabs'[q][k])
                 PROVE  Append(q, k) \in DOMAIN tabs'
      BY DEF TablesComplete, IsSubdir, IsEmpty, IsDotDir
    <3>1. q \in DOMAIN tabs /\ ~ IsPrefix(v, q) /\ k \in DOMAIN tabs[q]
          /\ tabs'[q][k] = edited[q][k]
      BY <2>3, <2>4
    <3>2. <<q, k>> # <<at, slot>>
      BY <2>3, <3>1, EntryTypes
    <3>3. IsSubdir(tabs[q][k])
      BY <2>3, <3>1, <3>2
    <3>4. TablesComplete
      BY <1>1, <1>2 DEF ContentInv, TreeInv
    <3>5. Append(q, k) \in DOMAIN tabs
      BY <3>1, <3>3, <3>4 DEF TablesComplete
    <3>6. q \in Seq(Nat) /\ k \in Nat /\ v \in Seq(Nat)
      BY <1>1, <3>1, AppendFacts, TabsTypes DEF v
    <3>7. v # Append(q, k)
      <4>1. Front(v) = at /\ Last(v) = slot
        BY <1>1, AppendEnds DEF v
      <4>2. Front(Append(q, k)) = q /\ Last(Append(q, k)) = k
        BY <3>6, AppendEnds
      <4> QED
        BY <3>2, <4>1, <4>2
    <3> QED
      BY <2>4, <3>1, <3>5, <3>6, <3>7, PrefixAppend
  <2>13. TreeInv'
    BY <2>11, <2>12 DEF TreeInv
  <2>14. UnsavedLinks' /\ NewChain' /\ PhasesSet'
    BY <2>1, <2>2 DEF UnsavedLinks, NewChain, PhasesSet, ContentInv
  <2> QED
    BY <2>9, <2>10, <2>13, <2>14 DEF ContentInv
<1> QED
  BY <1>3, <1>4

LEMMA InterruptedInEraseContent ==
    TypeInv /\ SafetyInv /\ ContentInv /\ InterruptedInErase => ContentInv'
<1> SUFFICES ASSUME TypeInv, SafetyInv, ContentInv, InterruptedInErase PROVE ContentInv'
  OBVIOUS
<1>1. /\ pc = "erase" /\ Ends("idle", "interrupted")
      /\ UNCHANGED <<fats, root>>
      /\ \E s : data' = ZeroChain(s)
  BY DEF InterruptedInErase, Interrupted, Exit
<1>2. Working
  BY <1>1 DEF Working, Running
<1>3. \A c \in Clusters : data'[c] = data[c] \/ data'[c] = ZeroBlock
  BY <1>1, ZeroedClusters
<1>4. /\ \A e \in EntriesOnDisk' : e \in EntriesOnDisk \/ e = EmptyEntry
      /\ \A e \in Entries : \A c \in Extent(fat, e.first) :
               data'[c] = data[c] \/ data'[c] \in Erased
      /\ DirectoriesAt(fat, data', EntriesOnDisk')
  BY <1>1, <1>3, ZeroWrites
<1>5. \A e \in EntriesOnDisk' : e.first \in Stored => e \in Entries
  BY <1>4, EntriesFacts, NotStored
<1>6. Below(fats'[1], fat)
  BY <1>1, <1>2, FirstCopy DEF SafetyInv, FatsBelow, Working
<1>7. HeadsAnchored'
  BY InterruptSafetyInv DEF Interrupt, SafetyInv
<1> QED
  BY <1>1, <1>2, <1>4, <1>5, <1>6, <1>7, EndsKeeps

-----------------------------------------------------------------------------
(***************************************************************************)
(* Directories are written to their own clusters, children first.          *)
(***************************************************************************)
LEMMA ChildrenWritten ==
    ASSUME TypeInv, NEW p \in todo, IsNext(p), NEW m \in Nat
    PROVE  Append(p, m) \notin todo
<1> DEFINE q == Append(p, m)
<1>1. p \in Seq(Nat)
  BY DEF TypeInv, TypeOK
<1>2. /\ q \in Seq(Nat) /\ Len(q) = Len(p) + 1 /\ Len(p) \in Nat
      /\ \A k \in 1 .. Len(p) : q[k] = p[k] /\ p[k] \in Nat
  BY <1>1, AppendFacts
<1> HIDE DEF q
<1>3. ~ IsPrefix(q, p) /\ q # p
  BY <1>2 DEF IsPrefix
<1>4. ~ Before(p, q)
  BY <1>2, <1>3 DEF Before, IsStrictPrefix
<1> QED
  BY <1>3, <1>4 DEF IsNext, q

\* The table of a directory that an entry in memory leads to.
LEMMA LeadsTo ==
    ASSUME TypeInv, ContentInv, pc = "dirs",
           NEW p \in DOMAIN tabs, NEW m \in DOMAIN tabs[p], IsSubdir(tabs[p][m]),
           Append(p, m) \notin todo
    PROVE  NoFileAt(fat, data, tabs[p][m].first)
<1> DEFINE q == Append(p, m)
<1>1. p \in Seq(Nat) /\ m \in Nat
  BY TabsTypes
<1>2. q # <<>> /\ Front(q) = p /\ Last(q) = m
  BY <1>1, AppendFacts, AppendEnds
<1>3. TablesComplete
  BY DEF ContentInv, TreeInv, Running
<1>4. q \in DOMAIN tabs
  BY <1>3 DEF TablesComplete
<1>5. NoFileAt(fat, data, HeadOf(q))
  BY <1>2, <1>4 DEF ContentInv, TablesHeld
<1> QED
  BY <1>2, <1>5 DEF HeadOf

LEMMA DirectoryWrites ==
    ASSUME TypeInv, SafetyInv, ContentInv, pc = "dirs",
           NEW p \in todo, IsNext(p), CanStore(p), UNCHANGED root,
           NEW s, data' = StoreTable(s, tabs[p]),
           \A k \in 1 .. Len(s) : \E m \in 1 .. Len(Chain(fat, HeadOf(p))) :
                s[k] = Chain(fat, HeadOf(p))[m]
    PROVE  /\ \A e \in EntriesOnDisk' : e.first \in Stored => e \in Entries
           /\ \A e \in Entries : ~ e.dir =>
                    \A c \in Extent(fat, e.first) : data'[c] = data[c]
           /\ DirectoriesAt(fat, data', EntriesOnDisk')
           /\ \A first : NoFileAt(fat, data, first) => NoFileAt(fat, data', first)
<1>1. p \in DOMAIN tabs /\ p # <<>>
  BY DEF TypeInv, TypeOK, ContentInv, PhasesSet
<1>2. Table = fat /\ Working
  BY DEF Table, Working, Running
<1> DEFINE led == tabs[Front(p)][Last(p)]
<1>3. led \in Entries /\ led.dir /\ HeadOf(p) = led.first
  BY <1>1, LedBy DEF ContentInv, IsSubdir
<1> HIDE DEF led
<1>4. Anchored(fat, HeadOf(p))
  BY <1>2, <1>3, EntriesAnchored DEF ContentInv
<1>5. ASSUME NEW c \in Stored, Visits(s, c)
      PROVE  c \in Extent(fat, HeadOf(p))
  <2>1. PICK m \in 1 .. Len(Chain(fat, HeadOf(p))) : c = Chain(fat, HeadOf(p))[m]
    BY <1>5 DEF Visits
  <2>2. \A d \in Unsaved : fat[d] \notin Stored
    BY DEF ContentInv, UnsavedLinks
  <2> QED
    BY <1>4, <2>1, <2>2, ChainPassesExtent DEF CanStore
<1>6. ASSUME NEW c \in Clusters
      PROVE  \/ data'[c] = data[c]
             \/ /\ Visits(s, c) /\ data'[c].kind # "file"
                /\ \A i \in 1 .. SlotsPerCluster :
                        \/ data'[c].slots[i] = EmptyEntry
                        \/ \E m \in DOMAIN tabs[p] : data'[c].slots[i] = tabs[p][m]
  <2>1. CASE ~ Visits(s, c)
    BY <2>1 DEF StoreTable
  <2>2. CASE Visits(s, c)
    <3> DEFINE place(i) == (Position(s, c) - 1) * SlotsPerCluster + i
    <3>1. data'[c] = DirBlock([i \in 1 .. SlotsPerCluster |->
                        IF place(i) \in DOMAIN tabs[p] THEN tabs[p][place(i)] ELSE EmptyEntry])
      BY <2>2 DEF StoreTable
    <3> HIDE DEF place
    <3>2. /\ data'[c].kind # "file"
          /\ \A i \in 1 .. SlotsPerCluster :
                data'[c].slots[i] =
                    IF place(i) \in DOMAIN tabs[p] THEN tabs[p][place(i)] ELSE EmptyEntry
      BY <3>1 DEF DirBlock
    <3> QED
      BY <2>2, <3>2
  <2> QED
    BY <2>1, <2>2
<1>7. ASSUME NEW e \in EntriesOnDisk'
      PROVE  e \in EntriesOnDisk \/ e = EmptyEntry \/ \E m \in DOMAIN tabs[p] : e = tabs[p][m]
  <2>1. CASE \E i \in DOMAIN root' : e = root'[i]
    BY <2>1, OnDiskFacts
  <2>2. ASSUME NEW c \in Clusters, NEW i \in 1 .. SlotsPerCluster, e = data'[c].slots[i]
        PROVE  e \in EntriesOnDisk \/ e = EmptyEntry \/ \E m \in DOMAIN tabs[p] : e = tabs[p][m]
    BY <1>6, <2>2, OnDiskFacts
  <2> QED
    BY <2>1, <2>2, OnDiskNext
<1>8. \A e \in EntriesOnDisk' : e.first \in Stored => e \in Entries
  BY <1>1, <1>7, EntriesFacts, NotStored
<1>9. ASSUME NEW e \in Entries, ~ e.dir, NEW c \in Extent(fat, e.first)
      PROVE  data'[c] = data[c]
  <2>1. c \in Stored /\ c \in Clusters /\ e.first \in Stored
    BY <1>9, ClusterSets DEF Extent
  <2>2. ~ Visits(s, c)
    <3> SUFFICES ASSUME Visits(s, c)
                 PROVE  FALSE
      OBVIOUS
    <3>1. c \in Extent(fat, led.first)
      BY <1>3, <1>5, <2>1
    <3>2. e.first = led.first
      BY <1>2, <1>3, <1>9, <3>1 DEF ContentInv, ExtentsApart, Apart
    <3> QED
      BY <1>3, <1>9, <2>1, <3>2 DEF ContentInv, OneKind, OneKindEach
  <2> QED
    BY <1>6, <2>1, <2>2
<1>10. \A first : \A c \in Extent(fat, first) : data'[c] = data[c] \/ data'[c].kind # "file"
  <2>1. \A first : \A c \in Extent(fat, first) : c \in Clusters
    BY ClusterSets DEF Extent
  <2> QED
    BY <1>6, <2>1
<1>11. \A first : NoFileAt(fat, data, first) => NoFileAt(fat, data', first)
  BY <1>10 DEF NoFileAt
<1>12. DirectoriesAt(fat, data', EntriesOnDisk')
  <2> SUFFICES ASSUME NEW e \in EntriesOnDisk', IsSubdir(e)
               PROVE  NoFileAt(fat, data', e.first)
    BY DEF DirectoriesAt
  <2>1. CASE e \in EntriesOnDisk
    BY <1>2, <1>11, <2>1 DEF ContentInv, TablesHeld, DirectoriesAt
  <2>2. ASSUME NEW m \in DOMAIN tabs[p], e = tabs[p][m]
        PROVE  NoFileAt(fat, data', e.first)
    <3>1. m \in Nat
      BY <1>1, TabsTypes
    <3>2. Append(p, m) \notin todo
      BY <3>1, ChildrenWritten
    <3>3. NoFileAt(fat, data, e.first)
      BY <1>1, <2>2, <3>2, LeadsTo
    <3> QED
      BY <1>11, <3>3
  <2> QED
    BY <1>7, <2>1, <2>2, EntryTypes
<1> QED
  BY <1>8, <1>9, <1>11, <1>12

LEMMA WriteDirectoryContent ==
    TypeInv /\ SafetyInv /\ ContentInv /\ WriteDirectory => ContentInv'
<1> SUFFICES ASSUME TypeInv, SafetyInv, ContentInv, WriteDirectory PROVE ContentInv'
  OBVIOUS
<1>1. PICK p \in todo :
        /\ IsNext(p)
        /\ IF CanStore(p)
           THEN /\ data' = StoreTable(Chain(fat, HeadOf(p)), tabs[p])
                /\ todo' = todo \ {p}
                /\ UNCHANGED <<fats, root, pc, cmd, fat, tabs, at, slot, head, job, copy, res>>
           ELSE Undefined
  BY DEF WriteDirectory
<1>2. pc = "dirs" /\ Working /\ Running
  BY DEF WriteDirectory, Working, Running
<1>3. CASE ~ CanStore(p)
  BY <1>1, <1>2, <1>3, DiskUnchangedContentInv DEF Undefined
<1>4. CASE CanStore(p)
  <2> DEFINE s == Chain(fat, HeadOf(p))
  <2>1. /\ data' = StoreTable(s, tabs[p])
        /\ todo' = todo \ {p}
        /\ UNCHANGED <<fats, root, pc, cmd, fat, tabs, at, slot, head, job, copy, res>>
    BY <1>1, <1>4
  <2>2. Working' /\ Table = fat /\ Table' = fat /\ pc' = "dirs"
    BY <1>2, <2>1 DEF Working, Running, Table
  <2>3. /\ \A e \in EntriesOnDisk' : e.first \in Stored => e \in Entries
        /\ \A e \in Entries : ~ e.dir =>
                 \A c \in Extent(fat, e.first) : data'[c] = data[c]
        /\ DirectoriesAt(fat, data', EntriesOnDisk')
        /\ \A first : NoFileAt(fat, data, first) => NoFileAt(fat, data', first)
    BY <1>1, <1>2, <1>4, <2>1, DirectoryWrites
  <2>4. ASSUME NEW e \in Entries', e.first \in Stored
        PROVE  e \in Entries
    BY <2>1, <2>3, <2>4, EntriesFacts, EntriesNext
  <2>5. Below(fat, fat')
    BY <2>1 DEF Below
  <2>6. ExtentsApart' /\ OneKind' /\ FilesHeld'
    BY <1>2, <2>2, <2>3, <2>4, <2>5, WorkingKeeps
  <2>7. ASSUME NEW q \in DOMAIN tabs \ {<<>>}, q \notin todo'
        PROVE  NoFileAt(fat, data', HeadOf(q))
    <3>1. CASE q \notin todo
      BY <1>2, <2>3, <3>1 DEF ContentInv, TablesHeld
    <3>2. CASE q = p
      <4>1. HeadOf(p) \in {e.first : e \in Entries}
        BY <2>7, <3>2, LedBy DEF ContentInv
      <4>2. Anchored(fat, HeadOf(p)) /\ \A d \in Unsaved : fat[d] \notin Stored
        BY <2>2, <4>1, EntriesAnchored DEF ContentInv, UnsavedLinks
      <4>3. \A c \in Extent(fat, HeadOf(p)) : Visits(s, c)
        BY <1>4, <4>2, ChainPassesExtent DEF CanStore, Visits
      <4>4. \A c \in Extent(fat, HeadOf(p)) : c \in Clusters
        BY ClusterSets DEF Extent
      <4>5. \A c \in Extent(fat, HeadOf(p)) : data'[c].kind # "file"
        BY <2>1, <4>3, <4>4 DEF StoreTable, DirBlock
      <4> QED
        BY <3>2, <4>5 DEF NoFileAt
    <3> QED
      BY <2>1, <2>7, <3>1, <3>2
  <2>8. TablesHeld'
    BY <2>1, <2>2, <2>3, <2>7 DEF TablesHeld, HeadOf
  <2>9. TreeInv'
    BY <1>2, <2>1, SameTabsTree DEF ContentInv
  <2>10. UnsavedLinks' /\ NewChain' /\ PhasesSet'
    BY <1>2, <2>1, <2>2 DEF UnsavedLinks, NewChain, PhasesSet, ContentInv
  <2> QED
    BY <2>6, <2>8, <2>9, <2>10 DEF ContentInv
<1> QED
  BY <1>3, <1>4

LEMMA InterruptedInDirectoryContent ==
    TypeInv /\ SafetyInv /\ ContentInv /\ InterruptedInDirectory => ContentInv'
<1> SUFFICES ASSUME TypeInv, SafetyInv, ContentInv, InterruptedInDirectory PROVE ContentInv'
  OBVIOUS
<1>1. PICK p \in todo :
        LET s == Chain(fat, HeadOf(p))
        IN  /\ IsNext(p)
            /\ CanStore(p)
            /\ \E k \in 1 .. Len(s) : data' = StoreTable(SubSeq(s, 1, k), tabs[p])
  BY DEF InterruptedInDirectory
<1> DEFINE s == Chain(fat, HeadOf(p))
<1>2. PICK k \in 1 .. Len(s) : data' = StoreTable(SubSeq(s, 1, k), tabs[p])
  BY <1>1
<1>3. pc = "dirs" /\ Ends("idle", "interrupted") /\ UNCHANGED <<fats, root>>
  BY DEF InterruptedInDirectory, Interrupted, Exit
<1>4. Working
  BY <1>3 DEF Working, Running
<1>5. s \in Seq(Clusters)
  BY <1>1, ChainType DEF CanStore
<1>6. \A m \in 1 .. Len(SubSeq(s, 1, k)) : \E n \in 1 .. Len(s) : SubSeq(s, 1, k)[m] = s[n]
  <2> HIDE DEF s
  <2> QED
    BY <1>5, PrefixOfChain
<1>7. /\ \A e \in EntriesOnDisk' : e.first \in Stored => e \in Entries
      /\ \A e \in Entries : ~ e.dir =>
               \A c \in Extent(fat, e.first) : data'[c] = data[c]
      /\ DirectoriesAt(fat, data', EntriesOnDisk')
  BY <1>1, <1>2, <1>3, <1>6, DirectoryWrites
<1>8. Below(fats'[1], fat)
  BY <1>3, <1>4, FirstCopy DEF SafetyInv, FatsBelow, Working
<1>9. HeadsAnchored'
  BY InterruptSafetyInv DEF Interrupt, SafetyInv
<1> QED
  BY <1>3, <1>4, <1>7, <1>8, <1>9, EndsKeeps

\* The root directory is written when all directories are.
LEMMA RootWrites ==
    ASSUME TypeInv, ContentInv, pc = "dirs", todo = {}, UNCHANGED data,
           \A i \in DOMAIN root' : i \in 1 .. RootSlots
                                   /\ (root'[i] = root[i] \/ root'[i] = tabs[<<>>][i])
    PROVE  /\ \A e \in EntriesOnDisk' : e \in Entries
           /\ DirectoriesAt(fat, data', EntriesOnDisk')
<1>1. /\ <<>> \in DOMAIN tabs /\ DOMAIN tabs[<<>>] = 1 .. RootSlots
      /\ DOMAIN root = 1 .. RootSlots
  BY DEF TypeInv, TypeOK, PhaseOK, Running
<1>2. ASSUME NEW e \in EntriesOnDisk'
      PROVE  e \in EntriesOnDisk \/ \E i \in DOMAIN tabs[<<>>] : e = tabs[<<>>][i]
  BY <1>1, OnDiskFacts, OnDiskNext
<1>3. \A e \in EntriesOnDisk' : e \in Entries
  BY <1>1, <1>2, EntriesFacts
<1>4. ASSUME NEW e \in EntriesOnDisk', IsSubdir(e)
      PROVE  NoFileAt(fat, data, e.first)
  <2>1. CASE e \in EntriesOnDisk
    BY <1>4, <2>1 DEF ContentInv, TablesHeld, DirectoriesAt, Table, Working, Running
  <2>2. CASE \E i \in DOMAIN tabs[<<>>] : e = tabs[<<>>][i]
    BY <1>1, <1>4, <2>2, LeadsTo
  <2> QED
    BY <1>2, <2>1, <2>2
<1>5. DirectoriesAt(fat, data', EntriesOnDisk')
  BY <1>4 DEF DirectoriesAt
<1> QED
  BY <1>3, <1>5

LEMMA WriteRootContent ==
    TypeInv /\ SafetyInv /\ ContentInv /\ WriteRoot => ContentInv'
<1> SUFFICES ASSUME TypeInv, SafetyInv, ContentInv, WriteRoot PROVE ContentInv'
  OBVIOUS
<1>1. /\ pc = "dirs" /\ todo = {} /\ root' = tabs[<<>>]
      /\ UNCHANGED <<fats, data>>
  BY DEF WriteRoot
<1>2. Working /\ Running /\ Table = fat
  BY <1>1 DEF Working, Running, Table
<1>3. \A i \in DOMAIN root' : i \in 1 .. RootSlots
                              /\ (root'[i] = root[i] \/ root'[i] = tabs[<<>>][i])
  BY <1>1, <1>2 DEF TypeInv, TypeOK, PhaseOK
<1>4. /\ \A e \in EntriesOnDisk' : e \in Entries
      /\ DirectoriesAt(fat, data', EntriesOnDisk')
  BY <1>1, <1>3, RootWrites
<1>5. CASE ~ DeletionGoesOn
  <2>1. Ends("idle", "ok")
    BY <1>5 DEF WriteRoot, Exit
  <2>2. Below(fats'[1], fat)
    BY <1>1, <1>2, FirstCopy DEF SafetyInv, FatsBelow, Working
  <2>3. HeadsAnchored'
    BY WriteRootSafetyInv DEF SafetyInv
  <2> QED
    BY <1>1, <1>2, <1>4, <2>1, <2>2, <2>3, EndsKeeps
<1>6. CASE DeletionGoesOn
  <2>1. pc' = "sweep" /\ cmd.op = "del" /\ UNCHANGED <<cmd, fat, tabs, todo>>
    BY <1>6 DEF WriteRoot, DeletionGoesOn
  <2>2. Working' /\ Table' = fat
    BY <1>2, <2>1 DEF Working, Running, Table
  <2>3. \A e \in Entries' : e \in Entries
    BY <1>4, <2>1, EntriesFacts, EntriesNext
  <2>4. Below(fat, fat')
    BY <2>1 DEF Below
  <2>5. ExtentsApart' /\ OneKind' /\ FilesHeld'
    BY <1>1, <1>2, <2>2, <2>3, <2>4, WorkingKeeps
  <2>6. TablesHeld'
    BY <1>4, <2>1, <2>2 DEF TablesHeld
  <2>7. TreeInv'
    BY <1>1, <1>2, <2>1, SameTabsTree DEF ContentInv
  <2>8. UnsavedLinks' /\ NewChain' /\ PhasesSet'
    BY <1>1, <1>2, <2>1, <2>2 DEF UnsavedLinks, NewChain, PhasesSet, ContentInv
  <2> QED
    BY <2>5, <2>6, <2>7, <2>8 DEF ContentInv
<1> QED
  BY <1>5, <1>6

LEMMA InterruptedInRootContent ==
    TypeInv /\ SafetyInv /\ ContentInv /\ InterruptedInRoot => ContentInv'
<1> SUFFICES ASSUME TypeInv, SafetyInv, ContentInv, InterruptedInRoot PROVE ContentInv'
  OBVIOUS
<1>1. /\ pc = "dirs" /\ todo = {} /\ Ends("idle", "interrupted")
      /\ UNCHANGED <<fats, data>>
  BY DEF InterruptedInRoot, Interrupted, Exit
<1>2. Working
  BY <1>1 DEF Working, Running
<1>3. \A i \in DOMAIN root' : i \in 1 .. RootSlots
                              /\ (root'[i] = root[i] \/ root'[i] = tabs[<<>>][i])
  BY DEF InterruptedInRoot
<1>4. /\ \A e \in EntriesOnDisk' : e \in Entries
      /\ DirectoriesAt(fat, data', EntriesOnDisk')
  BY <1>1, <1>3, RootWrites
<1>5. Below(fats'[1], fat)
  BY <1>1, <1>2, FirstCopy DEF SafetyInv, FatsBelow, Working
<1>6. HeadsAnchored'
  BY InterruptSafetyInv DEF Interrupt, SafetyInv
<1> QED
  BY <1>1, <1>2, <1>4, <1>5, <1>6, EndsKeeps

LEMMA InterruptedInFatContent ==
    TypeInv /\ SafetyInv /\ ContentInv /\ InterruptedInFat => ContentInv'
<1> SUFFICES ASSUME TypeInv, SafetyInv, ContentInv, InterruptedInFat PROVE ContentInv'
  OBVIOUS
<1>1. /\ pc = "fat" /\ Ends("idle", "interrupted")
      /\ UNCHANGED <<root, data>>
  BY DEF InterruptedInFat, Interrupted, Exit
<1>2. Working /\ Table = fat
  BY <1>1 DEF Working, Running, Table
<1>3. EntriesOnDisk' = EntriesOnDisk /\ EntriesOnDisk \subseteq Entries
  BY <1>1, EntriesFacts DEF EntriesOnDisk
<1>4. DirectoriesAt(fat, data', EntriesOnDisk')
  BY <1>1, <1>2, <1>3 DEF ContentInv, TablesHeld
<1>5. Below(fats'[1], fat) /\ HeadsAnchored'
  BY FirstCopy, InterruptedInFatFacts
<1> QED
  BY <1>1, <1>2, <1>3, <1>4, <1>5, EndsKeeps

LEMMA InterruptedInFormatContent ==
    TypeInv /\ SafetyInv /\ ContentInv /\ InterruptedInFormat => ContentInv'
<1> SUFFICES ASSUME TypeInv, SafetyInv, ContentInv, InterruptedInFormat PROVE ContentInv'
  OBVIOUS
<1>1. /\ pc = "format" /\ Ends("undefined", "none")
      /\ UNCHANGED <<fats, root, data>>
  BY DEF InterruptedInFormat, Undefined, disk
<1>2. /\ ~ Working /\ ~ Working' /\ Table = fats[1] /\ Table' = fats[1] /\ pc' = "undefined"
      /\ DOMAIN tabs' = {<<>>} /\ DOMAIN tabs'[<<>>] = {}
      /\ UnsavedLinks' /\ NewChain' /\ TreeInv' /\ PhasesSet'
  BY <1>1, EndsTree DEF Working, Table, Ends
<1>3. EntriesOnDisk' = EntriesOnDisk
  BY <1>1 DEF EntriesOnDisk
<1>4. \A e \in Entries' : e \in Entries
  BY <1>2, <1>3, EntriesFacts, EntriesNext
<1>5. Apart(fats[1], Entries) /\ OneKindEach(Entries) /\ FilesAt(fats[1], data, Entries)
  BY <1>2 DEF ContentInv, ExtentsApart, OneKind, FilesHeld
<1>6. Apart(fats[1], Entries') /\ OneKindEach(Entries') /\ FilesAt(fats[1], data, Entries')
  BY <1>4, <1>5 DEF Apart, OneKindEach, FilesAt
<1>7. ExtentsApart' /\ OneKind' /\ FilesHeld'
  BY <1>1, <1>2, <1>6 DEF ExtentsApart, OneKind, FilesHeld
<1>8. TablesHeld'
  BY <1>1, <1>2, <1>3 DEF ContentInv, TablesHeld, DirectoriesAt, NoFileAt
<1> QED
  BY <1>2, <1>7, <1>8 DEF ContentInv

LEMMA InterruptContent ==
    TypeInv /\ SafetyInv /\ ContentInv /\ Interrupt => ContentInv'
<1> SUFFICES ASSUME TypeInv, SafetyInv, ContentInv, Interrupt PROVE ContentInv'
  OBVIOUS
<1>1. CASE InterruptedBetweenWrites
  BY <1>1, DiskUnchangedContentInv DEF InterruptedBetweenWrites, Interrupted, Working
<1> QED
  BY <1>1, InterruptedInFormatContent, InterruptedInFileContent, InterruptedInEraseContent,
     InterruptedInFatContent, InterruptedInDirectoryContent, InterruptedInRootContent
     DEF Interrupt

-----------------------------------------------------------------------------
(***************************************************************************)
(* A move gives the tables below a directory other slots.                  *)
(***************************************************************************)
LEMMA RelocatedBelow ==
    ASSUME NEW p \in Seq(Nat), NEW from \in Seq(Nat), NEW to \in Seq(Nat), IsPrefix(from, p)
    PROVE  LET r == Relocated(p, from, to)
           IN  /\ r \in Seq(Nat)
               /\ Len(from) <= Len(p)
               /\ Len(r) = Len(to) + (Len(p) - Len(from))
               /\ \A k \in 1 .. Len(to) : r[k] = to[k]
               /\ \A k \in 1 .. Len(p) - Len(from) : r[Len(to) + k] = p[Len(from) + k]
<1> DEFINE n == Len(from)
           m == Len(p)
           x == SubSeq(p, n + 1, m)
<1>1. n \in Nat /\ m \in Nat /\ n <= m
  BY PrefixIs
<1>2. \A k \in n + 1 .. m : p[k] \in Nat
  BY <1>1
<1>3. Relocated(p, from, to) = to \o x
  BY DEF Relocated
<1> HIDE DEF n, m
<1>4. /\ x \in Seq(Nat) /\ Len(x) = IF n + 1 <= m THEN m - (n + 1) + 1 ELSE 0
      /\ \A k \in 1 .. m - (n + 1) + 1 : x[k] = p[(n + 1) + k - 1]
  BY <1>1, <1>2, SubSeqProperties, n + 1 \in Int, m \in Int
<1> HIDE DEF x
<1>5. x \in Seq(Nat) /\ Len(x) = m - n /\ \A k \in 1 .. m - n : x[k] = p[n + k]
  <2>1. m - (n + 1) + 1 = m - n /\ (n + 1 <= m <=> m - n # 0) /\ m - n \in Nat
    BY <1>1
  <2>2. ASSUME NEW k \in 1 .. m - n
        PROVE  x[k] = p[n + k]
    <3>1. x[k] = p[(n + 1) + k - 1]
      BY <1>4, <2>1
    <3>2. (n + 1) + k - 1 = n + k
      BY <1>1, <2>1
    <3> QED
      BY <3>1, <3>2
  <2> QED
    BY <1>4, <2>1, <2>2
<1>6. /\ to \o x \in Seq(Nat) /\ Len(to \o x) = Len(to) + Len(x)
      /\ \A k \in 1 .. Len(to) : (to \o x)[k] = to[k]
      /\ \A k \in 1 .. Len(x) : (to \o x)[Len(to) + k] = x[k]
  <2>1. /\ to \o x \in Seq(Nat) /\ Len(to \o x) = Len(to) + Len(x)
        /\ \A k \in 1 .. Len(to) + Len(x) :
                (to \o x)[k] = IF k <= Len(to) THEN to[k] ELSE x[k - Len(to)]
    BY <1>5, ConcatProperties
  <2>2. Len(to) \in Nat /\ Len(x) \in Nat
    BY <1>5
  <2>3. ASSUME NEW k \in 1 .. Len(x)
        PROVE  (to \o x)[Len(to) + k] = x[k]
    <3>1. /\ Len(to) + k \in 1 .. Len(to) + Len(x) /\ ~ Len(to) + k <= Len(to)
          /\ Len(to) + k - Len(to) = k
      BY <2>2
    <3> QED
      BY <2>1, <3>1
  <2>4. \A k \in 1 .. Len(to) : k \in 1 .. Len(to) + Len(x) /\ k <= Len(to)
    BY <2>2
  <2> QED
    BY <2>1, <2>3, <2>4
<1> QED
  BY <1>1, <1>3, <1>5, <1>6 DEF n, m

LEMMA RelocatedDirectory ==
    ASSUME NEW from \in Seq(Nat), NEW to \in Seq(Nat)
    PROVE  Relocated(from, from, to) = to
<1>1. IsPrefix(from, from)
  BY PrefixIs
<1>2. LET r == Relocated(from, from, to)
      IN  /\ r \in Seq(Nat)
          /\ Len(r) = Len(to) + (Len(from) - Len(from))
          /\ \A k \in 1 .. Len(to) : r[k] = to[k]
  BY <1>1, RelocatedBelow
<1> DEFINE r == Relocated(from, from, to)
<1> HIDE DEF r
<1>3. r \in Seq(Nat) /\ Len(r) = Len(to) /\ \A k \in 1 .. Len(to) : r[k] = to[k]
  BY <1>2 DEF r
<1>4. r = to
  BY <1>3, SeqEqual
<1> QED
  BY <1>4 DEF r

\* The slots of an entry go where the slots of its directory go.
LEMMA RelocatedEntry ==
    ASSUME NEW p \in Seq(Nat), NEW k \in Nat, NEW from \in Seq(Nat), NEW to \in Seq(Nat),
           Append(p, k) # from
    PROVE  Relocated(Append(p, k), from, to) = Append(Relocated(p, from, to), k)
<1> DEFINE a == Append(p, k)
<1>1. /\ a \in Seq(Nat) /\ Len(a) = Len(p) + 1 /\ Len(p) \in Nat
      /\ \A m \in 1 .. Len(p) : a[m] = p[m]
      /\ a[Len(p) + 1] = k
  BY AppendFacts
<1>2. IsPrefix(from, a) <=> IsPrefix(from, p)
  BY PrefixAppend
<1> HIDE DEF a
<1>3. CASE ~ IsPrefix(from, p)
  BY <1>2, <1>3 DEF Relocated, a
<1>4. CASE IsPrefix(from, p)
  <2> DEFINE r == Relocated(p, from, to)
             ra == Relocated(a, from, to)
  <2>1. /\ r \in Seq(Nat) /\ Len(from) <= Len(p)
        /\ Len(r) = Len(to) + (Len(p) - Len(from))
        /\ \A m \in 1 .. Len(to) : r[m] = to[m]
        /\ \A m \in 1 .. Len(p) - Len(from) : r[Len(to) + m] = p[Len(from) + m]
    BY <1>4, RelocatedBelow
  <2>2. /\ ra \in Seq(Nat)
        /\ Len(ra) = Len(to) + (Len(a) - Len(from))
        /\ \A m \in 1 .. Len(to) : ra[m] = to[m]
        /\ \A m \in 1 .. Len(a) - Len(from) : ra[Len(to) + m] = a[Len(from) + m]
    <3>1. a \in Seq(Nat) /\ IsPrefix(from, a)
      BY <1>1, <1>2, <1>4
    <3> QED
      BY <3>1, RelocatedBelow, ZenonT(30)
  <2> HIDE DEF r, ra
  <2>3. Len(from) \in Nat /\ Len(to) \in Nat
    OBVIOUS
  <2>4. /\ Append(r, k) \in Seq(Nat) /\ Len(Append(r, k)) = Len(r) + 1
        /\ \A m \in 1 .. Len(r) : Append(r, k)[m] = r[m]
        /\ Append(r, k)[Len(r) + 1] = k
    <3>1. r \in Seq(Nat)
      BY <2>1
    <3> QED
      BY <3>1, AppendFacts
  <2>5. Len(ra) = Len(Append(r, k))
    BY <1>1, <2>1, <2>2, <2>3, <2>4
  <2>6. ASSUME NEW m \in 1 .. Len(ra)
        PROVE  ra[m] = Append(r, k)[m]
    <3>1. CASE m <= Len(to)
      <4>1. m \in 1 .. Len(to) /\ m \in 1 .. Len(r)
        BY <1>1, <2>1, <2>2, <2>3, <3>1
      <4> QED
        BY <2>1, <2>2, <2>4, <4>1
    <3>2. CASE m > Len(to)
      <4> DEFINE n == m - Len(to)
      <4>1. n \in 1 .. Len(a) - Len(from) /\ m = Len(to) + n
        BY <1>1, <2>1, <2>2, <2>3, <3>2
      <4> HIDE DEF n
      <4>2. ra[m] = a[Len(from) + n]
        BY <2>2, <4>1
      <4>3. CASE n \in 1 .. Len(p) - Len(from)
        <5>1. Append(r, k)[m] = r[m]
          BY <1>1, <2>1, <2>3, <2>4, <4>1, <4>3
        <5>2. r[m] = p[Len(from) + n]
          BY <2>1, <4>1, <4>3
        <5>3. Len(from) + n \in 1 .. Len(p)
          BY <1>1, <2>3, <4>3
        <5> QED
          BY <1>1, <4>2, <5>1, <5>2, <5>3
      <4>4. CASE n = Len(p) - Len(from) + 1
        <5>1. m = Len(r) + 1 /\ Len(from) + n = Len(p) + 1
          BY <1>1, <2>1, <2>3, <4>1, <4>4
        <5> QED
          BY <1>1, <2>4, <4>2, <5>1
      <4>5. n \in 1 .. Len(p) - Len(from) \/ n = Len(p) - Len(from) + 1
        <5>1. n \in 1 .. (Len(p) + 1) - Len(from)
          BY <1>1, <4>1
        <5>2. Len(p) \in Nat /\ Len(from) \in Nat /\ Len(from) <= Len(p)
          BY <1>1, <2>1, <2>3
        <5>3. \A l, g, x \in Nat :
                g <= l /\ x \in 1 .. (l + 1) - g => x \in 1 .. l - g \/ x = l - g + 1
          OBVIOUS
        <5>4. n \in Nat
          BY <5>1
        <5> QED
          BY <5>1, <5>2, <5>3, <5>4
      <4> QED
        BY <4>3, <4>4, <4>5
    <3>3. m \in Nat
      BY <2>2
    <3>4. m <= Len(to) \/ m > Len(to)
      BY <2>3, <3>3
    <3> QED
      BY <3>1, <3>2, <3>4
  <2>7. ra = Append(r, k)
    BY <2>2, <2>4, <2>5, <2>6, SeqEqual
  <2> QED
    BY <2>7 DEF r, ra, a
<1> QED
  BY <1>3, <1>4

LEMMA RelocatedOnce ==
    ASSUME NEW from \in Seq(Nat), NEW to \in Seq(Nat),
           NEW p \in Seq(Nat), NEW q \in Seq(Nat),
           ~ IsPrefix(to, p), ~ IsPrefix(to, q),
           Relocated(p, from, to) = Relocated(q, from, to)
    PROVE  p = q
<1>1. ASSUME NEW x \in Seq(Nat), IsPrefix(from, x)
      PROVE  IsPrefix(to, Relocated(x, from, to))
  <2> DEFINE r == Relocated(x, from, to)
  <2>1. /\ r \in Seq(Nat) /\ Len(from) <= Len(x)
        /\ Len(r) = Len(to) + (Len(x) - Len(from))
        /\ \A k \in 1 .. Len(to) : r[k] = to[k]
    BY <1>1, RelocatedBelow
  <2> HIDE DEF r
  <2>2. Len(to) <= Len(r)
    BY <2>1
  <2>3. IsPrefix(to, r)
    BY <2>1, <2>2, PrefixIs
  <2> QED
    BY <2>3 DEF r
<1>2. CASE ~ IsPrefix(from, p) \/ ~ IsPrefix(from, q)
  <2>1. ~ IsPrefix(from, p) /\ ~ IsPrefix(from, q)
    BY <1>1, <1>2 DEF Relocated
  <2> QED
    BY <2>1 DEF Relocated
<1>3. CASE IsPrefix(from, p) /\ IsPrefix(from, q)
  <2> DEFINE r == Relocated(p, from, to)
  <2>1. /\ Len(from) <= Len(p)
        /\ Len(r) = Len(to) + (Len(p) - Len(from))
        /\ \A k \in 1 .. Len(p) - Len(from) : r[Len(to) + k] = p[Len(from) + k]
    BY <1>3, RelocatedBelow
  <2>2. /\ Len(from) <= Len(q)
        /\ Len(r) = Len(to) + (Len(q) - Len(from))
        /\ \A k \in 1 .. Len(q) - Len(from) : r[Len(to) + k] = q[Len(from) + k]
    <3>1. r = Relocated(q, from, to)
      OBVIOUS
    <3> HIDE DEF r
    <3> QED
      BY <1>3, <3>1, RelocatedBelow, ZenonT(30)
  <2> HIDE DEF r
  <2>3. Len(p) = Len(q) /\ Len(p) \in Nat /\ Len(from) \in Nat
    BY <2>1, <2>2
  <2>4. /\ \A k \in 1 .. Len(from) : from[k] = p[k]
        /\ \A k \in 1 .. Len(from) : from[k] = q[k]
    BY <1>3, PrefixIs
  <2>5. ASSUME NEW k \in 1 .. Len(p)
        PROVE  p[k] = q[k]
    <3>1. CASE k <= Len(from)
      BY <2>3, <2>4, <3>1
    <3>2. CASE k > Len(from)
      <4> DEFINE n == k - Len(from)
      <4>1. n \in 1 .. Len(p) - Len(from) /\ k = Len(from) + n
        BY <2>3, <3>2
      <4> HIDE DEF n
      <4> QED
        BY <2>1, <2>2, <2>3, <4>1
    <3> QED
      BY <2>3, <3>1, <3>2
  <2> QED
    BY <2>3, <2>5, SeqEqual
<1> QED
  BY <1>2, <1>3

\* No directory is below an entry that is none.
LEMMA NothingBelow ==
    ASSUME TypeInv, TreeInv, NEW d \in DOMAIN tabs, NEW j \in DOMAIN tabs[d],
           ~ IsSubdir(tabs[d][j])
    PROVE  \A p \in DOMAIN tabs : ~ IsPrefix(Append(d, j), p)
<1> DEFINE to == Append(d, j)
           Bad == {p \in DOMAIN tabs : IsPrefix(to, p)}
           Lengths == {Len(p) : p \in Bad}
<1>1. /\ d \in Seq(Nat) /\ j \in Nat
      /\ to \in Seq(Nat) /\ Len(to) = Len(d) + 1 /\ Len(d) \in Nat
      /\ Front(to) = d /\ Last(to) = j
  BY TabsTypes, AppendFacts, AppendEnds
<1> HIDE DEF to
<1>2. SUFFICES ASSUME Bad # {} PROVE FALSE
  BY DEF to
<1>3. Lengths \in SUBSET Nat /\ Lengths # {}
  <2>1. \A p \in DOMAIN tabs : Len(p) \in Nat
    BY TabsTypes
  <2> QED
    BY <1>2, <2>1
<1>4. Min(Lengths) \in Lengths /\ \A x \in Lengths : Min(Lengths) <= x
  BY <1>3, MinOfNaturals
<1>5. PICK p \in Bad : \A q \in Bad : Len(p) <= Len(q)
  BY <1>4
<1>6. p \in DOMAIN tabs /\ p \in Seq(Nat) /\ IsPrefix(to, p)
  BY <1>5, TabsTypes
<1>7. p # <<>>
  BY <1>1, <1>6 DEF IsPrefix
<1>8. /\ Front(p) \in DOMAIN tabs /\ IsSubdir(tabs[Front(p)][Last(p)])
      /\ p = Append(Front(p), Last(p))
  BY <1>6, <1>7, LedBy
<1>9. Front(p) \in Seq(Nat) /\ Last(p) \in Nat /\ Len(Front(p)) = Len(p) - 1 /\ Len(p) \in Nat
  BY <1>6, <1>7, FrontLast
<1>10. IsPrefix(to, Append(Front(p), Last(p)))
            <=> IsPrefix(to, Front(p)) \/ to = Append(Front(p), Last(p))
  BY <1>1, <1>9, PrefixAppend
<1>11. CASE IsPrefix(to, Front(p))
  <2>1. Front(p) \in Bad
    BY <1>8, <1>11
  <2> QED
    BY <1>5, <1>9, <2>1
<1>12. CASE to = p
  BY <1>1, <1>8, <1>12
<1> QED
  BY <1>6, <1>8, <1>10, <1>11, <1>12

LEMMA MoveCommand ==
    ASSUME cmd \in Commands, cmd.op = "move"
    PROVE  cmd.path \in Seq(Names) /\ cmd.dest \in Seq(Names)
<1>1. cmd \in AllCommands
  BY CommandsAssumption
<1>2. cmd.dest \in Paths \union {<<>>}
  BY <1>1 DEF AllCommands
<1>3. cmd.dest \in Seq(Names)
  BY <1>2, EmptySeq DEF Paths
<1> QED
  BY <1>3, DeleteCommand

\* The slots a path of names leads along.
LEMMA ResolvedNames ==
    ASSUME TypeInv, NEW path, NEW p \in Seq(Nat), Resolves(path, p),
           NEW k \in 1 .. Len(p)
    PROVE  /\ SubSeq(p, 1, k - 1) \in DOMAIN tabs
           /\ p[k] \in DOMAIN tabs[SubSeq(p, 1, k - 1)]
           /\ tabs[SubSeq(p, 1, k - 1)][p[k]].name = path[k]
<1> DEFINE dir == SubSeq(p, 1, k - 1)
           slots == SlotsNamed(tabs[dir], path[k])
<1>1. dir \in DOMAIN tabs /\ slots # {} /\ p[k] = Min(slots)
  BY DEF Resolves
<1>2. slots \in SUBSET Nat
  BY <1>1, TabsTypes DEF SlotsNamed
<1>3. p[k] \in slots
  BY <1>1, <1>2, MinOfNaturals
<1> HIDE DEF dir
<1> QED
  BY <1>1, <1>3 DEF SlotsNamed, dir

LEMMA ResolvedPrefix ==
    ASSUME TypeInv, NEW path \in Seq(Names), NEW other \in Seq(Names),
           NEW p \in Seq(Nat), NEW q \in Seq(Nat),
           Resolves(path, p), Resolves(other, q), IsPrefix(p, q)
    PROVE  IsPrefix(path, other)
<1>1. /\ Len(p) <= Len(q) /\ \A k \in 1 .. Len(p) : p[k] = q[k]
      /\ Len(p) \in Nat /\ Len(q) \in Nat
  BY PrefixIs
<1>2. Len(path) = Len(p) /\ Len(other) = Len(q)
  BY DEF Resolves
<1>3. ASSUME NEW k \in 1 .. Len(p)
      PROVE  path[k] = other[k]
  <2> DEFINE n == k - 1
  <2>1. n \in Nat /\ k \in 1 .. Len(q) /\ \A x \in 1 .. n : x \in 1 .. Len(p) /\ x \in 1 .. Len(q)
    BY <1>1
  <2> HIDE DEF n
  <2>2. \A x \in 1 .. n : p[x] \in Nat /\ q[x] \in Nat /\ p[x] = q[x]
    BY <1>1, <2>1
  <2>3. SubSeq(p, 1, n) = SubSeq(q, 1, n)
    <3>1. /\ SubSeq(p, 1, n) \in Seq(Nat)
          /\ Len(SubSeq(p, 1, n)) = IF 1 <= n THEN n - 1 + 1 ELSE 0
          /\ \A x \in 1 .. n - 1 + 1 : SubSeq(p, 1, n)[x] = p[1 + x - 1]
      BY <2>1, <2>2, SubSeqProperties, 1 \in Int, n \in Int
    <3>2. /\ SubSeq(q, 1, n) \in Seq(Nat)
          /\ Len(SubSeq(q, 1, n)) = IF 1 <= n THEN n - 1 + 1 ELSE 0
          /\ \A x \in 1 .. n - 1 + 1 : SubSeq(q, 1, n)[x] = q[1 + x - 1]
      BY <2>1, <2>2, SubSeqProperties, 1 \in Int, n \in Int
    <3>3. /\ Len(SubSeq(p, 1, n)) = n /\ Len(SubSeq(q, 1, n)) = n
          /\ \A x \in 1 .. n : SubSeq(p, 1, n)[x] = p[x] /\ SubSeq(q, 1, n)[x] = q[x]
      BY <2>1, <3>1, <3>2
    <3> QED
      BY <2>2, <3>1, <3>2, <3>3, SeqEqual
  <2>4. tabs[SubSeq(p, 1, n)][p[k]].name = path[k]
    BY ResolvedNames DEF n
  <2>5. tabs[SubSeq(q, 1, n)][q[k]].name = other[k]
    BY <2>1, ResolvedNames DEF n
  <2> QED
    BY <1>1, <2>3, <2>4, <2>5
<1> QED
  BY <1>1, <1>2, <1>3, PrefixIs

\* The entry a command names has one of the names.
LEMMA TargetName ==
    ASSUME TypeInv, NEW path \in Seq(Names), NEW d \in DOMAIN tabs, NEW i \in DOMAIN tabs[d],
           Resolves(path, Append(d, i))
    PROVE  tabs[d][i].name \in Names
<1> DEFINE p == Append(d, i)
<1>1. /\ d \in Seq(Nat) /\ i \in Nat /\ p \in Seq(Nat) /\ Len(p) = Len(d) + 1
      /\ Len(d) \in Nat /\ p # <<>> /\ Front(p) = d /\ Last(p) = i
  <2>1. d \in Seq(Nat) /\ i \in Nat
    BY TabsTypes
  <2> QED
    BY <2>1, AppendFacts, AppendEnds
<1> HIDE DEF p
<1>2. SubSeq(p, 1, Len(p) - 1) = d /\ p[Len(p)] = i
  BY <1>1 DEF Front, Last
<1>3. Len(p) \in 1 .. Len(p) /\ Len(path) = Len(p)
  BY <1>1 DEF Resolves, p
<1>4. tabs[SubSeq(p, 1, Len(p) - 1)][p[Len(p)]].name = path[Len(p)]
  BY <1>1, <1>3, ResolvedNames DEF p
<1>5. path[Len(p)] \in Names
  BY <1>3
<1> QED
  BY <1>2, <1>4, <1>5

LEMMA RekeyedAt ==
    ASSUME NEW tables, NEW from, NEW to,
           \A p, q \in DOMAIN tables :
                Relocated(p, from, to) = Relocated(q, from, to) => p = q
    PROVE  LET moved == Rekeyed(tables, from, to)
           IN  /\ \A q \in DOMAIN moved : \E p \in DOMAIN tables : q = Relocated(p, from, to)
               /\ \A p \in DOMAIN tables :
                    /\ Relocated(p, from, to) \in DOMAIN moved
                    /\ moved[Relocated(p, from, to)] = tables[p]
<1> DEFINE Keys == {Relocated(p, from, to) : p \in DOMAIN tables}
           Origin(r) == CHOOSE p \in DOMAIN tables : Relocated(p, from, to) = r
           moved == Rekeyed(tables, from, to)
<1>1. moved = [q \in Keys |-> tables[Origin(q)]]
  BY DEF Rekeyed
<1>2. \A p \in DOMAIN tables : Relocated(p, from, to) \in Keys
  OBVIOUS
<1>3. ASSUME NEW p \in DOMAIN tables
      PROVE  Origin(Relocated(p, from, to)) = p
  <2>1. /\ Origin(Relocated(p, from, to)) \in DOMAIN tables
        /\ Relocated(Origin(Relocated(p, from, to)), from, to) = Relocated(p, from, to)
    OBVIOUS
  <2> QED
    BY <2>1
<1> HIDE DEF Origin, moved
<1>4. DOMAIN moved = Keys
  BY <1>1
<1>5. \A p \in DOMAIN tables : moved[Relocated(p, from, to)] = tables[p]
  BY <1>1, <1>2, <1>3
<1> QED
  BY <1>2, <1>4, <1>5 DEF moved

\* The entry in slot i of directory d goes to slot j of directory dest, and the
\* tables below it with it.
MovedTo(d, i, dest, j) ==
    LET from == Append(d, i)
        to == Append(dest, j)
    IN  /\ <<d, i>> # <<dest, j>>
        /\ tabs[dest][j] = EmptyEntry
        /\ ~ IsPrefix(from, dest)
        /\ Resolves(cmd.path, from)
        /\ Resolves(cmd.dest, dest)
        /\ \E edited :
            /\ \A p \in DOMAIN tabs : DOMAIN edited[p] = DOMAIN tabs[p]
            /\ edited[d][i] = EmptyEntry
            /\ edited[dest][j] = tabs[d][i]
            /\ \A p \in DOMAIN tabs : \A k \in DOMAIN tabs[p] :
                    <<p, k>> \notin {<<d, i>>, <<dest, j>>} => edited[p][k] = tabs[p][k]
            /\ \A q \in DOMAIN tabs' : \E p \in DOMAIN tabs : q = Relocated(p, from, to)
            /\ \A p \in DOMAIN tabs : /\ Relocated(p, from, to) \in DOMAIN tabs'
                                      /\ tabs'[Relocated(p, from, to)] = edited[p]

\* The tables after a move: where each goes, and what has changed in it.
LEMMA MovedTables ==
    ASSUME TypeInv, TreeInv, MoveEntry
    PROVE  \E d, dest \in DOMAIN tabs : \E i \in DOMAIN tabs[d], j \in DOMAIN tabs[dest] :
              MovedTo(d, i, dest, j)
<1>1. PICK d \in DOMAIN tabs, dest \in DOMAIN tabs : \E i \in DOMAIN tabs[d] :
        /\ Movable(d, i, dest)
        /\ LET j == FirstFree(tabs[dest])
               edited == [[tabs EXCEPT ![dest][j] = tabs[d][i]]
                             EXCEPT ![d][i] = EmptyEntry]
           IN  tabs' = Rekeyed(edited, Append(d, i), Append(dest, j))
  BY DEF MoveEntry
<1>2. PICK i \in DOMAIN tabs[d] :
        /\ Movable(d, i, dest)
        /\ LET j == FirstFree(tabs[dest])
               edited == [[tabs EXCEPT ![dest][j] = tabs[d][i]]
                             EXCEPT ![d][i] = EmptyEntry]
           IN  tabs' = Rekeyed(edited, Append(d, i), Append(dest, j))
  BY <1>1
<1> DEFINE j == FirstFree(tabs[dest])
           from == Append(d, i)
           to == Append(dest, j)
           filled == [tabs EXCEPT ![dest][j] = tabs[d][i]]
           edited == [filled EXCEPT ![d][i] = EmptyEntry]
<1>3. /\ cmd \in Commands /\ cmd.op = "move"
      /\ cmd.path \in Seq(Names) /\ cmd.dest \in Seq(Names)
  BY MoveCommand DEF MoveEntry, Opened, TypeInv, TypeOK, NoCommand
<1>4. /\ ~ IsPrefix(cmd.path, cmd.dest)
      /\ Resolves(cmd.path, from) /\ Resolves(cmd.dest, dest)
      /\ SlotsNamed(tabs[dest], NoName) # {}
  BY <1>2 DEF Movable, Target
<1>5. /\ tabs[d] \in Seq(Entry) /\ tabs[dest] \in Seq(Entry)
      /\ d \in Seq(Nat) /\ dest \in Seq(Nat) /\ i \in Nat
      /\ DOMAIN tabs \subseteq Seq(Nat) /\ tabs \in [DOMAIN tabs -> Seq(Entry)]
  BY DEF TypeInv, TypeOK
<1>6. j \in DOMAIN tabs[dest] /\ j \in Nat /\ tabs[dest][j].name = NoName
  <2>1. SlotsNamed(tabs[dest], NoName) \in SUBSET Nat
    BY <1>5 DEF SlotsNamed
  <2>2. j \in SlotsNamed(tabs[dest], NoName)
    BY <1>4, <2>1, MinOfNaturals DEF FirstFree
  <2> HIDE DEF j
  <2> QED
    BY <1>5, <2>2 DEF SlotsNamed
<1>7. tabs[d][i] \in Entry /\ tabs[d][i].name \in Names
  BY <1>3, <1>4, <1>5, TargetName
<1>8. tabs' = Rekeyed(edited, from, to)
  BY <1>2
<1> HIDE DEF j, from, to
<1>9. <<d, i>> # <<dest, j>> /\ ~ IsSubdir(tabs[dest][j])
  BY <1>6, <1>7, NamesAssumption DEF IsSubdir, IsEmpty
<1>10. from \in Seq(Nat) /\ to \in Seq(Nat)
  BY <1>5, <1>6, AppendFacts DEF from, to
<1>11. ~ IsPrefix(from, dest)
  BY <1>3, <1>4, <1>5, <1>10, ResolvedPrefix
<1>12. /\ filled \in [DOMAIN tabs -> Seq(Entry)]
       /\ \A q \in DOMAIN tabs : DOMAIN filled[q] = DOMAIN tabs[q]
       /\ filled[dest][j] = tabs[d][i]
       /\ \A q \in DOMAIN tabs : \A k \in DOMAIN tabs[q] :
             <<q, k>> # <<dest, j>> => filled[q][k] = tabs[q][k]
  BY <1>5, <1>6, <1>7, EditType
<1> HIDE DEF filled
<1>13. DOMAIN filled = DOMAIN tabs
  BY <1>12
<1>14. /\ edited \in [DOMAIN filled -> Seq(Entry)]
       /\ \A q \in DOMAIN filled : DOMAIN edited[q] = DOMAIN filled[q]
       /\ edited[d][i] = EmptyEntry
       /\ \A q \in DOMAIN filled : \A k \in DOMAIN filled[q] :
             <<q, k>> # <<d, i>> => edited[q][k] = filled[q][k]
  <2>1. d \in DOMAIN filled /\ i \in DOMAIN filled[d]
    BY <1>12, <1>13
  <2> QED
    BY <1>5, <1>12, <1>13, <2>1, EditType, EntryTypes
<1> HIDE DEF edited
<1>15. DOMAIN edited = DOMAIN tabs
  BY <1>13, <1>14
<1>16. \A p \in DOMAIN tabs : ~ IsPrefix(to, p)
  BY <1>6, <1>9, NothingBelow DEF to
<1>17. \A p, q \in DOMAIN edited :
            Relocated(p, from, to) = Relocated(q, from, to) => p = q
  BY <1>5, <1>10, <1>15, <1>16, RelocatedOnce
<1>18. /\ \A q \in DOMAIN tabs' : \E p \in DOMAIN tabs : q = Relocated(p, from, to)
       /\ \A p \in DOMAIN tabs : /\ Relocated(p, from, to) \in DOMAIN tabs'
                                 /\ tabs'[Relocated(p, from, to)] = edited[p]
  BY <1>8, <1>15, <1>17, RekeyedAt
<1>19. /\ \A p \in DOMAIN tabs : DOMAIN edited[p] = DOMAIN tabs[p]
       /\ edited[d][i] = EmptyEntry
       /\ edited[dest][j] = tabs[d][i]
       /\ \A p \in DOMAIN tabs : \A k \in DOMAIN tabs[p] :
               <<p, k>> \notin {<<d, i>>, <<dest, j>>} => edited[p][k] = tabs[p][k]
  BY <1>6, <1>9, <1>12, <1>13, <1>14
<1>20. tabs[dest][j] = EmptyEntry /\ Resolves(cmd.path, from) /\ Resolves(cmd.dest, dest)
  BY <1>4, <1>5, <1>6 DEF Entry
<1> QED
  BY <1>6, <1>9, <1>11, <1>18, <1>19, <1>20 DEF from, to, MovedTo

LEMMA MoveEntryContent ==
    TypeInv /\ SafetyInv /\ ContentInv /\ MoveEntry => ContentInv'
<1> SUFFICES ASSUME TypeInv, SafetyInv, ContentInv, MoveEntry PROVE ContentInv'
  OBVIOUS
<1>1. PICK d \in DOMAIN tabs, dest \in DOMAIN tabs :
          \E i \in DOMAIN tabs[d], j \in DOMAIN tabs[dest] : MovedTo(d, i, dest, j)
  BY MovedTables DEF ContentInv
<1>2. PICK i \in DOMAIN tabs[d], j \in DOMAIN tabs[dest] : MovedTo(d, i, dest, j)
  BY <1>1
<1> DEFINE from == Append(d, i)
           to == Append(dest, j)
           Now(p) == Relocated(p, from, to)
<1>3. /\ <<d, i>> # <<dest, j>> /\ ~ IsSubdir(tabs[dest][j]) /\ ~ IsPrefix(from, dest)
  BY <1>2, EntryTypes DEF MovedTo
<1>4. PICK edited :
         /\ \A p \in DOMAIN tabs : DOMAIN edited[p] = DOMAIN tabs[p]
         /\ edited[d][i] = EmptyEntry
         /\ edited[dest][j] = tabs[d][i]
         /\ \A p \in DOMAIN tabs : \A k \in DOMAIN tabs[p] :
                 <<p, k>> \notin {<<d, i>>, <<dest, j>>} => edited[p][k] = tabs[p][k]
         /\ \A q \in DOMAIN tabs' : \E p \in DOMAIN tabs : q = Now(p)
         /\ \A p \in DOMAIN tabs : Now(p) \in DOMAIN tabs' /\ tabs'[Now(p)] = edited[p]
  BY <1>2 DEF MovedTo
<1>5. /\ pc = "scan" /\ Unscanned = {} /\ pc' = "fat"
      /\ UNCHANGED <<fats, root, data, cmd, fat, todo>>
  BY DEF MoveEntry, Opened, BeginWrite
<1>6. Working /\ Working' /\ Running
  BY <1>5 DEF Working, Running
<1>7. /\ d \in Seq(Nat) /\ i \in Nat /\ dest \in Seq(Nat) /\ j \in Nat
      /\ \A p \in DOMAIN tabs : p \in Seq(Nat)
      /\ \A p \in DOMAIN tabs : \A k \in DOMAIN tabs[p] : k \in Nat
  BY TabsTypes
<1>8. /\ from \in Seq(Nat) /\ Len(from) = Len(d) + 1 /\ Front(from) = d /\ Last(from) = i
      /\ to \in Seq(Nat) /\ Front(to) = dest /\ Last(to) = j
  BY <1>7, AppendFacts, AppendEnds
<1> HIDE DEF from
<1>9. Now(from) = to /\ Now(dest) = dest /\ Now(<<>>) = <<>>
  <2>1. ~ IsPrefix(from, <<>>)
    BY <1>7, <1>8 DEF IsPrefix
  <2> QED
    BY <1>3, <1>8, <2>1, RelocatedDirectory DEF Relocated
<1>10. ASSUME NEW p \in DOMAIN tabs, NEW k \in DOMAIN tabs[p], Append(p, k) # from
       PROVE  Now(Append(p, k)) = Append(Now(p), k)
  <2>1. p \in Seq(Nat) /\ k \in Nat
    BY <1>7
  <2> HIDE DEF to
  <2>2. Relocated(Append(p, k), from, to) = Append(Relocated(p, from, to), k)
    BY <1>8, <1>10, <2>1, RelocatedEntry
  <2> QED
    BY <2>2
<1>11. ASSUME NEW p \in DOMAIN tabs
       PROVE  Now(p) \in Seq(Nat)
  <2>1. CASE IsPrefix(from, p)
    BY <1>7, <1>8, <2>1, RelocatedBelow
  <2>2. CASE ~ IsPrefix(from, p)
    BY <1>7, <2>2 DEF Relocated
  <2> QED
    BY <2>1, <2>2
<1> HIDE DEF Now, to
<1>12. ASSUME NEW e \in Entries', e.first \in Stored
       PROVE  e \in Entries
  <2>1. CASE e \in EntriesOnDisk'
    BY <1>5, <2>1, EntriesFacts, OnDiskFacts, OnDiskNext
  <2>2. ASSUME NEW q \in DOMAIN tabs', NEW k \in DOMAIN tabs'[q], e = tabs'[q][k]
        PROVE  e \in Entries
    <3>1. PICK p \in DOMAIN tabs : q = Now(p)
      BY <1>4
    <3>2. k \in DOMAIN tabs[p] /\ e = edited[p][k]
      BY <1>4, <2>2, <3>1
    <3>3. CASE <<p, k>> = <<d, i>>
      BY <1>4, <1>12, <3>2, <3>3, NotStored
    <3>4. CASE <<p, k>> = <<dest, j>>
      BY <1>4, <3>2, <3>4, EntriesFacts
    <3>5. CASE <<p, k>> \notin {<<d, i>>, <<dest, j>>}
      BY <1>4, <3>2, <3>5, EntriesFacts
    <3> QED
      BY <3>3, <3>4, <3>5
  <2> QED
    BY <2>1, <2>2, EntriesNext
<1>13. TablesComplete
  BY <1>5, ScannedComplete
<1>14. TablesLed'
  <2> SUFFICES ASSUME NEW q \in DOMAIN tabs' \ {<<>>}
               PROVE  /\ Front(q) \in DOMAIN tabs'
                      /\ Last(q) \in DOMAIN tabs'[Front(q)]
                      /\ IsSubdir(tabs'[Front(q)][Last(q)])
    BY DEF TablesLed, IsSubdir, IsEmpty, IsDotDir
  <2>1. PICK p \in DOMAIN tabs : q = Now(p)
    BY <1>4
  <2>2. p # <<>>
    BY <1>9, <2>1
  <2>3. /\ Front(p) \in DOMAIN tabs /\ Last(p) \in DOMAIN tabs[Front(p)]
        /\ IsSubdir(tabs[Front(p)][Last(p)])
        /\ p = Append(Front(p), Last(p))
    BY <2>2, LedBy DEF ContentInv
  <2>4. CASE p = from
    <3>1. Front(q) = dest /\ Last(q) = j /\ IsSubdir(tabs[d][i])
      BY <1>8, <1>9, <2>1, <2>3, <2>4
    <3>2. dest \in DOMAIN tabs' /\ tabs'[dest] = edited[dest]
      BY <1>4, <1>9
    <3> QED
      BY <1>4, <3>1, <3>2
  <2>5. CASE p # from
    <3>1. Now(Append(Front(p), Last(p))) = Append(Now(Front(p)), Last(p))
      BY <1>10, <2>3, <2>5
    <3>2. q = Append(Now(Front(p)), Last(p))
      BY <2>1, <2>3, <3>1
    <3>3. Front(q) = Now(Front(p)) /\ Last(q) = Last(p)
      BY <1>7, <1>11, <2>3, <3>2, AppendEnds
    <3>4. <<Front(p), Last(p)>> \notin {<<d, i>>, <<dest, j>>}
      BY <1>3, <2>3, <2>5 DEF from
    <3> QED
      BY <1>4, <2>3, <3>3, <3>4
  <2> QED
    BY <2>4, <2>5
<1>15. TablesComplete'
  <2> SUFFICES ASSUME NEW q \in DOMAIN tabs', NEW k \in DOMAIN tabs'[q], IsSubdir(tabs'[q][k])
               PROVE  Append(q, k) \in DOMAIN tabs'
    BY DEF TablesComplete, IsSubdir, IsEmpty, IsDotDir
  <2>1. PICK p \in DOMAIN tabs : q = Now(p)
    BY <1>4
  <2>2. k \in DOMAIN tabs[p] /\ tabs'[q][k] = edited[p][k]
    BY <1>4, <2>1
  <2>3. CASE <<p, k>> = <<d, i>>
    BY <1>4, <2>2, <2>3, EntryTypes
  <2>4. CASE <<p, k>> = <<dest, j>>
    <3>1. from \in DOMAIN tabs
      BY <1>4, <1>13, <2>2, <2>4 DEF TablesComplete, from
    <3>2. Append(q, k) = Now(from)
      BY <1>9, <2>1, <2>4 DEF to
    <3> QED
      BY <1>4, <3>1, <3>2
  <2>5. CASE <<p, k>> \notin {<<d, i>>, <<dest, j>>}
    <3>1. Append(p, k) \in DOMAIN tabs
      BY <1>4, <1>13, <2>2, <2>5 DEF TablesComplete
    <3>2. Append(p, k) # from
      <4>1. Front(Append(p, k)) = p /\ Last(Append(p, k)) = k
        BY <1>7, <2>2, AppendEnds
      <4> QED
        BY <1>8, <2>5, <4>1
    <3>3. Now(Append(p, k)) = Append(q, k)
      BY <1>10, <2>1, <2>2, <3>2
    <3> QED
      BY <1>4, <3>1, <3>3
  <2> QED
    BY <2>3, <2>4, <2>5
<1>16. TreeInv' /\ PhasesSet'
  BY <1>5, <1>6, <1>14, <1>15 DEF TreeInv, PhasesSet, ContentInv
<1> QED
  BY <1>5, <1>6, <1>12, <1>16, ReadingStepKeeps

-----------------------------------------------------------------------------
(***************************************************************************)
(* The invariant.                                                          *)
(***************************************************************************)
LEMMA UnchangedContent == ContentInv /\ UNCHANGED vars => ContentInv'
<1> SUFFICES ASSUME ContentInv, UNCHANGED vars PROVE ContentInv'
  OBVIOUS
<1>1. UNCHANGED <<fats, root, data, pc, cmd, fat, tabs, head, job, todo>>
  BY DEF vars
<1>2. Working' = Working /\ Running' = Running /\ Table' = Table /\ Entries' = Entries
      /\ EntriesOnDisk' = EntriesOnDisk
  BY <1>1 DEF Working, Running, Table, Entries, EntriesOnDisk
<1>3. UnsavedLinks' /\ ExtentsApart' /\ OneKind' /\ FilesHeld'
  BY <1>1, <1>2 DEF ContentInv, UnsavedLinks, ExtentsApart, OneKind, FilesHeld
<1>4. NewChain' /\ TablesHeld'
  BY <1>1, <1>2 DEF ContentInv, NewChain, TablesHeld, HeadOf
<1>5. TreeInv' /\ PhasesSet'
  BY <1>1, <1>2 DEF ContentInv, TreeInv, TablesLed, TablesComplete, PhasesSet
<1> QED
  BY <1>3, <1>4, <1>5 DEF ContentInv

LEMMA NextContentInv == TypeInv /\ SafetyInv /\ ContentInv /\ [Next]_vars => ContentInv'
<1> SUFFICES ASSUME TypeInv, SafetyInv, ContentInv, [Next]_vars PROVE ContentInv'
  OBVIOUS
<1>1. CASE UNCHANGED vars
  BY <1>1, UnchangedContent
<1>2. CASE \E c \in Commands : Start(c) \/ StartCreate(c)
  BY <1>2, StartContent, StartCreateContent
<1>3. CASE Step
  BY <1>3, ScanDirectoryContent, FormatContent, BeginPutContent, CreateFileContent,
     EnterDirectoryContent, MakeDirectoryContent, FillEntryContent, VisitContent,
     EraseEntryContent, MoveEntryContent, WriteFatContent, WriteDirectoryContent,
     WriteRootContent, RefusedContent
     DEF Step
<1>4. CASE Interrupt
  BY <1>4, InterruptContent
<1> QED
  BY <1>1, <1>2, <1>3, <1>4 DEF Next, Halted

LEMMA ContentInvariant == Spec => [](TypeInv /\ SafetyInv /\ ContentInv)
<1>1. Init => TypeInv /\ SafetyInv /\ ContentInv
  BY InitTypeInv, InitSafetyInv, InitContentInv
<1>2. TypeInv /\ SafetyInv /\ ContentInv /\ [Next]_vars
        => (TypeInv /\ SafetyInv /\ ContentInv)'
  BY NextTypeInv, NextSafetyInv, NextContentInv
<1> QED
  BY <1>1, <1>2, PTL DEF Spec

-----------------------------------------------------------------------------
(***************************************************************************)
(* What the next command finds on the disk.                                *)
(***************************************************************************)
\* The first copy leads from an entry on the disk to the clusters that the table
\* of the running command leads to.
LEMMA DiskExtents ==
    ASSUME TypeInv, SafetyInv, NEW e \in EntriesOnDisk
    PROVE  /\ Anchored(LoadedFat, e.first)
           /\ Extent(LoadedFat, e.first) = Extent(Table, e.first)
           /\ \A c \in Extent(Table, e.first) : LoadedFat[c] = Table[c]
<1>1. Anchored(fats[1], e.first)
  BY FirstCopy, OnDiskAnchored
<1>2. \A c \in Stored : LoadedFat[c] = fats[1][c]
  BY ClusterSets DEF LoadedFat
<1>3. /\ Anchored(LoadedFat, e.first)
      /\ Extent(LoadedFat, e.first) = Extent(fats[1], e.first)
  BY <1>1, <1>2, ExtentAgrees
<1>4. /\ Extent(fats[1], e.first) = Extent(Table, e.first)
      /\ \A c \in Extent(Table, e.first) : fats[1][c] = Table[c]
  <2>1. CASE Working
    <3>1. Table = fat /\ Below(fats[1], fat)
      BY <2>1, FirstCopy DEF Table, SafetyInv, FatsBelow, Working
    <3> QED
      BY <1>1, <3>1, CopyExtents
  <2>2. CASE ~ Working
    BY <2>2 DEF Table
  <2> QED
    BY <2>1, <2>2
<1>5. Extent(Table, e.first) \in SUBSET Stored
  BY DEF Extent
<1> QED
  BY <1>2, <1>3, <1>4, <1>5

\* A chain on the disk passes the extent of its entry, every cluster at its place.
LEMMA DiskChain ==
    ASSUME TypeInv, SafetyInv, NEW e \in EntriesOnDisk, OnDiskChain(e.first)
    PROVE  LET s == Chain(LoadedFat, e.first)
               E == Extent(Table, e.first)
           IN  /\ \A k \in 1 .. Len(s) : s[k] \in E /\ PlaceIn(E, s[k]) = k
               /\ \E c \in E : Table[c] = EndOfChain
               /\ Cardinality(E) = Len(s)
<1> DEFINE s == Chain(LoadedFat, e.first)
           E == Extent(Table, e.first)
           n == Len(s)
<1>1. \A c \in Unsaved : LoadedFat[c] = 0
  BY ClusterSets DEF LoadedFat, Unsaved
<1>2. /\ Anchored(LoadedFat, e.first) /\ Extent(LoadedFat, e.first) = E
      /\ \A c \in E : LoadedFat[c] = Table[c]
  BY DiskExtents
<1>3. HasChain(LoadedFat, e.first)
  BY DEF OnDiskChain
<1>4. \A c \in Unsaved : LoadedFat[c] \notin Stored
  BY <1>1, NotStored
<1>5. /\ \A k \in 1 .. n : s[k] \in Stored => s[k] \in E /\ PlaceIn(E, s[k]) = k
      /\ (\E c \in E : LoadedFat[c] = EndOfChain) => Cardinality(E) = n
  BY <1>2, <1>3, <1>4, ChainPassesExtent
<1>6. /\ n \in Nat \ {0}
      /\ \A k \in 1 .. n : s[k] \in Clusters
      /\ \A k \in 1 .. n - 1 : LoadedFat[s[k]] = s[k + 1]
      /\ LoadedFat[s[n]] = EndOfChain
  BY <1>3, ChainFacts
<1> HIDE DEF s, E, n
<1>7. 0 \notin Clusters /\ EndOfChain # 0
  BY ClusterSets
<1>8. ASSUME NEW k \in 1 .. n
      PROVE  s[k] \in Stored
  <2>1. LoadedFat[s[k]] # 0
    <3>1. k = n \/ (k \in 1 .. n - 1 /\ k + 1 \in 1 .. n)
      BY <1>6
    <3> QED
      BY <1>6, <1>7, <3>1
  <2> QED
    BY <1>1, <1>6, <2>1 DEF Unsaved
<1>9. n \in 1 .. n
  BY <1>6
<1>10. s[n] \in E /\ Table[s[n]] = EndOfChain
  BY <1>2, <1>5, <1>6, <1>8, <1>9
<1> QED
  BY <1>2, <1>5, <1>8, <1>10 DEF s, E, n

\* A walk along the links on the disk meets no cluster outside the extent.
LEMMA ClustersInExtent ==
    ASSUME TypeInv, SafetyInv, NEW e \in EntriesOnDisk, e.first \in Stored
    PROVE  ClustersFrom(e.first) \subseteq Extent(Table, e.first)
<1> DEFINE E == Extent(Table, e.first)
<1> SUFFICES ASSUME NEW c \in Stored, NEW n \in 1 .. Cardinality(Clusters),
                    c = Walk(LoadedFat, e.first, n)[n]
             PROVE  c \in E
  BY DEF ClustersFrom
<1> DEFINE w == Walk(LoadedFat, e.first, n)
           Bad == {k \in 1 .. n : w[k] \in Stored \ E}
<1>1. n \in Nat \ {0}
  BY ClusterSets, FS_CardinalityType
<1>2. \A k \in 1 .. n : w[k] = IF k = 1 THEN e.first ELSE NextCluster(LoadedFat, w[k - 1])
  <2>1. IsWalk(w, LoadedFat, e.first, n)
    BY <1>1, WalkFacts
  <2> HIDE DEF w
  <2> QED
    BY <2>1 DEF IsWalk
<1>3. /\ e.first \in E
      /\ \A d \in E : LoadedFat[d] = EndOfChain \/ LoadedFat[d] \in Unsaved \/ LoadedFat[d] \in E
  BY DiskExtents, ExtentFacts DEF ClosedIn
<1>4. \A d \in Unsaved : LoadedFat[d] = 0
  BY ClusterSets DEF LoadedFat, Unsaved
<1> HIDE DEF w, E
<1>5. Bad = {}
  <2> SUFFICES ASSUME Bad # {} PROVE FALSE
    OBVIOUS
  <2>1. Bad \in SUBSET Nat
    BY <1>1
  <2>2. PICK k \in Bad : \A x \in Bad : k <= x
    BY <2>1, MinOfNaturals
  <2>3. k # 1
    BY <1>1, <1>2, <1>3, <2>2
  <2>4. k \in 1 .. n /\ k - 1 \in 1 .. n /\ k - 1 \notin Bad
    BY <1>1, <2>2, <2>3
  <2>5. w[k] = NextCluster(LoadedFat, w[k - 1])
    BY <1>2, <2>3, <2>4
  <2>6. w[k - 1] \in E \/ w[k - 1] \notin Stored
    BY <2>4
  <2>7. CASE w[k - 1] \in E /\ w[k - 1] \in Clusters
    <3>1. w[k] = LoadedFat[w[k - 1]]
      BY <2>5, <2>7 DEF NextCluster
    <3> QED
      BY <1>3, <2>2, <2>7, <3>1, ClusterSets DEF Unsaved
  <2>8. CASE w[k - 1] \notin Stored \/ w[k - 1] \notin Clusters
    <3>1. w[k] = 0
      BY <1>4, <2>5, <2>8, ClusterSets DEF NextCluster, Unsaved
    <3> QED
      BY <2>2, <3>1, NotStored
  <2> QED
    BY <2>6, <2>7, <2>8
<1>6. n \in 1 .. n
  BY <1>1
<1> QED
  BY <1>5, <1>6 DEF w

LEMMA Disjoint == TypeInv /\ SafetyInv /\ ContentInv => ChainsDisjoint
<1> SUFFICES ASSUME TypeInv, SafetyInv, ContentInv,
                    NEW g \in HeadsOnDisk \intersect Stored,
                    NEW h \in HeadsOnDisk \intersect Stored, g # h
             PROVE  ClustersFrom(g) \intersect ClustersFrom(h) = {}
  BY DEF ChainsDisjoint
<1>1. \A k \in HeadsOnDisk : \E e \in EntriesOnDisk : e.first = k
  BY OnDiskFacts DEF HeadsOnDisk
<1>2. PICK d \in EntriesOnDisk : d.first = g
  BY <1>1
<1>3. PICK e \in EntriesOnDisk : e.first = h
  BY <1>1
<1>4. Extent(Table, d.first) \intersect Extent(Table, e.first) = {}
  BY <1>2, <1>3, EntriesFacts DEF ContentInv, ExtentsApart, Apart
<1> QED
  BY <1>2, <1>3, <1>4, ClustersInExtent

LEMMA Directories == TypeInv /\ SafetyInv /\ ContentInv => DirectoriesHoldEntries
<1> SUFFICES ASSUME TypeInv, SafetyInv, ContentInv, NEW e \in EntriesOnDisk,
                    IsSubdir(e), OnDiskChain(e.first)
             PROVE  HoldsDirectory(Chain(LoadedFat, e.first))
  BY DEF DirectoriesHoldEntries
<1>1. \A c \in Extent(Table, e.first) : data[c].kind # "file"
  BY DEF ContentInv, TablesHeld, DirectoriesAt, NoFileAt
<1> QED
  BY <1>1, DiskChain DEF HoldsDirectory

\* But for the blocks an erasure may leave, the clusters of a file hold it.
LEMMA Files ==
    ASSUME TypeInv, SafetyInv, ContentInv, NEW e \in EntriesOnDisk, ~e.dir
    PROVE  HoldsFile(e, Erased)
<1> SUFFICES ASSUME OnDiskChain(e.first)
             PROVE  LET s == Chain(LoadedFat, e.first)
                    IN  /\ Len(s) = e.size
                        /\ \A k \in 1 .. Len(s) : data[s[k]] \in {FileBlock(e.size, k)} \union Erased
  BY DEF HoldsFile
<1> DEFINE s == Chain(LoadedFat, e.first)
           E == Extent(Table, e.first)
<1>1. FileAt(Table, data, e.first, e.size)
  BY EntriesFacts DEF ContentInv, FilesHeld, FilesAt
<1>2. /\ (\E c \in E : Table[c] = EndOfChain) => Cardinality(E) = e.size
      /\ \A c \in E : data[c] \in {FileBlock(e.size, PlaceIn(E, c))} \union Erased
  BY <1>1 DEF FileAt
<1>3. /\ \A k \in 1 .. Len(s) : s[k] \in E /\ PlaceIn(E, s[k]) = k
      /\ \E c \in E : Table[c] = EndOfChain
      /\ Cardinality(E) = Len(s)
  BY DiskChain
<1> HIDE DEF s, E
<1>4. \A k \in 1 .. Len(s) : data[s[k]] \in {FileBlock(e.size, k)} \union Erased
  BY <1>2, <1>3
<1> QED
  BY <1>2, <1>3, <1>4 DEF s

\* Two entries on the disk with different first clusters never share a cluster,
\* whatever the commands are and wherever they are interrupted.
THEOREM ChainsNeverShareClusters == Spec => []ChainsDisjoint
<1> QED
  BY Disjoint, ContentInvariant, PTL

\* A directory entry never leads to the bytes of a file, even when the command
\* is interrupted between the directories it writes.
THEOREM DirectoriesNeverHoldFiles == Spec => []DirectoriesHoldEntries
<1> QED
  BY Directories, ContentInvariant, PTL

\* The clusters of a file hold its bytes, in order, or the zeros that an
\* unfinished deletion left.
THEOREM FilesNeverMixed == Spec => []ContentIntactOrErased
<1>1. Erased \subseteq {ZeroBlock}
  BY DEF Erased
<1>2. TypeInv /\ SafetyInv /\ ContentInv => ContentIntactOrErased
  BY <1>1, Files DEF ContentIntactOrErased, HoldsFile
<1> QED
  BY <1>2, ContentInvariant, PTL

\* Where nothing is deleted, the clusters of every file on the disk hold it at
\* every moment.
THEOREM FilesNeverLost ==
    ASSUME \A c \in Commands : c.op # "del"
    PROVE  Spec => []ContentIntact
<1>1. Erased = {}
  BY DEF Erased
<1>2. TypeInv /\ SafetyInv /\ ContentInv => ContentIntact
  BY <1>1, Files DEF ContentIntact
<1> QED
  BY <1>2, ContentInvariant, PTL

-----------------------------------------------------------------------------
(***************************************************************************)
(* Walks in two tables that agree on the clusters of E and on all that the *)
(* disk does not keep.                                                     *)
(***************************************************************************)
AgreeOn(f, g, E) ==
    \A c : c \notin Stored \ E =>
        /\ NextCluster(g, c) = NextCluster(f, c)
        /\ NextCluster(f, c) \notin Stored \ E

LEMMA SameWalks ==
    ASSUME NEW f, NEW g, NEW E, AgreeOn(f, g, E), NEW h, h \notin Stored \ E, NEW n \in Nat
    PROVE  /\ Walk(g, h, n) = Walk(f, h, n)
           /\ \A k \in 1 .. n : Walk(f, h, n)[k] \notin Stored \ E
<1> DEFINE v == Walk(f, h, n)
           w == Walk(g, h, n)
           Bad == {k \in 1 .. n : w[k] # v[k] \/ v[k] \in Stored \ E}
<1>1. /\ v = [k \in 1 .. n |-> IF k = 1 THEN h ELSE NextCluster(f, v[k - 1])]
      /\ w = [k \in 1 .. n |-> IF k = 1 THEN h ELSE NextCluster(g, w[k - 1])]
  <2>1. IsWalk(v, f, h, n) /\ IsWalk(w, g, h, n)
    BY WalkFacts
  <2> QED
    BY <2>1 DEF IsWalk
<1> HIDE DEF v, w
<1>2. Bad = {}
  <2> SUFFICES ASSUME Bad # {} PROVE FALSE
    OBVIOUS
  <2>1. Bad \in SUBSET Nat
    OBVIOUS
  <2> HIDE DEF Bad
  <2>2. PICK k \in Bad : \A x \in Bad : k <= x
    BY <2>1, MinOfNaturals
  <2> USE DEF Bad
  <2>3. k \in 1 .. n /\ k # 1
    BY <1>1, <2>2
  <2>4. k - 1 \in 1 .. n /\ k - 1 \notin Bad
    BY <2>2, <2>3
  <2>5. v[k] = NextCluster(f, v[k - 1]) /\ w[k] = NextCluster(g, w[k - 1])
    BY <1>1, <2>3
  <2>6. w[k - 1] = v[k - 1] /\ v[k - 1] \notin Stored \ E
    BY <2>4
  <2> QED
    BY <2>2, <2>5, <2>6 DEF AgreeOn
<1>3. w = v
  <2>1. v = [k \in 1 .. n |-> v[k]] /\ w = [k \in 1 .. n |-> w[k]]
    BY <1>1
  <2>2. \A k \in 1 .. n : w[k] = v[k]
    BY <1>2
  <2> QED
    BY <2>1, <2>2
<1> QED
  BY <1>2, <1>3 DEF v, w

\* A chain from a cluster of E is the same in both tables, and within E.
LEMMA SameChains ==
    ASSUME NEW f, NEW g, NEW E, AgreeOn(f, g, E), NEW h, h \notin Stored \ E,
           \A c \in Unsaved : f[c] = 0
    PROVE  /\ ChainsFrom(g, h) = ChainsFrom(f, h)
           /\ \A s \in ChainsFrom(f, h) :
                s \in Seq(Clusters) /\ \A k \in 1 .. Len(s) : s[k] \in E
<1>1. Cardinality(Clusters) \in Nat
  BY ClusterSets, FS_CardinalityType
<1>2. ASSUME NEW n \in 1 .. Cardinality(Clusters)
      PROVE  LET s == Walk(f, h, n)
             IN  /\ Walk(g, h, n) = s
                 /\ Len(s) = n /\ n \in Nat \ {0} /\ DOMAIN s = 1 .. n
                 /\ \A k \in 1 .. n : s[k] \notin Stored \ E
                 /\ IsChain(g, s) <=> IsChain(f, s)
  <2> DEFINE s == Walk(f, h, n)
  <2>1. n \in Nat \ {0}
    BY <1>1
  <2>2. Walk(g, h, n) = s /\ \A k \in 1 .. n : s[k] \notin Stored \ E
    BY <2>1, SameWalks
  <2>3. DOMAIN s = 1 .. n /\ Len(s) = n
    BY <2>1 DEF Walk
  <2> HIDE DEF s
  <2>4. ASSUME NEW k \in 1 .. n, s[k] \in Clusters
        PROVE  g[s[k]] = f[s[k]]
    BY <2>2, <2>4 DEF AgreeOn, NextCluster
  <2>5. \A k \in 1 .. n - 1 : k \in 1 .. n
    BY <2>1
  <2>6. n \in 1 .. n
    BY <2>1
  <2>7. IsChain(g, s) <=> IsChain(f, s)
    BY <2>3, <2>4, <2>5, <2>6 DEF IsChain
  <2> QED
    BY <2>1, <2>2, <2>3, <2>7 DEF s
<1>3. ChainsFrom(g, h) = ChainsFrom(f, h)
  BY <1>2 DEF ChainsFrom
<1>4. ASSUME NEW s \in ChainsFrom(f, h)
      PROVE  s \in Seq(Clusters) /\ \A k \in 1 .. Len(s) : s[k] \in E
  <2>1. IsChain(f, s)
    BY DEF ChainsFrom
  <2>2. PICK n \in 1 .. Cardinality(Clusters) : s = Walk(f, h, n)
    BY DEF ChainsFrom
  <2>3. /\ Len(s) = n /\ n \in Nat \ {0} /\ DOMAIN s = 1 .. n
        /\ \A k \in 1 .. n : s[k] \notin Stored \ E
    BY <1>2, <2>2
  <2>4. s = [k \in 1 .. n |-> s[k]]
    BY <2>2 DEF Walk
  <2>5. /\ \A k \in 1 .. n : s[k] \in Clusters
        /\ \A k \in 1 .. n - 1 : f[s[k]] = s[k + 1]
        /\ f[s[n]] = EndOfChain
    BY <2>1, <2>3 DEF IsChain
  <2>6. s \in Seq(Clusters)
    BY <2>3, <2>4, <2>5
  <2>7. ASSUME NEW k \in 1 .. n
        PROVE  s[k] \in Stored
    <3>1. k = n \/ (k \in 1 .. n - 1 /\ k + 1 \in 1 .. n)
      BY <2>3
    <3>2. f[s[k]] # 0
      BY <2>5, <3>1, ClusterSets
    <3> QED
      BY <2>5, <3>2 DEF Unsaved
  <2> QED
    BY <2>3, <2>6, <2>7
<1> QED
  BY <1>3, <1>4

-----------------------------------------------------------------------------
(***************************************************************************)
(* What commands leave alone before they format, erase or write directories.*)
(***************************************************************************)
\* The cluster and the slot in it of entry m of a table in n clusters.
LEMMA SlotPlace ==
    ASSUME NEW n \in Nat, NEW q \in Nat \ {0}, NEW m \in 1 .. n * q
    PROVE  /\ (m - 1) \div q + 1 \in 1 .. n
           /\ ((m - 1) % q) + 1 \in 1 .. q
<1>1. m - 1 \in Nat /\ m - 1 < n * q
  OBVIOUS
<1>2. (m - 1) \div q \in Nat /\ (m - 1) \div q < n
  BY <1>1, SMTT(30)
<1>3. (m - 1) % q \in 0 .. (q - 1)
  BY <1>1
<1> QED
  BY <1>2, <1>3

\* The tables on the disk hold entries on the disk.
LEMMA ReadEntries ==
    ASSUME NEW s \in Seq(Clusters), NEW m \in DOMAIN ReadTable(s)
    PROVE  ReadTable(s)[m] \in EntriesOnDisk
<1> DEFINE k == (m - 1) \div SlotsPerCluster + 1
           i == ((m - 1) % SlotsPerCluster) + 1
<1>1. SlotsPerCluster \in Nat \ {0} /\ Len(s) \in Nat
  BY SlotAssumption
<1>2. m \in 1 .. Len(s) * SlotsPerCluster
  BY DEF ReadTable
<1>3. k \in 1 .. Len(s) /\ i \in 1 .. SlotsPerCluster
  BY <1>1, <1>2, SlotPlace
<1>4. ReadTable(s)[m] = data[s[k]].slots[i]
  BY <1>2 DEF ReadTable
<1> HIDE DEF k, i
<1>5. s[k] \in Clusters
  BY <1>3
<1> QED
  BY <1>3, <1>4, <1>5, OnDiskFacts

LEMMA ReadAgain ==
    ASSUME NEW s \in Seq(Clusters), \A k \in 1 .. Len(s) : data'[s[k]] = data[s[k]]
    PROVE  ReadTable(s)' = ReadTable(s)
<1>1. SlotsPerCluster \in Nat \ {0} /\ Len(s) \in Nat
  BY SlotAssumption
<1>2. ASSUME NEW m \in 1 .. Len(s) * SlotsPerCluster
      PROVE  data'[s[(m - 1) \div SlotsPerCluster + 1]]
                = data[s[(m - 1) \div SlotsPerCluster + 1]]
  <2>1. (m - 1) \div SlotsPerCluster + 1 \in 1 .. Len(s)
    BY <1>1, SlotPlace
  <2> QED
    BY <2>1
<1> QED
  BY <1>2 DEF ReadTable

\* They write no root directory, and to no cluster an entry leads to.
LEMMA EarlyWrites ==
    ASSUME TypeInv, SafetyInv, ContentInv, [Next]_vars, pc \notin {"format", "erase", "dirs"}
    PROVE  /\ root' = root
           /\ \A e \in EntriesOnDisk : \A c \in Extent(Table, e.first) : data'[c] = data[c]
<1> DEFINE size == cmd.files[job].size
<1>1. CASE CreateFile \/ InterruptedInFile
  <2>1. pc = "create" /\ CanAllocate(fat, size) /\ root' = root
    BY <1>1 DEF CreateFile, InterruptedInFile
  <2>2. Working
    BY <2>1 DEF Working, Running
  <2>3. size \in Nat /\ fat \in [Clusters -> FatValues]
    BY <2>1, PutCommand DEF TypeInv, TypeOK, PhaseOK, NoCommand
  <2> DEFINE s == Chain(Allocate(fat, size), AllocatedHead(fat, size))
  <2>4. s \in Seq(Clusters) /\ \A m \in 1 .. Len(s) : s[m] \in FirstFit(fat, size)
    BY <2>1, <2>3, AllocatedChain, ChainType
  <2>5. \A c \in Clusters :
            \/ data'[c] = data[c]
            \/ /\ c \in FirstFit(fat, size)
               /\ \A i \in 1 .. SlotsPerCluster : data'[c].slots[i] = EmptyEntry
    <3>1. CASE CreateFile
      <4>1. data' = StoreFile(s, size)
        BY <3>1 DEF CreateFile
      <4> QED
        BY <2>4, <4>1, FileWrites
    <3>2. CASE InterruptedInFile
      <4>1. PICK k \in 1 .. Len(s) : data' = StoreFile(SubSeq(s, 1, k), size)
        BY <3>2 DEF InterruptedInFile
      <4>2. \A m \in 1 .. Len(SubSeq(s, 1, k)) : SubSeq(s, 1, k)[m] \in FirstFit(fat, size)
        BY <2>4, PrefixOfChain
      <4> QED
        BY <4>1, <4>2, FileWrites
    <3> QED
      BY <1>1, <3>1, <3>2
  <2>6. \A e \in Entries : \A c \in Extent(fat, e.first) : data'[c] = data[c]
    BY <2>1, <2>2, <2>3, <2>5, FreeWrites
  <2> QED
    BY <2>1, <2>2, <2>6, EntriesFacts DEF Table
<1>2. CASE ~ (CreateFile \/ InterruptedInFile)
  <2>1. UNCHANGED <<root, data>>
    <3>1. CASE \E c \in Commands : Start(c) \/ StartCreate(c)
      BY <3>1 DEF Start, StartCreate
    <3>2. CASE Step
      <4>1. CASE ScanDirectory
        BY <4>1 DEF ScanDirectory, ScanEntry, Undefined, disk
      <4>2. CASE CreateFileFails \/ WalkPathFails \/ SoftDelete \/ DeleteRefused \/ MoveRefused
        BY <4>2 DEF CreateFileFails, WalkPathFails, SoftDelete, DeleteRefused, MoveRefused, disk
      <4>3. CASE BeginPut \/ EnterDirectory \/ MakeDirectory \/ FillEntry
        BY <4>3 DEF BeginPut, EnterDirectory, MakeDirectory, FillEntry
      <4>4. CASE BeginDelete \/ VisitEntry \/ SweepDirectory \/ MoveEntry \/ WriteFat
        BY <4>4 DEF BeginDelete, VisitEntry, SweepDirectory, MoveEntry, WriteFat
      <4>5. ~ Format /\ ~ EraseEntry /\ ~ WriteDirectory /\ ~ WriteRoot
        BY DEF Format, EraseEntry, WriteDirectory, WriteRoot
      <4> QED
        BY <1>2, <3>2, <4>1, <4>2, <4>3, <4>4, <4>5 DEF Step
    <3>3. CASE Interrupt
      <4>1. ~ InterruptedInErase /\ ~ InterruptedInDirectory /\ ~ InterruptedInRoot
        BY DEF InterruptedInErase, InterruptedInDirectory, InterruptedInRoot
      <4> QED
        BY <1>2, <3>3, <4>1 DEF Interrupt, InterruptedBetweenWrites, InterruptedInFormat,
           InterruptedInFat, Undefined, disk
    <3> QED
      BY <3>1, <3>2, <3>3 DEF Next, Halted, vars
  <2> QED
    BY <2>1
<1> QED
  BY <1>1, <1>2

\* The chain of every entry on the disk stays, and so does the table it leads to.
LEMMA EarlyChains ==
    ASSUME TypeInv, SafetyInv, ContentInv, [Next]_vars, pc \notin {"format", "erase", "dirs"},
           NEW e \in EntriesOnDisk
    PROVE  /\ ChainsFrom(LoadedFat', e.first) = ChainsFrom(LoadedFat, e.first)
           /\ \A s \in ChainsFrom(LoadedFat, e.first) :
                s \in Seq(Clusters) /\ ReadTable(s)' = ReadTable(s)
<1> DEFINE f == LoadedFat
           g == LoadedFat'
           h == e.first
           E == Extent(f, h)
<1>1. Below(fats[1], fats'[1])
  BY NextGrows, FirstCopy DEF Below
<1>2. Anchored(f, h) /\ E = Extent(Table, h)
  BY DiskExtents
<1>3. /\ f = [c \in Clusters |-> IF c \in Stored THEN fats[1][c] ELSE 0]
      /\ g = [c \in Clusters |-> IF c \in Stored THEN fats'[1][c] ELSE 0]
  BY DEF LoadedFat
<1>4. /\ E \in SUBSET Stored
      /\ h \in Stored => h \in E
      /\ ClosedIn(f, E)
      /\ \A c \in E : f[c] # 0
  BY <1>2, ExtentFacts
<1> HIDE DEF f, g, E
<1>5. \A c \in Unsaved : f[c] = 0 /\ g[c] = 0
  BY <1>3, ClusterSets DEF Unsaved
<1>6. \A c \in E : g[c] = f[c]
  BY <1>1, <1>3, <1>4, ClusterSets DEF Below
<1>7. AgreeOn(f, g, E)
  <2> SUFFICES ASSUME NEW c, c \notin Stored \ E
               PROVE  NextCluster(g, c) = NextCluster(f, c) /\ NextCluster(f, c) \notin Stored \ E
    BY DEF AgreeOn
  <2>1. CASE c \in E
    <3>1. c \in Clusters
      BY <1>4, <2>1, ClusterSets
    <3>2. f[c] = EndOfChain \/ f[c] \in Unsaved \/ f[c] \in E
      BY <1>4, <2>1 DEF ClosedIn
    <3> QED
      BY <1>6, <2>1, <3>1, <3>2, ClusterSets DEF NextCluster, Unsaved
  <2>2. CASE c \notin E
    <3>1. NextCluster(g, c) = 0 /\ NextCluster(f, c) = 0
      BY <1>5, <2>2 DEF NextCluster, Unsaved
    <3> QED
      BY <3>1, NotStored
  <2> QED
    BY <2>1, <2>2
<1>8. h \notin Stored \ E
  BY <1>4
<1>9. /\ ChainsFrom(g, h) = ChainsFrom(f, h)
       /\ \A s \in ChainsFrom(f, h) :
            s \in Seq(Clusters) /\ \A k \in 1 .. Len(s) : s[k] \in E
  BY <1>5, <1>7, <1>8, SameChains
<1>10. \A c \in E : data'[c] = data[c]
  BY <1>2, EarlyWrites
<1>11. \A s \in ChainsFrom(f, h) : ReadTable(s)' = ReadTable(s)
  BY <1>9, <1>10, ReadAgain
<1> QED
  BY <1>9, <1>11 DEF f, g

-----------------------------------------------------------------------------
(***************************************************************************)
(* The tables that names lead to, level by level.                          *)
(***************************************************************************)
Top == [path |-> <<>>, table |-> root, above |-> {}]

\* w[n] are the tables within n names of the root directory.
IsWithin(w) ==
    w = [n \in 0 .. Cardinality(Stored) |->
            {Top} \union IF n = 0 THEN {} ELSE UNION {TablesIn(t) : t \in w[n - 1]}]

\* A table of entries on the disk.
OfDisk(t) == \A i \in DOMAIN t.table : t.table[i] \in EntriesOnDisk

\* One level of tables stays what it is.
LEMMA EarlyTables ==
    ASSUME TypeInv, SafetyInv, ContentInv, [Next]_vars, pc \notin {"format", "erase", "dirs"},
           NEW t, OfDisk(t)
    PROVE  /\ TablesIn(t)' = TablesIn(t)
           /\ \A u \in TablesIn(t) : OfDisk(u)
<1> DEFINE Led == {e \in {t.table[i] : i \in DOMAIN t.table} : IsSubdir(e) /\ e.first \notin t.above}
           Found(e, s) == [path |-> Append(t.path, e.name), table |-> ReadTable(s),
                           above |-> t.above \union {e.first}]
           FoundNext(e, s) == [path |-> Append(t.path, e.name), table |-> ReadTable(s)',
                               above |-> t.above \union {e.first}]
           Now(e) == {Found(e, s) : s \in ChainsFrom(LoadedFat, e.first)}
           Later(e) == {FoundNext(e, s) : s \in ChainsFrom(LoadedFat', e.first)}
<1>1. TablesIn(t) = UNION {Now(e) : e \in Led} /\ TablesIn(t)' = UNION {Later(e) : e \in Led}
  BY DEF TablesIn
<1>2. ASSUME NEW e \in Led
      PROVE  /\ ChainsFrom(LoadedFat', e.first) = ChainsFrom(LoadedFat, e.first)
             /\ \A s \in ChainsFrom(LoadedFat, e.first) :
                    s \in Seq(Clusters) /\ FoundNext(e, s) = Found(e, s)
  <2>1. e \in EntriesOnDisk
    BY DEF OfDisk
  <2> QED
    BY <2>1, EarlyChains
<1>3. TablesIn(t)' = TablesIn(t)
  <2>1. \A e \in Led : Later(e) = Now(e)
    <3> HIDE DEF Led, Found, FoundNext
    <3> QED
      BY <1>2
  <2> HIDE DEF Led, Now, Later
  <2>2. {Later(e) : e \in Led} = {Now(e) : e \in Led}
    BY <2>1
  <2> QED
    BY <1>1, <2>2
<1>4. ASSUME NEW u \in TablesIn(t)
      PROVE  OfDisk(u)
  <2>1. PICK e \in Led : \E s \in ChainsFrom(LoadedFat, e.first) : u = Found(e, s)
    BY <1>1
  <2>2. PICK s \in ChainsFrom(LoadedFat, e.first) : u = Found(e, s)
    BY <2>1
  <2>3. s \in Seq(Clusters) /\ u.table = ReadTable(s)
    BY <1>2, <2>2
  <2> QED
    BY <2>3, ReadEntries DEF OfDisk
<1> QED
  BY <1>3, <1>4

\* And so do all levels, whichever way they are computed.
LEMMA EarlyLevels ==
    ASSUME TypeInv, SafetyInv, ContentInv, [Next]_vars, pc \notin {"format", "erase", "dirs"},
           NEW w
    PROVE  IsWithin(w)' <=> IsWithin(w)
<1> DEFINE N == Cardinality(Stored)
           Level(n) == {Top} \union IF n = 0 THEN {} ELSE UNION {TablesIn(t) : t \in w[n - 1]}
           LevelNext(n) == {Top'} \union IF n = 0 THEN {} ELSE UNION {TablesIn(t)' : t \in w[n - 1]}
<1>1. N \in Nat
  BY ClusterSets, FS_Subset, FS_CardinalityType
<1>2. Top' = Top /\ OfDisk(Top)
  BY EarlyWrites, OnDiskFacts DEF Top, OfDisk
<1>3. /\ IsWithin(w) <=> w = [n \in 0 .. N |-> Level(n)]
      /\ IsWithin(w)' <=> w = [n \in 0 .. N |-> LevelNext(n)]
  BY DEF IsWithin
<1>4. ASSUME NEW n \in 0 .. N, n # 0 => \A t \in w[n - 1] : OfDisk(t)
      PROVE  LevelNext(n) = Level(n) /\ \A t \in Level(n) : OfDisk(t)
  <2>1. CASE n = 0
    BY <1>2, <2>1
  <2>2. CASE n # 0
    <3>1. \A t \in w[n - 1] : TablesIn(t)' = TablesIn(t) /\ \A u \in TablesIn(t) : OfDisk(u)
      BY <1>4, <2>2, EarlyTables
    <3>2. {TablesIn(t)' : t \in w[n - 1]} = {TablesIn(t) : t \in w[n - 1]}
      BY <3>1
    <3> QED
      BY <1>2, <2>2, <3>1, <3>2
  <2> QED
    BY <2>1, <2>2
<1> HIDE DEF Level, LevelNext, N
<1>5. ASSUME \A n \in 0 .. N : w[n] = Level(n) \/ w[n] = LevelNext(n)
      PROVE  \A n \in 0 .. N : LevelNext(n) = Level(n)
  <2> DEFINE Bad == {n \in 0 .. N : ~ \A t \in w[n] : OfDisk(t)}
  <2>1. Bad = {}
    <3> SUFFICES ASSUME Bad # {} PROVE FALSE
      OBVIOUS
    <3>1. Bad \in SUBSET Nat
      OBVIOUS
    <3> HIDE DEF Bad
    <3>2. PICK n \in Bad : \A x \in Bad : n <= x
      BY <3>1, MinOfNaturals
    <3> USE DEF Bad
    <3>3. n \in 0 .. N /\ (n # 0 => n - 1 \in 0 .. N /\ n - 1 \notin Bad)
      BY <1>1, <3>2
    <3>4. n # 0 => \A t \in w[n - 1] : OfDisk(t)
      BY <3>3
    <3> QED
      BY <1>4, <1>5, <3>2, <3>3, <3>4
  <2>2. \A n \in 0 .. N : n # 0 => n - 1 \in 0 .. N
    BY <1>1
  <2> QED
    BY <1>4, <2>1, <2>2
<1>6. ASSUME IsWithin(w) \/ IsWithin(w)'
      PROVE  \A n \in 0 .. N : w[n] = Level(n) \/ w[n] = LevelNext(n)
  BY <1>3, <1>6
<1>7. ASSUME \A n \in 0 .. N : LevelNext(n) = Level(n)
      PROVE  [n \in 0 .. N |-> LevelNext(n)] = [n \in 0 .. N |-> Level(n)]
  BY <1>7
<1> QED
  BY <1>3, <1>5, <1>6, <1>7

\* Nothing that a reader can see has changed.
LEMMA EarlyTree ==
    ASSUME TypeInv, SafetyInv, ContentInv, [Next]_vars, pc \notin {"format", "erase", "dirs"}
    PROVE  DiskTree' = DiskTree
<1>1. (CHOOSE w : IsWithin(w)') = (CHOOSE w : IsWithin(w))
  BY EarlyLevels, Zenon
<1>2. /\ DiskTables = (CHOOSE w : IsWithin(w))[Cardinality(Stored)]
      /\ DiskTables' = (CHOOSE w : IsWithin(w)')[Cardinality(Stored)]
  BY Zenon DEF DiskTables, IsWithin, Top
<1>3. DiskTables' = DiskTables
  BY <1>1, <1>2
<1> QED
  BY <1>3 DEF DiskTree, DiskEntries

\* A put or a move that fails, or is interrupted before it writes a directory, has
\* changed nothing that a reader of the image can see, and neither has a deletion
\* that has not erased anything yet.
THEOREM TreesChangeLate == Spec => TreeChangesLate
<1>1. TypeInv /\ SafetyInv /\ ContentInv /\ [Next]_vars
        => [\/ pc = "dirs"
            \/ pc = "format" /\ cmd.op = "create"
            \/ pc = "erase" /\ cmd.op = "del"
            \/ DiskTree' = DiskTree]_vars
  <2> SUFFICES ASSUME TypeInv, SafetyInv, ContentInv, [Next]_vars,
                      pc \notin {"format", "erase", "dirs"}
               PROVE  DiskTree' = DiskTree
    BY DEF TypeInv, PhaseOK, ContentInv, PhasesSet
  <2> QED
    BY EarlyTree
<1> QED
  BY <1>1, ContentInvariant, PTL DEF Spec, TreeChangesLate

-----------------------------------------------------------------------------
(***************************************************************************)
(* What a reader finds, from the tables it finds.                          *)
(***************************************************************************)
Levels(w, m) ==
    w = [n \in 0 .. m |-> {Top} \union IF n = 0 THEN {} ELSE UNION {TablesIn(t) : t \in w[n - 1]}]

LEMMA LevelsExist ==
    ASSUME NEW m \in Nat
    PROVE  \E w : Levels(w, m)
<1> DEFINE Bad == {n \in Nat : ~ \E w : Levels(w, n)}
<1>1. SUFFICES ASSUME Bad # {} PROVE FALSE
  OBVIOUS
<1>2. PICK n \in Bad : \A x \in Bad : n <= x
  BY <1>1, MinOfNaturals
<1>3. Levels([k \in 0 .. 0 |-> {Top}], 0)
  BY DEF Levels
<1>4. n # 0 /\ n - 1 \in Nat /\ n - 1 \notin Bad
  BY <1>2, <1>3
<1>5. PICK w : Levels(w, n - 1)
  BY <1>4
<1> DEFINE Level(u, k) == {Top} \union IF k = 0 THEN {} ELSE UNION {TablesIn(t) : t \in u[k - 1]}
           v == [k \in 0 .. n |-> IF k < n THEN w[k] ELSE Level(w, n)]
<1>6. \A k \in 0 .. n - 1 : w[k] = Level(w, k)
  BY <1>5 DEF Levels
<1>7. ASSUME NEW k \in 0 .. n
      PROVE  v[k] = Level(v, k)
  <2>1. v[k] = Level(w, k)
    BY <1>4, <1>6
  <2>2. k # 0 => v[k - 1] = w[k - 1]
    BY <1>4
  <2> HIDE DEF v
  <2> QED
    BY <2>1, <2>2
<1>8. v = [k \in 0 .. n |-> Level(v, k)]
  <2> HIDE DEF Level
  <2>1. v = [k \in 0 .. n |-> v[k]]
    OBVIOUS
  <2> HIDE DEF v
  <2> QED
    BY <1>7, <2>1
<1>9. Levels(v, n)
  <2> HIDE DEF v
  <2> QED
    BY <1>8 DEF Levels
<1> QED
  BY <1>2, <1>9

\* The levels that DiskTables goes through.
LEMMA LevelFacts ==
    \E w :
        /\ DiskTables = w[Cardinality(Stored)]
        /\ w[0] = {Top}
        /\ \A n \in 1 .. Cardinality(Stored) :
                w[n] = {Top} \union UNION {TablesIn(t) : t \in w[n - 1]}
<1> DEFINE N == Cardinality(Stored)
           w == CHOOSE v : IsWithin(v)
<1>1. N \in Nat
  BY ClusterSets, FS_Subset, FS_CardinalityType
<1>2. PICK v : Levels(v, N)
  BY <1>1, LevelsExist
<1>3. IsWithin(v)
  BY <1>2 DEF Levels, IsWithin
<1>4. IsWithin(w)
  BY <1>3
<1>5. DiskTables = w[N]
  BY Zenon DEF DiskTables, IsWithin, Top
<1> HIDE DEF w
<1>6. \A n \in 0 .. N : w[n] = {Top} \union IF n = 0 THEN {} ELSE UNION {TablesIn(t) : t \in w[n - 1]}
  BY <1>4 DEF IsWithin
<1> QED
  BY <1>1, <1>5, <1>6

\* A set of entries that holds those of the root directory and, with an entry, those
\* of the table it leads to, holds all that a reader can find.
LEMMA AllKnown ==
    ASSUME NEW E,
           \A i \in DOMAIN root : root[i] \in E,
           \A e \in E : IsSubdir(e) =>
                \A s \in ChainsFrom(LoadedFat, e.first) :
                    \A m \in DOMAIN ReadTable(s) : ReadTable(s)[m] \in E
    PROVE  \A e \in DiskEntries : e.entry \in E
<1> DEFINE N == Cardinality(Stored)
           Ok(t) == \A i \in DOMAIN t.table : t.table[i] \in E
<1>1. N \in Nat
  BY ClusterSets, FS_Subset, FS_CardinalityType
<1>2. PICK w :
        /\ DiskTables = w[N]
        /\ w[0] = {Top}
        /\ \A n \in 1 .. N : w[n] = {Top} \union UNION {TablesIn(t) : t \in w[n - 1]}
  BY LevelFacts
<1>3. Ok(Top)
  BY DEF Top
<1>4. ASSUME NEW t, Ok(t), NEW u \in TablesIn(t)
      PROVE  Ok(u)
  <2>1. PICK e \in {t.table[i] : i \in DOMAIN t.table} :
            /\ IsSubdir(e)
            /\ \E s \in ChainsFrom(LoadedFat, e.first) :
                u = [path |-> Append(t.path, e.name), table |-> ReadTable(s),
                     above |-> t.above \union {e.first}]
    BY DEF TablesIn
  <2>2. PICK s \in ChainsFrom(LoadedFat, e.first) : u.table = ReadTable(s)
    BY <2>1
  <2>3. e \in E
    BY <1>4
  <2> QED
    BY <2>1, <2>2, <2>3
<1> DEFINE Bad == {n \in 0 .. N : ~ \A t \in w[n] : Ok(t)}
<1>5. Bad = {}
  <2> SUFFICES ASSUME Bad # {} PROVE FALSE
    OBVIOUS
  <2>1. Bad \in SUBSET Nat
    OBVIOUS
  <2> HIDE DEF Bad
  <2>2. PICK n \in Bad : \A x \in Bad : n <= x
    BY <2>1, MinOfNaturals
  <2> USE DEF Bad
  <2> HIDE DEF Ok
  <2>3. n \in 1 .. N /\ n - 1 \in 0 .. N /\ n - 1 \notin Bad
    BY <1>1, <1>2, <1>3, <2>2
  <2> QED
    BY <1>2, <1>3, <1>4, <2>2, <2>3
<1>6. \A t \in DiskTables : Ok(t)
  BY <1>1, <1>2, <1>5
<1> HIDE DEF Ok
<1>7. ASSUME NEW e \in DiskEntries
      PROVE  e.entry \in E
  <2>1. PICK t \in DiskTables : \E i \in Victims(t.table) :
            e = [path |-> Append(t.path, t.table[i].name), entry |-> t.table[i]]
    BY DEF DiskEntries
  <2>2. PICK i \in DOMAIN t.table : e.entry = t.table[i]
    BY <2>1 DEF Victims
  <2> QED
    BY <1>6, <2>2 DEF Ok
<1> QED
  BY <1>7

\* No cluster starts two chains.
LEMMA OneChain ==
    ASSUME NEW f, NEW h, NEW s \in ChainsFrom(f, h)
    PROVE  s = Chain(f, h)
<1> DEFINE K == Cardinality(Clusters)
<1>1. K \in Nat
  BY ClusterSets, FS_CardinalityType
<1>2. ASSUME NEW x \in ChainsFrom(f, h)
      PROVE  /\ Len(x) \in Nat \ {0} /\ x = [k \in 1 .. Len(x) |-> x[k]]
             /\ x[1] = h
             /\ \A k \in 1 .. Len(x) : x[k] \in Clusters
             /\ \A k \in 1 .. Len(x) - 1 : f[x[k]] = x[k + 1]
             /\ f[x[Len(x)]] = EndOfChain
  <2>1. PICK n \in 1 .. K : x = Walk(f, h, n)
    BY DEF ChainsFrom
  <2>2. n \in Nat \ {0}
    BY <1>1
  <2>3. x = [k \in 1 .. n |-> x[k]] /\ Len(x) = n
    BY <2>1, <2>2 DEF Walk
  <2>4. x = [k \in 1 .. n |-> IF k = 1 THEN h ELSE NextCluster(f, x[k - 1])]
    BY <2>1, <2>2, WalkFacts DEF IsWalk
  <2>5. x[1] = h
    BY <2>2, <2>4
  <2>6. IsChain(f, x)
    BY DEF ChainsFrom
  <2> QED
    BY <2>2, <2>3, <2>5, <2>6 DEF IsChain
<1>3. ASSUME NEW x \in ChainsFrom(f, h), NEW y \in ChainsFrom(f, h), Len(x) <= Len(y)
      PROVE  x = y
  <2>1. /\ Len(x) \in Nat \ {0} /\ x = [k \in 1 .. Len(x) |-> x[k]]
        /\ x[1] = h /\ \A k \in 1 .. Len(x) - 1 : f[x[k]] = x[k + 1]
        /\ f[x[Len(x)]] = EndOfChain
    BY <1>2
  <2>2. /\ Len(y) \in Nat \ {0} /\ y = [k \in 1 .. Len(y) |-> y[k]]
        /\ y[1] = h /\ \A k \in 1 .. Len(y) - 1 : f[y[k]] = y[k + 1]
        /\ \A k \in 1 .. Len(y) : y[k] \in Clusters
    BY <1>2
  <2> DEFINE Bad == {k \in 1 .. Len(x) : x[k] # y[k]}
  <2>3. Bad = {}
    <3> SUFFICES ASSUME Bad # {} PROVE FALSE
      OBVIOUS
    <3>1. Bad \in SUBSET Nat
      BY <2>1
    <3> HIDE DEF Bad
    <3>2. PICK k \in Bad : \A z \in Bad : k <= z
      BY <3>1, MinOfNaturals
    <3> USE DEF Bad
    <3>3. k \in 1 .. Len(x) /\ k # 1
      BY <2>1, <2>2, <3>2
    <3>4. /\ k - 1 \in 1 .. Len(x) - 1 /\ k - 1 \in 1 .. Len(y) - 1 /\ k - 1 \notin Bad
          /\ (k - 1) + 1 = k /\ k - 1 \in 1 .. Len(x)
      BY <1>3, <2>1, <2>2, <3>2, <3>3
    <3>5. x[k - 1] = y[k - 1] /\ x[k] = f[x[k - 1]] /\ y[k] = f[y[k - 1]]
      BY <2>1, <2>2, <3>4
    <3> QED
      BY <3>2, <3>5
  <2>4. Len(x) = Len(y)
    <3> SUFFICES ASSUME Len(x) < Len(y) PROVE FALSE
      <4>1. \A m, n \in Nat : m <= n => m = n \/ m < n
        OBVIOUS
      <4> QED
        BY <1>3, <2>1, <2>2, <4>1
    <3>1. /\ Len(x) \in 1 .. Len(y) - 1 /\ Len(x) + 1 \in 1 .. Len(y)
          /\ Len(x) \in 1 .. Len(x)
      BY <2>1, <2>2
    <3>2. y[Len(x) + 1] = EndOfChain
      BY <2>1, <2>2, <2>3, <3>1
    <3> QED
      BY <2>2, <3>1, <3>2, ClusterSets
  <2> QED
    BY <2>1, <2>2, <2>3, <2>4
<1>4. Chain(f, h) \in ChainsFrom(f, h)
  BY DEF Chain
<1>5. Len(s) \in Nat /\ Len(Chain(f, h)) \in Nat
  BY <1>2, <1>4
<1>6. Len(s) <= Len(Chain(f, h)) \/ Len(Chain(f, h)) <= Len(s)
  BY <1>5
<1> QED
  BY <1>3, <1>4, <1>6

-----------------------------------------------------------------------------
\* The first clusters of the entries of some tables.
HeadsIn(tables) ==
    UNION {{tables[p][k].first : k \in Victims(tables[p])} : p \in DOMAIN tables}

\* A disk whose directories hold nothing but entries from the memory of the command
\* leads to nothing else.
LEMMA HeadsKnown ==
    ASSUME TypeInv, TreeInv, TablesComplete,
           \A p \in DOMAIN tabs : \A k \in DOMAIN FoundAt(p) :
                \/ FoundAt(p)[k] = EmptyEntry
                \/ \E q \in DOMAIN tabs : \E m \in DOMAIN tabs[q] : FoundAt(p)[k] = tabs[q][m]
    PROVE  ReachableHeads \subseteq HeadsIn(tabs)
<1> DEFINE E == {EmptyEntry} \union UNION {{tabs[q][m] : m \in DOMAIN tabs[q]} : q \in DOMAIN tabs}
<1>1. \A e : e \in E <=> e = EmptyEntry \/ \E q \in DOMAIN tabs : \E m \in DOMAIN tabs[q] : e = tabs[q][m]
  OBVIOUS
<1> HIDE DEF E
<1>2. \A p \in DOMAIN tabs : \A k \in DOMAIN FoundAt(p) : FoundAt(p)[k] \in E
  BY <1>1
<1>3. \A i \in DOMAIN root : root[i] \in E
  BY <1>2, TabsTypes DEF FoundAt
<1>4. ASSUME NEW e \in E, IsSubdir(e), NEW s \in ChainsFrom(LoadedFat, e.first),
             NEW m \in DOMAIN ReadTable(s)
      PROVE  ReadTable(s)[m] \in E
  <2>1. ~ IsSubdir(EmptyEntry)
    BY EntryTypes
  <2>2. PICK q \in DOMAIN tabs : \E k \in DOMAIN tabs[q] : e = tabs[q][k]
    BY <1>1, <1>4, <2>1
  <2>3. PICK k \in DOMAIN tabs[q] : e = tabs[q][k]
    BY <2>2
  <2> DEFINE p == Append(q, k)
  <2>4. q \in Seq(Nat) /\ k \in Nat
    BY TabsTypes
  <2>5. p \in DOMAIN tabs
    BY <1>4, <2>3 DEF TablesComplete
  <2>6. p # <<>> /\ Front(p) = q /\ Last(p) = k
    BY <2>4, AppendFacts, AppendEnds
  <2> HIDE DEF p
  <2>7. HeadOf(p) = e.first
    BY <2>3, <2>6 DEF HeadOf
  <2>8. s = Chain(LoadedFat, e.first)
    BY OneChain
  <2>9. FoundAt(p) = ReadTable(s)
    BY <2>6, <2>7, <2>8 DEF FoundAt
  <2> QED
    BY <1>2, <2>5, <2>9
<1>5. \A e \in DiskEntries : e.entry \in E
  <2>1. \A e \in E : IsSubdir(e) =>
            \A s \in ChainsFrom(LoadedFat, e.first) :
                \A m \in DOMAIN ReadTable(s) : ReadTable(s)[m] \in E
    BY <1>4
  <2> QED
    BY <1>3, <2>1, AllKnown
<1>6. ASSUME NEW e \in DiskEntries
      PROVE  e.entry.first \in HeadsIn(tabs)
  <2>1. PICK t \in DiskTables : \E i \in Victims(t.table) :
            e = [path |-> Append(t.path, t.table[i].name), entry |-> t.table[i]]
    BY DEF DiskEntries
  <2>2. ~ IsEmpty(e.entry) /\ ~ IsDotDir(e.entry)
    BY <2>1 DEF Victims
  <2>3. e.entry # EmptyEntry
    BY <2>2 DEF IsEmpty, EmptyEntry
  <2>4. PICK q \in DOMAIN tabs : \E m \in DOMAIN tabs[q] : e.entry = tabs[q][m]
    BY <1>1, <1>5, <2>3
  <2>5. PICK m \in DOMAIN tabs[q] : e.entry = tabs[q][m]
    BY <2>4
  <2>6. m \in Victims(tabs[q])
    BY <2>2, <2>5 DEF Victims
  <2> QED
    BY <2>5, <2>6 DEF HeadsIn
<1> QED
  BY <1>6 DEF ReachableHeads

\* The directory that the slots p lead to in some tables, as a reader finds it.
HeadIn(tables, p) == tables[Front(p)][Last(p)].first

Shown(tables, p) ==
    IF p = <<>> THEN root ELSE ReadTable(Chain(LoadedFat, HeadIn(tables, p)))

\* The disk holds these tables, in directories of their own.
Shows(tables) ==
    /\ DOMAIN tables \subseteq Seq(Nat)
    /\ <<>> \in DOMAIN tables
    /\ \A p \in DOMAIN tables \ {<<>>} :
        /\ Front(p) \in DOMAIN tables /\ Last(p) \in DOMAIN tables[Front(p)]
        /\ IsSubdir(tables[Front(p)][Last(p)])
        /\ OnDiskChain(HeadIn(tables, p))
    /\ \A p, q \in DOMAIN tables \ {<<>>} : HeadIn(tables, p) = HeadIn(tables, q) => p = q
    /\ \A p \in DOMAIN tables : \A k \in DOMAIN tables[p] :
        ~ IsEmpty(tables[p][k]) =>
            k \in DOMAIN Shown(tables, p) /\ Shown(tables, p)[k] = tables[p][k]

\* The chain of an entry starts on the disk.
LEMMA ChainStored ==
    ASSUME NEW h, OnDiskChain(h)
    PROVE  h \in Stored
<1>1. HasChain(LoadedFat, h)
  BY DEF OnDiskChain
<1> DEFINE s == Chain(LoadedFat, h)
<1>2. /\ s \in Seq(Clusters) /\ Len(s) \in Nat \ {0} /\ s[1] = h
      /\ \A k \in 1 .. Len(s) - 1 : LoadedFat[s[k]] = s[k + 1]
      /\ LoadedFat[s[Len(s)]] = EndOfChain
  BY <1>1, ChainFacts
<1> HIDE DEF s
<1>3. LoadedFat[h] \in Clusters \union {EndOfChain} /\ h \in Clusters
  <2>1. 1 \in 1 .. Len(s) /\ (Len(s) = 1 \/ (1 \in 1 .. Len(s) - 1 /\ 1 + 1 \in 1 .. Len(s)))
    <3>1. \A n \in Nat \ {0} : 1 \in 1 .. n /\ (n = 1 \/ (1 \in 1 .. n - 1 /\ 1 + 1 \in 1 .. n))
      OBVIOUS
    <3> QED
      BY <1>2, <3>1
  <2>2. \A k \in 1 .. Len(s) : s[k] \in Clusters
    BY <1>2
  <2> QED
    BY <1>2, <2>1, <2>2
<1> QED
  BY <1>3, ClusterSets DEF LoadedFat

\* Directories of their own are fewer than clusters, however deep.
LEMMA NotDeep ==
    ASSUME NEW tables, Shows(tables)
    PROVE  \A p \in DOMAIN tables : Len(p) <= Cardinality(Stored)
<1> DEFINE Dirs(n) == {p \in DOMAIN tables \ {<<>>} : Len(p) <= n}
           Heads(n) == {HeadIn(tables, p) : p \in Dirs(n)}
           Many(p) == \E S \in SUBSET Stored : S \subseteq Heads(Len(p)) /\ Cardinality(S) = Len(p)
           Bad == {p \in DOMAIN tables : ~ Many(p)}
           Lengths == {Len(p) : p \in Bad}
<1>1. \A p \in DOMAIN tables : p \in Seq(Nat) /\ Len(p) \in Nat
  BY DEF Shows
<1>2. IsFiniteSet(Stored) /\ Cardinality(Stored) \in Nat
  BY ClusterSets, FS_Subset, FS_CardinalityType
<1>3. Bad = {}
  <2> SUFFICES ASSUME Bad # {} PROVE FALSE
    OBVIOUS
  <2>1. Lengths \in SUBSET Nat /\ Lengths # {}
    BY <1>1
  <2>2. Min(Lengths) \in Lengths /\ \A x \in Lengths : Min(Lengths) <= x
    BY <2>1, MinOfNaturals
  <2>3. PICK p \in Bad : \A q \in Bad : Len(p) <= Len(q)
    BY <2>2
  <2> HIDE DEF Lengths, Many
  <2>4. p \in DOMAIN tables /\ p \in Seq(Nat) /\ Len(p) \in Nat
    BY <1>1, <2>3
  <2>5. p # <<>>
    <3>1. Cardinality({}) = 0 /\ Len(<<>>) = 0
      BY FS_EmptySet
    <3>2. Many(<<>>)
      BY <3>1 DEF Many
    <3> QED
      BY <2>3, <3>2
  <2> DEFINE q == Front(p)
             h == HeadIn(tables, p)
  <2>6. /\ q \in DOMAIN tables /\ Len(q) = Len(p) - 1 /\ Len(q) \in Nat
        /\ h \in Stored
    <3>1. Front(p) \in DOMAIN tables /\ OnDiskChain(HeadIn(tables, p))
      BY <2>4, <2>5 DEF Shows
    <3> QED
      BY <1>1, <2>4, <2>5, <3>1, FrontLast, ChainStored
  <2>7. Many(q)
    BY <2>3, <2>4, <2>6
  <2> HIDE DEF q, Bad, Heads
  <2>8. PICK S \in SUBSET Stored : S \subseteq Heads(Len(q)) /\ Cardinality(S) = Len(q)
    BY <2>7 DEF Many
  <2>9. h \notin S
    <3> SUFFICES ASSUME h \in Heads(Len(q)) PROVE FALSE
      BY <2>8
    <3>1. PICK r \in Dirs(Len(q)) : h = HeadIn(tables, r)
      BY DEF Heads
    <3>2. r = p
      BY <2>4, <2>5, <3>1 DEF Shows
    <3> QED
      BY <2>4, <2>6, <3>2
  <2>10. h \in Heads(Len(p)) /\ Heads(Len(q)) \subseteq Heads(Len(p))
    <3>1. p \in Dirs(Len(p))
      BY <2>4, <2>5
    <3>2. \A r \in Dirs(Len(q)) : r \in Dirs(Len(p))
      BY <1>1, <2>4, <2>6
    <3> HIDE DEF Dirs
    <3> QED
      BY <3>1, <3>2 DEF Heads
  <2>11. Cardinality(S \union {h}) = Len(p)
    <3>1. IsFiniteSet(S)
      BY <1>2, FS_Subset
    <3>2. Cardinality(S \union {h}) = Cardinality(S) + 1
      BY <2>9, <3>1, FS_AddElement
    <3> QED
      BY <2>4, <2>6, <2>8, <3>2
  <2>12. Many(p)
    <3>1. S \union {h} \in SUBSET Stored /\ S \union {h} \subseteq Heads(Len(p))
      BY <2>6, <2>8, <2>10
    <3> HIDE DEF h
    <3> QED
      BY <2>11, <3>1 DEF Many
  <2> QED
    BY <2>3, <2>12 DEF Bad
<1>4. ASSUME NEW p \in DOMAIN tables
      PROVE  Len(p) <= Cardinality(Stored)
  <2>1. PICK S \in SUBSET Stored : Cardinality(S) = Len(p)
    BY <1>3
  <2> QED
    BY <1>2, <2>1, FS_Subset
<1> QED
  BY <1>4

\* A reader finds all of these tables, and so every entry in them.
LEMMA AllShown ==
    \A tables : Shows(tables) => HeadsIn(tables) \subseteq ReachableHeads
<1> SUFFICES ASSUME NEW tables, Shows(tables)
             PROVE  HeadsIn(tables) \subseteq ReachableHeads
  OBVIOUS
<1> DEFINE N == Cardinality(Stored)
           Dirs(n) == {p \in DOMAIN tables \ {<<>>} : Len(p) <= n}
           Heads(n) == {HeadIn(tables, p) : p \in Dirs(n)}
<1>1. N \in Nat
  BY ClusterSets, FS_Subset, FS_CardinalityType
<1>2. \A p \in DOMAIN tables : p \in Seq(Nat) /\ Len(p) \in Nat /\ Len(p) <= N
  BY NotDeep DEF Shows
<1>3. PICK w :
        /\ DiskTables = w[N]
        /\ w[0] = {Top}
        /\ \A n \in 1 .. N : w[n] = {Top} \union UNION {TablesIn(t) : t \in w[n - 1]}
  BY LevelFacts
<1>4. \A n \in 0 .. N : Top \in w[n]
  <2>1. \A n \in 0 .. N : n = 0 \/ n \in 1 .. N
    BY <1>1
  <2> QED
    BY <1>3, <2>1
<1> DEFINE Found(p, t) == t.table = Shown(tables, p) /\ t.above \subseteq Heads(Len(p))
           Ok(p) == \A n \in Len(p) .. N : \E t \in w[n] : Found(p, t)
           Bad == {p \in DOMAIN tables : ~ Ok(p)}
           Lengths == {Len(p) : p \in Bad}
<1>5. Bad = {}
  <2> SUFFICES ASSUME Bad # {} PROVE FALSE
    OBVIOUS
  <2>1. Lengths \in SUBSET Nat /\ Lengths # {}
    BY <1>2
  <2>2. Min(Lengths) \in Lengths /\ \A x \in Lengths : Min(Lengths) <= x
    BY <2>1, MinOfNaturals
  <2>3. PICK p \in Bad : \A q \in Bad : Len(p) <= Len(q)
    BY <2>2
  <2> HIDE DEF Lengths, Ok
  <2>4. p \in DOMAIN tables /\ p \in Seq(Nat) /\ Len(p) \in Nat
    BY <1>2, <2>3
  <2>5. p # <<>>
    <3>1. Found(<<>>, Top)
      BY DEF Top, Shown
    <3>2. Len(<<>>) .. N = 0 .. N
      OBVIOUS
    <3>3. Ok(<<>>)
      BY <1>4, <3>1, <3>2 DEF Ok
    <3> QED
      BY <2>3, <3>3
  <2> DEFINE q == Front(p)
             e == tables[q][Last(p)]
             s == Chain(LoadedFat, e.first)
  <2>6. /\ q \in DOMAIN tables /\ Last(p) \in DOMAIN tables[q]
        /\ IsSubdir(e) /\ e.first = HeadIn(tables, p) /\ OnDiskChain(e.first)
        /\ Len(q) = Len(p) - 1 /\ Len(q) \in Nat
    <3>1. /\ Front(p) \in DOMAIN tables /\ Last(p) \in DOMAIN tables[Front(p)]
          /\ IsSubdir(tables[Front(p)][Last(p)])
          /\ OnDiskChain(HeadIn(tables, p))
      BY <2>4, <2>5 DEF Shows
    <3> QED
      BY <1>2, <2>4, <2>5, <3>1, FrontLast DEF HeadIn
  <2>7. Ok(q)
    BY <2>3, <2>4, <2>6
  <2>8. Last(p) \in DOMAIN Shown(tables, q) /\ Shown(tables, q)[Last(p)] = e
    BY <2>6 DEF Shows, IsSubdir
  <2>9. s \in ChainsFrom(LoadedFat, e.first)
    BY <2>6 DEF OnDiskChain, HasChain, Chain
  <2>10. e.first \notin Heads(Len(q))
    <3> SUFFICES ASSUME e.first \in Heads(Len(q)) PROVE FALSE
      OBVIOUS
    <3>1. PICK r \in Dirs(Len(q)) : e.first = HeadIn(tables, r)
      OBVIOUS
    <3>2. r = p
      BY <2>4, <2>5, <2>6, <3>1 DEF Shows
    <3> QED
      BY <2>4, <2>6, <3>2
  <2>11. e.first \in Heads(Len(p)) /\ Heads(Len(q)) \subseteq Heads(Len(p))
    <3>1. p \in Dirs(Len(p))
      BY <2>4, <2>5
    <3>2. \A r \in Dirs(Len(q)) : r \in Dirs(Len(p))
      BY <1>2, <2>4, <2>6
    <3> HIDE DEF Dirs
    <3> QED
      BY <2>6, <3>1, <3>2
  <2>12. Shown(tables, p) = ReadTable(s)
    BY <2>5, <2>6 DEF Shown
  <2> HIDE DEF q, e, s, Heads, Dirs
  <2>13. ASSUME NEW n \in Len(p) .. N
         PROVE  \E t \in w[n] : Found(p, t)
    <3>1. n \in 1 .. N /\ n - 1 \in Len(q) .. N
      BY <1>1, <2>4, <2>6, <2>13
    <3>2. PICK t \in w[n - 1] : Found(q, t)
      BY <2>7, <3>1 DEF Ok
    <3> DEFINE u == [path |-> Append(t.path, e.name), table |-> ReadTable(s),
                     above |-> t.above \union {e.first}]
               Led == {x \in {t.table[i] : i \in DOMAIN t.table} :
                            IsSubdir(x) /\ x.first \notin t.above}
    <3>3. e \in Led
      BY <2>6, <2>8, <2>10, <3>2
    <3>4. u \in TablesIn(t)
      <4> DEFINE Under(x) == {[path |-> Append(t.path, x.name), table |-> ReadTable(r),
                              above |-> t.above \union {x.first}] :
                                r \in ChainsFrom(LoadedFat, x.first)}
      <4>1. TablesIn(t) = UNION {Under(x) : x \in Led}
        BY DEF TablesIn
      <4>2. u \in Under(e)
        BY <2>9
      <4> HIDE DEF Led, Under, u
      <4> QED
        BY <3>3, <4>1, <4>2
    <3>5. u \in w[n]
      BY <1>3, <3>1, <3>2, <3>4
    <3>6. Found(p, u)
      BY <2>11, <2>12, <3>2
    <3> QED
      BY <3>5, <3>6
  <2> QED
    BY <2>3, <2>13 DEF Ok
<1>6. ASSUME NEW p \in DOMAIN tables, NEW k \in Victims(tables[p])
      PROVE  tables[p][k].first \in ReachableHeads
  <2>1. N \in Len(p) .. N
    BY <1>1, <1>2
  <2>2. PICK t \in DiskTables : t.table = Shown(tables, p)
    BY <1>3, <1>5, <2>1
  <2>3. k \in DOMAIN tables[p] /\ ~ IsEmpty(tables[p][k]) /\ ~ IsDotDir(tables[p][k])
    BY DEF Victims
  <2>4. k \in DOMAIN t.table /\ t.table[k] = tables[p][k]
    BY <2>2, <2>3 DEF Shows
  <2>5. k \in Victims(t.table)
    BY <2>3, <2>4 DEF Victims
  <2> DEFINE d == [path |-> Append(t.path, t.table[k].name), entry |-> t.table[k]]
  <2>6. d \in DiskEntries
    BY <2>5 DEF DiskEntries
  <2>7. d.entry.first = tables[p][k].first
    BY <2>4
  <2> QED
    BY <2>6, <2>7 DEF ReachableHeads
<1> QED
  BY <1>6 DEF HeadsIn

LEMMA AllShownNext ==
    \A tables : Shows(tables)' => HeadsIn(tables) \subseteq ReachableHeads'
<1>1. (\A tables : Shows(tables) => HeadsIn(tables) \subseteq ReachableHeads)'
  BY AllShown, PTL
<1> QED
  BY <1>1

-----------------------------------------------------------------------------
(***************************************************************************)
(* What writing a directory changes for a reader.                          *)
(***************************************************************************)
\* The place of a slot in the table of a directory, and back.
LEMMA PlaceSlot ==
    ASSUME NEW q \in Nat \ {0}, NEW m \in Nat \ {0}
    PROVE  (((m - 1) \div q + 1) - 1) * q + (((m - 1) % q) + 1) = m
  BY SMTT(30)

LEMMA SlotAt ==
    ASSUME NEW q \in Nat \ {0}, NEW n \in Nat, NEW k \in 1 .. n, NEW i \in 1 .. q
    PROVE  LET m == (k - 1) * q + i
           IN  /\ m \in 1 .. n * q
               /\ (m - 1) \div q + 1 = k /\ ((m - 1) % q) + 1 = i
<1>1. (k - 1) * q + i \in 1 .. n * q
  BY SMTT(30)
<1>2. k - 1 \in Nat /\ i - 1 \in 0 .. q - 1
  OBVIOUS
<1>3. \A x \in Nat : \A y \in 0 .. q - 1 : (x * q + y) \div q = x /\ (x * q + y) % q = y
  BY SMTT(30)
<1> QED
  BY <1>1, <1>2, <1>3, SMTT(30)

\* Entry m of a table is in slot i of its cluster k.
IsAt(m, q, k, i) == (m - 1) \div q + 1 = k /\ ((m - 1) % q) + 1 = i

LEMMA SomeSlotAt ==
    ASSUME NEW q \in Nat \ {0}, NEW n \in Nat, NEW k \in 1 .. n, NEW i \in 1 .. q
    PROVE  \E m \in 1 .. n * q : IsAt(m, q, k, i)
<1> DEFINE m == (k - 1) * q + i
<1>1. m \in 1 .. n * q /\ (m - 1) \div q + 1 = k /\ ((m - 1) % q) + 1 = i
  BY SlotAt
<1> HIDE DEF m
<1> QED
  BY <1>1 DEF IsAt

\* A reader finds the same when every slot of every directory is the same.
LEMMA SameSlots ==
    ASSUME UNCHANGED <<fats, root>>, \A c \in Clusters : data'[c].slots = data[c].slots
    PROVE  ReachableHeads' = ReachableHeads
<1>1. LoadedFat' = LoadedFat
  BY DEF LoadedFat
<1>2. ASSUME NEW s \in Seq(Clusters)
      PROVE  ReadTable(s)' = ReadTable(s)
  <2>1. SlotsPerCluster \in Nat \ {0} /\ Len(s) \in Nat
    BY SlotAssumption
  <2>2. ASSUME NEW m \in 1 .. Len(s) * SlotsPerCluster
        PROVE  data'[s[(m - 1) \div SlotsPerCluster + 1]].slots
                  = data[s[(m - 1) \div SlotsPerCluster + 1]].slots
    <3>1. (m - 1) \div SlotsPerCluster + 1 \in 1 .. Len(s)
      BY <2>1, SlotPlace
    <3> QED
      BY <3>1
  <2> QED
    BY <2>2 DEF ReadTable
<1>3. ASSUME NEW h, NEW s \in ChainsFrom(LoadedFat, h)
      PROVE  ReadTable(s)' = ReadTable(s)
  <2>1. HasChain(LoadedFat, h)
    BY DEF HasChain
  <2> QED
    BY <1>2, <2>1, OneChain, ChainFacts
<1>4. ASSUME NEW t
      PROVE  TablesIn(t)' = TablesIn(t)
  <2> DEFINE Led == {e \in {t.table[i] : i \in DOMAIN t.table} : IsSubdir(e) /\ e.first \notin t.above}
             Now(e) == {[path |-> Append(t.path, e.name), table |-> ReadTable(s),
                         above |-> t.above \union {e.first}] : s \in ChainsFrom(LoadedFat, e.first)}
             Later(e) == {[path |-> Append(t.path, e.name), table |-> ReadTable(s)',
                           above |-> t.above \union {e.first}] : s \in ChainsFrom(LoadedFat', e.first)}
  <2>1. TablesIn(t) = UNION {Now(e) : e \in Led} /\ TablesIn(t)' = UNION {Later(e) : e \in Led}
    BY DEF TablesIn
  <2>2. \A e \in Led : Later(e) = Now(e)
    <3> HIDE DEF Led
    <3> QED
      BY <1>1, <1>3
  <2> HIDE DEF Led, Now, Later
  <2>3. {Later(e) : e \in Led} = {Now(e) : e \in Led}
    BY <2>2
  <2> QED
    BY <2>1, <2>3
<1>5. \A w : IsWithin(w)' <=> IsWithin(w)
  <2> TAKE w
  <2> DEFINE N == Cardinality(Stored)
             Level(n) == {Top} \union IF n = 0 THEN {} ELSE UNION {TablesIn(t) : t \in w[n - 1]}
             LevelNext(n) == {Top'} \union IF n = 0 THEN {} ELSE UNION {TablesIn(t)' : t \in w[n - 1]}
  <2>1. /\ IsWithin(w) <=> w = [n \in 0 .. N |-> Level(n)]
        /\ IsWithin(w)' <=> w = [n \in 0 .. N |-> LevelNext(n)]
    BY DEF IsWithin
  <2>2. Top' = Top
    BY DEF Top
  <2>3. ASSUME NEW n \in 0 .. N
        PROVE  LevelNext(n) = Level(n)
    <3>1. {TablesIn(t)' : t \in w[n - 1]} = {TablesIn(t) : t \in w[n - 1]}
      BY <1>4
    <3> QED
      BY <2>2, <3>1
  <2> HIDE DEF Level, LevelNext
  <2>4. [n \in 0 .. N |-> LevelNext(n)] = [n \in 0 .. N |-> Level(n)]
    BY <2>3
  <2> QED
    BY <2>1, <2>4
<1>6. (CHOOSE w : IsWithin(w)') = (CHOOSE w : IsWithin(w))
  BY <1>5, Zenon
<1>7. /\ DiskTables = (CHOOSE w : IsWithin(w))[Cardinality(Stored)]
      /\ DiskTables' = (CHOOSE w : IsWithin(w)')[Cardinality(Stored)]
  BY Zenon DEF DiskTables, IsWithin, Top
<1>8. DiskTables' = DiskTables
  BY <1>6, <1>7
<1> QED
  BY <1>8 DEF ReachableHeads, DiskEntries

\* A command that has allocated nothing finds the chain of each of its entries in
\* the extent of that entry, every cluster at its place.
LEMMA MemoryChain ==
    ASSUME TypeInv, SafetyInv, ContentInv, Working, fat = LoadedFat,
           NEW e \in Entries, OnDiskChain(e.first)
    PROVE  LET s == Chain(LoadedFat, e.first)
               E == Extent(fat, e.first)
           IN  /\ s \in Seq(Clusters) /\ Len(s) \in Nat \ {0}
               /\ E \subseteq Stored
               /\ \A k \in 1 .. Len(s) : s[k] \in E /\ PlaceIn(E, s[k]) = k
<1> DEFINE s == Chain(LoadedFat, e.first)
           E == Extent(fat, e.first)
           n == Len(s)
<1>1. \A c \in Unsaved : LoadedFat[c] = 0
  BY ClusterSets DEF LoadedFat, Unsaved
<1>2. Anchored(LoadedFat, e.first)
  BY EntriesAnchored DEF ContentInv, Table
<1>3. HasChain(LoadedFat, e.first)
  BY DEF OnDiskChain
<1>4. \A c \in Unsaved : LoadedFat[c] \notin Stored
  BY <1>1, NotStored
<1>5. \A k \in 1 .. n : s[k] \in Stored => s[k] \in E /\ PlaceIn(E, s[k]) = k
  BY <1>2, <1>3, <1>4, ChainPassesExtent
<1>6. /\ n \in Nat \ {0}
      /\ s \in Seq(Clusters)
      /\ \A k \in 1 .. n : s[k] \in Clusters
      /\ \A k \in 1 .. n - 1 : LoadedFat[s[k]] = s[k + 1]
      /\ LoadedFat[s[n]] = EndOfChain
  <2>1. /\ s \in Seq(Clusters) /\ n \in Nat \ {0}
        /\ \A k \in 1 .. n - 1 : LoadedFat[s[k]] = s[k + 1]
        /\ LoadedFat[s[n]] = EndOfChain
    BY <1>3, ChainFacts
  <2> HIDE DEF s
  <2> QED
    BY <2>1
<1>7. E \subseteq Stored
  BY DEF Extent
<1> HIDE DEF s, E, n
<1>8. ASSUME NEW k \in 1 .. n
      PROVE  s[k] \in Stored
  <2>1. LoadedFat[s[k]] # 0
    <3>1. k = n \/ (k \in 1 .. n - 1 /\ k + 1 \in 1 .. n)
      BY <1>6
    <3> QED
      BY <1>6, <3>1, ClusterSets
  <2> QED
    BY <1>1, <1>6, <2>1 DEF Unsaved
<1> QED
  BY <1>5, <1>6, <1>7, <1>8 DEF s, E, n

\* Writing the first clusters, or all, of a directory.  Every other directory stays;
\* the one written gets the entries of its table in those clusters; and if a reader
\* finds the same in it as before, then every slot is the same.
LEMMA TableWrites ==
    ASSUME TypeInv, SafetyInv, ContentInv, pc = "dirs", fat = LoadedFat, Readable, Unshared,
           NEW p \in DOMAIN tabs \ {<<>>}, DOMAIN FoundAt(p) = DOMAIN tabs[p],
           NEW tables, tables = tabs,
           NEW n \in 1 .. Len(Chain(fat, HeadOf(p))),
           NEW t, Len(t) = n, \A k \in 1 .. n : t[k] = Chain(fat, HeadOf(p))[k],
           data' = StoreTable(t, tabs[p]), UNCHANGED <<fats, root>>
    PROVE  /\ \A q \in DOMAIN tables \ {p} : Shown(tables, q)' = Shown(tables, q)
           /\ DOMAIN Shown(tables, p)' = DOMAIN Shown(tables, p)
           /\ \A m \in DOMAIN tables[p] :
                Shown(tables, p)'[m] =
                    IF (m - 1) \div SlotsPerCluster + 1 <= n THEN tables[p][m]
                                                              ELSE Shown(tables, p)[m]
           /\ \A c \in Clusters : \A i \in 1 .. SlotsPerCluster :
                \/ data'[c].slots[i] = data[c].slots[i]
                \/ \E m \in DOMAIN tables[p] :
                    /\ data'[c].slots[i] = Shown(tables, p)'[m]
                    /\ data[c].slots[i] = Shown(tables, p)[m]
           /\ Shown(tables, p)' = Shown(tables, p)
                => \A c \in Clusters : data'[c].slots = data[c].slots
<1>1. LoadedFat' = LoadedFat
  BY DEF LoadedFat
<1>2. Working /\ Table = fat
  BY DEF Working, Running, Table
<1> DEFINE ch(q) == Chain(LoadedFat, HeadOf(q))
           Ex(q) == Extent(fat, HeadOf(q))
           S == SlotsPerCluster
           In(d, x) == [m \in 1 .. Len(x) * S |-> d[x[(m - 1) \div S + 1]].slots[((m - 1) % S) + 1]]
<1>3. ASSUME NEW q \in DOMAIN tabs \ {<<>>}
      PROVE  /\ ch(q) \in Seq(Clusters) /\ Len(ch(q)) \in Nat \ {0}
             /\ Ex(q) \subseteq Stored
             /\ \A k \in 1 .. Len(ch(q)) : ch(q)[k] \in Ex(q) /\ PlaceIn(Ex(q), ch(q)[k]) = k
             /\ Shown(tables, q) = In(data, ch(q)) /\ Shown(tables, q)' = In(data', ch(q))
             /\ FoundAt(q) = In(data, ch(q))
  <2>1. /\ HeadOf(q) = tabs[Front(q)][Last(q)].first
        /\ tabs[Front(q)][Last(q)] \in Entries
        /\ OnDiskChain(HeadOf(q))
    BY LedBy DEF ContentInv, Readable
  <2>2. HeadIn(tables, q) = HeadOf(q)
    BY DEF HeadIn, HeadOf
  <2>3. Shown(tables, q) = In(data, ch(q)) /\ FoundAt(q) = In(data, ch(q))
    BY <2>2 DEF Shown, FoundAt, ReadTable
  <2>4. Shown(tables, q)' = In(data', Chain(LoadedFat', HeadIn(tables, q)))
    BY DEF Shown, ReadTable, HeadIn
  <2>5. Shown(tables, q)' = In(data', ch(q))
    BY <1>1, <2>2, <2>4
  <2> QED
    <3>1. PICK e \in Entries : e.first = HeadOf(q)
      BY <2>1
    <3>2. OnDiskChain(e.first)
      BY <2>1, <3>1
    <3>3. LET x == Chain(LoadedFat, e.first)
              E == Extent(fat, e.first)
          IN  /\ x \in Seq(Clusters) /\ Len(x) \in Nat \ {0}
              /\ E \subseteq Stored
              /\ \A k \in 1 .. Len(x) : x[k] \in E /\ PlaceIn(E, x[k]) = k
      BY <1>2, <3>2, MemoryChain
    <3> QED
      BY <2>3, <2>5, <3>1, <3>3
<1>4. ASSUME NEW q \in DOMAIN tabs \ {<<>>, p}
      PROVE  Ex(q) \intersect Ex(p) = {}
  <2>1. /\ HeadOf(q) = tabs[Front(q)][Last(q)].first
        /\ tabs[Front(q)][Last(q)] \in Entries
        /\ HeadOf(p) = tabs[Front(p)][Last(p)].first
        /\ tabs[Front(p)][Last(p)] \in Entries
    BY LedBy DEF ContentInv
  <2>2. HeadOf(q) # HeadOf(p)
    BY DEF Unshared
  <2> QED
    BY <1>2, <2>1, <2>2 DEF ContentInv, ExtentsApart, Apart
<1> DEFINE s == ch(p)
<1>5. /\ s \in Seq(Clusters) /\ Len(s) \in Nat \ {0} /\ n \in 1 .. Len(s) /\ n \in Nat
      /\ \A k \in 1 .. Len(s) : s[k] \in Ex(p) /\ PlaceIn(Ex(p), s[k]) = k /\ s[k] \in Clusters
      /\ \A k \in 1 .. n : t[k] = s[k] /\ k \in 1 .. Len(s)
  BY <1>3
<1>6. S \in Nat \ {0}
  BY SlotAssumption
<1> HIDE DEF Ex, ch
<1>7. ASSUME NEW c \in Clusters, c \notin Ex(p)
      PROVE  data'[c] = data[c]
  <2>1. ~ Visits(t, c)
    BY <1>5, <1>7 DEF Visits
  <2> QED
    BY <2>1 DEF StoreTable
<1> DEFINE New(k) == [i \in 1 .. S |->
                        LET m == (k - 1) * S + i
                        IN  IF m \in DOMAIN tabs[p] THEN tabs[p][m] ELSE EmptyEntry]
<1>8. ASSUME NEW k \in 1 .. Len(s)
      PROVE  /\ k <= n => data'[s[k]].slots = New(k)
             /\ ~ k <= n => data'[s[k]] = data[s[k]]
  <2>1. CASE k <= n
    <3>1. k \in 1 .. n
      BY <1>5, <2>1
    <3>2. Visits(t, s[k])
      BY <1>5, <3>1 DEF Visits
    <3>3. \A m \in 1 .. Len(t) : t[m] = s[k] => m = k
      BY <1>5
    <3>4. Position(t, s[k]) = k
      BY <1>5, <3>1, <3>3 DEF Position
    <3>5. data'[s[k]] = DirBlock(New(k))
      BY <1>5, <3>2, <3>4 DEF StoreTable
    <3> QED
      BY <2>1, <3>5 DEF DirBlock
  <2>2. CASE ~ k <= n
    <3>1. ~ Visits(t, s[k])
      BY <1>5, <2>2 DEF Visits
    <3> QED
      BY <1>5, <2>2, <3>1 DEF StoreTable
  <2> QED
    BY <2>1, <2>2
<1>9. ASSUME NEW q \in DOMAIN tables \ {p}
      PROVE  Shown(tables, q)' = Shown(tables, q)
  <2>1. CASE q = <<>>
    BY <2>1 DEF Shown
  <2>2. CASE q # <<>>
    <3>1. /\ ch(q) \in Seq(Clusters)
          /\ \A k \in 1 .. Len(ch(q)) : ch(q)[k] \in Ex(q) /\ ch(q)[k] \in Clusters
      BY <1>3, <2>2
    <3>2. \A k \in 1 .. Len(ch(q)) : data'[ch(q)[k]] = data[ch(q)[k]]
      BY <1>4, <1>7, <2>2, <3>1
    <3>3. Len(ch(q)) \in Nat
      BY <1>3, <2>2
    <3>4. \A m \in 1 .. Len(ch(q)) * S : (m - 1) \div S + 1 \in 1 .. Len(ch(q))
      BY <1>6, <3>3, SlotPlace
    <3>5. In(data', ch(q)) = In(data, ch(q))
      BY <3>2, <3>4
    <3>6. q \in DOMAIN tabs \ {<<>>}
      BY <2>2
    <3> HIDE DEF In
    <3>7. Shown(tables, q) = In(data, ch(q)) /\ Shown(tables, q)' = In(data', ch(q))
      BY <1>3, <3>6
    <3> QED
      BY <3>5, <3>7
  <2> QED
    BY <2>1, <2>2
<1>10. /\ DOMAIN Shown(tables, p) = 1 .. Len(s) * S
       /\ DOMAIN Shown(tables, p)' = 1 .. Len(s) * S
       /\ DOMAIN tabs[p] = 1 .. Len(s) * S
       /\ \A m \in 1 .. Len(s) * S :
            /\ Shown(tables, p)[m] = data[s[(m - 1) \div S + 1]].slots[((m - 1) % S) + 1]
            /\ Shown(tables, p)'[m] = data'[s[(m - 1) \div S + 1]].slots[((m - 1) % S) + 1]
  <2>1. /\ DOMAIN In(data, s) = 1 .. Len(s) * S
        /\ DOMAIN In(data', s) = 1 .. Len(s) * S
        /\ \A m \in 1 .. Len(s) * S :
            /\ In(data, s)[m] = data[s[(m - 1) \div S + 1]].slots[((m - 1) % S) + 1]
            /\ In(data', s)[m] = data'[s[(m - 1) \div S + 1]].slots[((m - 1) % S) + 1]
    OBVIOUS
  <2> HIDE DEF In
  <2>2. /\ Shown(tables, p) = In(data, s) /\ Shown(tables, p)' = In(data', s)
        /\ FoundAt(p) = In(data, s)
    BY <1>3
  <2> HIDE DEF s
  <2> QED
    BY <2>1, <2>2
<1> HIDE DEF s
<1>11. ASSUME NEW m \in DOMAIN tables[p]
       PROVE  Shown(tables, p)'[m] =
                    IF (m - 1) \div S + 1 <= n THEN tables[p][m] ELSE Shown(tables, p)[m]
  <2> DEFINE k == (m - 1) \div S + 1
             i == ((m - 1) % S) + 1
  <2>1. m \in 1 .. Len(s) * S /\ m \in Nat \ {0}
    BY <1>5, <1>6, <1>10
  <2>2. k \in 1 .. Len(s) /\ i \in 1 .. S
    BY <1>5, <1>6, <2>1, SlotPlace
  <2>3. (k - 1) * S + i = m
    BY <1>6, <2>1, PlaceSlot
  <2>4. /\ Shown(tables, p)[m] = data[s[k]].slots[i]
        /\ Shown(tables, p)'[m] = data'[s[k]].slots[i]
    BY <1>10, <2>1
  <2>5. (k <= n) = ((m - 1) \div S + 1 <= n)
    OBVIOUS
  <2> HIDE DEF k, i
  <2>6. CASE k <= n
    <3>1. data'[s[k]].slots = New(k)
      BY <1>8, <2>2, <2>6
    <3>2. New(k)[i] = tabs[p][m]
      BY <1>10, <2>1, <2>2, <2>3
    <3> HIDE DEF New
    <3> QED
      BY <2>4, <2>5, <2>6, <3>1, <3>2
  <2> HIDE DEF New
  <2>7. CASE ~ k <= n
    BY <1>8, <2>2, <2>4, <2>5, <2>7
  <2> QED
    BY <2>6, <2>7
<1>12. ASSUME NEW c \in Clusters
       PROVE  \/ data'[c].slots = data[c].slots
              \/ \A i \in 1 .. S : \E m \in DOMAIN tables[p] :
                    /\ data'[c].slots[i] = Shown(tables, p)'[m]
                    /\ data[c].slots[i] = Shown(tables, p)[m]
  <2>1. CASE \E k \in 1 .. Len(s) : c = s[k]
    <3>1. PICK k \in 1 .. Len(s) : c = s[k]
      BY <2>1
    <3>2. ASSUME NEW i \in 1 .. S
          PROVE  \E m \in DOMAIN tables[p] :
                    /\ data'[c].slots[i] = Shown(tables, p)'[m]
                    /\ data[c].slots[i] = Shown(tables, p)[m]
      <4>1. PICK m \in 1 .. Len(s) * S : IsAt(m, S, k, i)
        <5>1. S \in Nat \ {0} /\ Len(s) \in Nat
          BY <1>5, <1>6
        <5> QED
          BY <5>1, SomeSlotAt
      <4>2. Shown(tables, p)[m] = data[s[k]].slots[i] /\ Shown(tables, p)'[m] = data'[s[k]].slots[i]
        BY <1>10, <4>1 DEF IsAt
      <4> QED
        BY <1>10, <3>1, <4>1, <4>2
    <3> QED
      BY <3>2
  <2>2. CASE ~ \E k \in 1 .. Len(s) : c = s[k]
    <3>1. ~ Visits(t, c)
      BY <1>5, <2>2 DEF Visits
    <3>2. data'[c] = data[c]
      BY <3>1 DEF StoreTable
    <3> QED
      BY <3>2
  <2> QED
    BY <2>1, <2>2
<1>13. \A k \in 1 .. Len(s) : k <= n => data'[s[k]].slots = New(k)
  BY <1>8
<1>14. ASSUME Shown(tables, p)' = Shown(tables, p), NEW c \in Clusters
       PROVE  data'[c].slots = data[c].slots
  <2>1. data \in [Clusters -> Block]
    BY DEF TypeInv, TypeOK
  <2>2. data[c].slots = [i \in 1 .. S |-> data[c].slots[i]]
    BY <2>1 DEF Block
  <2>3. CASE \E k \in 1 .. Len(s) : c = s[k] /\ k <= n
    <3>1. PICK k \in 1 .. Len(s) : c = s[k] /\ k <= n
      BY <2>3
    <3> DEFINE F == New(k)
    <3>2. data'[c].slots = F /\ F = [i \in 1 .. S |-> F[i]]
      BY <1>13, <3>1
    <3> HIDE DEF F
    <3>3. \A i \in 1 .. S : data'[c].slots[i] = data[c].slots[i]
      BY <1>12, <1>14
    <3> QED
      BY <2>2, <3>2, <3>3
  <2>4. CASE ~ \E k \in 1 .. Len(s) : c = s[k] /\ k <= n
    <3>1. \A k \in 1 .. n : t[k] # c
      BY <1>5, <2>4
    <3>2. ~ Visits(t, c)
      BY <1>5, <3>1 DEF Visits
    <3> QED
      BY <3>2 DEF StoreTable
  <2> QED
    BY <2>3, <2>4
<1> QED
  BY <1>9, <1>10, <1>11, <1>12, <1>14

-----------------------------------------------------------------------------
(***************************************************************************)
(* The invariant of a move.                                                *)
(***************************************************************************)
LEMMA InitMoveInv == Init => MoveInv
  BY DEF Init, MoveInv, Running, NoCommand

\* A command that ends, and one that is no move and does not read the disk.
LEMMA EndsMoveInv ==
    ASSUME cmd' = NoCommand, pc' \in {"idle", "undefined"}
    PROVE  MoveInv'
  BY DEF MoveInv, Running, NoCommand

LEMMA OtherMoveInv ==
    ASSUME cmd'.op # "move", pc' \notin {"scan", "idle", "undefined"}
    PROVE  MoveInv'
  BY DEF MoveInv, Running

LEMMA SameFound ==
    ASSUME UNCHANGED <<root, data, tabs>>, LoadedFat' = LoadedFat, NEW p
    PROVE  FoundAt(p)' = FoundAt(p)
  BY DEF FoundAt, HeadOf, ReadTable

LEMMA StartMoveInv ==
    ASSUME TypeInv, NEW c \in Commands, Start(c)
    PROVE  MoveInv'
<1>1. pc' = "scan" /\ fat' = LoadedFat /\ tabs' = [p \in {<<>>} |-> root]
      /\ UNCHANGED <<fats, root, data>>
  BY DEF Start, LoadedFat
<1>2. LoadedFat' = LoadedFat
  BY <1>1 DEF LoadedFat
<1>3. Readable' /\ \A p \in DOMAIN tabs' : tabs'[p] = FoundAt(p)'
  BY <1>1 DEF Readable, FoundAt
<1> QED
  BY <1>1, <1>2, <1>3 DEF MoveInv, Running

LEMMA ScanDirectoryMoveInv ==
    ASSUME TypeInv, ContentInv, MoveInv, ScanDirectory
    PROVE  MoveInv'
<1>1. PICK d \in DOMAIN tabs : \E i \in DOMAIN tabs[d] : ScanEntry(d, i)
  BY DEF ScanDirectory
<1>2. PICK i \in DOMAIN tabs[d] : ScanEntry(d, i)
  BY <1>1
<1> DEFINE p == Append(d, i)
           first == tabs[d][i].first
<1>3. CASE Undefined
  BY <1>3, EndsMoveInv DEF Undefined, Ends
<1>4. CASE ~ Undefined
  <2>1. /\ HasChain(fat, first)
        /\ p \in Unscanned
        /\ tabs' = [q \in DOMAIN tabs \union {p} |->
                        IF q = p THEN ReadTable(Chain(fat, first)) ELSE tabs[q]]
        /\ UNCHANGED <<fats, root, data, pc, cmd, fat>>
    BY <1>2, <1>4 DEF ScanEntry
  <2>2. /\ p # <<>> /\ Front(p) = d /\ Last(p) = i
        /\ p \notin DOMAIN tabs
    BY <2>1, TabsTypes, AppendFacts, AppendEnds DEF Unscanned
  <2> HIDE DEF p, first
  <2>3. LoadedFat' = LoadedFat /\ pc = "scan" /\ fat = LoadedFat
    BY <2>1 DEF LoadedFat, MoveInv, ScanDirectory
  <2>4. \A q \in DOMAIN tabs : q \in DOMAIN tabs' /\ tabs'[q] = tabs[q]
    BY <2>1, <2>2
  <2>5. DOMAIN tabs' = DOMAIN tabs \union {p} /\ tabs'[p] = ReadTable(Chain(fat, first))
    BY <2>1
  <2>6. HeadOf(p)' = first
    BY <2>2, <2>4 DEF HeadOf, first
  <2>7. \A q \in DOMAIN tabs \ {<<>>} : HeadOf(q)' = HeadOf(q)
    BY <2>4 DEF HeadOf, ContentInv, TreeInv, TablesLed
  <2>8. Readable'
    <3>1. OnDiskChain(first)
      BY <2>1, <2>3 DEF OnDiskChain
    <3>2. \A h : OnDiskChain(h)' <=> OnDiskChain(h)
      BY <2>3 DEF OnDiskChain
    <3>3. \A q \in DOMAIN tabs \ {<<>>} : OnDiskChain(HeadOf(q))
      BY <2>3 DEF MoveInv, Readable
    <3>4. \A q \in DOMAIN tabs' \ {<<>>} : HasChain(LoadedFat', HeadOf(q)')
      BY <2>3, <2>5, <2>6, <2>7, <3>1, <3>3 DEF OnDiskChain
    <3> QED
      BY <3>4 DEF Readable, OnDiskChain
  <2>9. ASSUME NEW q \in DOMAIN tabs'
        PROVE  tabs'[q] = FoundAt(q)'
    <3>1. CASE q = <<>>
      <4>1. tabs[<<>>] = root
        BY <2>3, TabsTypes DEF MoveInv, FoundAt
      <4> QED
        BY <2>1, <2>4, <3>1, <4>1, TabsTypes DEF FoundAt
    <3>2. CASE q # <<>>
      <4> DEFINE In(s) == [m \in 1 .. Len(s) * SlotsPerCluster |->
                    data[s[(m - 1) \div SlotsPerCluster + 1]].slots[((m - 1) % SlotsPerCluster) + 1]]
      <4>1. FoundAt(q)' = In(Chain(LoadedFat, HeadOf(q)'))
        BY <2>1, <2>3, <3>2 DEF FoundAt, ReadTable
      <4>2. CASE q = p
        <5>1. tabs'[q] = In(Chain(fat, first))
          BY <2>5, <4>2 DEF ReadTable
        <5> QED
          BY <2>3, <2>6, <4>1, <4>2, <5>1
      <4>3. CASE q # p
        <5>1. q \in DOMAIN tabs /\ tabs'[q] = FoundAt(q)
          BY <2>3, <2>4, <2>5, <4>3 DEF MoveInv
        <5>2. FoundAt(q) = In(Chain(LoadedFat, HeadOf(q)))
          BY <3>2 DEF FoundAt, ReadTable
        <5> QED
          BY <2>7, <3>2, <4>1, <5>1, <5>2
      <4> QED
        BY <4>2, <4>3
    <3> QED
      BY <3>1, <3>2
  <2>10. pc' = "scan" /\ fat' = LoadedFat'
    BY <2>1, <2>3
  <2> QED
    BY <2>8, <2>9, <2>10 DEF MoveInv, Running
<1> QED
  BY <1>3, <1>4

\* A directory the entry is moved from is above the one it is moved to when its path
\* is.
LEMMA AboveDestination ==
    ASSUME TypeInv, NEW path \in Seq(Names), NEW other \in Seq(Names),
           NEW d \in Seq(Nat), NEW i \in Nat, NEW dest \in Seq(Nat),
           Resolves(path, Append(d, i)), Resolves(other, dest),
           IsStrictPrefix(Front(path), other)
    PROVE  IsStrictPrefix(d, dest)
<1> DEFINE p == Append(d, i)
           l == Len(d)
<1>1. /\ p \in Seq(Nat) /\ Len(p) = l + 1 /\ l \in Nat
      /\ \A k \in 1 .. l : p[k] = d[k] /\ k \in 1 .. Len(p)
  BY AppendFacts
<1>2. Len(path) = l + 1 /\ Len(other) = Len(dest) /\ Len(dest) \in Nat
  BY <1>1 DEF Resolves
<1> HIDE DEF p
<1>3. /\ Front(path) \in Seq(Names) /\ Len(Front(path)) = l
      /\ \A k \in 1 .. l : Front(path)[k] = path[k]
  <2>1. \A k \in 1 .. l : path[k] \in Names
    BY <1>1, <1>2
  <2>2. Front(path) = SubSeq(path, 1, l)
    BY <1>1, <1>2 DEF Front
  <2> HIDE DEF l
  <2>3. /\ SubSeq(path, 1, l) \in Seq(Names)
        /\ Len(SubSeq(path, 1, l)) = IF 1 <= l THEN l - 1 + 1 ELSE 0
        /\ \A k \in 1 .. l - 1 + 1 : SubSeq(path, 1, l)[k] = path[1 + k - 1]
    BY <1>1, <2>1, SubSeqProperties, 1 \in Int, l \in Int
  <2> QED
    BY <1>1, <2>2, <2>3
<1>4. l <= Len(other) /\ \A k \in 1 .. l : path[k] = other[k]
  BY <1>3, PrefixIs DEF IsStrictPrefix
<1>5. l # Len(other)
  <2> SUFFICES ASSUME l = Len(other) PROVE FALSE
    OBVIOUS
  <2>1. Front(path) = other
    BY <1>3, <1>4, SeqEqual
  <2> QED
    BY <2>1 DEF IsStrictPrefix
<1> DEFINE Bad == {k \in 1 .. l : d[k] # dest[k]}
<1>6. Bad = {}
  <2> SUFFICES ASSUME Bad # {} PROVE FALSE
    OBVIOUS
  <2>1. Bad \in SUBSET Nat
    BY <1>1
  <2> HIDE DEF Bad
  <2>2. PICK k \in Bad : \A x \in Bad : k <= x
    BY <2>1, MinOfNaturals
  <2> USE DEF Bad
  <2> DEFINE n == k - 1
  <2> HIDE DEF l
  <2>a. k \in 1 .. l /\ l \in Nat
    BY <1>1, <2>2
  <2>b. /\ n \in Nat /\ k \in 1 .. Len(p) /\ k \in 1 .. Len(dest)
        /\ \A x \in 1 .. n : x \in 1 .. l /\ x < k
    BY <2>a, <1>1, <1>2, <1>4
  <2>3. /\ k \in 1 .. l /\ n \in Nat /\ k \in 1 .. Len(p) /\ k \in 1 .. Len(dest)
        /\ \A x \in 1 .. n : x \in 1 .. l /\ x \notin Bad
    <3> SUFFICES ASSUME NEW x \in 1 .. n PROVE x \notin Bad
      BY <2>a, <2>b
    <3>1. x < k /\ x \in Int /\ k \in Int
      BY <2>a, <2>b
    <3> HIDE DEF Bad
    <3> QED
      BY <3>1, <2>2
  <2> HIDE DEF n
  <2>4. \A x \in 1 .. n : p[x] \in Nat /\ dest[x] \in Nat /\ p[x] = dest[x]
    <3> SUFFICES ASSUME NEW x \in 1 .. n
                 PROVE  p[x] \in Nat /\ dest[x] \in Nat /\ p[x] = dest[x]
      OBVIOUS
    <3>1. x \in 1 .. l /\ d[x] = dest[x]
      BY <2>3
    <3>2. x \in 1 .. Len(dest) /\ x \in 1 .. Len(p)
      BY <3>1, <1>1, <1>2, <1>4
    <3>3. p[x] = d[x]
      BY <3>1, <1>1
    <3>a. x \in 1 .. Len(d)
      BY <3>1 DEF l
    <3> HIDE DEF Bad
    <3>4. d[x] \in Nat
      BY <3>a, ElementOfSeq
    <3>5. dest[x] \in Nat
      BY <3>2, ElementOfSeq
    <3> QED
      BY <3>1, <3>3, <3>4, <3>5
  <2>5. SubSeq(p, 1, n) = SubSeq(dest, 1, n)
    <3>1. /\ SubSeq(p, 1, n) \in Seq(Nat)
          /\ Len(SubSeq(p, 1, n)) = IF 1 <= n THEN n - 1 + 1 ELSE 0
          /\ \A x \in 1 .. n - 1 + 1 : SubSeq(p, 1, n)[x] = p[1 + x - 1]
      BY <2>3, <2>4, SubSeqProperties, 1 \in Int, n \in Int
    <3>2. /\ SubSeq(dest, 1, n) \in Seq(Nat)
          /\ Len(SubSeq(dest, 1, n)) = IF 1 <= n THEN n - 1 + 1 ELSE 0
          /\ \A x \in 1 .. n - 1 + 1 : SubSeq(dest, 1, n)[x] = dest[1 + x - 1]
      BY <2>3, <2>4, SubSeqProperties, 1 \in Int, n \in Int
    <3>3. /\ Len(SubSeq(p, 1, n)) = n /\ Len(SubSeq(dest, 1, n)) = n
          /\ \A x \in 1 .. n : SubSeq(p, 1, n)[x] = p[x] /\ SubSeq(dest, 1, n)[x] = dest[x]
      BY <2>3, <3>1, <3>2
    <3>4. \A x \in 1 .. n : SubSeq(p, 1, n)[x] = SubSeq(dest, 1, n)[x]
      BY <2>4, <3>3
    <3>5. SubSeq(p, 1, n) \in Seq(Nat) /\ SubSeq(dest, 1, n) \in Seq(Nat)
      BY <3>1, <3>2
    <3> HIDE DEF Bad
    <3> QED
      BY <3>3, <3>4, <3>5, SeqEqual
  <2>6. p[k] = Min(SlotsNamed(tabs[SubSeq(p, 1, n)], path[k]))
    BY <2>3 DEF Resolves, p, n
  <2>7. dest[k] = Min(SlotsNamed(tabs[SubSeq(dest, 1, n)], other[k]))
    BY <2>3 DEF Resolves, n
  <2>8. p[k] = dest[k]
    BY <1>4, <2>3, <2>5, <2>6, <2>7
  <2> QED
    BY <1>1, <2>2, <2>3, <2>8
<1>7. IsPrefix(d, dest)
  BY <1>1, <1>2, <1>4, <1>6, PrefixIs
<1> QED
  BY <1>2, <1>5, <1>7 DEF IsStrictPrefix

LEMMA MoveEntryMoveInv ==
    ASSUME TypeInv, ContentInv, MoveInv, MoveEntry
    PROVE  MoveInv'
<1>1. PICK d \in DOMAIN tabs, dest \in DOMAIN tabs :
          \E i \in DOMAIN tabs[d], j \in DOMAIN tabs[dest] : MovedTo(d, i, dest, j)
  BY MovedTables DEF ContentInv
<1>2. PICK i \in DOMAIN tabs[d], j \in DOMAIN tabs[dest] : MovedTo(d, i, dest, j)
  BY <1>1
<1> DEFINE from == Append(d, i)
           to == Append(dest, j)
           Now(p) == Relocated(p, from, to)
<1>3. /\ <<d, i>> # <<dest, j>> /\ tabs[dest][j] = EmptyEntry /\ ~ IsPrefix(from, dest)
      /\ Resolves(cmd.path, from) /\ Resolves(cmd.dest, dest)
  BY <1>2 DEF MovedTo
<1>4. PICK edited :
         /\ \A p \in DOMAIN tabs : DOMAIN edited[p] = DOMAIN tabs[p]
         /\ edited[d][i] = EmptyEntry
         /\ edited[dest][j] = tabs[d][i]
         /\ \A p \in DOMAIN tabs : \A k \in DOMAIN tabs[p] :
                 <<p, k>> \notin {<<d, i>>, <<dest, j>>} => edited[p][k] = tabs[p][k]
         /\ \A q \in DOMAIN tabs' : \E p \in DOMAIN tabs : q = Now(p)
         /\ \A p \in DOMAIN tabs : Now(p) \in DOMAIN tabs' /\ tabs'[Now(p)] = edited[p]
  BY <1>2 DEF MovedTo
<1>5. /\ pc = "scan" /\ pc' = "fat" /\ cmd.op = "move"
      /\ UNCHANGED <<fats, root, data, cmd, fat>>
      /\ fat = LoadedFat /\ LoadedFat' = LoadedFat /\ Readable
      /\ \A p \in DOMAIN tabs : tabs[p] = FoundAt(p)
  BY DEF MoveEntry, Opened, BeginWrite, MoveInv, LoadedFat
<1>6. /\ d \in Seq(Nat) /\ i \in Nat /\ dest \in Seq(Nat) /\ j \in Nat
      /\ \A p \in DOMAIN tabs : p \in Seq(Nat)
      /\ \A p \in DOMAIN tabs : \A k \in DOMAIN tabs[p] : k \in Nat
  BY TabsTypes
<1>7. /\ from \in Seq(Nat) /\ Len(from) = Len(d) + 1 /\ Front(from) = d /\ Last(from) = i
      /\ to \in Seq(Nat) /\ Front(to) = dest /\ Last(to) = j /\ to # <<>>
  BY <1>6, AppendFacts, AppendEnds
<1>8. IsStrictPrefix(Front(cmd.path), cmd.dest) => IsStrictPrefix(d, dest)
  <2>1. cmd.path \in Seq(Names) /\ cmd.dest \in Seq(Names)
    BY <1>5, MoveCommand DEF TypeInv, TypeOK, NoCommand
  <2> QED
    BY <1>3, <1>6, <2>1, AboveDestination
<1> HIDE DEF from
<1>9. Now(from) = to /\ Now(dest) = dest /\ Now(<<>>) = <<>> /\ Now(d) = d
  <2>1. ~ IsPrefix(from, <<>>)
    BY <1>6, <1>7 DEF IsPrefix
  <2>2. ~ IsPrefix(from, d)
    BY <1>6, <1>7, PrefixIs
  <2> QED
    BY <1>3, <1>7, <2>1, <2>2, RelocatedDirectory DEF Relocated
<1>10. ASSUME NEW p \in DOMAIN tabs, NEW k \in DOMAIN tabs[p], Append(p, k) # from
       PROVE  Now(Append(p, k)) = Append(Now(p), k)
  <2>1. p \in Seq(Nat) /\ k \in Nat
    BY <1>6
  <2> HIDE DEF to
  <2>2. Relocated(Append(p, k), from, to) = Append(Relocated(p, from, to), k)
    BY <1>7, <1>10, <2>1, RelocatedEntry
  <2> QED
    BY <2>2
<1>11. ASSUME NEW p \in DOMAIN tabs
       PROVE  Now(p) \in Seq(Nat)
  <2>1. CASE IsPrefix(from, p)
    BY <1>6, <1>7, <2>1, RelocatedBelow
  <2>2. CASE ~ IsPrefix(from, p)
    BY <1>6, <2>2 DEF Relocated
  <2> QED
    BY <2>1, <2>2
<1> HIDE DEF Now, to
<1>12. ASSUME NEW p \in DOMAIN tabs \ {<<>>}
       PROVE  Now(p) # <<>> /\ tabs'[Front(Now(p))][Last(Now(p))].first = HeadOf(p)
  <2>1. /\ Front(p) \in DOMAIN tabs /\ Last(p) \in DOMAIN tabs[Front(p)]
        /\ IsSubdir(tabs[Front(p)][Last(p)])
        /\ HeadOf(p) = tabs[Front(p)][Last(p)].first
        /\ p = Append(Front(p), Last(p))
    BY LedBy DEF ContentInv
  <2>2. CASE p = from
    BY <1>4, <1>7, <1>9, <2>1, <2>2
  <2>3. CASE p # from
    <3>1. Now(Append(Front(p), Last(p))) = Append(Now(Front(p)), Last(p))
      BY <1>10, <2>1, <2>3
    <3>2. Now(p) = Append(Now(Front(p)), Last(p))
      BY <2>1, <3>1
    <3>3. Now(Front(p)) \in Seq(Nat) /\ Last(p) \in Nat
      BY <1>6, <1>11, <2>1
    <3>4. Front(Now(p)) = Now(Front(p)) /\ Last(Now(p)) = Last(p) /\ Now(p) # <<>>
      BY <3>2, <3>3, AppendEnds, AppendFacts
    <3>5. <<Front(p), Last(p)>> # <<d, i>>
      BY <2>1, <2>3 DEF from
    <3>6. <<Front(p), Last(p)>> # <<dest, j>>
      BY <1>3, <2>1, EntryTypes
    <3> QED
      BY <1>4, <2>1, <3>4, <3>5, <3>6
  <2> QED
    BY <2>2, <2>3
<1>13. ASSUME NEW p \in DOMAIN tabs
       PROVE  FoundAt(Now(p))' = tabs[p]
  <2> DEFINE Read(s) == [m \in 1 .. Len(s) * SlotsPerCluster |->
                    data[s[(m - 1) \div SlotsPerCluster + 1]].slots[((m - 1) % SlotsPerCluster) + 1]]
  <2>1. CASE p = <<>>
    BY <1>5, <1>9, <2>1 DEF FoundAt
  <2>2. CASE p # <<>>
    <3>1. tabs[p] = Read(Chain(LoadedFat, HeadOf(p)))
      BY <1>5, <2>2 DEF FoundAt, ReadTable
    <3>2. Now(p) # <<>> /\ tabs'[Front(Now(p))][Last(Now(p))].first = HeadOf(p)
      BY <1>12, <2>2
    <3>3. FoundAt(Now(p))' = Read(Chain(LoadedFat', tabs'[Front(Now(p))][Last(Now(p))].first))
      BY <1>5, <3>2 DEF FoundAt, ReadTable, HeadOf
    <3> QED
      BY <1>5, <3>1, <3>2, <3>3
  <2> QED
    BY <2>1, <2>2
<1>14. Readable'
  <2>1. ASSUME NEW q \in DOMAIN tabs' \ {<<>>}
        PROVE  HasChain(LoadedFat', tabs'[Front(q)][Last(q)].first)
    <3>1. PICK p \in DOMAIN tabs : q = Now(p)
      BY <1>4
    <3>2. p # <<>>
      BY <1>9, <3>1
    <3>3. HasChain(LoadedFat, HeadOf(p))
      BY <1>5, <3>2 DEF Readable, OnDiskChain
    <3> QED
      BY <1>5, <1>12, <3>1, <3>2, <3>3
  <2> QED
    BY <2>1 DEF Readable, OnDiskChain, HeadOf
<1>15. /\ d \in DOMAIN tabs' /\ dest \in DOMAIN tabs'
       /\ tabs'[d] = edited[d] /\ tabs'[dest] = edited[dest]
       /\ FoundAt(d)' = tabs[d] /\ FoundAt(dest)' = tabs[dest]
       /\ i \in DOMAIN tabs'[d] /\ j \in DOMAIN tabs'[dest]
  <2>1. d \in DOMAIN tabs' /\ dest \in DOMAIN tabs'
        /\ tabs'[d] = edited[d] /\ tabs'[dest] = edited[dest]
    BY <1>4, <1>9
  <2>2. FoundAt(Now(d))' = tabs[d] /\ FoundAt(Now(dest))' = tabs[dest]
    BY <1>13
  <2>3. FoundAt(d)' = tabs[d] /\ FoundAt(dest)' = tabs[dest]
    BY <1>9, <2>2
  <2> QED
    BY <1>4, <2>1, <2>3
<1>16. ASSUME NEW q \in DOMAIN tabs'
       PROVE  /\ DOMAIN FoundAt(q)' = DOMAIN tabs'[q]
              /\ \A k \in DOMAIN tabs'[q] :
                    <<q, k>> \in {<<d, i>>, <<dest, j>>} \/ FoundAt(q)'[k] = tabs'[q][k]
  <2>1. PICK p \in DOMAIN tabs : q = Now(p)
    BY <1>4
  <2>2. FoundAt(Now(p))' = tabs[p]
    BY <1>13
  <2>3. FoundAt(q)' = tabs[p] /\ tabs'[q] = edited[p] /\ DOMAIN edited[p] = DOMAIN tabs[p]
    BY <1>4, <2>1, <2>2
  <2>4. ASSUME NEW k \in DOMAIN tabs[p]
        PROVE  <<q, k>> \in {<<d, i>>, <<dest, j>>} \/ edited[p][k] = tabs[p][k]
    <3>1. CASE <<p, k>> = <<d, i>>
      BY <1>9, <2>1, <3>1
    <3>2. CASE <<p, k>> = <<dest, j>>
      BY <1>9, <2>1, <3>2
    <3>3. CASE <<p, k>> \notin {<<d, i>>, <<dest, j>>}
      BY <1>4, <3>3
    <3> QED
      BY <3>1, <3>2, <3>3
  <2> QED
    BY <2>3, <2>4
<1>17. Moving(d, i, dest, j)'
  <2>1. tabs'[d][i] = EmptyEntry /\ tabs'[dest][j] = tabs[d][i]
    BY <1>4, <1>15
  <2>2. FoundAt(d)'[i] = tabs'[dest][j] /\ FoundAt(dest)'[j] = EmptyEntry
    BY <1>3, <1>15, <2>1
  <2>3. pc' # "dirs" /\ cmd' = cmd
    BY <1>5
  <2> QED
    BY <1>3, <1>8, <1>16, <2>1, <2>2, <2>3 DEF Moving
<1>18. pc' = "fat" /\ cmd' = cmd /\ fat' = LoadedFat'
  BY <1>5
<1> QED
  BY <1>14, <1>15, <1>17, <1>18 DEF MoveInv, Running

LEMMA WriteFatMoveInv ==
    ASSUME TypeInv, MoveInv, WriteFat
    PROVE  MoveInv'
<1>1. /\ pc = "fat" /\ pc' \in {"fat", "dirs"}
      /\ UNCHANGED <<root, data, cmd, fat, tabs>>
      /\ pc' = "dirs" => todo' = DOMAIN tabs \ {<<>>}
      /\ fats' = [fats EXCEPT ![copy] = SavedFat]
  BY DEF WriteFat
<1>2. CASE cmd.op # "move"
  BY <1>1, <1>2, OtherMoveInv
<1>3. CASE cmd.op = "move"
  <2>1. fat = LoadedFat /\ Readable
    BY <1>3 DEF MoveInv
  <2>2. LoadedFat' = LoadedFat
    <3>1. \A c \in Stored : fats'[1][c] = fats[1][c]
      <4>1. 1 \in 1 .. NumberOfFats /\ copy \in 1 .. NumberOfFats
            /\ fats \in [1 .. NumberOfFats -> [Stored -> FatValues]]
        BY <1>1, NumberOfFatsAssumption DEF TypeInv, TypeOK, PhaseOK
      <4>2. \A c \in Stored : SavedFat[c] = fats[1][c]
        BY <2>1, ClusterSets DEF SavedFat, LoadedFat
      <4>3. fats'[1] = IF copy = 1 THEN SavedFat ELSE fats[1]
        BY <1>1, <4>1
      <4> QED
        BY <4>2, <4>3
    <3> QED
      BY <3>1 DEF LoadedFat
  <2>3. \A q : FoundAt(q)' = FoundAt(q)
    BY <1>1, <2>2, SameFound
  <2>4. Readable' /\ (Unshared' => Unshared)
    BY <1>1, <2>1, <2>2 DEF Readable, OnDiskChain, HeadOf, Unshared
  <2>5. ASSUME NEW d \in DOMAIN tabs, NEW dest \in DOMAIN tabs,
               NEW i \in DOMAIN tabs[d], NEW j \in DOMAIN tabs[dest], Moving(d, i, dest, j)
        PROVE  Moving(d, i, dest, j)'
    BY <1>1, <2>3, <2>5 DEF Moving
  <2>6. Unshared' => \E d, dest \in DOMAIN tabs' :
            \E i \in DOMAIN tabs'[d], j \in DOMAIN tabs'[dest] : Moving(d, i, dest, j)'
    BY <1>1, <1>3, <2>4, <2>5 DEF MoveInv
  <2> QED
    BY <1>1, <2>1, <2>2, <2>4, <2>6 DEF MoveInv, Running
<1> QED
  BY <1>2, <1>3

\* A directory is written, all of it or its first clusters, in a move.
LEMMA MoveWrites ==
    ASSUME TypeInv, SafetyInv, ContentInv, MoveInv, pc = "dirs", cmd.op = "move", Unshared,
           NEW p \in todo, CanStore(p),
           NEW tables, tables = tabs,
           NEW n \in 1 .. Len(Chain(fat, HeadOf(p))),
           NEW t, Len(t) = n, \A k \in 1 .. n : t[k] = Chain(fat, HeadOf(p))[k],
           data' = StoreTable(t, tabs[p]), UNCHANGED <<fats, root>>
    PROVE  /\ p \in DOMAIN tabs \ {<<>>}
           /\ \A q \in DOMAIN tables \ {p} : Shown(tables, q)' = FoundAt(q)
           /\ DOMAIN Shown(tables, p)' = DOMAIN tabs[p]
           /\ \A m \in DOMAIN tables[p] :
                Shown(tables, p)'[m] =
                    IF (m - 1) \div SlotsPerCluster + 1 <= n THEN tabs[p][m]
                                                              ELSE FoundAt(p)[m]
           /\ Shown(tables, p)' = FoundAt(p) => ReachableHeads' = ReachableHeads
<1>1. p \in DOMAIN tabs \ {<<>>} /\ fat = LoadedFat /\ Readable
  BY DEF TypeInv, TypeOK, ContentInv, PhasesSet, MoveInv
<1>2. DOMAIN FoundAt(p) = DOMAIN tabs[p]
  BY <1>1 DEF MoveInv, Moving
<1>3. /\ \A q \in DOMAIN tables \ {p} : Shown(tables, q)' = Shown(tables, q)
      /\ DOMAIN Shown(tables, p)' = DOMAIN Shown(tables, p)
      /\ \A m \in DOMAIN tables[p] :
           Shown(tables, p)'[m] =
               IF (m - 1) \div SlotsPerCluster + 1 <= n THEN tables[p][m]
                                                         ELSE Shown(tables, p)[m]
      /\ Shown(tables, p)' = Shown(tables, p)
           => \A c \in Clusters : data'[c].slots = data[c].slots
  BY <1>1, <1>2, TableWrites
<1>4. \A q : Shown(tables, q) = FoundAt(q)
  BY DEF Shown, FoundAt, HeadIn, HeadOf
<1>5. (\A c \in Clusters : data'[c].slots = data[c].slots) => ReachableHeads' = ReachableHeads
  BY SameSlots
<1> QED
  BY <1>1, <1>2, <1>3, <1>4, <1>5

LEMMA WriteDirectoryMoveInv ==
    ASSUME TypeInv, SafetyInv, ContentInv, MoveInv, WriteDirectory
    PROVE  MoveInv'
<1>1. PICK p \in todo :
        /\ IsNext(p)
        /\ IF CanStore(p)
           THEN /\ data' = StoreTable(Chain(fat, HeadOf(p)), tabs[p])
                /\ todo' = todo \ {p}
                /\ UNCHANGED <<fats, root, pc, cmd, fat, tabs, at, slot, head, job, copy, res>>
           ELSE Undefined
  BY DEF WriteDirectory
<1>2. pc = "dirs"
  BY DEF WriteDirectory
<1>3. CASE ~ CanStore(p)
  BY <1>1, <1>3, EndsMoveInv DEF Undefined, Ends
<1>4. CASE CanStore(p) /\ cmd.op # "move"
  BY <1>1, <1>2, <1>4, OtherMoveInv
<1>5. CASE CanStore(p) /\ cmd.op = "move"
  <2> DEFINE t == Chain(fat, HeadOf(p))
             n == Len(t)
  <2>1. /\ data' = StoreTable(t, tabs[p])
        /\ todo' = todo \ {p}
        /\ UNCHANGED <<fats, root, pc, cmd, fat, tabs>>
    BY <1>1, <1>5
  <2>2. fat = LoadedFat /\ Readable /\ LoadedFat' = LoadedFat
    BY <1>5, <2>1 DEF MoveInv, LoadedFat
  <2>3. Readable' /\ (Unshared' => Unshared)
    BY <2>1, <2>2 DEF Readable, OnDiskChain, HeadOf, Unshared
  <2>4. ASSUME Unshared
        PROVE  \E d, dest \in DOMAIN tabs' :
                    \E i \in DOMAIN tabs'[d], j \in DOMAIN tabs'[dest] : Moving(d, i, dest, j)'
    <3>1. PICK d \in DOMAIN tabs, dest \in DOMAIN tabs :
              \E i \in DOMAIN tabs[d], j \in DOMAIN tabs[dest] : Moving(d, i, dest, j)
      BY <1>2, <1>5, <2>4 DEF MoveInv
    <3>2. PICK i \in DOMAIN tabs[d], j \in DOMAIN tabs[dest] : Moving(d, i, dest, j)
      BY <3>1
    <3>3. PICK tables : tables = tabs
      OBVIOUS
    <3>4. n \in Nat \ {0} /\ n \in 1 .. n
      <4>1. n \in Nat \ {0}
        BY <1>5, ChainFacts DEF CanStore
      <4> QED
        BY <4>1
    <3>5. /\ p \in DOMAIN tabs \ {<<>>}
          /\ \A q \in DOMAIN tables \ {p} : Shown(tables, q)' = FoundAt(q)
          /\ DOMAIN Shown(tables, p)' = DOMAIN tabs[p]
          /\ \A m \in DOMAIN tables[p] :
               Shown(tables, p)'[m] =
                   IF (m - 1) \div SlotsPerCluster + 1 <= n THEN tabs[p][m]
                                                             ELSE FoundAt(p)[m]
      BY <1>2, <1>5, <2>1, <2>4, <3>3, <3>4, MoveWrites
    <3>6. \A q : FoundAt(q)' = Shown(tables, q)'
      BY <2>1, <3>3 DEF Shown, FoundAt, HeadIn, HeadOf
    <3>7. \A m \in DOMAIN tabs[p] : (m - 1) \div SlotsPerCluster + 1 <= n
      <4>1. tabs[p] \in Seq(Entry) /\ Len(tabs[p]) <= n * SlotsPerCluster
            /\ SlotsPerCluster \in Nat \ {0} /\ DOMAIN tabs[p] = 1 .. Len(tabs[p])
        BY <1>5, <3>5, TabsTypes, SlotAssumption DEF CanStore
      <4>2. \A m \in 1 .. n * SlotsPerCluster :
                (m - 1) \div SlotsPerCluster + 1 \in 1 .. n
        BY <3>4, <4>1, SlotPlace
      <4>3. \A m \in DOMAIN tabs[p] : m \in 1 .. n * SlotsPerCluster
        <5> HIDE DEF n
        <5>1. n * SlotsPerCluster \in Nat
          BY <3>4, <4>1
        <5> QED
          BY <4>1, <5>1
      <4> HIDE DEF n
      <4> QED
        BY <3>4, <4>2, <4>3
    <3> HIDE DEF n, t
    <3>8. \A q \in DOMAIN tabs \ {p} : FoundAt(q)' = FoundAt(q)
      BY <3>3, <3>5, <3>6
    <3>9. DOMAIN FoundAt(p)' = DOMAIN tabs[p] /\ \A m \in DOMAIN tabs[p] : FoundAt(p)'[m] = tabs[p][m]
      BY <3>3, <3>5, <3>6, <3>7
    <3>10. tabs' = tabs /\ cmd' = cmd /\ todo' = todo \ {p} /\ pc' = pc
      BY <2>1
    <3>11. /\ <<d, i>> # <<dest, j>>
           /\ tabs[d][i] = EmptyEntry
           /\ IsStrictPrefix(Front(cmd.path), cmd.dest) => IsStrictPrefix(d, dest)
           /\ \A q \in DOMAIN tabs :
                /\ DOMAIN FoundAt(q) = DOMAIN tabs[q]
                /\ \A k \in DOMAIN tabs[q] :
                    <<q, k>> \in {<<d, i>>, <<dest, j>>} \/ FoundAt(q)[k] = tabs[q][k]
           /\ FoundAt(d)[i] \in {EmptyEntry, tabs[dest][j]}
           /\ FoundAt(dest)[j] \in {EmptyEntry, tabs[dest][j]}
           /\ dest \notin todo \union {<<>>} => FoundAt(dest)[j] = tabs[dest][j]
      BY <1>2, <3>2 DEF Moving
    <3>12. \A q \in DOMAIN tabs :
                /\ DOMAIN FoundAt(q)' = DOMAIN tabs[q]
                /\ \A k \in DOMAIN tabs[q] :
                    <<q, k>> \in {<<d, i>>, <<dest, j>>} \/ FoundAt(q)'[k] = tabs[q][k]
      BY <3>8, <3>9, <3>11
    <3>13. FoundAt(d)'[i] \in {EmptyEntry, tabs[dest][j]}
      BY <3>8, <3>9, <3>11
    <3>14. /\ FoundAt(dest)'[j] \in {EmptyEntry, tabs[dest][j]}
           /\ dest \notin todo' \union {<<>>} => FoundAt(dest)'[j] = tabs[dest][j]
      BY <3>8, <3>9, <3>10, <3>11
    <3>15. Moving(d, i, dest, j)'
      BY <3>10, <3>11, <3>12, <3>13, <3>14 DEF Moving
    <3> QED
      BY <3>10, <3>15
  <2> QED
    BY <1>2, <1>5, <2>1, <2>2, <2>3, <2>4 DEF MoveInv, Running
<1> QED
  BY <1>3, <1>4, <1>5

LEMMA OtherStepsMoveInv ==
    ASSUME TypeInv, ContentInv,
           \/ Format \/ BeginPut \/ CreateFile \/ EnterDirectory \/ MakeDirectory \/ FillEntry
           \/ BeginDelete \/ VisitEntry \/ SweepDirectory \/ EraseEntry \/ WriteRoot
    PROVE  MoveInv'
<1>1. CASE \E result : Exit(result)
  BY <1>1, EndsMoveInv DEF Exit, Ends
<1>2. CASE Undefined
  BY <1>2, EndsMoveInv DEF Undefined, Ends
<1>3. CASE Format /\ ~ \E result : Exit(result)
  <2>1. cmd.op = "create" /\ cmd' = cmd /\ pc' = "create"
    BY <1>3 DEF Format, TypeInv, PhaseOK
  <2> QED
    BY <2>1, OtherMoveInv
<1>4. CASE BeginPut
  <2>1. cmd.op = "put" /\ cmd' = cmd /\ pc' \in {"fat", "create"}
    BY <1>4 DEF BeginPut, Opened, BeginWrite
  <2> QED
    BY <2>1, OtherMoveInv
<1>5. CASE CreateFile \/ EnterDirectory \/ MakeDirectory \/ FillEntry
  <2>1. pc \in {"create", "path"} /\ cmd' = cmd /\ pc' \in {"create", "path", "fat"}
    BY <1>5 DEF CreateFile, EnterDirectory, MakeDirectory, FillEntry, BeginWrite
  <2>2. cmd.op \in {"create", "put"}
    BY <2>1 DEF TypeInv, PhaseOK
  <2> QED
    BY <2>1, <2>2, OtherMoveInv
<1>6. CASE BeginDelete
  <2>1. cmd.op = "del" /\ cmd' = cmd /\ pc' = "visit"
    BY <1>6 DEF BeginDelete, Opened
  <2> QED
    BY <2>1, OtherMoveInv
<1>7. CASE VisitEntry \/ SweepDirectory \/ (EraseEntry /\ ~ Undefined)
  <2>1. pc \in {"visit", "sweep", "erase"} /\ cmd' = cmd /\ pc' \in {"visit", "sweep", "erase", "fat"}
    BY <1>7 DEF VisitEntry, SweepDirectory, EraseEntry, BeginWrite
  <2>2. cmd.op = "del"
    BY <2>1 DEF ContentInv, PhasesSet
  <2> QED
    BY <2>1, <2>2, OtherMoveInv
<1>8. CASE WriteRoot /\ ~ \E result : Exit(result)
  <2>1. cmd.op = "del" /\ cmd' = cmd /\ pc' = "sweep"
    BY <1>8 DEF WriteRoot, DeletionGoesOn
  <2> QED
    BY <2>1, OtherMoveInv
<1> QED
  BY <1>1, <1>2, <1>3, <1>4, <1>5, <1>6, <1>7, <1>8

LEMMA EndingStepsMoveInv ==
    ASSUME \/ CreateFileFails \/ WalkPathFails \/ SoftDelete \/ DeleteRefused \/ MoveRefused
           \/ Interrupt
    PROVE  MoveInv'
<1>1. Undefined \/ \E result : Exit(result)
  BY DEF CreateFileFails, WalkPathFails, SoftDelete, DeleteRefused, MoveRefused, Interrupt,
         InterruptedBetweenWrites, InterruptedInFormat, InterruptedInFile, InterruptedInErase,
         InterruptedInFat, InterruptedInDirectory, InterruptedInRoot, Interrupted
<1> QED
  BY <1>1, EndsMoveInv DEF Undefined, Exit, Ends

LEMMA UnchangedMoveInv == MoveInv /\ UNCHANGED vars => MoveInv'
<1> SUFFICES ASSUME MoveInv, UNCHANGED vars PROVE MoveInv'
  OBVIOUS
<1>1. UNCHANGED <<fats, root, data, pc, cmd, fat, tabs, todo>>
  BY DEF vars
<1>2. LoadedFat' = LoadedFat
  BY <1>1 DEF LoadedFat
<1>3. \A q : FoundAt(q)' = FoundAt(q)
  BY <1>1, <1>2, SameFound
<1>4. Readable' = Readable /\ Unshared' = Unshared
  BY <1>1, <1>2 DEF Readable, OnDiskChain, HeadOf, Unshared
<1>5. \A d, i, dest, j : Moving(d, i, dest, j) => Moving(d, i, dest, j)'
  BY <1>1, <1>3 DEF Moving
<1>6. cmd'.op = "move" /\ pc' # "scan" /\ Unshared' =>
        \E d, dest \in DOMAIN tabs' :
            \E i \in DOMAIN tabs'[d], j \in DOMAIN tabs'[dest] : Moving(d, i, dest, j)'
  BY <1>1, <1>4, <1>5 DEF MoveInv
<1>7. pc' = "scan" \/ cmd'.op = "move" => fat' = LoadedFat' /\ Readable'
  BY <1>1, <1>2, <1>4 DEF MoveInv
<1>8. pc' = "scan" => \A p \in DOMAIN tabs' : tabs'[p] = FoundAt(p)'
  BY <1>1, <1>3 DEF MoveInv
<1> QED
  BY <1>1, <1>6, <1>7, <1>8 DEF MoveInv, Running

LEMMA NextMoveInv == TypeInv /\ SafetyInv /\ ContentInv /\ MoveInv /\ [Next]_vars => MoveInv'
<1> SUFFICES ASSUME TypeInv, SafetyInv, ContentInv, MoveInv, [Next]_vars PROVE MoveInv'
  OBVIOUS
<1>1. CASE UNCHANGED vars
  BY <1>1, UnchangedMoveInv
<1>2. CASE \E c \in Commands : Start(c)
  BY <1>2, StartMoveInv
<1>3. CASE \E c \in Commands : StartCreate(c)
  BY <1>3, OtherMoveInv DEF StartCreate
<1>4. CASE Step
  BY <1>4, ScanDirectoryMoveInv, MoveEntryMoveInv, WriteFatMoveInv, WriteDirectoryMoveInv,
     OtherStepsMoveInv, EndingStepsMoveInv
     DEF Step
<1>5. CASE Interrupt
  BY <1>5, EndingStepsMoveInv
<1> QED
  BY <1>1, <1>2, <1>3, <1>4, <1>5 DEF Next, Halted

LEMMA MoveInvariant == Spec => [](TypeInv /\ SafetyInv /\ ContentInv /\ MoveInv)
<1>1. Init => MoveInv
  BY InitMoveInv
<1>2. TypeInv /\ SafetyInv /\ ContentInv /\ MoveInv /\ [Next]_vars => MoveInv'
  BY NextMoveInv
<1> QED
  BY <1>1, <1>2, ContentInvariant, PTL DEF Spec

-----------------------------------------------------------------------------
(***************************************************************************)
(* A move downwards.                                                       *)
(***************************************************************************)
\* What a reader finds after a step that brings the whole memory to the disk.
LEMMA MoveShows ==
    ASSUME TypeInv, ContentInv, MoveInv, pc = "dirs", cmd.op = "move", Unshared,
           NEW tables, tables = tabs, UNCHANGED fats,
           \A p \in DOMAIN tabs : \A k \in DOMAIN tabs[p] :
                ~ IsEmpty(tabs[p][k]) =>
                    k \in DOMAIN Shown(tables, p)' /\ Shown(tables, p)'[k] = tabs[p][k]
    PROVE  ReachableHeads \subseteq ReachableHeads'
<1>1. TreeInv /\ TablesComplete /\ Readable
  BY DEF ContentInv, TreeInv, Running, MoveInv
<1>2. PICK d \in DOMAIN tabs, dest \in DOMAIN tabs :
          \E i \in DOMAIN tabs[d], j \in DOMAIN tabs[dest] : Moving(d, i, dest, j)
  BY DEF MoveInv
<1>3. PICK i \in DOMAIN tabs[d], j \in DOMAIN tabs[dest] : Moving(d, i, dest, j)
  BY <1>2
<1>4. ASSUME NEW p \in DOMAIN tabs, NEW k \in DOMAIN FoundAt(p)
      PROVE  \/ FoundAt(p)[k] = EmptyEntry
             \/ \E q \in DOMAIN tabs : \E m \in DOMAIN tabs[q] : FoundAt(p)[k] = tabs[q][m]
  <2>1. k \in DOMAIN tabs[p]
    BY <1>3 DEF Moving
  <2>2. <<p, k>> \in {<<d, i>>, <<dest, j>>} \/ FoundAt(p)[k] = tabs[p][k]
    BY <1>3, <2>1 DEF Moving
  <2>3. FoundAt(d)[i] \in {EmptyEntry, tabs[dest][j]} /\ FoundAt(dest)[j] \in {EmptyEntry, tabs[dest][j]}
    BY <1>3 DEF Moving
  <2> QED
    BY <2>1, <2>2, <2>3
<1>5. ReachableHeads \subseteq HeadsIn(tables)
  BY <1>1, <1>4, HeadsKnown
<1>6. Shows(tables)'
  <2>1. DOMAIN tables \subseteq Seq(Nat) /\ <<>> \in DOMAIN tables
    BY TabsTypes
  <2>2. \A p : HeadIn(tables, p) = HeadOf(p)
    BY DEF HeadIn, HeadOf
  <2>3. LoadedFat' = LoadedFat
    BY DEF LoadedFat
  <2>4. \A p \in DOMAIN tables \ {<<>>} : HasChain(LoadedFat', HeadIn(tables, p))
    BY <1>1, <2>2, <2>3 DEF Readable, OnDiskChain
  <2>5. \A p, q \in DOMAIN tables \ {<<>>} : HeadIn(tables, p) = HeadIn(tables, q) => p = q
    BY <2>2 DEF Unshared
  <2>6. \A p \in DOMAIN tables \ {<<>>} :
            /\ Front(p) \in DOMAIN tables /\ Last(p) \in DOMAIN tables[Front(p)]
            /\ IsSubdir(tables[Front(p)][Last(p)])
    BY <1>1 DEF TreeInv, TablesLed
  <2> QED
    BY <2>1, <2>4, <2>5, <2>6 DEF Shows, OnDiskChain, HeadIn, IsSubdir, IsEmpty, IsDotDir
<1> QED
  BY <1>5, <1>6, AllShownNext

\* Writing a directory, all of it or its first clusters: the entry is in the directory
\* that gains it before it leaves the one above.
LEMMA MoveDownWrites ==
    ASSUME TypeInv, SafetyInv, ContentInv, MoveInv, pc = "dirs", cmd.op = "move", Unshared,
           IsStrictPrefix(Front(cmd.path), cmd.dest),
           NEW p \in todo, IsNext(p), CanStore(p),
           NEW n \in 1 .. Len(Chain(fat, HeadOf(p))),
           NEW t, Len(t) = n, \A k \in 1 .. n : t[k] = Chain(fat, HeadOf(p))[k],
           data' = StoreTable(t, tabs[p]), UNCHANGED <<fats, root>>
    PROVE  ReachableHeads \subseteq ReachableHeads'
<1>1. PICK tables : tables = tabs
  OBVIOUS
<1>2. /\ p \in DOMAIN tabs \ {<<>>}
      /\ \A q \in DOMAIN tables \ {p} : Shown(tables, q)' = FoundAt(q)
      /\ DOMAIN Shown(tables, p)' = DOMAIN tabs[p]
      /\ \A m \in DOMAIN tables[p] :
           Shown(tables, p)'[m] =
               IF (m - 1) \div SlotsPerCluster + 1 <= n THEN tabs[p][m]
                                                         ELSE FoundAt(p)[m]
      /\ Shown(tables, p)' = FoundAt(p) => ReachableHeads' = ReachableHeads
  BY <1>1, MoveWrites
<1>3. PICK d \in DOMAIN tabs, dest \in DOMAIN tabs :
          \E i \in DOMAIN tabs[d], j \in DOMAIN tabs[dest] : Moving(d, i, dest, j)
  BY DEF MoveInv
<1>4. PICK i \in DOMAIN tabs[d], j \in DOMAIN tabs[dest] : Moving(d, i, dest, j)
  BY <1>3
<1>5. /\ tabs[d][i] = EmptyEntry
      /\ IsStrictPrefix(d, dest)
      /\ \A q \in DOMAIN tabs :
            /\ DOMAIN FoundAt(q) = DOMAIN tabs[q]
            /\ \A k \in DOMAIN tabs[q] :
                <<q, k>> \in {<<d, i>>, <<dest, j>>} \/ FoundAt(q)[k] = tabs[q][k]
      /\ dest \notin todo \union {<<>>} => FoundAt(dest)[j] = tabs[dest][j]
  BY <1>4 DEF Moving
<1>6. d \in Seq(Nat) /\ dest \in Seq(Nat) /\ d # dest /\ dest # <<>> /\ ~ Before(d, dest)
  <2>1. d \in Seq(Nat) /\ dest \in Seq(Nat)
    BY TabsTypes
  <2>2. d # dest /\ IsPrefix(d, dest)
    BY <1>5 DEF IsStrictPrefix
  <2>3. Len(d) <= Len(dest) /\ \A k \in 1 .. Len(d) : d[k] = dest[k]
    BY <2>1, <2>2, PrefixIs
  <2>4. dest # <<>>
    <3> SUFFICES ASSUME dest = <<>> PROVE FALSE
      OBVIOUS
    <3>1. Len(d) = 0
      BY <2>1, <2>3
    <3> QED
      BY <2>1, <2>2, <3>1
  <2>5. ~ IsPrefix(dest, d)
    <3> SUFFICES ASSUME IsPrefix(dest, d) PROVE FALSE
      OBVIOUS
    <3>1. Len(dest) <= Len(d)
      BY <2>1, PrefixIs
    <3>2. Len(dest) = Len(d)
      BY <2>1, <2>3, <3>1
    <3> QED
      BY <2>1, <2>2, <2>3, <3>2, SeqEqual
  <2>6. \A k \in 1 .. Len(d) : ~ d[k] < dest[k]
    <3> SUFFICES ASSUME NEW k \in 1 .. Len(d) PROVE ~ d[k] < dest[k]
      OBVIOUS
    <3>1. d[k] = dest[k] /\ d[k] \in Nat
      BY <2>1, <2>3
    <3> QED
      BY <3>1
  <2> QED
    BY <2>1, <2>2, <2>4, <2>5, <2>6 DEF Before, IsStrictPrefix
<1>7. CASE Shown(tables, dest)'[j] = tabs[dest][j]
  <2>1. ASSUME NEW q \in DOMAIN tabs, NEW k \in DOMAIN tabs[q], ~ IsEmpty(tabs[q][k])
        PROVE  k \in DOMAIN Shown(tables, q)' /\ Shown(tables, q)'[k] = tabs[q][k]
    <3>1. <<q, k>> # <<d, i>>
      BY <1>5, <2>1, EntryTypes DEF IsEmpty, EmptyEntry
    <3>2. DOMAIN Shown(tables, q)' = DOMAIN tabs[q]
      BY <1>1, <1>2, <1>5
    <3>3. CASE <<q, k>> = <<dest, j>>
      BY <1>7, <3>2, <3>3
    <3>4. CASE <<q, k>> # <<dest, j>>
      <4>1. FoundAt(q)[k] = tabs[q][k]
        BY <1>5, <3>1, <3>4
      <4> QED
        BY <1>1, <1>2, <3>2, <4>1
    <3> QED
      BY <3>3, <3>4
  <2> QED
    BY <1>1, <2>1, MoveShows
<1>8. CASE Shown(tables, dest)'[j] # tabs[dest][j]
  <2>1. ASSUME NEW m \in DOMAIN tabs[p]
        PROVE  Shown(tables, p)'[m] = FoundAt(p)[m]
    <3>1. Shown(tables, p)'[m] \in {tabs[p][m], FoundAt(p)[m]}
      BY <1>1, <1>2
    <3>2. CASE dest = p
      <4>1. <<p, m>> # <<d, i>>
        BY <1>6, <3>2
      <4>2. CASE m = j
        BY <1>8, <3>1, <3>2, <4>2
      <4>3. CASE m # j
        BY <1>2, <1>5, <3>1, <4>1, <4>3
      <4> QED
        BY <4>2, <4>3
    <3>3. CASE dest # p
      <4>1. FoundAt(dest)[j] # tabs[dest][j]
        BY <1>1, <1>2, <1>8, <3>3
      <4>2. dest \in todo
        BY <1>5, <1>6, <4>1
      <4>3. p # d
        BY <1>6, <3>3, <4>2 DEF IsNext
      <4>4. FoundAt(p)[m] = tabs[p][m]
        BY <1>2, <1>5, <3>3, <4>3
      <4> QED
        BY <3>1, <4>4
    <3> QED
      BY <3>2, <3>3
  <2>2. Shown(tables, p)' = FoundAt(p)
    <3>1. FoundAt(p) = [m \in DOMAIN FoundAt(p) |-> FoundAt(p)[m]]
      BY <1>2 DEF FoundAt, ReadTable
    <3>2. Shown(tables, p)' = [m \in DOMAIN Shown(tables, p)' |-> Shown(tables, p)'[m]]
      BY <1>2 DEF Shown, ReadTable
    <3>3. DOMAIN Shown(tables, p)' = DOMAIN tabs[p] /\ DOMAIN FoundAt(p) = DOMAIN tabs[p]
      BY <1>2, <1>5
    <3> QED
      BY <2>1, <3>1, <3>2, <3>3
  <2> QED
    BY <1>2, <2>2
<1> QED
  BY <1>7, <1>8

\* Writing the root directory, all of it or its first entries, comes last.
LEMMA MoveDownRoot ==
    ASSUME TypeInv, ContentInv, MoveInv, pc = "dirs", cmd.op = "move", Unshared,
           IsStrictPrefix(Front(cmd.path), cmd.dest),
           todo = {}, UNCHANGED <<fats, data>>, DOMAIN root' = 1 .. RootSlots,
           \A k \in 1 .. RootSlots : root'[k] \in {root[k], tabs[<<>>][k]}
    PROVE  ReachableHeads \subseteq ReachableHeads'
<1>1. PICK tables : tables = tabs
  OBVIOUS
<1>2. PICK d \in DOMAIN tabs, dest \in DOMAIN tabs :
          \E i \in DOMAIN tabs[d], j \in DOMAIN tabs[dest] : Moving(d, i, dest, j)
  BY DEF MoveInv
<1>3. PICK i \in DOMAIN tabs[d], j \in DOMAIN tabs[dest] : Moving(d, i, dest, j)
  BY <1>2
<1>4. dest # <<>>
  <2> SUFFICES ASSUME dest = <<>> PROVE FALSE
    OBVIOUS
  <2>1. IsPrefix(d, dest) /\ d # dest /\ d \in Seq(Nat) /\ dest \in Seq(Nat)
    BY <1>3, TabsTypes DEF Moving, IsStrictPrefix
  <2>2. Len(d) <= Len(dest)
    BY <2>1, PrefixIs
  <2>3. Len(d) = 0
    BY <2>1, <2>2
  <2> QED
    BY <2>1, <2>3
<1>5. /\ tabs[d][i] = EmptyEntry
      /\ FoundAt(dest)[j] = tabs[dest][j]
      /\ \A q \in DOMAIN tabs :
            /\ DOMAIN FoundAt(q) = DOMAIN tabs[q]
            /\ \A k \in DOMAIN tabs[q] :
                <<q, k>> \in {<<d, i>>, <<dest, j>>} \/ FoundAt(q)[k] = tabs[q][k]
  BY <1>3, <1>4 DEF Moving
<1>6. LoadedFat' = LoadedFat
  BY DEF LoadedFat
<1>7. \A q \in DOMAIN tabs \ {<<>>} : Shown(tables, q)' = FoundAt(q)
  <2>1. \A q : HeadIn(tables, q) = HeadOf(q)
    BY <1>1 DEF HeadIn, HeadOf
  <2> QED
    BY <1>6, <2>1 DEF Shown, FoundAt, HeadIn, ReadTable
<1>8. <<>> \in DOMAIN tabs /\ DOMAIN tabs[<<>>] = 1 .. RootSlots
      /\ Shown(tables, <<>>)' = root' /\ FoundAt(<<>>) = root
  BY DEF TypeInv, TypeOK, PhaseOK, Running, Shown, FoundAt
<1>9. ASSUME NEW q \in DOMAIN tabs, NEW k \in DOMAIN tabs[q], ~ IsEmpty(tabs[q][k])
      PROVE  k \in DOMAIN Shown(tables, q)' /\ Shown(tables, q)'[k] = tabs[q][k]
  <2>1. <<q, k>> # <<d, i>>
    BY <1>5, <1>9 DEF IsEmpty, EmptyEntry
  <2>2. FoundAt(q)[k] = tabs[q][k] /\ DOMAIN FoundAt(q) = DOMAIN tabs[q]
    BY <1>5, <2>1
  <2> QED
    BY <1>7, <1>8, <2>2
<1> QED
  BY <1>1, <1>9, MoveShows

\* A step that leaves the disk alone.
LEMMA SameDisk == UNCHANGED disk => ReachableHeads' = ReachableHeads
<1> SUFFICES ASSUME UNCHANGED <<fats, root, data>> PROVE ReachableHeads' = ReachableHeads
  BY DEF disk
<1> QED
  BY SameSlots

LEMMA TreeHeads == ReachableHeads = {m.first : m \in DiskTree}
<1>1. \A e : Meaning(e).first = e.entry.first
  BY DEF Meaning
<1>2. \A h \in ReachableHeads : \E e \in DiskEntries : h = e.entry.first
  BY DEF ReachableHeads
<1>3. \A e \in DiskEntries : e.entry.first \in ReachableHeads
  BY DEF ReachableHeads
<1>4. \A e \in DiskEntries : Meaning(e) \in DiskTree
  BY DEF DiskTree
<1>5. \A m \in DiskTree : \E e \in DiskEntries : m = Meaning(e)
  BY DEF DiskTree
<1> QED
  BY <1>1, <1>2, <1>3, <1>4, <1>5

LEMMA MoveDownStep ==
    ASSUME TypeInv, SafetyInv, ContentInv, MoveInv, [Next]_vars, cmd.op = "move", Unshared,
           IsStrictPrefix(Front(cmd.path), cmd.dest)
    PROVE  ReachableHeads \subseteq ReachableHeads'
<1>1. pc \in {"scan", "fat", "dirs"}
  BY DEF MoveInv
<1>2. CASE pc # "dirs"
  <2>1. DiskTree' = DiskTree
    BY <1>1, <1>2, EarlyTree
  <2>2. (ReachableHeads = {m.first : m \in DiskTree})'
    BY TreeHeads, PTL
  <2> QED
    BY <2>1, <2>2, TreeHeads
<1>3. CASE pc = "dirs"
  <2>1. CASE UNCHANGED disk
    BY <2>1, SameDisk
  <2>2. CASE WriteDirectory /\ ~ UNCHANGED disk
    <3>1. PICK p \in todo :
            /\ IsNext(p)
            /\ IF CanStore(p)
               THEN /\ data' = StoreTable(Chain(fat, HeadOf(p)), tabs[p])
                    /\ todo' = todo \ {p}
                    /\ UNCHANGED <<fats, root, pc, cmd, fat, tabs, at, slot, head, job, copy, res>>
               ELSE Undefined
      BY <2>2 DEF WriteDirectory
    <3> DEFINE t == Chain(fat, HeadOf(p))
               n == Len(t)
    <3>2. CanStore(p) /\ data' = StoreTable(t, tabs[p]) /\ UNCHANGED <<fats, root>>
      BY <2>2, <3>1 DEF Undefined
    <3>3. n \in Nat \ {0}
      BY <3>2, ChainFacts DEF CanStore
    <3>4. n \in 1 .. Len(t) /\ \A k \in 1 .. n : t[k] = Chain(fat, HeadOf(p))[k]
      BY <3>3
    <3> QED
      BY <1>3, <3>1, <3>2, <3>4, MoveDownWrites
  <2>3. CASE InterruptedInDirectory
    <3>1. PICK p \in todo :
            LET s == Chain(fat, HeadOf(p))
            IN  /\ IsNext(p)
                /\ CanStore(p)
                /\ \E k \in 1 .. Len(s) : data' = StoreTable(SubSeq(s, 1, k), tabs[p])
      BY <2>3 DEF InterruptedInDirectory
    <3> DEFINE s == Chain(fat, HeadOf(p))
    <3>2. PICK n \in 1 .. Len(s) : data' = StoreTable(SubSeq(s, 1, n), tabs[p])
      BY <3>1
    <3> DEFINE t == SubSeq(s, 1, n)
    <3>3. s \in Seq(Clusters)
      BY <3>1, ChainType DEF CanStore
    <3>4. Len(t) = n /\ \A k \in 1 .. n : t[k] = s[k]
      BY <3>3, PrefixOfChain
    <3>5. IsNext(p) /\ CanStore(p) /\ UNCHANGED <<fats, root>>
      BY <2>3, <3>1 DEF InterruptedInDirectory
    <3> QED
      BY <1>3, <3>2, <3>4, <3>5, MoveDownWrites
  <2>4. CASE WriteRoot
    <3>1. todo = {} /\ root' = tabs[<<>>] /\ UNCHANGED <<fats, data>>
      BY <2>4 DEF WriteRoot
    <3>2. DOMAIN tabs[<<>>] = 1 .. RootSlots
      BY <1>3 DEF TypeInv, TypeOK, PhaseOK, Running
    <3> QED
      BY <1>3, <3>1, <3>2, MoveDownRoot
  <2>5. CASE InterruptedInRoot
    <3>1. todo = {} /\ UNCHANGED <<fats, data>>
      BY <2>5 DEF InterruptedInRoot
    <3>2. PICK k \in 1 .. RootSlots :
            root' = [i \in 1 .. RootSlots |-> IF i <= k THEN tabs[<<>>][i] ELSE root[i]]
      BY <2>5 DEF InterruptedInRoot
    <3>3. DOMAIN root' = 1 .. RootSlots
          /\ \A i \in 1 .. RootSlots : root'[i] \in {root[i], tabs[<<>>][i]}
      BY <3>2
    <3> QED
      BY <1>3, <3>1, <3>3, MoveDownRoot
  <2>6. CASE InterruptedBetweenWrites
    BY <2>1, <2>6 DEF InterruptedBetweenWrites
  <2>7. \/ UNCHANGED vars \/ WriteDirectory \/ WriteRoot \/ InterruptedBetweenWrites
        \/ InterruptedInDirectory \/ InterruptedInRoot
    <3>1. ASSUME Next PROVE Step \/ Interrupt
      BY <1>3, <3>1 DEF Next, Start, StartCreate, Halted
    <3>2. ASSUME Step PROVE WriteDirectory \/ WriteRoot
      BY <1>3, <3>2
         DEF Step, ScanDirectory, Format, BeginPut, CreateFile, CreateFileFails, EnterDirectory,
             MakeDirectory, FillEntry, WalkPathFails, BeginDelete, SoftDelete, DeleteRefused,
             VisitEntry, SweepDirectory, EraseEntry, MoveEntry, MoveRefused, WriteFat, Opened
    <3>3. ASSUME Interrupt
          PROVE  InterruptedBetweenWrites \/ InterruptedInDirectory \/ InterruptedInRoot
      BY <1>3, <3>3 DEF Interrupt, InterruptedInFormat, InterruptedInFile, InterruptedInErase,
                        InterruptedInFat
    <3> QED
      BY <3>1, <3>2, <3>3
  <2>8. UNCHANGED vars => UNCHANGED disk
    BY DEF vars, disk
  <2> QED
    BY <2>1, <2>2, <2>3, <2>4, <2>5, <2>6, <2>7, <2>8
<1> QED
  BY <1>2, <1>3

\* A move into a directory below the one the entry is in never loses the entry, in
\* whatever write it is interrupted: write_root_dir writes the directory that gains it
\* before the one above that gives it up.
THEOREM MovesDownLoseNothing == Spec => MoveDownLosesNothing
<1>1. TypeInv /\ SafetyInv /\ ContentInv /\ MoveInv /\ [Next]_vars
        => [cmd.op = "move" /\ IsStrictPrefix(Front(cmd.path), cmd.dest) /\ Fits /\ Unshared
                => ReachableHeads \subseteq ReachableHeads']_vars
  BY MoveDownStep
<1> QED
  BY <1>1, MoveInvariant, PTL DEF Spec, MoveDownLosesNothing

-----------------------------------------------------------------------------
(***************************************************************************)
(* Names along the slots of a directory.                                   *)
(***************************************************************************)
IsPath(x) == \E S : x \in Seq(S)

LEMMA PathGrows ==
    ASSUME NEW t, IsPath(t), NEW x
    PROVE  /\ IsPath(Append(t, x))
           /\ Len(t) \in Nat /\ Len(Append(t, x)) = Len(t) + 1
           /\ \A k \in 1 .. Len(t) : Append(t, x)[k] = t[k]
           /\ Append(t, x)[Len(t) + 1] = x
<1>1. PICK S : t \in Seq(S)
  BY DEF IsPath
<1> DEFINE T == S \union {x}
<1>2. t \in Seq(T) /\ x \in T
  <2>1. Len(t) \in Nat /\ t = [k \in 1 .. Len(t) |-> t[k]] /\ \A k \in 1 .. Len(t) : t[k] \in T
    BY <1>1
  <2> HIDE DEF T
  <2>2. t \in Seq(T)
    BY <2>1
  <2> QED
    BY <2>2 DEF T
<1> HIDE DEF T
<1>3. Append(t, x) \in Seq(T)
  BY <1>2
<1> QED
  BY <1>2, <1>3 DEF IsPath

LEMMA IsPrefixOf ==
    ASSUME NEW v, IsPath(v), NEW t, IsPath(t)
    PROVE  /\ Len(v) \in Nat /\ Len(t) \in Nat
           /\ IsPrefix(v, t) <=> Len(v) <= Len(t) /\ \A k \in 1 .. Len(v) : v[k] = t[k]
<1>1. PICK S : v \in Seq(S)
  BY DEF IsPath
<1>2. PICK T : t \in Seq(T)
  BY DEF IsPath
<1> DEFINE U == S \union T
<1>3. v \in Seq(U)
  <2>1. Len(v) \in Nat /\ v = [k \in 1 .. Len(v) |-> v[k]] /\ \A k \in 1 .. Len(v) : v[k] \in U
    BY <1>1
  <2> HIDE DEF U
  <2> QED
    BY <2>1
<1>4. t \in Seq(U)
  <2>1. Len(t) \in Nat /\ t = [k \in 1 .. Len(t) |-> t[k]] /\ \A k \in 1 .. Len(t) : t[k] \in U
    BY <1>2
  <2> HIDE DEF U
  <2> QED
    BY <2>1
<1> HIDE DEF U
<1> QED
  BY <1>3, <1>4, PrefixIs

\* What is below a directory has a path that its path begins.
LEMMA PrefixGrows ==
    ASSUME NEW v, IsPath(v), NEW t, IsPath(t), NEW x
    PROVE  /\ IsPrefix(v, t) => IsPrefix(v, Append(t, x))
           /\ IsPrefix(v, Append(t, x)) /\ Len(t) >= Len(v) => IsPrefix(v, t)
<1>1. /\ IsPath(Append(t, x))
      /\ Len(t) \in Nat /\ Len(Append(t, x)) = Len(t) + 1
      /\ \A k \in 1 .. Len(t) : Append(t, x)[k] = t[k]
  BY PathGrows
<1>2. /\ Len(v) \in Nat
      /\ IsPrefix(v, t) <=> Len(v) <= Len(t) /\ \A k \in 1 .. Len(v) : v[k] = t[k]
  BY IsPrefixOf
<1>3. IsPrefix(v, Append(t, x)) <=>
        Len(v) <= Len(Append(t, x)) /\ \A k \in 1 .. Len(v) : v[k] = Append(t, x)[k]
  BY <1>1, IsPrefixOf
<1> QED
  BY <1>1, <1>2, <1>3

LEMMA NamesOf ==
    ASSUME TypeInv, NEW d \in DOMAIN tabs
    PROVE  IsPath(NamesAlong(d)) /\ Len(NamesAlong(d)) = Len(d) /\ Len(d) \in Nat
<1> DEFINE s == NamesAlong(d)
           S == {s[k] : k \in 1 .. Len(d)}
<1>1. Len(d) \in Nat
  BY TabsTypes
<1>2. s = [k \in 1 .. Len(d) |-> s[k]]
  BY DEF NamesAlong
<1>3. \A k \in 1 .. Len(d) : s[k] \in S
  OBVIOUS
<1> HIDE DEF s, S
<1>4. s \in Seq(S) /\ Len(s) = Len(d)
  BY <1>1, <1>2, <1>3
<1> QED
  BY <1>1, <1>4 DEF IsPath, s

\* The names along the slots of an entry: those of its directory, then its own.
LEMMA NamesBelow ==
    ASSUME TypeInv, NEW d \in DOMAIN tabs, NEW i \in DOMAIN tabs[d]
    PROVE  NamesAlong(Append(d, i)) = Append(NamesAlong(d), tabs[d][i].name)
<1> DEFINE p == Append(d, i)
           n == Len(d)
           x == tabs[d][i].name
<1>1. /\ d \in Seq(Nat) /\ n \in Nat /\ p \in Seq(Nat) /\ Len(p) = n + 1
      /\ \A k \in 1 .. n : p[k] = d[k] /\ p[k] \in Nat
      /\ p[n + 1] = i /\ i \in Nat
  <2>1. d \in Seq(Nat) /\ i \in Nat
    BY TabsTypes
  <2> QED
    BY <2>1, AppendFacts
<1> HIDE DEF p
<1>2. ASSUME NEW m \in 0 .. n
      PROVE  SubSeq(p, 1, m) = SubSeq(d, 1, m)
  <2>1. m \in Nat /\ \A k \in 1 .. m : k \in 1 .. n /\ k \in 1 .. n + 1
    BY <1>1
  <2>2. \A k \in 1 .. m : p[k] \in Nat /\ d[k] \in Nat /\ p[k] = d[k]
    BY <1>1, <2>1
  <2>3. /\ SubSeq(p, 1, m) \in Seq(Nat) /\ Len(SubSeq(p, 1, m)) = IF 1 <= m THEN m - 1 + 1 ELSE 0
        /\ \A k \in 1 .. m - 1 + 1 : SubSeq(p, 1, m)[k] = p[1 + k - 1]
    BY <2>1, <2>2, SubSeqProperties, 1 \in Int, m \in Int
  <2>4. /\ SubSeq(d, 1, m) \in Seq(Nat) /\ Len(SubSeq(d, 1, m)) = IF 1 <= m THEN m - 1 + 1 ELSE 0
        /\ \A k \in 1 .. m - 1 + 1 : SubSeq(d, 1, m)[k] = d[1 + k - 1]
    BY <2>1, <2>2, SubSeqProperties, 1 \in Int, m \in Int
  <2>5. /\ Len(SubSeq(p, 1, m)) = m /\ Len(SubSeq(d, 1, m)) = m
        /\ \A k \in 1 .. m : SubSeq(p, 1, m)[k] = p[k] /\ SubSeq(d, 1, m)[k] = d[k]
    BY <2>1, <2>3, <2>4
  <2> QED
    BY <2>2, <2>3, <2>4, <2>5, SeqEqual
<1>3. SubSeq(d, 1, n) = d
  BY <1>1
<1> HIDE DEF n
<1>4. ASSUME NEW k \in 1 .. n + 1
      PROVE  SubSeq(p, 1, k - 1) = SubSeq(d, 1, k - 1)
  BY <1>1, <1>2
<1>5. NamesAlong(p) = [k \in 1 .. n + 1 |->
                        IF k = n + 1 THEN x ELSE tabs[SubSeq(d, 1, k - 1)][d[k]].name]
  <2>1. ASSUME NEW k \in 1 .. n + 1
        PROVE  tabs[SubSeq(p, 1, k - 1)][p[k]].name
                = IF k = n + 1 THEN x ELSE tabs[SubSeq(d, 1, k - 1)][d[k]].name
    <3>1. CASE k = n + 1
      <4>1. k - 1 = n
        BY <1>1, <3>1
      <4> QED
        BY <1>1, <1>3, <1>4, <3>1, <4>1
    <3>2. CASE k # n + 1
      <4>1. k \in 1 .. n
        BY <1>1, <3>2
      <4> QED
        BY <1>1, <1>4, <3>2, <4>1
    <3> QED
      BY <3>1, <3>2
  <2> QED
    BY <1>1, <2>1 DEF NamesAlong
<1>6. NamesAlong(d) = [k \in 1 .. n |-> tabs[SubSeq(d, 1, k - 1)][d[k]].name]
  BY DEF NamesAlong, n
<1> DEFINE s == NamesAlong(d)
<1>7. /\ IsPath(s) /\ Len(s) = n
      /\ \A k \in 1 .. n : s[k] = tabs[SubSeq(d, 1, k - 1)][d[k]].name
  BY <1>6, NamesOf DEF n
<1> HIDE DEF s
<1>8. /\ IsPath(Append(s, x)) /\ Len(Append(s, x)) = n + 1
      /\ \A k \in 1 .. n : Append(s, x)[k] = s[k]
      /\ Append(s, x)[n + 1] = x
  BY <1>7, PathGrows
<1>9. Append(s, x) = [k \in 1 .. n + 1 |-> Append(s, x)[k]]
  BY <1>8 DEF IsPath
<1>10. ASSUME NEW k \in 1 .. n + 1
       PROVE  Append(s, x)[k] = IF k = n + 1 THEN x ELSE tabs[SubSeq(d, 1, k - 1)][d[k]].name
  <2>1. k = n + 1 \/ k \in 1 .. n
    BY <1>1
  <2>2. n + 1 \notin 1 .. n
    BY <1>1
  <2> QED
    BY <1>7, <1>8, <2>1, <2>2
<1> QED
  BY <1>5, <1>9, <1>10 DEF p, s

-----------------------------------------------------------------------------
(***************************************************************************)
(* A step that empties slots, and what a reader finds after it.            *)
(***************************************************************************)
\* The table that slot m of t leads to along the chain s.
Child(t, m, s) ==
    [path |-> Append(t.path, t.table[m].name), table |-> ReadTable(s),
     above |-> t.above \union {t.table[m].first}]

LEMMA Children ==
    \A t, u : u \in TablesIn(t) <=>
        \E m \in DOMAIN t.table :
            /\ IsSubdir(t.table[m]) /\ t.table[m].first \notin t.above
            /\ \E s \in ChainsFrom(LoadedFat, t.table[m].first) : u = Child(t, m, s)
<1> TAKE t, u
<1> DEFINE Led == {e \in {t.table[i] : i \in DOMAIN t.table} : IsSubdir(e) /\ e.first \notin t.above}
           Under(e) == {[path |-> Append(t.path, e.name), table |-> ReadTable(s),
                         above |-> t.above \union {e.first}] : s \in ChainsFrom(LoadedFat, e.first)}
<1>1. TablesIn(t) = UNION {Under(e) : e \in Led}
  BY DEF TablesIn
<1>2. \A m : u \in Under(t.table[m]) <=>
                \E s \in ChainsFrom(LoadedFat, t.table[m].first) : u = Child(t, m, s)
  BY DEF Child
<1>3. \A e : e \in Led <=> \E m \in DOMAIN t.table :
                e = t.table[m] /\ IsSubdir(t.table[m]) /\ t.table[m].first \notin t.above
  OBVIOUS
<1> HIDE DEF Led, Under
<1>4. u \in TablesIn(t) <=> \E e \in Led : u \in Under(e)
  BY <1>1
<1> QED
  BY <1>2, <1>3, <1>4

LEMMA ChildrenNext ==
    \A t, u : u \in TablesIn(t)' <=>
        \E m \in DOMAIN t.table :
            /\ IsSubdir(t.table[m]) /\ t.table[m].first \notin t.above
            /\ \E s \in ChainsFrom(LoadedFat', t.table[m].first) : u = Child(t, m, s)'
<1>1. (\A t, u : u \in TablesIn(t) <=>
        \E m \in DOMAIN t.table :
            /\ IsSubdir(t.table[m]) /\ t.table[m].first \notin t.above
            /\ \E s \in ChainsFrom(LoadedFat, t.table[m].first) : u = Child(t, m, s))'
  BY Children, PTL
<1> QED
  BY <1>1

LEMMA LevelFactsNext ==
    \E v :
        /\ DiskTables' = v[Cardinality(Stored)]
        /\ v[0] = {Top'}
        /\ \A n \in 1 .. Cardinality(Stored) :
                v[n] = {Top'} \union UNION {TablesIn(t)' : t \in v[n - 1]}
<1>1. (\E w :
        /\ DiskTables = w[Cardinality(Stored)]
        /\ w[0] = {Top}
        /\ \A n \in 1 .. Cardinality(Stored) :
                w[n] = {Top} \union UNION {TablesIn(t) : t \in w[n - 1]})'
  BY LevelFacts, PTL
<1> QED
  BY <1>1

\* The entries a reader finds, by their slots.
LEMMA EntriesFound ==
    \A e : e \in DiskEntries <=>
        \E t \in DiskTables : \E m \in Victims(t.table) :
            e = [path |-> Append(t.path, t.table[m].name), entry |-> t.table[m]]
<1> TAKE e
<1> DEFINE Of(t) == {[path |-> Append(t.path, t.table[i].name), entry |-> t.table[i]] :
                        i \in Victims(t.table)}
<1>1. DiskEntries = UNION {Of(t) : t \in DiskTables}
  BY DEF DiskEntries
<1>2. \A t : e \in Of(t) <=> \E m \in Victims(t.table) :
            e = [path |-> Append(t.path, t.table[m].name), entry |-> t.table[m]]
  OBVIOUS
<1> HIDE DEF Of
<1>3. e \in DiskEntries <=> \E t \in DiskTables : e \in Of(t)
  BY <1>1
<1> QED
  BY <1>2, <1>3

LEMMA EntriesFoundNext ==
    \A e : e \in DiskEntries' <=>
        \E t \in DiskTables' : \E m \in Victims(t.table) :
            e = [path |-> Append(t.path, t.table[m].name), entry |-> t.table[m]]
<1>1. (\A e : e \in DiskEntries <=>
        \E t \in DiskTables : \E m \in Victims(t.table) :
            e = [path |-> Append(t.path, t.table[m].name), entry |-> t.table[m]])'
  BY EntriesFound, PTL
<1>2. \A T : Victims(T)' = Victims(T)
  BY DEF Victims, IsEmpty, IsDotDir
<1> QED
  BY <1>1, <1>2

\* Slots of directories are emptied, or stay.
Emptied ==
    /\ UNCHANGED fats
    /\ DOMAIN root' = DOMAIN root
    /\ \A i \in DOMAIN root : root'[i] \in {root[i], EmptyEntry}
    /\ \A c \in Clusters : \A i \in 1 .. SlotsPerCluster :
            data'[c].slots[i] \in {data[c].slots[i], EmptyEntry}

LEMMA EmptiedTable ==
    ASSUME Emptied, NEW h, NEW s \in ChainsFrom(LoadedFat, h)
    PROVE  /\ DOMAIN ReadTable(s)' = DOMAIN ReadTable(s)
           /\ \A m \in DOMAIN ReadTable(s) : ReadTable(s)'[m] \in {ReadTable(s)[m], EmptyEntry}
<1>1. s \in Seq(Clusters)
  <2>1. HasChain(LoadedFat, h)
    BY DEF HasChain
  <2> QED
    BY <2>1, OneChain, ChainFacts
<1>2. SlotsPerCluster \in Nat \ {0} /\ Len(s) \in Nat
  BY <1>1, SlotAssumption
<1>3. /\ DOMAIN ReadTable(s) = 1 .. Len(s) * SlotsPerCluster
      /\ DOMAIN ReadTable(s)' = 1 .. Len(s) * SlotsPerCluster
  BY DEF ReadTable
<1>4. ASSUME NEW m \in 1 .. Len(s) * SlotsPerCluster
      PROVE  ReadTable(s)'[m] \in {ReadTable(s)[m], EmptyEntry}
  <2> DEFINE k == (m - 1) \div SlotsPerCluster + 1
             i == ((m - 1) % SlotsPerCluster) + 1
  <2>1. k \in 1 .. Len(s) /\ i \in 1 .. SlotsPerCluster
    BY <1>2, SlotPlace
  <2>2. ReadTable(s)[m] = data[s[k]].slots[i] /\ ReadTable(s)'[m] = data'[s[k]].slots[i]
    BY DEF ReadTable
  <2> HIDE DEF k, i
  <2>3. s[k] \in Clusters
    BY <1>1, <2>1
  <2> QED
    BY <2>1, <2>2, <2>3 DEF Emptied
<1> QED
  BY <1>3, <1>4

\* A reader finds no entry it would not have found before.
LEMMA TreeShrinks ==
    ASSUME Emptied
    PROVE  DiskTree' \subseteq DiskTree
<1> DEFINE N == Cardinality(Stored)
<1>1. N \in Nat
  BY ClusterSets, FS_Subset, FS_CardinalityType
<1>2. PICK w :
        /\ DiskTables = w[N]
        /\ w[0] = {Top}
        /\ \A n \in 1 .. N : w[n] = {Top} \union UNION {TablesIn(t) : t \in w[n - 1]}
  BY LevelFacts
<1>3. PICK v :
        /\ DiskTables' = v[N]
        /\ v[0] = {Top'}
        /\ \A n \in 1 .. N : v[n] = {Top'} \union UNION {TablesIn(t)' : t \in v[n - 1]}
  BY LevelFactsNext
<1>4. LoadedFat' = LoadedFat
  BY DEF Emptied, LoadedFat
<1> HIDE DEF N
<1>5. \A n \in 0 .. N : Top \in w[n]
  <2>1. \A n \in 0 .. N : n = 0 \/ n \in 1 .. N
    BY <1>1
  <2> QED
    BY <1>2, <2>1
<1> DEFINE From(u, t) ==
                /\ u.path = t.path /\ u.above = t.above
                /\ DOMAIN u.table = DOMAIN t.table
                /\ \A m \in DOMAIN t.table : u.table[m] \in {t.table[m], EmptyEntry}
           Ok(n) == \A u \in v[n] : \E t \in w[n] : From(u, t)
           Bad == {n \in 0 .. N : ~ Ok(n)}
<1>6. From(Top', Top)
  BY DEF Top, Emptied
<1>7. Bad = {}
  <2> SUFFICES ASSUME Bad # {} PROVE FALSE
    OBVIOUS
  <2>1. Bad \in SUBSET Nat
    OBVIOUS
  <2> HIDE DEF Bad
  <2>2. PICK n \in Bad : \A x \in Bad : n <= x
    BY <2>1, MinOfNaturals
  <2> USE DEF Bad
  <2> HIDE DEF From
  <2>3. Ok(0)
    BY <1>1, <1>3, <1>5, <1>6
  <2>4. n \in 1 .. N /\ n - 1 \in 0 .. N /\ Ok(n - 1)
    <3> HIDE DEF Ok
    <3>1. n \in 0 .. N /\ n # 0
      BY <2>2, <2>3
    <3> QED
      BY <1>1, <2>2, <3>1
  <2>5. ASSUME NEW u \in v[n]
        PROVE  \E t \in w[n] : From(u, t)
    <3>1. CASE u = Top'
      BY <1>5, <1>6, <2>4, <3>1
    <3>2. CASE u # Top'
      <4>1. PICK u1 \in v[n - 1] : u \in TablesIn(u1)'
        BY <1>3, <2>4, <3>2
      <4>2. PICK t1 \in w[n - 1] : From(u1, t1)
        BY <2>4
      <4>3. PICK m \in DOMAIN u1.table :
                /\ IsSubdir(u1.table[m]) /\ u1.table[m].first \notin u1.above
                /\ \E s \in ChainsFrom(LoadedFat', u1.table[m].first) : u = Child(u1, m, s)'
        BY <4>1, ChildrenNext
      <4>4. PICK s \in ChainsFrom(LoadedFat', u1.table[m].first) : u = Child(u1, m, s)'
        BY <4>3
      <4>5. /\ m \in DOMAIN t1.table /\ u1.table[m] = t1.table[m]
            /\ u1.path = t1.path /\ u1.above = t1.above
        BY <4>2, <4>3, EntryTypes DEF From
      <4> DEFINE t == Child(t1, m, s)
      <4>6. s \in ChainsFrom(LoadedFat, t1.table[m].first)
        BY <1>4, <4>4, <4>5
      <4>7. t \in TablesIn(t1)
        BY <4>3, <4>5, <4>6, Children
      <4>8. t \in w[n]
        BY <1>2, <2>4, <4>2, <4>7
      <4>9. From(u, t)
        <5>1. /\ DOMAIN ReadTable(s)' = DOMAIN ReadTable(s)
              /\ \A x \in DOMAIN ReadTable(s) : ReadTable(s)'[x] \in {ReadTable(s)[x], EmptyEntry}
          BY <4>6, EmptiedTable
        <5>2. u.table = ReadTable(s)' /\ t.table = ReadTable(s) /\ u.path = t.path /\ u.above = t.above
          BY <4>4, <4>5 DEF Child
        <5> QED
          BY <5>1, <5>2 DEF From
      <4> QED
        BY <4>8, <4>9
    <3> QED
      BY <3>1, <3>2
  <2> QED
    BY <2>2, <2>5
<1>8. ASSUME NEW u \in DiskTables', NEW m \in Victims(u.table)
      PROVE  \E t \in DiskTables : t.path = u.path /\ m \in Victims(t.table) /\ t.table[m] = u.table[m]
  <2>1. N \in 0 .. N
    BY <1>1
  <2>2. PICK t \in w[N] : From(u, t)
    BY <1>3, <1>7, <2>1
  <2>3. /\ m \in DOMAIN u.table /\ ~ IsEmpty(u.table[m]) /\ ~ IsDotDir(u.table[m])
    BY DEF Victims
  <2>4. u.table[m] # EmptyEntry
    BY <2>3 DEF IsEmpty, EmptyEntry
  <2>5. m \in DOMAIN t.table /\ t.table[m] = u.table[m] /\ t.path = u.path
    BY <2>2, <2>3, <2>4
  <2>6. m \in Victims(t.table)
    BY <2>3, <2>5 DEF Victims
  <2> QED
    BY <1>2, <2>5, <2>6
<1>9. ASSUME NEW e \in DiskEntries'
      PROVE  e \in DiskEntries
  <2>1. PICK u \in DiskTables' : \E m \in Victims(u.table) :
            e = [path |-> Append(u.path, u.table[m].name), entry |-> u.table[m]]
    BY EntriesFoundNext
  <2>2. PICK m \in Victims(u.table) :
            e = [path |-> Append(u.path, u.table[m].name), entry |-> u.table[m]]
    BY <2>1
  <2>3. PICK t \in DiskTables : t.path = u.path /\ m \in Victims(t.table) /\ t.table[m] = u.table[m]
    BY <1>8
  <2> DEFINE d == [path |-> Append(t.path, t.table[m].name), entry |-> t.table[m]]
  <2>4. d = e
    BY <2>2, <2>3
  <2>5. d \in DiskEntries
    BY <2>3, EntriesFound
  <2> QED
    BY <2>4, <2>5
<1>10. DiskTree = {Meaning(e) : e \in DiskEntries} /\ DiskTree' = {Meaning(e) : e \in DiskEntries'}
  BY DEF DiskTree, Meaning
<1> QED
  BY <1>9, <1>10

\* A reader misses nothing but what is at a path or below it, when memory and disk
\* differ, and the disk changes, in nothing else.
LEMMA LocalChange ==
    ASSUME TypeInv, TreeInv, TablesComplete, Emptied,
           NEW path, IsPath(path),
           NEW tables, tables = tabs,
           \A p \in DOMAIN tabs : \A m \in DOMAIN FoundAt(p) :
                \/ m \in DOMAIN tabs[p] /\ FoundAt(p)[m] = tabs[p][m]
                \/ FoundAt(p)[m] = EmptyEntry
                \/ IsPrefix(path, Append(NamesAlong(p), FoundAt(p)[m].name)),
           \A p \in DOMAIN tabs :
                \/ IsPrefix(path, NamesAlong(p))
                \/ \A m \in DOMAIN FoundAt(p) :
                    \/ Shown(tables, p)'[m] = FoundAt(p)[m]
                    \/ IsPrefix(path, Append(NamesAlong(p), FoundAt(p)[m].name))
    PROVE  \A e \in DiskTree \ DiskTree' : IsPrefix(path, e.path)
<1> DEFINE N == Cardinality(Stored)
<1>1. N \in Nat
  BY ClusterSets, FS_Subset, FS_CardinalityType
<1>2. PICK w :
        /\ DiskTables = w[N]
        /\ w[0] = {Top}
        /\ \A n \in 1 .. N : w[n] = {Top} \union UNION {TablesIn(t) : t \in w[n - 1]}
  BY LevelFacts
<1>3. PICK v :
        /\ DiskTables' = v[N]
        /\ v[0] = {Top'}
        /\ \A n \in 1 .. N : v[n] = {Top'} \union UNION {TablesIn(t)' : t \in v[n - 1]}
  BY LevelFactsNext
<1>4. LoadedFat' = LoadedFat
  BY DEF Emptied, LoadedFat
<1> HIDE DEF N
<1>5. \A n \in 0 .. N : Top' \in v[n]
  <2>1. \A n \in 0 .. N : n = 0 \/ n \in 1 .. N
    BY <1>1
  <2> QED
    BY <1>3, <2>1
<1> DEFINE Kept(t, n, p) ==
                /\ t.path = NamesAlong(p) /\ t.table = FoundAt(p)
                /\ \E u \in v[n] :
                    u.path = t.path /\ u.above = t.above /\ u.table = Shown(tables, p)'
           Local(t, n) ==
                /\ IsPath(t.path)
                /\ IsPrefix(path, t.path) \/ \E p \in DOMAIN tabs : Kept(t, n, p)
           Ok(n) == \A t \in w[n] : Local(t, n)
           Bad == {n \in 0 .. N : ~ Ok(n)}
<1>6. \A n \in 0 .. N : Local(Top, n)
  <2>1. NamesAlong(<<>>) = <<>> /\ IsPath(<<>>)
    <3>1. <<>> \in Seq({})
      OBVIOUS
    <3> QED
      BY <3>1 DEF NamesAlong, IsPath
  <2>2. <<>> \in DOMAIN tabs
    BY TabsTypes
  <2>3. Shown(tables, <<>>)' = root' /\ FoundAt(<<>>) = root
    BY DEF Shown, FoundAt
  <2>4. \A n \in 0 .. N : Kept(Top, n, <<>>)
    BY <1>5, <2>1, <2>3 DEF Top
  <2> HIDE DEF Kept
  <2> QED
    BY <2>1, <2>2, <2>4 DEF Top
<1>7. ASSUME NEW n \in 1 .. N, NEW t1 \in w[n - 1], Local(t1, n - 1), NEW t \in TablesIn(t1)
      PROVE  Local(t, n)
  <2>1. PICK m \in DOMAIN t1.table :
            /\ IsSubdir(t1.table[m]) /\ t1.table[m].first \notin t1.above
            /\ \E s \in ChainsFrom(LoadedFat, t1.table[m].first) : t = Child(t1, m, s)
    BY Children
  <2>2. PICK s \in ChainsFrom(LoadedFat, t1.table[m].first) : t = Child(t1, m, s)
    BY <2>1
  <2> DEFINE e == t1.table[m]
  <2>3. /\ t.path = Append(t1.path, e.name) /\ t.table = ReadTable(s)
        /\ t.above = t1.above \union {e.first}
    BY <2>2 DEF Child
  <2>4. IsPath(t1.path) /\ IsPath(t.path)
    BY <1>7, <2>3, PathGrows
  <2>5. IsPrefix(path, t1.path) => IsPrefix(path, t.path)
    BY <2>3, <2>4, PrefixGrows
  <2>6. ASSUME ~ IsPrefix(path, t.path)
        PROVE  \E p \in DOMAIN tabs : Kept(t, n, p)
    <3>1. PICK p \in DOMAIN tabs : Kept(t1, n - 1, p)
      <4> HIDE DEF Kept
      <4> QED
        BY <1>7, <2>5, <2>6
    <3>2. PICK u1 \in v[n - 1] :
              u1.path = t1.path /\ u1.above = t1.above /\ u1.table = Shown(tables, p)'
      BY <3>1
    <3>3. /\ t1.path = NamesAlong(p) /\ t1.table = FoundAt(p)
          /\ e = FoundAt(p)[m] /\ m \in DOMAIN FoundAt(p)
      BY <3>1
    <3> HIDE DEF e
    <3>4. /\ ~ IsPrefix(path, Append(NamesAlong(p), e.name))
          /\ ~ IsPrefix(path, NamesAlong(p))
          /\ e # EmptyEntry /\ IsSubdir(e)
      <4>1. IsSubdir(e)
        BY <2>1 DEF e
      <4> QED
        BY <2>3, <2>5, <2>6, <3>3, <4>1, EntryTypes
    <3>5. /\ m \in DOMAIN tabs[p] /\ tabs[p][m] = e
          /\ Shown(tables, p)'[m] = e
      BY <3>3, <3>4
    <3> DEFINE q == Append(p, m)
    <3>6. q \in DOMAIN tabs /\ q # <<>> /\ Front(q) = p /\ Last(q) = m
      <4>1. p \in Seq(Nat) /\ m \in Nat
        BY <3>5, TabsTypes
      <4> QED
        BY <3>4, <3>5, <4>1, AppendFacts, AppendEnds DEF TablesComplete
    <3>7. NamesAlong(q) = t.path
      BY <2>3, <3>3, <3>5, NamesBelow
    <3> HIDE DEF q
    <3>8. HeadOf(q) = e.first /\ HeadIn(tables, q) = e.first
      BY <3>5, <3>6 DEF HeadOf, HeadIn
    <3>9. s = Chain(LoadedFat, e.first)
      BY OneChain DEF e
    <3>10. FoundAt(q) = t.table
      BY <2>3, <3>6, <3>8, <3>9 DEF FoundAt
    <3>11. Shown(tables, q)' = ReadTable(s)'
      <4>1. Shown(tables, q)' = ReadTable(Chain(LoadedFat, HeadIn(tables, q)))'
        BY <3>6 DEF Shown
      <4>2. Chain(LoadedFat', HeadIn(tables, q)) = s
        BY <1>4, <3>8, <3>9
      <4> QED
        BY <4>1, <4>2 DEF HeadIn, ReadTable
    <3> DEFINE u == [path |-> Append(u1.path, u1.table[m].name), table |-> ReadTable(s)',
                     above |-> u1.above \union {u1.table[m].first}]
    <3>12. m \in DOMAIN u1.table /\ u1.table[m] = e
      <4>1. DOMAIN Shown(tables, p)' = DOMAIN FoundAt(p)
        <5>1. CASE p = <<>>
          BY <5>1 DEF Shown, FoundAt, Emptied
        <5>2. CASE p # <<>>
          <6>1. HeadIn(tables, p) = HeadOf(p)
            BY DEF HeadIn, HeadOf
          <6> QED
            BY <1>4, <5>2, <6>1 DEF Shown, FoundAt, ReadTable, HeadIn
        <5> QED
          BY <5>1, <5>2
      <4> QED
        BY <3>2, <3>3, <3>5, <4>1
    <3>13. u \in TablesIn(u1)'
      <4>1. u = Child(u1, m, s)'
        BY DEF Child
      <4>2. e.first \notin u1.above /\ IsSubdir(e)
        BY <2>1, <3>2 DEF e
      <4>3. s \in ChainsFrom(LoadedFat', e.first)
        BY <1>4 DEF e
      <4> HIDE DEF u
      <4> QED
        BY <3>12, <4>1, <4>2, <4>3, ChildrenNext
    <3>14. u \in v[n]
      BY <1>3, <3>2, <3>13
    <3>15. u.path = t.path /\ u.above = t.above /\ u.table = Shown(tables, q)'
      BY <2>3, <3>2, <3>11, <3>12
    <3> HIDE DEF u
    <3>16. Kept(t, n, q)
      BY <3>7, <3>10, <3>14, <3>15
    <3> HIDE DEF Kept
    <3> QED
      BY <3>6, <3>16
  <2> HIDE DEF Kept
  <2> QED
    BY <2>4, <2>6
<1> HIDE DEF Kept
<1>8. Bad = {}
  <2> SUFFICES ASSUME Bad # {} PROVE FALSE
    OBVIOUS
  <2>1. Bad \in SUBSET Nat
    OBVIOUS
  <2> HIDE DEF Bad
  <2>2. PICK n \in Bad : \A x \in Bad : n <= x
    BY <2>1, MinOfNaturals
  <2> USE DEF Bad
  <2> HIDE DEF Local
  <2>3. Ok(0)
    BY <1>1, <1>2, <1>6
  <2>4. n \in 1 .. N /\ n - 1 \in 0 .. N /\ Ok(n - 1) /\ n \in 0 .. N
    <3> HIDE DEF Ok
    <3>1. n \in 0 .. N /\ n # 0
      BY <2>2, <2>3
    <3> QED
      BY <1>1, <2>2, <3>1
  <2>5. ASSUME NEW t \in w[n]
        PROVE  Local(t, n)
    <3>1. CASE t = Top
      BY <1>6, <2>4, <3>1
    <3>2. CASE t # Top
      <4>1. PICK t1 \in w[n - 1] : t \in TablesIn(t1)
        BY <1>2, <2>4, <3>2
      <4> QED
        BY <1>7, <2>4, <4>1
    <3> QED
      BY <3>1, <3>2
  <2> QED
    BY <2>2, <2>5
<1>9. ASSUME NEW e \in DiskEntries
      PROVE  IsPrefix(path, e.path) \/ e \in DiskEntries'
  <2>1. PICK t \in DiskTables : \E m \in Victims(t.table) :
            e = [path |-> Append(t.path, t.table[m].name), entry |-> t.table[m]]
    BY EntriesFound
  <2>2. PICK m \in Victims(t.table) :
            e = [path |-> Append(t.path, t.table[m].name), entry |-> t.table[m]]
    BY <2>1
  <2>3. Local(t, N) /\ N \in 0 .. N
    BY <1>1, <1>2, <1>8
  <2>4. e.path = Append(t.path, t.table[m].name)
    BY <2>2
  <2>5. ASSUME NEW p \in DOMAIN tabs, Kept(t, N, p), ~ IsPrefix(path, e.path)
        PROVE  e \in DiskEntries'
    <3>1. /\ t.path = NamesAlong(p) /\ t.table = FoundAt(p)
          /\ \E u \in v[N] :
                u.path = t.path /\ u.above = t.above /\ u.table = Shown(tables, p)'
      BY <2>5 DEF Kept
    <3>2. PICK u \in v[N] : u.path = t.path /\ u.table = Shown(tables, p)'
      BY <3>1
    <3>3. m \in DOMAIN t.table /\ ~ IsEmpty(t.table[m]) /\ ~ IsDotDir(t.table[m])
      BY DEF Victims
    <3>4. ~ IsPrefix(path, NamesAlong(p))
      BY <2>3, <2>4, <2>5, <3>1, PrefixGrows
    <3>5. u.table[m] = t.table[m]
      BY <2>4, <2>5, <3>1, <3>2, <3>3, <3>4
    <3>6. DOMAIN u.table = DOMAIN t.table
      <4>1. CASE p = <<>>
        BY <3>1, <3>2, <4>1 DEF Shown, FoundAt, Emptied
      <4>2. CASE p # <<>>
        <5>1. HeadIn(tables, p) = HeadOf(p)
          BY DEF HeadIn, HeadOf
        <5> QED
          BY <1>4, <3>1, <3>2, <4>2, <5>1 DEF Shown, FoundAt, ReadTable, HeadIn
      <4> QED
        BY <4>1, <4>2
    <3>7. m \in Victims(u.table)
      BY <3>3, <3>5, <3>6 DEF Victims
    <3> DEFINE d == [path |-> Append(u.path, u.table[m].name), entry |-> u.table[m]]
    <3>8. d \in DiskEntries'
      BY <1>3, <3>2, <3>7, EntriesFoundNext
    <3>9. d = e
      BY <2>2, <3>2, <3>5
    <3> QED
      BY <3>8, <3>9
  <2>6. IsPath(t.path) /\ (IsPrefix(path, t.path) \/ \E p \in DOMAIN tabs : Kept(t, N, p))
    BY <2>3
  <2>7. IsPrefix(path, t.path) => IsPrefix(path, e.path)
    BY <2>4, <2>6, PrefixGrows
  <2> QED
    BY <2>5, <2>6, <2>7
<1>10. DiskTree = {Meaning(e) : e \in DiskEntries} /\ DiskTree' = {Meaning(e) : e \in DiskEntries'}
  BY DEF DiskTree, Meaning
<1>11. \A e : Meaning(e).path = e.path
  BY DEF Meaning
<1> QED
  BY <1>9, <1>10, <1>11

\* Erasing clusters of the entry about to be deleted.  Every directory but the entry's
\* own stays what it was.
LEMMA EraseWrites ==
    ASSUME TypeInv, SafetyInv, ContentInv, DelInv, pc = "erase", Unshared,
           NEW tables, tables = tabs,
           \A c \in Clusters :
                \/ data'[c] = data[c]
                \/ c \in Extent(fat, tabs[at][slot].first) /\ data'[c] = ZeroBlock,
           UNCHANGED <<fats, root>>
    PROVE  /\ Emptied
           /\ \A p \in DOMAIN tables \ {Append(at, slot)} : Shown(tables, p)' = FoundAt(p)
<1> DEFINE v == tabs[at][slot]
<1>1. /\ cmd.op = "del" /\ Working /\ Table = fat /\ fat = LoadedFat /\ Readable
      /\ Doomed(at, slot) /\ TablesComplete /\ TreeInv /\ ExtentsApart /\ OneKind
  BY DEF ContentInv, PhasesSet, DelInv, Working, Running, Table, TreeInv
<1>2. /\ at \in DOMAIN tabs /\ slot \in DOMAIN tabs[at] /\ v \in Entries
      /\ ~ IsEmpty(v) /\ ~ IsDotDir(v)
      /\ at \in Seq(Nat) /\ slot \in Nat
  BY <1>1, TabsTypes, EntriesFacts DEF Doomed, Victims
<1> HIDE DEF v
<1>3. LoadedFat' = LoadedFat
  BY DEF LoadedFat
<1>4. Emptied
  <2>1. \A i \in 1 .. SlotsPerCluster : ZeroBlock.slots[i] = EmptyEntry
    BY DEF ZeroBlock, EmptySlots
  <2> QED
    BY <2>1 DEF Emptied
<1>5. ASSUME NEW p \in DOMAIN tabs, p # <<>>, p # Append(at, slot)
      PROVE  Extent(fat, HeadOf(p)) \intersect Extent(fat, v.first) = {}
  <2> DEFINE e == tabs[Front(p)][Last(p)]
  <2>1. HeadOf(p) = e.first /\ e \in Entries /\ IsSubdir(e)
    BY <1>1, <1>5, LedBy
  <2> HIDE DEF e
  <2>2. e.first \in Stored
    BY <1>1, <1>5, <2>1, ChainStored DEF Readable
  <2>3. CASE e.first # v.first
    BY <1>1, <1>2, <2>1, <2>3 DEF ExtentsApart, Apart
  <2>4. CASE e.first = v.first
    <3>1. v.dir
      BY <1>1, <1>2, <2>1, <2>2, <2>4 DEF OneKind, OneKindEach, IsSubdir
    <3>2. IsSubdir(v)
      BY <1>2, <3>1 DEF IsSubdir
    <3> DEFINE q == Append(at, slot)
    <3>3. q \in DOMAIN tabs /\ q # <<>> /\ Front(q) = at /\ Last(q) = slot
      BY <1>1, <1>2, <3>2, AppendFacts, AppendEnds DEF TablesComplete, v
    <3> HIDE DEF q
    <3>4. HeadOf(q) = HeadOf(p)
      BY <2>1, <2>4, <3>3 DEF HeadOf, v
    <3>5. q = p
      BY <1>5, <3>3, <3>4 DEF Unshared
    <3> QED
      BY <1>5, <3>5 DEF q
  <2> QED
    BY <2>3, <2>4
<1>6. ASSUME NEW p \in DOMAIN tables, p # Append(at, slot)
      PROVE  Shown(tables, p)' = FoundAt(p)
  <2>1. CASE p = <<>>
    BY <2>1 DEF Shown, FoundAt
  <2>2. CASE p # <<>>
    <3>0. PICK s : s = Chain(LoadedFat, HeadOf(p))
      OBVIOUS
    <3>1. /\ s \in Seq(Clusters) /\ Len(s) \in Nat \ {0}
          /\ \A k \in 1 .. Len(s) : s[k] \in Extent(fat, HeadOf(p))
      <4>1. PICK e \in Entries : e.first = HeadOf(p)
        BY <1>1, <2>2, LedBy
      <4>2. OnDiskChain(e.first)
        BY <1>1, <2>2, <4>1 DEF Readable
      <4>3. LET x == Chain(LoadedFat, e.first)
                E == Extent(fat, e.first)
            IN  /\ x \in Seq(Clusters) /\ Len(x) \in Nat \ {0}
                /\ E \subseteq Stored
                /\ \A k \in 1 .. Len(x) : x[k] \in E /\ PlaceIn(E, x[k]) = k
        BY <1>1, <4>2, MemoryChain
      <4> QED
        BY <3>0, <4>1, <4>3
    <3>2. FoundAt(p) = ReadTable(s)
      BY <2>2, <3>0 DEF FoundAt
    <3>3. Shown(tables, p)' = ReadTable(s)'
      <4>1. Shown(tables, p)' = ReadTable(Chain(LoadedFat, HeadIn(tables, p)))'
        BY <2>2 DEF Shown
      <4>2. HeadIn(tables, p) = HeadOf(p)
        BY DEF HeadIn, HeadOf
      <4>3. Chain(LoadedFat', HeadIn(tables, p)) = s
        BY <1>3, <3>0, <4>2
      <4> QED
        BY <4>1, <4>3 DEF HeadIn, ReadTable
    <3>4. \A k \in 1 .. Len(s) : data'[s[k]] = data[s[k]]
      BY <1>5, <1>6, <2>2, <3>1 DEF v
    <3>5. SlotsPerCluster \in Nat \ {0} /\ Len(s) \in Nat
      BY <3>1, SlotAssumption
    <3>6. \A m \in 1 .. Len(s) * SlotsPerCluster :
              (m - 1) \div SlotsPerCluster + 1 \in 1 .. Len(s)
      BY <3>5, SlotPlace
    <3>7. ReadTable(s)' = ReadTable(s)
      BY <3>4, <3>6 DEF ReadTable
    <3> QED
      BY <3>2, <3>3, <3>7
  <2> QED
    BY <2>1, <2>2
<1> QED
  BY <1>4, <1>6

-----------------------------------------------------------------------------
(***************************************************************************)
(* The invariant of a deletion.                                            *)
(***************************************************************************)
LEMMA InitDelInv == Init => DelInv
  BY DEF Init, DelInv, NoCommand

\* A command that ends, is none of the deletions, or reads the disk.
LEMMA EasyDelInv ==
    ASSUME cmd' = NoCommand \/ cmd'.op # "del" \/ (pc' = "scan" /\ MoveInv')
    PROVE  DelInv'
  BY DEF DelInv, NoCommand, MoveInv

LEMMA NamesBelowAll ==
    TypeInv => \A d \in DOMAIN tabs : \A i \in DOMAIN tabs[d] :
        NamesAlong(Append(d, i)) = Append(NamesAlong(d), tabs[d][i].name)
  BY NamesBelow

LEMMA NamesBelowNext ==
    TypeInv' => (\A d \in DOMAIN tabs : \A i \in DOMAIN tabs[d] :
        NamesAlong(Append(d, i)) = Append(NamesAlong(d), tabs[d][i].name))'
  BY NamesBelowAll, PTL

\* The directories of the memory keep their names when all entries above them do.
LEMMA NamesKept ==
    ASSUME TypeInv, TypeInv', TreeInv,
           NEW K \in SUBSET (DOMAIN tabs \intersect DOMAIN tabs'),
           \A p \in K \ {<<>>} :
                /\ Front(p) \in K /\ Last(p) \in DOMAIN tabs'[Front(p)]
                /\ tabs'[Front(p)][Last(p)].name = tabs[Front(p)][Last(p)].name
    PROVE  \A p \in K : NamesAlong(p)' = NamesAlong(p)
<1> DEFINE Bad == {p \in K : NamesAlong(p)' # NamesAlong(p)}
           Lens == {Len(p) : p \in Bad}
<1>1. \A p \in K : p \in Seq(Nat) /\ Len(p) \in Nat
  BY TabsTypes
<1> SUFFICES ASSUME Bad # {} PROVE FALSE
  OBVIOUS
<1>2. Lens \in SUBSET Nat /\ Lens # {}
  BY <1>1
<1>3. PICK n \in Lens : \A x \in Lens : n <= x
  BY <1>2, MinOfNaturals
<1>4. PICK p \in Bad : n = Len(p)
  BY <1>3
<1>5. p # <<>>
  BY <1>4 DEF NamesAlong
<1> DEFINE d == Front(p)
           i == Last(p)
<1>6. /\ d \in K /\ p = Append(d, i) /\ Len(d) = Len(p) - 1 /\ Len(d) \in Nat
      /\ d \in DOMAIN tabs /\ i \in DOMAIN tabs[d]
      /\ d \in DOMAIN tabs' /\ i \in DOMAIN tabs'[d]
      /\ tabs'[d][i].name = tabs[d][i].name
  BY <1>1, <1>4, <1>5, FrontLast, LedBy
<1>7. NamesAlong(d)' = NamesAlong(d)
  <2>1. ~ n <= Len(d)
    BY <1>1, <1>4, <1>6
  <2>2. Len(d) \notin Lens
    BY <1>3, <2>1
  <2> HIDE DEF d
  <2> QED
    BY <1>6, <2>2
<1> HIDE DEF d, i
<1>8. NamesAlong(Append(d, i)) = Append(NamesAlong(d), tabs[d][i].name)
  BY <1>6, NamesBelow
<1>9. NamesAlong(Append(d, i))' = Append(NamesAlong(d)', tabs'[d][i].name)
  BY <1>6, NamesBelowNext
<1> QED
  BY <1>4, <1>6, <1>7, <1>8, <1>9

\* A step that leaves the directories alone.
LEMMA DelKept ==
    ASSUME UNCHANGED <<root, data, tabs, fat, cmd>>, LoadedFat' = LoadedFat,
           fat = LoadedFat, Readable
    PROVE  /\ fat' = LoadedFat' /\ Readable' /\ Unshared' = Unshared
           /\ \A p : FoundAt(p)' = FoundAt(p) /\ NamesAlong(p)' = NamesAlong(p)
           /\ \A d, i : Doomed(d, i)' = Doomed(d, i)
<1>1. \A p : FoundAt(p)' = FoundAt(p)
  BY SameFound
<1>2. \A p : NamesAlong(p)' = NamesAlong(p)
  BY DEF NamesAlong
<1>3. Readable' /\ Unshared' = Unshared
  BY DEF Readable, OnDiskChain, HeadOf, Unshared
<1>4. ASSUME NEW d, NEW i
      PROVE  Doomed(d, i)' = Doomed(d, i)
  <2>1. Victims(tabs[d])' = Victims(tabs[d])
    BY DEF Victims, IsEmpty, IsDotDir
  <2>2. NamesAlong(Append(d, i))' = NamesAlong(Append(d, i))
    BY <1>2
  <2> QED
    BY <2>1, <2>2 DEF Doomed
<1> QED
  BY <1>1, <1>2, <1>3, <1>4

\* A step between the writes of a deletion.
LEMMA QuietDelInv ==
    ASSUME UNCHANGED <<fats, root, data, tabs, fat, cmd>>, fat = LoadedFat, Readable, Unshared,
           \A p \in DOMAIN tabs : tabs[p] = FoundAt(p),
           \/ pc' = "sweep" /\ at' \in DOMAIN tabs /\ IsPrefix(cmd.path, NamesAlong(at'))
           \/ pc' \in {"visit", "erase"} /\ \E d, i : at' = d /\ slot' = i /\ Doomed(d, i)
    PROVE  DelInv'
<1>1. LoadedFat' = LoadedFat
  BY DEF LoadedFat
<1>2. /\ fat' = LoadedFat' /\ Readable' /\ Unshared'
      /\ \A p : FoundAt(p)' = FoundAt(p) /\ NamesAlong(p)' = NamesAlong(p)
      /\ \A d, i : Doomed(d, i)' = Doomed(d, i)
  BY <1>1, DelKept
<1>3. \A p \in DOMAIN tabs' : tabs'[p] = FoundAt(p)'
  BY <1>2
<1>4. CASE pc' = "sweep" /\ at' \in DOMAIN tabs /\ IsPrefix(cmd.path, NamesAlong(at'))
  <2>1. PICK d : d = at'
    OBVIOUS
  <2>2. NamesAlong(d)' = NamesAlong(d)
    BY <1>2
  <2>3. (at \in DOMAIN tabs /\ IsPrefix(cmd.path, NamesAlong(at)))'
    BY <1>4, <2>1, <2>2
  <2> QED
    BY <1>2, <1>3, <1>4, <2>3 DEF DelInv
<1>5. ASSUME NEW d, NEW i, pc' \in {"visit", "erase"}, at' = d, slot' = i, Doomed(d, i)
      PROVE  DelInv'
  <2>1. Doomed(at, slot)'
    BY <1>2, <1>5
  <2> QED
    BY <1>2, <1>3, <1>5, <2>1 DEF DelInv
<1> QED
  BY <1>4, <1>5

\* The names along the slots of the victim are those of the path.
LEMMA TargetDoomed ==
    ASSUME TypeInv, cmd.op = "del", NEW d \in DOMAIN tabs, NEW i \in DOMAIN tabs[d], Target(d, i)
    PROVE  Doomed(d, i)
<1> DEFINE p == Append(d, i)
<1>1. cmd.path \in Seq(Names)
  BY DeleteCommand DEF TypeInv, TypeOK, NoCommand
<1>2. Resolves(cmd.path, p) /\ p \in Seq(Nat) /\ d \in Seq(Nat) /\ i \in Nat
  BY TabsTypes, AppendFacts DEF Target
<1>3. i \in Victims(tabs[d])
  <2>1. tabs[d][i].name \in Names
    BY <1>1, <1>2, TargetName
  <2> QED
    BY <2>1, NamesAssumption DEF Victims, IsEmpty, IsDotDir
<1>4. IsPath(NamesAlong(p)) /\ Len(NamesAlong(p)) = Len(p)
  <2>1. IsPath(NamesAlong(d)) /\ Len(NamesAlong(d)) = Len(d)
    BY NamesOf
  <2>2. NamesAlong(p) = Append(NamesAlong(d), tabs[d][i].name)
    BY NamesBelow
  <2>3. Len(p) = Len(d) + 1
    BY <1>2, AppendFacts
  <2> HIDE DEF p
  <2> QED
    BY <2>1, <2>2, <2>3, PathGrows
<1>5. \A k \in 1 .. Len(p) : NamesAlong(p)[k] = cmd.path[k]
  <2>1. \A k \in 1 .. Len(p) : NamesAlong(p)[k] = tabs[SubSeq(p, 1, k - 1)][p[k]].name
    BY DEF NamesAlong
  <2> HIDE DEF p
  <2> QED
    BY <1>2, <2>1, ResolvedNames
<1>6. Len(cmd.path) = Len(p)
  BY <1>2 DEF Resolves
<1>7. IsPath(cmd.path)
  BY <1>1 DEF IsPath
<1> HIDE DEF p
<1>8. IsPrefix(cmd.path, NamesAlong(p))
  <2>1. Len(p) \in Nat
    BY <1>2
  <2> QED
    BY <1>4, <1>5, <1>6, <1>7, <2>1, IsPrefixOf
<1> QED
  BY <1>3, <1>8 DEF Doomed, p

LEMMA BeginDeleteDelInv ==
    ASSUME TypeInv, MoveInv, DirectoriesDistinct, BeginDelete
    PROVE  DelInv'
<1>1. PICK d \in DOMAIN tabs : \E i \in DOMAIN tabs[d] : Target(d, i) /\ at' = d /\ slot' = i
  BY DEF BeginDelete
<1>2. PICK i \in DOMAIN tabs[d] : Target(d, i) /\ at' = d /\ slot' = i
  BY <1>1
<1>3. /\ cmd.op = "del" /\ pc = "scan" /\ pc' = "visit"
      /\ UNCHANGED <<fats, root, data, tabs, fat, cmd>>
  BY DEF BeginDelete, Opened
<1>4. Doomed(d, i)
  BY <1>2, <1>3, TargetDoomed
<1>5. fat = LoadedFat /\ Readable /\ \A p \in DOMAIN tabs : tabs[p] = FoundAt(p)
  BY <1>3 DEF MoveInv
<1>6. Unshared
  BY DEF BeginDelete, DirectoriesDistinct
<1> QED
  BY <1>2, <1>3, <1>4, <1>5, <1>6, QuietDelInv

LEMMA VisitEntryDelInv ==
    ASSUME TypeInv, ContentInv, DelInv, VisitEntry
    PROVE  DelInv'
<1>1. /\ pc = "visit" /\ cmd.op = "del" /\ TablesComplete
      /\ UNCHANGED <<fats, root, data, tabs, fat, cmd>>
  BY DEF VisitEntry, ContentInv, PhasesSet, TreeInv, Running
<1>2. /\ fat = LoadedFat /\ Readable /\ \A p \in DOMAIN tabs : tabs[p] = FoundAt(p)
      /\ Unshared /\ Doomed(at, slot)
  BY <1>1 DEF DelInv
<1>3. CASE HasChildren(at, slot)
  <2>1. pc' = "sweep" /\ at' = Append(at, slot)
    BY <1>3 DEF VisitEntry
  <2>2. IsSubdir(tabs[at][slot]) /\ at \in DOMAIN tabs /\ slot \in DOMAIN tabs[at]
    BY <1>2, <1>3 DEF HasChildren, Doomed, Victims, IsSubdir
  <2>3. Append(at, slot) \in DOMAIN tabs /\ IsPrefix(cmd.path, NamesAlong(Append(at, slot)))
    BY <1>1, <1>2, <2>2 DEF TablesComplete, Doomed
  <2> QED
    BY <1>1, <1>2, <2>1, <2>3, QuietDelInv
<1>4. CASE ~ HasChildren(at, slot)
  <2>1. pc' = "erase" /\ at' = at /\ slot' = slot
    BY <1>4 DEF VisitEntry
  <2> QED
    BY <1>1, <1>2, <2>1, QuietDelInv
<1> QED
  BY <1>3, <1>4

\* Everything in a directory below the victim is below the victim.
LEMMA BelowDoomed ==
    ASSUME TypeInv, cmd.op = "del", NEW d \in DOMAIN tabs, NEW i \in Victims(tabs[d]),
           IsPrefix(cmd.path, NamesAlong(d))
    PROVE  Doomed(d, i)
<1>1. IsPath(cmd.path)
  <2>1. cmd.path \in Seq(Names)
    BY DeleteCommand DEF TypeInv, TypeOK, NoCommand
  <2> QED
    BY <2>1 DEF IsPath
<1>2. i \in DOMAIN tabs[d] /\ IsPath(NamesAlong(d))
  BY NamesOf DEF Victims
<1>3. NamesAlong(Append(d, i)) = Append(NamesAlong(d), tabs[d][i].name)
  BY <1>2, NamesBelow
<1>4. IsPrefix(cmd.path, NamesAlong(Append(d, i)))
  BY <1>1, <1>2, <1>3, PrefixGrows
<1> QED
  BY <1>4 DEF Doomed

LEMMA SweepDirectoryDelInv ==
    ASSUME TypeInv, ContentInv, DelInv, SweepDirectory
    PROVE  DelInv'
<1>1. /\ pc = "sweep" /\ cmd.op = "del" /\ TreeInv /\ at # <<>>
      /\ UNCHANGED <<fats, root, data, tabs, fat, cmd>>
  BY DEF SweepDirectory, ContentInv, PhasesSet, TypeInv, PhaseOK
<1>2. /\ fat = LoadedFat /\ Readable /\ \A p \in DOMAIN tabs : tabs[p] = FoundAt(p)
      /\ Unshared /\ at \in DOMAIN tabs /\ IsPrefix(cmd.path, NamesAlong(at))
  BY <1>1 DEF DelInv
<1>3. CASE Victims(tabs[at]) # {}
  <2>1. pc' = "visit" /\ at' = at /\ slot' = Min(Victims(tabs[at]))
    BY <1>3 DEF SweepDirectory
  <2>2. Victims(tabs[at]) \in SUBSET Nat
    BY <1>2, TabsTypes DEF Victims
  <2>3. Min(Victims(tabs[at])) \in Victims(tabs[at])
    BY <1>3, <2>2, MinOfNaturals
  <2>4. Doomed(at, Min(Victims(tabs[at])))
    BY <1>1, <1>2, <2>3, BelowDoomed
  <2> QED
    BY <1>1, <1>2, <2>1, <2>4, QuietDelInv
<1>4. CASE Victims(tabs[at]) = {}
  <2>1. pc' = "erase" /\ at' = Front(at) /\ slot' = Last(at)
    BY <1>4 DEF SweepDirectory
  <2>2. /\ Front(at) \in DOMAIN tabs /\ Last(at) \in DOMAIN tabs[Front(at)]
        /\ IsSubdir(tabs[Front(at)][Last(at)])
        /\ at = Append(Front(at), Last(at))
    BY <1>1, <1>2, LedBy
  <2>3. Doomed(Front(at), Last(at))
    BY <1>2, <2>2 DEF Doomed, Victims, IsSubdir
  <2> QED
    BY <1>1, <1>2, <2>1, <2>3, QuietDelInv
<1> QED
  BY <1>3, <1>4

\* lf12_del_entry: the content of the entry has been zeroed, and the entry, in memory.
LEMMA EraseEntryDelInv ==
    ASSUME TypeInv, TypeInv', SafetyInv, ContentInv, ContentInv', DelInv, EraseEntry
    PROVE  DelInv'
<1> DEFINE first == tabs[at][slot].first
           edited == [tabs EXCEPT ![at][slot] = EmptyEntry]
           v == Append(at, slot)
<1>1. /\ pc = "erase" /\ cmd.op = "del" /\ Unshared /\ TreeInv /\ Working
      /\ at \in DOMAIN tabs /\ slot \in DOMAIN tabs[at]
      /\ DOMAIN tabs \subseteq Seq(Nat) /\ tabs \in [DOMAIN tabs -> Seq(Entry)]
      /\ at \in Seq(Nat) /\ slot \in Nat /\ v \in Seq(Nat)
  BY TabsTypes, AppendFacts
     DEF EraseEntry, Located, ContentInv, PhasesSet, DelInv, Working, Running, TypeInv, TypeOK
<1>2. /\ fat = LoadedFat /\ Readable /\ \A p \in DOMAIN tabs : tabs[p] = FoundAt(p)
      /\ Doomed(at, slot)
  BY <1>1 DEF DelInv
<1>3. CASE ~ (first = 0 \/ HasChain(fat, first))
  BY <1>3, EasyDelInv DEF EraseEntry, Undefined, Ends
<1>4. CASE first = 0 \/ HasChain(fat, first)
  <2>1. /\ data' = IF first = 0 THEN data ELSE ZeroChain(Chain(fat, first))
        /\ tabs' = [p \in {p \in DOMAIN tabs : ~ IsPrefix(v, p)} |-> edited[p]]
        /\ pc' = "fat"
        /\ UNCHANGED <<fats, root, cmd, fat, at, slot>>
    BY <1>4 DEF EraseEntry, BeginWrite
  <2>2. LoadedFat' = LoadedFat
    BY <2>1 DEF LoadedFat
  <2>3. /\ \A q \in DOMAIN tabs : DOMAIN edited[q] = DOMAIN tabs[q]
        /\ edited[at][slot] = EmptyEntry
        /\ \A q \in DOMAIN tabs : \A k \in DOMAIN tabs[q] :
              <<q, k>> # <<at, slot>> => edited[q][k] = tabs[q][k]
    BY <1>1, EditType, EntryTypes
  <2>4. \A c \in Clusters :
            \/ data'[c] = data[c]
            \/ c \in Extent(fat, first) /\ data'[c] = ZeroBlock
    <3>0. /\ data' = IF first = 0 THEN data ELSE ZeroChain(Chain(fat, first))
          /\ \E e \in Entries : e.first = first
      BY <1>1, <2>1, EntriesFacts
    <3> HIDE DEF first, v
    <3>1. CASE first = 0
      BY <3>0, <3>1
    <3>2. CASE first # 0
      <4>1. HasChain(fat, first) /\ data' = ZeroChain(Chain(fat, first))
        BY <1>4, <3>0, <3>2
      <4>2. PICK e \in Entries : e.first = first
        BY <3>0
      <4>3. OnDiskChain(e.first)
        BY <1>2, <4>1, <4>2 DEF OnDiskChain
      <4>4. LET x == Chain(LoadedFat, e.first)
                E == Extent(fat, e.first)
            IN  /\ x \in Seq(Clusters) /\ Len(x) \in Nat \ {0}
                /\ E \subseteq Stored
                /\ \A k \in 1 .. Len(x) : x[k] \in E /\ PlaceIn(E, x[k]) = k
        BY <1>1, <1>2, <4>3, MemoryChain
      <4>5. PICK x : x = Chain(fat, first)
        OBVIOUS
      <4>6. \A k \in 1 .. Len(x) : x[k] \in Extent(fat, first)
        BY <1>2, <4>2, <4>4, <4>5
      <4>7. \A c \in Clusters : data'[c] = IF Visits(x, c) THEN ZeroBlock ELSE data[c]
        BY <4>1, <4>5 DEF ZeroChain
      <4> QED
        BY <4>6, <4>7 DEF Visits
    <3> QED
      BY <3>1, <3>2
  <2> HIDE DEF edited
  <2>5. PICK tables : tables = tabs
    OBVIOUS
  <2>6. \A p \in DOMAIN tables \ {v} : Shown(tables, p)' = FoundAt(p)
    BY <1>1, <2>1, <2>4, <2>5, EraseWrites
  <2> HIDE DEF v, first
  <2>7. /\ \A p \in DOMAIN tabs' : p \in DOMAIN tabs /\ ~ IsPrefix(v, p) /\ tabs'[p] = edited[p]
        /\ \A p \in DOMAIN tabs : ~ IsPrefix(v, p) => p \in DOMAIN tabs'
    BY <2>1
  <2>8. /\ ~ IsPrefix(v, at) /\ v \notin DOMAIN tabs'
    <3>1. Len(v) = Len(at) + 1 /\ Len(at) \in Nat /\ Len(v) \in Nat
      BY <1>1, AppendFacts DEF v
    <3>2. ~ IsPrefix(v, at)
      BY <1>1, <3>1, PrefixIs
    <3>3. IsPrefix(v, v)
      BY <1>1, <3>1, PrefixIs
    <3> QED
      BY <2>7, <3>2, <3>3
  <2>9. at \in DOMAIN tabs'
    BY <1>1, <2>7, <2>8
  <2>10. ASSUME NEW p \in DOMAIN tabs' \ {<<>>}
         PROVE  /\ Front(p) \in DOMAIN tabs' /\ Last(p) \in DOMAIN tabs'[Front(p)]
                /\ Front(p) \in DOMAIN tabs /\ Last(p) \in DOMAIN tabs[Front(p)]
                /\ tabs'[Front(p)][Last(p)] = tabs[Front(p)][Last(p)]
    <3>1. Front(p) \in DOMAIN tabs' /\ Last(p) \in DOMAIN tabs'[Front(p)]
      BY DEF ContentInv, TreeInv, TablesLed
    <3>2. Front(p) \in DOMAIN tabs /\ Last(p) \in DOMAIN tabs[Front(p)]
      BY <2>3, <2>7, <3>1
    <3>3. p = Append(Front(p), Last(p))
      BY <1>1, <2>7, LedBy
    <3>4. <<Front(p), Last(p)>> # <<at, slot>>
      BY <2>8, <3>3 DEF v
    <3> QED
      BY <2>3, <2>7, <3>1, <3>2, <3>4
  <2>11. \A p \in DOMAIN tabs' \ {<<>>} : HeadOf(p)' = HeadOf(p)
    BY <2>10 DEF HeadOf
  <2>12. \A p \in DOMAIN tabs' : NamesAlong(p)' = NamesAlong(p)
    <3>1. PICK K : K = DOMAIN tabs'
      OBVIOUS
    <3>2. K \in SUBSET (DOMAIN tabs \intersect DOMAIN tabs')
      BY <2>7, <3>1
    <3>3. \A p \in K : NamesAlong(p)' = NamesAlong(p)
      BY <1>1, <2>10, <3>1, <3>2, NamesKept
    <3> QED
      BY <3>1, <3>3
  <2>13. Readable'
    <3>1. \A p \in DOMAIN tabs' \ {<<>>} : HasChain(LoadedFat', HeadOf(p)')
      BY <1>2, <2>2, <2>7, <2>11 DEF Readable, OnDiskChain
    <3> QED
      BY <3>1 DEF Readable, OnDiskChain
  <2>22. Unshared'
    <3>1. \A p, q \in DOMAIN tabs' \ {<<>>} : HeadOf(p)' = HeadOf(q)' => p = q
      BY <1>1, <2>7, <2>11 DEF Unshared
    <3> QED
      BY <3>1 DEF Unshared
  <2>14. ASSUME NEW p \in DOMAIN tabs'
         PROVE  FoundAt(p)' = tabs[p]
    <3>1. p \in DOMAIN tables \ {v} /\ FoundAt(p) = tabs[p]
      BY <1>2, <2>5, <2>7, <2>8
    <3>2. FoundAt(p)' = Shown(tables, p)'
      <4>1. CASE p = <<>>
        BY <4>1 DEF Shown, FoundAt
      <4>2. CASE p # <<>>
        <5>1. HeadOf(p)' = HeadIn(tables, p)
          BY <2>5, <2>11, <4>2 DEF HeadIn, HeadOf
        <5>2. Shown(tables, p)' = ReadTable(Chain(LoadedFat, HeadIn(tables, p)))'
          BY <4>2 DEF Shown
        <5>3. FoundAt(p)' = ReadTable(Chain(LoadedFat, HeadOf(p)))'
          BY <4>2 DEF FoundAt
        <5> QED
          BY <5>1, <5>2, <5>3 DEF ReadTable, HeadIn
      <4> QED
        BY <4>1, <4>2
    <3> QED
      BY <2>6, <3>1, <3>2
  <2>15. PICK d, i : d = at /\ i = slot
    OBVIOUS
  <2>16. /\ IsPath(cmd.path) /\ IsPath(NamesAlong(d))
         /\ IsPrefix(cmd.path, Append(NamesAlong(d), tabs[d][i].name))
         /\ Len(NamesAlong(d)) = Len(d)
         /\ Len(d) >= Len(cmd.path) => IsPrefix(cmd.path, NamesAlong(d))
    <3>1. cmd.path \in Seq(Names)
      BY <1>1, DeleteCommand DEF TypeInv, TypeOK, NoCommand
    <3>2. IsPath(cmd.path) /\ IsPath(NamesAlong(d)) /\ Len(NamesAlong(d)) = Len(d)
      BY <1>1, <2>15, <3>1, NamesOf DEF IsPath
    <3>3. NamesAlong(Append(d, i)) = Append(NamesAlong(d), tabs[d][i].name)
      BY <1>1, <2>15, NamesBelow
    <3>4. IsPrefix(cmd.path, NamesAlong(Append(d, i)))
      BY <1>2, <2>15 DEF Doomed
    <3> QED
      BY <3>2, <3>3, <3>4, PrefixGrows
  <2>17. NamesAlong(d)' = NamesAlong(d) /\ FoundAt(d)' = tabs[d]
    BY <2>9, <2>12, <2>14, <2>15
  <2>18. /\ d \in DOMAIN tabs' /\ i \in DOMAIN tabs'[d] /\ tabs'[d][i] = EmptyEntry
    BY <1>1, <2>3, <2>7, <2>9, <2>15
  <2>19. ASSUME NEW p \in DOMAIN tabs'
         PROVE  /\ DOMAIN FoundAt(p)' = DOMAIN tabs'[p]
                /\ \A k \in DOMAIN tabs'[p] : <<p, k>> = <<d, i>> \/ FoundAt(p)'[k] = tabs'[p][k]
    <3>1. DOMAIN tabs'[p] = DOMAIN tabs[p] /\ p \in DOMAIN tabs
      BY <2>3, <2>7
    <3>2. \A k \in DOMAIN tabs[p] : <<p, k>> = <<d, i>> \/ tabs'[p][k] = tabs[p][k]
      BY <2>3, <2>7, <2>15, <3>1
    <3> QED
      BY <2>14, <3>1, <3>2
  <2>20. Erasing(d, i)'
    BY <2>1, <2>16, <2>17, <2>18, <2>19 DEF Erasing
  <2>21. Erasing(at, slot)'
    BY <2>1, <2>15, <2>20
  <2> QED
    BY <1>2, <2>1, <2>2, <2>13, <2>21, <2>22 DEF DelInv
<1> QED
  BY <1>3, <1>4

\* Between the writes of a deletion that has erased its entry.
LEMMA ErasingKept ==
    ASSUME UNCHANGED <<root, data, tabs, fat, cmd>>, LoadedFat' = LoadedFat,
           fat = LoadedFat, Readable, NEW d, NEW i, Erasing(d, i),
           pc' = "dirs" => todo' = DOMAIN tabs \ {<<>>}
    PROVE  Erasing(d, i)'
<1>1. \A p : FoundAt(p)' = FoundAt(p) /\ NamesAlong(p)' = NamesAlong(p)
  BY DelKept
<1> QED
  BY <1>1 DEF Erasing

LEMMA WriteFatDelInv ==
    ASSUME TypeInv, DelInv, WriteFat
    PROVE  DelInv'
<1>1. /\ pc = "fat" /\ pc' \in {"fat", "dirs"}
      /\ UNCHANGED <<root, data, cmd, fat, tabs, at, slot>>
      /\ pc' = "dirs" => todo' = DOMAIN tabs \ {<<>>}
      /\ fats' = [fats EXCEPT ![copy] = SavedFat]
  BY DEF WriteFat
<1>2. CASE cmd.op # "del"
  BY <1>1, <1>2, EasyDelInv
<1>3. CASE cmd.op = "del"
  <2>1. fat = LoadedFat /\ Readable /\ Unshared /\ Erasing(at, slot)
    BY <1>1, <1>3 DEF DelInv
  <2>2. LoadedFat' = LoadedFat
    <3>1. \A c \in Stored : fats'[1][c] = fats[1][c]
      <4>1. 1 \in 1 .. NumberOfFats /\ copy \in 1 .. NumberOfFats
            /\ fats \in [1 .. NumberOfFats -> [Stored -> FatValues]]
        BY <1>1, NumberOfFatsAssumption DEF TypeInv, TypeOK, PhaseOK
      <4>2. \A c \in Stored : SavedFat[c] = fats[1][c]
        BY <2>1, ClusterSets DEF SavedFat, LoadedFat
      <4>3. fats'[1] = IF copy = 1 THEN SavedFat ELSE fats[1]
        BY <1>1, <4>1
      <4> QED
        BY <4>2, <4>3
    <3> QED
      BY <3>1 DEF LoadedFat
  <2>3. fat' = LoadedFat' /\ Readable' /\ Unshared'
    BY <1>1, <2>1, <2>2, DelKept
  <2>4. PICK d, i : d = at /\ i = slot
    OBVIOUS
  <2>5. Erasing(d, i)'
    BY <1>1, <2>1, <2>2, <2>4, ErasingKept
  <2>6. Erasing(at, slot)'
    BY <1>1, <2>4, <2>5
  <2> QED
    BY <1>1, <2>3, <2>6 DEF DelInv
<1> QED
  BY <1>2, <1>3

\* A directory is written, all of it or its first clusters, in a deletion.
LEMMA DelWrites ==
    ASSUME TypeInv, SafetyInv, ContentInv, DelInv, pc = "dirs", cmd.op = "del",
           NEW p \in todo, CanStore(p),
           NEW tables, tables = tabs,
           NEW n \in 1 .. Len(Chain(fat, HeadOf(p))),
           NEW t, Len(t) = n, \A k \in 1 .. n : t[k] = Chain(fat, HeadOf(p))[k],
           data' = StoreTable(t, tabs[p]), UNCHANGED <<fats, root>>
    PROVE  /\ p \in DOMAIN tabs \ {<<>>}
           /\ Emptied
           /\ \A q \in DOMAIN tables \ {p} : Shown(tables, q)' = FoundAt(q)
           /\ DOMAIN Shown(tables, p)' = DOMAIN tabs[p]
           /\ \A m \in DOMAIN tables[p] :
                Shown(tables, p)'[m] =
                    IF (m - 1) \div SlotsPerCluster + 1 <= n THEN tabs[p][m]
                                                              ELSE FoundAt(p)[m]
<1>1. /\ p \in DOMAIN tabs \ {<<>>} /\ fat = LoadedFat /\ Readable /\ Unshared
      /\ Erasing(at, slot)
  BY DEF TypeInv, TypeOK, ContentInv, PhasesSet, DelInv
<1>2. DOMAIN FoundAt(p) = DOMAIN tabs[p]
  BY <1>1 DEF Erasing
<1>3. /\ \A q \in DOMAIN tables \ {p} : Shown(tables, q)' = Shown(tables, q)
      /\ DOMAIN Shown(tables, p)' = DOMAIN Shown(tables, p)
      /\ \A m \in DOMAIN tables[p] :
           Shown(tables, p)'[m] =
               IF (m - 1) \div SlotsPerCluster + 1 <= n THEN tables[p][m]
                                                         ELSE Shown(tables, p)[m]
      /\ \A c \in Clusters : \A i \in 1 .. SlotsPerCluster :
            \/ data'[c].slots[i] = data[c].slots[i]
            \/ \E m \in DOMAIN tables[p] :
                /\ data'[c].slots[i] = Shown(tables, p)'[m]
                /\ data[c].slots[i] = Shown(tables, p)[m]
  BY <1>1, <1>2, TableWrites
<1>4. \A q : Shown(tables, q) = FoundAt(q)
  BY DEF Shown, FoundAt, HeadIn, HeadOf
<1>5. \A m \in DOMAIN tables[p] : Shown(tables, p)'[m] \in {Shown(tables, p)[m], EmptyEntry}
  <2>1. \A m \in DOMAIN tabs[p] : tabs[p][m] = FoundAt(p)[m] \/ tabs[p][m] = EmptyEntry
    BY <1>1 DEF Erasing
  <2> QED
    BY <1>3, <1>4, <2>1
<1>6. Emptied
  BY <1>3, <1>5 DEF Emptied
<1> QED
  BY <1>1, <1>2, <1>3, <1>4, <1>6

LEMMA WriteDirectoryDelInv ==
    ASSUME TypeInv, SafetyInv, ContentInv, DelInv, WriteDirectory
    PROVE  DelInv'
<1>1. PICK p \in todo :
        /\ IsNext(p)
        /\ IF CanStore(p)
           THEN /\ data' = StoreTable(Chain(fat, HeadOf(p)), tabs[p])
                /\ todo' = todo \ {p}
                /\ UNCHANGED <<fats, root, pc, cmd, fat, tabs, at, slot, head, job, copy, res>>
           ELSE Undefined
  BY DEF WriteDirectory
<1>2. pc = "dirs"
  BY DEF WriteDirectory
<1>3. CASE ~ CanStore(p)
  BY <1>1, <1>3, EasyDelInv DEF Undefined, Ends
<1>4. CASE CanStore(p) /\ cmd.op # "del"
  BY <1>1, <1>4, EasyDelInv
<1>5. CASE CanStore(p) /\ cmd.op = "del"
  <2> DEFINE t == Chain(fat, HeadOf(p))
             n == Len(t)
  <2>1. /\ data' = StoreTable(t, tabs[p])
        /\ todo' = todo \ {p}
        /\ UNCHANGED <<fats, root, pc, cmd, fat, tabs, at, slot>>
    BY <1>1, <1>5
  <2>2. /\ fat = LoadedFat /\ Readable /\ Unshared /\ Erasing(at, slot)
        /\ LoadedFat' = LoadedFat
    BY <1>2, <1>5, <2>1 DEF DelInv, LoadedFat
  <2>3. Readable' /\ Unshared'
    BY <2>1, <2>2 DEF Readable, OnDiskChain, HeadOf, Unshared
  <2>4. PICK d, i : d = at /\ i = slot
    OBVIOUS
  <2>5. PICK tables : tables = tabs
    OBVIOUS
  <2>6. n \in Nat \ {0} /\ n \in 1 .. n
    <3>1. n \in Nat \ {0}
      BY <1>5, ChainFacts DEF CanStore
    <3> QED
      BY <3>1
  <2>7. /\ p \in DOMAIN tabs \ {<<>>}
        /\ \A q \in DOMAIN tables \ {p} : Shown(tables, q)' = FoundAt(q)
        /\ DOMAIN Shown(tables, p)' = DOMAIN tabs[p]
        /\ \A m \in DOMAIN tables[p] :
             Shown(tables, p)'[m] =
                 IF (m - 1) \div SlotsPerCluster + 1 <= n THEN tabs[p][m]
                                                           ELSE FoundAt(p)[m]
    BY <1>2, <1>5, <2>1, <2>5, <2>6, DelWrites
  <2>8. \A q : FoundAt(q)' = Shown(tables, q)'
    BY <2>1, <2>5 DEF Shown, FoundAt, HeadIn, HeadOf
  <2>9. \A m \in DOMAIN tabs[p] : (m - 1) \div SlotsPerCluster + 1 <= n
    <3>1. tabs[p] \in Seq(Entry) /\ Len(tabs[p]) <= n * SlotsPerCluster
          /\ SlotsPerCluster \in Nat \ {0} /\ DOMAIN tabs[p] = 1 .. Len(tabs[p])
      BY <1>5, <2>7, TabsTypes, SlotAssumption DEF CanStore
    <3>2. \A m \in 1 .. n * SlotsPerCluster :
              (m - 1) \div SlotsPerCluster + 1 \in 1 .. n
      BY <2>6, <3>1, SlotPlace
    <3>3. \A m \in DOMAIN tabs[p] : m \in 1 .. n * SlotsPerCluster
      <4> HIDE DEF n
      <4>1. n * SlotsPerCluster \in Nat
        BY <2>6, <3>1
      <4> QED
        BY <3>1, <4>1
    <3> HIDE DEF n
    <3> QED
      BY <2>6, <3>2, <3>3
  <2> HIDE DEF n, t
  <2>10. \A q \in DOMAIN tabs \ {p} : FoundAt(q)' = FoundAt(q)
    BY <2>5, <2>7, <2>8
  <2>11. DOMAIN FoundAt(p)' = DOMAIN tabs[p] /\ \A m \in DOMAIN tabs[p] : FoundAt(p)'[m] = tabs[p][m]
    BY <2>5, <2>7, <2>8, <2>9
  <2>12. NamesAlong(d)' = NamesAlong(d)
    BY <2>1 DEF NamesAlong
  <2>13. /\ d \in DOMAIN tabs /\ i \in DOMAIN tabs[d]
         /\ tabs[d][i] = EmptyEntry
         /\ Len(d) >= Len(cmd.path) => IsPrefix(cmd.path, NamesAlong(d))
         /\ \A q \in DOMAIN tabs :
            /\ DOMAIN FoundAt(q) = DOMAIN tabs[q]
            /\ \A k \in DOMAIN tabs[q] : <<q, k>> = <<d, i>> \/ FoundAt(q)[k] = tabs[q][k]
         /\ \/ FoundAt(d)[i] = EmptyEntry
            \/ IsPrefix(cmd.path, Append(NamesAlong(d), FoundAt(d)[i].name))
         /\ d \notin todo \union {<<>>} => FoundAt(d)[i] = EmptyEntry
    BY <1>2, <2>2, <2>4 DEF Erasing
  <2>14. \A q \in DOMAIN tabs :
            /\ DOMAIN FoundAt(q)' = DOMAIN tabs[q]
            /\ \A k \in DOMAIN tabs[q] : <<q, k>> = <<d, i>> \/ FoundAt(q)'[k] = tabs[q][k]
    BY <2>10, <2>11, <2>13
  <2>15. /\ \/ FoundAt(d)'[i] = EmptyEntry
            \/ IsPrefix(cmd.path, Append(NamesAlong(d), FoundAt(d)'[i].name))
         /\ d \notin todo' \union {<<>>} => FoundAt(d)'[i] = EmptyEntry
    BY <2>1, <2>10, <2>11, <2>13
  <2>16. Erasing(d, i)'
    <3>1. tabs' = tabs /\ cmd' = cmd
      BY <2>1
    <3> QED
      BY <2>12, <2>13, <2>14, <2>15, <3>1 DEF Erasing
  <2>17. Erasing(at, slot)'
    BY <2>1, <2>4, <2>16
  <2> QED
    BY <1>2, <1>5, <2>1, <2>2, <2>3, <2>17 DEF DelInv
<1> QED
  BY <1>3, <1>4, <1>5

\* All of the memory is on the disk; the deletion goes on, or has removed its victim.
LEMMA WriteRootDelInv ==
    ASSUME TypeInv, DelInv, WriteRoot
    PROVE  DelInv'
<1>1. pc = "dirs" /\ todo = {} /\ root' = tabs[<<>>] /\ UNCHANGED <<fats, data>>
  BY DEF WriteRoot
<1>2. CASE ~ DeletionGoesOn
  BY <1>2, EasyDelInv DEF WriteRoot, Exit, Ends
<1>3. CASE DeletionGoesOn
  <2>1. /\ cmd.op = "del" /\ Len(at) >= Len(cmd.path)
        /\ pc' = "sweep" /\ UNCHANGED <<cmd, fat, tabs, at>>
    BY <1>3 DEF WriteRoot, DeletionGoesOn
  <2>2. /\ fat = LoadedFat /\ Readable /\ Unshared /\ Erasing(at, slot)
        /\ LoadedFat' = LoadedFat
    BY <1>1, <2>1 DEF DelInv, LoadedFat
  <2>3. Readable' /\ Unshared'
    BY <1>1, <2>1, <2>2 DEF Readable, OnDiskChain, HeadOf, Unshared
  <2>4. at # <<>>
    <3>1. Len(cmd.path) > 0 /\ Len(cmd.path) \in Nat
      BY <2>1, DeleteCommand DEF TypeInv, TypeOK, NoCommand
    <3> QED
      BY <2>1, <3>1
  <2>5. at \in DOMAIN tabs /\ IsPrefix(cmd.path, NamesAlong(at))
    BY <2>1, <2>2 DEF Erasing
  <2>6. ASSUME NEW p \in DOMAIN tabs
        PROVE  tabs[p] = FoundAt(p)' /\ (p # <<>> => tabs[p] = FoundAt(p))
    <3>1. CASE p = <<>>
      BY <1>1, <3>1 DEF FoundAt
    <3>2. CASE p # <<>>
      <4>1. \A k \in DOMAIN tabs[p] : FoundAt(p)[k] = tabs[p][k]
        BY <1>1, <2>2, <2>4 DEF Erasing
      <4>2. DOMAIN FoundAt(p) = DOMAIN tabs[p] /\ tabs[p] \in Seq(Entry)
        BY <2>2, TabsTypes DEF Erasing
      <4>3. FoundAt(p) = tabs[p]
        <5>1. FoundAt(p) = [k \in DOMAIN FoundAt(p) |-> FoundAt(p)[k]]
          BY <3>2 DEF FoundAt, ReadTable
        <5>2. PICK F : F = FoundAt(p)
          OBVIOUS
        <5>3. tabs[p] = [k \in DOMAIN tabs[p] |-> tabs[p][k]]
          BY <4>2
        <5> QED
          BY <4>1, <4>2, <5>1, <5>2, <5>3
      <4>4. FoundAt(p)' = FoundAt(p)
        BY <1>1, <2>1, <2>2, <3>2 DEF FoundAt, ReadTable, HeadOf
      <4> QED
        BY <4>3, <4>4
    <3> QED
      BY <3>1, <3>2
  <2>7. \A p \in DOMAIN tabs' : tabs'[p] = FoundAt(p)'
    BY <2>1, <2>6
  <2>8. PICK d : d = at
    OBVIOUS
  <2>9. NamesAlong(d)' = NamesAlong(d)
    BY <2>1 DEF NamesAlong
  <2>10. (at \in DOMAIN tabs /\ IsPrefix(cmd.path, NamesAlong(at)))'
    BY <2>1, <2>5, <2>8, <2>9
  <2> QED
    BY <2>1, <2>2, <2>3, <2>7, <2>10 DEF DelInv
<1> QED
  BY <1>2, <1>3

LEMMA OtherStepsDelInv ==
    ASSUME TypeInv, ContentInv,
           \/ Format \/ BeginPut \/ CreateFile \/ EnterDirectory \/ MakeDirectory \/ FillEntry
           \/ MoveEntry
    PROVE  DelInv'
<1>1. CASE \E result : Exit(result)
  BY <1>1, EasyDelInv DEF Exit, Ends
<1>2. CASE Format /\ ~ \E result : Exit(result)
  <2>1. cmd.op = "create" /\ cmd' = cmd
    BY <1>2 DEF Format, TypeInv, PhaseOK
  <2> QED
    BY <2>1, EasyDelInv
<1>3. CASE BeginPut \/ MoveEntry
  <2>1. cmd.op \in {"put", "move"} /\ cmd' = cmd
    BY <1>3 DEF BeginPut, MoveEntry, Opened
  <2> QED
    BY <2>1, EasyDelInv
<1>4. CASE CreateFile \/ EnterDirectory \/ MakeDirectory \/ FillEntry
  <2>1. pc \in {"create", "path"} /\ cmd' = cmd
    BY <1>4 DEF CreateFile, EnterDirectory, MakeDirectory, FillEntry
  <2>2. cmd.op \in {"create", "put"}
    BY <2>1 DEF TypeInv, PhaseOK
  <2> QED
    BY <2>1, <2>2, EasyDelInv
<1> QED
  BY <1>1, <1>2, <1>3, <1>4

LEMMA EndingStepsDelInv ==
    ASSUME \/ CreateFileFails \/ WalkPathFails \/ SoftDelete \/ DeleteRefused \/ MoveRefused
           \/ Interrupt
    PROVE  DelInv'
<1>1. Undefined \/ \E result : Exit(result)
  BY DEF CreateFileFails, WalkPathFails, SoftDelete, DeleteRefused, MoveRefused, Interrupt,
         InterruptedBetweenWrites, InterruptedInFormat, InterruptedInFile, InterruptedInErase,
         InterruptedInFat, InterruptedInDirectory, InterruptedInRoot, Interrupted
<1> QED
  BY <1>1, EasyDelInv DEF Undefined, Exit, Ends

LEMMA UnchangedDelInv == TypeInv /\ DelInv /\ UNCHANGED vars => DelInv'
<1> SUFFICES ASSUME TypeInv, DelInv, UNCHANGED vars PROVE DelInv'
  OBVIOUS
<1>1. UNCHANGED <<fats, root, data, pc, cmd, fat, tabs, at, slot, todo>>
  BY DEF vars
<1>2. CASE cmd.op # "del"
  BY <1>1, <1>2, EasyDelInv
<1>3. CASE cmd.op = "del"
  <2>1. LoadedFat' = LoadedFat /\ fat = LoadedFat /\ Readable
    BY <1>1, <1>3 DEF LoadedFat, DelInv
  <2>2. /\ fat' = LoadedFat' /\ Readable' /\ Unshared' = Unshared
        /\ \A p : FoundAt(p)' = FoundAt(p) /\ NamesAlong(p)' = NamesAlong(p)
        /\ \A d, i : Doomed(d, i)' = Doomed(d, i)
    BY <1>1, <2>1, DelKept
  <2>3. \A d, i : Erasing(d, i)' = Erasing(d, i)
    BY <1>1, <2>2 DEF Erasing
  <2>4. PICK d, i : d = at /\ i = slot
    OBVIOUS
  <2>5. Doomed(at, slot) = Doomed(d, i) /\ Erasing(at, slot) = Erasing(d, i)
    BY <2>4
  <2>6. Doomed(at, slot)' = Doomed(d, i)' /\ Erasing(at, slot)' = Erasing(d, i)'
    BY <1>1, <2>4
  <2>7. (at \in DOMAIN tabs /\ IsPrefix(cmd.path, NamesAlong(at)))'
            = (at \in DOMAIN tabs /\ IsPrefix(cmd.path, NamesAlong(at)))
    BY <1>1 DEF NamesAlong
  <2> QED
    BY <1>1, <1>3, <2>2, <2>3, <2>5, <2>6, <2>7 DEF DelInv
<1> QED
  BY <1>2, <1>3

LEMMA NextDelInv ==
    TypeInv /\ TypeInv' /\ SafetyInv /\ ContentInv /\ ContentInv' /\ MoveInv /\ MoveInv'
        /\ DelInv /\ DirectoriesDistinct /\ [Next]_vars
      => DelInv'
<1> SUFFICES ASSUME TypeInv, TypeInv', SafetyInv, ContentInv, ContentInv', MoveInv, MoveInv',
                    DelInv, DirectoriesDistinct, [Next]_vars
             PROVE  DelInv'
  OBVIOUS
<1>1. CASE UNCHANGED vars
  BY <1>1, UnchangedDelInv
<1>2. CASE \E c \in Commands : Start(c)
  BY <1>2, EasyDelInv DEF Start
<1>3. CASE \E c \in Commands : StartCreate(c)
  BY <1>3, EasyDelInv DEF StartCreate
<1>4. CASE ScanDirectory
  <2>1. pc' = "scan" \/ cmd' = NoCommand
    BY <1>4 DEF ScanDirectory, ScanEntry, Undefined, Ends
  <2> QED
    BY <2>1, EasyDelInv
<1>5. CASE Step /\ ~ ScanDirectory
  BY <1>5, BeginDeleteDelInv, VisitEntryDelInv, SweepDirectoryDelInv, EraseEntryDelInv,
     WriteFatDelInv, WriteDirectoryDelInv, WriteRootDelInv, OtherStepsDelInv, EndingStepsDelInv
     DEF Step
<1>6. CASE Interrupt
  BY <1>6, EndingStepsDelInv
<1> QED
  BY <1>1, <1>2, <1>3, <1>4, <1>5, <1>6 DEF Next, Halted

LEMMA DelInvariant ==
    Spec /\ []DirectoriesDistinct => [](TypeInv /\ SafetyInv /\ ContentInv /\ DelInv)
<1>1. Init => DelInv
  BY InitDelInv
<1>2. TypeInv /\ TypeInv' /\ SafetyInv /\ ContentInv /\ ContentInv' /\ MoveInv /\ MoveInv'
        /\ DelInv /\ DirectoriesDistinct /\ [Next]_vars
      => DelInv'
  BY NextDelInv
<1> QED
  BY <1>1, <1>2, MoveInvariant, PTL DEF Spec

-----------------------------------------------------------------------------
(***************************************************************************)
(* What a deletion removes.                                                *)
(***************************************************************************)
\* A step of a deletion that erases content or writes directories, after which a
\* reader finds in every directory what was there or what is in the memory.
LEMMA LocalStep ==
    ASSUME TypeInv, ContentInv, DelInv, cmd.op = "del", pc \in {"erase", "dirs"}, Emptied,
           NEW tables, tables = tabs,
           \A p \in DOMAIN tabs :
                \/ pc = "erase" /\ p = Append(at, slot)
                \/ \A m \in DOMAIN FoundAt(p) :
                    \/ Shown(tables, p)'[m] = FoundAt(p)[m]
                    \/ pc = "dirs" /\ Shown(tables, p)'[m] = tabs[p][m]
    PROVE  /\ DiskTree' \subseteq DiskTree
           /\ \A e \in DiskTree \ DiskTree' : IsPrefix(cmd.path, e.path)
<1>1. TreeInv /\ TablesComplete
  BY DEF ContentInv, TreeInv, Running
<1>2. PICK path : path = cmd.path
  OBVIOUS
<1>3. IsPath(path)
  <2>1. cmd.path \in Seq(Names)
    BY DeleteCommand DEF TypeInv, TypeOK, NoCommand
  <2> QED
    BY <1>2, <2>1 DEF IsPath
<1>4. ASSUME NEW p \in DOMAIN tabs, NEW m \in DOMAIN FoundAt(p)
      PROVE  \/ m \in DOMAIN tabs[p] /\ FoundAt(p)[m] = tabs[p][m]
             \/ FoundAt(p)[m] = EmptyEntry /\ tabs[p][m] = EmptyEntry
             \/ IsPrefix(path, Append(NamesAlong(p), FoundAt(p)[m].name))
  <2>1. CASE pc = "erase"
    BY <1>4, <2>1 DEF DelInv
  <2>2. CASE pc = "dirs"
    <3>1. Erasing(at, slot)
      BY <2>2 DEF DelInv
    <3>2. m \in DOMAIN tabs[p]
      BY <1>4, <3>1 DEF Erasing
    <3>3. CASE <<p, m>> # <<at, slot>>
      BY <3>1, <3>2, <3>3 DEF Erasing
    <3>4. CASE p = at /\ m = slot
      BY <1>2, <3>1, <3>4 DEF Erasing
    <3> QED
      BY <3>3, <3>4
  <2> QED
    BY <2>1, <2>2
<1>5. ASSUME NEW p \in DOMAIN tabs
      PROVE  \/ IsPrefix(path, NamesAlong(p))
             \/ \A m \in DOMAIN FoundAt(p) :
                    \/ Shown(tables, p)'[m] = FoundAt(p)[m]
                    \/ IsPrefix(path, Append(NamesAlong(p), FoundAt(p)[m].name))
  <2>1. CASE pc = "erase" /\ p = Append(at, slot)
    BY <1>2, <2>1 DEF DelInv, Doomed
  <2>2. CASE \A m \in DOMAIN FoundAt(p) :
                    \/ Shown(tables, p)'[m] = FoundAt(p)[m]
                    \/ pc = "dirs" /\ Shown(tables, p)'[m] = tabs[p][m]
    BY <1>4, <2>2
  <2> QED
    BY <2>1, <2>2
<1>6. \A p \in DOMAIN tabs : \A m \in DOMAIN FoundAt(p) :
        \/ m \in DOMAIN tabs[p] /\ FoundAt(p)[m] = tabs[p][m]
        \/ FoundAt(p)[m] = EmptyEntry
        \/ IsPrefix(path, Append(NamesAlong(p), FoundAt(p)[m].name))
  BY <1>4
<1>7. \A e \in DiskTree \ DiskTree' : IsPrefix(path, e.path)
  BY <1>1, <1>3, <1>5, <1>6, LocalChange
<1> QED
  BY <1>2, <1>7, TreeShrinks

\* What a reader finds in the directories that a step leaves alone.
LEMMA ShownSame ==
    ASSUME NEW tables, tables = tabs, UNCHANGED <<fats, data>>, NEW p, p # <<>> \/ UNCHANGED root
    PROVE  Shown(tables, p)' = FoundAt(p)
<1>1. LoadedFat' = LoadedFat
  BY DEF LoadedFat
<1>2. CASE p = <<>>
  BY <1>2 DEF Shown, FoundAt
<1>3. CASE p # <<>>
  BY <1>1, <1>3 DEF Shown, FoundAt, ReadTable, HeadIn, HeadOf
<1> QED
  BY <1>2, <1>3

\* The disk stays.
LEMMA QuietStep ==
    ASSUME TypeInv, ContentInv, DelInv, cmd.op = "del", pc \in {"erase", "dirs"}, UNCHANGED disk
    PROVE  /\ DiskTree' \subseteq DiskTree
           /\ \A e \in DiskTree \ DiskTree' : IsPrefix(cmd.path, e.path)
<1>1. UNCHANGED <<fats, root, data>>
  BY DEF disk
<1>2. Emptied
  BY <1>1 DEF Emptied
<1>3. PICK tables : tables = tabs
  OBVIOUS
<1>4. \A p \in DOMAIN tabs : Shown(tables, p)' = FoundAt(p)
  BY <1>1, <1>3, ShownSame
<1> QED
  BY <1>2, <1>3, <1>4, LocalStep

\* The content of the entry is zeroed, all of it or its first clusters.
LEMMA EraseStep ==
    ASSUME TypeInv, SafetyInv, ContentInv, DelInv, pc = "erase", UNCHANGED <<fats, root>>,
           HasChain(fat, tabs[at][slot].first),
           NEW s, NEW n \in 1 .. Len(Chain(fat, tabs[at][slot].first)), Len(s) = n,
           \A k \in 1 .. n : s[k] = Chain(fat, tabs[at][slot].first)[k],
           data' = ZeroChain(s)
    PROVE  /\ DiskTree' \subseteq DiskTree
           /\ \A e \in DiskTree \ DiskTree' : IsPrefix(cmd.path, e.path)
<1>1. /\ cmd.op = "del" /\ Unshared /\ Working /\ fat = LoadedFat
      /\ Doomed(at, slot)
  BY DEF ContentInv, PhasesSet, Working, Running, DelInv
<1>2. PICK e \in Entries : e.first = tabs[at][slot].first
  BY <1>1, EntriesFacts DEF Doomed, Victims
<1>3. OnDiskChain(e.first)
  BY <1>1, <1>2 DEF OnDiskChain
<1>4. LET x == Chain(LoadedFat, e.first)
          E == Extent(fat, e.first)
      IN  /\ x \in Seq(Clusters) /\ Len(x) \in Nat \ {0}
          /\ E \subseteq Stored
          /\ \A k \in 1 .. Len(x) : x[k] \in E /\ PlaceIn(E, x[k]) = k
  BY <1>1, <1>3, MemoryChain
<1>5. \A k \in 1 .. Len(s) : s[k] \in Extent(fat, tabs[at][slot].first)
  <2>1. PICK x : x = Chain(fat, tabs[at][slot].first)
    OBVIOUS
  <2>2. /\ Len(x) \in Nat /\ \A k \in 1 .. Len(x) : x[k] \in Extent(fat, tabs[at][slot].first)
    BY <1>1, <1>2, <1>4, <2>1
  <2>3. \A k \in 1 .. n : k \in 1 .. Len(x) /\ s[k] = x[k]
    BY <2>1, <2>2
  <2> QED
    BY <2>2, <2>3
<1>6. \A c \in Clusters :
            \/ data'[c] = data[c]
            \/ c \in Extent(fat, tabs[at][slot].first) /\ data'[c] = ZeroBlock
  <2>1. \A c \in Clusters : data'[c] = IF Visits(s, c) THEN ZeroBlock ELSE data[c]
    BY DEF ZeroChain
  <2> QED
    BY <1>5, <2>1 DEF Visits
<1>7. PICK tables : tables = tabs
  OBVIOUS
<1>8. /\ Emptied
      /\ \A p \in DOMAIN tables \ {Append(at, slot)} : Shown(tables, p)' = FoundAt(p)
  BY <1>1, <1>6, <1>7, EraseWrites
<1> QED
  BY <1>1, <1>7, <1>8, LocalStep

\* A directory is written, all of it or its first clusters.
LEMMA DirectoryStep ==
    ASSUME TypeInv, SafetyInv, ContentInv, DelInv, pc = "dirs", cmd.op = "del",
           NEW p \in todo, CanStore(p),
           NEW n \in 1 .. Len(Chain(fat, HeadOf(p))),
           NEW t, Len(t) = n, \A k \in 1 .. n : t[k] = Chain(fat, HeadOf(p))[k],
           data' = StoreTable(t, tabs[p]), UNCHANGED <<fats, root>>
    PROVE  /\ DiskTree' \subseteq DiskTree
           /\ \A e \in DiskTree \ DiskTree' : IsPrefix(cmd.path, e.path)
<1>1. PICK tables : tables = tabs
  OBVIOUS
<1>2. /\ p \in DOMAIN tabs \ {<<>>}
      /\ Emptied
      /\ \A q \in DOMAIN tables \ {p} : Shown(tables, q)' = FoundAt(q)
      /\ \A m \in DOMAIN tables[p] :
           Shown(tables, p)'[m] =
               IF (m - 1) \div SlotsPerCluster + 1 <= n THEN tabs[p][m]
                                                         ELSE FoundAt(p)[m]
  BY <1>1, DelWrites
<1>3. DOMAIN FoundAt(p) = DOMAIN tabs[p]
  BY <1>2 DEF DelInv, Erasing
<1>4. \A m \in DOMAIN FoundAt(p) :
        Shown(tables, p)'[m] = FoundAt(p)[m] \/ Shown(tables, p)'[m] = tabs[p][m]
  BY <1>1, <1>2, <1>3
<1> QED
  BY <1>1, <1>2, <1>4, LocalStep

\* The root directory is written, all of it or its first entries.
LEMMA RootStep ==
    ASSUME TypeInv, ContentInv, DelInv, pc = "dirs", cmd.op = "del", UNCHANGED <<fats, data>>,
           DOMAIN root' = 1 .. RootSlots,
           \A i \in 1 .. RootSlots : root'[i] \in {root[i], tabs[<<>>][i]}
    PROVE  /\ DiskTree' \subseteq DiskTree
           /\ \A e \in DiskTree \ DiskTree' : IsPrefix(cmd.path, e.path)
<1>1. Erasing(at, slot) /\ <<>> \in DOMAIN tabs /\ FoundAt(<<>>) = root
  BY TabsTypes DEF DelInv, FoundAt
<1>2. DOMAIN root = 1 .. RootSlots
  BY DEF TypeInv, TypeOK
<1>3. \A i \in 1 .. RootSlots : tabs[<<>>][i] = root[i] \/ tabs[<<>>][i] = EmptyEntry
  BY <1>1, <1>2 DEF Erasing
<1>4. Emptied
  BY <1>2, <1>3 DEF Emptied
<1>5. PICK tables : tables = tabs
  OBVIOUS
<1>6. \A p \in DOMAIN tabs \ {<<>>} : Shown(tables, p)' = FoundAt(p)
  BY <1>5, ShownSame
<1>7. Shown(tables, <<>>)' = root'
  BY DEF Shown
<1> QED
  BY <1>1, <1>2, <1>4, <1>5, <1>6, <1>7, LocalStep

LEMMA DeletionStep ==
    ASSUME TypeInv, SafetyInv, ContentInv, DelInv, [Next]_vars, cmd.op = "del"
    PROVE  /\ DiskTree' \subseteq DiskTree
           /\ \A e \in DiskTree \ DiskTree' : IsPrefix(cmd.path, e.path)
<1>1. pc \in {"scan", "visit", "sweep", "erase", "fat", "dirs"}
  BY DEF DelInv
<1>2. CASE pc \notin {"erase", "dirs"}
  BY <1>1, <1>2, EarlyTree
<1>3. CASE pc = "erase"
  <2>1. CASE UNCHANGED disk
    BY <1>3, <2>1, QuietStep
  <2>2. CASE EraseEntry /\ ~ UNCHANGED disk
    <3> DEFINE first == tabs[at][slot].first
               s == Chain(fat, first)
    <3>1. /\ first = 0 \/ HasChain(fat, first)
          /\ data' = IF first = 0 THEN data ELSE ZeroChain(s)
          /\ UNCHANGED <<fats, root>>
      BY <2>2 DEF EraseEntry, Undefined
    <3>2. first # 0
      BY <2>2, <3>1 DEF disk
    <3>3. HasChain(fat, first) /\ data' = ZeroChain(s)
      BY <3>1, <3>2
    <3>4. Len(s) \in Nat \ {0}
      BY <3>3, ChainFacts
    <3>5. Len(s) \in 1 .. Len(s)
      BY <3>4
    <3> QED
      BY <1>3, <3>1, <3>3, <3>5, EraseStep
  <2>3. CASE InterruptedInErase
    <3> DEFINE s == Chain(fat, tabs[at][slot].first)
    <3>1. /\ HasChain(fat, tabs[at][slot].first)
          /\ \E k \in 1 .. Len(s) : data' = ZeroChain(SubSeq(s, 1, k))
          /\ UNCHANGED <<fats, root>>
      BY <2>3 DEF InterruptedInErase
    <3>2. PICK n \in 1 .. Len(s) : data' = ZeroChain(SubSeq(s, 1, n))
      BY <3>1
    <3> DEFINE t == SubSeq(s, 1, n)
    <3>3. s \in Seq(Clusters)
      BY <3>1, ChainType
    <3>4. Len(t) = n /\ \A k \in 1 .. n : t[k] = s[k]
      BY <3>3, PrefixOfChain
    <3> QED
      BY <1>3, <3>1, <3>2, <3>4, EraseStep
  <2>4. \/ UNCHANGED vars \/ EraseEntry \/ InterruptedBetweenWrites \/ InterruptedInErase
    <3>1. ASSUME Next PROVE Step \/ Interrupt
      BY <1>3, <3>1 DEF Next, Start, StartCreate, Halted
    <3>2. ASSUME Step PROVE EraseEntry
      BY <1>3, <3>2
         DEF Step, ScanDirectory, Format, BeginPut, CreateFile, CreateFileFails, EnterDirectory,
             MakeDirectory, FillEntry, WalkPathFails, BeginDelete, SoftDelete, DeleteRefused,
             VisitEntry, SweepDirectory, MoveEntry, MoveRefused, WriteFat, WriteDirectory,
             WriteRoot, Opened
    <3>3. ASSUME Interrupt
          PROVE  InterruptedBetweenWrites \/ InterruptedInErase
      BY <1>3, <3>3 DEF Interrupt, InterruptedInFormat, InterruptedInFile, InterruptedInFat,
                        InterruptedInDirectory, InterruptedInRoot
    <3> QED
      BY <3>1, <3>2, <3>3
  <2>5. UNCHANGED vars \/ InterruptedBetweenWrites => UNCHANGED disk
    BY DEF vars, disk, InterruptedBetweenWrites
  <2> QED
    BY <2>1, <2>2, <2>3, <2>4, <2>5
<1>4. CASE pc = "dirs"
  <2>1. CASE UNCHANGED disk
    BY <1>4, <2>1, QuietStep
  <2>2. CASE WriteDirectory /\ ~ UNCHANGED disk
    <3>1. PICK p \in todo :
            /\ IsNext(p)
            /\ IF CanStore(p)
               THEN /\ data' = StoreTable(Chain(fat, HeadOf(p)), tabs[p])
                    /\ todo' = todo \ {p}
                    /\ UNCHANGED <<fats, root, pc, cmd, fat, tabs, at, slot, head, job, copy, res>>
               ELSE Undefined
      BY <2>2 DEF WriteDirectory
    <3> DEFINE t == Chain(fat, HeadOf(p))
               n == Len(t)
    <3>2. CanStore(p) /\ data' = StoreTable(t, tabs[p]) /\ UNCHANGED <<fats, root>>
      BY <2>2, <3>1 DEF Undefined
    <3>3. n \in Nat \ {0}
      BY <3>2, ChainFacts DEF CanStore
    <3>4. n \in 1 .. Len(t) /\ \A k \in 1 .. n : t[k] = Chain(fat, HeadOf(p))[k]
      BY <3>3
    <3> QED
      BY <1>4, <3>1, <3>2, <3>4, DirectoryStep
  <2>3. CASE InterruptedInDirectory
    <3>1. PICK p \in todo :
            LET s == Chain(fat, HeadOf(p))
            IN  /\ IsNext(p)
                /\ CanStore(p)
                /\ \E k \in 1 .. Len(s) : data' = StoreTable(SubSeq(s, 1, k), tabs[p])
      BY <2>3 DEF InterruptedInDirectory
    <3> DEFINE s == Chain(fat, HeadOf(p))
    <3>2. PICK n \in 1 .. Len(s) : data' = StoreTable(SubSeq(s, 1, n), tabs[p])
      BY <3>1
    <3> DEFINE t == SubSeq(s, 1, n)
    <3>3. s \in Seq(Clusters)
      BY <3>1, ChainType DEF CanStore
    <3>4. Len(t) = n /\ \A k \in 1 .. n : t[k] = s[k]
      BY <3>3, PrefixOfChain
    <3>5. CanStore(p) /\ UNCHANGED <<fats, root>>
      BY <2>3, <3>1 DEF InterruptedInDirectory
    <3> QED
      BY <1>4, <3>2, <3>4, <3>5, DirectoryStep
  <2>4. CASE WriteRoot
    <3>1. root' = tabs[<<>>] /\ UNCHANGED <<fats, data>>
      BY <2>4 DEF WriteRoot
    <3>2. DOMAIN tabs[<<>>] = 1 .. RootSlots
      BY <1>4 DEF TypeInv, TypeOK, PhaseOK, Running
    <3> QED
      BY <1>4, <3>1, <3>2, RootStep
  <2>5. CASE InterruptedInRoot
    <3>1. UNCHANGED <<fats, data>>
      BY <2>5 DEF InterruptedInRoot
    <3>2. PICK k \in 1 .. RootSlots :
            root' = [i \in 1 .. RootSlots |-> IF i <= k THEN tabs[<<>>][i] ELSE root[i]]
      BY <2>5 DEF InterruptedInRoot
    <3>3. DOMAIN root' = 1 .. RootSlots
          /\ \A i \in 1 .. RootSlots : root'[i] \in {root[i], tabs[<<>>][i]}
      BY <3>2
    <3> QED
      BY <1>4, <3>1, <3>3, RootStep
  <2>6. \/ UNCHANGED vars \/ WriteDirectory \/ WriteRoot \/ InterruptedBetweenWrites
        \/ InterruptedInDirectory \/ InterruptedInRoot
    <3>1. ASSUME Next PROVE Step \/ Interrupt
      BY <1>4, <3>1 DEF Next, Start, StartCreate, Halted
    <3>2. ASSUME Step PROVE WriteDirectory \/ WriteRoot
      BY <1>4, <3>2
         DEF Step, ScanDirectory, Format, BeginPut, CreateFile, CreateFileFails, EnterDirectory,
             MakeDirectory, FillEntry, WalkPathFails, BeginDelete, SoftDelete, DeleteRefused,
             VisitEntry, SweepDirectory, EraseEntry, MoveEntry, MoveRefused, WriteFat, Opened
    <3>3. ASSUME Interrupt
          PROVE  InterruptedBetweenWrites \/ InterruptedInDirectory \/ InterruptedInRoot
      BY <1>4, <3>3 DEF Interrupt, InterruptedInFormat, InterruptedInFile, InterruptedInErase,
                        InterruptedInFat
    <3> QED
      BY <3>1, <3>2, <3>3
  <2>7. UNCHANGED vars \/ InterruptedBetweenWrites => UNCHANGED disk
    BY DEF vars, disk, InterruptedBetweenWrites
  <2> QED
    BY <2>1, <2>2, <2>3, <2>4, <2>5, <2>6, <2>7
<1> QED
  BY <1>1, <1>2, <1>3, <1>4

\* A deletion only ever removes entries, and only the victim and what is below it, in
\* whatever write it is interrupted, as long as no deletion reads two entries that name
\* the same directory: lf12_del_entry zeroes the clusters of one entry, and all of
\* the metadata it then writes differs from the disk in that entry only.
THEOREM DeletionsAreLocal == Spec /\ []DirectoriesDistinct => DeletionIsLocal
<1>1. TypeInv /\ SafetyInv /\ ContentInv /\ DelInv /\ [Next]_vars
        => [cmd.op = "del" /\ Fits
                => /\ DiskTree' \subseteq DiskTree
                   /\ \A e \in DiskTree \ DiskTree' : IsPrefix(cmd.path, e.path)]_vars
  BY DeletionStep
<1> QED
  BY <1>1, DelInvariant, PTL DEF Spec, DeletionIsLocal
=============================================================================
