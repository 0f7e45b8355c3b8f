# Formal models of f12

f12 (`src/`) is a command line tool that creates and edits FAT12 images. This
directory holds TLA+ models of it, the TLC instances that check them and the
theorems that TLAPS proves about them. Paths below are relative to the
repository; `io.c`, `path.c`, `directory_entry.c`, `metadata.c` and `name.c` are
in `src/libfat12/`.

## 1. Inventory of the system

f12 has no server and no shared memory: each command is one process that opens
the image, reads its metadata, does one thing and exits. The state that outlives
a process is the image file. What makes the program hard is that an image is a
structure of several parts (FAT copies, directories, contents) that are written
one after the other without a journal, that the next command trusts what it
reads, and that arithmetic in 8, 12 and 16 bits decides where the parts lie.

| component | state | operations | correct when |
|---|---|---|---|
| FAT, allocation and chains (`io.c`, `metadata.c`) | `fat_entries`, `end_of_chain_marker`, `entry_count` | `_lf12_create_cluster_chain`, `_lf12_get_cluster_chain_length`, the do-while loops over chains | chains are disjoint and end in the marker; an allocation takes free entries only; "full" is answered only when it is |
| FAT, packing (`io.c`) | buffer of `SectorsPerFat * SectorSize` bytes | `create_fat`, `read_fat_entries`, `_lf12_read_fat_entry` | reading gives back what was written; no access leaves the buffer |
| metadata I/O (`io.c`) | image file; metadata in memory | `lf12_read_metadata` (scan of all directories), `lf12_write_metadata` (`write_bpb`, `write_fats`, `write_root_dir`, `write_directory`) | at every moment an image that the next command can read |
| put (`src/put.c`, `src/common.c`, `io.c`, `path.c`) | the files of a source directory, the path being walked | `f12_put`, `_f12_walk_dir`, `lf12_create_file`, `lf12_create_entry_from_path`, `lf12_path_create_directories`, `lf12_create_directory_table` | atomic for a reader; a failed put changes nothing; existing paths stay |
| create (`src/create.c`, `io.c`) | BIOS parameter block, length of the file | `f12_create`, `_f12_initialize_bpb`, `_f12_sectors_per_fat`, `lf12_create_image`, `lf12_install_bootloader` | regions do not overlap; tables cover the data area; size as asked |
| del (`src/del.c`, `io.c`) | position in the tree | `f12_del`, `recursive_del_entry`, `lf12_del_entry` | only the victim goes; ends |
| move (`src/move.c`, `directory_entry.c`) | | `f12_move`, `lf12_move_entry`, `_f12_dump_move` | nothing is lost |
| directory entries (`directory_entry.c`) | tree of `lf12_directory_entry` | emptiness, dot directories, counts, free entries | agree with each other |
| paths, names (`path.c`, `name.c`, `src/common.c`) | strings | `lf12_parse_path`, `lf12_path_get_parent`, `lf12_convert_name`, `lf12_get_entry_path`, `destination_path` | lengths computed and lengths filled in agree; a path means the same whenever it is parsed |
| time stamps (`metadata.c`, `src/common.c`) | | `time_usec`, `lf12_generate_entry_timestamp`, `lf12_read_entry_timestamp` | near the moment, in its order, read back in every zone |
| get, list, info (`src/get.c`, `src/list.c`, `src/info.c`) | host files, output | walks over the tree in memory | every entry once, in order; columns aligned; counts that agree |
| command line, errors (`src/main.c`, `error.c`) | | limits of the options | what is refused cannot be laid out |
| boot code (`boot/`) | | runs on the booted machine | |

Interactions are calls within a process, and, between processes, the image:
every command starts from what an earlier, perhaps interrupted, one has left.

Hard behaviours: interruption between and within writes; a write that fails in
the middle; a multi-file put that fails half-way; the next command's reuse of
clusters that never reached the FAT; the recursive deletion that rewrites all
metadata for every entry while it walks the same tables; the circular dependency
between the size of the FAT and the size of the data area; the 16-bit words of
`create_fat` that overlap; lengths
of strings that are computed by one routine and filled in by another; walks that
climb through a tree by searching for themselves. `hazards` in PROJECT.json lists each at its line with
the properties for it.

## 2. Modules

```
Fat            the table in memory: allocation, chains          (operators)
 ├─ FatProofs                                 lemmas
 ├─ ChainLoops   its loops, one iteration at a time             (state machine)
 │   └─ ChainLoopsProofs                      theorems   (with FatProofs)
 ├─ PackedFat    create_fat, read_fat_entries                   (state machine)
 │   └─ PackedFatProofs                       theorems
 ├─ MCFatLoops   instance of ChainLoops and PackedFat for TLC
 └─ Image        the disk and one command at a time             (state machine)
     └─ ImageSafety      TypeOK, the inductive invariants
         └─ ImageContent    chains and what their clusters hold
             └─ ImageProperties    what a reader of the disk sees
                 ├─ ImageProofs               theorems   (with FatProofs)
                 ├─ ImageRefinement    Image implements FileTree
                 ├─ ImageClaims    what a comment says and the code does not do
                 └───── MCImage    instances for TLC
FileTree       what the commands promise, without clusters      (abstract)
Names          8.3 names and paths as strings                   (operators)
 └─ PathNames    the life of a path             (state machine)
     ├─ MCPathNames
     └─ PathNamesProofs                       theorems
TimeStamps     from the clock to the entry and back             (state machine)
 ├─ MCTimeStamps
 └─ TimeStampsProofs                          theorems
MCEntries      MCPathNames and MCTimeStamps in one instance
Walks          get, list, info, the lines of move               (state machine)
 └─ WalkProperties    what the walks have to show
     ├─ MCWalks
     └─ WalksProofs                           theorems
Geometry       f12 create: parameter block and layout           (state machine)
 └─ GeometryProperties
     ├─ MCGeometry
     └─ GeometryProofs                        theorems
```

### Fat and Image

`Image` models f12 create, put, del and move down to libfat12. Its disk is
`fats` (every FAT copy), `root` and `data` (a block per cluster); the boot sector
is left out, since every rewrite of the parameter block writes the bytes that are
there. `fat`, `tabs`, `at`, `slot`, `head`, `job`, `copy`, `todo` and `cmd` are
the memory of the process; `pc` is the phase it is in:

| phase | code |
|---|---|
| `scan` | `load_root_dir`, `scan_subsequent_entries`; one `ScanDirectory` per subdirectory, in the order of the recursion |
| `format` | `lf12_create_image` (`Format`) |
| `create` | `lf12_create_file`: allocation and `write_to_cluster_chain` (`CreateFile`) |
| `path` | `lf12_create_entry_from_path`: one `EnterDirectory` or `MakeDirectory` per component of the path, then `FillEntry` |
| `visit`, `sweep`, `erase` | `recursive_del_entry`, its loop, `lf12_del_entry` |
| `fat`, `dirs` | `write_fats`, one `WriteFat` per copy; `write_directory`, one `WriteDirectory` per directory, children first, then `WriteRoot` |
| `undefined` | the process has done something undefined in C, or the image has lost its parameter block |

`tabs` maps the slots that lead to a directory to its table: the tree of
`children` pointers with the pointers replaced by positions. Every step has a
counterpart `Interrupted...` in which it is the last one of its process; a write
under way may then have stored a prefix of its clusters, FAT entries or directory
entries. An interruption stands for a kill and for a failed read or write, after
which the code returns to the command at once. stdio's buffers do not reorder
these writes: `fseek` before each region flushes them.

A table in memory has two entries more than the table on the disk (`Clusters`
and `Stored`): `lf12_create_root_dir_meta` and `create_fat` disagree by two.
A directory that `f12` makes has 224 entries in memory and 244 * 32 bytes of
clusters (`NewDirSlots`, `DirClusters`); its dot entries have first cluster 0.
A file is its size in clusters; the bytes are `FileBlock(size, part)`.
Names, the 8.3 forms, are model values.

The definitions marked "Variant with a fault" change one step the way a slip in
the code would; they are used by the mutants of PROJECT.json only.

### FileTree and ImageRefinement

`FileTree` is f12 as its user sees it: a set of nodes (path, kind, size), and a
command that looks at it (`work`), decides on the tree it will leave (`Decide`)
and makes it visible (`write`). `Goals` says which tree that is: a put replaces
the entry of a file and makes missing directories, a deletion takes one victim at
a time, a move takes the subtree along. `Visible` says what a reader may find
before the last write: never more than the old and the new nodes, and, for a put
of one file and every round of a deletion, only the old tree or the new one.
`Stop` is an interruption anywhere. A soft deletion promises what a hard one does:
when it succeeds the victim is gone. The code does not keep that (MCImageSoft), so
that the runs that check the refinement have soft deletions only of directories with
entries, which are refused.

`ImageRefinement` maps `tree` to what the next command would load from the disk
(`DiskTree`), `goal` to the tree in memory, and `stage` to the phase of `pc`.
The promises hold of sound images only, and `SoundStaysSound` is the other half:
starting from a sound image, a put, a create or a deletion keeps disk and memory
sound as long as the command fits. Two breaks are part of the promise because
the code has them: an interrupted create, and a put onto a directory, which
leaves an entry with the directory bit that leads to the bytes of a file.

### ChainLoops

The loops of `_lf12_create_cluster_chain`, `_lf12_get_cluster_chain_length`,
`write_to_cluster_chain` and `load_cluster_chain`, with the bytes they move and
the 16-bit variables they count in. `Image` takes each as one step; this module
is why it may.

### Names and PathNames

Strings are sequences of characters. `Names` has the routines of `name.c`,
`path.c` and the two helpers of `common.c` as operators: `Converted` /
`FileName` (to 8.3 and back), `SplitInput`, `BuildPath`, `PathGetParent`,
`PathLength` against `EntryPath`, `DestinationPath`. `PathNames` strings them
together the way a path travels: given or made up for a file of a recursive put,
split, converted, shown as the path of an entry, parsed again. The pointer that
`_lf12_split_input` leaves unset is the part `Wild`; reading it is `undefined`.
The loops over characters and over components are recursive functions of the
number of turns taken (`SplitAt`, `Without`, `PathLength`, `Slashed`). `Chars` is
what strings are made of: of the characters, the code tells apart the valid ones,
the small letters, the dot and the slash (`CharsAssumption`).

### TimeStamps

`time_usec` with its two readings of the clock, the packing as UTC, and the two
calls of `mktime`. An instant is a day and a second. The C library is external:
the calendar, and zones with an offset for standard and for summer time and the
instants between which it is summer. The zones are those since 1980: offsets of
whole minutes, less than a day (`ZonesAssumption`); in Ireland the clocks go back
for what its zone calls summer. The instants are those a stamp can hold, the
years 1980 to 2107 (`InstantsAssumption`). `gettimeofday` and `time` are taken to
read one clock that never goes back. The kernel's `time` may lag behind it by a
tick; a stamp can then be a second early, which is outside of the model.

### Walks

A position is the sequence of slots that leads to an entry from the one the
command was given. The tree, `entry`, is a function from positions to entries, each
with its kind, the length of its name, its size and its `child_count` (`slots`); a
`children` pointer is a position. `here` and `i` are the directory and the slot of
the running loop, and the recursion of get and list is a position to which they
return. `GetEntry`, `GetChild` are `_f12_dump_f12_structure`: what it creates on
the host may fail at every step, and the second free of a path is a choice between
`undefined` and nothing. `ListEntry`, `ListChild` print the lines whose columns
`Widths` and `SizeLens` have measured before. `MoveEntry`, `MoveChild` are the loop
of `_f12_dump_move`, which walks without recursion. `FileCounts` and
`DirectoryCounts` are the counts of `f12 info`. What the code computes by recursion
over the tree is a recursive function of the position.

`Trees` may be any set of finite trees (`IsTree`) that a command can find in
memory (`IsImageTree`): a table has at least one slot; each directory below has its
two dot entries, as `lf12_create_directory_table` and every other FAT
implementation writes them; directories have size 0 and files one of 32 bits. No
walk enters a dot entry, so that the table it shares with another directory is
left out.

### Geometry

`_f12_initialize_bpb` as a function of the options, `_f12_sectors_per_fat` with
its two conversions of a double to `int` (`TableBytes`, `TableSectorBytes`), the
truncation of `LogicalSectors` to 16 bits, the missing `break` of the case 640,
and the five writes of `f12_create` with their effect on the length of the file.
A double that an `int` cannot hold becomes a value of `OutOfRange`. `CommandLine`
are the options that `main.c` accepts.

### PackedFat

The loops of `create_fat` and `read_fat_entries` an iteration at a time, with
16-bit words over a byte buffer. It assumes 12-bit entries and a buffer that is
large enough; the code checks neither (see the disagreements below).

## 3. What the runs check

Passing runs:

| run | question | distinct states |
|---|---|---|
| MCImagePut | puts of one file and of several, over files and directories, empty, too large, half-way impossible; creates; a soft deletion that is refused; interrupted anywhere | 299,171 |
| MCImageDelete | deletions of files and trees, mixed with puts, and that they end | 20,960 |
| MCImageMove | moves up, down, sideways, within a directory, onto themselves and onto a name that is there | 71,607 |
| MCFatLoops | the loops over clusters for all tables of five clusters and all sizes; packing and unpacking for all tables of five entries over six values | 101,692 |
| MCEntries | what becomes of a name, all strings of up to six characters as paths, and of a time, clocks around the turns of seconds, days, years and summer time in eight zones | 688,173 |
| MCWalks | the walks over all trees of three levels | 357,972 |
| MCGeometry | the layout for every size from 18 to 2900 KiB, and for options on the floppy sizes | 194,194 |

The properties, in words:

* `HeadsAnchored`: whenever a command stops, the chain of every entry on the disk
  is allocated to its end in *every* FAT copy. `FirstFatLeads`: the copy that is
  read knows what any copy knows. `FatOnlyGrows`: no FAT entry is ever given back
  (a deletion leaks its clusters; the other properties depend on it).
* `ChainsDisjoint`, `ContentIntact`, `ContentIntactOrErased`: no two chains share
  a cluster; the clusters of a file hold that file at every moment (or zeros,
  during and after an interrupted deletion). They speak of every entry on the
  disk, also of those in clusters that no name leads to any more.
  They leave out the clusters that no FAT copy keeps (`Stored`): that a chain
  through one of those is handed out a second time is caught by
  `AllocationsSaved` only, which is violated (see below).
* `DirectoriesHoldEntries`: an entry on the disk never leads to a directory whose
  clusters still hold the bytes of a file. `Unshared`: after puts, interrupted or
  not, no two entries of the tree a command has read lead to one directory.
* `TreeChangesLate`: what a reader sees changes only while directories are written,
  by the formatting of a create and by the erasing of a deletion; a put or a move
  that fails or stops before has changed nothing, also on an image that is not
  sound.
* `ImplementsFileTree`, `SoundStaysSound`: see FileTree above.
* `DeletionIsLocal`, `MoveDownLosesNothing`: like their counterparts in
  `FileTree`, but on images that need not be sound.
* `EveryCommandEnds`: every command of MCImageDelete ends, the recursive deletion
  included, which walks the tables it changes.
* `AllocatesFirstFit`, `FullLeavesTable`: the loops are `Fat!Allocate` and
  `~Fat!CanAllocate`. `TooLongForWidth`: the 16-bit length of a chain never lets
  a chain through that has wrapped. `LoadedIsFile`: what is read is what was put.
* `SplitIsExact`: the parts joined are the input, but for one slash at either
  end; only an input that ends in two slashes leaves a part without a pointer.
  `ConversionIsStable`: the path f12 shows leads to the entry it was shown for,
  unless a name is all blanks. `LengthExactWithoutBlanks`: the buffer for a path
  is exact exactly when no name has a blank inside. `PutsWhereToldTo`: a
  recursive put finds the place its arguments name (from the path of a file below
  the source directory on; how that is cut out of a source argument with a slash at
  its end, common.c:121, is left out). `RelationIsPrefix`: the
  relation f12_move decides on is that of prefixes.
* `StampNearMoment`: a stamp is not before the first look at the clock and less
  than a second after the second one. `StampsKeepOrder`: next to any other moment
  the stamp of a file is not below it if the moment is not after the first look,
  not above it if the moment is in a later second than the second look, and ordered
  as the moments are if no second begins between the looks. If one does, a file put
  at 9.999 gets the stamp 10.999 and looks newer than one put at 10.5. `ReadsBack`: the stamp is read back in every zone, a day late (or
  early, where the clocks go back for the summer) exactly when the change to
  summer time carries it over midnight.
* `CopiesInOrder`: what get has created is at every moment the beginning of a
  full copy. `MoveListsOnce`: the lines of move are the entries, each once, and
  the walk fails exactly when a directory with entries sits in the last slot of
  a table. `ColumnsAligned`: all lines of a listing are of one length.
  `CountsAgree`: info, get and list count the same. `WalksEnd`.
* `DataClustersHaveEntries`: every cluster has its byte and a half in the table;
  in the one case `LastEntryCut` names, half a byte is missing.
  `ImageHasRequestedSize`. `ClustersFillDataArea`: where the root directory fills
  its sectors, the clusters that the data area was sized for begin behind it and
  end within the image, and the next one does not. (Where it does not fill them,
  cluster 2 lies on it: MCGeometryRoot.)
* `PackedSoFar`, `LoadedIsSaved`.

Conditions that appear in the properties: `Fits`, the command has no cluster in
use that no FAT copy keeps (`MCImageUnsaved` shows what happens otherwise);
`Unshared`, no two entries in memory lead to the same directory (an interrupted
move downwards leaves such a pair); `DiskSound` and `MemorySound`, which add
that chains are complete and names occur once.

Bounds of the image runs. Two names, a root directory of two entries, two entries
per cluster and two clusters per directory (for moves one cluster of four), four
or five saved clusters and the two unsaved ones. That is enough for a full root
directory, a full image, a directory in a directory, a chain of more than one
cluster, an interrupted write of either cluster, a file refused for its size
(`ChainLimit`, which stands for 65536 bytes) and clusters that look free again.
The number of commands is not bounded: allocations never shrink, so the state
space is finite. The commands differ from run to run and are listed in `MCImage`.

Bounds of the others. MCFatLoops and MCEntries each follow one of two modules that
do not work on the same data at a time (`working`, `field`); the other one stays
where it starts. For ChainLoops, MCFatLoops replaces 65536 by 16, so that chains of four
clusters are too long and the uneven sizes lie on both sides of the limit.
`MCPathNames` has names of three characters and extensions of one: strings of six
overflow both, and hold an inner blank, a second dot, a double slash at either
end and three components. `MCTimeStamps` has the change of every zone to and from
summer time with the hours around it, a leap day and the first and the last year
an entry can hold; 2107-12-31 is left out, since the local day can be in 2108.
MCWalks has directories with every kind of entry (free, file, long file name,
directory) in the first and in the last slot, names of unequal length and sizes
on both sides of the change of the unit. MCGeometry leaves out sizes under
18 KiB, where the metadata of the default parameters is larger than the image,
and sizes above 2900 KiB, the largest floppy disk; from 8158 KiB on the default
clusters are too many for 12 bits. For PackedFat, MCFatLoops has an odd number of entries and
values with a different digit in every nibble.

All runs but those of `Image` switch deadlock checking off: their models describe
one run of a program that ends. `Image` is checked for deadlock; a command can
always take a step, and an image always accepts another command.

Fairness. MCImageDelete assumes `WF_vars(Step)`, a process that
has been started and can go on does go on; `Step` has no interruption and no
start of a command, so nothing forces a user to run commands and nothing rules
out kills. MCWalks assumes `WF_vars(Next)`: a walk is one process, without input.

### Disagreements between the code and its documentation

Each of these has a run that TLC finds violated.

| run | what the trace shows |
|---|---|
| MCImageUnsaved | a put that gets one of the last two clusters succeeds, and no FAT copy has the allocation: `create_fat` writes `LogicalSectors / SectorsPerCluster` entries (io.c:535), the allocator uses two more (metadata.c:11-12, 43) |
| MCImageSoft | `f12 del --soft` succeeds, and the next command finds the file under its name: `lf12_del_entry` returns before it does anything (io.c:845); libfat12.h:249 says that the entry is marked as deleted |
| MCPathNamesBlank | the path of an entry named `b b` is longer than the buffer made for it: `_lf12_get_path_length` (name.c:50) counts no blanks, `lf12_get_entry_path` copies the inner ones; name_p.h:5 promises the length of the path |
| MCTimeStampsExact | in summer a stamp of the last hour before midnight UTC is read back a day late: the first `mktime` moves the day, and only hour, minute and second are set again (metadata.c:211); metadata.c:197 promises the exact time |
| MCGeometryRoot | the defaults of 320 KiB are a root directory of 1536 bytes on sectors of 2048 (create.c:156, 160), and `_lf12_cluster_offset` (io.c:26) puts cluster 2 onto it; create.c:95 says that the root directory is always a multiple of the sector size |

Others are conditions of the passing properties or follow from their models:

* A put of an empty file fails with "The image is full" (io.c:753): `Want > 0` in
  `FullLeavesTable`.
* 1200 KiB: the loops of `create_fat` and `read_fat_entries` need 3600 bytes of a
  table of 3584.
* 359 KiB with one sector per cluster gets a table that ends half a byte before
  its last entry does, where the next sector begins (`LastEntryCut`); 32768 KiB,
  the documented maximum, wraps to 0 sectors; 10 KiB, the minimum, gives a file of
  16896 bytes.
* A put onto the name of a directory keeps the directory bit (io.c:957):
  `PutOntoDirectory`.
* An interrupted move upwards or within a directory can lose the entry; a move looks at no names.
* `f12 move --verbose` reads behind a table when a directory with entries sits in
  its last slot (move.c:66): `DirectoryInLastSlot`.
* `get` frees the path of a child twice from the second child on (get.c:61) and
  does not look whether `fopen` failed (get.c:23).
* A name of blanks alone cannot be given as a path again: `IsNameless`.
* `get` copies long file name entries as files, and info counts them; list does
  not show them: `CountsAgree`.
* `lf12_get_used_bytes` adds one byte per cluster in use (metadata.c:78).
* list shows the access date through the local time: west of UTC it is the day
  before (list.c:131-137).

## 4. What is proved

For all values of the constants that the named assumptions of `Fat`,
`ChainLoops`, `Image`, `PackedFat`, `Geometry`, `Names`, `PathNames`,
`TimeStamps` and `Walks` admit (`Spec` is the specification of the module; it is called
`PackSpec` in PackedFat and `StampSpec` in TimeStamps):

* `ImageProofs!TypeCorrect`: `Spec => []TypeOK`. `TypeOK` is not inductive: that
  `job` is an index of the command's files or that `at` has a table depends on
  the phase. `PhaseOK` says what each phase has set up, and `TypeInv == TypeOK /\
  PhaseOK` is inductive.
* `ImageProofs!EntriesNeverAheadOfFat`: `Spec => []HeadsAnchored`,
  `FirstCopyLeads`: `Spec => []FirstFatLeads`, `FatNeverShrinks`:
  `Spec => FatOnlyGrows`. All come from `SafetyInv`. The disk is anchored because
  an entry reaches it only from the memory of a command that has already written
  its table to all copies. So the invariant says of the memory that every entry
  in it is anchored in `fat` (`MemoryAnchored`), that every copy on the disk is a
  part of `fat` (`FatsBelow`), and that the copies rewritten so far are all of it
  (`CopiesSaved`). `Anchored` is stated with a set of clusters that is closed
  under the links and in which links ascend: first fit links upwards, and such a
  set needs no induction over the length of a chain. `FatProofs` has the lemmas
  on allocation: it changes free entries only, and its head is anchored.
* `ImageProofs!ChainsNeverShareClusters`: `Spec => []ChainsDisjoint`,
  `DirectoriesNeverHoldFiles`: `Spec => []DirectoriesHoldEntries`,
  `FilesNeverMixed`: `Spec => []ContentIntactOrErased`, and `FilesNeverLost`:
  `Spec => []ContentIntact` where no command is a deletion (a deletion zeroes
  clusters before it drops the entry). All come from `ContentInv`, which is
  inductive together with `TypeInv` and `SafetyInv`. The chain of a head is its
  `Extent`, the set of clusters its links lead to, and a cluster has a `PlaceIn`
  it; `ExtentsApart` says that the extents of all entries, on the disk and in
  memory, in the table that the command works with are apart, `OneKind` that one
  head is not that of a file here and of a directory there, `FilesHeld` and
  `TablesHeld` what their clusters hold. `NewChain` describes the chain that a
  put is about to fill and that no entry names yet, `TreeInv` how the directories
  in memory hang together, `UnsavedLinks` that a cluster no FAT copy keeps
  never links to one that they keep. TLC has checked `ContentInv` on
  the three instances of `MCImage` before it was proved.
* `ImageProofs!TreesChangeLate`: `Spec => TreeChangesLate`. Until a command writes
  directories it writes file contents, to clusters of a chain that was free, and
  FAT copies, which only grow. So every chain of an entry on the disk is the same
  before and after the step and so is what is in it (`AgreeOn`, `SameWalks`), and
  hence every table that names lead to, level by level. This needs no sound image,
  and it holds for all commands.
* `ImageProofs!MovesDownLoseNothing`: `Spec => MoveDownLosesNothing`. The invariant
  is `ImageContent!MoveInv`: a command that has only read the disk has in memory
  what a reader finds (`FoundAt`), and while a move writes, the two differ in the
  slot given up and the slot gained at most (`Moving`), and no longer in the second
  one when its directory has been written. The scan has found every subdirectory
  (`TablesLed`), so the disk holds no head but those in memory (`HeadsKnown`). A step that brings
  the second slot to the disk lets a reader find every table of the memory
  (`AllShown`), whose depth is bounded because no two of them start at the same
  cluster (`NotDeep`); any other step rewrites what is there (`SameSlots`), because
  `write_root_dir` comes to a directory after those below it. `TableWrites` says
  what a write that is cut off within a directory has changed. TLC has checked
  `MoveInv` on the instances with moves and with deletions before it was proved.
* `ImageProofs!DeletionsAreLocal`: `Spec /\ []DirectoriesDistinct => DeletionIsLocal`.
  The invariant is `ImageContent!DelInv`: a deletion works on an entry whose names
  begin with its path (`Doomed`), and while it writes, memory and disk differ in the
  slot it has erased at most (`Erasing`). What `lf12_del_entry` zeroes are the
  clusters of one entry, which leaves every other directory as it is (`EraseWrites`),
  and every later write only empties slots, also one that is cut off
  (`TableWrites`). So a reader finds nothing new (`TreeShrinks`) and misses what is at
  the path or below it at most (`LocalChange`, level by level); because names in the
  memory stay where they are (`NamesKept`), that goes for each pass of a recursive
  deletion. The hypothesis is about what a deletion reads: no two directory entries
  that name the same cluster. Without it the theorem is false. An interrupted move
  leaves two entries of one directory, and then a deletion of the one empties the
  other; TLC has shown the counterexample. A put gives every directory clusters of its own.
  TLC has checked `DelInv` and `DirectoriesDistinct` on the instance of MCImageDelete,
  which has no moves, before the theorem was proved.
* `ChainLoopsProofs!LoopIsAllocate`: `Spec => []AllocatesFirstFit`, and
  `FullIsFull`: `Spec => []FullLeavesTable`. The invariant `LoopInv` says for the
  counting loop that `free` is the number of free clusters below the cursor, and
  for the linking loop (`Linking`) that the free clusters below the cursor are
  linked each to the next one, that `first` and `last` are their ends, and that
  everything else is as it was. What makes it go through is that the clusters
  below the cursor are then `FirstFit` of their number (`FirstFitCompleted`),
  and that the loop cannot come to the end of the table before it has linked as
  many as it has counted.
* `ChainLoopsProofs!WrappedLengthNeverFits`: `Spec => []TooLongForWidth`, and
  `FileIsReadBack`: `Spec => []LoadedIsFile`, by `BytesInv` on top of `LoopInv`:
  the clusters written so far hold the beginning of the file, and no other
  cluster has changed. The length of a chain in `Width` bits is exact or the file
  has been refused, because a cluster is smaller than 2^16 bytes or a multiple of
  them (`ClusterSizeAssumption`; `main.c` accepts powers of two only).
* `PackedFatProofs!PackingKeepsEntries`, `TableSurvivesPacking`:
  `Spec => []PackedSoFar` and `Spec => []LoadedIsSaved`, by an invariant on the
  entries packed and unpacked so far; the lemmas are about the two bytes that
  neighbouring entries share.
* `GeometryProofs!TablesCoverData`: `Spec => []DataClustersHaveEntries`,
  `ClustersFillImage`: `Spec => []ClustersFillDataArea`, and
  `ImageGetsRequestedSize`: `[]ImageHasRequestedSize` for command lines whose size
  is a number of sectors of 16 bits and at least that of the metadata
  (`CanHaveSize`; for others it is false, see the disagreements). The invariant is
  that the parameter block is the one computed from the options (`Layout`).
  What is left is arithmetic: on the two truncated quotients, by cases on the
  sectors per cluster and the number of tables, and on the offset of a cluster,
  counted in sectors (`OffsetInSectors`).
* `TimeStampsProofs!StampsAreNear`: `Spec => []StampNearMoment`,
  `StampsAreReadBack`: `Spec => []ReadsBack`, and `StampsAreOrdered`:
  `Spec => []StampsKeepOrder`, for every instant of the years 1980 to 2107, every
  delay and every zone of `ZonesAssumption`. The invariant `HandedOn` names what
  each step was given by the ones before. The lemmas say that the calendar finds
  year and month of every day (`CalendarFacts`, `DayFoundAgain`), that date, time
  and fine resolution can be taken apart again (`DateFields`, `TimeFields`) and
  grow with the day and the second (`DatesGrow`, `TimesGrow`), so that stamps
  compare as moments do (`StampsGrow`), that the stamp's moment lies between those
  of the two looks but for the old microseconds (`CreatedNear`), and that the odd
  second, which only the fine resolution keeps, moves neither the day nor the
  season (`EvenSecond`, `SameSummer`).
* `PathNamesProofs!PathsAreSplitExactly`: `Spec => []SplitIsExact`,
  `ShownPathsAreFound`: `Spec => []ConversionIsStable`,
  `BufferIsExactWithoutBlanks`: `Spec => []LengthExactWithoutBlanks`,
  `PutsFindTheirPlace`: `Spec => []PutsWhereToldTo`, and `RelationsArePrefixes`:
  `Spec => []RelationIsPrefix`, for strings of every length, paths of every depth
  and names of every length. The inductive invariant, `HandedOn`, says which
  function of the step before each variable is; the work is in the lemmas about
  those functions. Splitting and joining undo each other (`SplitJoined`,
  `JoinedSplit`), a split is taken apart at any slash (`SplitConcat`), the ends of
  a string are treated by cases (`LeadingSlash`, `TrailingSlash`,
  `SplitInputFacts`). The name shown for an entry is a legal name cut to its
  marks, and converting it pads it again (`FileNameIsCut`, `ConvertedFileName`);
  so the path shown is read back (`EntryPathIsReparsed`), and so is the one
  `destination_path` makes, which is put together from shown names
  (`DestinationPathFacts`). `NameLengthFacts` compares the blanks skipped by
  the count and by the copy of one name, `PathLengthFacts` adds that up.
  `ParentIsRelation` follows `lf12_path_get_parent` down two paths from the first
  difference backwards. The library's rules for recursion and induction take
  operators as parameters and cannot be used here; `Recursion` proves once, from
  the well-foundedness of the naturals and with sets for predicates, that a
  function given by its value at 0 and a step exists and obeys its equations,
  and `UpToNumber` and `SequenceInduction` are induction over a set. TLC has checked `HandedOn`
  on the instance of `MCPathNames` before it was proved.
* `WalksProofs!GetCopiesInOrder`: `Spec => []CopiesInOrder`, `MoveListsEachOnce`:
  `Spec => []MoveListsOnce`, `ListColumnsAlign`: `Spec => []ColumnsAligned`, and
  `CountsAreTheSame`: `Spec => []CountsAgree`, for trees of every depth and width,
  names and files of every length. What has been listed says nothing of what the
  loop does next; the inductive invariant, `WalkInv` (`WalksInductive`), relates it
  to the place of the loop: what has been listed is, in order, exactly what is to be
  listed before the slot `i` of `here`. `Earlier`, the order of a walk, is linear
  (`EarlierIsOrder`), and a loop only goes to a slot, from a slot to the next one,
  and from the end of a table to the slot behind its directory; between them is the
  entry itself (`EarlierFirst`), what is below it (`EarlierNext`) and nothing
  (`EndOfTable`). For move, `MoveInv` adds that the loop is still inside every
  directory in a last slot that it has come to: it cannot have left one, because
  climbing out of it reads behind the table. The counts and widths are recursive
  functions of the position. `TreeRecursion` proves that such a function exists,
  by the number of positions below one (`Rank`), and `TreeInduction` is the
  induction that goes with it. A count is then the cardinality of a set of
  positions below (`CountIsCardinality`), as is the number of lines, since a list in
  order has nothing twice (`ListedOnce`). A width bounds every line below
  (`OneBelow`, `AllBelow`), and the digits it counts are those `printf` makes
  (`DigitsAre`). TLC has checked `WalkInv` on small trees before it was proved.

Assumptions about constants are named where the constants are declared and TLC
evaluates them in every run.

Model-checked only:

* The liveness properties `EveryCommandEnds` and `WalksEnd`: the provers have no
  rule for fairness.
* `ImplementsFileTree` and `SoundStaysSound`. They compare the tree on the disk with
  the one in memory and need for a put what `MoveInv` says of a move and `DelInv` of a
  deletion: which of the tables the two share at each phase.
* That `DirectoriesDistinct`, the hypothesis of `DeletionsAreLocal`, holds of sets of
  commands without moves. TLC has found it true on the instance of MCImageDelete, and MCImagePut
  checks the stronger `Unshared`, where puts make directories in directories.
  No two directories that a reader can come to share a cluster there, but two entries in
  clusters may: a put onto a directory copies its table to the clusters of the file and leaves the
  old one behind. An invariant has to follow what is reachable through every phase of a put.

## 5. Not modelled

* The command line (`main.c`) but for its limits on the options of create, which
  are `CommandLine` in Geometry: declarations for argp and copies of values into
  structures.
* The search of the simple bootloader for its file, the boot code, and the
  wording of `f12 info` and of error messages.
* Memory management, but for the faults of get and move that end a walk
  (del.c:81 frees a path twice, path.c:184 frees the wrong pointer).
* Failures that the code ignores: `lf12_create_image` drops the results of its
  writes.
* The branch of `lf12_move_entry` for a source named by its dot entry
  (directory_entry.c:161-184): no converted name is `.`, so that `f12 move` never
  comes there.

## 6. Plan

Done, in this order: `Fat` and `Image` (the core, with crashes), `Geometry`,
`PackedFat`; theorems on types, anchoring and packing; `FileTree` and the
refinement; `ChainLoops` and the proof that its loops are `Fat!Allocate`; `Names`,
`TimeStamps` and `Walks`; theorems on chains and contents (`ContentInv`), on the
bytes of the loops, on the layout, on the tree on the disk, on time stamps, on
paths and on the walks; the correspondence between the disk and the memory of a move
(`MoveInv`) and of a deletion (`DelInv`). Every invariant that a run checks, but for
`Unshared`, has a theorem.

Next: the same correspondence for put, from which `Unshared`, `DirectoriesDistinct` for sets of commands without
moves and the steps of `ImplementsFileTree` follow.
