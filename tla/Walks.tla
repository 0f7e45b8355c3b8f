-------------------------------- MODULE Walks --------------------------------
(***************************************************************************)
(* The commands that walk over the tree in memory and change nothing in    *)
(* it: the copying of f12 get (get.c), the lines of f12 list (list.c), the *)
(* lines of f12 move --verbose (_f12_dump_move of move.c) and the counts   *)
(* of f12 info (libfat12/directory_entry.c).                               *)
(*                                                                         *)
(* A position is the sequence of the slots that lead to an entry from the  *)
(* one the command was given, and a tree is the function from positions to *)
(* entries; the children pointer of an entry is its position.  The         *)
(* recursion of get and list is a position to which they return.           *)
(***************************************************************************)
EXTENDS Integers, Sequences, SequencesExt, FiniteSetsExt

CONSTANTS Trees,     \* the entries a command may be given, with all below them
          Commands   \* [op, recursive]

\* length is that of the name, slots is child_count.
Entry == [kind : {"empty", "file", "lfn", "directory", "dot"}, length : Nat,
          size : Nat, slots : Nat]

IsEmpty(e) == e.kind = "empty"

\* lf12_is_directory and lf12_is_dot_dir look at the attributes and the name.
IsDirectory(e) == e.kind \in {"directory", "dot"}

IsDotDir(e) == e.kind = "dot"

\* What is below a dot entry is the table of another directory; no walk enters it.
IsTree(t) ==
    LET positions == DOMAIN t
    IN  /\ IsFiniteSet(positions)
        /\ positions \subseteq Seq(Nat \ {0})
        /\ t \in [positions -> Entry]
        /\ <<>> \in positions
        /\ \A p \in positions \ {<<>>} :
            Front(p) \in positions /\ Last(p) \in 1 .. t[Front(p)].slots
        /\ \A p \in positions : \A k \in 1 .. t[p].slots :
            t[p].kind = "directory" /\ Append(p, k) \in positions

\* The command is given a file or a directory with a table, every other directory
\* has its two dot entries, directories have no size and files one of 32 bits.
IsImageTree(t) ==
    /\ t[<<>>].kind \notin {"empty", "dot"}
    /\ t[<<>>].kind = "directory" => t[<<>>].slots # 0
    /\ \A p \in DOMAIN t \ {<<>>} :
        t[p].kind = "directory" =>
            Cardinality({k \in 1 .. t[p].slots : t[Append(p, k)].kind = "dot"}) = 2
    /\ \A p \in DOMAIN t :
        /\ IsDirectory(t[p]) => t[p].size = 0
        /\ t[p].size \div (1024 * 1024) < 4096

ASSUME TreesAssumption == \A t \in Trees : IsTree(t) /\ IsImageTree(t)
ASSUME CommandsAssumption ==
    Commands \subseteq [op : {"get", "list", "move"}, recursive : BOOLEAN]

VARIABLES
    cmd,
    entry,  \* the entry the command was given
    pc,     \* "start", "walk", "done", "failed", "undefined"
    here,   \* the position of the directory whose loop runs: tmp_entry
    i,      \* the slot the loop looks at next, from 1
    made    \* the positions printed, or created on the host, in order

vars == <<cmd, entry, pc, here, i, made>>

Slots(pos) == entry[pos].slots

Child(pos, k) == entry[Append(pos, k)]

ChildCount(pos) == Cardinality({k \in 1 .. Slots(pos) : ~IsEmpty(Child(pos, k))})

Larger(a, b) == IF a < b THEN b ELSE a

\* What the loops over n children add up, and the largest they have seen.
Total(n, of) ==
    LET upTo[k \in 0 .. n] == IF k = 0 THEN 0 ELSE upTo[k - 1] + of[k]
    IN  upTo[n]

Largest(n, of) ==
    LET upTo[k \in 0 .. n] == IF k = 0 THEN 0 ELSE Larger(upTo[k - 1], of[k])
    IN  upTo[n]

Init ==
    /\ cmd \in Commands
    /\ entry \in Trees
    /\ pc = "start"
    /\ here = <<>>
    /\ i = 1
    /\ made = <<>>

\* The loop of a directory is at its end: on with the loop that called for it.
Return ==
    /\ cmd.op \in {"get", "list"}
    /\ pc = "walk"
    /\ i > Slots(here)
    /\ IF here = <<>>
       THEN pc' = "done" /\ UNCHANGED <<here, i>>
       ELSE here' = Front(here) /\ i' = Last(here) + 1 /\ UNCHANGED pc
    /\ UNCHANGED <<cmd, entry, made>>
-----------------------------------------------------------------------------
(***************************************************************************)
(* get: _f12_dump_f12_structure.                                           *)
(***************************************************************************)
\* A file: the file on the host is opened, which may fail unnoticed and then
\* ends in fwrite(NULL), and lf12_dump_file copies the clusters or fails.
DumpFile(pos, then) ==
    \/ made' = Append(made, pos) /\ then
    \/ made' = Append(made, pos) /\ pc' = "failed" /\ UNCHANGED <<here, i>>
    \/ pc' = "undefined" /\ UNCHANGED <<here, i, made>>

\* A directory: mkdir, which may find that it exists, and the loop over it.
DumpDirectory(pos) ==
    \/ made' = Append(made, pos) /\ pc' = "walk" /\ here' = pos /\ i' = 1
    \/ pc' = "failed" /\ UNCHANGED <<here, i, made>>

GetEntry ==
    /\ cmd.op = "get"
    /\ pc = "start"
    /\ IF ~IsDirectory(entry[<<>>])
       THEN DumpFile(<<>>, pc' = "done" /\ UNCHANGED <<here, i>>)
       ELSE IF ~cmd.recursive THEN pc' = "failed" /\ UNCHANGED <<here, i, made>>
       ELSE DumpDirectory(<<>>)
    /\ UNCHANGED <<cmd, entry>>

\* (Variant with a fault: directories are skipped.)
GetSkipsDirectories(e) == IsEmpty(e) \/ IsDirectory(e)

GetSkips(e) == IsEmpty(e) \/ IsDotDir(e)

\* esprintf frees what entry_path points to, and that has been freed at the end
\* of an earlier iteration of this loop: heap corruption, or luck.
PathFreedBefore == \E k \in 1 .. i - 1 : ~GetSkips(Child(here, k))

GetChild ==
    /\ cmd.op = "get"
    /\ pc = "walk"
    /\ i <= Slots(here)
    /\ LET child == Child(here, i)
       IN  IF GetSkips(child) THEN i' = i + 1 /\ UNCHANGED <<pc, here, made>>
           ELSE \/ PathFreedBefore /\ pc' = "undefined" /\ UNCHANGED <<here, i, made>>
                \/ /\ IsDirectory(child)
                   /\ DumpDirectory(Append(here, i))
                \/ /\ ~IsDirectory(child)
                   /\ DumpFile(Append(here, i), i' = i + 1 /\ UNCHANGED <<pc, here>>)
    /\ UNCHANGED <<cmd, entry>>
-----------------------------------------------------------------------------
(***************************************************************************)
(* list: _f12_list_entry and _f12_list_f12_entry.                          *)
(***************************************************************************)
ListSkips(e) == IsEmpty(e) \/ e.kind = "lfn"

ListEntry ==
    /\ cmd.op = "list"
    /\ pc = "start"
    /\ made' = IF IsDirectory(entry[<<>>]) \/ ListSkips(entry[<<>>]) THEN <<>>
               ELSE << <<>> >>
    /\ pc' = "walk"
    /\ UNCHANGED <<cmd, entry, here, i>>

ListChild ==
    /\ cmd.op = "list"
    /\ pc = "walk"
    /\ i <= Slots(here)
    /\ LET child == Child(here, i)
           enters == cmd.recursive /\ IsDirectory(child) /\ ~IsDotDir(child)
       IN  /\ made' = IF ListSkips(child) THEN made ELSE Append(made, Append(here, i))
           /\ here' = IF enters THEN Append(here, i) ELSE here
           /\ i' = IF enters THEN 1 ELSE i + 1
    /\ UNCHANGED <<cmd, entry, pc>>

\* (Variant with a fault: the indentation is not counted.)
WidthsFlat ==
    LET width[pos \in DOMAIN entry] ==
            IF ~IsDirectory(entry[pos]) THEN 4 + entry[pos].length
            ELSE Largest(Slots(pos), [k \in 1 .. Slots(pos) |->
                    IF IsEmpty(Child(pos, k)) THEN 0
                    ELSE IF IsDirectory(Child(pos, k)) /\ cmd.recursive
                         THEN Larger(4 + Child(pos, k).length, width[Append(pos, k)])
                         ELSE 4 + Child(pos, k).length])
    IN  width

\* _f12_list_width: the longest line below each position up to the end of the
\* name, behind four characters and two more for every level.  It counts the long
\* file names too, which are not listed.
Widths ==
    LET width[pos \in DOMAIN entry] ==
            LET prefix == 4 + 2 * Len(pos)
                line(k) == prefix + Child(pos, k).length
                enters(k) == /\ IsDirectory(Child(pos, k)) /\ ~IsDotDir(Child(pos, k))
                             /\ cmd.recursive
                             /\ Slots(Append(pos, k)) > 0
            IN  IF ~IsDirectory(entry[pos]) THEN prefix + entry[pos].length
                ELSE Largest(Slots(pos), [k \in 1 .. Slots(pos) |->
                        IF IsEmpty(Child(pos, k)) THEN 0
                        ELSE IF enters(k) THEN Larger(line(k), width[Append(pos, k)])
                        ELSE line(k)])
    IN  width

NameWidth == Widths[<<>>]

\* _f12_digit_count, for numbers of up to nine digits.
Tens ==
    LET n[k \in 1 .. 9] == IF k = 1 THEN 10 ELSE 10 * n[k - 1]
    IN  n

DigitCount(number) == Min({k \in 1 .. 9 : number < Tens[k]} \union {10})

\* The number that is shown for a size, in bytes, KiB or MiB; a file has no GiB.
ShownSize(bytes) ==
    CASE bytes < 10000 -> bytes
      [] bytes >= 10000 /\ bytes < 10000000 -> bytes \div 1024
      [] OTHER -> bytes \div (1024 * 1024)

\* _f12__f12_format_bytes_len: all units have six characters.
FormatBytesLen(bytes) == DigitCount(ShownSize(bytes)) + 6

\* _f12_list_size_len.
SizeLens ==
    LET length[pos \in DOMAIN entry] ==
            IF ~IsDirectory(entry[pos]) THEN FormatBytesLen(entry[pos].size)
            ELSE Largest(Slots(pos), [k \in 1 .. Slots(pos) |->
                    IF IsEmpty(Child(pos, k)) \/ IsDotDir(Child(pos, k)) THEN 0
                    ELSE IF IsDirectory(Child(pos, k)) /\ cmd.recursive
                         THEN length[Append(pos, k)]
                         ELSE FormatBytesLen(Child(pos, k).size)])
    IN  length

SizeLen == SizeLens[<<>>]
-----------------------------------------------------------------------------
(***************************************************************************)
(* move --verbose: _f12_dump_move.                                         *)
(***************************************************************************)
MoveEntry ==
    /\ cmd.op = "move"
    /\ pc = "start"
    /\ IF IsDirectory(entry[<<>>]) THEN pc' = "walk" /\ made' = <<>>
                             ELSE pc' = "done" /\ made' = << <<>> >>
    /\ UNCHANGED <<cmd, entry, here, i>>

\* Where the loop goes on behind a directory that is at its end.  (Variant with a
\* fault: at the directory itself.)
BehindAgain(pos) == Last(pos)

Behind(pos) == Last(pos) + 1

\* (Variant with a fault: the loop is continued without a step.)
AfterSkipStuck(slot) == slot

AfterSkip(slot) == slot + 1

\* One iteration.  It climbs a single level when a table is at its end, and looks
\* at the next child without asking whether that table has one.
MoveChild ==
    /\ cmd.op = "move"
    /\ pc = "walk"
    /\ LET climbs == i > Slots(here)
           dir == IF climbs THEN Front(here) ELSE here
           slot == IF climbs THEN Behind(here) ELSE i
           child == Child(dir, slot)
           skips == IsDotDir(child) \/ IsEmpty(child)
           enters == ~skips /\ IsDirectory(child) /\ ChildCount(Append(dir, slot)) > 2
       IN  IF slot > Slots(dir)
           THEN pc' = "undefined" /\ UNCHANGED <<here, i, made>>
           ELSE /\ made' = IF skips THEN made ELSE Append(made, Append(dir, slot))
                /\ here' = IF enters THEN Append(dir, slot) ELSE dir
                /\ i' = IF enters THEN 1 ELSE IF skips THEN AfterSkip(slot) ELSE slot + 1
                /\ pc' = IF i' <= Slots(here') \/ here' # <<>> THEN "walk" ELSE "done"
    /\ UNCHANGED <<cmd, entry>>

Next ==
    \/ GetEntry \/ GetChild
    \/ ListEntry \/ ListChild
    \/ MoveEntry \/ MoveChild
    \/ Return

Spec == Init /\ [][Next]_vars

\* A process that has been started and can go on does go on.
FairSpec == Spec /\ WF_vars(Next)
-----------------------------------------------------------------------------
(***************************************************************************)
(* info: lf12_get_file_count and lf12_get_directory_count.                 *)
(***************************************************************************)
\* (Variant with a fault: free entries are counted.)
FileCountsWithFree ==
    LET count[pos \in DOMAIN entry] ==
            Total(Slots(pos), [k \in 1 .. Slots(pos) |->
                IF IsDirectory(Child(pos, k))
                THEN IF IsDotDir(Child(pos, k)) THEN 0 ELSE count[Append(pos, k)]
                ELSE 1])
    IN  count

FileCounts ==
    LET count[pos \in DOMAIN entry] ==
            Total(Slots(pos), [k \in 1 .. Slots(pos) |->
                IF IsDirectory(Child(pos, k))
                THEN IF IsDotDir(Child(pos, k)) THEN 0 ELSE count[Append(pos, k)]
                ELSE IF IsEmpty(Child(pos, k)) THEN 0 ELSE 1])
    IN  count

DirectoryCounts ==
    LET count[pos \in DOMAIN entry] ==
            Total(Slots(pos), [k \in 1 .. Slots(pos) |->
                IF IsDirectory(Child(pos, k)) /\ ~IsDotDir(Child(pos, k))
                THEN 1 + count[Append(pos, k)]
                ELSE 0])
    IN  count
=============================================================================
