---------------------------- MODULE WalkProperties ----------------------------
(***************************************************************************)
(* What the walks over the tree have to show, whatever the tree.           *)
(***************************************************************************)
EXTENDS Walks

\* The order of a walk: a directory comes before what is below it, a slot before
\* the next one and all that is below that.
Precedes(p, q) ==
    \/ IsStrictPrefix(p, q)
    \/ \E k \in 1 .. Len(p) :
        /\ k <= Len(q)
        /\ SubSeq(p, 1, k - 1) = SubSeq(q, 1, k - 1)
        /\ p[k] < q[k]

\* The positions below the entry, free entries and dot directories left out.
Below == {p \in DOMAIN entry \ {<<>>} : ~IsEmpty(entry[p]) /\ ~IsDotDir(entry[p])}

\* s is the beginning of a list of the positions, in the order of a walk.
Begins(s, positions) ==
    /\ \A k \in 1 .. Len(s) : s[k] \in positions
    /\ \A k \in 1 .. Len(s) - 1 : Precedes(s[k], s[k + 1])
    /\ s # <<>> => \A p \in positions : Precedes(p, Last(s)) => p \in Range(s)

\* f12 get creates the directory or file it was asked for and then every entry
\* below it once, a directory before its children, and stops at the first thing
\* that fails: what is on the host is always the beginning of a full copy.
CopiesInOrder ==
    cmd.op = "get" =>
        /\ Begins(made, {<<>>} \union Below)
        /\ pc = "done" => Range(made) = {<<>>} \union Below

\* The lines of f12 move --verbose are the entries below the directory that is
\* moved, each once; and they are only when no directory with something in it
\* sits in the last slot of its table: behind such a directory the loop climbs
\* a single level and reads a child the table does not have.
DirectoryInLastSlot ==
    \E p \in Below :
        Last(p) = Slots(Front(p)) /\ IsDirectory(entry[p]) /\ ChildCount(p) > 2

MoveListsOnce ==
    cmd.op = "move" =>
        /\ IsDirectory(entry[<<>>]) => Begins(made, Below)
        /\ pc = "done" =>
            IF IsDirectory(entry[<<>>]) THEN Range(made) = Below ELSE made = << <<>> >>
        /\ pc = "done" => ~DirectoryInLastSlot
        /\ pc = "undefined" => DirectoryInLastSlot

\* The characters printf makes of a number, and those of a size.
Digits(number) == 1 + Cardinality({k \in 1 .. 9 : Tens[k] <= number})

SizeText(bytes) == Digits(ShownSize(bytes)) + 6

\* The characters of a line of f12 list --size: the indentation, the arrow, the
\* name and the size, each padded to its column but never cut.
LineLength(pos) ==
    LET depth == IF pos = <<>> THEN 0 ELSE 2 * (Len(pos) - 1)
        padding == NameWidth - 4 - depth
    IN  depth + 4 + Larger(padding, entry[pos].length)
            + Larger(SizeLen + 1, SizeText(entry[pos].size))

\* The columns of a listing are aligned: the widths, computed by walks of their
\* own that pass over other entries than the listing does, are enough for every
\* line of it.
ColumnsAligned ==
    cmd.op = "list" /\ pc = "done" =>
        \A a, b \in Range(made) : LineLength(a) = LineLength(b)

\* f12 info, f12 get and f12 list --recursive count the same files and
\* directories, but for long file names, which are files to the first two.
CountsAgree ==
    pc = "done" /\ IsDirectory(entry[<<>>]) =>
        LET lines(kinds) == Cardinality({k \in 1 .. Len(made) : entry[made[k]].kind \in kinds})
            long == Cardinality({p \in Below : entry[p].kind = "lfn"})
        IN  /\ cmd.op = "get" =>
                 /\ lines({"file", "lfn"}) = FileCounts[<<>>]
                 /\ lines({"directory"}) = DirectoryCounts[<<>>] + 1
            /\ cmd.op = "list" /\ cmd.recursive =>
                 /\ lines({"file"}) + long = FileCounts[<<>>]
                 /\ lines({"directory"}) = DirectoryCounts[<<>>]

\* Every walk ends: the loop of _f12_dump_move, which finds its way back up by a
\* search for the entry in the table of its parent, too.
WalksEnd == <>(pc \in {"done", "failed", "undefined"})
===============================================================================
