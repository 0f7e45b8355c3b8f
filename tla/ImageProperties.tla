-------------------------- MODULE ImageProperties --------------------------
(***************************************************************************)
(* Properties of Image that TLC checks.  They read the disk the way the    *)
(* next command would.                                                     *)
(***************************************************************************)
EXTENDS ImageContent

\* The tables that the subdirectories of a reachable table t lead to, but for the
\* directories it is in itself.
TablesIn(t) ==
    UNION {{[path |-> Append(t.path, e.name), table |-> ReadTable(s),
             above |-> t.above \union {e.first}] : s \in ChainsFrom(LoadedFat, e.first)} :
        e \in {e \in {t.table[i] : i \in DOMAIN t.table} :
                IsSubdir(e) /\ e.first \notin t.above}}

\* The tables reachable from the root directory, each with the names that lead to
\* it and the first clusters of the directories on the way.  No way has more names
\* than the disk has clusters.
DiskTables ==
    LET within[n \in 0 .. Cardinality(Stored)] ==
            {[path |-> <<>>, table |-> root, above |-> {}]}
                \union IF n = 0 THEN {} ELSE UNION {TablesIn(t) : t \in within[n - 1]}
    IN  within[Cardinality(Stored)]

\* The reachable entries other than the dot entries.
DiskEntries ==
    UNION {{[path |-> Append(t.path, t.table[i].name), entry |-> t.table[i]] :
                i \in Victims(t.table)} : t \in DiskTables}

\* What an entry means to the next reader.
Meaning(e) ==
    [path |-> e.path, dir |-> e.entry.dir, first |-> e.entry.first,
     size |-> e.entry.size]

DiskTree == {Meaning(e) : e \in DiskEntries}

\* The tree in the memory of the running command.
MemoryTree ==
    UNION {{Meaning([path |-> NamesAlong(Append(d, i)), entry |-> tabs[d][i]]) :
                i \in Victims(tabs[d])} : d \in DOMAIN tabs}
-----------------------------------------------------------------------------
\* The command has no cluster in use that the FAT copies do not keep.
Fits == \A c \in Unsaved : fat[c] = 0

\* A reader sees the tree it has seen before, whatever is in the clusters and FAT
\* entries that have been written, until a command writes directories; only the
\* formatting of a create and the erasing of a deletion may change it earlier.  A
\* put or a move that fails changes nothing a reader can see.
TreeChangesLate ==
    [][\/ pc = "dirs"
       \/ pc = "format" /\ cmd.op = "create"
       \/ pc = "erase" /\ cmd.op = "del"
       \/ DiskTree' = DiskTree]_vars

\* No directory lists a name twice.
NamesUnique ==
    \A t \in DiskTables : \A i, j \in Victims(t.table) :
        t.table[i].name = t.table[j].name => i = j

\* A deletion only ever removes entries, and only the victim and what is below
\* it, in whatever step it is interrupted.
DeletionIsLocal ==
    [][cmd.op = "del" /\ Fits
        => /\ DiskTree' \subseteq DiskTree
           /\ \A e \in DiskTree \ DiskTree' : IsPrefix(cmd.path, e.path)]_vars

\* The first clusters a reader can reach.
ReachableHeads == {e.entry.first : e \in DiskEntries}

\* A move into a directory below the one the entry is in never loses the
\* entry, wherever it is interrupted: the directory that gains it is written
\* before the one that gives it up.  (A move upwards can lose it, and so
\* can one within a directory, which is a single table written from its start.)
MoveDownLosesNothing ==
    [][cmd.op = "move" /\ IsStrictPrefix(Front(cmd.path), cmd.dest) /\ Fits /\ Unshared
        => ReachableHeads \subseteq ReachableHeads']_vars

\* Every command comes to an end: no directory is scanned or swept for ever,
\* and a recursive deletion that rewrites all metadata for each entry does not
\* start over.
EveryCommandEnds == Running ~> ~Running
=============================================================================
