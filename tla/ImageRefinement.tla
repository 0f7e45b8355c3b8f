-------------------------- MODULE ImageRefinement --------------------------
(***************************************************************************)
(* Image implements FileTree: the tree is what the next command would load *)
(* from the disk, the goal is the tree in the memory of a command that has *)
(* begun to write its metadata.                                            *)
(***************************************************************************)
EXTENDS ImageProperties

Node(e) == [path |-> e.path, dir |-> e.dir, size |-> e.size]

Stage ==
    CASE pc \in {"idle", "undefined"} -> pc
      [] pc \in {"fat", "dirs"} -> "write"
      [] OTHER -> "work"

\* Every entry a reader finds leads to a chain, no two directories to the same
\* one, and a directory lists no name twice.
DiskSound ==
    /\ \A e \in DiskEntries : e.entry.first = 0 \/ OnDiskChain(e.entry.first)
    /\ \A e, f \in DiskEntries :
        e.entry.dir /\ f.entry.dir /\ e.entry.first = f.entry.first => e = f
    /\ NamesUnique

\* The same of the tables in memory.
MemorySound ==
    /\ Fits
    /\ Unshared
    /\ \A d \in DOMAIN tabs : \A i, j \in Victims(tabs[d]) :
        tabs[d][i].name = tabs[d][j].name => i = j

Tree ==
    INSTANCE FileTree WITH
        tree <- {Node(e) : e \in DiskTree},
        goal <- IF Stage = "write" THEN {Node(e) : e \in MemoryTree} ELSE {},
        stage <- Stage,
        sound <- DiskSound /\ MemorySound

\* f12 keeps the promises of FileTree: what every command leaves, when its
\* change becomes visible, what a reader may find in between and after an
\* interruption, and that nothing undefined happens to a sound image but for a
\* put onto a directory and an interrupted create.  (It breaks one of them, that
\* of a soft deletion that succeeds: see SoftDeletionMarks in ImageClaims.)
ImplementsFileTree == Tree!Spec

\* The condition of those promises renews itself: no step of a put, a create or
\* a deletion, complete or interrupted, makes a sound image or a sound memory
\* unsound as long as the command fits.  (A move can: it looks at no names in
\* its destination, and interrupted on its way down it leaves two entries for
\* one directory.)
SoundStaysSound ==
    [][DiskSound /\ MemorySound /\ cmd.op # "move"
        => DiskSound' /\ (Fits' => MemorySound')]_vars
=============================================================================
