------------------------------ MODULE FileTree ------------------------------
(***************************************************************************)
(* What f12's commands promise to a reader of the image, without clusters, *)
(* tables or copies of the FAT.  An image is a set of nodes; a command     *)
(* looks at it, decides on the tree it will leave, and makes that tree     *)
(* visible; it may be stopped at any step.  The promises are about the     *)
(* moment a change becomes visible and about the trees in between.         *)
(*                                                                         *)
(* They are made for sound images only: `sound` says that the image and    *)
(* the memory of the command are in order, and a step from or to a state   *)
(* that is not sound may do anything.                                      *)
(***************************************************************************)
EXTENDS Integers, SequencesExt

CONSTANTS Commands, NoCommand

VARIABLES
    tree,   \* the nodes a reader finds: [path, dir, size]
    goal,   \* the nodes the command is about to leave
    stage,  \* "idle", "work", "write" or "undefined"
    cmd,    \* the running command
    res,    \* how the last one ended
    sound

vars == <<tree, goal, stage, cmd, res, sound>>

Directory(path) == [path |-> path, dir |-> TRUE, size |-> 0]

At(t, path) == {e \in t : e.path = path}

Below(t, path) == {e \in t : IsPrefix(path, e.path)}

Exists(t, path) == At(t, path) # {}

IsDirectory(t, path) == path = <<>> \/ \E e \in At(t, path) : e.dir

Parents(path) == {SubSeq(path, 1, k) : k \in 1 .. Len(path) - 1}

(***************************************************************************)
(* The trees that commands leave.                                          *)
(***************************************************************************)
\* Missing directories are made.  A put onto a directory leaves a directory,
\* with the size of the file and with the children it had.
PutFile(t, file) ==
    (t \ At(t, file.path))
        \union {Directory(p) : p \in {p \in Parents(file.path) : ~Exists(t, p)}}
        \union {[path |-> file.path, dir |-> \E e \in At(t, file.path) : e.dir,
                 size |-> file.size]}

PutAll(t, files) == FoldLeft(PutFile, t, files)

\* A deletion takes one victim at a time, with what is below it.  To a reader a
\* soft deletion is no different: an entry that is marked as deleted is not there.
Victims == Below(tree, cmd.path)

Moved(e) ==
    [e EXCEPT !.path = cmd.dest \o SubSeq(e.path, Len(cmd.path), Len(e.path))]

MoveTo ==
    {Moved(e) : e \in Below(tree, cmd.path)} \union (tree \ Below(tree, cmd.path))

CanMove ==
    /\ Exists(tree, cmd.path)
    /\ IsDirectory(tree, cmd.dest)
    /\ ~IsPrefix(cmd.path, cmd.dest)

Goals ==
    CASE cmd.op \in {"put", "create"} -> {PutAll(tree, cmd.files)}
      [] cmd.op = "del" -> {tree \ Below(tree, e.path) : e \in Victims}
      [] cmd.op = "move" /\ CanMove -> {MoveTo}
      [] OTHER -> {}
-----------------------------------------------------------------------------
Init ==
    /\ tree = {}
    /\ goal = {}
    /\ stage = "idle"
    /\ cmd = NoCommand
    /\ res = "none"
    /\ sound = TRUE

Ends(result) ==
    /\ stage' = "idle"
    /\ cmd' = NoCommand
    /\ goal' = {}
    /\ res' = result

Start ==
    /\ stage = "idle"
    /\ stage' = "work"
    /\ cmd' \in Commands
    /\ res' = "none"
    /\ UNCHANGED <<tree, goal>>

\* create empties the image before it puts any file.
Format ==
    /\ stage = "work"
    /\ cmd.op = "create"
    /\ tree' = {}
    /\ IF cmd.files = <<>> THEN Ends("ok") ELSE UNCHANGED <<goal, stage, cmd, res>>

Decide ==
    /\ stage = "work"
    /\ goal' \in Goals
    /\ stage' = "write"
    /\ UNCHANGED <<tree, cmd, res>>

\* The command gives up, or there is nothing for it to do.
Harmless == cmd.op = "move" /\ cmd.path = cmd.dest

GiveUp ==
    /\ stage = "work"
    /\ \/ \E result \in {"failed", "full", "logic"} : Ends(result)
       \/ Harmless /\ Ends("ok")
    /\ UNCHANGED tree

(***************************************************************************)
(* What may become visible while a command writes.                         *)
(***************************************************************************)
\* A move within a directory empties one slot of it and fills another, in either
\* order, so that what is moved need not stay although its path is the same.
Staying ==
    IF cmd.op = "move" THEN (tree \intersect goal) \ Below(tree, cmd.path)
                       ELSE tree \intersect goal

\* Nothing that stays is missing, nothing but the new nodes comes.
Between ==
    /\ Staying \subseteq tree'
    /\ tree' \subseteq tree \union goal

OneStep == tree' \in {tree, goal}

\* A new version of a node takes the place of the old one at once.
PathsKept == \A e \in tree : Exists(tree', e.path)

\* What is moved is found in its old place or in the new one.
NothingLost ==
    \/ Below(tree, cmd.path) \subseteq tree'
    \/ goal \subseteq tree'

\* A put of a single file and every round of a deletion are atomic; a put of
\* more files never hides a node; a move down loses nothing.
Visible ==
    /\ Between
    /\ cmd.op \in {"put", "create"} => PathsKept
    /\ cmd.op \in {"put", "create"} /\ Len(cmd.files) = 1 => OneStep
    /\ cmd.op = "del" => OneStep
    /\ cmd.op = "move" /\ IsStrictPrefix(Front(cmd.path), cmd.dest) => NothingLost

Write ==
    /\ stage = "write"
    /\ Visible
    /\ UNCHANGED <<goal, stage, cmd, res>>

\* The last write of a command, or of a victim of a deletion that goes on.
Complete ==
    /\ stage = "write"
    /\ tree' = goal
    /\ IF cmd.op = "del" /\ Below(goal, cmd.path) # {}
       THEN stage' = "work" /\ goal' = {} /\ UNCHANGED <<cmd, res>>
       ELSE Ends("ok")

Stop ==
    /\ stage \in {"work", "write"}
    /\ IF stage = "write" THEN Visible ELSE UNCHANGED tree
    /\ Ends("interrupted")

\* A sound image is left to undefined behaviour in two places only: when create
\* is interrupted before the image has its parameter block, and when a put has
\* made the entry of a directory lead to the bytes of a file.
PutOntoDirectory ==
    /\ cmd.op \in {"put", "create"}
    /\ \E k \in 1 .. Len(cmd.files) : IsDirectory(goal, cmd.files[k].path)

Break ==
    /\ \/ stage = "work" /\ cmd.op = "create"
       \/ stage = "write" /\ PutOntoDirectory
    /\ stage' = "undefined"
    /\ cmd' = NoCommand
    /\ goal' = {}
    /\ res' = "none"
    /\ UNCHANGED tree

Promised ==
    Start \/ Format \/ Decide \/ GiveUp \/ Write \/ Complete \/ Stop \/ Break

Next == ~sound \/ ~sound' \/ Promised

Spec == Init /\ [][Next]_vars
=============================================================================
