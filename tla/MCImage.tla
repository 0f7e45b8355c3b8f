------------------------------ MODULE MCImage ------------------------------
(***************************************************************************)
(* Instances of Image for TLC.  Two names and a root directory of two      *)
(* entries; clusters of two entries and directories of two clusters, or,   *)
(* for moves, directories of one cluster of four entries.                  *)
(***************************************************************************)
EXTENDS ImageClaims, ImageRefinement

CONSTANTS a, b

Put(files) == [op |-> "put", files |-> files]
Create(files) == [op |-> "create", files |-> files]
PutOne(path, size) == Put(<<[path |-> path, size |-> size]>>)
Delete(path) == [op |-> "del", path |-> path, recursive |-> FALSE, soft |-> FALSE]
DeleteAll(path) == [Delete(path) EXCEPT !.recursive = TRUE]
Soft(command) == [command EXCEPT !.soft = TRUE]
Move(path, dest) ==
    [op |-> "move", path |-> path, dest |-> dest, recursive |-> TRUE]

\* Files that are empty, too large, alone or several in a source directory, in
\* directories the put makes, one over another and onto a directory; a source
\* directory of which the second file cannot be put; no file at all; and a soft
\* deletion of a directory, which is refused because it is never empty.
PutCommands ==
    {PutOne(<<b>>, 1), PutOne(<<a>>, 0), PutOne(<<b>>, 3), PutOne(<<b, a, b>>, 1),
     Put(<<>>), Create(<<>>),
     Create(<<[path |-> <<b>>, size |-> 1], [path |-> <<a, a>>, size |-> 1]>>),
     Put(<<[path |-> <<a, a>>, size |-> 1], [path |-> <<a, b>>, size |-> 1]>>),
     Put(<<[path |-> <<b>>, size |-> 1], [path |-> <<b, a>>, size |-> 1]>>),
     Put(<<[path |-> <<a, b>>, size |-> 1], [path |-> <<a>>, size |-> 2]>>),
     Soft(DeleteAll(<<a>>))}

\* Files and a directory of two files, deleted with and without the flag.
DeleteCommands ==
    {Put(<<[path |-> <<a, a>>, size |-> 1], [path |-> <<a, b>>, size |-> 2]>>),
     PutOne(<<b>>, 1),
     Delete(<<a>>), DeleteAll(<<a>>), Delete(<<a, b>>)}

\* A file, and its soft deletion.
SoftCommands == {PutOne(<<b>>, 1), Soft(Delete(<<b>>))}

\* Moves of directories into one another, of files up and sideways, of a
\* directory into the one it is in, onto itself and without the flag.
MoveCommands ==
    {PutOne(<<a, b>>, 1), PutOne(<<b, a>>, 1),
     Move(<<a>>, <<b>>), Move(<<a, b>>, <<>>), Move(<<b, a>>, <<a>>),
     Move(<<a>>, <<a>>), Move(<<a>>, <<>>),
     [Move(<<a>>, <<>>) EXCEPT !.recursive = FALSE]}
=============================================================================
