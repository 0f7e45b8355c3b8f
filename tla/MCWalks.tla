------------------------------- MODULE MCWalks -------------------------------
(***************************************************************************)
(* A file, and all directories with two slots for free entries, files,     *)
(* long file names and directories, which have two slots beside the dots   *)
(* for the same, the deepest of them with one slot.                        *)
(***************************************************************************)
EXTENDS WalkProperties

Nested(kind, length, size, table) ==
    [kind |-> kind, length |-> length, size |-> size, table |-> table]

RECURSIVE Flat(_)
Flat(e) ==
    LET below == [k \in DOMAIN e.table |-> Flat(e.table[k])]
        positions == {<<>>} \union
                         UNION {{<<k>> \o p : p \in DOMAIN below[k]} : k \in DOMAIN below}
    IN  [p \in positions |->
            IF p = <<>> THEN [kind |-> e.kind, length |-> e.length, size |-> e.size,
                              slots |-> Len(e.table)]
            ELSE below[Head(p)][Tail(p)]]

Dots == <<Nested("dot", 1, 0, <<>>), Nested("dot", 2, 0, <<>>)>>

Leaves == {Nested("empty", 0, 0, <<>>), Nested("file", 1, 9999, <<>>),
           Nested("file", 6, 10240, <<>>), Nested("lfn", 9, 0, <<>>)}

Deepest == {Nested("directory", 2, 0, Dots \o <<e>>) : e \in Leaves}

Inner == {Nested("directory", 1, 0, Dots \o <<e, f>>) : e, f \in Leaves \union Deepest}

AllTrees ==
    {Flat(Nested("file", 3, 700, <<>>))}
        \union {Flat(Nested("directory", 0, 0, <<e, f>>)) : e, f \in Leaves \union Inner}

Command(op, recursive) == [op |-> op, recursive |-> recursive]

AllCommands ==
    {Command("get", TRUE), Command("get", FALSE), Command("list", TRUE),
     Command("list", FALSE), Command("move", FALSE)}
===============================================================================
