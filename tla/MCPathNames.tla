----------------------------- MODULE MCPathNames -----------------------------
(***************************************************************************)
(* All strings of up to six characters: a capital, a small letter, a       *)
(* blank, a dot and a slash.  Names of three characters, extensions of one.*)
(***************************************************************************)
EXTENDS PathNames, TLC

CONSTANT MaxLength

Given == {"A", "b", Blank, Dot, Slash}

Strings == UNION {[1 .. n -> Given] : n \in 0 .. MaxLength}

DestinationStrings == {<<>>, <<Slash>>, <<"b">>, <<Slash, "b", Dot, "b", Slash>>}

OtherStrings ==
    {<<>>, <<"b">>, <<"A", Slash, "b">>, <<"b", Slash, "b", Slash, "b">>,
     <<"b", Dot, "b">>, <<Slash, "A", Slash>>}

Capitals == "b" :> "B"
AllChars == Given \union {"B", "_"}
Valid == {"A", "B", "_", Blank}
=============================================================================
