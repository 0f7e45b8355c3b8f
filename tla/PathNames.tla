------------------------------ MODULE PathNames ------------------------------
(***************************************************************************)
(* The life of a path: f12 gets it as an argument, or makes it up for a    *)
(* file of a source directory (destination_path); it is split and          *)
(* converted (lf12_parse_path) and names an entry; later the path of that  *)
(* entry is computed (lf12_get_entry_path) and may be given to f12 again.  *)
(***************************************************************************)
EXTENDS Names

CONSTANTS
    Arguments,     \* strings given as paths
    Destinations,  \* destinations of recursive puts
    Others         \* the other paths of a move

ASSUME StringsAssumption == Arguments \union Destinations \union Others \subseteq Seq(Chars)

VARIABLES
    step,      \* "given", "split", "undefined", "empty", "built", "shown", "again"
    dest,      \* the destination of a recursive put, or NoDestination
    argument,  \* the path given, or that of a file below the source directory
    text,      \* the string that is parsed
    parts,     \* input_parts
    path,      \* the converted components
    length,    \* the size of the buffer for the path of the entry
    shown,     \* the path of the entry
    reparsed   \* the components of that path, parsed again

vars == <<step, dest, argument, text, parts, path, length, shown, reparsed>>

NoDestination == <<"none">>

Init ==
    /\ step = "given"
    /\ argument \in Arguments
    /\ \/ dest = NoDestination /\ text = argument
       \/ /\ dest \in Destinations
          /\ Tokens(argument) # <<>>
          /\ text = DestinationPath(argument, dest)
    /\ parts = <<>>
    /\ path = <<>>
    /\ length = 0
    /\ shown = <<>>
    /\ reparsed = <<>>

Split ==
    /\ step = "given"
    /\ IF IsEmptyPath(text)
       THEN step' = "empty" /\ UNCHANGED parts
       ELSE step' = "split" /\ parts' = SplitInput(text)
    /\ UNCHANGED <<dest, argument, text, path, length, shown, reparsed>>

\* A part without a pointer is read wherever it happens to point.
Build ==
    /\ step = "split"
    /\ IF Wild \in {parts[k] : k \in 1 .. Len(parts)}
       THEN step' = "undefined" /\ UNCHANGED path
       ELSE step' = "built" /\ path' = BuildPath(parts)
    /\ UNCHANGED <<dest, argument, text, parts, length, shown, reparsed>>

GetEntryPath ==
    /\ step = "built"
    /\ step' = "shown"
    /\ length' = PathLength(path)
    /\ shown' = EntryPath(path)
    /\ UNCHANGED <<dest, argument, text, parts, path, reparsed>>

ParseAgain ==
    /\ step = "shown"
    /\ step' = "again"
    /\ reparsed' = IF IsEmptyPath(shown) THEN <<>> ELSE BuildPath(SplitInput(shown))
    /\ UNCHANGED <<dest, argument, text, parts, path, length, shown>>

Next == Split \/ Build \/ GetEntryPath \/ ParseAgain

Spec == Init /\ [][Next]_vars
-----------------------------------------------------------------------------
EndsInTwoSlashes ==
    /\ Len(text) >= 3
    /\ text[Len(text)] = Slash /\ text[Len(text) - 1] = Slash

HasInnerBlank(name) == Marks(name.base) # LastMark(name.base)

IsNameless(name) == FileName(name) = <<>>

\* Splitting loses nothing: the parts have no slash in them and give the input
\* again when they are joined, but for one slash at either end.  Only an input
\* that ends in two slashes leaves a part without a pointer.
SplitIsExact ==
    step \in {"split", "undefined", "built"} =>
        IF EndsInTwoSlashes
        THEN Last(parts) = Wild
        ELSE /\ \A k \in 1 .. Len(parts) : \A i \in 1 .. Len(parts[k]) : parts[k][i] # Slash
             /\ text \in {lead \o Joined(parts) \o trail : lead, trail \in {<<>>, <<Slash>>}}

\* A converted name is a legal one, and converting it again changes nothing:
\* the path f12 shows leads to the entry it was shown for, unless a name is
\* all blanks.
ConversionIsStable ==
    /\ step = "again" /\ (\A k \in 1 .. Len(path) : ~IsNameless(path[k]))
            => reparsed = path
    /\ \A k \in 1 .. Len(path) : \A i \in 1 .. BaseLength : path[k].base[i] \in ValidChars

\* The path fits the buffer made for it exactly when no name has a blank inside.
LengthExactWithoutBlanks ==
    step \in {"shown", "again"} =>
        (length = Len(shown) + 1
            <=> \A k \in 1 .. Len(path) : ~HasInnerBlank(path[k]))

\* A recursive put finds the place its argument names: the components of the
\* destination, then those of the file, each converted once more without a
\* change, unless one of them is all blanks.
PutsWhereToldTo ==
    step = "built" /\ dest # NoDestination =>
        LET told == Tokens(dest \o <<Slash>> \o argument)
            names == [k \in 1 .. Len(told) |-> Converted(told[k])]
        IN  (\A k \in 1 .. Len(names) : ~IsNameless(names[k])) => path = names

\* The relation f12_move decides on is that of prefixes, whatever two paths it
\* is given.
RelationIsPrefix ==
    step = "built" =>
        \A s \in Others :
            LET other == IF IsEmptyPath(s) THEN <<>> ELSE BuildPath(SplitInput(s))
            IN  PathGetParent(other, path) =
                    CASE other = path -> "equal"
                      [] IsStrictPrefix(other, path) -> "first"
                      [] IsStrictPrefix(path, other) -> "second"
                      [] OTHER -> "unrelated"

\* name_p.h on _lf12_get_path_length: "Get the length of the path for a file or
\* directory inside an fat12 formated image, including a leading slash and the
\* null termination character."  lf12_get_entry_path would then stay inside the
\* buffer it makes of that size.  A name with a blank inside is longer.
PathFitsBuffer == step = "shown" => Len(shown) + 1 <= length
==============================================================================
