-------------------------------- MODULE Names --------------------------------
(***************************************************************************)
(* Names of files and paths as strings (libfat12/name.c, libfat12/path.c,  *)
(* common.c): the conversion to 8.3 names and back, splitting a path,      *)
(* putting one together, and how two paths are related.                    *)
(*                                                                         *)
(* A string is a sequence of characters.                                   *)
(***************************************************************************)
EXTENDS Integers, Sequences, SequencesExt

CONSTANTS BaseLength,       \* 8
          ExtensionLength,  \* 3
          Chars,            \* what strings are made of
          ValidChars,       \* valid_chars, the blank among them
          Capital           \* the capital of every small letter

Blank == " "
Dot == "."
Slash == "/"

\* A part of a path to which no pointer has been set.
Wild == <<"uninitialized">>

ASSUME LengthAssumption ==
    BaseLength \in Nat \ {0} /\ ExtensionLength \in Nat \ {0}
ASSUME CharsAssumption ==
    /\ {Blank, "_"} \subseteq ValidChars
    /\ ValidChars \union {Dot, Slash} \subseteq Chars
    /\ Wild \notin Seq(Chars)
    /\ {Dot, Slash} \intersect (ValidChars \union DOMAIN Capital) = {}
    /\ Capital \in [DOMAIN Capital -> ValidChars \ {Blank}]
-----------------------------------------------------------------------------
(***************************************************************************)
(* name.c                                                                  *)
(***************************************************************************)
\* _lf12_sanitize_file_name_char.
Sanitized(c) ==
    IF c \in ValidChars THEN c
    ELSE IF c \in DOMAIN Capital THEN Capital[c]
    ELSE "_"

UpTo(s, n) == SubSeq(s, 1, IF Len(s) < n THEN Len(s) ELSE n)

Padded(s, n) == [k \in 1 .. n |-> IF k <= Len(s) THEN s[k] ELSE Blank]

IsBlank(s) == \A k \in 1 .. Len(s) : s[k] = Blank

FirstDot(s) == SelectInSeq(s, LAMBDA c : c = Dot)

Stem(s) == IF FirstDot(s) = 0 THEN s ELSE SubSeq(s, 1, FirstDot(s) - 1)

Rest(s) == IF FirstDot(s) = 0 THEN <<>> ELSE SubSeq(s, FirstDot(s) + 1, Len(s))

FirstMark(s) == SelectInSeq(s, LAMBDA c : c # Blank)

LastMark(s) == SelectLastInSeq(s, LAMBDA c : c # Blank)

\* convert_short_file_name: leading blanks are left out, inner ones are kept.
ShortFileName(s) ==
    LET stem == IF IsBlank(Stem(s)) THEN <<>>
                ELSE SubSeq(Stem(s), FirstMark(Stem(s)), Len(Stem(s)))
    IN  [k \in 1 .. BaseLength |-> Sanitized(Padded(stem, BaseLength)[k])]

\* The elements of s that are not x, in order.
Without(s, x) ==
    LET kept[k \in 0 .. Len(s)] ==
            IF k = 0 THEN <<>> ELSE kept[k - 1] \o (IF s[k] = x THEN <<>> ELSE <<s[k]>>)
    IN  kept[Len(s)]

\* convert_short_file_extension: all blanks are left out.
ShortFileExtension(s) ==
    LET marks == Without(Rest(s), Blank)
    IN  [k \in 1 .. ExtensionLength |-> Sanitized(Padded(marks, ExtensionLength)[k])]

\* lf12_convert_name.
Converted(s) == [base |-> ShortFileName(s), extension |-> ShortFileExtension(s)]

\* lf12_get_file_name: base up to its trailing blanks, extension up to its first
\* blank.
ShownExtension(extension) ==
    LET blank == SelectInSeq(extension, LAMBDA c : c = Blank)
    IN  IF blank = 0 THEN extension ELSE SubSeq(extension, 1, blank - 1)

\* (Variant with a fault: the dot is forgotten.)
FileNameNoDot(name) ==
    SubSeq(name.base, 1, LastMark(name.base)) \o ShownExtension(name.extension)

FileName(name) ==
    SubSeq(name.base, 1, LastMark(name.base))
        \o (IF name.extension[1] = Blank THEN <<>>
            ELSE <<Dot>> \o ShownExtension(name.extension))

\* _lf12_get_path_length: the characters that are not blank, a dot and a slash
\* for every name, and one for the end of the string.
Marks(s) == Cardinality({k \in 1 .. Len(s) : s[k] # Blank})

\* (Variant with a fault: the dot is not counted.)
NameLengthNoDot(name) == Marks(name.base) + Marks(name.extension)

NameLength(name) ==
    Marks(name.base) + Marks(name.extension)
        + IF name.extension[1] = Blank THEN 0 ELSE 1

PathLength(path) ==
    LET upTo[k \in 0 .. Len(path)] ==
            IF k = 0 THEN 1 ELSE upTo[k - 1] + NameLength(path[k]) + 1
    IN  upTo[Len(path)]

\* All of the parts, each behind a slash.
Slashed(parts) ==
    LET upTo[k \in 0 .. Len(parts)] ==
            IF k = 0 THEN <<>> ELSE upTo[k - 1] \o <<Slash>> \o parts[k]
    IN  upTo[Len(parts)]

\* What lf12_get_entry_path fills in.
EntryPath(path) == Slashed([k \in 1 .. Len(path) |-> FileName(path[k])])
-----------------------------------------------------------------------------
(***************************************************************************)
(* path.c                                                                  *)
(***************************************************************************)
Extended(parts, c) ==
    IF c = Slash THEN Append(parts, <<>>)
    ELSE [parts EXCEPT ![Len(parts)] = Append(@, c)]

SplitAt(s) ==
    LET parts[k \in 0 .. Len(s)] ==
            IF k = 0 THEN << <<>> >> ELSE Extended(parts[k - 1], s[k])
    IN  parts[Len(s)]

WithoutLeadingSlash(s) == IF s # <<>> /\ Head(s) = Slash THEN Tail(s) ELSE s

WithoutTrailingSlash(s) == IF s # <<>> /\ Last(s) = Slash THEN Front(s) ELSE s

\* (Variant with a fault: the trailing slash is kept.)
SplitInputKeepingSlash(input) == SplitAt(WithoutLeadingSlash(input))

\* _lf12_split_input: one slash at either end is left out; the loop that sets
\* the pointers stops before a separator at the very end.
SplitInput(input) ==
    LET raw == WithoutTrailingSlash(WithoutLeadingSlash(input))
        parts == SplitAt(raw)
    IN  IF raw # <<>> /\ Last(raw) = Slash THEN Front(parts) \o <<Wild>> ELSE parts

IsEmptyPath(input) == WithoutLeadingSlash(input) = <<>>

\* _lf12_build_path.
BuildPath(parts) == [k \in 1 .. Len(parts) |-> Converted(parts[k])]

\* (Variant with a fault: only the first component is compared.)
PathGetParentShallow(a, b) ==
    CASE a = b -> "equal"
      [] a = <<>> \/ (b # <<>> /\ a[1] = b[1] /\ Len(a) < Len(b)) -> "first"
      [] b = <<>> \/ (a # <<>> /\ a[1] = b[1] /\ Len(b) < Len(a)) -> "second"
      [] OTHER -> "unrelated"

\* lf12_path_get_parent, the components compared one by one; the root directory
\* is the path of no components.
PathGetParent(a, b) ==
    LET from[k \in 1 .. Len(a) + 1] ==
            IF k > Len(a) \/ k > Len(b) \/ a[k] # b[k] THEN "unrelated"
            ELSE IF k = Len(b) THEN IF k = Len(a) THEN "equal" ELSE "second"
            ELSE IF k = Len(a) THEN "first"
            ELSE from[k + 1]
    IN  CASE a = <<>> /\ b = <<>> -> "equal"
          [] a = <<>> /\ b # <<>> -> "first"
          [] a # <<>> /\ b = <<>> -> "second"
          [] OTHER -> from[1]
-----------------------------------------------------------------------------
(***************************************************************************)
(* common.c                                                                *)
(***************************************************************************)
\* convert_path: strtok leaves out empty parts.
Tokens(s) == Without(SplitAt(s), <<>>)

Joined(parts) == IF parts = <<>> THEN <<>> ELSE Tail(Slashed(parts))

ConvertPath(s) ==
    LET tokens == Tokens(s)
    IN  Joined([k \in 1 .. Len(tokens) |-> FileName(Converted(tokens[k]))])

\* (Variant with a fault: the slash in between is forgotten.)
DestinationPathNoSlash(source, destination) == ConvertPath(destination \o source)

\* destination_path, for the path of a file below the source directory.
DestinationPath(source, destination) ==
    ConvertPath(destination
                \o (IF destination # <<>> /\ Last(destination) = Slash
                    THEN <<>> ELSE <<Slash>>)
                \o source)
=============================================================================
