---------------------------- MODULE MCConfigText ----------------------------
(* Instances of ConfigText for TLC. *)
EXTENDS ConfigText

CONSTANTS MaxText, MaxFile  \* bounds: length of the texts

\* Every text of the characters stripJSONComments looks at, and every text of
\* properties, commas, blanks and line comments.
MCInputs ==
    SeqOf({"quote", "backslash", "slash", "star", "newline", "other"}, MaxText)
    \cup SeqOf({"property", "comma", "blank", "slash", "newline"}, MaxFile)
=============================================================================
