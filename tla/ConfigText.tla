----------------------------- MODULE ConfigText -----------------------------
(***************************************************************************)
(* What ReadConfig does to the text of a config file before it parses it:  *)
(* stripJSONComments, one iteration of its loop per step, then             *)
(* fixJSONCommas.                                                          *)
(*                                                                         *)
(* A text is a sequence of the characters the two functions look at and    *)
(* "other"; "property" stands for a whole "key": value.                    *)
(*                                                                         *)
(* As in TunnelProtocol, an operator used nowhere is a faulty variant of   *)
(* the one that follows it.                                                *)
(***************************************************************************)
EXTENDS Integers, Sequences, SequencesExt

Char == {"quote", "backslash", "slash", "star", "newline", "blank", "comma",
         "property", "other"}

CONSTANT Inputs     \* the texts that are read

ASSUME TextAssumption == Inputs \subseteq Seq(Char)

VARIABLES
    data,           \* the file
    i,              \* characters of it that are behind the loop
    inString, escapeNext,
    result,         \* what stripJSONComments has kept
    phase           \* "strip", "fix", "done"

vars == <<data, i, inString, escapeNext, result, phase>>

TypeOK ==
    /\ data \in Seq(Char)
    /\ i \in 0..Len(data) + 2
    /\ inString \in BOOLEAN /\ escapeNext \in BOOLEAN
    /\ result \in Seq(Char)
    /\ phase \in {"strip", "fix", "done"}

Init ==
    /\ data \in Inputs
    /\ i = 0 /\ inString = FALSE /\ escapeNext = FALSE
    /\ result = <<>> /\ phase = "strip"

-----------------------------------------------------------------------------
(***************************************************************************)
(* stripJSONComments.                                                      *)
(***************************************************************************)
Looping == phase = "strip" /\ i < Len(data)
b == data[i + 1]
NextIs(c) == i + 1 < Len(data) /\ data[i + 2] = c

Keep(c) == result' = Append(result, c)

CopyEscaped ==
    /\ Looping /\ escapeNext
    /\ Keep(b) /\ i' = i + 1
    /\ escapeNext' = FALSE
    /\ UNCHANGED <<data, inString, phase>>

StartEscape ==
    /\ Looping /\ ~escapeNext
    /\ b = "backslash" /\ inString
    /\ Keep(b) /\ i' = i + 1
    /\ escapeNext' = TRUE
    /\ UNCHANGED <<data, inString, phase>>

StringBoundary ==
    /\ Looping /\ ~escapeNext
    /\ b = "quote"
    /\ Keep(b) /\ i' = i + 1
    /\ inString' = ~inString
    /\ UNCHANGED <<data, escapeNext, phase>>

LineComment  == ~inString /\ b = "slash" /\ NextIs("slash")
BlockComment == ~inString /\ b = "slash" /\ NextIs("star")

CopyPlain ==
    /\ Looping /\ ~escapeNext
    /\ b # "quote" /\ ~(b = "backslash" /\ inString)
    /\ ~LineComment /\ ~BlockComment
    /\ Keep(b) /\ i' = i + 1
    /\ UNCHANGED <<data, inString, escapeNext, phase>>

\* The least of a set of positions, or none: the value for "not found".
Least(S, none) == CHOOSE k \in S \cup {none} : \A m \in S : k <= m

\* To the end of the line, of which the newline is kept.
SkipLine ==
    /\ Looping /\ ~escapeNext
    /\ LineComment
    /\ i' = Least({k \in i + 1..Len(data) : data[k] = "newline"}, Len(data) + 1)
    /\ result' = IF i' <= Len(data) THEN Append(result, "newline") ELSE result
    /\ UNCHANGED <<data, inString, escapeNext, phase>>

\* To the first */ behind the /*, or to the end of the text.
FromStar == i + 2
FromNext == i + 4
FromOpen == i + 3
SkipBlock ==
    /\ Looping /\ ~escapeNext
    /\ BlockComment
    /\ i' = 1 + Least({k \in FromOpen..Len(data) - 1 : data[k] = "star" /\ data[k + 1] = "slash"},
                      IF Len(data) > FromOpen THEN Len(data) ELSE FromOpen)
    /\ UNCHANGED <<data, inString, escapeNext, result, phase>>

Stripped ==
    /\ phase = "strip" /\ i >= Len(data)
    /\ phase' = "fix"
    /\ UNCHANGED <<data, i, inString, escapeNext, result>>

-----------------------------------------------------------------------------
(***************************************************************************)
(* fixJSONCommas.                                                          *)
(***************************************************************************)
\* strings.Split(text, "\n") and strings.Join(lines, "\n").
Lines(text) ==
    LET lines[k \in 0..Len(text)] ==
            IF k = 0 THEN <<<<>>>>
            ELSE LET before == lines[k - 1]
                 IN IF text[k] = "newline" THEN Append(before, <<>>)
                    ELSE [before EXCEPT ![Len(before)] = Append(@, text[k])]
    IN lines[Len(text)]
Joined(lines) ==
    LET text[n \in 1..Len(lines)] ==
            IF n = 1 THEN lines[1] ELSE text[n - 1] \o <<"newline">> \o lines[n]
    IN text[Len(lines)]

\* strings.TrimSpace
Solid(line) == {k \in DOMAIN line : line[k] # "blank"}
Trimmed(line) ==
    SubSeq(line, Least(Solid(line), Len(line) + 1),
           CHOOSE k \in Solid(line) \cup {0} : \A m \in Solid(line) : m <= k)

IsProperty(line) == Trimmed(line) # <<>> /\ Head(Trimmed(line)) = "property"
EndsInComma(line) == Trimmed(line) # <<>> /\ Last(Trimmed(line)) = "comma"

FixAlways(line, isLast) == IF isLast THEN Front(line) ELSE Append(line, "comma")
FixLine(line, isLast) ==
    IF isLast
    THEN IF EndsInComma(line) THEN Front(line) ELSE line
    ELSE IF EndsInComma(line) THEN line ELSE Append(line, "comma")

propertyLines(lines) == {n \in DOMAIN lines : IsProperty(lines[n])}
isLastProperty(lines, n) == \A m \in propertyLines(lines) : m <= n

FixedLines(lines) ==
    [n \in DOMAIN lines |-> IF n \in propertyLines(lines)
                            THEN FixLine(lines[n], isLastProperty(lines, n)) ELSE lines[n]]

fixJSONCommas(text) == Joined(FixedLines(Lines(text)))

FixCommas ==
    /\ phase = "fix"
    /\ result' = fixJSONCommas(result)
    /\ phase' = "done"
    /\ UNCHANGED <<data, i, inString, escapeNext>>

-----------------------------------------------------------------------------
Next ==
    \/ CopyEscaped \/ StartEscape \/ StringBoundary \/ CopyPlain
    \/ SkipLine \/ SkipBlock \/ Stripped \/ FixCommas

Spec == Init /\ [][Next]_vars

-----------------------------------------------------------------------------
(***************************************************************************)
(* Reference definitions: a scanner that looks at every character once,    *)
(* and the form of a flat object.                                          *)
(***************************************************************************)
\* The state of the scanner behind character c, which next follows.
Scan(state, c, next) ==
    CASE state = "escape" -> "string"
      [] state = "string" /\ c = "backslash" -> "escape"
      [] state = "string" /\ c = "quote" -> "code"
      [] state = "code" /\ c = "quote" -> "string"
      [] state = "code" /\ c = "slash" /\ next = "slash" -> "line"
      [] state = "code" /\ c = "slash" /\ next = "star" -> "open"
      [] state = "line" /\ c = "newline" -> "code"
      [] state = "open" -> "block"
      [] state \in {"block", "closing"} /\ c = "star" -> "closing"
      [] state = "closing" /\ c = "slash" -> "code"
      [] state = "closing" /\ c \notin {"slash", "star"} -> "block"
      [] OTHER -> state

\* A character that is code or string, or the newline that ends a line comment.
Outside(from, c, to) == \/ from \in {"code", "string", "escape"} /\ to \notin {"line", "open"}
                        \/ from = "line" /\ c = "newline"

ScanStep(before, c, next) ==
    LET state == Scan(before.state, c, next)
    IN [state |-> state,
        kept |-> IF Outside(before.state, c, state) THEN Append(before.kept, c) ELSE before.kept]

\* The scanner behind the first k characters of a text, and what it has kept.
Following(text, k) == IF k < Len(text) THEN text[k + 1] ELSE "none"
Scanned(text) ==
    LET scan[k \in 0..Len(text)] ==
            IF k = 0 THEN [state |-> "code", kept |-> <<>>]
            ELSE ScanStep(scan[k - 1], text[k], Following(text, k))
    IN scan

\* The first n characters of a text without those that belong to a comment.
WithoutComments(text, n) == Scanned(text)[n].kept

\* What counts of a text: property , property , ... property
Body(text) == {k \in DOMAIN text : text[k] \notin {"blank", "newline"}}

\* Properties and commas take turns, and a property comes first.
Alternating(text) ==
    \A k \in Body(text) :
        /\ text[k] \in {"property", "comma"}
        /\ text[k] = "comma" => \E j \in Body(text) : j < k
        /\ \A j \in Body(text) : j < k /\ text[j] = text[k] =>
               \E m \in Body(text) : j < m /\ m < k /\ text[m] # text[k]

EndsIn(text, c) == \E k \in Body(text) : text[k] = c /\ \A j \in Body(text) : j <= k

WellFormed(text) == Body(text) # {} => Alternating(text) /\ EndsIn(text, "property")

\* At most one property on a line, with or without a comma behind it.
FlatLine(line) ==
    \/ Solid(line) = {}
    \/ \E p \in Solid(line) : line[p] = "property" /\ Solid(line) = {p}
    \/ \E p, c \in Solid(line) : /\ line[p] = "property" /\ line[c] = "comma"
                                 /\ p < c /\ Solid(line) = {p, c}

\* No comma is followed by blanks at the end of its line.
TightLine(line) == ~ \E k \in 1..Len(line) - 1 : line[k] = "comma" /\ line[k + 1] = "blank"

Flat(text)  == \A n \in DOMAIN Lines(text) : FlatLine(Lines(text)[n])
Tight(text) == \A n \in DOMAIN Lines(text) : TightLine(Lines(text)[n])

-----------------------------------------------------------------------------
(***************************************************************************)
(* Properties.                                                             *)
(***************************************************************************)

\* stripJSONComments keeps what is outside comments, strings with slashes and
\* escapes in them included, and nothing else: the loop invariant, which at the
\* end speaks of the whole text.
StripCorrect ==
    phase # "done" =>
        result = WithoutComments(data, IF i < Len(data) THEN i ELSE Len(data))

\* fixJSONCommas makes a well-formed object of every flat config, whatever
\* commas are missing or too many, and leaves a well-formed one that way; as
\* long as no comma has a blank behind it.
CommasRepaired ==
    phase = "done" =>
        LET stripped == WithoutComments(data, Len(data))
        IN Flat(stripped) /\ Tight(stripped) => WellFormed(result)

\* "fixes missing commas between properties and trailing commas"
\* (config.go:133), blanks behind commas or not.
AllCommasRepaired ==
    phase = "done" =>
        (Flat(WithoutComments(data, Len(data))) => WellFormed(result))

\* "Keep the newline for line number preservation" (config.go:109): a warning
\* names the line of the file.
LinesKept ==
    phase = "fix" => Len(Lines(result)) = Len(Lines(data))
=============================================================================
