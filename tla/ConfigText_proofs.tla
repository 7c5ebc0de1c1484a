------------------------- MODULE ConfigText_proofs -------------------------
(***************************************************************************)
(* What stripJSONComments and fixJSONCommas make of a text of any length.  *)
(***************************************************************************)
EXTENDS ConfigText, SequenceTheorems, WellFoundedInduction, TLAPS

-----------------------------------------------------------------------------
(***************************************************************************)
(* Induction over the natural numbers, and recursion over an interval of   *)
(* them, as facts about sets and functions: every set of numbers that is   *)
(* not empty has a least element.                                          *)
(***************************************************************************)
LessThan == {p \in Nat \X Nat : p[1] < p[2]}

LEMMA LeastNumber ==
    ASSUME NEW T \in SUBSET Nat, T # {}
    PROVE  \E x \in T : \A y \in T : x <= y
  <1>1. IsWellFoundedOn(LessThan, Nat)
    BY NatLessThanWellFounded DEF IsWellFoundedOn, OpToRel, LessThan
  <1>2. PICK x \in T : \A y \in T : <<y, x>> \notin LessThan
    BY <1>1, WFMin
  <1>3. ASSUME NEW y \in T PROVE x <= y
    <2>1. x \in Nat /\ y \in Nat /\ <<y, x>> \notin LessThan
      BY <1>2
    <2> QED
      BY <2>1 DEF LessThan
  <1> QED
    BY <1>3

LEMMA Induction ==
    ASSUME NEW T, 0 \in T, \A n \in Nat : n \in T => n + 1 \in T
    PROVE  Nat \subseteq T
  <1> SUFFICES ASSUME ~(Nat \subseteq T) PROVE FALSE
    OBVIOUS
  <1>1. Nat \ T \in SUBSET Nat /\ Nat \ T # {}
    OBVIOUS
  <1>2. PICK x \in Nat \ T : \A y \in Nat \ T : x <= y
    BY <1>1, LeastNumber
  <1>3. x # 0 /\ x - 1 \in Nat
    BY <1>2
  <1>4. x - 1 \in T
    BY <1>2, <1>3
  <1> QED
    BY <1>2, <1>3, <1>4

\* From lo to hi, one at a time.
LEMMA IntervalInduction ==
    ASSUME NEW lo \in Nat, NEW hi \in Nat, NEW T, lo \in T,
           \A n \in lo..hi - 1 : n \in T => n + 1 \in T
    PROVE  lo..hi \subseteq T
  <1> DEFINE S == {n \in Nat : lo + n <= hi => lo + n \in T}
  <1>1. 0 \in S
    OBVIOUS
  <1>2. ASSUME NEW n \in Nat, n \in S PROVE n + 1 \in S
    <2> SUFFICES ASSUME lo + (n + 1) <= hi PROVE lo + (n + 1) \in T
      OBVIOUS
    <2>1. lo + n \in lo..hi - 1 /\ lo + n \in T
      BY <1>2
    <2>2. (lo + n) + 1 \in T
      BY <2>1
    <2> QED
      BY <2>2
  <1> HIDE DEF S
  <1>3. Nat \subseteq S
    BY <1>1, <1>2, Induction
  <1>4. ASSUME NEW m \in lo..hi PROVE m \in T
    <2>1. m - lo \in Nat /\ lo + (m - lo) = m /\ m <= hi
      OBVIOUS
    <2>2. m - lo \in S
      BY <1>3, <2>1
    <2> QED
      BY <2>1, <2>2 DEF S
  <1> QED
    BY <1>4

\* f[k] is what k steps make of s.
Iterates(f, S, s, n, step) ==
    f \in [0..n -> S] /\ f[0] = s /\ \A k \in 1..n : f[k] = step[k][f[k - 1]]
Iteration(S, s, n, step) == \E f : Iterates(f, S, s, n, step)

LEMMA Recursion ==
    ASSUME NEW n \in Nat, NEW S, NEW s \in S, NEW step \in [1..n -> [S -> S]]
    PROVE  Iteration(S, s, n, step)
  <1> DEFINE Good(f, m) == Iterates(f, S, s, m, step)
             T == {m \in 0..n : \E f : Good(f, m)}
  <1>1. 0 \in T
    <2>1. Good([k \in 0..0 |-> s], 0)
      BY DEF Iterates
    <2>2. \E f : Good(f, 0)
      BY <2>1
    <2> QED
      BY <2>2
  <1>2. ASSUME NEW m \in 0..n - 1, m \in T PROVE m + 1 \in T
    <2>1. PICK f : Good(f, m)
      BY <1>2
    <2> DEFINE g == [k \in 0..m + 1 |-> IF k <= m THEN f[k] ELSE step[m + 1][f[m]]]
    <2>2. step[m + 1] \in [S -> S] /\ f[m] \in S
      BY <2>1 DEF Iterates
    <2>3. Good(g, m + 1)
      BY <2>1, <2>2 DEF Iterates
    <2>4. \E h : Good(h, m + 1)
      BY <2>3
    <2> HIDE DEF Good
    <2> QED
      BY <2>4
  <1> HIDE DEF T
  <1>3. 0..n \subseteq T
    BY <1>1, <1>2, IntervalInduction
  <1>4. n \in T
    BY <1>3
  <1> QED
    BY <1>4 DEF T, Iteration

\* Least finds the least element, or reports that there is none.
LEMMA LeastFound ==
    ASSUME NEW S \in SUBSET Nat, NEW none \in Nat, \A m \in S : m < none
    PROVE  \/ S = {} /\ Least(S, none) = none
           \/ Least(S, none) \in S /\ \A m \in S : Least(S, none) <= m
  <1>1. CASE S = {}
    BY <1>1 DEF Least
  <1>2. CASE S # {}
    <2>1. \E k \in S \cup {none} : \A m \in S : k <= m
      BY <1>2, LeastNumber
    <2>2. Least(S, none) \in S \cup {none} /\ \A m \in S : Least(S, none) <= m
      BY <2>1 DEF Least
    <2> QED
      BY <1>2, <2>2
  <1> QED
    BY <1>1, <1>2

-----------------------------------------------------------------------------
(* The scanner. *)

ScanStates == {"code", "string", "escape", "line", "open", "block", "closing"}
Scanner == [state : ScanStates, kept : Seq(Char)]

LEMMA ScanStepType ==
    ASSUME NEW before \in Scanner, NEW c \in Char, NEW next
    PROVE  ScanStep(before, c, next) \in Scanner
  <1>1. Scan(before.state, c, next) \in ScanStates
    BY DEF Scanner, ScanStates, Scan
  <1> QED
    BY <1>1 DEF Scanner, ScanStep

LEMMA ScannedSteps ==
    ASSUME NEW text \in Seq(Char)
    PROVE  /\ Scanned(text) \in [0..Len(text) -> Scanner]
           /\ Scanned(text)[0] = [state |-> "code", kept |-> <<>>]
           /\ \A k \in 1..Len(text) :
                  Scanned(text)[k] = ScanStep(Scanned(text)[k - 1], text[k], Following(text, k))
  <1> DEFINE n == Len(text)
             start == [state |-> "code", kept |-> <<>>]
             Run(f) == [k \in 0..n |-> IF k = 0 THEN start
                                       ELSE ScanStep(f[k - 1], text[k], Following(text, k))]
             step == [k \in 1..n |-> [x \in Scanner |-> ScanStep(x, text[k], Following(text, k))]]
             scan == Scanned(text)
  <1>1. n \in Nat /\ \A k \in 1..n : text[k] \in Char
    OBVIOUS
  <1>2. start \in Scanner
    BY DEF Scanner, ScanStates
  <1>3. step \in [1..n -> [Scanner -> Scanner]]
    BY <1>1, ScanStepType
  <1>4. PICK f \in [0..n -> Scanner] : f[0] = start /\ \A k \in 1..n : f[k] = step[k][f[k - 1]]
    <2> HIDE DEF step, start, n
    <2>1. Iteration(Scanner, start, n, step)
      BY <1>1, <1>2, <1>3, Recursion
    <2> QED
      BY <2>1 DEF Iteration, Iterates
  <1>5. f = Run(f)
    <2>1. ASSUME NEW k \in 1..n PROVE f[k] = ScanStep(f[k - 1], text[k], Following(text, k))
      <3>1. f[k - 1] \in Scanner
        BY <1>1
      <3>2. step[k][f[k - 1]] = ScanStep(f[k - 1], text[k], Following(text, k))
        BY <3>1
      <3> QED
        BY <1>4, <3>2
    <2> HIDE DEF n, start
    <2> QED
      BY <1>1, <1>4, <2>1
  <1>6. scan = CHOOSE g : g = Run(g)
    BY DEF Scanned
  <1>7. scan = Run(scan)
    <2> HIDE DEF Run, scan
    <2> QED
      BY <1>5, <1>6
  <1>8. /\ scan[0] = start
        /\ \A k \in 1..n : scan[k] = ScanStep(scan[k - 1], text[k], Following(text, k))
    <2> HIDE DEF scan, n, start
    <2> QED
      BY <1>1, <1>7
  <1>9. \A k \in 0..n : scan[k] \in Scanner
    <2> DEFINE T == {k \in 0..n : scan[k] \in Scanner}
    <2>1. 0 \in T
      BY <1>1, <1>2, <1>8
    <2>2. ASSUME NEW k \in 0..n - 1, k \in T PROVE k + 1 \in T
      <3>1. k + 1 \in 1..n /\ (k + 1) - 1 = k
        BY <1>1
      <3>2. scan[k + 1] = ScanStep(scan[k], text[k + 1], Following(text, k + 1))
        BY <1>8, <3>1
      <3> QED
        BY <1>1, <2>2, <3>1, <3>2, ScanStepType
    <2> HIDE DEF T
    <2>3. 0..n \subseteq T
      BY <1>1, <2>1, <2>2, IntervalInduction
    <2> QED
      BY <2>3 DEF T
  <1> QED
    <2> HIDE DEF scan, n, start
    <2>1. scan \in [0..n -> Scanner]
      BY <1>7, <1>9
    <2> QED
      BY <1>8, <2>1 DEF scan, n, start

\* One character, in the terms of the loop.
LEMMA ScanOne ==
    ASSUME NEW text \in Seq(Char), NEW n \in 0..Len(text) - 1
    PROVE  LET before == Scanned(text)[n]
               after  == Scanned(text)[n + 1]
               state  == Scan(before.state, text[n + 1], Following(text, n + 1))
           IN /\ before \in Scanner /\ after \in Scanner
              /\ after.state = state
              /\ after.kept = IF Outside(before.state, text[n + 1], state)
                              THEN Append(before.kept, text[n + 1]) ELSE before.kept
  <1>1. n + 1 \in 1..Len(text) /\ (n + 1) - 1 = n /\ n \in 0..Len(text) /\ n + 1 \in 0..Len(text)
    OBVIOUS
  <1>2. Scanned(text)[n + 1] = ScanStep(Scanned(text)[n], text[n + 1], Following(text, n + 1))
    BY <1>1, ScannedSteps
  <1>3. Scanned(text)[n] \in Scanner /\ Scanned(text)[n + 1] \in Scanner
    BY <1>1, ScannedSteps
  <1> QED
    BY <1>2, <1>3 DEF ScanStep

-----------------------------------------------------------------------------
(***************************************************************************)
(* The inner loops of stripJSONComments.  The scanner keeps nothing from   *)
(* the start of a comment until its end, and knows no other end.           *)
(***************************************************************************)
SameKept(text, n, m) == Scanned(text)[m].kept = Scanned(text)[n].kept

LEMMA LineSkipped ==
    ASSUME NEW text \in Seq(Char), NEW n \in 0..Len(text) - 2, NEW m \in n + 1..Len(text),
           Scanned(text)[n].state = "code", text[n + 1] = "slash", text[n + 2] = "slash",
           \A k \in n + 1..m : text[k] # "newline"
    PROVE  Scanned(text)[m].state = "line" /\ SameKept(text, n, m)
  <1> DEFINE T == {k \in n + 1..m : Scanned(text)[k].state = "line" /\ SameKept(text, n, k)}
  <1>1. n + 1 \in T
    <2>1. n \in 0..Len(text) - 1 /\ Following(text, n + 1) = "slash"
      BY DEF Following
    <2> QED
      BY <2>1, ScanOne DEF Scan, Outside, SameKept
  <1>2. ASSUME NEW k \in n + 1..m - 1, k \in T PROVE k + 1 \in T
    <2>1. k \in 0..Len(text) - 1 /\ k + 1 \in n + 1..m /\ text[k + 1] # "newline"
      OBVIOUS
    <2>2. Scanned(text)[k].state = "line" /\ SameKept(text, n, k)
      BY <1>2
    <2>3. \A c, next : c # "newline" => Scan("line", c, next) = "line" /\ ~Outside("line", c, "line")
      BY DEF Scan, Outside
    <2>4. Scanned(text)[k + 1].state = "line" /\ SameKept(text, n, k + 1)
      BY <2>1, <2>2, <2>3, ScanOne DEF SameKept
    <2> QED
      BY <2>1, <2>4
  <1> HIDE DEF T
  <1>3. n + 1 \in Nat /\ m \in Nat /\ m \in n + 1..m
    OBVIOUS
  <1>4. n + 1..m \subseteq T
    BY <1>1, <1>2, <1>3, IntervalInduction
  <1> QED
    BY <1>3, <1>4 DEF T

\* From the character behind the opening two, "closing" means a star.
InBlock(text, n, m) ==
    /\ Scanned(text)[m].state \in {"block", "closing"}
    /\ Scanned(text)[m].state = "closing" => m > n + 2 /\ text[m] = "star"
    /\ m > n + 2 /\ text[m] = "star" => Scanned(text)[m].state = "closing"
    /\ SameKept(text, n, m)

LEMMA BlockSkipped ==
    ASSUME NEW text \in Seq(Char), NEW n \in 0..Len(text) - 2, NEW m \in n + 2..Len(text),
           Scanned(text)[n].state = "code", text[n + 1] = "slash", text[n + 2] = "star",
           \A k \in n + 3..m - 1 : ~(text[k] = "star" /\ text[k + 1] = "slash")
    PROVE  InBlock(text, n, m)
  <1> DEFINE T == {k \in n + 2..m : InBlock(text, n, k)}
  <1>1. n + 2 \in T
    <2>1. n \in 0..Len(text) - 1 /\ n + 1 \in 0..Len(text) - 1 /\ Following(text, n + 1) = "star" /\ (n + 1) + 1 = n + 2
      BY DEF Following
    <2>2. Scanned(text)[n + 1].state = "open" /\ SameKept(text, n, n + 1)
      BY <2>1, ScanOne DEF Scan, Outside, SameKept
    <2>3. \A c, next : Scan("open", c, next) = "block" /\ ~Outside("open", c, "block")
      BY DEF Scan, Outside
    <2>4. Scanned(text)[n + 2].state = "block" /\ SameKept(text, n, n + 2)
      BY <2>1, <2>2, <2>3, ScanOne DEF SameKept
    <2> QED
      BY <2>4 DEF InBlock
  <1>2. ASSUME NEW k \in n + 2..m - 1, k \in T PROVE k + 1 \in T
    <2>1. k \in 0..Len(text) - 1 /\ k + 1 \in n + 2..m /\ k + 1 > n + 2 /\ InBlock(text, n, k)
      BY <1>2
    <2>2. ~(k > n + 2 /\ text[k] = "star" /\ text[k + 1] = "slash")
      OBVIOUS
    <2>3. /\ \A c, next : Scan("block", c, next) = IF c = "star" THEN "closing" ELSE "block"
          /\ \A c, next : c # "slash" => Scan("closing", c, next) = IF c = "star" THEN "closing" ELSE "block"
      BY DEF Scan
    <2>a. \A c, to : ~Outside("block", c, to) /\ ~Outside("closing", c, to)
      BY DEF Outside
    <2>4. Scanned(text)[k].state \in {"block", "closing"} /\ SameKept(text, n, k)
          /\ ~(Scanned(text)[k].state = "closing" /\ text[k + 1] = "slash")
      BY <2>1, <2>2 DEF InBlock
    <2>5. /\ Scanned(text)[k + 1].state = IF text[k + 1] = "star" THEN "closing" ELSE "block"
          /\ SameKept(text, n, k + 1)
      BY <2>1, <2>3, <2>4, <2>a, ScanOne DEF SameKept
    <2> QED
      BY <2>1, <2>5 DEF InBlock
  <1> HIDE DEF T
  <1>3. n + 2 \in Nat /\ m \in Nat /\ m \in n + 2..m
    OBVIOUS
  <1>4. n + 2..m \subseteq T
    BY <1>1, <1>2, <1>3, IntervalInduction
  <1> QED
    BY <1>3, <1>4 DEF T

-----------------------------------------------------------------------------
(***************************************************************************)
(* stripJSONComments and the scanner go the same way: the two variables of *)
(* the loop are the scanner's state whenever an iteration begins.          *)
(***************************************************************************)
AtState == IF escapeNext THEN "escape" ELSE IF inString THEN "string" ELSE "code"

LoopAgrees ==
    /\ escapeNext => inString
    /\ i <= Len(data) => Scanned(data)[i].state = AtState /\ result = Scanned(data)[i].kept
    /\ i > Len(data) => result = Scanned(data)[Len(data)].kept

LoopTyped ==
    /\ data \in Seq(Char)
    /\ i \in 0..Len(data) + 2
    /\ inString \in BOOLEAN /\ escapeNext \in BOOLEAN
    /\ phase \in {"strip", "fix", "done"}

StripInv == LoopTyped /\ (phase # "done" => LoopAgrees)

\* An iteration that looks at one character.
LEMMA OneCharacter ==
    ASSUME LoopTyped, LoopAgrees, Looping, CopyEscaped \/ StartEscape \/ StringBoundary \/ CopyPlain
    PROVE  LoopAgrees'
  <1>1. i \in 0..Len(data) - 1 /\ data \in Seq(Char) /\ Len(data) \in Nat /\ i \in Nat
    BY DEF LoopTyped, Looping
  <1>2. i' = i + 1 /\ data' = data /\ result' = Append(result, b) /\ b = data[i + 1]
    BY DEF CopyEscaped, StartEscape, StringBoundary, CopyPlain, Keep, b
  <1>3. Scanned(data)[i].state = AtState /\ result = Scanned(data)[i].kept
    BY <1>1 DEF LoopAgrees
  <1>4. i + 1 <= Len(data) /\ ~(i + 1 > Len(data))
    BY <1>1
  <1> DEFINE next == Following(data, i + 1)
  <1>5. /\ next = "slash" => NextIs("slash")
        /\ next = "star" => NextIs("star")
    BY <1>1 DEF Following, NextIs
  <1>6. /\ escapeNext' => inString'
        /\ Scan(AtState, b, next) = AtState'
        /\ Outside(AtState, b, AtState')
    <2>1. \A c, n : Scan("escape", c, n) = "string" /\ Outside("escape", c, "string")
      BY DEF Scan, Outside
    <2>2. \A c, n : /\ Scan("string", c, n) = IF c = "backslash" THEN "escape" ELSE IF c = "quote" THEN "code" ELSE "string"
                    /\ \A to \in {"escape", "code", "string"} : Outside("string", c, to)
      BY DEF Scan, Outside
    <2>3. \A c, n : ~(c = "slash" /\ n \in {"slash", "star"}) =>
                    /\ Scan("code", c, n) = IF c = "quote" THEN "string" ELSE "code"
                    /\ \A to \in {"code", "string"} : Outside("code", c, to)
      BY DEF Scan, Outside
    <2>4. CASE CopyEscaped
      BY <2>1, <2>4 DEF LoopTyped, LoopAgrees, AtState, CopyEscaped
    <2>5. CASE StartEscape
      BY <2>2, <2>5 DEF LoopTyped, LoopAgrees, AtState, StartEscape
    <2>6. CASE StringBoundary
      BY <2>2, <2>3, <2>6 DEF LoopTyped, LoopAgrees, AtState, StringBoundary
    <2>7. CASE CopyPlain
      BY <1>5, <2>2, <2>3, <2>7 DEF LoopTyped, LoopAgrees, AtState, CopyPlain, LineComment, BlockComment
    <2> QED
      BY <2>4, <2>5, <2>6, <2>7
  <1>7. Scanned(data)[i + 1].state = AtState' /\ Scanned(data)[i + 1].kept = Append(result, b)
    BY <1>1, <1>2, <1>3, <1>6, ScanOne
  <1> QED
    BY <1>2, <1>4, <1>6, <1>7 DEF LoopAgrees

LEMMA LineStep ==
    ASSUME LoopTyped, LoopAgrees, SkipLine
    PROVE  LoopTyped' /\ LoopAgrees'
  <1> DEFINE S == {k \in i + 1..Len(data) : data[k] = "newline"}
             end == Least(S, Len(data) + 1)
  <1>1. i \in 0..Len(data) - 2 /\ data \in Seq(Char) /\ Len(data) \in Nat /\ i \in Nat
    BY DEF LoopTyped, SkipLine, Looping, LineComment, NextIs
  <1>2. /\ data' = data /\ i' = end /\ ~escapeNext /\ ~inString /\ phase = "strip"
        /\ UNCHANGED <<inString, escapeNext, phase>>
        /\ data[i + 1] = "slash" /\ data[i + 2] = "slash"
        /\ result' = IF end <= Len(data) THEN Append(result, "newline") ELSE result
    <2>1. i' = end
      BY DEF SkipLine
    <2> HIDE DEF end
    <2> QED
      BY <2>1 DEF SkipLine, LineComment, NextIs, b, Looping
  <1>3. Scanned(data)[i].state = "code" /\ result = Scanned(data)[i].kept
    BY <1>1, <1>2 DEF LoopAgrees, AtState
  <1>4. \/ S = {} /\ end = Len(data) + 1
        \/ end \in S /\ \A m \in S : end <= m
    <2>1. S \in SUBSET Nat /\ Len(data) + 1 \in Nat /\ \A m \in S : m < Len(data) + 1
      BY <1>1
    <2> HIDE DEF S
    <2> QED
      BY <2>1, LeastFound
  <1> HIDE DEF end
  <1>5. CASE end = Len(data) + 1 /\ S = {}
    <2>1. Len(data) \in i + 1..Len(data) /\ \A k \in i + 1..Len(data) : data[k] # "newline"
      BY <1>1, <1>5
    <2>2. SameKept(data, i, Len(data))
      BY <1>1, <1>2, <1>3, <2>1, LineSkipped
    <2> QED
      BY <1>1, <1>2, <1>3, <1>5, <2>2 DEF LoopAgrees, LoopTyped, SameKept
  <1>6. CASE end \in S /\ \A m \in S : end <= m
    <2>1. /\ end \in i + 1..Len(data) /\ data[end] = "newline"
          /\ end # i + 1 /\ end - 1 \in i + 1..Len(data) /\ end - 1 \in 0..Len(data) - 1 /\ (end - 1) + 1 = end
      BY <1>1, <1>2, <1>6
    <2>2. \A k \in i + 1..end - 1 : data[k] # "newline"
      BY <1>1, <1>6, <2>1
    <2>3. Scanned(data)[end - 1].state = "line" /\ SameKept(data, i, end - 1)
      BY <1>1, <1>2, <1>3, <2>1, <2>2, LineSkipped
    <2>4. \A n : Scan("line", "newline", n) = "code" /\ Outside("line", "newline", "code")
      BY DEF Scan, Outside
    <2>5. /\ Scanned(data)[end].state = Scan("line", "newline", Following(data, end))
          /\ Scanned(data)[end].kept =
                IF Outside("line", "newline", Scan("line", "newline", Following(data, end)))
                THEN Append(Scanned(data)[end - 1].kept, "newline") ELSE Scanned(data)[end - 1].kept
      BY <1>1, <2>1, <2>3, ScanOne
    <2>6. Scanned(data)[end].state = "code" /\ Scanned(data)[end].kept = Append(result, "newline")
      BY <1>3, <2>3, <2>4, <2>5 DEF SameKept
    <2> QED
      BY <1>1, <1>2, <2>1, <2>6 DEF LoopAgrees, LoopTyped, AtState
  <1> QED
    BY <1>4, <1>5, <1>6

LEMMA BlockStep ==
    ASSUME LoopTyped, LoopAgrees, SkipBlock
    PROVE  LoopTyped' /\ LoopAgrees'
  <1> DEFINE S == {k \in i + 3..Len(data) - 1 : data[k] = "star" /\ data[k + 1] = "slash"}
             none == IF Len(data) > i + 3 THEN Len(data) ELSE i + 3
             end == Least(S, none)
  <1>1. i \in 0..Len(data) - 2 /\ data \in Seq(Char) /\ Len(data) \in Nat /\ i \in Nat
    BY DEF LoopTyped, SkipBlock, Looping, BlockComment, NextIs
  <1>2. /\ data' = data /\ i' = 1 + end /\ ~escapeNext /\ ~inString /\ phase = "strip"
        /\ UNCHANGED <<inString, escapeNext, phase, result>>
        /\ data[i + 1] = "slash" /\ data[i + 2] = "star"
    <2>1. i' = 1 + end
      BY DEF SkipBlock, FromOpen
    <2> HIDE DEF end
    <2> QED
      BY <2>1 DEF SkipBlock, BlockComment, NextIs, b, Looping
  <1>3. Scanned(data)[i].state = "code" /\ result = Scanned(data)[i].kept
    BY <1>1, <1>2 DEF LoopAgrees, AtState
  <1>4. \/ S = {} /\ end = none
        \/ end \in S /\ \A m \in S : end <= m
    <2>1. S \in SUBSET Nat /\ none \in Nat /\ \A m \in S : m < none
      BY <1>1
    <2> HIDE DEF S, none
    <2> QED
      BY <2>1, LeastFound
  <1>5. none \in Nat /\ none >= Len(data) /\ none <= Len(data) + 1
    BY <1>1
  <1> HIDE DEF end, none
  <1>6. CASE end = none /\ S = {}
    <2>1. /\ Len(data) \in i + 2..Len(data)
          /\ \A k \in i + 3..Len(data) - 1 : ~(data[k] = "star" /\ data[k + 1] = "slash")
      <3>1. Len(data) \in i + 2..Len(data)
        BY <1>1
      <3> QED
        BY <1>6, <3>1
    <2>2. SameKept(data, i, Len(data))
      BY <1>1, <1>2, <1>3, <2>1, BlockSkipped DEF InBlock
    <2>3. i' > Len(data) /\ i' \in 0..Len(data) + 2
      BY <1>1, <1>2, <1>5, <1>6
    <2> QED
      BY <1>1, <1>2, <1>3, <2>2, <2>3 DEF LoopAgrees, LoopTyped, SameKept
  <1>7. CASE end \in S /\ \A m \in S : end <= m
    <2>1. /\ end \in i + 3..Len(data) - 1 /\ data[end] = "star" /\ data[end + 1] = "slash"
          /\ end \in i + 2..Len(data) /\ end \in 0..Len(data) - 1
      BY <1>1, <1>7
    <2>2. \A k \in i + 3..end - 1 : ~(data[k] = "star" /\ data[k + 1] = "slash")
      BY <1>1, <1>7, <2>1
    <2>3. InBlock(data, i, end)
      BY <1>1, <1>2, <1>3, <2>1, <2>2, BlockSkipped
    <2>4. Scanned(data)[end].state = "closing" /\ SameKept(data, i, end)
      BY <1>1, <2>1, <2>3 DEF InBlock
    <2>5. \A n : Scan("closing", "slash", n) = "code" /\ ~Outside("closing", "slash", "code")
      BY DEF Scan, Outside
    <2>6. Scanned(data)[end + 1].state = "code" /\ Scanned(data)[end + 1].kept = result
      <3>1. /\ Scanned(data)[end + 1].state = Scan("closing", "slash", Following(data, end + 1))
            /\ Scanned(data)[end + 1].kept =
                  IF Outside("closing", "slash", Scan("closing", "slash", Following(data, end + 1)))
                  THEN Append(Scanned(data)[end].kept, "slash") ELSE Scanned(data)[end].kept
        BY <1>1, <2>1, <2>4, ScanOne
      <3> QED
        BY <1>3, <2>4, <2>5, <3>1 DEF SameKept
    <2>7. i' = end + 1 /\ i' <= Len(data) /\ i' \in 0..Len(data) + 2
      BY <1>1, <1>2, <2>1
    <2> QED
      BY <1>1, <1>2, <2>6, <2>7 DEF LoopAgrees, LoopTyped, AtState
  <1> QED
    BY <1>4, <1>6, <1>7

LEMMA StripInit == Init => StripInv
  <1> SUFFICES ASSUME Init PROVE StripInv
    OBVIOUS
  <1>1. data \in Seq(Char) /\ Len(data) \in Nat /\ 0 \in 0..Len(data) + 2
    BY TextAssumption DEF Init
  <1>2. Scanned(data)[0] = [state |-> "code", kept |-> <<>>]
    BY <1>1, ScannedSteps
  <1>3. LoopTyped
    BY <1>1 DEF Init, LoopTyped
  <1>4. 0 <= Len(data) /\ ~(0 > Len(data))
    BY <1>1
  <1> QED
    BY <1>2, <1>3, <1>4 DEF Init, StripInv, LoopAgrees, AtState

LEMMA StripNext == StripInv /\ [Next]_vars => StripInv'
  <1> SUFFICES ASSUME StripInv, [Next]_vars PROVE StripInv'
    OBVIOUS
  <1>1. LoopTyped /\ (phase # "done" => LoopAgrees)
    BY DEF StripInv
  <1>2. CASE CopyEscaped \/ StartEscape \/ StringBoundary \/ CopyPlain
    <2>1. Looping /\ LoopAgrees
      BY <1>1, <1>2 DEF CopyEscaped, StartEscape, StringBoundary, CopyPlain, Looping
    <2>2. LoopAgrees'
      BY <1>1, <1>2, <2>1, OneCharacter
    <2>3. i' = i + 1 /\ i + 1 \in 0..Len(data) + 2 /\ data' = data /\ phase' = phase
      BY <1>1, <1>2, <2>1 DEF LoopTyped, Looping, CopyEscaped, StartEscape, StringBoundary, CopyPlain
    <2>4. inString' \in BOOLEAN /\ escapeNext' \in BOOLEAN
      BY <1>1, <1>2 DEF LoopTyped, CopyEscaped, StartEscape, StringBoundary, CopyPlain
    <2>5. LoopTyped'
      BY <1>1, <2>3, <2>4 DEF LoopTyped
    <2> QED
      BY <2>2, <2>5 DEF StripInv
  <1>3. CASE SkipLine
    BY <1>1, <1>3, LineStep DEF StripInv, SkipLine, Looping
  <1>4. CASE SkipBlock
    BY <1>1, <1>4, BlockStep DEF StripInv, SkipBlock, Looping
  <1>5. CASE Stripped
    BY <1>1, <1>5 DEF StripInv, Stripped, LoopTyped, LoopAgrees, AtState
  <1>6. CASE FixCommas
    BY <1>1, <1>6 DEF StripInv, FixCommas, LoopTyped
  <1>7. CASE UNCHANGED vars
    BY <1>1, <1>7 DEF StripInv, vars, LoopTyped, LoopAgrees, AtState
  <1> QED
    BY <1>2, <1>3, <1>4, <1>5, <1>6, <1>7 DEF Next

\* stripJSONComments keeps what is outside comments and nothing else, in every
\* text: strings with slashes, escapes and quotes in them, comments that are
\* never closed, stars and slashes inside a comment.
THEOREM StripsCorrect == Spec => []StripCorrect
  <1>1. StripInv => StripCorrect
    <2> SUFFICES ASSUME StripInv, phase # "done"
                 PROVE  result = WithoutComments(data, IF i < Len(data) THEN i ELSE Len(data))
      BY DEF StripCorrect
    <2>1. Len(data) \in Nat /\ i \in Nat /\ LoopAgrees
      BY DEF StripInv, LoopTyped
    <2> QED
      BY <2>1 DEF LoopAgrees, WithoutComments
  <1> QED
    BY <1>1, StripInit, StripNext, PTL DEF Spec

-----------------------------------------------------------------------------
(* Lines, and the lines of a text. *)

Line == Seq(Char)
LineList == {q \in Seq(Line) : q # <<>>}

LEMMA AddedToLastLine ==
    ASSUME NEW before \in LineList, NEW c \in Char
    PROVE  /\ Append(before, <<>>) \in LineList
           /\ [before EXCEPT ![Len(before)] = Append(@, c)] \in LineList
  <1>1. before \in Seq(Line) /\ Len(before) \in 1..Len(before) /\ before[Len(before)] \in Line
    BY DEF LineList
  <1>2. <<>> \in Line /\ Append(before[Len(before)], c) \in Line
    BY <1>1 DEF Line
  <1>3. Append(before, <<>>) \in Seq(Line) /\ Append(before, <<>>) # <<>>
    BY <1>1, <1>2
  <1> DEFINE q == [before EXCEPT ![Len(before)] = Append(@, c)]
  <1>4. q \in Seq(Line) /\ q # <<>>
    <2>1. q \in [1..Len(before) -> Line] /\ Len(before) \in Nat /\ Len(before) # 0
      BY <1>1, <1>2
    <2> HIDE DEF q
    <2> QED
      BY <2>1, IsASeq
  <1> QED
    BY <1>3, <1>4 DEF LineList

LEMMA LinesType ==
    ASSUME NEW text \in Seq(Char)
    PROVE  Lines(text) \in LineList
  <1> DEFINE n == Len(text)
             start == <<<<>>>>
             More(before, c) == IF c = "newline" THEN Append(before, <<>>)
                                ELSE [before EXCEPT ![Len(before)] = Append(@, c)]
             Run(f) == [k \in 0..n |-> IF k = 0 THEN start ELSE More(f[k - 1], text[k])]
             step == [k \in 1..n |-> [x \in LineList |-> More(x, text[k])]]
             lines == CHOOSE f : f = Run(f)
  <1>1. n \in Nat /\ \A k \in 1..n : text[k] \in Char
    OBVIOUS
  <1>2. start \in LineList
    BY DEF LineList, Line
  <1>3. \A x \in LineList, c \in Char : More(x, c) \in LineList
    BY AddedToLastLine
  <1>4. Lines(text) = lines[n]
    BY DEF Lines
  <1> HIDE DEF More, start, n
  <1>5. PICK f : Iterates(f, LineList, start, n, step)
    <2>1. step \in [1..n -> [LineList -> LineList]]
      BY <1>1, <1>3
    <2> HIDE DEF step
    <2> QED
      BY <1>1, <1>2, <2>1, Recursion DEF Iteration
  <1>6. f = Run(f)
    <2>1. ASSUME NEW k \in 1..n PROVE f[k] = More(f[k - 1], text[k])
      <3>1. f[k - 1] \in LineList /\ f[k] = step[k][f[k - 1]]
        BY <1>1, <1>5 DEF Iterates
      <3> QED
        BY <3>1
    <2> QED
      BY <1>1, <1>5, <2>1 DEF Iterates
  <1>7. lines = Run(lines)
    <2> HIDE DEF Run
    <2> QED
      BY <1>6
  <1> HIDE DEF lines
  <1>8. lines[0] = start /\ \A k \in 1..n : lines[k] = More(lines[k - 1], text[k])
    BY <1>1, <1>7
  <1> DEFINE T == {k \in 0..n : lines[k] \in LineList}
  <1>9. 0 \in T
    BY <1>1, <1>2, <1>8
  <1>10. ASSUME NEW k \in 0..n - 1, k \in T PROVE k + 1 \in T
    <2>1. k + 1 \in 1..n /\ (k + 1) - 1 = k
      BY <1>1
    <2> QED
      BY <1>1, <1>3, <1>8, <1>10, <2>1
  <1> HIDE DEF T
  <1>11. 0..n \subseteq T
    <2>1. 0 \in Nat /\ n \in Nat
      BY <1>1
    <2> QED
      BY <1>9, <1>10, <2>1, IntervalInduction
  <1>12. n \in T
    BY <1>1, <1>11
  <1> QED
    BY <1>4, <1>12 DEF T

\* strings.Join, one line at a time.
LEMMA JoinedSteps ==
    ASSUME NEW lines \in LineList
    PROVE  \E text : /\ text \in [1..Len(lines) -> Seq(Char)]
                     /\ text[1] = lines[1]
                     /\ \A n \in 2..Len(lines) : text[n] = text[n - 1] \o <<"newline">> \o lines[n]
                     /\ Joined(lines) = text[Len(lines)]
  <1> DEFINE n == Len(lines)
             Run(f) == [k \in 1..n |-> IF k = 1 THEN lines[1]
                                       ELSE f[k - 1] \o <<"newline">> \o lines[k]]
             step == [k \in 1..n - 1 |-> [x \in Seq(Char) |-> x \o <<"newline">> \o lines[k + 1]]]
             text == CHOOSE f : f = Run(f)
  <1>1. n \in Nat /\ n >= 1 /\ \A k \in 1..n : lines[k] \in Seq(Char)
    BY DEF LineList, Line
  <1>2. \A x, y \in Seq(Char) : x \o <<"newline">> \o y \in Seq(Char)
    <2>1. "newline" \in Char
      BY DEF Char
    <2> HIDE DEF n
    <2> QED
      BY <2>1
  <1>3. Joined(lines) = text[n]
    BY DEF Joined
  <1> HIDE DEF n
  <1>4. PICK g : Iterates(g, Seq(Char), lines[1], n - 1, step)
    <2>1. n - 1 \in Nat /\ lines[1] \in Seq(Char)
      BY <1>1
    <2>2. step \in [1..n - 1 -> [Seq(Char) -> Seq(Char)]]
      BY <1>1, <1>2
    <2> HIDE DEF step
    <2>3. Iteration(Seq(Char), lines[1], n - 1, step)
      BY <2>1, <2>2, Recursion
    <2> QED
      BY <2>3 DEF Iteration
  <1> DEFINE f == [k \in 1..n |-> g[k - 1]]
  <1>5. f = Run(f)
    <2>1. ASSUME NEW k \in 1..n, k # 1 PROVE f[k] = f[k - 1] \o <<"newline">> \o lines[k]
      <3>1. k - 1 \in 1..n - 1 /\ k - 1 \in 1..n /\ (k - 1) + 1 = k /\ (k - 1) - 1 \in 0..n - 1
        BY <1>1, <2>1
      <3>2. g[k - 1] = step[k - 1][g[(k - 1) - 1]]
        BY <1>4, <3>1 DEF Iterates
      <3>3. g[(k - 1) - 1] \in Seq(Char)
        BY <1>4, <3>1 DEF Iterates
      <3> QED
        BY <3>1, <3>2, <3>3
    <2>2. f[1] = lines[1]
      BY <1>1, <1>4 DEF Iterates
    <2> HIDE DEF f
    <2>3. f = [k \in 1..n |-> f[k]]
      BY DEF f
    <2> QED
      BY <1>1, <2>1, <2>2, <2>3
  <1>6. text = Run(text)
    <2> HIDE DEF Run, f
    <2> QED
      BY <1>5
  <1> HIDE DEF text
  <1>7. text[1] = lines[1] /\ \A k \in 2..n : text[k] = text[k - 1] \o <<"newline">> \o lines[k]
    <2>1. 1 \in 1..n /\ \A k \in 2..n : k \in 1..n /\ k # 1
      BY <1>1
    <2> QED
      BY <1>6, <2>1
  <1> DEFINE T == {k \in 1..n : text[k] \in Seq(Char)}
  <1>8. 1 \in T
    BY <1>1, <1>7
  <1>9. ASSUME NEW k \in 1..n - 1, k \in T PROVE k + 1 \in T
    <2>1. k + 1 \in 2..n /\ (k + 1) - 1 = k /\ k + 1 \in 1..n
      BY <1>1
    <2>2. text[k + 1] = text[k] \o <<"newline">> \o lines[k + 1]
      BY <1>7, <2>1
    <2> QED
      BY <1>1, <1>2, <1>9, <2>1, <2>2
  <1> HIDE DEF T
  <1>10. 1..n \subseteq T
    <2>1. 1 \in Nat /\ n \in Nat
      BY <1>1
    <2> QED
      BY <1>8, <1>9, <2>1, IntervalInduction
  <1>11. text \in [1..n -> Seq(Char)]
    <2> HIDE DEF Run
    <2>1. \A k \in 1..n : text[k] \in Seq(Char)
      BY <1>10 DEF T
    <2>2. text = [k \in 1..n |-> text[k]]
      BY <1>6 DEF Run
    <2> QED
      BY <2>1, <2>2
  <1> QED
    BY <1>3, <1>7, <1>11 DEF n

-----------------------------------------------------------------------------
(* A line without the blanks around it, and with its comma put right. *)

LEMMA GreatestNumber ==
    ASSUME NEW n \in Nat, NEW S \in SUBSET (0..n), S # {}
    PROVE  \E k \in S : \A m \in S : m <= k
  <1> DEFINE T == {n - m : m \in S}
  <1>1. T \in SUBSET Nat /\ T # {}
    <2>1. \A m \in S : m \in 0..n /\ n - m \in Nat
      OBVIOUS
    <2> QED
      BY <2>1
  <1>2. PICK x \in T : \A y \in T : x <= y
    <2> HIDE DEF T
    <2> QED
      BY <1>1, LeastNumber
  <1>3. PICK k \in S : x = n - k
    OBVIOUS
  <1>4. ASSUME NEW m \in S PROVE m <= k
    <2>1. n - m \in T /\ m \in Nat /\ k \in Nat
      OBVIOUS
    <2>2. n - k <= n - m
      BY <1>2, <1>3, <2>1
    <2> QED
      BY <2>1, <2>2
  <1> QED
    BY <1>4

LEMMA TrimmedEnds ==
    ASSUME NEW line \in Line
    PROVE  /\ Solid(line) = {} => Trimmed(line) = <<>>
           /\ \A lo, hi \in Solid(line) :
                  (\A m \in Solid(line) : lo <= m /\ m <= hi) =>
                      /\ Trimmed(line) # <<>>
                      /\ Head(Trimmed(line)) = line[lo] /\ Last(Trimmed(line)) = line[hi]
  <1> DEFINE n == Len(line)
             S == Solid(line)
             first == Least(S, n + 1)
             last == CHOOSE k \in S \cup {0} : \A m \in S : m <= k
  <1>1. line \in Seq(Char) /\ n \in Nat /\ S \subseteq 1..n
    BY DEF Line, Solid
  <1>2. Trimmed(line) = SubSeq(line, first, last)
    BY DEF Trimmed
  <1>3. \/ S = {} /\ first = n + 1
        \/ first \in S /\ \A m \in S : first <= m
    <2>1. S \in SUBSET Nat /\ n + 1 \in Nat /\ \A m \in S : m < n + 1
      BY <1>1
    <2> HIDE DEF S, n
    <2> QED
      BY <2>1, LeastFound
  <1>4. \/ S = {} /\ last = 0
        \/ last \in S /\ \A m \in S : m <= last
    <2>1. CASE S = {}
      BY <2>1
    <2>2. CASE S # {}
      <3>1. S \in SUBSET (0..n)
        BY <1>1
      <3> HIDE DEF S, n
      <3>2. \E k \in S : \A m \in S : m <= k
        BY <1>1, <2>2, <3>1, GreatestNumber
      <3>3. last \in S \cup {0} /\ \A m \in S : m <= last
        BY <3>2
      <3> HIDE DEF last
      <3>4. last # 0
        <4>1. PICK m \in S : m \in 1..n
          BY <1>1, <2>2
        <4> QED
          BY <3>3, <4>1
      <3> QED
        BY <3>3, <3>4
    <2> QED
      BY <2>1, <2>2
  <1> HIDE DEF first, last
  <1>5. CASE S = {}
    <2>1. first = n + 1 /\ last = 0
      BY <1>3, <1>4, <1>5
    <2>2. SubSeq(line, n + 1, 0) = <<>>
      BY <1>1, SubSeqEmpty
    <2> QED
      BY <1>2, <1>5, <2>1, <2>2
  <1>6. ASSUME NEW lo \in S, NEW hi \in S, \A m \in S : lo <= m /\ m <= hi
        PROVE  /\ Trimmed(line) # <<>>
               /\ Head(Trimmed(line)) = line[lo] /\ Last(Trimmed(line)) = line[hi]
    <2>1. first \in S /\ last \in S /\ first <= lo /\ hi <= last
      BY <1>3, <1>4, <1>6
    <2>2. first = lo /\ last = hi /\ first \in 1..n /\ last \in 1..n /\ first <= last
      BY <1>1, <1>6, <2>1
    <2> DEFINE q == SubSeq(line, first, last)
    <2>3. q \in Seq(Char) /\ Len(q) = (last - first) + 1 /\ \A k \in 1..Len(q) : q[k] = line[first + k - 1]
      BY <1>1, <2>2
    <2> HIDE DEF q
    <2>4. q # <<>> /\ Head(q) = q[1] /\ Last(q) = q[Len(q)] /\ 1 \in 1..Len(q) /\ Len(q) \in 1..Len(q)
      BY <1>1, <2>2, <2>3 DEF Last
    <2>5. q[1] = line[first] /\ q[Len(q)] = line[last]
      BY <1>1, <2>2, <2>3, <2>4
    <2> QED
      BY <1>2, <2>2, <2>4, <2>5 DEF q
  <1> QED
    BY <1>5, <1>6

LEMMA FixLineType ==
    ASSUME NEW line \in Line, NEW isLast \in BOOLEAN
    PROVE  FixLine(line, isLast) \in Line
  <1>1. "comma" \in Char /\ line \in Seq(Char)
    BY DEF Char, Line
  <1>2. Append(line, "comma") \in Seq(Char)
    BY <1>1
  <1>3. Front(line) \in Seq(Char)
    BY <1>1 DEF Front
  <1> QED
    BY <1>1, <1>2, <1>3 DEF FixLine, Line

LEMMA FixedLinesType ==
    ASSUME NEW lines \in LineList
    PROVE  /\ FixedLines(lines) \in LineList /\ Len(FixedLines(lines)) = Len(lines)
           /\ DOMAIN lines = 1..Len(lines) /\ \A n \in 1..Len(lines) : lines[n] \in Line
           /\ \A n \in 1..Len(lines) : FixedLines(lines)[n] =
                IF n \in propertyLines(lines) THEN FixLine(lines[n], isLastProperty(lines, n)) ELSE lines[n]
  <1> DEFINE q == FixedLines(lines)
  <1>1. /\ DOMAIN lines = 1..Len(lines) /\ Len(lines) \in Nat /\ Len(lines) # 0
        /\ \A n \in 1..Len(lines) : lines[n] \in Line
    BY DEF LineList
  <1>2. \A n \in 1..Len(lines) : q[n] =
          IF n \in propertyLines(lines) THEN FixLine(lines[n], isLastProperty(lines, n)) ELSE lines[n]
    BY <1>1 DEF FixedLines
  <1>3. \A n \in 1..Len(lines) : isLastProperty(lines, n) \in BOOLEAN
    BY DEF isLastProperty
  <1>4. q \in [1..Len(lines) -> Line]
    <2>1. \A n \in 1..Len(lines) : q[n] \in Line
      BY <1>1, <1>2, <1>3, FixLineType
    <2>2. q = [n \in 1..Len(lines) |-> q[n]]
      BY <1>1 DEF FixedLines
    <2> HIDE DEF q
    <2> QED
      BY <2>1, <2>2
  <1> HIDE DEF q
  <1>5. q \in Seq(Line) /\ Len(q) = Len(lines) /\ q # <<>>
    BY <1>1, <1>4, IsASeq
  <1> QED
    BY <1>1, <1>2, <1>5 DEF q, LineList

LEMMA FixType ==
    ASSUME NEW text \in Seq(Char)
    PROVE  fixJSONCommas(text) \in Seq(Char)
  <1> DEFINE lines == FixedLines(Lines(text))
  <1>1. lines \in LineList
    BY LinesType, FixedLinesType
  <1> HIDE DEF lines
  <1>2. Len(lines) \in 1..Len(lines)
    BY <1>1 DEF LineList
  <1>3. PICK joined \in [1..Len(lines) -> Seq(Char)] : Joined(lines) = joined[Len(lines)]
    BY <1>1, JoinedSteps
  <1> QED
    BY <1>2, <1>3 DEF fixJSONCommas, lines

-----------------------------------------------------------------------------
\* What is kept of a text of characters is one.
ResultTyped == result \in Seq(Char)

LEMMA KeptType == StripInv /\ phase # "done" => ResultTyped
  <1> SUFFICES ASSUME StripInv, phase # "done" PROVE ResultTyped
    OBVIOUS
  <1>1. data \in Seq(Char) /\ Len(data) \in 0..Len(data) /\ (i <= Len(data) => i \in 0..Len(data)) /\ (i <= Len(data) \/ i > Len(data))
    BY DEF StripInv, LoopTyped
  <1>2. \A k \in 0..Len(data) : Scanned(data)[k].kept \in Seq(Char)
    BY <1>1, ScannedSteps DEF Scanner
  <1> QED
    BY <1>1, <1>2 DEF StripInv, LoopAgrees, ResultTyped

\* A text never gets anything but characters, neither by the loop nor by the
\* commas, and the loop ends at most two characters beyond its end.
THEOREM TypeCorrect == Spec => []TypeOK
  <1>1. StripInv /\ ResultTyped /\ [Next]_vars => ResultTyped'
    <2> SUFFICES ASSUME StripInv, ResultTyped, [Next]_vars PROVE ResultTyped'
      OBVIOUS
    <2>1. StripInv'
      BY StripNext
    <2>2. CASE phase' # "done"
      <3>1. (StripInv /\ phase # "done" => ResultTyped)'
        BY KeptType, PTL
      <3> QED
        BY <2>1, <2>2, <3>1
    <2>3. CASE FixCommas
      BY <2>3, FixType DEF FixCommas, ResultTyped
    <2>4. CASE UNCHANGED vars
      BY <2>4 DEF vars, ResultTyped
    <2>5. FixCommas \/ UNCHANGED vars \/ phase' # "done"
      BY DEF Next, CopyEscaped, StartEscape, StringBoundary, CopyPlain, SkipLine, SkipBlock, Looping, Stripped
    <2> QED
      BY <2>2, <2>3, <2>4, <2>5
  <1>2. Init => ResultTyped
    BY DEF Init, ResultTyped
  <1>3. StripInv /\ ResultTyped => TypeOK
    BY DEF StripInv, LoopTyped, ResultTyped, TypeOK
  <1> QED
    BY <1>1, <1>2, <1>3, StripInit, StripNext, PTL DEF Spec

-----------------------------------------------------------------------------
(***************************************************************************)
(* Texts put behind one another: properties and commas go on taking turns  *)
(* if the first text ends in a comma.                                      *)
(***************************************************************************)
LEMMA ConcatBody ==
    ASSUME NEW x \in Seq(Char), NEW y \in Seq(Char)
    PROVE  /\ x \o y \in Seq(Char)
           /\ \A k \in Body(x) : k \in 1..Len(x) /\ k \in Body(x \o y) /\ (x \o y)[k] = x[k]
           /\ \A k \in Body(y) : /\ k \in 1..Len(y) /\ k + Len(x) \in Body(x \o y)
                                 /\ (x \o y)[k + Len(x)] = y[k]
           /\ \A k \in Body(x \o y) : /\ k \in Nat
                                      /\ k <= Len(x) => k \in Body(x)
                                      /\ k > Len(x) => k - Len(x) \in Body(y)
  <1> DEFINE z == x \o y
  <1>1. /\ z \in Seq(Char) /\ Len(z) = Len(x) + Len(y) /\ Len(x) \in Nat /\ Len(y) \in Nat
        /\ \A k \in 1..Len(x) : z[k] = x[k]
        /\ \A k \in 1..Len(y) : z[k + Len(x)] = y[k]
        /\ DOMAIN x = 1..Len(x) /\ DOMAIN y = 1..Len(y) /\ DOMAIN z = 1..Len(z)
    OBVIOUS
  <1> HIDE DEF z
  <1>2. \A k \in Body(x) : k \in 1..Len(x) /\ k \in Body(z) /\ z[k] = x[k]
    BY <1>1 DEF Body
  <1>3. \A k \in Body(y) : k \in 1..Len(y) /\ k + Len(x) \in Body(z) /\ z[k + Len(x)] = y[k]
    BY <1>1 DEF Body
  <1>4. ASSUME NEW k \in Body(z)
        PROVE  k \in Nat /\ (k <= Len(x) => k \in Body(x)) /\ (k > Len(x) => k - Len(x) \in Body(y))
    <2>1. k \in 1..Len(z) /\ z[k] \notin {"blank", "newline"}
      BY <1>1 DEF Body
    <2>2. CASE k <= Len(x)
      BY <1>1, <2>1, <2>2 DEF Body
    <2>3. CASE k > Len(x)
      <3>1. k - Len(x) \in 1..Len(y) /\ (k - Len(x)) + Len(x) = k
        BY <1>1, <2>1, <2>3
      <3> QED
        BY <1>1, <2>1, <2>3, <3>1 DEF Body
    <2> QED
      BY <1>1, <2>1, <2>2, <2>3
  <1> QED
    BY <1>1, <1>2, <1>3, <1>4 DEF z

LEMMA ConcatTurns ==
    ASSUME NEW x \in Seq(Char), NEW y \in Seq(Char), Alternating(x), Alternating(y),
           Body(x) = {} \/ Body(y) = {} \/ EndsIn(x, "comma")
    PROVE  Alternating(x \o y)
  <1> DEFINE z == x \o y
             n == Len(x)
  <1>1. n \in Nat
    OBVIOUS
  <1>2. \A k \in Body(x) : k \in 1..n /\ k \in Body(z) /\ z[k] = x[k]
    BY ConcatBody
  <1>3. \A k \in Body(y) : k \in Nat /\ k > 0 /\ k + n \in Body(z) /\ z[k + n] = y[k]
    BY ConcatBody
  <1>4. \A k \in Body(z) : k \in Nat /\ (k <= n => k \in Body(x)) /\ (k > n => k - n \in Body(y))
    BY ConcatBody
  <1> HIDE DEF z, n
  <1>5. ASSUME NEW k \in Body(z), k <= n
        PROVE  /\ z[k] \in {"property", "comma"}
               /\ z[k] = "comma" => \E j \in Body(z) : j < k
               /\ \A j \in Body(z) : j < k /\ z[j] = z[k] =>
                      \E m \in Body(z) : j < m /\ m < k /\ z[m] # z[k]
    <2>1. k \in Body(x) /\ z[k] = x[k] /\ k \in Nat
      BY <1>2, <1>4, <1>5
    <2>2. x[k] \in {"property", "comma"} /\ (x[k] = "comma" => \E j \in Body(x) : j < k)
      BY <2>1 DEF Alternating
    <2>3. ASSUME NEW j \in Body(z), j < k, z[j] = z[k]
          PROVE  \E m \in Body(z) : j < m /\ m < k /\ z[m] # z[k]
      <3>1. j \in Body(x) /\ z[j] = x[j]
        BY <1>1, <1>2, <1>4, <1>5, <2>1, <2>3
      <3>2. x[j] = x[k]
        BY <2>1, <2>3, <3>1
      <3>3. \E m \in Body(x) : j < m /\ m < k /\ x[m] # x[k]
        BY <2>1, <2>3, <3>1, <3>2, Zenon DEF Alternating
      <3> QED
        BY <1>2, <2>1, <3>3
    <2> QED
      BY <1>2, <2>1, <2>2, <2>3
  <1>6. ASSUME NEW k \in Body(z), k > n
        PROVE  /\ z[k] \in {"property", "comma"}
               /\ z[k] = "comma" => \E j \in Body(z) : j < k
               /\ \A j \in Body(z) : j < k /\ z[j] = z[k] =>
                      \E m \in Body(z) : j < m /\ m < k /\ z[m] # z[k]
    <2> DEFINE h == k - n
    <2>1. h \in Body(y) /\ k \in Nat /\ h + n = k /\ z[k] = y[h] /\ h \in Nat
      <3>1. h \in Body(y) /\ k \in Nat
        BY <1>4, <1>6
      <3>2. h \in Nat /\ h + n = k
        BY <1>1, <1>3, <3>1
      <3> QED
        BY <1>3, <3>1, <3>2
    <2> HIDE DEF h
    <2>2. y[h] \in {"property", "comma"} /\ (y[h] = "comma" => \E j \in Body(y) : j < h)
      BY <2>1 DEF Alternating
    \* Behind a character of y in y.
    <2>3. \A j \in Body(y) : j < h => j + n \in Body(z) /\ j + n < k /\ z[j + n] = y[j]
      BY <1>1, <1>3, <2>1
    <2>4. ASSUME NEW j \in Body(z), j < k, z[j] = z[k]
          PROVE  \E m \in Body(z) : j < m /\ m < k /\ z[m] # z[k]
      <3>1. CASE j > n
        <4>1. j - n \in Body(y) /\ j \in Nat
          BY <1>4, <3>1
        <4>2. j - n < h /\ y[j - n] = y[h] /\ (j - n) + n = j /\ j - n \in Nat
          <5>1. (j - n) + n = j /\ j - n \in Nat /\ j - n < h
            BY <1>1, <2>1, <2>4, <3>1, <4>1
          <5> QED
            BY <1>3, <2>1, <2>4, <4>1, <5>1
        <4>3. PICK m \in Body(y) : j - n < m /\ m < h /\ y[m] # y[h]
          BY <2>1, <4>1, <4>2 DEF Alternating
        <4>4. m + n \in Body(z) /\ m + n < k /\ z[m + n] = y[m] /\ m \in Nat
          BY <1>3, <2>3, <4>3
        <4>5. j < m + n
          BY <1>1, <4>1, <4>3, <4>4
        <4> QED
          BY <2>1, <4>3, <4>4, <4>5
      <3>2. CASE j <= n /\ z[k] = "comma"
        <4>1. PICK m \in Body(y) : m < h /\ y[m] = "property"
          <5>1. PICK l \in Body(y) : l < h
            BY <2>1, <2>2, <3>2
          <5>2. CASE y[l] = "property"
            BY <5>1, <5>2
          <5>3. CASE y[l] = "comma"
            <6>1. PICK m \in Body(y) : l < m /\ m < h /\ y[m] # y[h]
              BY <2>1, <3>2, <5>1, <5>3 DEF Alternating
            <6>2. y[m] \in {"property", "comma"}
              BY DEF Alternating
            <6> QED
              BY <2>1, <3>2, <6>1, <6>2
          <5> QED
            BY <5>2, <5>3 DEF Alternating
        <4>2. m + n \in Body(z) /\ m + n < k /\ z[m + n] = "property" /\ m \in Nat /\ m > 0
          BY <1>3, <2>3, <4>1
        <4>3. j < m + n
          BY <1>1, <1>4, <3>2, <4>2
        <4> QED
          BY <3>2, <4>2, <4>3
      <3>3. CASE j <= n /\ z[k] # "comma"
        <4>1. j \in Body(x) /\ z[j] = x[j] /\ j \in Nat
          BY <1>2, <1>4, <3>3
        <4>2. PICK m \in Body(x) : x[m] = "comma" /\ \A l \in Body(x) : l <= m
          BY <2>1, <4>1 DEF EndsIn
        <4>3. m \in 1..n /\ m \in Body(z) /\ z[m] = "comma" /\ j <= m
          BY <1>2, <4>1, <4>2
        <4>4. m < k /\ j # m
          BY <1>1, <1>6, <2>1, <2>4, <3>3, <4>3
        <4>5. j < m
          BY <1>1, <4>1, <4>3, <4>4
        <4> QED
          BY <3>3, <4>3, <4>4, <4>5
      <3> QED
        BY <1>1, <1>4, <3>1, <3>2, <3>3
    <2> QED
      BY <2>1, <2>2, <2>3, <2>4
  <1>7. \A k \in Body(z) : k <= n \/ k > n
    BY <1>1, <1>4
  <1>8. Alternating(z)
    <2> SUFFICES ASSUME NEW k \in Body(z)
                 PROVE  /\ z[k] \in {"property", "comma"}
                        /\ z[k] = "comma" => \E j \in Body(z) : j < k
                        /\ \A j \in Body(z) : j < k /\ z[j] = z[k] =>
                               \E m \in Body(z) : j < m /\ m < k /\ z[m] # z[k]
      BY DEF Alternating
    <2> QED
      BY <1>5, <1>6, <1>7
  <1> QED
    BY <1>8 DEF z

LEMMA ConcatEnds ==
    ASSUME NEW x \in Seq(Char), NEW y \in Seq(Char), NEW c
    PROVE  /\ EndsIn(y, c) => EndsIn(x \o y, c)
           /\ Body(y) = {} /\ EndsIn(x, c) => EndsIn(x \o y, c)
           /\ Body(x) = {} /\ Body(y) = {} => Body(x \o y) = {}
  <1> DEFINE z == x \o y
             n == Len(x)
  <1>1. n \in Nat
    OBVIOUS
  <1>2. \A k \in Body(x) : k \in 1..n /\ k \in Body(z) /\ z[k] = x[k]
    BY ConcatBody
  <1>3. \A k \in Body(y) : k \in Nat /\ k > 0 /\ k + n \in Body(z) /\ z[k + n] = y[k]
    BY ConcatBody
  <1>4. \A k \in Body(z) : k \in Nat /\ (k <= n => k \in Body(x)) /\ (k > n => k - n \in Body(y))
    BY ConcatBody
  <1> HIDE DEF z, n
  <1>5. ASSUME EndsIn(y, c) PROVE EndsIn(z, c)
    <2>1. PICK k \in Body(y) : y[k] = c /\ \A j \in Body(y) : j <= k
      BY <1>5 DEF EndsIn
    <2>2. k + n \in Body(z) /\ z[k + n] = c /\ k \in Nat
      BY <1>3, <2>1
    <2>3. ASSUME NEW j \in Body(z) PROVE j <= k + n
      <3>1. CASE j <= n
        BY <1>1, <1>4, <2>2, <3>1
      <3>2. CASE j > n
        <4>1. j - n <= k /\ j \in Nat
          BY <1>4, <2>1, <3>2
        <4> QED
          BY <1>1, <2>2, <4>1
      <3> QED
        BY <1>1, <1>4, <3>1, <3>2
    <2> QED
      BY <2>2, <2>3 DEF EndsIn
  <1>6. ASSUME Body(y) = {} PROVE \A k \in Body(z) : k \in Body(x)
    BY <1>1, <1>4, <1>6
  <1>7. ASSUME Body(y) = {}, EndsIn(x, c) PROVE EndsIn(z, c)
    BY <1>2, <1>6, <1>7 DEF EndsIn
  <1> QED
    BY <1>5, <1>6, <1>7 DEF z

-----------------------------------------------------------------------------
(***************************************************************************)
(* What fixJSONCommas makes of a line of a flat config: nothing of a line  *)
(* without a property, and of one with a property that property alone or   *)
(* with a comma.                                                           *)
(***************************************************************************)
Item(x, c) == Alternating(x) /\ EndsIn(x, c)

LEMMA AloneOrPaired ==
    ASSUME NEW x \in Seq(Char)
    PROVE  /\ \A p \in Body(x) : x[p] = "property" /\ Body(x) = {p} => Item(x, "property")
           /\ \A p, c \in Body(x) : x[p] = "property" /\ x[c] = "comma" /\ p < c /\ Body(x) = {p, c}
                                        => Item(x, "comma")
  <1>1. Body(x) \subseteq Nat
    BY DEF Body
  <1>2. ASSUME NEW p \in Body(x), x[p] = "property", Body(x) = {p} PROVE Item(x, "property")
    BY <1>1, <1>2 DEF Item, Alternating, EndsIn
  <1>3. ASSUME NEW p \in Body(x), NEW c \in Body(x), x[p] = "property", x[c] = "comma", p < c,
               Body(x) = {p, c}
        PROVE  Item(x, "comma")
    <2>1. p \in Nat /\ c \in Nat
      BY <1>1
    <2>2. EndsIn(x, "comma")
      BY <1>3, <2>1 DEF EndsIn
    <2>3. Alternating(x)
      BY <1>3, <2>1 DEF Alternating
    <2> QED
      BY <2>2, <2>3 DEF Item
  <1> QED
    BY <1>2, <1>3

LEMMA FlatLineFixed ==
    ASSUME NEW line \in Line, FlatLine(line), TightLine(line)
    PROVE  /\ ~IsProperty(line) => Body(line) = {}
           /\ IsProperty(line) => /\ Item(FixLine(line, FALSE), "comma")
                                  /\ Item(FixLine(line, TRUE), "property")
  <1> DEFINE n == Len(line)
             S == Solid(line)
  <1>1. line \in Seq(Char) /\ n \in Nat /\ S \subseteq 1..n /\ DOMAIN line = 1..n /\ S \subseteq Nat
    BY DEF Line, Solid
  <1>2. ASSUME \A k \in S : line[k] \in {"property", "comma"} PROVE Body(line) = S
    BY <1>2 DEF Body, Solid
  <1>3. CASE S = {}
    <2>1. ~IsProperty(line)
      BY <1>3, TrimmedEnds DEF IsProperty
    <2> QED
      BY <1>2, <1>3, <2>1
  <1>4. ASSUME NEW p \in S, line[p] = "property", S = {p}
        PROVE  /\ IsProperty(line) /\ Item(FixLine(line, FALSE), "comma")
               /\ Item(FixLine(line, TRUE), "property")
    <2>1. p \in 1..n /\ p \in Nat /\ \A m \in S : p <= m /\ m <= p
      BY <1>1, <1>4
    <2>2. IsProperty(line) /\ ~EndsInComma(line)
      BY <1>4, <2>1, TrimmedEnds DEF IsProperty, EndsInComma
    <2>3. Body(line) = {p}
      BY <1>2, <1>4
    <2>4. Item(line, "property")
      BY <1>1, <1>4, <2>3, AloneOrPaired
    <2> DEFINE q == Append(line, "comma")
    <2>5. /\ q \in Seq(Char) /\ Len(q) = n + 1 /\ q[n + 1] = "comma" /\ DOMAIN q = 1..n + 1
          /\ \A k \in 1..n : q[k] = line[k]
      <3>1. "comma" \in Char
        BY DEF Char
      <3> QED
        BY <1>1, <3>1
    <2> HIDE DEF q
    <2>6. Body(q) = {p, n + 1}
      <3>1. p \in Body(q) /\ n + 1 \in Body(q)
        BY <1>1, <1>4, <2>1, <2>5 DEF Body
      <3>2. ASSUME NEW k \in Body(q), k # n + 1 PROVE k = p
        <4>1. k \in 1..n /\ k \in Body(line)
          BY <1>1, <2>5, <3>2 DEF Body
        <4> QED
          BY <2>3, <4>1
      <3> QED
        BY <3>1, <3>2
    <2>7. Item(q, "comma")
      <3>1. q[p] = "property" /\ p < n + 1 /\ p \in Body(q) /\ n + 1 \in Body(q)
        BY <1>1, <1>4, <2>1, <2>5, <2>6
      <3> QED
        BY <2>5, <2>6, <3>1, AloneOrPaired
    <2> QED
      BY <2>2, <2>4, <2>7 DEF FixLine, q
  <1>5. ASSUME NEW p \in S, NEW c \in S, line[p] = "property", line[c] = "comma", p < c, S = {p, c}
        PROVE  /\ IsProperty(line) /\ Item(FixLine(line, FALSE), "comma")
               /\ Item(FixLine(line, TRUE), "property")
    <2>1. /\ p \in 1..n /\ c \in 1..n /\ p \in Nat /\ c \in Nat
          /\ \A m \in S : p <= m /\ m <= c
      BY <1>1, <1>5
    <2>2. IsProperty(line) /\ EndsInComma(line)
      <3>1. /\ Trimmed(line) # <<>>
            /\ Head(Trimmed(line)) = line[p] /\ Last(Trimmed(line)) = line[c]
        BY <2>1, TrimmedEnds
      <3> QED
        BY <1>5, <3>1 DEF IsProperty, EndsInComma
    <2>3. Body(line) = {p, c}
      BY <1>2, <1>5
    <2>4. Item(line, "comma")
      BY <1>1, <1>5, <2>3, AloneOrPaired
    <2>5. c = n
      <3> SUFFICES ASSUME c # n PROVE FALSE
        OBVIOUS
      <3>1. c \in 1..n - 1 /\ c + 1 \in 1..n /\ c + 1 \notin S
        <4> HIDE DEF S, n
        <4>1. c \in 1..n /\ n \in Nat /\ c # n
          BY <1>1, <2>1
        <4>2. c \in 1..n - 1 /\ c + 1 \in 1..n /\ c + 1 \in Nat /\ ~(c + 1 <= c)
          BY <4>1
        <4> QED
          BY <2>1, <4>2
      <3>2. line[c + 1] = "blank"
        BY <1>1, <3>1 DEF Solid
      <3> QED
        BY <1>5, <3>1, <3>2 DEF TightLine
    <2> DEFINE q == Front(line)
    <2>6. q \in Seq(Char) /\ Len(q) = n - 1 /\ DOMAIN q = 1..n - 1 /\ \A k \in 1..n - 1 : q[k] = line[k]
      BY <1>1, <2>1 DEF Front
    <2> HIDE DEF q
    <2>7. Body(q) = {p}
      <3>1. p \in Body(q)
        BY <1>1, <1>5, <2>1, <2>5, <2>6 DEF Body
      <3>2. ASSUME NEW k \in Body(q) PROVE k = p
        <4>1. k \in 1..n - 1 /\ k \in Body(line)
          BY <1>1, <2>6 DEF Body
        <4> HIDE DEF n
        <4>2. k \in 1..n - 1 /\ n \in Nat
          BY <1>1, <4>1
        <4>3. k # n
          BY <4>2
        <4> QED
          BY <2>3, <2>5, <4>1, <4>3
      <3> QED
        BY <3>1, <3>2
    <2>8. Item(q, "property")
      <3>1. q[p] = "property" /\ p \in Body(q)
        BY <1>1, <1>5, <2>1, <2>5, <2>6, <2>7
      <3> QED
        BY <2>6, <2>7, <3>1, AloneOrPaired
    <2> QED
      BY <2>2, <2>4, <2>8 DEF FixLine, q
  <1> QED
    BY <1>3, <1>4, <1>5 DEF FlatLine

\* What the n-th line of a flat config has become.
LEMMA EachLineFixed ==
    ASSUME NEW lines \in LineList, NEW n \in 1..Len(lines),
           \A k \in 1..Len(lines) : FlatLine(lines[k]) /\ TightLine(lines[k])
    PROVE  LET line == FixedLines(lines)[n]
           IN /\ n \notin propertyLines(lines) => Body(line) = {}
              /\ n \in propertyLines(lines) =>
                     IF \A m \in propertyLines(lines) : m <= n
                     THEN Item(line, "property") ELSE Item(line, "comma")
  <1> DEFINE line == FixedLines(lines)[n]
  <1>1. lines[n] \in Line /\ n \in DOMAIN lines /\ FlatLine(lines[n]) /\ TightLine(lines[n])
    BY FixedLinesType
  <1>2. line = IF n \in propertyLines(lines) THEN FixLine(lines[n], isLastProperty(lines, n)) ELSE lines[n]
    BY FixedLinesType
  <1>3. n \in propertyLines(lines) <=> IsProperty(lines[n])
    BY <1>1 DEF propertyLines
  <1> HIDE DEF line
  <1>4. CASE n \notin propertyLines(lines)
    BY <1>1, <1>2, <1>3, <1>4, FlatLineFixed DEF line
  <1>5. CASE n \in propertyLines(lines) /\ isLastProperty(lines, n)
    <2>1. isLastProperty(lines, n) = TRUE
      BY <1>5 DEF isLastProperty
    <2>2. line = FixLine(lines[n], TRUE)
      BY <1>2, <1>5, <2>1
    <2>3. Item(line, "property")
      BY <1>1, <1>3, <1>5, <2>2, FlatLineFixed
    <2> QED
      BY <1>5, <2>3 DEF isLastProperty, line
  <1>6. CASE n \in propertyLines(lines) /\ ~isLastProperty(lines, n)
    <2>1. isLastProperty(lines, n) = FALSE
      BY <1>6 DEF isLastProperty
    <2>2. line = FixLine(lines[n], FALSE)
      BY <1>2, <1>6, <2>1
    <2>3. Item(line, "comma")
      BY <1>1, <1>3, <1>6, <2>2, FlatLineFixed
    <2> QED
      BY <1>6, <2>3 DEF isLastProperty, line
  <1> QED
    BY <1>4, <1>5, <1>6

(***************************************************************************)
(* The lines are joined one by one: what they make up so far ends in a     *)
(* comma as long as there is a property to come, in a property once there  *)
(* is none.                                                                *)
(***************************************************************************)
SoFar(text, P, n) ==
    /\ Alternating(text)
    /\ (\A m \in P : m > n) => Body(text) = {}
    /\ (\E m \in P : m <= n) =>
           IF \A m \in P : m <= n THEN EndsIn(text, "property") ELSE EndsIn(text, "comma")

LEMMA NothingAlternates == \A text : Body(text) = {} => Alternating(text)
  BY DEF Alternating

\* One line more.
LEMMA OneLineMore ==
    ASSUME NEW P \in SUBSET Nat, NEW n \in Nat, NEW x \in Seq(Char), NEW y \in Seq(Char),
           SoFar(x, P, n),
           n + 1 \notin P => Body(y) = {},
           n + 1 \in P => IF \A m \in P : m <= n + 1 THEN Item(y, "property") ELSE Item(y, "comma")
    PROVE  SoFar(x \o <<"newline">> \o y, P, n + 1)
  <1> DEFINE nl == <<"newline">>
             xn == x \o nl
             z == xn \o y
  <1>1. nl \in Seq(Char) /\ Body(nl) = {}
    BY DEF Body, Char
  <1> HIDE DEF nl
  <1>2. xn \in Seq(Char) /\ Alternating(xn)
    BY <1>1, ConcatBody, ConcatTurns, NothingAlternates DEF SoFar
  <1>3. \A c : EndsIn(x, c) => EndsIn(xn, c)
    BY <1>1, ConcatEnds
  <1>4. Body(x) = {} => Body(xn) = {}
    BY <1>1, ConcatEnds
  <1> HIDE DEF xn
  <1>5. \A m \in P : (m <= n + 1 <=> m <= n \/ m = n + 1) /\ (m > n <=> ~(m <= n)) /\ (m > n + 1 <=> ~(m <= n + 1))
    OBVIOUS
  <1>6. CASE n + 1 \notin P
    <2>1. Body(y) = {} /\ Alternating(y)
      BY <1>6, NothingAlternates
    <2>2. Alternating(z)
      BY <1>2, <2>1, ConcatTurns
    <2>3. /\ \A c : EndsIn(xn, c) => EndsIn(z, c)
          /\ Body(xn) = {} => Body(z) = {}
      BY <1>2, <2>1, ConcatEnds
    <2>4. \A m \in P : (m <= n + 1 <=> m <= n) /\ (m > n + 1 <=> m > n)
      BY <1>5, <1>6
    <2> HIDE DEF z
    <2> QED
      BY <1>3, <1>4, <2>2, <2>3, <2>4 DEF SoFar, z, xn, nl
  <1>7. CASE n + 1 \in P
    <2>1. Alternating(y)
      BY <1>7 DEF Item
    <2>2. Body(xn) = {} \/ EndsIn(xn, "comma")
      <3>1. CASE \A m \in P : m > n
        BY <1>4, <3>1 DEF SoFar
      <3>2. CASE \E m \in P : m <= n
        <4>1. ~ \A m \in P : m <= n
          BY <1>7
        <4> QED
          BY <1>3, <3>2, <4>1 DEF SoFar
      <3> QED
        BY <1>5, <3>1, <3>2
    <2>3. Alternating(z)
      BY <1>2, <2>1, <2>2, ConcatTurns
    <2>4. IF \A m \in P : m <= n + 1 THEN EndsIn(z, "property") ELSE EndsIn(z, "comma")
      BY <1>2, <1>7, ConcatEnds DEF Item
    <2>5. ~ \A m \in P : m > n + 1
      BY <1>7
    <2> HIDE DEF z
    <2> QED
      BY <2>3, <2>4, <2>5 DEF SoFar, z, xn, nl
  <1> QED
    BY <1>6, <1>7

LEMMA FixRepairs ==
    ASSUME NEW text \in Seq(Char), Flat(text), Tight(text)
    PROVE  WellFormed(fixJSONCommas(text))
  <1> DEFINE lines == Lines(text)
             fixed == FixedLines(lines)
             P == propertyLines(lines)
             N == Len(lines)
  <1>1. lines \in LineList
    BY LinesType
  <1>2. \A k \in DOMAIN lines : FlatLine(lines[k]) /\ TightLine(lines[k])
    BY DEF Flat, Tight
  <1> HIDE DEF lines
  <1>3. /\ fixed \in LineList /\ Len(fixed) = N /\ DOMAIN lines = 1..N
    BY <1>1, FixedLinesType
  <1>4. N \in Nat /\ N # 0 /\ 1 \in 1..N /\ N \in 1..N /\ P \in SUBSET Nat /\ P \subseteq 1..N
        /\ \A k \in 1..N : fixed[k] \in Seq(Char)
    BY <1>1, <1>3 DEF LineList, Line, propertyLines
  <1>5. ASSUME NEW n \in 1..N
        PROVE  /\ n \notin P => Body(fixed[n]) = {}
               /\ n \in P => IF \A m \in P : m <= n
                             THEN Item(fixed[n], "property") ELSE Item(fixed[n], "comma")
    BY <1>1, <1>2, <1>3, EachLineFixed
  <1>6. PICK joined \in [1..N -> Seq(Char)] :
            /\ joined[1] = fixed[1]
            /\ \A n \in 2..N : joined[n] = joined[n - 1] \o <<"newline">> \o fixed[n]
            /\ Joined(fixed) = joined[N]
    BY <1>3, JoinedSteps
  <1> HIDE DEF fixed, P, N
  <1> DEFINE G == {n \in 1..N : SoFar(joined[n], P, n)}
  <1>7. 1 \in G
    <2>1. \A m \in P : m > 1 <=> m # 1
      BY <1>4
    <2>2. \A m \in P : m <= 1 <=> m = 1
      BY <1>4
    <2>3. CASE 1 \in P
      BY <1>4, <1>5, <1>6, <2>1, <2>3 DEF SoFar, Item
    <2>4. CASE 1 \notin P
      BY <1>4, <1>5, <1>6, <2>2, <2>4, NothingAlternates DEF SoFar
    <2> QED
      BY <2>3, <2>4
  <1>8. ASSUME NEW n \in 1..N - 1, n \in G PROVE n + 1 \in G
    <2>1. n \in Nat /\ n \in 1..N /\ n + 1 \in 2..N /\ n + 1 \in 1..N /\ (n + 1) - 1 = n
      BY <1>4
    <2>2. joined[n + 1] = joined[n] \o <<"newline">> \o fixed[n + 1]
      BY <1>6, <2>1
    <2>3. joined[n] \in Seq(Char) /\ fixed[n + 1] \in Seq(Char) /\ SoFar(joined[n], P, n)
      BY <1>4, <1>6, <1>8, <2>1
    <2>4. SoFar(joined[n + 1], P, n + 1)
      BY <1>4, <1>5, <2>1, <2>2, <2>3, OneLineMore
    <2> QED
      BY <2>1, <2>4
  <1> HIDE DEF G
  <1>9. N \in G
    BY <1>4, <1>7, <1>8, IntervalInduction
  <1>10. SoFar(joined[N], P, N)
    BY <1>9 DEF G
  <1>11. \A m \in P : m <= N /\ ~(m > N)
    BY <1>4
  <1>12. WellFormed(joined[N])
    BY <1>10, <1>11 DEF SoFar, WellFormed
  <1> QED
    BY <1>6, <1>12 DEF fixJSONCommas, fixed, lines

-----------------------------------------------------------------------------
\* The text the commas are put right in is the file without its comments, and
\* what becomes of it is what is left.
FixAgrees ==
    /\ phase = "fix" => i >= Len(data)
    /\ phase = "done" => result = fixJSONCommas(WithoutComments(data, Len(data)))

\* fixJSONCommas makes an object of alternating properties and commas of every
\* config with at most one property on a line and no blank between a comma and
\* the end of its line, whatever commas are missing or superfluous, and
\* whatever comments were stripped of it.
THEOREM CommasCorrect == Spec => []CommasRepaired
  <1>1. StripInv /\ FixAgrees /\ [Next]_vars => FixAgrees'
    <2> SUFFICES ASSUME StripInv, FixAgrees, [Next]_vars PROVE FixAgrees'
      OBVIOUS
    <2>1. CASE phase = "strip" /\ phase' = "strip"
      BY <2>1 DEF FixAgrees
    <2>2. CASE Stripped
      BY <2>2 DEF Stripped, FixAgrees
    <2>3. CASE FixCommas
      <3>1. i >= Len(data) /\ phase = "fix" /\ phase' = "done" /\ data' = data
            /\ result' = fixJSONCommas(result)
        BY <2>3 DEF FixCommas, FixAgrees
      <3>2. i \in Nat /\ Len(data) \in Nat
        BY DEF StripInv, LoopTyped
      <3>3. result = WithoutComments(data, Len(data))
        BY <3>1, <3>2 DEF StripInv, LoopAgrees, WithoutComments
      <3> QED
        BY <3>1, <3>3 DEF FixAgrees
    <2>4. CASE UNCHANGED vars
      BY <2>4 DEF vars, FixAgrees
    <2>5. \/ phase = "strip" /\ phase' = "strip"
          \/ Stripped \/ FixCommas \/ UNCHANGED vars
      BY DEF Next, CopyEscaped, StartEscape, StringBoundary, CopyPlain, SkipLine, SkipBlock, Looping
    <2> QED
      BY <2>1, <2>2, <2>3, <2>4, <2>5
  <1>2. Init => FixAgrees
    BY DEF Init, FixAgrees
  <1>3. StripInv /\ FixAgrees => CommasRepaired
    <2> SUFFICES ASSUME StripInv, FixAgrees, phase = "done",
                        Flat(WithoutComments(data, Len(data))), Tight(WithoutComments(data, Len(data)))
                 PROVE  WellFormed(result)
      BY DEF CommasRepaired
    <2>1. data \in Seq(Char) /\ Len(data) \in 0..Len(data)
      BY DEF StripInv, LoopTyped
    <2>2. WithoutComments(data, Len(data)) \in Seq(Char)
      BY <2>1, ScannedSteps DEF Scanner, WithoutComments
    <2> QED
      BY <2>2, FixRepairs DEF FixAgrees
  <1> QED
    BY <1>1, <1>2, <1>3, StripInit, StripNext, PTL DEF Spec
=============================================================================
