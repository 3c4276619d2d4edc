------------------------------ MODULE EditMatch ------------------------------
(***************************************************************************)
(* How the edit tool finds the text that it replaces: exactly, or with ever  *)
(* looser comparisons of whole lines, once in the host's edit_utils (local   *)
(* mode) and once in the server embedded in the sandbox.                     *)
(*                                                                         *)
(* A text is a sequence of characters; those that the algorithm tells apart  *)
(* are the line break, blanks, a character with an ASCII look-alike, one     *)
(* that vanishes, and all others.                                           *)
(***************************************************************************)
EXTENDS Integers, FiniteSets, SequencesExt, FiniteSetsExt, Selections

CONSTANTS
  Alphabet,   \* the characters of texts, among those below
  MaxContent, \* bound: length of the file
  MaxPattern  \* bound: length of old_str

Break == "line break"
Blank == "blank"
Dash == "-"
LongDash == "en-dash"
Nothing == "zero-width space"

ASSUME EditAssumption ==
  /\ Alphabet \subseteq {Break, Blank, Dash, LongDash, Nothing, "a"}
  /\ MaxContent \in Nat /\ MaxPattern \in Nat \ {0}

VARIABLES
  content, \* of the file
  pattern, \* old_str
  edit     \* the mode, once the edit is made, and where it took place

editVars == <<content, pattern, edit>>

\* where an edit takes place: from, to, as positions of the content
Nowhere == [from |-> 0, to |-> -1]

---------------------------------------------------------------------------
(* Lines                                                                   *)

\* the positions after which a line starts
Starts(t) == <<0>> \o Picked([k \in DOMAIN t |-> k], {k \in DOMAIN t : t[k] = Break})
Lines(t) ==
  LET at == Starts(t)
  IN [i \in DOMAIN at |->
        SubSeq(t, at[i] + 1, IF i = Len(at) THEN Len(t) ELSE at[i + 1] - 1)]
Joined(lines) ==
  LET upto[k \in 0 .. Len(lines)] ==
        IF k = 0 THEN <<>>
        ELSE (IF k = 1 THEN <<>> ELSE Append(upto[k - 1], Break)) \o lines[k]
  IN upto[Len(lines)]

Ink(l) == {k \in DOMAIN l : l[k] # Blank}
RightTrim(l) == IF Ink(l) = {} THEN <<>> ELSE SubSeq(l, 1, Max(Ink(l)))
Indent(l) == IF Ink(l) = {} THEN Len(l) ELSE Min(Ink(l)) - 1
Trimmed(l) == IF Ink(l) = {} THEN <<>> ELSE SubSeq(l, Min(Ink(l)), Max(Ink(l)))

\* _normalize_unicode
Normal(t) ==
  LET kept == Picked(t, {k \in DOMAIN t : t[k] # Nothing})
  IN [k \in DOMAIN kept |-> IF kept[k] = LongDash THEN Dash ELSE kept[k]]

\* the passes: what a line becomes, and what the joined text becomes
Passes == <<"right", "both", "unicode">>
Stripped(t, pass) ==
  LET ls == Lines(t)
  IN [i \in DOMAIN ls |-> IF pass = "right" THEN RightTrim(ls[i]) ELSE Trimmed(ls[i])]
Loose(t, pass) ==
  IF pass = "unicode" THEN Normal(Joined(Stripped(t, pass)))
  ELSE Joined(Stripped(t, pass))

---------------------------------------------------------------------------
(* Searching                                                               *)

\* str.find: the number of characters before the first occurrence, or -1
Occurs(p, t, k) == SubSeq(t, k + 1, k + Len(p)) = p
Find(p, t) ==
  LET ks == {k \in 0 .. Len(t) - Len(p) : Occurs(p, t, k)}
  IN IF ks = {} THEN -1 ELSE Min(ks)

\* str.count counts occurrences that do not overlap, and all places of none
Count(p, t) ==
  LET f[k \in Nat] ==
        IF k > Len(t) - Len(p) THEN 0
        ELSE IF Occurs(p, t, k) THEN 1 + f[k + Max({1, Len(p)})] ELSE f[k + 1]
  IN f[0]

\* the first pass that finds the pattern, 0 when none does
PassOf(t, p) ==
  LET found == {n \in DOMAIN Passes :
                  Find(Loose(p, Passes[n]), Loose(t, Passes[n])) # -1}
  IN IF found = {} THEN 0 ELSE Min(found)

\* the lines first .. first + n - 1 of t, which are cut off at its end
Span(t, first, n) ==
  LET at == Starts(t)
      last == Min({first + n - 1, Len(at)})
  IN [from |-> at[first] + 1,
      to |-> IF last = Len(at) THEN Len(t) ELSE at[last + 1] - 1]

\* the line of a text that the position k falls on, counting breaks before it
LineAt(t, k) == Cardinality({j \in 1 .. k : t[j] = Break}) + 1

\* _map_back: the position in the original text of one in the stripped lines:
\* the indent of the line is added, whether the pass has taken it away or not
MapBack(t, pass, k) ==
  LET line == LineAt(Joined(Stripped(t, pass)), k)
      column == k - Starts(Joined(Stripped(t, pass)))[line]
  IN Starts(t)[line] + Indent(Lines(t)[line]) + column

\* mutant: the first line that ends beyond it
HostLine_Beyond(t, pass, k) ==
  LET idx == MapBack(t, pass, k)
      ends == [i \in DOMAIN Lines(t) |-> Starts(t)[i] + Len(Lines(t)[i])]
      reach == {i \in DOMAIN ends : ends[i] > idx}
  IN IF reach = {} THEN 1 ELSE Min(reach)

\* fuzzy_find_original_match: the first line that does not end before there
HostLine(t, pass, k) ==
  LET idx == MapBack(t, pass, k)
      ends == [i \in DOMAIN Lines(t) |-> Starts(t)[i] + Len(Lines(t)[i])]
      reach == {i \in DOMAIN ends : ends[i] >= idx}
  IN IF reach = {} THEN 1 ELSE Min(reach)

\* what the host replaces: as many lines as the pattern has
HostMatch(t, p) ==
  LET n == PassOf(t, p)
      k == Find(Loose(p, Passes[n]), Loose(t, Passes[n]))
  IN IF Find(p, t) # -1
     THEN [from |-> Find(p, t) + 1, to |-> Find(p, t) + Len(p)]
     ELSE IF n = 0 THEN Nowhere
     ELSE Span(t, HostLine(t, Passes[n], k), Len(Lines(p)))

\* _fuzzy_find_original of the embedded server
ServerMatch(t, p) ==
  LET n == PassOf(t, p)
      k == Find(Loose(p, Passes[n]), Loose(t, Passes[n]))
  IN IF Find(p, t) # -1
     THEN [from |-> Find(p, t) + 1, to |-> Find(p, t) + Len(p)]
     ELSE IF n = 0 THEN Nowhere
     ELSE Span(t, LineAt(Loose(t, Passes[n]), k), Len(Lines(Loose(p, Passes[n]))))

Text(t, m) == SubSeq(t, m.from, m.to)

---------------------------------------------------------------------------
(* apply_edit and _apply_edit                                              *)

Modes == {"replace", "append_after", "prepend_before"}
NoEdit == [mode |-> "none", all |-> FALSE, host |-> Nowhere, server |-> Nowhere]

EditInit ==
  /\ content \in BoundedSeq(Alphabet, MaxContent)
  /\ pattern \in BoundedSeq(Alphabet, MaxPattern) \ {<<>>}
  /\ edit = NoEdit

\* refused when the text is not found, or replaced twice against the wish; the
\* text is then looked for again, so that an earlier copy of it is edited
Edited(t, m, mode, all) ==
  LET old == Text(t, m)
      first == Find(old, t)
  IN IF m = Nowhere \/ (mode = "replace" /\ ~all /\ Count(old, t) > 1)
     THEN Nowhere
     ELSE [from |-> first + 1, to |-> first + Len(old)]

Apply(mode, all) ==
  /\ edit = NoEdit
  /\ edit' = [mode |-> mode, all |-> all,
              host |-> Edited(content, HostMatch(content, pattern), mode, all),
              server |-> Edited(content, ServerMatch(content, pattern), mode, all)]
  /\ UNCHANGED <<content, pattern>>

EditNext == \E mode \in Modes, all \in BOOLEAN : Apply(mode, all)

EditSpec == EditInit /\ [][EditNext]_editVars

EditTypeOK ==
  /\ edit.mode \in Modes \cup {"none"}
  /\ \A side \in {"host", "server"} :
       edit[side] # Nowhere => /\ edit[side].from \in 1 .. Len(content) + 1
                               /\ edit[side].to \in 0 .. Len(content)

---------------------------------------------------------------------------
Made == edit.mode # "none"

\* some pass takes the text that was edited for the pattern
Like(t, p) == t = p \/ \E n \in DOMAIN Passes : Loose(t, Passes[n]) = Loose(p, Passes[n])

\* the pattern is found as whole lines: from the start of a line to the end of one
WholeLines ==
  LET n == PassOf(content, pattern)
      t == Loose(content, Passes[n])
      p == Loose(pattern, Passes[n])
      k == Find(p, t)
  IN /\ Find(pattern, content) = -1 /\ n # 0
     /\ k = 0 \/ t[k] = Break
     /\ k + Len(p) = Len(t) \/ t[k + Len(p) + 1] = Break

\* the two implementations edit the same place, and what is there is the pattern
\* up to blanks and look-alikes
Agree ==
  /\ edit.host = edit.server
  /\ edit.host # Nowhere => Like(Text(content, edit.host), pattern)

\* a normalization that lets a character vanish moves the columns behind it
Moves == PassOf(content, pattern) = 3 /\ Nothing \in Range(content)

\* "Used by both local_tools.py and the embedded sandbox server": a pattern that
\* is found as whole lines is edited at the same place by the two
\* implementations, and what is edited there is the pattern up to blanks and
\* look-alikes, whichever line of the file matches first, unless the place was
\* found in a text from which characters have vanished.
WholeLinesAgree == Made /\ WholeLines /\ ~Moves => Agree

(* Promises of comments that the code does not keep (README, section 3).    *)

\* fuzzy_find "The index always refers to the *original* content string": so also
\* when characters have vanished.
IndexIsOriginal == Made /\ WholeLines => Agree

\* fuzzy_find_original_match "extracts the exact substring from the original
\* content that corresponds to the fuzzy match": what the host edits is the
\* pattern, up to blanks and look-alikes.
EditsThePattern ==
  Made /\ edit.host # Nowhere => Like(Text(content, edit.host), pattern)

\* "The edit will FAIL if old_str is not unique in the file".
EditsAreUnique ==
  Made /\ edit.host # Nowhere /\ ~edit.all =>
    Cardinality({k \in 0 .. Len(content) - Len(pattern) :
                   Occurs(pattern, content, k)}) <= 1
=============================================================================
