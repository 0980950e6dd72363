------------------------------- MODULE MtText -------------------------------
(***************************************************************************)
(* SWIFT MT text as the readers see it: block extraction by brace matching *)
(* (sniff.rs, block), the loop over a file's text blocks (mt940.rs,        *)
(* block4_bodies) and the field stream of a block (mt/block.rs).           *)
(*                                                                         *)
(* A text is a sequence of lines [kind, id].  The kind of a line with a    *)
(* tag is its tag; "{4:" and "{" open a block, "}" closes one, "-" is the  *)
(* trailer, "prose" any other line.  A brace stands on a line of its own,  *)
(* and blank lines, which parse_body drops, are left out.  The id tells    *)
(* lines of the same kind apart and stands for what the line says.  Prose  *)
(* is no number: an amount with a line folded into it is malformed.        *)
(***************************************************************************)
EXTENDS Integers, Sequences, SequencesExt

Openers == {"{4:", "{"}
NotTags == Openers \cup {"}", "-", "prose"}
IsTag(line) == line.kind \notin NotTags

\* How many blocks are open after line i, if line s opens one.
Depth(t, s, i) ==
  LET count(kinds) == Cardinality({k \in s .. i : t[k].kind \in kinds})
  IN count(Openers) - count({"}"})

\* The lines at which the block ends that line `start` opens: the first of them
\* does, the others only balance the braces.
Balanced(t, start) == {i \in start + 1 .. Len(t) : Depth(t, start, i) = 0}

\* str::find, from line k on.
LinesFrom(t, k, kind) == {i \in k .. Len(t) : t[i].kind = kind}

\* Bug: the block ends at the last brace that balances it.
BlockToLastBrace(t, k) ==
  LET starts == LinesFrom(t, k, "{4:")
  IN IF starts = {} \/ Balanced(t, Min(starts)) = {} THEN <<>>
     ELSE <<SubSeq(t, Min(starts) + 1, Max(Balanced(t, Min(starts))) - 1)>>

(***************************************************************************)
(* sniff::block for block 4, of the text from line k on: the lines between *)
(* the first "{4:" and the brace that matches it; nothing (an empty        *)
(* sequence) when there is no such block or it is not closed, otherwise    *)
(* the one-element sequence of its body.                                   *)
(***************************************************************************)
BlockFrom(t, k) ==
  LET starts == LinesFrom(t, k, "{4:")
  IN IF starts = {} \/ Balanced(t, Min(starts)) = {} THEN <<>>
     ELSE <<SubSeq(t, Min(starts) + 1, Min(Balanced(t, Min(starts))) - 1)>>

Block(t) == BlockFrom(t, 1)

(***************************************************************************)
(* block4_bodies: every block 4, looking for the next one after the first  *)
(* closing brace; the whole text when there is none.                       *)
(***************************************************************************)
AdvancePast(t, start) ==
  LET braces == LinesFrom(t, start, "}")
  IN IF braces = {} THEN Len(t) + 1 ELSE Min(braces) + 1

\* A turn of the loop; one that finds no block ends it, and so do all after it.
TakeBlock(t, found) ==
  IF BlockFrom(t, found.from) = <<>> THEN found
  ELSE [from   |-> AdvancePast(t, Min(LinesFrom(t, found.from, "{4:"))),
        bodies |-> found.bodies \o BlockFrom(t, found.from)]

Block4Bodies(t) ==
  LET found[turn \in 0 .. Len(t)] ==
        IF turn = 0 THEN [from |-> 1, bodies |-> <<>>] ELSE TakeBlock(t, found[turn - 1])
      bodies == found[Len(t)].bodies
  IN IF bodies = <<>> THEN <<t>> ELSE bodies

(***************************************************************************)
(* parse_body: a field is its tagged line and the lines folded into it.    *)
(* Untagged lines before the first tag are lost, and so are trailers.      *)
(***************************************************************************)
TakeLine(fields, l) ==
  IF IsTag(l) THEN Append(fields, <<l>>)
  ELSE IF l.kind = "-" \/ fields = <<>> THEN fields
  ELSE [fields EXCEPT ![Len(fields)] = Append(@, l)]

ParseBody(lines) ==
  LET fields[k \in 0 .. Len(lines)] ==
        IF k = 0 THEN <<>> ELSE TakeLine(fields[k - 1], lines[k])
  IN fields[Len(lines)]

\* The tag of a floor limit has its mark beside it as data.
FloorLimitKinds == {"34F", "34F D", "34F C"}

TagOf(field) == IF Head(field).kind \in FloorLimitKinds THEN "34F" ELSE Head(field).kind

\* Block4::first: the first field with a tag, or None as an empty sequence.
First(fields, tag) ==
  LET i == SelectInSeq(fields, LAMBDA f : TagOf(f) = tag)
  IN IF i = 0 THEN <<>> ELSE fields[i]

\* Bug: fields before the first :20: are dropped.
TakeFieldAfter20(groups, f) ==
  IF TagOf(f) = "20" THEN Append(groups, <<f>>)
  ELSE IF groups = <<>> THEN groups
  ELSE [groups EXCEPT ![Len(groups)] = Append(@, f)]

\* Bug: a second :20: does not start a statement.
TakeFieldOfOne(groups, f) ==
  IF groups = <<>> THEN <<<<f>>>> ELSE [groups EXCEPT ![Len(groups)] = Append(@, f)]

\* split_statements (mt940.rs): a :20: starts a group, and so does the first field.
TakeField(groups, f) ==
  IF TagOf(f) = "20" \/ groups = <<>> THEN Append(groups, <<f>>)
  ELSE [groups EXCEPT ![Len(groups)] = Append(@, f)]

SplitStatements(fields) ==
  LET groups[k \in 0 .. Len(fields)] ==
        IF k = 0 THEN <<>> ELSE TakeField(groups[k - 1], fields[k])
  IN groups[Len(fields)]

\* What parse_file makes statements of: the groups of each body in turn.
Groups(t) ==
  LET bodies == Block4Bodies(t)
      groups[k \in 0 .. Len(bodies)] ==
        IF k = 0 THEN <<>>
        ELSE groups[k - 1] \o SplitStatements(ParseBody(bodies[k]))
  IN groups[Len(bodies)]
=============================================================================
