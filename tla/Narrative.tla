------------------------------ MODULE Narrative ------------------------------
(***************************************************************************)
(* apply_86 (mt940.rs): the narrative of a line is sanitized to the SWIFT  *)
(* X character set (charset.rs) and, when it begins with a marker, split   *)
(* at every marker into pairs of a two-digit code and a text.  A narrative *)
(* is a sequence of pieces: "?" and ">", the characters of the markers,    *)
(* the codes, which are two digits, words, and "_", a character that SWIFT *)
(* does not allow.                                                         *)
(***************************************************************************)
EXTENDS Naturals, Sequences, SequencesExt, Selection

CONSTANTS
  Codes, \* the two-digit codes that occur
  Words  \* the words that occur

ASSUME NarrativeAssumption == {"?", ">", "_", "."} \cap (Codes \cup Words) = {}

Pieces == {"?", ">", "_"} \cup Codes \cup Words
-----------------------------------------------------------------------------
IsXChar(piece) == piece \notin {">", "_"}

\* Bug: what is not allowed is dropped.
SanitizeDropping(text) == SelectSeq(text, IsXChar)

\* sanitize_x: what is not allowed becomes a dot.
Sanitize(text) == [i \in DOMAIN text |-> IF IsXChar(text[i]) THEN text[i] ELSE "."]

\* str::split: the parts of a text between the occurrences of a marker.
TakePiece(parts, p, marker) ==
  IF p = marker THEN Append(parts, <<>>)
  ELSE [parts EXCEPT ![Len(parts)] = Append(@, p)]

Split(text, marker) ==
  LET parts[k \in 0 .. Len(text)] ==
        IF k = 0 THEN << <<>> >> ELSE TakePiece(parts[k - 1], text[k], marker)
  IN parts[Len(text)]

\* Bug: only the parts that have a text make a pair.
StructuredNonEmpty(text) ==
  IF text = <<>> \/ Head(text) \notin {"?", ">"} THEN <<>>
  ELSE LET segs == Split(text, Head(text))
           made == Keep(segs, {i \in DOMAIN segs : Len(segs[i]) > 1 /\ Head(segs[i]) \in Codes})
       IN [i \in DOMAIN made |-> [code |-> Head(made[i]), text |-> Tail(made[i])]]

\* parse_structured_narrative: the parts that begin with a code make a pair.
Structured(text) ==
  IF text = <<>> \/ Head(text) \notin {"?", ">"} THEN <<>>
  ELSE LET segs == Split(text, Head(text))
           made == Keep(segs, {i \in DOMAIN segs : segs[i] # <<>> /\ Head(segs[i]) \in Codes})
       IN [i \in DOMAIN made |-> [code |-> Head(made[i]), text |-> Tail(made[i])]]

\* apply_86.
Apply86(text) ==
  [narrative |-> Sanitize(text), struct |-> Structured(Sanitize(text))]

-----------------------------------------------------------------------------
\* Where in a narrative a marker is followed by a code, as a set and in order.
Marked(text, marker) ==
  {i \in 1 .. Len(text) - 1 : text[i] = marker /\ text[i + 1] \in Codes}

Markers(text, marker) == Keep([i \in DOMAIN text |-> i], Marked(text, marker))

\* What stands between a marker's code and the next marker character.
TextAfter(text, marker, i) ==
  LET ends == {j \in i + 1 .. Len(text) : text[j] = marker}
  IN SubSeq(text, i + 2, IF ends = {} THEN Len(text) ELSE Min(ends) - 1)

\* The pairs are those of the markers of a narrative.
MarkersMake(text, marker, pairs) ==
  /\ Len(pairs) = Len(Markers(text, marker))
  /\ \A p \in DOMAIN pairs :
       LET at == Markers(text, marker)[p]
       IN /\ pairs[p].code = text[at + 1]
          /\ pairs[p].text = Sanitize(TextAfter(text, marker, at))
=============================================================================
