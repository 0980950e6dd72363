--------------------------- MODULE Mt940Statements ---------------------------
(***************************************************************************)
(* A file of MT940 statements (mt/mt940.rs): mt940_read makes a row of     *)
(* each statement, with the statement's own text as `raw`, and mt940_lines *)
(* makes a row of each :61: line of a text.  The file is written line by   *)
(* line, so that the properties hold of every text within the bounds, the  *)
(* cut-off ones included.                                                  *)
(***************************************************************************)
EXTENDS MtText

CONSTANT
  Families \* the files that occur: the kinds of lines that stand together in
           \* one, and the bound on its length

ASSUME Mt940Assumption == \A f \in Families : f.lines \in Nat

VARIABLE text \* the file's content

\* parse_lines_from: a :61: makes a line, a :86: is the narrative of the last
\* one, and replaces the one it had.
TakeEntry(lines, f) ==
  IF TagOf(f) = "61" THEN Append(lines, [entry |-> f, narrative |-> <<>>])
  ELSE IF TagOf(f) = "86" /\ lines # <<>> THEN [lines EXCEPT ![Len(lines)].narrative = f]
  ELSE lines

ParseLinesFrom(fields) ==
  LET lines[k \in 0 .. Len(fields)] ==
        IF k = 0 THEN <<>> ELSE TakeEntry(lines[k - 1], fields[k])
  IN lines[Len(fields)]

\* Bug: the folded lines of a field are not written.
SerializeHeads(fields) == [f \in DOMAIN fields |-> Head(fields[f])]

\* serialize_fields writes a field as the lines it was read from.
SerializeFields(fields) ==
  LET lines[k \in 0 .. Len(fields)] ==
        IF k = 0 THEN <<>> ELSE lines[k - 1] \o fields[k]
  IN lines[Len(fields)]

Orelse(a, b) == IF a # <<>> THEN a ELSE b

StatementFromFields(fields) ==
  LET lines == ParseLinesFrom(fields)
  IN [ref      |-> First(fields, "20"),
      opening  |-> Orelse(First(fields, "60F"), First(fields, "60M")),
      closing  |-> Orelse(First(fields, "62F"), First(fields, "62M")),
      count    |-> Len(lines),
      raw      |-> SerializeFields(fields),
      lines    |-> lines]

\* parse_file: statement_idx is the position in the result.
ParseFile(t) ==
  LET groups == Groups(t) IN [g \in DOMAIN groups |-> StatementFromFields(groups[g])]

\* parse_lines, what mt940_lines does to one message: its first block 4 only,
\* or all of it when there is none.
ParseLines(t) ==
  ParseLinesFrom(ParseBody(IF Block(t) = <<>> THEN t ELSE Block(t)[1]))
-----------------------------------------------------------------------------
Init == text = <<>>

Fits(t) == {f \in Families : /\ \A i \in DOMAIN t : t[i].kind \in f.kinds
                              /\ Len(t) <= f.lines}

Write(kind) ==
  LET longer == Append(text, [kind |-> kind, id |-> Len(text) + 1])
  IN Fits(longer) # {} /\ text' = longer

Next == \E f \in Families : \E kind \in f.kinds : Write(kind)

Spec == Init /\ [][Next]_text
-----------------------------------------------------------------------------
Statements == ParseFile(text)

\* No text block opens inside a block.
Flat(t) == \A i, j \in DOMAIN t :
             t[i].kind \in Openers /\ t[j].kind = "{4:" /\ i < j =>
               \E k \in Balanced(t, i) : k < j

Lines(t, kind) == {i \in DOMAIN t : t[i].kind = kind}

(***************************************************************************)
(* mt940_lines((SELECT raw FROM mt940_read(...))) returns the lines that   *)
(* mt940_read counted in line_count, with the narratives it saw, whatever  *)
(* else the file holds: the text of a statement survives being read,       *)
(* written out and read again.                                             *)
(***************************************************************************)
RawRoundTrips ==
  \A st \in Range(Statements) :
       ~(\E i \in DOMAIN st.raw : st.raw[i].kind = "{4:") =>
         /\ ParseLines(st.raw) = st.lines
         /\ Len(ParseLines(st.raw)) = st.count
         /\ ParseFile(st.raw) = <<st>>

(***************************************************************************)
(* No entry of a statement is returned twice, or under another statement:  *)
(* the :61: lines of a file whose blocks do not nest appear at most once   *)
(* in the statements, in the file's order, each after its statement's own  *)
(* :20: and before the next one.                                           *)
(***************************************************************************)
EntriesInPlace ==
  Flat(text) =>
    LET statements == Statements
        id(s, l) == statements[s].lines[l].entry[1].id
    IN \A s \in DOMAIN statements : \A l \in DOMAIN statements[s].lines :
         /\ \A s2 \in DOMAIN statements : \A l2 \in DOMAIN statements[s2].lines :
              s < s2 \/ (s = s2 /\ l < l2) => id(s, l) < id(s2, l2)
         /\ LET ref == statements[s].ref
            IN ref # <<>> =>
                 /\ ref[1].id < id(s, l)
                 /\ ~ \E k \in Lines(text, "20") : ref[1].id < k /\ k < id(s, l)

(***************************************************************************)
(* A line is never given the narrative of another statement, nor one that  *)
(* stands before it or after the next line.                                *)
(***************************************************************************)
NarrativeOfItsLine ==
  \A st \in Range(Statements) : \A line \in Range(st.lines) :
       line.narrative # <<>> =>
         /\ line.entry[1].id < line.narrative[1].id
         /\ ~ \E k \in Lines(text, "20") \cup Lines(text, "61") :
                line.entry[1].id < k /\ k < line.narrative[1].id

(***************************************************************************)
(* In a bare tag stream nothing is lost: every :61: is in some statement.  *)
(***************************************************************************)
BareStreamComplete ==
  Lines(text, "{4:") = {} =>
    Lines(text, "61") \subseteq
      UNION {{line.entry[1].id : line \in Range(st.lines)} : st \in Range(Statements)}

(***************************************************************************)
(* mt940.rs:41 says a line is "joined to its following :86: narrative".    *)
(* A :86: further down, such as the one that closes a statement after      *)
(* :62F:, replaces it.                                                     *)
(***************************************************************************)
JoinedToFollowing86 ==
  \A st \in Range(Statements) : \A line \in Range(st.lines) :
       line.narrative # <<>> =>
         ~ \E k \in DOMAIN text : /\ IsTag(text[k])
                                  /\ line.entry[1].id < k
                                  /\ k < line.narrative[1].id
=============================================================================
