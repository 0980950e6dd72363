---------------------------- MODULE InterimReport ----------------------------
(***************************************************************************)
(* A file of MT942 interim reports (mt/mt942.rs): mt942_read cuts it as    *)
(* mt940_read does, and adds the fields that a report has instead of       *)
(* balances: floor limits (:34F:), a date and time (:13D:) and the count   *)
(* and sum of debits and credits (:90D:, :90C:).  The amount of a field is *)
(* the field itself, None the empty sequence.                              *)
(***************************************************************************)
EXTENDS Mt940Statements

Sides == {"debit", "credit"}

\* parse_mt_amount of a field's value: nothing when a line is folded into it.
Amount(field) == IF Len(field) = 1 THEN field ELSE <<>>

\* parse_34f: the sides a limit is for by its mark, both when it has none.
LimitedBy(kind) ==
  {side \in Sides : \/ kind = "34F"
                    \/ (kind = "34F D" /\ side = "debit")
                    \/ (kind = "34F C" /\ side = "credit")}

\* parse_90: the count stands before what may be folded, the sum does not.
Summary(field) == [count |-> field, sum |-> IF field = <<>> THEN <<>> ELSE Amount(field)]

\* Bug: a limit without a mark is taken for a debit limit.
SetLimitsMarked(limits, f) ==
  [side \in Sides |->
     IF side \in LimitedBy(Head(f).kind) /\ ~(Head(f).kind = "34F" /\ side = "credit")
     THEN Amount(f) ELSE limits[side]]

\* Each limit sets the sides that it is for; other fields set none.
SetLimits(limits, f) ==
  [side \in Sides |-> IF side \in LimitedBy(Head(f).kind) THEN Amount(f) ELSE limits[side]]

\* Each limit of the report in turn, over what an earlier one set.
FloorLimits(fields) ==
  LET limits[k \in 0 .. Len(fields)] ==
        IF k = 0 THEN [side \in Sides |-> <<>>] ELSE SetLimits(limits[k - 1], fields[k])
  IN limits[Len(fields)]

\* The currency is that of the first limit, or of a summary.
ReportFromFields(fields) ==
  LET lines == ParseLinesFrom(fields)
  IN [ref      |-> First(fields, "20"),
      limits   |-> FloorLimits(fields),
      ccy      |-> Orelse(First(fields, "34F"),
                          Orelse(First(fields, "90D"), First(fields, "90C"))),
      datetime |-> First(fields, "13D"),
      debits   |-> Summary(First(fields, "90D")),
      credits  |-> Summary(First(fields, "90C")),
      count    |-> Len(lines),
      raw      |-> SerializeFields(fields),
      lines    |-> lines]

\* Bug: every report is read from the fields of the whole text.
ParseReportsOfBody(t) ==
  LET groups == Groups(t)
  IN [g \in DOMAIN groups |->
        [ReportFromFields(ParseBody(t)) EXCEPT !.raw = SerializeFields(groups[g])]]

ParseReports(t) ==
  LET groups == Groups(t) IN [g \in DOMAIN groups |-> ReportFromFields(groups[g])]

\* The rows of mt942_read, and what mt942_lines makes of a row's raw.
Reports == ParseReports(text)

ReportLines(r) == ParseLines(r.raw)
-----------------------------------------------------------------------------
(***************************************************************************)
(* The text that mt942_read returns for a report says all that its row     *)
(* says, and nothing of its neighbours: read again it is one report with   *)
(* the same limits, currency, summaries and lines.                         *)
(***************************************************************************)
ReportsRoundTrip ==
  \A r \in Range(Reports) :
    ~(\E i \in DOMAIN r.raw : r.raw[i].kind = "{4:") =>
      /\ ParseReports(r.raw) = <<r>>
      /\ ReportLines(r) = r.lines

(***************************************************************************)
(* "a mark-less one applies to both; otherwise D/C" (mt942.rs:59): a limit *)
(* of a report was given in its own text for that side; and one that is    *)
(* given once is returned, whatever the other side's limit and wherever it *)
(* stands, unless a line is folded into it.                                *)
(***************************************************************************)
LimitsOfItsReport ==
  \A r \in Range(Reports) : \A side \in Sides :
    LET raw   == r.raw
        limit == r.limits[side]
        given == {i \in DOMAIN raw : side \in LimitedBy(raw[i].kind)}
    IN /\ limit # <<>> => \E i \in given : limit = <<raw[i]>>
       /\ \A i \in given : given = {i} /\ (i = Len(raw) \/ IsTag(raw[i + 1]))
                            => limit = <<raw[i]>>
=============================================================================
