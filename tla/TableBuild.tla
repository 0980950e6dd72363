----------------------------- MODULE TableBuild -----------------------------
(***************************************************************************)
(* `build` of every table and exploder: the parser makes a row of a        *)
(* message, the builders make a column of each of its fields, and `finish` *)
(* (scan.rs) puts the columns under the schema, by position.  The three    *)
(* lists are written down apart, up to thirty columns long, and only their *)
(* Arrow types are ever compared - when a file is read, with a panic if    *)
(* they differ.                                                            *)
(***************************************************************************)
EXTENDS MtColumns, MxColumns, ChildColumns

CONSTANT MessagesOf(_) \* the messages that a table is read from

Schemas == [mt103 |-> Mt103Schema, mt202 |-> Mt202Schema, mt940 |-> Mt940Schema,
            mt942 |-> Mt942Schema, pacs008 |-> Pacs008Schema, pacs002 |-> Pacs002Schema,
            pain001 |-> Pain001Schema, camt |-> CamtSchema, lines |-> LinesSchema,
            entries |-> EntriesSchema]

Builders == [mt103 |-> Mt103Columns, mt202 |-> Mt202Columns, mt940 |-> Mt940Columns,
             mt942 |-> Mt942Columns, pacs008 |-> Pacs008Columns, pacs002 |-> Pacs002Columns,
             pain001 |-> Pain001Columns, camt |-> CamtColumns, lines |-> LinesColumns,
             entries |-> EntriesColumns]

Tables == DOMAIN Schemas

RowOf(t, m) ==
  CASE t = "mt103" -> Mt103Row(m)     [] t = "mt202" -> Mt202Row(m)
    [] t = "mt940" -> Mt940Row(m)     [] t = "mt942" -> Mt942Row(m)
    [] t = "pacs008" -> Pacs008Row(m) [] t = "pacs002" -> Pacs002Row(m)
    [] t = "pain001" -> Pain001Row(m) [] t = "camt" -> CamtRow(m)
    [] t = "lines" -> LinesRow(m)     [] t = "entries" -> EntriesRow(m)

\* mt103_read and mt202_read make no row of a file without a :20:.
RowsOf(t, m) == IF t \in {"mt103", "mt202"} /\ "20" \notin m THEN <<>> ELSE <<RowOf(t, m)>>

\* The places that the schema of a table names, and what can be told of an
\* element beside what a column shows.
Named(t) == UNION {Schemas[t][c][3] : c \in DOMAIN Schemas[t]} \ Given
Told(t) == CASE t = "mt202"   -> {"50a", "59a"}
             [] t = "mt940"   -> {balance[kind] : balance \in {Opening, Closing},
                                                  kind \in {"final", "intermediate"}}
             [] t = "entries" -> {"CdtDbtInd=CRDT"}
             [] OTHER         -> {}

\* A part of a field is not there without the field.
Possible(m) ==
  /\ "72/token" \in m => "72" \in m
  /\ "CdtDbtInd=CRDT" \in m => "CdtDbtInd" \in m

ASSUME TableAssumption ==
  \A t \in Tables :
    /\ \A c \in DOMAIN Schemas[t] : None \notin Schemas[t][c][3]
    /\ \A m \in MessagesOf(t) : m \subseteq Named(t) \cup Told(t) /\ Possible(m)

VARIABLES table, message, rows, columns, doing

tableVars == <<table, message, rows, columns, doing>>

TableInit ==
  /\ table \in Tables /\ message \in MessagesOf(table)
  /\ rows = <<>> /\ columns = <<>> /\ doing = "parse"

ParseMessage ==
  /\ doing = "parse" /\ doing' = "build"
  /\ rows' = RowsOf(table, message)
  /\ UNCHANGED <<table, message, columns>>

BuildColumns ==
  /\ doing = "build" /\ doing' = "finish"
  /\ columns' = [c \in DOMAIN Builders[table] |->
       [type  |-> TypeOf[Builders[table][c].builder],
        cells |-> [r \in DOMAIN rows |-> rows[r][Builders[table][c].field]]]]
  /\ UNCHANGED <<table, message, rows>>

\* finish: RecordBatch::try_new(..).expect("column/schema layout mismatch").
Finish ==
  /\ doing = "finish"
  /\ doing' = IF /\ Len(columns) = Len(Schemas[table])
                 /\ \A c \in DOMAIN columns : columns[c].type = Schemas[table][c][2]
              THEN "done" ELSE "panic"
  /\ UNCHANGED <<table, message, rows, columns>>

\* The batch is handed over; the file may be read again.
ReadAgain ==
  /\ doing = "done" /\ doing' = "parse"
  /\ rows' = <<>> /\ columns' = <<>>
  /\ UNCHANGED <<table, message>>

TableNext == ParseMessage \/ BuildColumns \/ Finish \/ ReadAgain

TableSpec == TableInit /\ [][TableNext]_tableVars
-----------------------------------------------------------------------------
(***************************************************************************)
(* No table and no exploder can panic with "column/schema layout mismatch" *)
(* (scan.rs 115): its builders make as many columns as its schema names,   *)
(* of the types it names, whatever the message holds.                      *)
(***************************************************************************)
LayoutsMatch == doing # "panic"

\* The cell of a row under the column of that position in the schema.
Cell(c) == columns[c].cells[1]
Shown == doing = "done" /\ rows # <<>>

\* A place that gives way: to a final balance, to the other party.
GivesWay(p) ==
  \/ table = "mt940" /\ \E balance \in {Opening, Closing} :
       p \in Balance(balance.intermediate) /\ message \cap Balance(balance.final) # {}
  \/ table = "entries" /\ p \in Side(IF "CdtDbtInd=CRDT" \in message THEN "Cdtr" ELSE "Dbtr")

(***************************************************************************)
(* A column shows what its comment says and nothing else: a value that     *)
(* stands under another column of its type is in no place which that       *)
(* column's comment names.  And whatever a message holds in a place that   *)
(* some column names is shown, or a value that the column prefers is: a    *)
(* fallback is reached whenever the first choice is missing.               *)
(***************************************************************************)
ColumnsShowTheirPlaces ==
  Shown => \A c \in DOMAIN columns :
             LET places == Schemas[table][c][3]
             IN /\ Cell(c) \in places \cup {None}
                /\ \A p \in places \cap message : GivesWay(p) \/ Cell(c) # None

(***************************************************************************)
(* Columns that describe one thing are read from one element: the amount,  *)
(* mark and date of a balance from the same field, final or intermediate   *)
(* as the row says, and a counterparty's name, account and bank from the   *)
(* same side, the one that credit_debit makes the counterparty.            *)
(***************************************************************************)
CompanionsTogether ==
  LET CellOf(name) == Cell(CHOOSE c \in DOMAIN columns : Schemas[table][c][1] = name)
      CellsOf(names) == {CellOf(name) : name \in names} \ {None}
  IN /\ Shown /\ table = "mt940" =>
          /\ CellsOf({"opening_balance", "opening_balance_dc", "opening_balance_date"})
               \subseteq Balance(IF CellOf("opening_is_intermediate") = "yes"
                                 THEN "60M" ELSE "60F")
          /\ \E tag \in {"62F", "62M"} :
               CellsOf({"closing_balance", "closing_balance_dc", "closing_balance_date"})
                 \subseteq Balance(tag)
     /\ Shown /\ table = "entries" =>
          CellsOf({"counterparty_name", "counterparty_iban", "counterparty_agent_bic"})
            \subseteq Side(IF "CdtDbtInd=CRDT" \in message THEN "Dbtr" ELSE "Cdtr")
     /\ Shown /\ table = "mt202" =>
          (CellOf("is_cover") = "no" =>
             CellsOf({"cov_ordering_customer", "cov_beneficiary"}) = {})
=============================================================================
