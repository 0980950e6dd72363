-------------------------------- MODULE Cols --------------------------------
(***************************************************************************)
(* What the tables of the worker have in common: column builders (cols.rs) *)
(* and the lookups that the parsers make.                                  *)
(*                                                                         *)
(* A message is the set of places in it that hold something: a field of an *)
(* MT message, or a part of one, an element of an MX message, named by its *)
(* path, or an attribute.  The value of a cell is the place that it was    *)
(* read from.  A letter "a" in a tag stands for any option letter.         *)
(***************************************************************************)
EXTENDS Sequences

CONSTANT None \* a cell that is NULL

\* The Arrow type of what each builder of cols.rs makes.
TypeOf == [str_col |-> "Utf8", date_col |-> "Date32", dec_col |-> "Decimal128",
           ts_col |-> "Timestamp", int_col |-> "Int32", bool_col |-> "Boolean",
           list_str_col |-> "List", map_str_col |-> "Map"]

\* A run of columns made by the same builder, one per field of the row.
Built(builder, fields) ==
  [i \in DOMAIN fields |-> [builder |-> builder, field |-> fields[i]]]
str_col(fields) == Built("str_col", fields)
date_col(fields) == Built("date_col", fields)
dec_col(fields)  == Built("dec_col", fields)
ts_col(fields)   == Built("ts_col", fields)
int_col(fields)  == Built("int_col", fields)
bool_col(fields) == Built("bool_col", fields)
list_str_col(fields) == Built("list_str_col", fields)
map_str_col(fields)  == Built("map_str_col", fields)

\* The value at a place of message m; the first of two that is there.
At(m, place) == IF place \in m THEN place ELSE None
OrElse(value, other) == IF value # None THEN value ELSE other
YesNo(condition) == IF condition THEN "yes" ELSE "no"

\* What the worker or the parser supplies, whatever the message.
Given == {"raw", "path", "ordinal", "line_count", "Ntry_count", "yes", "no"}
=============================================================================
