--------------------------- MODULE ScalarFunctions ---------------------------
(***************************************************************************)
(* The scalar functions of the worker (scalar/): mt_type, mt103_field,     *)
(* mt103_amount and validate.  Each is a loop over the rows of a batch     *)
(* that reads the row's message, as an exploder does, and appends what it  *)
(* finds to one or more column builders; the engine puts the finished      *)
(* column beside its rows by position alone.                               *)
(*                                                                         *)
(* A message is known here by what the functions read of it: its type, the *)
(* tags of its block 4, its settled amount and the errors that validation  *)
(* finds (those are modelled by Validation, FieldValues and StatementLine).*)
(* A tag is a number and an option letter, "" for none.                    *)
(***************************************************************************)
EXTENDS Exploder, Selection

CONSTANTS
  Label,   \* the MT type of each message, Null for one that is not MT
  Amount,  \* its :32A: amount as a DECIMAL(38,9), or Null
  Tags,    \* the tags of its fields, in order
  Errors,  \* how many errors validation finds in it
  Asked,   \* tags that a query asks for
  MaxArgs, \* bound on the rows of a call
  NoText   \* a cell of a tag column that is not a string

ASSUME ScalarAssumption ==
  /\ Errors \in [Messages -> Nat]
  /\ DOMAIN Tags = Messages
  /\ \A m \in Messages : /\ Tags[m] \in Seq([number : STRING, option : STRING])
                         /\ \A i \in DOMAIN Tags[m] : <<i>> # Null
  /\ MaxArgs \in Nat
  /\ Null \notin Asked /\ NoText \notin Asked \cup {Null}

Functions == {"mt_type", "mt103_field", "mt103_amount", "validate"}

VARIABLES
  function, \* the function of the current call
  args,     \* its rows, each a message cell and a tag cell
  step,     \* rest, loop, returned or failed
  texts,    \* history: what was read for each row so far, Null for nothing
  values,   \* the builder of the column, or of `ok` for validate
  items,    \* validate's list builder: the errors of all rows
  ends      \*   and where in `items` the list of each row ends

scalarVars == <<function, args, step, texts, values, items, ends>>

\* The tag is a column of the query's: all strings, or of another type.
TagCells(f) ==
  IF f = "mt103_field" THEN {Asked \cup {Null}, {NoText, Null}} ELSE {{Null}}

Arguments(f) ==
  UNION {[1 .. n -> [cell : Cells, tag : tags]] :
           n \in 0 .. MaxArgs, tags \in TagCells(f)}
-----------------------------------------------------------------------------
\* The positions of the fields that have this tag in full, and of those that
\* a tag without a letter stands for.
ExactFields(text, tag)   == {i \in DOMAIN Tags[text] : Tags[text][i] = tag}
VariantFields(text, tag) == {i \in DOMAIN Tags[text] : /\ Tags[text][i].number = tag.number
                                                       /\ tag.option = ""}

\* The fields of a message at these positions, each named by its own.
FieldsAt(text, I) == Keep([i \in DOMAIN Tags[text] |-> i], I)

\* Bug: of a repeated field only the first is returned.
RawTagFirst(text, tag) ==
  LET exact   == FieldsAt(text, ExactFields(text, tag))
      variant == FieldsAt(text, VariantFields(text, tag))
      found   == IF exact # <<>> THEN exact ELSE variant
  IN IF found = <<>> THEN Null ELSE <<Head(found)>>

(***************************************************************************)
(* field::raw_tag: the values of every field with the tag, joined; if      *)
(* there is none and the tag has no letter, the first variant's.  (A value *)
(* is named by the positions of the fields it is joined from.)             *)
(***************************************************************************)
RawTag(text, tag) ==
  LET exact   == FieldsAt(text, ExactFields(text, tag))
      variant == FieldsAt(text, VariantFields(text, tag))
  IN IF exact # <<>> THEN exact
     ELSE IF variant # <<>> THEN <<Head(variant)>> ELSE Null

\* What the loop of a function appends for a message that was read.
ValueOf(text, tag) ==
  IF function = "mt_type" THEN Label[text]
  ELSE IF function = "mt103_amount" THEN Amount[text]
  ELSE IF function = "mt103_field" THEN (IF tag = Null THEN Null ELSE RawTag(text, tag))
  ELSE Errors[text] = 0

ErrorsOf(text) == [k \in 1 .. Errors[text] |-> <<text, k>>]
Struct000 == <<Null, 0>> \* "NULL or unreadable message"

CallScalar ==
  /\ step # "loop"
  /\ \E f \in Functions : function' = f /\ args' \in Arguments(f)
  /\ step' = "loop" /\ texts' = <<>>
  /\ values' = <<>> /\ items' = <<>> /\ ends' = <<>>

\* Bug: a message that cannot be read makes no row.
AppendValueIfRead ==
  LET arg  == args[Len(texts) + 1]
      text == MessageBytes(arg.cell)
  IN /\ step = "loop" /\ Len(texts) < Len(args) /\ function # "validate"
     /\ texts' = Append(texts, text)
     /\ IF function = "mt103_field" /\ arg.tag = NoText
        THEN step' = "failed" /\ UNCHANGED values
        ELSE /\ values' = IF text = Null THEN values
                          ELSE Append(values, ValueOf(text, arg.tag))
             /\ UNCHANGED step
     /\ UNCHANGED <<function, args, items, ends>>

\* Bug: a message that cannot be read fails the call.
AppendValueOrFail ==
  LET arg  == args[Len(texts) + 1]
      text == MessageBytes(arg.cell)
  IN /\ step = "loop" /\ Len(texts) < Len(args) /\ function # "validate"
     /\ texts' = Append(texts, text)
     /\ IF arg.tag = NoText \/ (text = Null /\ arg.cell # Null)
        THEN step' = "failed" /\ UNCHANGED values
        ELSE /\ values' = Append(values, IF text = Null THEN Null
                                         ELSE ValueOf(text, arg.tag))
             /\ UNCHANGED step
     /\ UNCHANGED <<function, args, items, ends>>

(***************************************************************************)
(* One turn of the loops of mt_type, mt103_field and mt103_amount.  A      *)
(* message that cannot be read gives NULL; a tag that is not a string ends *)
(* the call with an error, after the message was read.                     *)
(***************************************************************************)
AppendValue ==
  LET arg  == args[Len(texts) + 1]
      text == MessageBytes(arg.cell)
  IN /\ step = "loop" /\ Len(texts) < Len(args) /\ function # "validate"
     /\ texts' = Append(texts, text)
     /\ IF arg.tag = NoText
        THEN step' = "failed" /\ UNCHANGED values
        ELSE /\ values' = Append(values, IF text = Null THEN Null
                                         ELSE ValueOf(text, arg.tag))
             /\ UNCHANGED step
     /\ UNCHANGED <<function, args, items, ends>>

\* Bug: a row's list is closed before its errors are appended.
AppendVerdictClosed ==
  LET text == MessageBytes(args[Len(texts) + 1].cell)
  IN /\ step = "loop" /\ Len(texts) < Len(args) /\ function = "validate"
     /\ texts' = Append(texts, text)
     /\ values' = Append(values, IF text = Null THEN FALSE ELSE ValueOf(text, Null))
     /\ items' = items \o IF text = Null THEN <<Struct000>> ELSE ErrorsOf(text)
     /\ ends' = Append(ends, Len(items))
     /\ UNCHANGED <<function, args, step>>

\* One turn of validate's loop, which feeds two builders.
AppendVerdict ==
  LET text == MessageBytes(args[Len(texts) + 1].cell)
  IN /\ step = "loop" /\ Len(texts) < Len(args) /\ function = "validate"
     /\ texts' = Append(texts, text)
     /\ values' = Append(values, IF text = Null THEN FALSE ELSE ValueOf(text, Null))
     /\ items' = items \o IF text = Null THEN <<Struct000>> ELSE ErrorsOf(text)
     /\ ends' = Append(ends, Len(items'))
     /\ UNCHANGED <<function, args, step>>

\* The columns are finished; a STRUCT refuses columns of different lengths.
ReturnColumn ==
  /\ step = "loop" /\ Len(texts) = Len(args)
  /\ step' = IF function = "validate" /\ Len(values) # Len(ends)
             THEN "failed" ELSE "returned"
  /\ UNCHANGED <<function, args, texts, values, items, ends>>

ScalarInit ==
  /\ Init
  /\ function = "mt_type" /\ args = <<>> /\ step = "rest" /\ texts = <<>>
  /\ values = <<>> /\ items = <<>> /\ ends = <<>>

ScalarNext ==
  \/ (CallScalar \/ AppendValue \/ AppendVerdict \/ ReturnColumn) /\ UNCHANGED vars
  \/ (\E f \in Files : ChangeFile(f)) /\ UNCHANGED scalarVars

ScalarSpec == ScalarInit /\ [][ScalarNext]_<<vars, scalarVars>>
-----------------------------------------------------------------------------
\* validate's list for row i.
ListOf(i) == SubSeq(items, (IF i = 1 THEN 0 ELSE ends[i - 1]) + 1, ends[i])

\* The value is of every field with the tag in full; if there is none, of a
\* field that a tag without a letter stands for; NULL only if there is no such.
IsValueOfTag(value, text, tag) ==
  LET places     == DOMAIN Tags[text]
      Exact(p)   == Tags[text][p] = tag
      Variant(p) == tag.option = "" /\ Tags[text][p].number = tag.number
  IN IF \E p \in places : Exact(p)
     THEN \A p \in places : Exact(p) <=> \E k \in DOMAIN value : value[k] = p
     ELSE IF value # Null THEN Variant(value[1]) ELSE \A p \in places : ~ Variant(p)

(***************************************************************************)
(* A returned column has a value for every row, that of the message of the *)
(* row: mt103_field "reads exactly that field" for a tag in full and       *)
(* "whichever option variant is present" for its digits (scalar/mt103.rs   *)
(* 75-78), and all of a repeated field.                                    *)
(***************************************************************************)
ValuesOfTheirRows ==
  step = "returned" =>
    /\ Len(values) = Len(args)
    /\ function # "validate" =>
         \A i \in DOMAIN args :
           IF texts[i] = Null \/ (function = "mt103_field" /\ args[i].tag = Null)
           THEN values[i] = Null
           ELSE /\ function = "mt_type" => values[i] = Label[texts[i]]
                /\ function = "mt103_amount" => values[i] = Amount[texts[i]]
                /\ function = "mt103_field" =>
                     IsValueOfTag(values[i], texts[i], args[i].tag)

(***************************************************************************)
(* validate: the list beside `ok` is that of the row's own message, with   *)
(* nothing of a neighbour's, and `ok` says whether it is empty; a message  *)
(* that cannot be read is never ok.                                        *)
(***************************************************************************)
VerdictOfItsErrors ==
  step = "returned" /\ function = "validate" =>
    /\ Len(ends) = Len(args)
    /\ \A i \in DOMAIN args :
         /\ values[i] <=> ListOf(i) = <<>>
         /\ \A k \in DOMAIN ListOf(i) : ListOf(i)[k][1] = texts[i]
         /\ texts[i] = Null => ~ values[i]

(***************************************************************************)
(* What a message holds never fails a call, nor does a file that is        *)
(* missing, or changes while the call runs; a tag that is no string does.  *)
(***************************************************************************)
FailsOnTagsOnly ==
  step = "failed" =>
    function = "mt103_field" /\ \E i \in DOMAIN args : args[i].tag = NoText
=============================================================================
