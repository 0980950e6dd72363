------------------------------ MODULE Exploder ------------------------------
(***************************************************************************)
(* The `*_lines` and `*_entries` functions (table_in_out/common.rs,        *)
(* PerMessageTable::process).  The engine hands over a batch of rows; the  *)
(* cell of a row in the message column is a message, the name of a file    *)
(* that holds one, or NULL.  All cells are read, then `build` concatenates *)
(* the children of all messages and counts them, then the parents' columns *)
(* are repeated to match: parent and child meet in an output row only      *)
(* because the two lists were built in step.                               *)
(*                                                                         *)
(* What `build` makes of a message is Children, the number of lines or     *)
(* entries it holds; a child is named by its row's number in the batch and *)
(* its own among the row's children.                                       *)
(***************************************************************************)
EXTENDS Naturals, Sequences

CONSTANTS
  Messages, \* contents a cell or a file may have
  Children, \* how many children each of them has
  Empty,    \* the empty message
  Files,    \* names of files
  MaxRows,  \* bound on the rows of a batch
  Null      \* SQL's NULL; also a cell of a type that cannot be read

ASSUME ExploderAssumption ==
  /\ Children \in [Messages -> Nat]
  /\ Empty \in Messages /\ Children[Empty] = 0
  /\ Files \cap Messages = {}
  /\ Null \notin Messages \cup Files
  /\ MaxRows \in Nat

Cells    == Messages \cup Files \cup {Null}
Batches  == UNION {[1 .. n -> Cells] : n \in 0 .. MaxRows}
Missing  == Null \* what a file holds that cannot be read

VARIABLES
  fs,       \* the content of each file, or Missing
  batch,    \* the batch of the current call
  pc,       \* where the call is: idle, read, build, take, or failed
  messages, \* the messages read so far; `of` is history, the row of each
  counts,   \* the children of each message built so far
  all,      \* those children, concatenated
  takeIdx,  \* for each output row its parent's row
  row,      \* the turns that the loop of this stage has made
  out,      \* the result of the last call that returned one
  start     \* history: where in `all` the children of each message start

locals == <<messages, counts, all, takeIdx, row, start>>
vars   == <<fs, batch, pc, locals, out>>

Message == [of : Nat, text : Messages]
Child   == [of : Nat, idx : Nat]
-----------------------------------------------------------------------------
\* message_bytes_cell and `.ok().flatten()`: text is its own bytes, a path
\* those of its file; Null for NULL and for whatever cannot be read.
MessageBytes(cell) == IF cell \in Files THEN fs[cell] ELSE cell

\* process takes whatever cannot be read for the empty message.
Resolve(cell) == IF MessageBytes(cell) = Null THEN Empty ELSE MessageBytes(cell)

\* The lines or entries parsed from a message that was read.
ChildrenOf(m) == [c \in 1 .. Children[m.text] |-> [of |-> m.of, idx |-> c]]

Repeat(p, n) == [i \in 1 .. n |-> p]

Init ==
  /\ fs \in [Files -> Messages \cup {Missing}]
  /\ batch = <<>> /\ pc = "idle" /\ out = <<>>
  /\ messages = <<>> /\ counts = <<>> /\ all = <<>>
  /\ takeIdx = <<>> /\ row = 0 /\ start = <<>>

\* The engine calls process with the next batch of its input relation.
Call ==
  /\ pc = "idle"
  /\ \E b \in Batches : batch' = b
  /\ pc' = "read" /\ out' = <<>>
  /\ messages' = <<>> /\ counts' = <<>> /\ all' = <<>>
  /\ takeIdx' = <<>> /\ row' = 0 /\ start' = <<>>
  /\ UNCHANGED fs

\* Bug: a cell that cannot be read is left out instead of read as empty.
ReadCellSkipping ==
  /\ pc = "read"
  /\ IF row < Len(batch)
     THEN LET text == Resolve(batch[row + 1])
          IN /\ row' = row + 1 /\ UNCHANGED pc
             /\ messages' = IF text = Empty THEN messages
                            ELSE Append(messages, [of |-> row', text |-> text])
     ELSE row' = 0 /\ pc' = "build" /\ UNCHANGED messages
  /\ UNCHANGED <<fs, batch, counts, all, takeIdx, start, out>>

\* The loop that reads one message per row; files may change between rows.
ReadCell ==
  /\ pc = "read"
  /\ IF row < Len(batch)
     THEN /\ row' = row + 1 /\ UNCHANGED pc
          /\ messages' = Append(messages,
                                [of |-> row', text |-> Resolve(batch[row'])])
     ELSE row' = 0 /\ pc' = "build" /\ UNCHANGED messages
  /\ UNCHANGED <<fs, batch, counts, all, takeIdx, start, out>>

\* Bug: the children of a message replace those of the one before.
BuildMessageReplacing ==
  /\ pc = "build"
  /\ IF row < Len(messages)
     THEN LET l == ChildrenOf(messages[row + 1])
          IN /\ counts' = Append([p \in DOMAIN counts |-> 0], Len(l))
             /\ start' = Append(start, 0)
             /\ all' = l
             /\ row' = row + 1 /\ UNCHANGED pc
     ELSE row' = 0 /\ pc' = "take" /\ UNCHANGED <<counts, start, all>>
  /\ UNCHANGED <<fs, batch, messages, takeIdx, out>>

\* One turn of the loop in `build` (lines.rs, entries.rs).
BuildMessage ==
  /\ pc = "build"
  /\ IF row < Len(messages)
     THEN LET l == ChildrenOf(messages[row + 1])
          IN /\ counts' = Append(counts, Len(l))
             /\ start' = Append(start, Len(all))
             /\ all' = all \o l
             /\ row' = row + 1 /\ UNCHANGED pc
     ELSE row' = 0 /\ pc' = "take" /\ UNCHANGED <<counts, start, all>>
  /\ UNCHANGED <<fs, batch, messages, takeIdx, out>>

\* Bug: a parent is repeated at least once, as an outer join would.
TakeRowOuter ==
  /\ pc = "take" /\ row < Len(counts)
  /\ row' = row + 1
  /\ takeIdx' = takeIdx \o Repeat(row', IF counts[row'] = 0 THEN 1 ELSE counts[row'])
  /\ UNCHANGED <<fs, batch, pc, messages, counts, all, start, out>>

\* A row's number is repeated once per child it produced.
TakeRow ==
  /\ pc = "take" /\ row < Len(counts)
  /\ row' = row + 1
  /\ takeIdx' = takeIdx \o Repeat(row', counts[row'])
  /\ UNCHANGED <<fs, batch, pc, messages, counts, all, start, out>>

\* The passthrough columns are gathered and put beside the children's;
\* RecordBatch::try_new refuses columns of different lengths.
Emit ==
  /\ pc = "take" /\ row = Len(counts)
  /\ IF Len(takeIdx) = Len(all)
     THEN /\ out' = [j \in DOMAIN all |-> [row |-> takeIdx[j], child |-> all[j]]]
          /\ pc' = "idle"
     ELSE pc' = "failed" /\ UNCHANGED out
  /\ UNCHANGED <<fs, batch, locals>>

\* A file is written, removed or protected on the host.
ChangeFile(f) ==
  /\ \E c \in (Messages \cup {Missing}) \ {fs[f]} : fs' = [fs EXCEPT ![f] = c]
  /\ UNCHANGED <<batch, pc, locals, out>>

Next == \/ Call \/ ReadCell \/ BuildMessage \/ TakeRow \/ Emit
        \/ \E f \in Files : ChangeFile(f)

Spec == Init /\ [][Next]_vars
-----------------------------------------------------------------------------
OutRow == [row : Nat, child : Child]

TypeOK ==
  /\ fs \in [Files -> Messages \cup {Missing}]
  /\ batch \in Seq(Cells) /\ Len(batch) <= MaxRows
  /\ pc \in {"idle", "read", "build", "take", "failed"}
  /\ messages \in Seq(Message)
  /\ counts \in Seq(Nat)
  /\ all \in Seq(Child)
  /\ takeIdx \in Seq(Nat)
  /\ row \in Nat /\ row <= Len(batch)
  /\ start \in Seq(Nat)
  /\ out \in Seq(OutRow)

Returned == pc = "idle"

(***************************************************************************)
(* "it never fails the query" (table_in_out/common.rs:18): whatever the    *)
(* cells hold, the repeated parents and the children are as many.          *)
(***************************************************************************)
NeverFails == pc # "failed"

(***************************************************************************)
(* "results correlate straight back to the parent" (common.rs:7): a child  *)
(* in the result stands beside the row whose message it was parsed from.   *)
(***************************************************************************)
UnderItsParent == Returned => \A j \in DOMAIN out : out[j].row = out[j].child.of

(***************************************************************************)
(* Every child of every row is in the result, and only once; so a row      *)
(* whose message is NULL or cannot be read has none, and takes nothing     *)
(* from the others.                                                        *)
(***************************************************************************)
EachChildOnce ==
  Returned =>
    /\ \A p \in DOMAIN batch : \A c \in 1 .. Children[messages[p].text] :
         \E j \in DOMAIN out : out[j].child = [of |-> p, idx |-> c]
    /\ \A i, j \in DOMAIN out : out[i].child = out[j].child => i = j
    /\ \A j \in DOMAIN out :
         /\ out[j].row \in DOMAIN batch
         /\ batch[out[j].row] # Null
=============================================================================
