---------------------------- MODULE ScanContract ----------------------------
(***************************************************************************)
(* What a `*_read` scan promises the query, whatever is suspended, lost or *)
(* resumed on the way (cursor.rs:1-8, table/common.rs:64-74): the batches  *)
(* of the entries the argument stands for, each at most once and in sorted *)
(* order, and not the end of the scan before every entry that is due.      *)
(***************************************************************************)
EXTENDS Naturals, Sequences

CONSTANTS Files, Texts, MessageLike, TextsWithRows

VARIABLES
  arg,      \* the argument: what it may stand for (arg.match)
  fs,       \* the state of each file on the host
  stable,   \* the files that have not changed since the query was bound
  out,      \* the batches returned so far, named by their entries
  finished  \* the query was told that there are no more

vars == <<arg, fs, stable, out, finished>>

Returned(e) == \E i \in DOMAIN out : out[i] = e

\* The entries the query is owed: a text that has rows; a file that has rows
\* and has had nothing happen to it.  A name that is taken for a text is owed
\* as a text, if the argument names it or a glob finds it.
Due == {e \in arg.match :
          IF e \in Texts \cup MessageLike
          THEN /\ e \in TextsWithRows
               /\ arg.glob => e \in stable /\ fs[e] # "missing"
          ELSE e \in stable /\ fs[e] = "rows"}

Init == stable = Files /\ out = <<>> /\ finished = FALSE

ReturnBatch(e) ==
  /\ ~finished
  /\ \A i \in DOMAIN out : out[i] < e
  /\ out' = Append(out, e)
  /\ UNCHANGED <<arg, fs, stable, finished>>

Finish ==
  /\ ~finished
  /\ \A e \in Due : Returned(e)
  /\ finished' = TRUE
  /\ UNCHANGED <<arg, fs, stable, out>>

ChangeFile(f) ==
  /\ ~finished
  /\ stable' = stable \ {f}
  /\ fs' = [fs EXCEPT ![f] = fs'[f]]
  /\ UNCHANGED <<arg, out, finished>>

Next == (\E e \in arg.match : ReturnBatch(e)) \/ Finish
          \/ (\E f \in Files : ChangeFile(f))

Spec == Init /\ [][Next]_vars
=============================================================================
