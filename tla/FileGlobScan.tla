---------------------------- MODULE FileGlobScan ----------------------------
(***************************************************************************)
(* The scan behind every `*_read` table function: the argument is resolved *)
(* to a list of entries (table/scan.rs, expand), a FileGlobCursor walks    *)
(* that list (cursor.rs), and each next_batch call consumes entries until  *)
(* one of them yields rows (GlobProducer).  The cursor is the only scan    *)
(* state; after every batch the engine gets it as an opaque resume token,  *)
(* and may drop the producer and continue later from the token on another  *)
(* one, which first resolves the argument afresh (ReadTable::producer).    *)
(* The engine and the SDK are not in the repository: OpenScan, Resume,     *)
(* CallNextBatch, Receive and LoseWorker model how the code is driven.     *)
(*                                                                         *)
(* Files stand for path names, numbered in the byte order `expand` sorts   *)
(* them by.  The rows `build` makes of a content are abstracted to whether *)
(* there are any: a batch is always all the rows of one entry, so that     *)
(* inner_row is 0 throughout (cursor.rs declares it, no code advances it). *)
(***************************************************************************)
EXTENDS Naturals, Sequences, FiniteSets

CONSTANTS
  Files,         \* path names on the worker's host
  Texts,         \* arguments that are message text, not a name
  MessageLike,   \* the names that looks_like_message takes for message text
  TextsWithRows, \* the texts, and names read as text, that build has rows for
  TokensIntact,  \* no resume token is altered between two calls
  MaxFsChanges,  \* bound on the changes made to the files during a scan
  MaxLost,       \* bound on the times the producer is lost or dropped
  None           \* Rust's Option::None

Entries == Files \cup Texts

ASSUME ScanAssumption ==
  /\ Entries \subseteq Nat /\ IsFiniteSet(Entries)
  /\ Files \cap Texts = {}
  /\ MessageLike \subseteq Files
  /\ TextsWithRows \subseteq Texts \cup MessageLike
  /\ TokensIntact \in BOOLEAN
  /\ MaxFsChanges \in Nat
  /\ MaxLost \in Nat
  /\ None \notin Entries
  /\ None \notin [paths : Seq(Entries), idx : Nat]

VARIABLES
  arg,       \* the argument: does it hold a glob, and what may it stand for
  fs,        \* the state of each file
  stable,    \* the files that have not changed since the query was bound
  changes,   \* file changes so far
  producer,  \* the live GlobProducer's cursor, or None
  phase,     \* where the current next_batch call is
  reply,     \* the batch it returns, named by its entry; None at the end
  token,     \* the resume token of the last batch received, or None
  delivered, \* the batches the engine has received, in order
  done,      \* the engine was told that the scan is over
  lost       \* producers lost or dropped so far

engine == <<token, delivered, done>>
host   == <<arg, fs, stable, changes>>
vars   == <<host, producer, phase, reply, engine, lost>>

FileState == {"missing", "unreadable", "barren", "rows"}
Args      == {a \in [glob : BOOLEAN, match : SUBSET Entries] :
                IF a.glob THEN a.match \subseteq Files
                          ELSE Cardinality(a.match) = 1}
Cursor    == [paths : Seq(Entries), idx : Nat]
-----------------------------------------------------------------------------
LooksLikeMessage(e) == e \in Texts \cup MessageLike

Ascending(s) == \A i, j \in DOMAIN s : i < j => s[i] < s[j]

\* The lists with exactly the elements of S in ascending order: one, when S
\* is finite.
Sorted(S) == {s \in [1 .. Cardinality(S) -> S] :
                /\ Ascending(s)
                /\ S = {s[i] : i \in DOMAIN s}}

\* Bug: the result of the glob is not sorted.
ExpandUnsorted ==
  LET S == {f \in arg.match : arg.glob => fs[f] # "missing"}
  IN {s \in [1 .. Cardinality(S) -> S] : S = {s[i] : i \in DOMAIN s}}

(***************************************************************************)
(* `expand`: an inline message or a literal name stands for itself whether *)
(* or not it exists; a glob for the matching names that exist now, sorted; *)
(* a malformed glob matches nothing.                                       *)
(***************************************************************************)
Expand == IF arg.glob
          THEN Sorted({f \in arg.match : fs[f] # "missing"})
          ELSE Sorted(arg.match)

NewCursor(paths) == [paths |-> paths, idx |-> 0]
IsDone(c)        == c.idx >= Len(c.paths)
Current(c)       == c.paths[c.idx + 1]
NextFile(c)      == [c EXCEPT !.idx = @ + 1]

\* Does reading entry e now, and building its batch, give any rows?
HasRows(e) == IF LooksLikeMessage(e) THEN e \in TextsWithRows
                                     ELSE fs[e] = "rows"
-----------------------------------------------------------------------------
Init ==
  /\ arg \in Args
  /\ fs \in [Files -> FileState]
  /\ stable = Files
  /\ changes = 0
  /\ producer = None
  /\ phase = "idle"
  /\ reply = None
  /\ token = None
  /\ delivered = <<>>
  /\ done = FALSE
  /\ lost = 0

\* The engine opens the scan; it has no token yet.
OpenScan ==
  /\ producer = None /\ token = None
  /\ \E paths \in Expand : producer' = NewCursor(paths)
  /\ UNCHANGED <<host, phase, reply, engine, lost>>

\* Bug: only the position is taken from the token.
RestorePosition(c, t) == IF t # None THEN [c EXCEPT !.idx = t.idx] ELSE c

(***************************************************************************)
(* The engine continues on a new producer: it is built as in OpenScan,     *)
(* then restore_resume replaces its cursor by the token's, or leaves the   *)
(* new cursor alone when the token cannot be decoded.                      *)
(***************************************************************************)
Restore(c, t) == IF t # None THEN t ELSE c

Resume ==
  /\ producer = None /\ token # None /\ ~done
  /\ \E paths \in Expand, t \in {token} \cup (IF TokensIntact THEN {} ELSE {None}) :
       producer' = Restore(NewCursor(paths), t)
  /\ UNCHANGED <<host, phase, reply, engine, lost>>

CallNextBatch ==
  /\ producer # None /\ phase = "idle" /\ ~done
  /\ phase' = "looping"
  /\ UNCHANGED <<host, producer, reply, engine, lost>>

\* Bug: an entry without rows ends the call as if it were the last.
TurnStopsAtEmpty ==
  /\ phase = "looping" /\ ~IsDone(producer)
  /\ producer' = NextFile(producer) /\ phase' = "replied"
  /\ reply' = IF HasRows(Current(producer)) THEN Current(producer) ELSE None
  /\ UNCHANGED <<host, engine, lost>>

\* Bug: the cursor moves on only after an entry that has rows.
TurnStaysAtEmpty ==
  /\ phase = "looping" /\ ~IsDone(producer)
  /\ IF HasRows(Current(producer))
     THEN /\ producer' = NextFile(producer)
          /\ reply' = Current(producer) /\ phase' = "replied"
     ELSE UNCHANGED <<producer, reply, phase>>
  /\ UNCHANGED <<host, engine, lost>>

(***************************************************************************)
(* One turn of the loop in next_batch.  The cursor moves on BEFORE the     *)
(* entry is read: an unreadable entry and one without rows are passed over *)
(* within the same call.  The files may change between two turns.          *)
(***************************************************************************)
NextBatchTurn ==
  /\ phase = "looping" /\ ~IsDone(producer)
  /\ producer' = NextFile(producer)
  /\ IF HasRows(Current(producer))
     THEN reply' = Current(producer) /\ phase' = "replied"
     ELSE UNCHANGED <<reply, phase>>
  /\ UNCHANGED <<host, engine, lost>>

NextBatchEnd ==
  /\ phase = "looping" /\ IsDone(producer)
  /\ phase' = "replied" /\ reply' = None
  /\ UNCHANGED <<host, producer, engine, lost>>

\* Bug: the end of the scan is taken for one more batch.
ReceiveEndAsBatch ==
  /\ phase = "replied"
  /\ phase' = "idle" /\ reply' = None
  /\ done' = (reply = None)
  /\ delivered' = Append(delivered, reply) /\ token' = producer
  /\ UNCHANGED <<host, producer, lost>>

\* Bug: the token is one entry behind the batch it comes with.
ReceiveStaleToken ==
  /\ phase = "replied"
  /\ phase' = "idle" /\ reply' = None
  /\ IF reply = None
     THEN done' = TRUE /\ UNCHANGED <<token, delivered>>
     ELSE /\ delivered' = Append(delivered, reply)
          /\ token' = [producer EXCEPT !.idx = @ - 1]
          /\ UNCHANGED done
  /\ UNCHANGED <<host, producer, lost>>

\* The engine gets the call's result: a batch with the token that
\* encode_resume makes of the cursor, or the end of the scan.
Receive ==
  /\ phase = "replied"
  /\ phase' = "idle" /\ reply' = None
  /\ IF reply = None
     THEN done' = TRUE /\ UNCHANGED <<token, delivered>>
     ELSE /\ delivered' = Append(delivered, reply)
          /\ token' = producer
          /\ UNCHANGED done
  /\ UNCHANGED <<host, producer, lost>>

\* The producer goes away: the engine suspends the scan between two calls, or
\* the worker dies during one, or its result never arrives.
LoseWorker ==
  /\ producer # None /\ ~done /\ lost < MaxLost
  /\ producer' = None /\ phase' = "idle" /\ reply' = None
  /\ lost' = lost + 1
  /\ UNCHANGED <<host, engine>>

\* Someone creates, removes, replaces or protects a file on the host.
ChangeFile(f) ==
  /\ ~done /\ changes < MaxFsChanges
  /\ \E s \in FileState \ {fs[f]} : fs' = [fs EXCEPT ![f] = s]
  /\ stable' = stable \ {f}
  /\ changes' = changes + 1
  /\ UNCHANGED <<arg, producer, phase, reply, engine, lost>>

Worker == NextBatchTurn \/ NextBatchEnd
Engine == OpenScan \/ Resume \/ CallNextBatch \/ Receive
Next   == Worker \/ Engine \/ LoseWorker \/ \E f \in Files : ChangeFile(f)

\* next_batch is a plain loop, and an engine that runs a query to its end
\* keeps asking: both are fair.  Losses and file changes need not happen.
Fairness == WF_vars(Worker) /\ WF_vars(Engine)

Spec == Init /\ [][Next]_vars /\ Fairness
-----------------------------------------------------------------------------
TypeOK ==
  /\ arg \in Args
  /\ fs \in [Files -> FileState]
  /\ stable \subseteq Files
  /\ changes \in 0 .. MaxFsChanges
  /\ producer \in Cursor \cup {None}
  /\ phase \in {"idle", "looping", "replied"}
  /\ reply \in Entries \cup {None}
  /\ token \in Cursor \cup {None}
  /\ delivered \in Seq(Entries)
  /\ done \in BOOLEAN
  /\ lost \in 0 .. MaxLost
  /\ producer = None => phase = "idle"

\* What the scan promises; the refinement maps what the engine received.
Contract == INSTANCE ScanContract WITH out <- delivered, finished <- done

Received(e) == Contract!Returned(e)

(***************************************************************************)
(* "without dropping or duplicating rows" (cursor.rs:8), the second half:  *)
(* batches arrive in the sorted order of their files and no file's batch   *)
(* twice, whatever is suspended, lost and resumed, and however the files   *)
(* change under the scan.                                                  *)
(***************************************************************************)
InScanOrder == Ascending(delivered)

(***************************************************************************)
(* The first half: a scan that ends has returned everything that is due.   *)
(* It holds even when a token is damaged and the scan starts over.         *)
(***************************************************************************)
NoFileDropped == done => \A e \in Contract!Due : Received(e)

(***************************************************************************)
(* Both at once, step by step: the scan implements ScanContract.           *)
(***************************************************************************)
ImplementsContract == Contract!Spec

(***************************************************************************)
(* The list of files is settled by the first batch: resolving the argument *)
(* again on resume never changes it, and the position never goes back.     *)
(***************************************************************************)
TokenAdvances ==
  [][token # None => /\ token'.paths = token.paths
                     /\ token'.idx >= token.idx]_token

(***************************************************************************)
(* A query that keeps asking is told that the scan is over, however many   *)
(* files are skipped and however often (up to MaxLost) a producer is lost. *)
(***************************************************************************)
ScanEnds == <>done
=============================================================================
