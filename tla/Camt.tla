-------------------------------- MODULE Camt --------------------------------
(***************************************************************************)
(* Bank statements and notifications (mx/camt053.rs, camt054.rs, camt.rs): *)
(* camt053_read makes a row of each statement of a document, with the      *)
(* WHOLE document as its `raw`; camt053_entries makes a row of each entry, *)
(* or of each transaction of an entry, of the document it is given.  The   *)
(* document is the tree XmlDom makes, so that the properties hold of every *)
(* document within the bound.  A notification has the same shape: Body and *)
(* Statement name the elements of either kind.                             *)
(***************************************************************************)
EXTENDS XmlDom

CONSTANTS
  Body,     \* BkToCstmrStmt or BkToCstmrDbtCdtNtfctn
  Statement \* Stmt or Ntfctn

\* Node::children_named, and the first node of a tree in document order with
\* a name (find_first), as a sequence of at most one node.
ChildrenNamed(node, name) == SelectSeq(node.children, LAMBDA c : c.name = name)

RECURSIVE PreOrder(_)
PreOrder(node) ==
  <<node>> \o FlattenSeq([c \in DOMAIN node.children |-> PreOrder(node.children[c])])

FindFirst(node, name) ==
  LET found == SelectSeq(PreOrder(node), LAMBDA n : n.name = name)
  IN IF found = <<>> THEN <<>> ELSE <<Head(found)>>

\* statement_of: what matters here is which statement, and its entry_count.
StatementOf(stmt) ==
  [at |-> stmt.at, entry_count |-> Len(ChildrenNamed(stmt, "Ntry")), node |-> stmt]

\* Bug: the reader stops at the first statement of the document.
ParseFirstOnly(tree) ==
  LET stmt == IF tree = <<>> THEN <<>> ELSE FindFirst(Head(tree), Statement)
  IN IF stmt = <<>> THEN <<>> ELSE <<StatementOf(Head(stmt))>>

\* camt053::parse and camt054::parse, the rows of the reader.
Parse(tree) ==
  LET body == IF tree = <<>> THEN <<>> ELSE FindFirst(Head(tree), Body)
  IN IF body = <<>> THEN <<>>
     ELSE LET stmts == ChildrenNamed(Head(body), Statement)
          IN [s \in DOMAIN stmts |-> StatementOf(stmts[s])]

\* The transactions of an entry, over all its NtryDtls.
TxDetails(ntry) ==
  LET dtls == ChildrenNamed(ntry, "NtryDtls")
  IN FlattenSeq([d \in DOMAIN dtls |-> ChildrenNamed(dtls[d], "TxDtls")])

\* Bug: only the first NtryDtls of an entry is read.
EntriesOfFirstDetails(parent) ==
  LET ntries == ChildrenNamed(parent, "Ntry")
      rows(e) ==
        LET dtls == ChildrenNamed(ntries[e], "NtryDtls")
            txs == IF dtls = <<>> THEN <<>> ELSE ChildrenNamed(Head(dtls), "TxDtls")
            base == [entry |-> ntries[e].at, entry_idx |-> e - 1, tx |-> 0, tx_idx |-> 0]
        IN IF txs = <<>> THEN <<base>>
           ELSE [t \in DOMAIN txs |-> [base EXCEPT !.tx = txs[t].at, !.tx_idx = t - 1]]
  IN FlattenSeq([e \in DOMAIN ntries |-> rows(e)])

\* entries_of: a row per transaction, or one for an entry without any (tx 0).
EntriesOf(parent) ==
  LET ntries == ChildrenNamed(parent, "Ntry")
      rows(e) ==
        LET txs == TxDetails(ntries[e])
            base == [entry |-> ntries[e].at, entry_idx |-> e - 1, tx |-> 0, tx_idx |-> 0]
        IN IF txs = <<>> THEN <<base>>
           ELSE [t \in DOMAIN txs |-> [base EXCEPT !.tx = txs[t].at, !.tx_idx = t - 1]]
  IN FlattenSeq([e \in DOMAIN ntries |-> rows(e)])

\* camt::parse_entries: the first Stmt anywhere, else the first Ntfctn.
ParseEntries(tree) ==
  IF tree = <<>> THEN <<>>
  ELSE LET stmt == FindFirst(Head(tree), "Stmt") \o FindFirst(Head(tree), "Ntfctn")
       IN IF stmt = <<>> THEN <<>> ELSE EntriesOf(Head(stmt))
-----------------------------------------------------------------------------
Rows    == Parse(root)
Entries == ParseEntries(root)

\* The event that closes the element that begins at i, or 0; the elements of the
\* document named `name` inside it.
EndOf(i) ==
  LET ends == {e \in DOMAIN doc : Closes(doc, e) /\ BeginOf(doc, e) = i}
  IN IF ends = {} THEN 0 ELSE Min(ends)

Within(i, name) == {k \in DOMAIN doc : /\ doc[k].kind \in {"Start", "Empty"}
                                       /\ doc[k].name = name /\ i < k /\ k < EndOf(i)}

(***************************************************************************)
(* The reader returns the statements of the document in its order, each    *)
(* once, and entry_count is the number of entries that stand in it.        *)
(***************************************************************************)
StatementsOfDocument ==
  /\ \A s \in DOMAIN Rows :
       Rows[s].entry_count = Cardinality(Within(Rows[s].at, "Ntry"))
  /\ \A s, t \in DOMAIN Rows : s < t => Rows[s].at < Rows[t].at
  /\ root # <<>> =>
       {Rows[s].at : s \in DOMAIN Rows} = Within(Head(root).at, Statement)

(***************************************************************************)
(* When the document holds one statement its raw explodes to it: every     *)
(* transaction is in one row, under its own entry, every entry without one *)
(* is in one row too, and the ordinals name the rows and count the         *)
(* statement's entries.                                                    *)
(***************************************************************************)
ExplodesToEveryEntry ==
  Len(Rows) = 1 =>
    LET at == Head(Rows).at
        e(i) == Entries[i]
    IN /\ {e(i).entry : i \in DOMAIN Entries} = Within(at, "Ntry")
       /\ {e(i).tx : i \in DOMAIN Entries} \ {0} = Within(at, "TxDtls")
       /\ \A i \in DOMAIN Entries :
            e(i).tx \in IF Within(e(i).entry, "TxDtls") = {} THEN {0}
                        ELSE Within(e(i).entry, "TxDtls")
       /\ \A i, j \in DOMAIN Entries :
            i < j => \/ e(i).entry_idx < e(j).entry_idx
                     \/ e(i).entry_idx = e(j).entry_idx /\ e(i).tx_idx < e(j).tx_idx
       /\ Cardinality({e(i).entry_idx : i \in DOMAIN Entries})
            = Head(Rows).entry_count

(***************************************************************************)
(* entries.rs:4 says "entries correlate back to their statement", and      *)
(* README.md:38 passes raw through for that.  With two statements in a     *)
(* document every one of them explodes to the entries of the first.        *)
(***************************************************************************)
RawExplodesToItsStatement ==
  \A s \in DOMAIN Rows : Entries = EntriesOf(Rows[s].node)
=============================================================================
