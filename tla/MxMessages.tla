----------------------------- MODULE MxMessages -----------------------------
(***************************************************************************)
(* ISO 20022 documents as validate_mx (validate.rs) checks them and as     *)
(* their readers return them (pacs008.rs, pacs002.rs, pain001.rs, camt.rs, *)
(* with the lookups of common.rs).  A document is what dom::parse makes    *)
(* of it, its tree, and the elements of its body in order: a value has for *)
(* each path that is looked up the class of the text there, None when      *)
(* there is no such element.                                               *)
(***************************************************************************)
EXTENDS FieldRules, Sequences, SequencesExt, Selection

\* "whole": the body of the message inside Document; "bare": no Document
\* around it; "bodyless": the namespace names the message but no body does;
\* "broken": no element is closed at the top.
Trees == {"whole", "bare", "bodyless", "broken"}

Named(body, name) == Keep(body, {e \in DOMAIN body : body[e].kind = name})

\* check_amount_node: an amount that is not there is not an error.
CheckAmountNode(amount) ==
  IF amount = None THEN {}
  ELSE ErrorIf(amount.ccy = None, "AMT020") \cup ErrorIf(amount.decimals = None, "AMT021")
         \cup CheckCurrency(amount.ccy, amount.decimals)

CheckIbanNode(iban) == ErrorIf(iban = "/bad iban", "IBAN010")

\* An amount element has a currency or none, and a number or none.
IsAmountNode(a) == a = None \/ a.decimals \in Nat \cup {None}

\* What the rules of message id need to know of an element of its body.
IsElement(id, e) ==
  CASE id = "pacs.008" -> e.kind = "CdtTrfTxInf" => IsAmountNode(e.value.amount)
    [] id = "pain.001" ->
         e.kind = "PmtInf" =>
           LET txs == e.value.txs
           IN /\ txs \in Seq(Range(txs))
              /\ \A t \in DOMAIN txs : IsAmountNode(txs[t].amount)
    [] id \in {"camt.053", "camt.054"} ->
         /\ e.kind \in {"GrpHdr", "Bal", "Ntry"}
         /\ e.kind # "GrpHdr" => IsAmountNode(e.value.amount)
    [] OTHER -> TRUE

\* Over the elements of a sequence.
Over(elements, Check(_)) == UNION {Check(elements[e].value) : e \in DOMAIN elements}

CheckTransaction(tx) ==
  ErrorIf(tx.end_to_end = None, "MX011") \cup CheckAmountNode(tx.amount)
    \cup ErrorIf(tx.charge_bearer = "other", "CHRG020")
    \cup ErrorIf(tx.uetr = "other", "UETR020")
    \cup CheckIbanNode(tx.debtor_iban) \cup CheckIbanNode(tx.creditor_iban)
    \cup ErrorIf("other" \in {tx.debtor_bic, tx.creditor_bic}, "BIC020")

\* Bug: the rules look at the first transaction only.
CheckPacs008First(body) ==
  LET txs == Named(body, "CdtTrfTxInf")
  IN ErrorIf(txs = <<>>, "MX010")
       \cup IF txs = <<>> THEN {} ELSE CheckTransaction(Head(txs).value)

CheckPacs008(body) ==
  LET txs == Named(body, "CdtTrfTxInf")
      grp == Named(body, "GrpHdr")
  IN ErrorIf(grp # <<>> /\ Head(grp).value.method = "other", "MX030")
       \cup ErrorIf(txs = <<>>, "MX010") \cup Over(txs, CheckTransaction)

CheckPayment(pmt) ==
  CheckIbanNode(pmt.debtor_iban)
    \cup UNION {CheckAmountNode(pmt.txs[t].amount)
                  \cup CheckIbanNode(pmt.txs[t].creditor_iban) : t \in DOMAIN pmt.txs}

\* Every Amt of the document, whatever it is the amount of (collect_amount_nodes).
CheckAmounts(body) ==
  UNION {CheckAmountNode(body[e].value.amount) :
           e \in {i \in DOMAIN body : body[i].kind # "GrpHdr"}}

\* validate_mx, by the rules of message id, of a document with the body of
\* message `of`.
MxErrors(id, of, tree, body) ==
  LET grp == Named(body, "GrpHdr")
      hasBody == tree # "bodyless" /\ of = id
  IN IF tree = "broken" THEN {"STRUCT020"}
     ELSE ErrorIf(tree = "bare", "STRUCT021")
          \cup ErrorIf(grp = <<>> \/ Head(grp).value.msg_id = None, "MX001")
          \cup CASE id = "pacs.008" /\ hasBody -> CheckPacs008(body)
                 [] id = "pain.001" /\ hasBody ->
                      Over(Named(body, "PmtInf"), CheckPayment)
                 [] id \in {"camt.053", "camt.054"} -> CheckAmounts(body)
                 [] id = "pacs.002" -> ErrorIf(~hasBody, "MX020")
                 [] OTHER -> {}
-----------------------------------------------------------------------------
\* money_at: the amount and the currency are read each for itself.
MoneyAt(amount) ==
  IF amount = None THEN [ccy |-> None, decimals |-> None] ELSE amount

MsgId(body) == LET grp == Named(body, "GrpHdr")
               IN IF grp = <<>> THEN None ELSE Head(grp).value.msg_id

Pacs008(body) ==
  LET txs == Named(body, "CdtTrfTxInf")
      row(tx) == [msg_id        |-> MsgId(body),
                  end_to_end    |-> tx.end_to_end,
                  amount        |-> MoneyAt(tx.amount),
                  charge_bearer |-> tx.charge_bearer,
                  uetr          |-> tx.uetr,
                  debtor_iban   |-> tx.debtor_iban,
                  creditor_iban |-> tx.creditor_iban,
                  debtor_bic    |-> tx.debtor_bic,
                  creditor_bic  |-> tx.creditor_bic]
  IN [t \in DOMAIN txs |-> row(txs[t].value)]

\* One row for the group when there is none for a transaction.
Pacs002(body) ==
  LET base == [msg_id |-> MsgId(body), tx_status |-> None]
      txs  == Named(body, "TxInfAndSts")
  IN IF txs = <<>> THEN <<base>>
     ELSE [t \in DOMAIN txs |-> [base EXCEPT !.tx_status = txs[t].value.status]]

\* The rows of a PmtInf have its own fields.
Pain001(body) ==
  LET pmts == Named(body, "PmtInf")
      rows(pmt) == [t \in DOMAIN pmt.txs |->
                      [msg_id        |-> MsgId(body),
                       debtor_iban   |-> pmt.debtor_iban,
                       creditor_iban |-> pmt.txs[t].creditor_iban,
                       amount        |-> MoneyAt(pmt.txs[t].amount)]]
  IN FlattenSeq([p \in DOMAIN pmts |-> rows(pmts[p].value)])

\* The balances and the entries of a statement.
Balances(body) ==
  LET bals == Named(body, "Bal") IN [b \in DOMAIN bals |-> MoneyAt(bals[b].value.amount)]

EntryAmounts(body) ==
  LET ntries == Named(body, "Ntry") IN [n \in DOMAIN ntries |-> MoneyAt(ntries[n].value.amount)]
-----------------------------------------------------------------------------
\* The amount elements of a document.
AmountNodes(body) ==
  {body[e].value.amount : e \in {i \in DOMAIN body :
                                    body[i].kind \in {"CdtTrfTxInf", "Bal", "Ntry"}}}
    \cup UNION {{body[e].value.txs[t].amount : t \in DOMAIN body[e].value.txs} :
                 e \in {i \in DOMAIN body : body[i].kind = "PmtInf"}}

\* What a row may say of an amount: nothing at all, or one that keeps the rules.
RowAmountIsSound(a) == a = MoneyAt(None) \/ AmountIsSound(a)

\* The rows of the reader keep the rules that the message was checked by.
RowsAreSound(id, body) ==
  /\ MsgId(body) # None
  /\ CASE id = "pacs.008" ->
            /\ Pacs008(body) # <<>>
            /\ \A r \in DOMAIN Pacs008(body) :
                 LET row == Pacs008(body)[r]
                 IN /\ row.end_to_end # None /\ RowAmountIsSound(row.amount)
                    /\ "/bad iban" \notin {row.debtor_iban, row.creditor_iban}
                    /\ "other" \notin {row.charge_bearer, row.uetr, row.debtor_bic,
                                       row.creditor_bic}
       [] id = "pacs.002" -> Pacs002(body) # <<>>
       [] id = "pain.001" ->
            \A r \in DOMAIN Pain001(body) :
              LET row == Pain001(body)[r]
              IN /\ RowAmountIsSound(row.amount)
                 /\ "/bad iban" \notin {row.debtor_iban, row.creditor_iban}
       [] OTHER ->
            \A amounts \in {Balances(body), EntryAmounts(body)} :
              \A a \in DOMAIN amounts : RowAmountIsSound(amounts[a])
=============================================================================
