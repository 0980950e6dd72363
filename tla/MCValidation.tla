---------------------------- MODULE MCValidation ----------------------------
(* The lines of customer transfers, bank transfers and statements, with a *)
(* second occurrence that differs where a rule reads one of several; the  *)
(* elements of documents, a good one beside one that breaks each rule.    *)
EXTENDS Validation

MCMinorUnit == [c \in {"EUR", "JPY"} |-> IF c = "EUR" THEN 2 ELSE 0]

Line(kind, value) == [kind |-> kind, value |-> value]

MCAmounts == [v \in {"EUR 2", "EUR 0", "JPY 2", "XXX 2", "malformed"} |->
                [ccy      |-> CASE v = "JPY 2" -> "JPY" [] v = "XXX 2" -> "XXX"
                                [] OTHER -> "EUR",
                 decimals |-> CASE v = "EUR 0" -> 0 [] v = "malformed" -> None
                                [] OTHER -> 2]]

Transfer == {Line("20", "text"), Line("23B", "text"), Line("32A", "EUR 2"),
             Line("32A", "JPY 2"), Line("50K", "/iban"), Line("50A", "/bad iban"),
             Line("59", "/plain"), Line("59A", "/bad iban"),
             Line("{4:", "text"), Line("}", "text")}

BankTransfer == {Line("20", "text"), Line("21", "text"), Line("32A", "malformed"),
                 Line("32A", "XXX 2"), Line("32A", "EUR 0"), Line("58A", "bic"),
                 Line("58D", "text"), Line("71A", "charges"), Line("71A", "other")}

Statement == {Line("20", "text"), Line("25", "text"), Line("60F", "text"),
              Line("62M", "text"), Line("34F", "text"), Line("-", "text"),
              Line("prose", "text"), Line("58A", "other")}

Money(ccy, decimals) == [ccy |-> ccy, decimals |-> decimals]

Group(msg_id, method) == Line("GrpHdr", [msg_id |-> msg_id, method |-> method])

Good008 == [end_to_end |-> "text", amount |-> Money("EUR", 2), charge_bearer |-> "charges",
            uetr |-> "uuid", debtor_iban |-> "/iban", creditor_iban |-> None,
            debtor_bic |-> "bic", creditor_bic |-> None]

Tx008(tx) == Line("CdtTrfTxInf", tx)

Pacs008Body ==
  {Group("text", "method"), Group(None, "other"), Tx008(Good008),
   Tx008([Good008 EXCEPT !.amount = None, !.uetr = None]),
   Tx008([Good008 EXCEPT !.end_to_end = None]),
   Tx008([Good008 EXCEPT !.amount = Money("JPY", 2)]),
   Tx008([Good008 EXCEPT !.amount = Money(None, None), !.charge_bearer = None]),
   Tx008([Good008 EXCEPT !.creditor_iban = "/bad iban"]),
   Tx008([Good008 EXCEPT !.charge_bearer = "other", !.creditor_bic = "other"])}

Pmt(debtor_iban, txs) == Line("PmtInf", [debtor_iban |-> debtor_iban, txs |-> txs])

Tx001(amount, iban) == [amount |-> amount, creditor_iban |-> iban]

Pain001Body ==
  {Group("text", None), Group(None, None), Pmt("/iban", <<>>), Pmt("/bad iban", <<>>),
   Pmt(None, <<Tx001(Money("EUR", 2), "/iban"), Tx001(None, None)>>),
   Pmt("/iban", <<Tx001(Money("EUR", 0), None), Tx001(Money("XXX", 2), None)>>),
   Pmt("/iban", <<Tx001(Money("EUR", None), None), Tx001(Money("JPY", 0), "/bad iban")>>)}

Camt053Body ==
  {Group("text", None)} \cup
  {Line(kind, [amount |-> a]) : kind \in {"Bal", "Ntry"},
     a \in {None, Money("EUR", 2), Money("JPY", 2), Money(None, 2)}}

Pacs002Body ==
  {Group("text", None), Group(None, None), Line("TxInfAndSts", [status |-> "text"]),
   Line("TxInfAndSts", [status |-> None])}

MCPieces == [code \in MtCodes \cup MxIds |->
               CASE code = "103" -> Transfer [] code = "202" -> BankTransfer
                 [] code = "pacs.008" -> Pacs008Body [] code = "pain.001" -> Pain001Body
                 [] code \in {"camt.053", "camt.054"} -> Camt053Body
                 [] code = "pacs.002" -> Pacs002Body
                 [] code \in MtCodes \ {"103", "202"} -> Statement]

\* Texts up to the body: with a declaration, comments that mention Document or
\* have a bracket in them, and a header that mentions it or not.
Body(code) == CHOOSE name \in DOMAIN LocalToMsg : LocalToMsg[name] = code
Start(name) == <<"<", name>>
Declaration == <<"<", "?", ">">>
Comment(words) == <<"<", "!">> \o words \o <<">">>
AppHdr(words) == Start("AppHdr") \o <<"head.001", ">">> \o words \o <<"<", "/", ">">>

Document(code, first, between) ==
  first \o Start("Document") \o <<code, ">">> \o between
        \o Start(Body(code)) \o <<">">>

Plain(code) == Document(code, Declaration, <<>>)

Texts(code) ==
  {Document(code, first, between) :
     first   \in {<<>>, Comment(<<"Document">>), AppHdr(<<>>), AppHdr(<<"Document">>),
                 Comment(<<"Document">>) \o AppHdr(<<>>)},
     between \in {<<>>, Comment(<<>>), Comment(<<">">>),
                 Comment(<<"<", Body("camt.052"), ">">>)}}

MCHeaders ==
  [code : {"103"}, uetr : {None}, tree : {"text"}, text : {<<>>}]
    \cup [code : MtCodes \ {"103"}, uetr : {None, "uuid", "other"}, tree : {"text"},
          text : {<<>>}]
    \cup UNION {[code : {code}, uetr : {None}, tree : {"whole", "broken"},
                text : {Plain(code)}] : code \in MxIds \ {"camt.054"}}
    \cup UNION {[code : {code}, uetr : {None}, tree : {"bodyless"},
                text : {Start("Document") \o <<code, ">">> \o Start("Body") \o <<">">>}] :
                code \in MxIds \ {"camt.054"}}
    \cup UNION {[code : {code}, uetr : {None}, tree : {"bare"},
                text : {Start(Body(code)) \o <<code, ">">>}] :
                code \in MxIds \ {"camt.054"}}
    \cup [code : {"pain.001"}, uetr : {None}, tree : {"whole"}, text : Texts("pain.001")]
=============================================================================
