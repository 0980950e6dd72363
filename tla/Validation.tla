----------------------------- MODULE Validation -----------------------------
(***************************************************************************)
(* iso20022_validate (validate.rs, with detect of sniff.rs) beside what    *)
(* the readers of the same message return (mt103.rs, mt202.rs, the         *)
(* balances of mt940.rs, and MxMessages).  A message is what its headers   *)
(* or its tree make it, and its content, which is written piece by piece:  *)
(* the lines of a SWIFT MT text, or the elements of an MX body.  The value *)
(* of a line is the class that the rules tell apart: an account (the rest  *)
(* of a /line) or a BIC by whether it passes its check, an amount by its   *)
(* currency and its decimals.                                              *)
(***************************************************************************)
EXTENDS MtText, MxSniff, MxMessages

CONSTANTS
  Headers, \* the messages that occur: an MT type, "" when block 2 names none, or
           \* an MX name; what block 3 holds: "uuid", "other", or None; the state
           \* of the tree, "text" for an MT; the text up to the body of an MX
  Pieces,  \* the lines or elements that occur in messages of each type
  Amounts, \* the currency and the decimals of the values of :32A: lines
  MaxPieces \* bound on the pieces of a message; each is written once at most

MtCodes == {"", "103", "202", "940", "942"}
MxIds   == {"pacs.008", "pacs.002", "pain.001", "camt.053", "camt.054"}

\* What the rules need to know of a line.
IsLine(line) ==
  /\ line.kind = "32A" => line.value \in DOMAIN Amounts
  /\ line.kind = "71A" => line.value \in {"charges", "other"}
  /\ line.kind \in {"57A", "58A"} => line.value \in {"bic", "empty", "other"}

ASSUME ValidationAssumption ==
  /\ DOMAIN Pieces \subseteq MtCodes \cup MxIds
  /\ \A h \in Headers :
       /\ h.code \in DOMAIN Pieces /\ h.uetr \in {None, "uuid", "other"}
       /\ IF h.code \in MxIds
          THEN h.tree \in Trees /\ (h.tree = "whole" => IsWhole(h.text, h.code))
          ELSE h.tree = "text"
  /\ \A v \in DOMAIN Amounts :
       /\ Amounts[v] # None /\ Amounts[v].decimals \in Nat \cup {None}
       /\ Amounts[v].ccy = None => Amounts[v].decimals = None
  /\ \A code \in DOMAIN Pieces : \A p \in Pieces[code] :
       IF code \in MxIds THEN IsElement(code, p) ELSE IsLine(p)
  /\ MaxPieces \in Nat

VARIABLES header, content

IsMx == header.code \in MxIds
-----------------------------------------------------------------------------
\* sniff::detect: an opening brace, or :20: somewhere; MT without a type is "".
IsMt == \/ header.code # "" \/ header.uetr # None
        \/ content # <<>> /\ Head(content).kind \in Openers
        \/ \E i \in DOMAIN content : content[i].kind = "20"

\* block::parse: the first block 4, or all of the text when there is none.
Fields == ParseBody(IF Block(content) = <<>> THEN content ELSE Block(content)[1])

\* The tags that a prefix stands for.
Options(prefix) ==
  CASE prefix = "50" -> {"50A", "50F", "50K"}
    [] prefix = "58" -> {"58A", "58D"}
    [] prefix = "59" -> {"59", "59A", "59F"}
    [] prefix = "60" -> {"60F", "60M"}
    [] prefix = "62" -> {"62F", "62M"}
    [] OTHER         -> {prefix}

FirstPrefix(fields, prefix) ==
  LET i == SelectInSeq(fields, LAMBDA f : TagOf(f) \in Options(prefix))
  IN IF i = 0 THEN <<>> ELSE fields[i]

\* Bug: a mandatory tag is looked for without its option letter.
HasExactly(fields, prefix) == First(fields, prefix) # <<>>

HasPrefix(fields, prefix) == FirstPrefix(fields, prefix) # <<>>

Mandatory(code) ==
  CASE code = "103" -> {"20", "23B", "32A", "50", "59"}
    [] code = "202" -> {"20", "21", "32A", "58"}
    [] code = "940" -> {"20", "25", "60", "62"}
    [] code = "942" -> {"20", "25", "34F"}
    [] OTHER        -> {"20"}

Value(field)  == Head(field).value
Whole(field)  == Len(field) = 1

\* parse_32a: the currency, and the decimals of the amount or None; a folded
\* line makes the amount malformed.
Parse32a(field) ==
  LET a == Amounts[Value(field)]
  IN IF Whole(field) THEN a ELSE [ccy |-> a.ccy, decimals |-> None]

CheckAmount(fields) ==
  IF First(fields, "32A") = <<>> THEN {}
  ELSE LET a == Parse32a(First(fields, "32A"))
       IN CheckCurrency(a.ccy, a.decimals)
            \cup (IF a.decimals = None THEN {"AMT010"} ELSE {})

CheckCharges(fields) ==
  LET f == First(fields, "71A")
  IN IF f = <<>> \/ (Whole(f) /\ Value(f) = "charges") THEN {} ELSE {"CHRG010"}

\* The last line of an option-A field must be a BIC, unless it is empty.
CheckBics(fields) ==
  IF \E tag \in {"57A", "58A"} :
       LET f == First(fields, tag)
       IN f # <<>> /\ Last(f).value \notin {"bic", "empty"}
  THEN {"BIC010"} ELSE {}

\* Bug: only a party without an option letter has its account checked.
CheckIbansExactly(fields) ==
  IF \E tag \in {"50", "59"} :
       First(fields, tag) # <<>> /\ Value(First(fields, tag)) = "/bad iban"
  THEN {"IBAN010"} ELSE {}

\* The account of a party is on the field's first line; check_iban_if_iban_like
\* passes over an account that does not look like an IBAN.
CheckIbans(fields) ==
  IF \E prefix \in {"50", "59"} :
       HasPrefix(fields, prefix)
         /\ Value(FirstPrefix(fields, prefix)) = "/bad iban"
  THEN {"IBAN010"} ELSE {}

\* validate_mt.
MtErrors ==
  LET fields == Fields
  IN IF fields = <<>> THEN {"STRUCT010"}
     ELSE ErrorIf(\E tag \in Mandatory(header.code) : ~HasPrefix(fields, tag), "MT001")
          \cup CheckAmount(fields) \cup CheckCharges(fields)
          \cup CheckBics(fields) \cup CheckIbans(fields)
          \cup ErrorIf(header.uetr = "other", "UETR010")

\* validate: the codes of the errors.
Errors ==
  LET id == MxType(header.text)
  IN CASE IsMx /\ id # Unknown -> MxErrors(id, header.code, header.tree, content)
       [] ~IsMx /\ IsMt     -> MtErrors
       [] OTHER             -> {"STRUCT001"}

Ok == Errors = {}
-----------------------------------------------------------------------------
\* parse_party: the account is the first line, if that begins with a slash.
Account(field) == IF field # <<>> /\ Value(field) \in {"/iban", "/bad iban", "/plain"}
                  THEN Value(field) ELSE None

Either(fields, a, b) == IF First(fields, a) # <<>> THEN First(fields, a)
                                                   ELSE First(fields, b)

\* The columns of the readers that the rules are about.
Amount(fields) == IF First(fields, "32A") = <<>> THEN None
                  ELSE Parse32a(First(fields, "32A"))

ParseMt103(fields) ==
  [ref         |-> First(fields, "20"),
   op_code     |-> First(fields, "23B"),
   amount      |-> Amount(fields),
   ordering    |-> FirstPrefix(fields, "50"),
   beneficiary |-> FirstPrefix(fields, "59"),
   charges     |-> First(fields, "71A"),
   uetr        |-> header.uetr]

ParseMt202(fields) ==
  [ref         |-> First(fields, "20"),
   related     |-> First(fields, "21"),
   amount      |-> Amount(fields),
   beneficiary |-> FirstPrefix(fields, "58"),
   is_cover    |-> HasPrefix(fields, "50") \/ HasPrefix(fields, "59"),
   uetr        |-> header.uetr]

\* The rows of mt103_read and mt202_read: one, or none without a :20:.
Mt103Rows == IF First(Fields, "20") = <<>> THEN <<>> ELSE <<ParseMt103(Fields)>>

Mt202Rows == IF First(Fields, "20") = <<>> THEN <<>> ELSE <<ParseMt202(Fields)>>

StatementFromFields(fields) ==
  [ref     |-> First(fields, "20"),
   account |-> First(fields, "25"),
   opening |-> Either(fields, "60F", "60M"),
   closing |-> Either(fields, "62F", "62M")]

\* The rows of mt940_read.
Statements ==
  LET groups == Groups(content) IN [g \in DOMAIN groups |-> StatementFromFields(groups[g])]

Init == header \in Headers /\ content = <<>>

Write(piece) ==
  /\ Len(content) < MaxPieces
  /\ \A i \in DOMAIN content : content[i] # piece
  /\ content' = Append(content, piece)
  /\ UNCHANGED header

Next == \E piece \in Pieces[header.code] : Write(piece)

Spec == Init /\ [][Next]_<<header, content>>
-----------------------------------------------------------------------------
PartiesAreSound(row) ==
  /\ row.ordering # <<>> /\ row.beneficiary # <<>>
  /\ "/bad iban" \notin {Account(row.ordering), Account(row.beneficiary)}

\* The rows of the readers of MT text keep the rules.
MtRowsAreSound ==
  CASE header.code = "103" ->
         \E row \in Range(Mt103Rows) :
            /\ row.op_code # <<>> /\ AmountIsSound(row.amount) /\ PartiesAreSound(row)
            /\ row.charges # <<>> => Value(row.charges) = "charges"
            /\ row.uetr # "other"
    [] header.code = "202" ->
         \E row \in Range(Mt202Rows) :
            /\ row.related # <<>> /\ AmountIsSound(row.amount)
            /\ row.beneficiary # <<>> /\ row.uetr # "other"
    [] header.code = "940" ->
         TagOf(Head(Fields)) = "20" /\ Len(Statements) = 1 =>
           \A st \in Range(Statements) :
              <<>> \notin {st.ref, st.account, st.opening, st.closing}
    [] OTHER -> First(Fields, "20") # <<>>

(***************************************************************************)
(* "a green ok means structurally sound and passes the common field rules" *)
(* (validate.rs:6-8).  For the readers: a message that passes is returned, *)
(* no column of a mandatory field is NULL, and the amounts, the charges,   *)
(* the accounts and the UETR in its row keep the rules, even when a tag    *)
(* occurs twice and the two differ, and in every row of a document.  Of a  *)
(* text of statements this holds when the reader finds one there: the rules*)
(* look at the whole text, so that one may have what another lacks.        *)
(* Of a document without the body that its namespace names nothing is      *)
(* checked, and nothing returned; and the word Document in front of its    *)
(* tag hides the body from mx_type, which takes the type of the header.    *)
(***************************************************************************)
OkIsReadSound ==
  Ok => IF ~IsMx THEN MtRowsAreSound
        ELSE header.tree = "whole" /\ ~HeaderHidesBody(header.text)
               => RowsAreSound(header.code, content)

Good(line) ==
  IF line.kind = "32A" THEN AmountIsSound(Amounts[line.value])
  ELSE line.value \notin {"/bad iban", "other"}

(***************************************************************************)
(* No false alarm: a message of good lines only, none of them folded, is   *)
(* valid as soon as every mandatory field is there, in whatever order and  *)
(* with whichever option letter; and so is a whole document whose rows are *)
(* sound, unless something in no row is wrong: the settlement method, an   *)
(* amount without a currency and a number, a payment of no transaction.    *)
(***************************************************************************)
SoundIsOk ==
  IF ~IsMx
  THEN /\ header.uetr # "other"
       /\ \A i \in DOMAIN content : IsTag(content[i]) /\ Good(content[i])
       /\ \A tag \in Mandatory(header.code) :
            \E i \in DOMAIN content : content[i].kind \in Options(tag)
       => Ok
  ELSE /\ header.tree = "whole"
       /\ RowsAreSound(header.code, content)
       /\ MoneyAt(None) \notin AmountNodes(content)
       /\ \A i \in DOMAIN content :
            /\ content[i].kind = "GrpHdr" => content[i].value.method # "other"
            /\ content[i].kind = "PmtInf" => content[i].value.txs # <<>>
       => Ok
=============================================================================
