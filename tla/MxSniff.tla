------------------------------- MODULE MxSniff -------------------------------
(***************************************************************************)
(* How the type of an ISO 20022 message is found in its text (mx_type in   *)
(* sniff.rs) before anything is parsed: by looking for words and brackets, *)
(* whatever the tree is that dom::parse makes of the same text.            *)
(*                                                                         *)
(* A text is the sequence of what is looked for in it, up to the start tag *)
(* of its body: brackets, what tells a comment ("!"), an instruction ("?") *)
(* or an end tag ("/"), the word Document wherever it stands, local names  *)
(* of elements, and the message ids that namespaces name.                  *)
(***************************************************************************)
EXTENDS Integers, Sequences, SequencesExt

\* No type, and no element that has one (MessageKind::Unknown, Option::None).
Unknown == "Unknown"

\* local_to_msg.
LocalToMsg == [FIToFICstmrCdtTrf     |-> "pacs.008",
               FIToFIPmtStsRpt       |-> "pacs.002",
               CstmrCdtTrfInitn      |-> "pain.001",
               BkToCstmrStmt         |-> "camt.053",
               BkToCstmrDbtCdtNtfctn |-> "camt.054",
               BkToCstmrAcctRpt      |-> "camt.052"]

\* What namespaces name: the messages, and the business header beside them.
Namespaces == Range(LocalToMsg) \cup {"head.001"}

\* str::find in what follows position p: a position, or 0.
FindAfter(text, p, word) ==
  LET found == {q \in p + 1 .. Len(text) : text[q] = word}
  IN IF found = {} THEN 0 ELSE Min(found)

\* The end of the first tag in which Document is found, or 0.
DocumentEnd(text) ==
  LET doc == FindAfter(text, 0, "Document")
  IN IF doc = 0 THEN 0 ELSE FindAfter(text, doc, ">")

\* Bug: what begins with a bracket is taken for a start tag.
FirstTagOfAnyKind(text) ==
  LET lt == FindAfter(text, DocumentEnd(text), "<")
  IN IF DocumentEnd(text) = 0 \/ lt \in {0, Len(text)} THEN Unknown ELSE text[lt + 1]

Brackets == {"!", "?", "/"}

\* A turn of the loop of first_business_element: a comment, an instruction or an
\* end tag is passed over up to the first closing bracket, its own or one in it;
\* there may be none (0).
PassOver(text, p) ==
  LET lt == FindAfter(text, p, "<")
  IN IF p = 0 \/ lt \in {0, Len(text)} \/ text[lt + 1] \notin Brackets THEN p
     ELSE FindAfter(text, lt, ">")

\* first_business_element: the name in the first start tag after the tag in
\* which Document is found.
FirstBusinessElement(text) ==
  LET end[turn \in 0 .. Len(text)] ==
        IF turn = 0 THEN DocumentEnd(text) ELSE PassOver(text, end[turn - 1])
      lt == FindAfter(text, end[Len(text)], "<")
  IN IF end[Len(text)] = 0 \/ lt \in {0, Len(text)} THEN Unknown ELSE text[lt + 1]

\* Bug: no type is looked for in the namespace.
MxTypeOfElement(text) ==
  LET local == FirstBusinessElement(text)
  IN IF local \in DOMAIN LocalToMsg THEN LocalToMsg[local] ELSE Unknown

\* The first namespace in the text.
FirstNamespace(text) ==
  LET ns == SelectInSeq(text, LAMBDA word : word \in Namespaces)
  IN IF ns = 0 THEN Unknown ELSE text[ns]

\* mx_type: by the element's name, or by the namespace.
MxType(text) ==
  LET local == FirstBusinessElement(text)
  IN IF local \in DOMAIN LocalToMsg THEN LocalToMsg[local] ELSE FirstNamespace(text)
-----------------------------------------------------------------------------
\* Where the start tag of Document has its name.
DocumentTags(text) == {p \in 2 .. Len(text) : text[p] = "Document" /\ text[p - 1] = "<"}
DocumentTag(text)  == Min(DocumentTags(text))

(***************************************************************************)
(* The text of a whole document of this type.  Before Document's tag there *)
(* is no other namespace than the header's and no element that has a type; *)
(* behind it there are comments and instructions up to the body, each of   *)
(* them closed, with no markup in them behind their first closing bracket. *)
(***************************************************************************)
IsWhole(text, type) ==
  LET tag  == DocumentTag(text)
      body == Len(text) - 2
  IN /\ text \in Seq(STRING) /\ DocumentTags(text) # {} /\ tag + 3 <= body
     /\ text[tag + 1] = type /\ text[tag + 2] = ">"
     /\ \A p \in 1 .. tag - 1 :
          text[p] \notin DOMAIN LocalToMsg \cup (Namespaces \ {"head.001"})
     /\ \A p \in tag + 3 .. body - 1 :
          text[p] = "<" => /\ \E q \in tag + 3 .. p : /\ text[q] = "<"
                                                      /\ text[q + 1] \in Brackets
                                                      /\ \A r \in q .. p : text[r] # ">"
                           /\ \E r \in p .. body - 1 : text[r] = ">"
     /\ text[body] = "<" /\ text[body + 1] \in DOMAIN LocalToMsg
     /\ LocalToMsg[text[body + 1]] = type /\ text[body + 2] = ">"

\* Document is found elsewhere than in its tag, and the business header has a
\* namespace of its own.
HeaderHidesBody(text) ==
  FindAfter(text, 0, "Document") # DocumentTag(text) /\ FirstNamespace(text) = "head.001"
=============================================================================
