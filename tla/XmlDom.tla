------------------------------- MODULE XmlDom -------------------------------
(***************************************************************************)
(* dom::parse (mx/dom.rs): the loop that makes a tree of the events of an  *)
(* XML reader.  The reader (quick-xml) is not in the repository; ReadEvent *)
(* has it deliver the events of any document, cut off or broken anywhere:  *)
(* an End only where an element is open (it checks the names), character   *)
(* data in pieces around entity references, no check of what follows the   *)
(* root.  A tag stands for its local name and its attributes.  Characters  *)
(* are "x", what is not blank, and " ", what is.                           *)
(***************************************************************************)
EXTENDS Integers, Sequences, SequencesExt

CONSTANTS
  Names,     \* local names of elements
  Nesting,   \* the pairs <<parent, child>> that occur; Top is the root's parent
  Top,
  Texts,     \* the pieces of character data that occur
  Events,    \* the kinds of events that occur
  MaxEvents, \* bound on the length of a document of tags only
  MaxMixed   \* bound on the length of one with anything else in it

Chars == {"x", " "}

ASSUME XmlDomAssumption ==
  /\ Nesting \subseteq (Names \cup {Top}) \X Names
  /\ Top \notin Names
  /\ Texts \subseteq Seq(Chars)
  /\ Events \subseteq {"Start", "Empty", "End", "Text", "CData", "Entity",
                       "UnknownEntity", "Other"}
  /\ MaxEvents \in Nat /\ MaxMixed \in Nat

VARIABLES
  doc,   \* the events read so far
  stack, \* the open elements
  root,  \* the first element closed at the top; <<>> or a sequence of one node
  run,   \* the pending character data; <<>> or a sequence of one text
  ended  \* the loop has ended and returned root

vars == <<doc, stack, root, run, ended>>

\* `at` is history: where in the document the element begins.
Node(name) == [name |-> name, text |-> <<>>, children |-> <<>>, at |-> Len(doc) + 1]
-----------------------------------------------------------------------------
Blank(c) == c = " "

Trim(t) ==
  LET solid == {i \in DOMAIN t : ~Blank(t[i])}
  IN IF solid = {} THEN <<>> ELSE SubSeq(t, Min(solid), Max(solid))

\* Bug: each piece of a run is trimmed, not the run.
FlushTextPieces(s) ==
  IF s = <<>> \/ run = <<>> THEN s
  ELSE [s EXCEPT ![Len(s)].text = @ \o SelectSeq(Head(run), LAMBDA c : ~Blank(c))]

\* flush_text: the pending run, trimmed as one unit, goes to the open element;
\* a run with an unknown entity in it is dropped.
FlushText(s) ==
  IF s = <<>> \/ run = <<>> THEN s
  ELSE [s EXCEPT ![Len(s)].text = @ \o Trim(Head(run))]

\* Bug: a later top-level element replaces the root.
AttachReplacing(s, node) ==
  IF s # <<>>
  THEN /\ stack' = [s EXCEPT ![Len(s)].children = Append(@, node)]
       /\ UNCHANGED root
  ELSE stack' = s /\ root' = <<node>>

\* attach: to the parent, or as the root when there is none yet.
Attach(s, node) ==
  IF s # <<>>
  THEN /\ stack' = [s EXCEPT ![Len(s)].children = Append(@, node)]
       /\ UNCHANGED root
  ELSE /\ stack' = s
       /\ root' = IF root = <<>> THEN <<node>> ELSE root

IsMarkup(e) == e.kind \in {"Start", "Empty", "End"}

Init ==
  /\ doc = <<>> /\ stack = <<>> /\ root = <<>>
  /\ run = << <<>> >> /\ ended = FALSE

\* The reader delivers an event.
ReadEvent(e) ==
  /\ ~ended /\ e.kind \in Events
  /\ doc' = Append(doc, e)
  /\ Len(doc) < IF \A i \in DOMAIN doc' : IsMarkup(doc'[i]) THEN MaxEvents ELSE MaxMixed

Inside(name) ==
  <<IF stack = <<>> THEN Top ELSE Last(stack).name, name>> \in Nesting

StartElement(name) ==
  /\ ReadEvent([kind |-> "Start", name |-> name]) /\ Inside(name)
  /\ stack' = Append(FlushText(stack), Node(name))
  /\ run' = << <<>> >>
  /\ UNCHANGED <<root, ended>>

EmptyElement(name) ==
  /\ ReadEvent([kind |-> "Empty", name |-> name]) /\ Inside(name)
  /\ Attach(FlushText(stack), Node(name))
  /\ run' = << <<>> >>
  /\ UNCHANGED ended

EndElement ==
  /\ ReadEvent([kind |-> "End"]) /\ stack # <<>>
  /\ LET s == FlushText(stack) IN Attach(Front(s), Last(s))
  /\ run' = << <<>> >>
  /\ UNCHANGED ended

\* Bug: a piece of character data starts a run of its own.
CharacterDataApart(t) ==
  /\ ReadEvent([kind |-> "Text", text |-> t])
  /\ doc # <<>> => Last(doc).kind # "Text"
  /\ run' = IF run = <<>> THEN run ELSE Append(run, t)
  /\ UNCHANGED <<stack, root, ended>>

\* A piece of character data; the reader puts no two in a row.
CharacterData(t) ==
  /\ ReadEvent([kind |-> "Text", text |-> t])
  /\ doc # <<>> => Last(doc).kind # "Text"
  /\ run' = IF run = <<>> THEN run ELSE <<Head(run) \o t>>
  /\ UNCHANGED <<stack, root, ended>>

\* A character or predefined entity reference; what it stands for is solid.
EntityReference ==
  /\ ReadEvent([kind |-> "Entity"])
  /\ run' = IF run = <<>> THEN run ELSE <<Append(Head(run), "x")>>
  /\ UNCHANGED <<stack, root, ended>>

UnknownEntity ==
  /\ ReadEvent([kind |-> "UnknownEntity"])
  /\ run' = <<>>
  /\ UNCHANGED <<stack, root, ended>>

CDataSection(t) ==
  /\ ReadEvent([kind |-> "CData", text |-> t])
  /\ stack' = LET s == FlushText(stack)
              IN IF s = <<>> THEN s ELSE [s EXCEPT ![Len(s)].text = @ \o Trim(t)]
  /\ run' = << <<>> >>
  /\ UNCHANGED <<root, ended>>

\* A comment, a declaration, a processing instruction.
OtherMarkup ==
  /\ ReadEvent([kind |-> "Other"])
  /\ stack' = FlushText(stack)
  /\ run' = << <<>> >>
  /\ UNCHANGED <<root, ended>>

\* The end of the input, or an error of the reader: root is returned as it is.
EndOfInput ==
  /\ ~ended /\ ended' = TRUE
  /\ stack' = FlushText(stack) /\ run' = << <<>> >>
  /\ UNCHANGED <<doc, root>>

Next ==
  \/ \E name \in Names : StartElement(name) \/ EmptyElement(name)
  \/ EndElement \/ EntityReference \/ UnknownEntity \/ OtherMarkup \/ EndOfInput
  \/ \E t \in Texts : CharacterData(t) \/ CDataSection(t)

Spec == Init /\ [][Next]_vars
-----------------------------------------------------------------------------
(***************************************************************************)
(* What the tree of a document d is, read off its events.  An element is   *)
(* known by the event that closes it, an End or an Empty.                  *)
(***************************************************************************)
Closes(d, p) == d[p].kind \in {"End", "Empty"}
IsData(d, p) == d[p].kind \in {"Text", "Entity", "UnknownEntity"}

\* How many elements are open where event p begins.
Level(d, p) == Cardinality({k \in 1 .. p - 1 : d[k].kind = "Start"})
               - Cardinality({k \in 1 .. p - 1 : d[k].kind = "End"})

\* Where the k-th of the elements begins that are open where event p begins,
\* and the element that event e closes.
OpenAt(d, p, k) == Max({b \in 1 .. p - 1 : d[b].kind = "Start" /\ Level(d, b) = k - 1})
BeginOf(d, e) == IF d[e].kind = "Empty" THEN e ELSE OpenAt(d, e, Level(d, e))

\* The character data right before event p is one run; it has no text if there
\* is an unknown entity in it.
Run(d, p) == {n \in 1 .. p - 1 : \A m \in n .. p - 1 : IsData(d, m)}
Characters(d, n) == IF d[n].kind = "Text" THEN d[n].text ELSE <<"x">>
RunText(d, p) ==
  FlattenSeq([n \in 1 .. p - 1 |-> IF n \in Run(d, p) THEN Characters(d, n) ELSE <<>>])

\* The text that ends with event p: the run before it, trimmed as a whole, and
\* a CDATA section.
TextAt(d, p) ==
  IF IsData(d, p) THEN <<>>
  ELSE (IF \E n \in Run(d, p) : d[n].kind = "UnknownEntity" THEN <<>> ELSE Trim(RunText(d, p)))
       \o (IF d[p].kind = "CData" THEN Trim(d[p].text) ELSE <<>>)

\* The text directly inside the element that begins at b, and the trees of the
\* elements directly inside it, both up to event e.
TextInside(d, b, e) ==
  FlattenSeq([p \in 1 .. e |->
    IF b < p /\ Level(d, p) = Level(d, b) + 1 THEN TextAt(d, p) ELSE <<>>])

ChildrenInside(d, trees, b, e) ==
  FlattenSeq([p \in 1 .. e |->
    IF b < p /\ Closes(d, p) /\ Level(d, p + 1) = Level(d, b) + 1 THEN <<trees[p]>> ELSE <<>>])

\* The tree of the element that event e closes; trees are those closed before.
TreeOf(d, trees, e) ==
  LET b == BeginOf(d, e)
  IN [name     |-> d[b].name,
      text     |-> TextInside(d, b, e),
      children |-> ChildrenInside(d, trees, b, e - 1),
      at       |-> b]

Trees(d) == LET tree[e \in DOMAIN d] == TreeOf(d, tree, e) IN tree

\* The elements at the top of the document that have been closed.
Closed(d) == {e \in DOMAIN d : Closes(d, e) /\ Level(d, e + 1) = 0}
-----------------------------------------------------------------------------
(***************************************************************************)
(* What dom::parse returns is the tree of the document's first element:    *)
(* every element in its place and every text with its element, runs        *)
(* trimmed as a whole, however the reader cuts them up.  As long as that   *)
(* element is open there is nothing, and nothing after it matters.         *)
(***************************************************************************)
RootIsFirstTree ==
  root = IF Closed(doc) = {} THEN <<>> ELSE <<Trees(doc)[Min(Closed(doc))]>>
=============================================================================
