--------------------------- MODULE StatementLine ---------------------------
(***************************************************************************)
(* A :61: line and its :86: narrative, from the characters to the row of   *)
(* mt940_lines or mt942_lines (parse_61, apply_86 and their callers in     *)
(* mt940.rs).  The subfields of a :61: have no separators and some are     *)
(* optional, so a position moves along the line and each subfield is told  *)
(* by what stands there.  The model keeps the line a bank has written      *)
(* beside its characters, of which a transfer may have cut off the end.  A *)
(* digit is a number; N stands for the letters that begin a transaction    *)
(* type, X for a letter with no meaning.  The folded supplementary line is *)
(* left out.                                                               *)
(***************************************************************************)
EXTENDS Sequences, SequencesExt, StatementDates, Money, Narrative

LetterC == 10
LetterD == 11
LetterR == 12
LetterN == 13
LetterX == 14
Comma   == 15
Slash   == 16

CONSTANTS
  Written, \* the lines that are written
  Amounts  \* the amounts in messages that lines are joined with

Marks == {<<LetterC>>, <<LetterD>>, <<LetterR, LetterC>>, <<LetterR, LetterD>>}

Letters == {LetterC, LetterD, LetterR, LetterN, LetterX}

\* Where a text has two slashes, which stand between the references.
SlashesIn(text) == {i \in 1 .. Len(text) - 1 : text[i] = Slash /\ text[i + 1] = Slash}

\* A line as SWIFT has it: the funds code is a letter, the type four characters
\* that begin with N, the amount has digits, all of those it stands for, and
\* the customer's reference no slashes that could be taken for the separator.
ASSUME LineAssumption ==
  \A w \in Written :
    /\ IsDate(w.value) /\ w.value.year \in 1950 .. 2049
    /\ w.entry = None \/ IsDate(w.entry)
    /\ w.mark \in Marks
    /\ w.funds = <<>> \/ \E c \in Letters : w.funds = <<c>>
    /\ w.amount \in [width : Nat, digits : Nat, decimals : Nat]
    /\ w.amount.width + w.amount.decimals > 0
    /\ w.amount.digits < Pow10(w.amount.width + w.amount.decimals)
    /\ w.type \in Seq(0 .. 16) /\ Len(w.type) = 4 /\ w.type[1] = LetterN
    /\ w.customer \in Seq(0 .. 16) /\ w.bank \in Seq(0 .. 16)
    /\ SlashesIn(w.customer) = {}
    /\ w.bank # <<>> /\ w.customer # <<>> => Last(w.customer) # Slash
    /\ w.narrative \in Seq(Pieces)
    /\ w.lost \in Nat

ASSUME AmountsAssumption == Amounts \subseteq [digits : Nat, decimals : Nat]

VARIABLES
  written, \* the line as the bank means it
  head,    \* its characters, as far as they arrived
  pos,     \* how many have been read
  stage,   \* what is read next
  line     \* what has been read of it

vars == <<written, head, pos, stage, line>>

\* The last k digits of a number.
Digits(n, k) == [i \in 1 .. k |-> (n \div Pow10(k - i)) % 10]

MonthDay(d) == <<d.month \div 10, d.month % 10, d.day \div 10, d.day % 10>>

EncodeAmount(a) == InsertAt(Digits(a.digits, a.width + a.decimals), a.width + 1, Comma)

\* The characters of a line from each subfield on; an empty subfield is one
\* that is missing.
EncodeRefs(w) ==
  w.customer \o (IF w.bank = <<>> THEN <<>> ELSE <<Slash, Slash>> \o w.bank)

AfterAmount(w) == w.type \o EncodeRefs(w)
AfterFunds(w)  == EncodeAmount(w.amount) \o AfterAmount(w)
AfterMark(w)   == w.funds \o AfterFunds(w)
AfterDates(w)  == w.mark \o AfterMark(w)

Encode(w) ==
  <<(w.value.year % 100) \div 10, w.value.year % 10>> \o MonthDay(w.value)
    \o (IF w.entry = None THEN <<>> ELSE MonthDay(w.entry)) \o AfterDates(w)
-----------------------------------------------------------------------------
Rest == SubSeq(head, pos + 1, Len(head))

\* head.get(pos..pos + n) is there, and all of it satisfies Test.
NextAre(n, Test(_)) == Len(Rest) >= n /\ \A i \in 1 .. n : Test(Rest[i])
IsDigit(c)  == c \in 0 .. 9
IsNumeric(c) == c \in 0 .. 9 \cup {Comma}
IsLetter(c) == c \in Letters

\* The number that the next two digits, i in, make.
Two(i) == 10 * Rest[i] + Rest[i + 1]

\* The number that the digits of a text make, separators passed over.
NumberOf(text) ==
  LET number[k \in 0 .. Len(text)] ==
        IF k = 0 THEN 0
        ELSE IF text[k] = Comma THEN number[k - 1] ELSE 10 * number[k - 1] + text[k]
  IN number[Len(text)]

\* parse_mt_amount, of the characters that can stand here: a separator at the
\* end is dropped, more than one makes it no number, and so does no digit.
ParseMtAmount(chars) ==
  LET text   == IF chars # <<>> /\ Last(chars) = Comma THEN Front(chars) ELSE chars
      points == {i \in DOMAIN text : text[i] = Comma}
  IN IF points = DOMAIN text \/ (\E i, j \in points : i # j) THEN NoAmount
     ELSE ParseAmount([digits   |-> NumberOf(text),
                       decimals |-> IF points = {} THEN 0 ELSE Len(text) - Min(points)])

Init ==
  /\ written \in Written
  /\ \E n \in 0 .. Len(Encode(written)) :
       /\ n >= Len(Encode(written)) - written.lost
       /\ head = SubSeq(Encode(written), 1, n)
  /\ pos = 0 /\ stage = "value_date"
  /\ line = [value_date |-> None, entry_date |-> None, mark |-> <<>>, funds |-> <<>>,
             amount |-> NoAmount, type |-> <<>>, customer |-> <<>>, bank |-> <<>>,
             narrative |-> <<>>, struct |-> <<>>, column |-> NoAmount]

\* n characters are subfield `name`, with this value; `next` is tried after it.
Subfield(name, n, value, next) ==
  /\ stage = name
  /\ line' = [line EXCEPT ![name] = value]
  /\ pos' = pos + n
  /\ stage' = next
  /\ UNCHANGED <<written, head>>

YymmddNext == IF NextAre(6, IsDigit) THEN ParseYymmdd(Two(1), Two(3), Two(5)) ELSE None

\* Bug: six characters are passed over whether or not they are there.
ValueDateBlindly == Subfield("value_date", 6, YymmddNext, "entry_date")

ValueDate ==
  Subfield("value_date", IF Len(head) < 6 THEN Len(head) ELSE 6, YymmddNext, "entry_date")

EntryDate ==
  \/ /\ NextAre(4, IsDigit)
     /\ Subfield("entry_date", 4, ParseMmdd(Two(1), Two(3), line.value_date), "mark")
  \/ ~NextAre(4, IsDigit) /\ Subfield("entry_date", 0, None, "mark")

\* Bug: the marks of one letter are tried first.
MarkShortFirst ==
  LET n == IF NextAre(1, LAMBDA c : c \in {LetterC, LetterD, LetterR}) THEN 1 ELSE 0
  IN Subfield("mark", n, SubSeq(Rest, 1, n), "funds")

Mark ==
  LET n == IF Len(Rest) >= 2 /\ <<Rest[1], Rest[2]>> \in Marks THEN 2
           ELSE IF Len(Rest) >= 1 /\ <<Rest[1]>> \in Marks THEN 1 ELSE 0
  IN Subfield("mark", n, SubSeq(Rest, 1, n), "funds")

FundsCode ==
  LET n == IF NextAre(1, IsLetter) THEN 1 ELSE 0
  IN Subfield("funds", n, SubSeq(Rest, 1, n), "amount")

Amount ==
  \E n \in 0 .. Len(Rest) :
    /\ \A i \in 1 .. n : IsNumeric(Rest[i])
    /\ n < Len(Rest) => ~IsNumeric(Rest[n + 1])
    /\ Subfield("amount", n, ParseMtAmount(SubSeq(Rest, 1, n)), "type")

TransactionType ==
  LET n == IF Len(Rest) >= 4 /\ Rest[1] = LetterN THEN 4 ELSE 0
  IN Subfield("type", n, SubSeq(Rest, 1, n), "refs")

\* The references are split at the first "//".
References ==
  LET slashes == SlashesIn(Rest)
  IN /\ stage = "refs" /\ stage' = "narrative"
     /\ line' = IF slashes = {} THEN [line EXCEPT !.customer = Rest]
                ELSE [line EXCEPT !.customer = SubSeq(Rest, 1, Min(slashes) - 1),
                                  !.bank = SubSeq(Rest, Min(slashes) + 2, Len(Rest))]
     /\ UNCHANGED <<written, head, pos>>

Parse61 == ValueDate \/ EntryDate \/ Mark \/ FundsCode \/ Amount \/ TransactionType
             \/ References

\* The :86: field of the line.
JoinNarrative ==
  /\ stage = "narrative" /\ stage' = "column"
  /\ line' = [line EXCEPT !.narrative = Apply86(written.narrative).narrative,
                          !.struct = Apply86(written.narrative).struct]
  /\ UNCHANGED <<written, head, pos>>

\* The row of the line: only the amount is changed on its way to the column.
BuildRow ==
  /\ stage = "column" /\ stage' = "done"
  /\ line' = [line EXCEPT !.column = DecCol(line.amount)]
  /\ UNCHANGED <<written, head, pos>>

Next == Parse61 \/ JoinNarrative \/ BuildRow

Spec == Init /\ [][Next]_vars
-----------------------------------------------------------------------------
Done  == stage = "done"
Whole == head = Encode(written)

(***************************************************************************)
(* The position never leaves the line, wherever the line was cut off: the  *)
(* slices that the rest of the subfields are taken from exist.             *)
(***************************************************************************)
InLine == pos \in 0 .. Len(head)

(***************************************************************************)
(* A line that arrived whole is read as it was written: no optional        *)
(* subfield that is missing is found in the next one, and no letter of a   *)
(* mark, a funds code or a type is taken for another of them.              *)
(***************************************************************************)
ReadAsWritten ==
  Done /\ Whole =>
    /\ \A name \in {"mark", "funds", "type", "customer", "bank"} :
         line[name] = written[name]
    /\ line.amount = ParseAmount(written.amount)

(***************************************************************************)
(* The value date of a whole line comes back as it was written, in the     *)
(* window 1950-2049, and so does the entry date when the two are at most   *)
(* five months apart, over the turn of the year in either direction and on *)
(* 29 February of a year that has one.                                     *)
(***************************************************************************)
DatesSurvive ==
  Done /\ Whole =>
    /\ line.value_date = written.value
    /\ written.entry = None => line.entry_date = None
    /\ written.entry # None /\ Apart(written.entry, written.value) \in -5 .. 5
         => line.entry_date = written.entry

(***************************************************************************)
(* However far apart they were written, the two dates that are read are    *)
(* never more than six months apart.                                       *)
(***************************************************************************)
NeverFarApart ==
  line.entry_date # None => Apart(line.entry_date, line.value_date) \in -6 .. 6

Column == [w \in Amounts |-> DecCol(ParseAmount(w))]

(***************************************************************************)
(* "the amount-equality joins are exact" (README.md:94), for amounts that  *)
(* fit: the line and a payment compare equal exactly when they stand for   *)
(* the same amount, however many zeros it was written with in either.      *)
(***************************************************************************)
JoinsAreExact ==
  Done /\ Whole /\ Fits(written.amount) =>
    \A w \in Amounts : Fits(w) =>
      (line.column = Column[w] <=> SameAmount(w, written.amount))

(***************************************************************************)
(* "Values with more precision are rounded half-up" (money.rs:55): the     *)
(* stored amount is the nearest one of the column's scale.                 *)
(***************************************************************************)
RoundsToNearest ==
  LET w == written.amount
      k == w.decimals - MoneyScale
  IN Done /\ Whole /\ k > 0 /\ w.decimals <= MaxScale /\ w.digits <= MaxMantissa =>
       /\ line.column # NoAmount
       /\ 2 * (line.column.i128 * Pow10(k) - w.digits) \in -Pow10(k) + 1 .. Pow10(k)

(***************************************************************************)
(* "After rescale to 9, mantissa() is value * 10^9" (money.rs:71).  When   *)
(* the mantissa fills up first it is less, and Limit does not tell.        *)
(***************************************************************************)
MantissaIsValue ==
  Done /\ Whole /\ line.column # NoAmount /\ written.amount.decimals <= MoneyScale =>
    line.column.i128 = written.amount.digits * Pow10(MoneyScale - written.amount.decimals)

(***************************************************************************)
(* A narrative that begins with "?" is stored with a pair for each of its  *)
(* ?NN markers, in order, each with the text up to the next question mark, *)
(* an empty one included, whatever else was sanitized; any other narrative *)
(* but one that begins with ">" is stored with none.                       *)
(***************************************************************************)
QuestionMarksSplit ==
  Done => LET text == written.narrative
          IN IF text # <<>> /\ Head(text) = "?" THEN MarkersMake(text, "?", line.struct)
             ELSE text # <<>> /\ Head(text) # ">" => line.struct = <<>>

(***************************************************************************)
(* A stored narrative lines up with the written one, character by          *)
(* character, and what is stored in the pairs stands in the narrative.     *)
(***************************************************************************)
NothingShifts ==
  Done =>
    /\ Len(line.narrative) = Len(written.narrative)
    /\ \A i \in DOMAIN written.narrative :
         IsXChar(written.narrative[i]) => line.narrative[i] = written.narrative[i]
    /\ \A p \in DOMAIN line.struct : \E i \in DOMAIN written.narrative :
         SubSeq(line.narrative, i, i + Len(line.struct[p].text))
           = <<line.struct[p].code>> \o line.struct[p].text

(***************************************************************************)
(* mt940.rs:291 says that a narrative that is "structured (`?NN` / `>NN`   *)
(* markers)" populates narrative_struct.  ">" is not in the X set, and the *)
(* narrative is sanitized before it is split.                              *)
(***************************************************************************)
AngleMarkersSplit ==
  Done => LET text == written.narrative
          IN text # <<>> /\ Head(text) = ">" => MarkersMake(text, ">", line.struct)
=============================================================================
