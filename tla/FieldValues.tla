----------------------------- MODULE FieldValues -----------------------------
(***************************************************************************)
(* The values of fields (mt/field.rs, parse_balance of mt940.rs, :13D:,    *)
(* :28C:, :34F: and :90D: of mt942.rs, :72: of mt103.rs) and the account   *)
(* that validation takes from one (validate.rs).  A value has no           *)
(* separators: its parts are found by counting bytes.  The model keeps     *)
(* what the sender means beside the bytes that arrive; a transfer may cut  *)
(* them off, or put a character of several bytes for one of them, as the   *)
(* lossy decoding of a file in another code page does.                     *)
(*                                                                         *)
(* A byte is a character of IbanCheck, one of those below, or a byte of a  *)
(* wide character, the first Wide and the others Cont.  A text that is     *)
(* missing (None) is <<>>, and so is a missing number; one that is there   *)
(* is <<n>>.  An amount is its digits; Money has what they are worth.      *)
(***************************************************************************)
EXTENDS IbanCheck, SequencesExt, StatementDates, Selection

CONSTANTS
  Fields,  \* the fields that are written, [kind, means]
  MaxInt32 \* 2^31 - 1

Blank   == 37
Slash   == 38
Plus    == 39
Minus   == 40
Newline == 41
Wide    == 42
Cont    == 43
Byte    == 0 .. 43

\* The words that mark a value in :72:, which are one character here.
EToE    == 33
ETOE    == 34
UETR    == 35

Credit  == 12 \* the letters C and D
Debit   == 13
TypeLetters == {15, 23, 28} \* F, N and S

ASSUME FieldAssumption ==
  /\ \A f \in Fields : f.kind \in {"60F", "32A", "33B", "34F", "90D", "13D", "28C",
                                   "61", "72", "party"}
  /\ MaxInt32 \in Nat

VARIABLES
  field, \* what is written
  value, \* its bytes as they arrive; the lines of a party
  read,  \* what the program reads, Unread before, Panic when a slice fails
  stage  \* arrived, check (the IBAN check runs), done

all == <<field, value, read, stage, vars>>

Unread == [unread |-> TRUE]
Panic  == [panic |-> TRUE]
-----------------------------------------------------------------------------
\* str::is_char_boundary, str::get, and the slices that panic instead.
Boundary(v, p) == p = 0 \/ p = Len(v) \/ (p \in 1 .. Len(v) - 1 /\ v[p + 1] # Cont)
Sliceable(v, a, b) == a <= b /\ Boundary(v, a) /\ Boundary(v, b)

\* Bug: what is cut off is read as far as it goes.
GetAsFarAsItGoes(v, a, b) == SubSeq(v, a + 1, IF b <= Len(v) THEN b ELSE Len(v))

Get(v, a, b) == IF Sliceable(v, a, b) THEN SubSeq(v, a + 1, b) ELSE <<>>

GetFrom(v, a) == Get(v, a, Len(v))

AllIn(v, S) == \A p \in DOMAIN v : v[p] \in S

\* The least position at which Test holds, or one past the end.
FirstAt(v, Test(_)) ==
  LET p == SelectInSeq(v, Test) IN IF p = 0 THEN Len(v) + 1 ELSE p

Trim(v) ==
  LET inner == {p \in DOMAIN v : v[p] # Blank}
  IN IF inner = {} THEN <<>> ELSE SubSeq(v, Min(inner), Max(inner))

\* trim_start_matches('/').
DropSlashes(v) == SubSeq(v, FirstAt(v, LAMBDA c : c # Slash), Len(v))

NumberOf(v) ==
  LET n[k \in 0 .. Len(v)] == IF k = 0 THEN 0 ELSE 10 * n[k - 1] + v[k]
  IN n[Len(v)]

\* parse_mt_amount, of digits.
ParseMtAmount(v) == IF v # <<>> /\ AllIn(v, Digit) THEN <<NumberOf(v)>> ELSE <<>>

ParseDate(v) ==
  IF Len(v) = 6 /\ AllIn(v, Digit)
  THEN ParseYymmdd(10 * v[1] + v[2], 10 * v[3] + v[4], 10 * v[5] + v[6]) ELSE None
-----------------------------------------------------------------------------
\* A debit balance is negative.
Signed(dc, amount) ==
  IF dc = <<Debit>> THEN [p \in DOMAIN amount |-> -amount[p]] ELSE amount

\* parse_balance: a part that is too short to be there is not passed over.
ParseBalance(v) ==
  LET dc     == IF v # <<>> /\ v[1] \in {Credit, Debit} THEN <<v[1]>> ELSE <<>>
      p      == Len(dc)
      q      == IF Len(v) >= p + 6 THEN p + 6 ELSE p
      r      == IF Len(v) >= q + 3 THEN q + 3 ELSE q
  IN [dc |-> dc, date |-> ParseDate(Get(v, p, p + 6)), ccy |-> Get(v, q, q + 3),
      amount |-> Signed(dc, ParseMtAmount(GetFrom(v, r)))]

Parse32a(v) ==
  [date |-> ParseDate(Get(v, 0, 6)), ccy |-> Get(v, 6, 9),
   amount |-> ParseMtAmount(GetFrom(v, 9))]

ParseCcyAmount(v) == [ccy |-> Get(v, 0, 3), amount |-> ParseMtAmount(GetFrom(v, 3))]

Parse34f(v) ==
  LET rest == GetFrom(v, 3)
      dc   == IF rest # <<>> /\ rest[1] \in {Credit, Debit} THEN <<rest[1]>> ELSE <<>>
  IN [ccy |-> Get(v, 0, 3), dc |-> dc, amount |-> ParseMtAmount(GetFrom(rest, Len(dc)))]

\* parse_90: the digits are the count, if an i32 can hold it.
Parse90(v) ==
  LET k     == FirstAt(v, LAMBDA c : c \notin Digit) - 1
      n     == NumberOf(SubSeq(v, 1, k))
      sum   == ParseCcyAmount(SubSeq(v, k + 1, Len(v)))
  IN [count |-> IF k > 0 /\ n <= MaxInt32 THEN <<n>> ELSE <<>>,
      ccy |-> sum.ccy, amount |-> sum.amount]

\* Bug: the minutes of an offset to the west are added.
OffsetHoursOnly(sign, h, m) == IF sign = <<Minus>> THEN -60 * h + m ELSE 60 * h + m

\* The offset from UTC, in minutes: any sign but "-" is east.
Offset(sign, h, m) == IF sign = <<Minus>> THEN -(60 * h + m) ELSE 60 * h + m

\* A moment as the minutes of a day in UTC, which the offset may put before
\* or after that day; FixedOffset and and_hms_opt refuse what is out of range.
Moment(date, h, m, offset) ==
  IF h < 24 /\ m < 60 /\ offset \in -1439 .. 1439
  THEN [date |-> date, minutes |-> 60 * h + m - offset] ELSE None

\* The parts of a :13D:, each from after one byte up to another.
Parts13d == <<<<0, 6>>, <<6, 8>>, <<8, 10>>, <<10, 11>>, <<11, 13>>, <<13, 15>>>>
Part13d(v, k) == SubSeq(v, Parts13d[k][1] + 1, Parts13d[k][2])

\* Bug: the offset is taken to be there.
LongEnoughToMinute(v) == Len(v) >= 10

LongEnough13d(v) == Len(v) >= 15

\* parse_13d takes the parts one after the other: what comes first decides, a
\* part that cannot be sliced or one that cannot be parsed.  (str::parse would
\* also take a sign before a digit; no part written here has one.)
Parse13d(v) ==
  LET unsliceable == {k \in 1 .. 6 : ~Sliceable(v, Parts13d[k][1], Parts13d[k][2])}
      malformed   == {k \in 1 .. 6 \ ({4} \cup unsliceable) :
                        IF k = 1 THEN ParseDate(Part13d(v, k)) = None
                        ELSE ~AllIn(Part13d(v, k), Digit)}
      part(k)     == NumberOf(Part13d(v, k))
  IN IF ~LongEnough13d(v) THEN None
     ELSE IF unsliceable \cup malformed # {}
     THEN IF Min(unsliceable \cup malformed) \in unsliceable THEN Panic ELSE None
     ELSE Moment(ParseDate(Part13d(v, 1)), part(2), part(3),
                 Offset(Part13d(v, 4), part(5), part(6)))

\* split_28c, at the first slash.
Split28c(v) ==
  LET p == FirstAt(v, LAMBDA c : c = Slash)
  IN [number |-> Trim(SubSeq(v, 1, p - 1)), sequence |-> Trim(SubSeq(v, p + 1, Len(v)))]

\* The type in a :61: (parse_61), of what follows the amount.
SplitType(v) ==
  IF Len(v) >= 4 /\ v[1] \in TypeLetters
  THEN IF Sliceable(v, 0, 4) THEN [type |-> Get(v, 0, 4), refs |-> GetFrom(v, 4)] ELSE Panic
  ELSE [type |-> <<>>, refs |-> v]

\* structured_token: what follows the first /WORD/, up to a slash or the line's end.
StructuredToken(v, word) ==
  LET at   == {p \in 1 .. Len(v) - 2 : SubSeq(v, p, p + 2) = <<Slash, word, Slash>>}
      tail == SubSeq(v, Min(at) + 3, Len(v))
  IN IF at = {} THEN <<>>
     ELSE Trim(SubSeq(tail, 1, FirstAt(tail, LAMBDA c : c \in {Slash, Newline}) - 1))

\* Bug: the first marker decides, though nothing follows it.
DeriveFromFirstMarker(v) ==
  LET word == SelectInSeq(<<EToE, ETOE, UETR>>, LAMBDA w : \E p \in DOMAIN v : v[p] = w)
  IN IF word = 0 THEN <<>> ELSE StructuredToken(v, <<EToE, ETOE, UETR>>[word])

\* derive_end_to_end: the first marker that has a value.
DeriveEndToEnd(v) ==
  LET word == SelectInSeq(<<EToE, ETOE, UETR>>, LAMBDA w : StructuredToken(v, w) # <<>>)
  IN IF word = 0 THEN <<>> ELSE StructuredToken(v, <<EToE, ETOE, UETR>>[word])
-----------------------------------------------------------------------------
IsBic(v) ==
  /\ Len(v) \in {8, 11}
  /\ \A p \in DOMAIN v : v[p] \in Letter \/ (p > 6 /\ v[p] \in Digit)

\* sanitize_x, which puts a dot (Other) for a wide character.
Sanitize(v) ==
  LET s == Keep(v, {p \in DOMAIN v : v[p] # Cont})
  IN [p \in DOMAIN s |-> IF s[p] = Wide THEN Other ELSE s[p]]

\* Bug: no line that looks like a BIC is part of the name.
NameLinesWithoutBics(lines, b) == SelectSeq(lines, LAMBDA l : ~IsBic(Trim(l)))

\* The lines of the name: all but the one that is the BIC.
NameLines(lines, b) ==
  IF b = 0 THEN lines ELSE SubSeq(lines, 1, b - 1) \o SubSeq(lines, b + 1, Len(lines))

\* parse_party.
ParseParty(lines) ==
  LET rest  == IF Head(lines) # <<>> /\ Head(lines)[1] = Slash THEN Tail(lines) ELSE lines
      b     == SelectInSeq(rest, LAMBDA l : IsBic(Trim(l)))
      names == NameLines(rest, b)
  IN [account |-> IF rest = lines THEN <<>> ELSE Sanitize(Trim(DropSlashes(Head(lines)))),
      bic     |-> IF b = 0 THEN <<>> ELSE Trim(rest[b]),
      name    |-> [p \in DOMAIN names |-> Sanitize(names[p])]]

\* Bug: two slashes before an account are not both dropped.
FirstAccountOneSlash(lines) ==
  LET f == Trim(Head(lines))
  IN IF f # <<>> /\ f[1] = Slash THEN Trim(Tail(f)) ELSE <<>>

\* first_account_line, which validation uses instead.
FirstAccountLine(lines) ==
  LET f == Trim(Head(lines))
  IN IF f # <<>> /\ f[1] = Slash THEN Trim(DropSlashes(f)) ELSE <<>>

\* check_iban_if_iban_like.
IbanLike(v) == Len(v) >= 5 /\ AllIn(SubSeq(v, 1, 2), Letter) /\ AllIn(SubSeq(v, 3, 4), Digit)

\* What iban_mod97_ok folds: without blanks, and anything it refuses is Other.
IbanOf(v) ==
  LET s == Keep(v, {p \in DOMAIN v : v[p] # Blank})
  IN [p \in DOMAIN s |-> IF s[p] \in Digit \cup Letter THEN s[p] ELSE Other]
-----------------------------------------------------------------------------
Yymmdd(d) == LET y == d.year % 100
             IN <<y \div 10, y % 10, d.month \div 10, d.month % 10, d.day \div 10, d.day % 10>>
TwoDigits(n) == <<n \div 10, n % 10>>

\* The number in as few digits as it takes, of at most three.
DigitsOf(n) == IF n > 99 THEN <<n \div 100, (n \div 10) % 10, n % 10>>
               ELSE IF n > 9 THEN TwoDigits(n) ELSE <<n>>

\* How a field is written.
Encode(kind, m) ==
  CASE kind = "60F" -> m.dc \o Yymmdd(m.date) \o m.ccy \o DigitsOf(m.digits)
    [] kind = "32A" -> Yymmdd(m.date) \o m.ccy \o DigitsOf(m.digits)
    [] kind = "33B" -> m.ccy \o DigitsOf(m.digits)
    [] kind = "34F" -> m.ccy \o m.dc \o DigitsOf(m.digits)
    [] kind = "90D" -> DigitsOf(m.count) \o m.ccy \o DigitsOf(m.digits)
    [] kind = "13D" -> Yymmdd(m.date) \o TwoDigits(m.hour) \o TwoDigits(m.minute)
                         \o m.sign \o TwoDigits(m.east[1]) \o TwoDigits(m.east[2])
    [] kind = "28C" -> m.number \o (IF m.sequence = <<>> THEN <<>> ELSE <<Slash>> \o m.sequence)
    [] kind = "61"  -> m.type \o m.refs
    [] OTHER        -> m \* :72: and the lines of a party, as they are

\* What a field of each kind can mean.
IsMeaning(kind, m) ==
  /\ kind \in {"60F", "32A", "13D"} => IsDate(m.date) /\ m.date.year \in 1950 .. 2049
  /\ kind \in {"60F", "32A", "33B", "34F", "90D"} =>
       m.ccy \in Seq(Letter) /\ Len(m.ccy) = 3 /\ m.digits \in 0 .. 999
  /\ kind \in {"60F", "34F"} => m.dc \in {<<>>, <<Credit>>, <<Debit>>}
  /\ kind = "90D" => m.count \in 0 .. 999
  /\ kind = "13D" => /\ m.hour \in 0 .. 23 /\ m.minute \in 0 .. 59
                     /\ m.sign \in {<<Plus>>, <<Minus>>}
                     /\ m.east \in (0 .. 23) \X (0 .. 59)
  /\ kind = "28C" => m \in [number : Seq(Digit), sequence : Seq(Digit)]
  /\ kind = "61" => /\ m \in [type : Seq(Digit \cup Letter), refs : Seq(Digit \cup Letter)]
                    /\ Len(m.type) = 4 /\ m.type[1] \in TypeLetters

\* A text of characters: none begins with a byte that continues one.
Text == {v \in Seq(Byte) : \A p \in DOMAIN v : v[p] = Cont =>
                              p > 1 /\ v[p - 1] \in {Wide, Cont}}

ASSUME EncodeAssumption ==
  /\ \A f \in Fields : IF f.kind = "party" THEN f.means \in Seq(Text) \ {<<>>}
                        ELSE Encode(f.kind, f.means) \in Seq(Byte)
  /\ \A f \in Fields : IsMeaning(f.kind, f.means)
  /\ Unread \notin Fields

\* What a transfer makes of a text: all of it, a beginning, or with a wide
\* character of two or three bytes in the place of one.
CutOff(v)   == {SubSeq(v, 1, k) : k \in 0 .. Len(v)}
Damaged(v)  == UNION {{SubSeq(v, 1, p - 1) \o w \o SubSeq(v, p + 1, Len(v)) :
                         w \in {<<Wide, Cont>>, <<Wide, Cont, Cont>>}} : p \in DOMAIN v}

Parse(kind, v) ==
  CASE kind = "60F"   -> ParseBalance(v)
    [] kind = "32A"   -> Parse32a(v)
    [] kind = "33B"   -> ParseCcyAmount(v)
    [] kind = "34F"   -> Parse34f(v)
    [] kind = "90D"   -> Parse90(v)
    [] kind = "13D"   -> Parse13d(v)
    [] kind = "28C"   -> Split28c(v)
    [] kind = "61"    -> SplitType(v)
    [] kind = "72"    -> [end_to_end |-> DeriveEndToEnd(v)]
    [] kind = "party" -> ParseParty(v)

\* A field arrives, or an IBAN is checked that stands elsewhere (an MX element).
FieldInit ==
  \/ /\ field \in Fields /\ stage = "arrived" /\ read = Unread
     /\ LET v == Encode(field.kind, field.means)
        IN IF field.kind \in {"party", "72"} THEN value = v
           ELSE \E w \in CutOff(v) \cup Damaged(v) : value = w
     /\ iban = <<>> /\ i = 0 /\ remainder = 0 /\ number = 0 /\ verdict = "none"
  \/ Init /\ stage = "check" /\ field = Unread /\ value = <<>> /\ read = Unread

ReadField ==
  /\ stage = "arrived" /\ read' = Parse(field.kind, value)
  /\ LET account == IF field.kind = "party" THEN FirstAccountLine(value) ELSE <<>>
     IN IF IbanLike(account) THEN stage' = "check" /\ iban' = IbanOf(account)
        ELSE stage' = "done" /\ UNCHANGED iban
  /\ UNCHANGED <<field, value, i, remainder, number, verdict>>

CheckIban ==
  /\ stage = "check" /\ Next
  /\ stage' = IF verdict' = "none" THEN "check" ELSE "done"
  /\ UNCHANGED <<field, value, read>>

FieldNext == ReadField \/ CheckIban

FieldSpec == FieldInit /\ [][FieldNext]_all
-----------------------------------------------------------------------------
WasRead == stage # "arrived" /\ field # Unread
Whole   == value = Encode(field.kind, field.means)
Is(kinds) == WasRead /\ field.kind \in kinds

\* The moment that a :13D: means: minutes after the start of its day in UTC.
MeantMinutes(m) ==
  60 * m.hour + m.minute
    - (IF m.sign = <<Minus>> THEN -1 ELSE 1) * (60 * m.east[1] + m.east[2])

(***************************************************************************)
(* A field that arrives whole is read as it was meant: a balance with its  *)
(* sign, whether or not it has a mark; a limit with its own mark and not   *)
(* the first letter of an amount or a currency; a moment in any zone, also *)
(* west of Greenwich by half an hour.                                      *)
(***************************************************************************)
WholeFieldsRead ==
  WasRead /\ Whole =>
    LET m == field.means
        kind == field.kind
    IN /\ kind \in {"60F", "32A"} => read.date = m.date
       /\ kind \in {"60F", "32A", "33B", "34F", "90D"} => read.ccy = m.ccy
       /\ kind \in {"60F", "34F"} => read.dc = m.dc
       /\ kind \in {"32A", "33B", "34F", "90D"} => read.amount = <<m.digits>>
       /\ kind = "60F" =>
            read.amount = <<IF m.dc = <<Debit>> THEN 0 - m.digits ELSE m.digits>>
       /\ kind = "90D" => read.count = IF m.count <= MaxInt32 THEN <<m.count>> ELSE <<>>
       /\ kind = "13D" => read = [date |-> m.date, minutes |-> MeantMinutes(m)]
       /\ kind \in {"28C", "61"} => read = m

(***************************************************************************)
(* "malformed input yields `None`" (lib.rs:7): of a field that is cut off  *)
(* anywhere, no part of fixed width but a date, a currency, a mark or a    *)
(* type that was written is read, and no moment at all.  A balance is left *)
(* out: cut off in its date, it has the year and the month's first digit   *)
(* for its currency.                                                       *)
(***************************************************************************)
CutOffInventsNothing ==
  Is({"32A", "33B", "34F", "90D", "13D", "61"}) /\ ~Whole =>
    LET m == field.means
        kind == field.kind
    IN value \in CutOff(Encode(kind, m)) =>
         /\ kind = "32A" => read.date \in {None, m.date}
         /\ kind \in {"32A", "33B", "34F", "90D"} => read.ccy \in {<<>>, m.ccy}
         /\ kind = "34F" => read.dc \in {<<>>, m.dc}
         /\ kind = "13D" => read = None
         /\ kind = "61"  => read.type \in {<<>>, m.type}

(***************************************************************************)
(* A text whose characters are one byte each is never sliced out of range, *)
(* wherever it was cut off.                                                *)
(***************************************************************************)
AsciiNeverPanics ==
  WasRead /\ field.kind # "party" /\ Cont \notin ToSet(value) => read # Panic

(***************************************************************************)
(* Every line of a party is in one column and in one only: a first line    *)
(* with a slash is the account, one other line may be the BIC, and the     *)
(* rest is the name and address, in its order.                             *)
(***************************************************************************)
PartyLosesNothing ==
  Is({"party"}) =>
    LET first == IF value[1] # <<>> /\ value[1][1] = Slash THEN 2 ELSE 1
        name(p) == read.name[p] = Sanitize(value[first + p - 1])
        later(p) == read.name[p] = Sanitize(value[first + p])
    IN \/ /\ read.bic = <<>> /\ Len(read.name) = Len(value) - first + 1
          /\ \A p \in DOMAIN read.name : name(p)
       \/ \E b \in first .. Len(value) :
            /\ read.bic = Trim(value[b]) /\ IsBic(read.bic)
            /\ Len(read.name) = Len(value) - first
            /\ \A p \in DOMAIN read.name :
                 IF first + p - 1 < b THEN name(p) ELSE later(p)

(***************************************************************************)
(* validate.rs reads the account of a party again, by a rule of its own.   *)
(* Still an account in the reader's column that looks like an IBAN was     *)
(* checked: when no error was found, it is 1 modulo 97.                    *)
(***************************************************************************)
ReadAccountIsChecked ==
  stage = "done" /\ Is({"party"}) /\ IbanLike(read.account) =>
    /\ verdict # "none"
    /\ verdict = "good" => iban = IbanOf(read.account) /\ number % 97 = 1

(***************************************************************************)
(* The end-to-end id is a value that follows a marker of :72:; there is    *)
(* one as soon as any marker has a value, unless one of the same name      *)
(* without a value stands before it.                                       *)
(***************************************************************************)
EndToEndOfItsMarker ==
  Is({"72"}) =>
    LET words == {EToE, ETOE, UETR}
        marks == {p \in 1 .. Len(value) - 2 : /\ value[p] = Slash /\ value[p + 2] = Slash
                                             /\ value[p + 1] \in words}
        from(p, q) == q \in p + 3 .. Len(value) /\ value[q] \notin {Slash, Newline, Blank}
                      /\ \A r \in p + 3 .. q - 1 : value[r] \notin {Slash, Newline}
        valued == {p \in marks : \E q \in DOMAIN value : from(p, q)}
        id == read.end_to_end
    IN /\ id # <<>> =>
            /\ Slash \notin ToSet(id)
            /\ \E p \in marks, q \in DOMAIN value :
                 from(p, q) /\ SubSeq(value, q, q + Len(id) - 1) = id
       /\ id = <<>> => \A p \in valued : \E q \in marks \ valued :
                         q < p /\ value[q + 1] = value[p + 1]

(***************************************************************************)
(* "Every public entry point is total: malformed input yields None / an    *)
(* empty result / captured validation errors, never a panic" (lib.rs:6).   *)
(***************************************************************************)
NeverPanics == read # Panic
=============================================================================
