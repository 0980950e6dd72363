---------------------------- MODULE MCFieldValues ----------------------------
(* Fields with and without their optional parts, dates at both ends of the *)
(* window of years, zones on both sides of UTC, parties with accounts,     *)
(* names that look like a BIC, blanks and wide characters; and IBANs of    *)
(* the least length and one more, and too short or with a character out of *)
(* place.  The first letter of a number of ten digits is small enough for  *)
(* TLC's integers.                                                         *)
EXTENDS FieldValues

CONSTANT MaxTokens \* bound on the tokens of a :72:

MCCountry == {10, 20}
MCBban    == {0, 1, 5, 9, 10, 20, Other}
MCIbans   ==
  LET head == {<<a, b, c, d>> : a, b \in MCCountry, c, d \in Digit}
  IN {<<>>, <<10, 20, 1>>, <<10, 5, 1, 1, 1>>, <<10, 20, 1, 11, 1>>}
       \cup {h \o <<x>> : h \in head, x \in MCBban}
       \cup {h \o <<x, y>> : h \in head, x, y \in MCBban}

Means(kind, S) == {[kind |-> kind, means |-> m] : m \in S}

Dates == {FromYmd(1950, 12, 31), FromYmd(2024, 2, 29), FromYmd(2049, 1, 1)}
Marks == {<<>>, <<Credit>>, <<Debit>>}
Sums  == {0, 5, 120}
\* EUR, and a currency that begins like a mark.
Ccys  == {<<14, 30, 27>>, <<Debit, 20, 20>>}

\* Markers, the second half of one, values and what separates them.
MCInfo ==
  LET marker(w) == <<Slash, w, Slash>>
      tokens == {marker(EToE), marker(ETOE), marker(UETR), Tail(marker(EToE)),
                 <<10>>, <<Slash>>, <<Blank>>, <<Newline>>}
  IN {FlattenSeq(t) : t \in UNION {[1 .. k -> tokens] : k \in 0 .. MaxTokens}}

MCTexts ==
  Means("60F", [dc : Marks, date : Dates, ccy : Ccys, digits : Sums])
  \cup Means("32A", [date : Dates, ccy : Ccys, digits : Sums])
  \cup Means("33B", [ccy : Ccys, digits : Sums])
  \cup Means("34F", [dc : Marks, ccy : Ccys, digits : Sums])
  \cup Means("90D", [count : {0, 7, 99, 100}, ccy : Ccys, digits : Sums])
  \cup Means("13D", [date : Dates, hour : {0, 14, 23}, minute : {0, 59},
                     sign : {<<Plus>>, <<Minus>>},
                     east : {<<0, 0>>, <<1, 0>>, <<3, 30>>, <<12, 45>>, <<23, 59>>}])
  \cup Means("28C", [number : {<<1>>, <<9, 9>>}, sequence : {<<>>, <<1>>}])
  \cup Means("61", [type : {<<23, 29, 27, 15>>, <<28, 1, 0, 3>>, <<15, 10, 10, 10>>},
                    refs : {<<>>, <<1>>, <<14, 23>>}])
  \cup Means("72", MCInfo)

Name == <<10, 12, 22, 14>>
NameLikeBic == <<10, 12, 22, 14, 12, 24, 27, 25>>
Bic == <<13, 14, 30, 29, 13, 14, 15, 15>>
Account(a) == <<Slash>> \o a
MCFirst == {Account(<<10, 10, x, y, z>>) : x \in {0, 1}, y, z \in Digit}
             \cup {Account(Account(<<10, 10, 0, 7, 5>>)), Account(<<1, 2, 3>>), Account(<<>>),
                   <<Blank>> \o Account(<<10, 10, 0, 7, 5>>),
                   Account(<<10, 10, 7, 2, Blank, 0>>), Account(<<10, 10, 7, 2, Wide, Cont>>)}
MCLine  == {Name, NameLikeBic, Bic, <<Blank>> \o Bic, Bic \o <<11, 11, 11>>, <<>>,
            <<10, Wide, Cont>>}

MCParties == Means("party", {<<f>> \o rest : f \in MCFirst, rest \in UNION {[1 .. k -> MCLine] : k \in 0 .. 1}}
                     \cup UNION {[1 .. k -> MCLine] : k \in 1 .. 3})

MCFields == MCTexts \cup MCParties
=============================================================================
