-------------------------- MODULE MCStatementLine --------------------------
(* Four families of lines, each with everything that matters to one part: *)
(* the optional subfields with every letter that a subfield beside them    *)
(* could be taken for, cut off anywhere; dates at both ends of the window  *)
(* of years and around a leap year; amounts below, at and above what fits  *)
(* a mantissa of eight bits, with more and fewer zeros; narratives.        *)
EXTENDS StatementLine

CONSTANT MaxPieces \* bound on the length of a narrative

Date(y, m, d) == [year |-> y, month |-> m, day |-> d]

Dates(years) == {FromYmd(y, m, d) : y \in years, m \in 1 .. 12, d \in {1, 29, 31}}
                  \ {None}

Plain == [value |-> Date(2026, 1, 2), entry |-> Date(2025, 12, 31), mark |-> <<LetterC>>,
          funds |-> <<>>, amount |-> [width |-> 1, digits |-> 25, decimals |-> 1],
          type |-> <<LetterN, 9, 9, 9>>, customer |-> <<LetterX>>, bank |-> <<>>,
          narrative |-> <<>>, lost |-> 0]

MCSubfields ==
  [value     : {Plain.value},
   entry     : {Plain.entry, None},
   mark      : Marks,
   funds     : {<<>>} \cup {<<c>> : c \in Letters},
   amount    : {Plain.amount, [width |-> 4, digits |-> 90, decimals |-> 0]},
   type      : {<<LetterN, LetterN, LetterC, LetterD>>, Plain.type},
   customer  : {<<>>, <<LetterX>>, <<9, Comma>>, <<LetterN, Slash, LetterC>>},
   bank      : {<<>>, <<LetterD>>, <<Slash, 9>>},
   narrative : {<<>>},
   lost      : {40}]

\* The dates around the turn of a year, at most seven months apart.
MCDates ==
  UNION {{[Plain EXCEPT !.value = v, !.entry = e] :
            e \in {d \in Dates({v.year - 1, v.year, v.year + 1}) : Apart(d, v) \in -7 .. 7}} :
           v \in Dates({1950, 1999, 2023, 2024, 2049})}

MCAmounts ==
  [digits : (0 .. 12) \cup {20, 25, 50, 99, 100, 105, 120, 149, 150, 200, 250, 255, 256,
                            1000, 2549, 2550, 2555, 25600},
   decimals : 0 .. 4]

MCRounded == {[Plain EXCEPT !.amount = [width |-> 5] @@ a] : a \in MCAmounts}

MCNarratives ==
  {[Plain EXCEPT !.narrative = n] : n \in UNION {[1 .. k -> Pieces] : k \in 1 .. MaxPieces}}

MCWritten == MCSubfields \cup MCDates \cup MCRounded \cup MCNarratives
=============================================================================
