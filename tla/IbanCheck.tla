------------------------------ MODULE IbanCheck ------------------------------
(***************************************************************************)
(* iban_mod97_ok (validate.rs): the shape of an IBAN, then the remainder   *)
(* by 97 of the number it stands for, folded character by character into   *)
(* a u32.  A character is its value: a digit 0..9, a letter 10..35, which  *)
(* is two digits of the number, and Other anything else.  Blanks, which    *)
(* are skipped, and lower case, which is raised, are left out.             *)
(***************************************************************************)
EXTENDS Integers, Sequences

CONSTANT Ibans \* the character sequences that are checked

Other  == 36
Digit  == 0 .. 9
Letter == 10 .. 35
Char   == 0 .. Other

ASSUME IbanAssumption == Ibans \subseteq Seq(Char)

VARIABLES
  iban,      \* the sequence being checked
  i,         \* how many characters have been folded
  remainder, \* what they left
  number,    \* history: the number they stand for
  verdict    \* what the function returned, or "none" while it runs

vars == <<iban, i, remainder, number, verdict>>
-----------------------------------------------------------------------------
Shape(s) ==
  /\ Len(s) \in 5 .. 34
  /\ s[1] \in Letter /\ s[2] \in Letter
  /\ s[3] \in Digit /\ s[4] \in Digit

\* Character k with the first four moved to the end.
Rearranged(s, k) == IF k + 4 <= Len(s) THEN s[k + 4] ELSE s[k + 4 - Len(s)]

\* Bug: a letter shifts the number by one digit only.
Fold1(r, c) == (r * 10 + c) % 97

\* What a turn computes before it takes the remainder, and after.
Shifted(r, c) == IF c \in Letter THEN r * 100 + c ELSE r * 10 + c

\* Bug: the remainder is left for the end.
FoldLate(r, c) == Shifted(r, c)

\* Bug: the modulus is off by one.
FoldBy96(r, c) == Shifted(r, c) % 96

Fold(r, c) == Shifted(r, c) % 97

Init ==
  /\ iban \in Ibans
  /\ i = 0 /\ remainder = 0 /\ number = 0 /\ verdict = "none"

\* The early return on a wrong length, country or check digits.
RejectShape ==
  /\ verdict = "none" /\ i = 0 /\ ~Shape(iban)
  /\ verdict' = "bad"
  /\ UNCHANGED <<iban, i, remainder, number>>

FoldCharacter ==
  /\ verdict = "none" /\ Shape(iban) /\ i < Len(iban)
  /\ LET c == Rearranged(iban, i + 1)
     IN IF c = Other
        THEN verdict' = "bad" /\ UNCHANGED <<i, remainder, number>>
        ELSE /\ i' = i + 1
             /\ remainder' = Fold(remainder, c)
             /\ number' = IF c \in Letter THEN number * 100 + c ELSE number * 10 + c
             /\ UNCHANGED verdict
  /\ UNCHANGED iban

Return ==
  /\ verdict = "none" /\ Shape(iban) /\ i = Len(iban)
  /\ verdict' = IF remainder = 1 THEN "good" ELSE "bad"
  /\ UNCHANGED <<iban, i, remainder, number>>

Next == RejectShape \/ FoldCharacter \/ Return

Spec == Init /\ [][Next]_vars
-----------------------------------------------------------------------------
TypeOK ==
  /\ iban \in Seq(Char)
  /\ i \in 0 .. Len(iban)
  /\ remainder \in 0 .. 96
  /\ number \in Nat
  /\ verdict \in {"none", "good", "bad"}

(***************************************************************************)
(* The fold computes the check of ISO 13616 on the whole number, of up to  *)
(* 68 digits: an IBAN is good exactly when all of it was folded and the    *)
(* number is 1 modulo 97.                                                  *)
(***************************************************************************)
ChecksTheNumber ==
  /\ verdict = "good" => Shape(iban) /\ i = Len(iban) /\ number % 97 = 1
  /\ verdict = "bad" /\ Shape(iban) /\ i = Len(iban) => number % 97 # 1

(***************************************************************************)
(* No turn overflows: what is computed before the remainder is taken stays *)
(* far below 2^32, whatever was folded before.                             *)
(***************************************************************************)
NoOverflow == \A c \in Digit \cup Letter : Shifted(remainder, c) < 10000

Substitutions(s) ==
  {[s EXCEPT ![k] = c] : k \in DOMAIN s, c \in Digit \cup Letter}
Swaps(s) ==
  {[s EXCEPT ![k] = s[k + 1], ![k + 1] = s[k]] : k \in 1 .. Len(s) - 1}
SameClasses(s, t) == \A k \in DOMAIN s : s[k] \in Digit <=> t[k] \in Digit

\* The remainder that a whole sequence leaves.
RemainderOf(s) ==
  LET r[k \in 0 .. Len(s)] == IF k = 0 THEN 0 ELSE Fold(r[k - 1], Rearranged(s, k))
  IN r[Len(s)]

(***************************************************************************)
(* What the check is for: next to a good IBAN there is no other good one.  *)
(* A digit taken for another digit, a letter for another letter, and two   *)
(* neighbouring digits or letters swapped are always found out.            *)
(***************************************************************************)
SlipsAreFound ==
  verdict = "good" =>
    \A s \in Substitutions(iban) \cup Swaps(iban) :
      s # iban /\ SameClasses(s, iban) => RemainderOf(s) # 1
=============================================================================
