----------------------------- MODULE FieldRules -----------------------------
(***************************************************************************)
(* The rules that validate.rs has for both families of messages.  A value  *)
(* is the class that a rule tells apart: a UETR is "uuid" or not, a code   *)
(* "charges" or not, an amount its currency and its decimals, None for an  *)
(* amount that is no number.                                               *)
(***************************************************************************)
EXTENDS Integers

CONSTANTS
  MinorUnit, \* the decimals of the currencies of iso4217_minor_unit
  None       \* Rust's Option::None

ASSUME FieldRulesAssumption ==
  /\ MinorUnit \in [DOMAIN MinorUnit -> 0 .. 3]
  /\ None \notin DOMAIN MinorUnit \cup {"/bad iban", "other"}

\* check_currency: unknown, or more decimals than its minor unit.
CheckCurrency(ccy, decimals) ==
  CASE ccy = None -> {}
    [] ccy \notin DOMAIN MinorUnit \cup {None} -> {"CCY010"}
    [] OTHER -> IF decimals # None /\ decimals > MinorUnit[ccy] THEN {"CCY020"} ELSE {}

\* The rules that each look at one code, one UETR, one BIC, one account.
ErrorIf(bad, code) == IF bad THEN {code} ELSE {}
-----------------------------------------------------------------------------
AmountIsSound(a) == /\ a # None
                    /\ a.decimals # None
                    /\ a.ccy \in DOMAIN MinorUnit
                    /\ a.decimals <= MinorUnit[a.ccy]
=============================================================================
