--------------------------- MODULE StatementDates ---------------------------
(***************************************************************************)
(* The dates of a statement line (dates.rs, as parse_61 in mt940.rs calls  *)
(* it): a value date of six digits, YYMMDD, and an optional entry date of  *)
(* four, MMDD, whose year is inferred from the value date's.               *)
(***************************************************************************)
EXTENDS Integers

LeapYear(y) == y % 4 = 0 /\ (y % 100 # 0 \/ y % 400 = 0)

DaysIn(y, m) == CASE m = 2              -> IF LeapYear(y) THEN 29 ELSE 28
                  [] m \in {4, 6, 9, 11} -> 30
                  [] OTHER              -> 31

\* Rust's Option::None.
None == [none |-> TRUE]

\* NaiveDate::from_ymd_opt: a date of the calendar, or None.
FromYmd(y, m, d) ==
  IF m \in 1 .. 12 /\ d \in 1 .. DaysIn(y, m)
  THEN [year |-> y, month |-> m, day |-> d] ELSE None

\* Bug: the window of two-digit years starts at 1970.
PivotYear70(yy) == IF yy <= 69 THEN 2000 + yy ELSE 1900 + yy

PivotYear(yy) == IF yy <= 49 THEN 2000 + yy ELSE 1900 + yy

ParseYymmdd(yy, mm, dd) == FromYmd(PivotYear(yy), mm, dd)

\* Bug: the year is only ever rolled forward.
YearShiftForward(mm, month) == IF month - mm > 6 THEN 1 ELSE 0

\* parse_mmdd: the year of the value date, or the one before when the month
\* lies far ahead, or the one after when it lies far behind.
YearShift(mm, month) == IF mm - month > 6 THEN -1 ELSE IF month - mm > 6 THEN 1 ELSE 0

ParseMmdd(mm, dd, vd) ==
  IF vd = None THEN None ELSE FromYmd(vd.year + YearShift(mm, vd.month), mm, dd)
-----------------------------------------------------------------------------
\* A date of the calendar.
IsDate(d) == /\ d = [year |-> d.year, month |-> d.month, day |-> d.day]
             /\ d.year \in Int /\ d.month \in 1 .. 12
             /\ d.day \in 1 .. DaysIn(d.year, d.month)

Months(d) == 12 * d.year + d.month

Apart(d, e) == Months(d) - Months(e)
=============================================================================
