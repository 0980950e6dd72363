------------------------------- MODULE MCMt940 -------------------------------
(* Files of statements, of lines that only say where statements and blocks *)
(* begin and end, and of interim reports.                                  *)
EXTENDS InterimReport

MCFamilies ==
  {[kinds |-> {"20", "61", "86", "62F", "-", "prose", "{4:", "{", "}"}, lines |-> 5],
   [kinds |-> {"20", "61", "{4:", "{", "}"}, lines |-> 7],
   [kinds |-> {"20", "34F", "34F D", "34F C", "13D", "90D", "90C", "prose"}, lines |-> 5]}
=============================================================================
