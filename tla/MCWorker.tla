------------------------------ MODULE MCWorker ------------------------------
(***************************************************************************)
(* The worker's calls, one kind of service at a time: a process exploding  *)
(* batches, one computing scalar functions, one building the batch of a    *)
(* file.  They share nothing but the files.  Messages with no, one and two *)
(* children; the first is the empty one.                                   *)
(***************************************************************************)
EXTENDS ScalarFunctions, TableBuild

MCMessages == {"", "one line", "two lines"}
MCChildren == [m \in MCMessages |->
                 CASE m = "" -> 0 [] m = "one line" -> 1 [] OTHER -> 2]
MCErrors   == [m \in MCMessages |->
                 CASE m = "" -> 1 [] m = "one line" -> 0 [] OTHER -> 2]
MCLabel    == [m \in MCMessages |-> IF m = "one line" THEN "MT940" ELSE Null]
MCAmount   == [m \in MCMessages |-> IF m = "two lines" THEN "1.5" ELSE Null]

Tag(number, option) == [number |-> number, option |-> option]
MCTags ==
  [m \in MCMessages |->
     CASE m = ""         -> <<>>
       [] m = "one line" -> <<Tag("71", "F"), Tag("50", "A"), Tag("71", "F")>>
       [] OTHER          -> <<Tag("20", ""), Tag("50", "K"), Tag("50", "A")>>]
MCAsked == {Tag("50", ""), Tag("50", "K"), Tag("71", "F")}

\* Messages with next to nothing and with next to everything.
MCMessagesOf(t) ==
  LET places == Named(t) \cup Told(t)
      few    == {{}} \cup {{p, q} : p, q \in places}
  IN {m \in few \cup {places \ s : s \in few} : Possible(m)}

VARIABLE service

NoTable == /\ table = "lines" /\ message = {} /\ doing = "idle"
           /\ rows = <<>> /\ columns = <<>>

WorkerInit ==
  /\ ScalarInit
  /\ \/ service \in {"exploder", "scalar"} /\ NoTable
     \/ service = "table" /\ TableInit /\ fs = [f \in Files |-> Missing]

WorkerNext ==
  /\ UNCHANGED service
  /\ \/ service = "exploder" /\ Next /\ UNCHANGED <<scalarVars, tableVars>>
     \/ service = "scalar" /\ ScalarNext /\ UNCHANGED tableVars
     \/ service = "table" /\ TableNext /\ UNCHANGED <<vars, scalarVars>>

WorkerSpec == WorkerInit /\ [][WorkerNext]_<<vars, scalarVars, tableVars, service>>
=============================================================================
