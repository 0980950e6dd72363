--------------------------- MODULE MCFileGlobScan ---------------------------
(* Three files 1..3, in sorted order, and one inline text, 0. *)
EXTENDS FileGlobScan

MCFiles == 1 .. 3
MCTexts == {0}
=============================================================================
