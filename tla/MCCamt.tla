------------------------------- MODULE MCCamt -------------------------------
(* Documents with the elements that the statement readers look for, with a *)
(* text that ends in a blank and one that is blank.                        *)
EXTENDS Camt

MCNesting == {<<Top, Body>>, <<Body, Statement>>, <<Statement, "Ntry">>,
              <<"Ntry", "NtryDtls">>, <<"NtryDtls", "TxDtls">>}

MCTexts == {<<"x", " ">>, <<" ">>}
=============================================================================
