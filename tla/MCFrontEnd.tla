----------------------------- MODULE MCFrontEnd -----------------------------
(* A proxy with and without a login, and every kind of port that is         *)
(* refused: none, zero, one past the widest, a sixth digit, a letter.       *)
EXTENDS FrontEnd

MCPortTexts == {<<8, 0>>, <<>>, <<0>>, <<6, 5, 5, 3, 6>>, <<0, 0, 0, 0, 8, 0>>,
                <<8, 10>>}
=============================================================================
