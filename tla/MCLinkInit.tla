----------------------------- MODULE MCLinkInit -----------------------------
(***************************************************************************)
(* The instance of LinkInit for TLC: three channels, one without a HICANN. *)
(***************************************************************************)
EXTENDS LinkInit

TwoOfThree == {0, 2}
SecondOne  == {2}
=============================================================================
