--------------------------- MODULE MCSpikeTrains ---------------------------
(***************************************************************************)
(* Instances of SpikeTrains for TLC: two pulse addresses, which are        *)
(* interchangeable, and distances around every limit of the code.          *)
(***************************************************************************)
EXTENDS SpikeTrains, TLC

Symmetry == Permutations(Ids)
Ahead    == {-1, 5}
=============================================================================
