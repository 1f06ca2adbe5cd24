--------------------------- MODULE MCHardwareLock ---------------------------
(***************************************************************************)
(* An instance of the FPGA lock for TLC: two programs of one shell and two *)
(* single ones.                                                            *)
(***************************************************************************)
EXTENDS HardwareLock

Programs == {"p1", "p2", "p3", "p4"}
Shells   == {"s1", "s2", "s3"}
Parents  == [p \in Programs |-> CASE p = "p3" -> "s2" [] p = "p4" -> "s3" [] OTHER -> "s1"]
=============================================================================
