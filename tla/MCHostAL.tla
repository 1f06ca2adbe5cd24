----------------------------- MODULE MCHostAL -----------------------------
(***************************************************************************)
(* Instances of the Ethernet path for TLC: two destinations, which are     *)
(* interchangeable.                                                        *)
(***************************************************************************)
EXTENDS HostAL

Ends == {"hicann0", "hicann1"}
=============================================================================
