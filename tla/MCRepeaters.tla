---------------------------- MODULE MCRepeaters ----------------------------
(***************************************************************************)
(* The instance of Repeaters for TLC: three repeaters, so that two share a *)
(* test output, in a block of each kind of numbering, and programs that    *)
(* use one family of calls at a time; reads fail in one of them.  Contents *)
(* of the test data are interchangeable.                                   *)
(***************************************************************************)
EXTENDS Repeaters, TLC

Blocks   == {"REPL", "REPR", "REPTR", "REPBL"}
Families == {{"conf"}, {"spl1"}, {"tout", "bits"}, {"start"}, {"tout", "late"}}
Others   == {{}, {"touten"}}
Symmetry == Permutations(Data)
=============================================================================
