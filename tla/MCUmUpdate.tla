------------------------------ MODULE MCUmUpdate ------------------------------
(* Values for model checking UmUpdate.                                     *)
EXTENDS UmUpdate

\* Years that melt as much as the pack has to spare, and years that add to it.
MCSMBs == {-2, 0, 1}
===============================================================================
