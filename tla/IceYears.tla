------------------------------- MODULE IceYears -------------------------------
(***************************************************************************)
(* What the ice_sheet task promises the coupled model, year after year: the *)
(* two restart files of the ice sheet pass from the end of one year to the  *)
(* end of the next in one step, however often the task is interrupted and   *)
(* tried again, and neither is ever that of half a year.                    *)
(***************************************************************************)
EXTENDS Integers

CONSTANT Years           \* bound: years of ice-sheet simulation

VARIABLES
  dump,                  \* the year at whose end the BISICLES restart was written
  nc                     \* the same of the GLINT restart

vars == <<dump, nc>>

\* A simulation may be set up without one of its files (-1): it never starts.
Init == dump \in {-1, 0} /\ nc \in {-1, 0}

Advance ==
  /\ dump \in 0..(Years - 1) /\ nc = dump
  /\ dump' = dump + 1
  /\ nc' = nc + 1

Spec == Init /\ [][Advance]_vars
===============================================================================
