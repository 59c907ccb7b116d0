------------------------------ MODULE LogBounds ------------------------------
(***************************************************************************)
(* The bounds on the storage of an authority: how long its file gets and   *)
(* how often writes and machines fail.  The log and the authorities that   *)
(* keep their state in one share them.                                     *)
(***************************************************************************)
EXTENDS Naturals

CONSTANTS
    MaxLines,   \* bound: lines in the file
    MaxTears,   \* bound: writes cut short
    MaxDeaths   \* bound: deaths of the process or of the machine

ASSUME LogBoundsAssumption ==
    MaxLines \in Nat /\ MaxTears \in Nat /\ MaxDeaths \in Nat
=============================================================================
