------------------------- MODULE MC_SieveDispatch -------------------------
(* A small instance of SieveDispatch: one payload, action lists of two     *)
(* entries, two notify entries, one duplicate-tracking record, and every   *)
(* interpreter that lacks at most one optional callback.                  *)
EXTENDS SieveDispatch

CONSTANTS i1, null

MCItems == {i1}
MCRegChoices == {Callbacks} \cup {Callbacks \ {c} : c \in Callbacks \ {"keep"}}
=============================================================================
