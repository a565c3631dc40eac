-------------------------- MODULE MC_SieveFrontEnd --------------------------
(* A caller making three parse calls, with the two pointer values as model *)
(* values.                                                                 *)
EXTENDS SieveFrontEnd

CONSTANTS NullV, UninitV

MCMaxCalls == 3
====
