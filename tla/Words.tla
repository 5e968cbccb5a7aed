-------------------------------- MODULE Words --------------------------------
(***************************************************************************)
(* The width of uint32_t, which parser.c checks what it reads against.      *)
(***************************************************************************)
EXTENDS Integers

CONSTANT UintMax    \* UINT32_MAX

ASSUME UintMaxAssumption == UintMax \in Nat \ {0}
=============================================================================
