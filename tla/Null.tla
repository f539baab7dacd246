-------------------------------- MODULE Null --------------------------------
(* What SQL calls NULL and Python None, for the modules about the life of an *)
(* installation: no such row, no value.                                      *)
CONSTANT NULL
=============================================================================
