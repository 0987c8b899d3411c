--------------------------------- MODULE Common ---------------------------------
(* What the modules share. *)

CONSTANT Null   \* an absent value: SQL NULL, an empty map entry, a free job
=============================================================================
