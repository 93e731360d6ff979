------------------------- MODULE MCViewLifecycle -------------------------
(* Bounds for checking ViewLifecycle. *)
EXTENDS ViewLifecycle

AnyDestroyChoice == BOOLEAN
=============================================================================
