------------------------------ MODULE Pointers ------------------------------
(* What the pointers of the containers can hold besides an address.        *)

CONSTANTS
  NULL,  \* the null pointer, and no value
  WILD   \* memory that was never written, or that was freed
=============================================================================
