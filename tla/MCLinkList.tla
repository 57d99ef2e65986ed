----------------------------- MODULE MCLinkList -----------------------------
(* The linked list alone, for TLC.                                         *)
EXTENDS LinkList
=============================================================================
