--------------------------- MODULE MCAttachments ---------------------------
(***************************************************************************)
(* Attachments needs no sets: the bounds on crashes and failed writes are  *)
(* given in the configurations.                                            *)
(***************************************************************************)
EXTENDS Attachments, TLC
=============================================================================
