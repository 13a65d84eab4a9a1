---------------------------- MODULE MCLifecycle ----------------------------
(***************************************************************************)
(* Small instances of Lifecycle.                                           *)
(***************************************************************************)
EXTENDS Lifecycle, TLC

AllCalls == {"announce", "sync"}
SyncOnly == {"sync"}
PeerStarter == {"starter"}
AllStarters == {"starter", "nodeStarter"}
=============================================================================
