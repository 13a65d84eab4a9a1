------------------------ MODULE MCConversationFlags ------------------------
(***************************************************************************)
(* Small instances of ConversationFlags.  Two deliverers are two router    *)
(* goroutines inside Ingest at once; three inbound messages are the fewest *)
(* for which a tally of 2 can be lost by the message that follows.         *)
(***************************************************************************)
EXTENDS ConversationFlags, TLC

CONSTANTS d1, d2, i1, i2, i3, o1

OneDeliverer  == {d1}
TwoDeliverers == {d1, d2}
TwoInbound    == {i1, i2}
ThreeInbound  == {i1, i2, i3}
OneOutbound   == {o1}
NoMsgs        == {}

Symmetry == Permutations(TwoDeliverers) \cup Permutations(ThreeInbound)
=============================================================================
