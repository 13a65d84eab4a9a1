------------------------ MODULE MCConversationStore ------------------------
(***************************************************************************)
(* Small instances of ConversationStore.                                   *)
(***************************************************************************)
EXTENDS ConversationStore, TLC

CONSTANTS d1, i1, o1

OneDeliverer == {d1}
OneInbound   == {i1}
OneOutbound  == {o1}
NoMsgs       == {}
=============================================================================
