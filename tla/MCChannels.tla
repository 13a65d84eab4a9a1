----------------------------- MODULE MCChannels -----------------------------
(***************************************************************************)
(* Small instances of Channels.                                            *)
(***************************************************************************)
EXTENDS Channels

CONSTANTS h1, h2, r1

TwoHubs  == {h1, h2}
OneRoom  == {r1}
=============================================================================
