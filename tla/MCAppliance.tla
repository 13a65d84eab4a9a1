---------------------------- MODULE MCAppliance ----------------------------
(***************************************************************************)
(* Small instances of Appliance.                                           *)
(***************************************************************************)
EXTENDS Appliance

CONSTANTS t1, t2, s1, s2, r1

OneThread   == {t1}
TwoThreads  == {t1, t2}
TwoSessions == {s1, s2}
OneReader   == {r1}
TwoHosts    == {1, 2}
=============================================================================
