---------------------------- MODULE MCDirectory ----------------------------
(***************************************************************************)
(* Small instances of Directory.                                           *)
(***************************************************************************)
EXTENDS Directory, TLC

CONSTANTS n1, n2, p1, p2, pn1

OneNode  == {n1}
TwoNodes == {n1, n2}
OneOperator  == (n1 :> p1)
TwoOperators == (n1 :> p1) @@ (n2 :> p2)

\* Keep filters as SelectSeq does.
ASSUME KeepFilters ==
  \A s \in BoundedSeq(0..2, 4) :
    Keep(s, {i \in DOMAIN s : s[i] # 0}) = SelectSeq(s, LAMBDA x : x # 0)
=============================================================================
