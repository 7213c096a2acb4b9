----------------------------- MODULE MCReadPath -----------------------------
(***************************************************************************)
(* Instances of ReadPath.                                                  *)
(***************************************************************************)
EXTENDS ReadPath

CONSTANTS r1, r2, c1, c2

x == <<"b", "a", "x">>

\* Two clients that share an object and a content.
OneObject == {x}
SameTargets == [p \in Requests |-> Objects]
OverlappingContents == [p \in Requests |-> IF p = r1 THEN Cids ELSE {c1}]

=============================================================================
