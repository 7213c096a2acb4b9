-------------------------- MODULE MCDeleteObjects --------------------------
(***************************************************************************)
(* Instances of DeleteObjects.                                             *)
(***************************************************************************)
EXTENDS DeleteObjects

CONSTANTS r1, r2, r3, c1, c2

x == <<"b", "a_b", "x">>
deep == <<"b", "a_b", "d", "x">>
matched == <<"b", "acb", "z">>
other == <<"b", "f", "z">>

\* The batch client has a folder with a file and a folder in it, and one content
\* for its objects; another client has its own folder and content.
TwoClients == {x, deep, other}
OwnKeys == {x, deep}
OwnTargets == [p \in Requests |-> IF p = r3 THEN {other} ELSE OwnKeys]
OwnContent == [p \in Requests |-> IF p = r3 THEN {c2} ELSE {c1}]

\* The batch client alone, with two folders, the name of one of which is a pattern
\* that matches the other.
ThreeKeys == {x, deep, matched}
ThreeTargets == [p \in Requests |-> ThreeKeys]
WildMatch == {<<matched, <<"b", "a_b">>>>}

=============================================================================
