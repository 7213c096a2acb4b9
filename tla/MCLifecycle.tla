---------------------------- MODULE MCLifecycle ----------------------------
(***************************************************************************)
(* Instances of Lifecycle.                                                 *)
(***************************************************************************)
EXTENDS Lifecycle

CONSTANTS r1, r2, c1, c2, c3

a == <<"b", "a">>
x == <<"b", "a", "x">>
y == <<"b", "y">>

\* Two clients with their own objects and contents; the first has a file in a
\* folder and one in the way of the folder, with the same contents.
ConflictingObjects == {a, x, y}
ConflictingTargets == r1 :> {a, x} @@ r2 :> {y}
ClientContents == r1 :> {c1, c2} @@ r2 :> {c3}

=============================================================================
