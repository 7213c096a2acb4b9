--------------------------- MODULE MCObjectStore ---------------------------
(***************************************************************************)
(* Instances of ObjectStore.                                               *)
(***************************************************************************)
EXTENDS ObjectStore

CONSTANTS r1, r2, c1, c2, c3

x == <<"b", "a", "x">>
y == <<"b", "a", "y">>
around == <<"b", "d", "..", "a", "x">>       \* has the same path as x
rooted == <<"b", "", "x">>                   \* the invalid key "/x"
above == <<"b", "..", "x">>                  \* the invalid key "../x"

\* Two clients with their own objects in the same folder, and invalid keys.
FolderObjects == {x, y, around, rooted, above}
FolderTargets == r1 :> {x, around} @@ r2 :> {y, rooted, above}

\* One object.
OneObject == {x}
SameTargets == [p \in Requests |-> Objects]
SameContents == [p \in Requests |-> Cids]

=============================================================================
