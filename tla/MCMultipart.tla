---------------------------- MODULE MCMultipart ----------------------------
(***************************************************************************)
(* Instances of Multipart.                                                 *)
(***************************************************************************)
EXTENDS Multipart

CONSTANTS u1, u2, u3, u4, u5, u6, u7

OddShard == {u1, u3, u5, u7}
TwoShards == [u \in Uploads |-> IF u \in OddShard THEN 1 ELSE 2]

\* No operator depends on which slot, key or body it has.
ClientSymmetry ==
  Permutations(Requests) \cup Permutations(Keys) \cup Permutations(Bodies)

\* Nor on which id of a shard.
UploadSymmetry ==
  Permutations(Uploads \cap OddShard) \cup Permutations(Uploads \ OddShard)

=============================================================================
