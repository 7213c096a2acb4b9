---------------------------- MODULE ObjectPaths ----------------------------
(***************************************************************************)
(* What requests name: objects, the paths derived from them, and contents  *)
(* (src/src/s3/mod.rs, src/src/database.rs).                               *)
(*                                                                         *)
(* An object is the sequence << bucket, segment, ..., segment >> that one  *)
(* gets by splitting the object key at its slashes: "a/x" in bucket "b" is *)
(* <<"b", "a", "x">>, "a//x" is <<"b", "a", "", "x">>, and a key that      *)
(* starts with a slash has "" as its first segment.  The MFS paths leave   *)
(* out the constant config.folder_prefix in front of the bucket.           *)
(***************************************************************************)
EXTENDS Integers, FiniteSets, SequencesExt, Subsequences

CONSTANTS
  Objects,       \* the (bucket, key) pairs that requests name
  StrayMatches,  \* << object, ancestor >>: LIKE finds an object of elsewhere
  Cids,          \* content identifiers, one per content
  NoCid          \* the absence of one

\* An object has a bucket and a key; the route /{bucket}/{*key} never passes
\* an empty bucket.
ASSUME ObjectsAssumption ==
  \A o \in Objects : /\ o \in Seq(STRING)
                     /\ Len(o) > 1
                     /\ o[1] # ""

ASSUME NoCidAssumption == NoCid \notin Cids

NoObject == << >>

(***************************************************************************)
(* normalized_path.  normalize() drops empty components and ".", and ".."  *)
(* takes the component before it away; push_checked refuses a key that     *)
(* brings its own root or climbs above it, and a bucket "..".              *)
(***************************************************************************)
Normal(segment) == segment \notin {"", ".", ".."}

\* How many segments i..j stay on the path, and how many of them go up.
Downs(o, i, j) == Cardinality({k \in i..j : Normal(o[k])})
Ups(o, i, j) == Cardinality({k \in i..j : o[k] = ".."})

IsValidKey(o) ==
  /\ o[1] # ".."
  /\ o[2] # ""
  /\ \A j \in 2..Len(o) : o[j] = ".." => Ups(o, 2, j) <= Downs(o, 2, j)

Kept(o) ==
  {i \in DOMAIN o :
     /\ Normal(o[i])
     /\ \A j \in (i + 1)..Len(o) :
          o[j] = ".." => Ups(o, i + 1, j) <= Downs(o, i + 1, j)}

NormalizedPath(o) == Subsequence(o, Kept(o))

Paths == {NormalizedPath(o) : o \in Objects}

\* The directories that lead to a path; the bucket is the outermost.
FoldersOf(path) == {SubSeq(path, 1, n) : n \in 1..(Len(path) - 1)}

Folders == UNION {FoldersOf(path) : path \in Paths}

(***************************************************************************)
(* UnixPath::ancestors, as prefix lengths of the object: the key itself,   *)
(* then every shorter prefix that ends in a component and leaves another   *)
(* component out.  A prefix of length 1 is the bare bucket: its key part   *)
(* is empty and filtered out.  ".." is a component, "." the first only.    *)
(***************************************************************************)
IsComponent(o, n) == o[n] # "" /\ (o[n] = "." => n = 2)

AncestorDepths(o) ==
  {Len(o)} \cup {n \in 2..(Len(o) - 1) :
                   IsComponent(o, n) /\ \E m \in (n + 1)..Len(o) : IsComponent(o, m)}

Shallower(o, depth) == {n \in AncestorDepths(o) : n < depth}

Ancestors == UNION {{SubSeq(o, 1, n) : n \in AncestorDepths(o)} : o \in Objects}

(***************************************************************************)
(* "bucket = ? AND object_key LIKE '<ancestor>/%'".  The ancestor is not   *)
(* escaped and LIKE ignores the case of ASCII letters: with "_" or "%" in  *)
(* it, or an object that differs in case, it finds objects that are not in *)
(* the folder.  Which these are is all that the characters matter for.     *)
(***************************************************************************)
ASSUME StrayAssumption == StrayMatches \subseteq Objects \X Ancestors

\* Mutant: the pattern has no "/%".
IsLikeExactly(o, ancestor) == ancestor = o

IsLike(o, ancestor) ==
  /\ o[1] = ancestor[1]
  /\ IsStrictPrefix(ancestor, o) \/ <<o, ancestor>> \in StrayMatches

=============================================================================
