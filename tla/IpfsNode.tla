------------------------------ MODULE IpfsNode ------------------------------
(***************************************************************************)
(* The IPFS node behind src/src/ipfs.rs.  The node itself (Kubo) is not in *)
(* this repository; it is modelled from the four calls the client makes    *)
(* and from how the handlers treat their errors:                           *)
(*   add        stores a content and pins its CID,                         *)
(*   files cp   links a CID into the mutable file system (MFS), creating   *)
(*              the parents and replacing a file, never a directory,       *)
(*   files rm   removes a file or a whole directory, an error when the     *)
(*              path does not exist,                                       *)
(*   pin rm     removes a pin, an error when there is none.                *)
(***************************************************************************)
EXTENDS ObjectPaths

VARIABLES
  pins,      \* the pinned CIDs
  links,     \* [Paths -> Cids \cup {NoCid}], the files in the MFS
  dirs       \* the directories in the MFS

node == <<pins, links, dirs>>

NodeTypeOK ==
  /\ pins \subseteq Cids
  /\ links \in [Paths -> Cids \cup {NoCid}]
  /\ dirs \subseteq Folders

InitNode ==
  /\ pins = {}
  /\ links = [path \in Paths |-> NoCid]
  /\ dirs = {}

Add(c) ==
  /\ pins' = pins \cup {c}
  /\ UNCHANGED <<links, dirs>>

\* The path is no directory and no file stands where it needs a directory.
CanLink(path) ==
  /\ path \notin dirs
  /\ \A file \in Paths \cap FoldersOf(path) : links[file] = NoCid

FilesCp(c, path) ==
  /\ CanLink(path)
  /\ links' = [links EXCEPT ![path] = c]
  /\ dirs' = dirs \cup FoldersOf(path)
  /\ UNCHANGED pins

Exists(path) ==
  \/ path \in dirs
  \/ path \in Paths /\ links[path] # NoCid

FilesRm(path) ==
  /\ Exists(path)
  /\ links' = [file \in Paths |-> IF IsPrefix(path, file) THEN NoCid ELSE links[file]]
  /\ dirs' = {dir \in dirs : ~IsPrefix(path, dir)}
  /\ UNCHANGED pins

PinRm(c) ==
  /\ c \in pins
  /\ pins' = pins \ {c}
  /\ UNCHANGED <<links, dirs>>

=============================================================================
