------------------------------ MODULE Database ------------------------------
(***************************************************************************)
(* The SQLite metadata table (src/src/database.rs, src/migrations): one    *)
(* row per (bucket, object_key), of which the model keeps the CID.  Size,  *)
(* content type and timestamps follow the CID in the same statements.      *)
(* Each query is one SQLite statement and therefore atomic.                *)
(***************************************************************************)
EXTENDS ObjectPaths

VARIABLE rows   \* [Objects -> Cids \cup {NoCid}], the table "metadata"

Rows == [Objects -> Cids \cup {NoCid}]

InitDatabase == rows = [o \in Objects |-> NoCid]

\* The upsert keyed by (bucket, object_key).
StoreObjectMetadata(o, c) == rows' = [rows EXCEPT ![o] = c]

GetObjectMetadata(o) == rows[o]

\* Deletes by (bucket, object_key), whatever CID the row holds by now.
DeleteObjectRow(o) == rows' = [rows EXCEPT ![o] = NoCid]

\* The rows that cid_count counts, over all the buckets.
Referencing(c) == {o \in Objects : rows[o] = c}

\* One round of find_shallowest_removable_directory: no row lies under it.
NoEntriesUnder(ancestor) ==
  \A o \in Objects : rows[o] # NoCid => ~IsLike(o, ancestor)

=============================================================================
