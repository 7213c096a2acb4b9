----------------------------- MODULE MCGateway -----------------------------
(***************************************************************************)
(* Instances of Gateway.                                                   *)
(***************************************************************************)
EXTENDS Gateway

Binary == <<"0", "1">>

\* Data that looks like a chunk size.
ThreeBytes == <<"1", ";", "0">>
OneByte == <<"1">>

\* In this order the names and the lines that begin with them.
Names == <<"host", "x-amz-content-sha256", "x-amz-date">>

=============================================================================
