------------------------------- MODULE SigV4 -------------------------------
(***************************************************************************)
(* The signature check of src/src/s3/authorization.rs, and what a client   *)
(* signs (external, the AWS documents that file refers to).                *)
(*                                                                         *)
(* A request r is a record of                                              *)
(*   method, query     anything,                                           *)
(*   path              its key and how often that is percent-encoded,      *)
(*   headers           a function on the names it has, to their values,    *)
(*   authorization     the Authorization header, or NoAuth,                *)
(*   presign           the X-Amz parameters of the query, or NoAuth.       *)
(* Hashes and HMAC are free constructors: a signature is the secret with   *)
(* the text it signs.  The scope (date, region, service) is one value.     *)
(***************************************************************************)
EXTENDS Naturals, SequencesExt, Subsequences

CONSTANTS
  PlainKeys,    \* the keys of unreserved characters only
  NameOrder,    \* the header names, sorted
  LineOrder     \* the header names, in the order of their lines "name:value"

ASSUME NamesAssumption == NameOrder \in Seq(STRING) /\ LineOrder \in Seq(STRING)

NoAuth == [credential |-> "no credential"]

Config == [access_key |-> "access key", secret_key |-> "secret key"]

(***************************************************************************)
(* Encoding is no identity on what is encoded already: "%" is encoded too. *)
(***************************************************************************)
PercentEncode(path) ==
  IF path.key \in PlainKeys THEN path ELSE [path EXCEPT !.encoded = @ + 1]

Pick(order, names) == Subsequence(order, {i \in DOMAIN order : order[i] \in names})

\* A header that the request lacks has an empty value.
Value(headers, name) == IF name \in DOMAIN headers THEN headers[name] ELSE "empty"

Lines(order, headers, names) ==
  LET picked == Pick(order, names)
  IN [i \in DOMAIN picked |-> <<picked[i], Value(headers, picked[i])>>]

Unsigned(params) == [credential |-> params.credential, scope |-> params.scope,
                     date |-> params.date, signed |-> params.signed]

-----------------------------------------------------------------------------
(***************************************************************************)
(* The server.                                                             *)
(***************************************************************************)
CanonicalizeUri(r) == PercentEncode(r.path)

\* Mutant: the signature is part of what it signs.
CanonicalizeWholeQuery(r) == <<r.query, r.presign>>

\* Sorted, without X-Amz-Signature.
CanonicalizeQueryString(r) ==
  <<r.query, IF r.presign = NoAuth THEN NoAuth ELSE Unsigned(r.presign)>>

CanonicalizeHeaders(r, signed) == Lines(LineOrder, r.headers, ToSet(signed))

StringToSign(r, signed, bodyHash, date, scope) ==
  [date |-> date, scope |-> scope,
   request |-> <<r.method, CanonicalizeUri(r), CanonicalizeQueryString(r),
                 CanonicalizeHeaders(r, signed), signed, bodyHash>>]

Signature(secret, text) == <<secret, text>>

\* The hash of the body is the one that the client announces.
BodyHash(r) ==
  IF "x-amz-content-sha256" \in DOMAIN r.headers
  THEN r.headers["x-amz-content-sha256"]
  ELSE "hash of the empty body"

FromAuthorizationHeader(r) ==
  [credential |-> r.authorization.credential,
   signature |-> r.authorization.signature,
   string_to_sign |-> StringToSign(r, r.authorization.signed, BodyHash(r),
                        r.headers["x-amz-date"], r.authorization.scope)]

HasAuthorizationHeader(r) ==
  r.authorization # NoAuth /\ "x-amz-date" \in DOMAIN r.headers

FromQueryParams(r) ==
  [credential |-> r.presign.credential,
   signature |-> r.presign.signature,
   string_to_sign |-> StringToSign(r, r.presign.signed, "UNSIGNED-PAYLOAD",
                        r.presign.date, r.presign.scope)]

\* Mutant: the signature is not compared.
IsKnown(a) == a.credential = Config.access_key

IsValid(a) ==
  /\ a.credential = Config.access_key
  /\ a.signature = Signature(Config.secret_key, a.string_to_sign)

\* The query parameters count only when there is no header to read.
Authorized(r) ==
  \/ HasAuthorizationHeader(r) /\ IsValid(FromAuthorizationHeader(r))
  \/ /\ ~HasAuthorizationHeader(r)
     /\ r.presign # NoAuth
     /\ IsValid(FromQueryParams(r))

-----------------------------------------------------------------------------
(***************************************************************************)
(* The client.  Its request r has a path encoded once, as it is sent, and  *)
(* is not signed yet.                                                      *)
(***************************************************************************)
ClientText(r, names, presign, bodyHash, date, scope) ==
  [date |-> date, scope |-> scope,
   request |-> <<r.method, r.path, <<r.query, presign>>,
                 Lines(NameOrder, r.headers, names), Pick(NameOrder, names), bodyHash>>]

SignHeader(r, names, scope) ==
  [r EXCEPT !.authorization =
     [credential |-> Config.access_key, scope |-> scope,
      signed |-> Pick(NameOrder, names),
      signature |-> Signature(Config.secret_key,
        ClientText(r, names, NoAuth, BodyHash(r), r.headers["x-amz-date"], scope))]]

Presign(r, names, date, scope) ==
  LET params == [credential |-> Config.access_key, scope |-> scope,
                 date |-> date, signed |-> Pick(NameOrder, names)]
  IN [r EXCEPT !.presign =
        [credential |-> params.credential, scope |-> params.scope,
         date |-> params.date, signed |-> params.signed,
         signature |-> Signature(Config.secret_key,
           ClientText(r, names, params, "UNSIGNED-PAYLOAD", date, scope))]]

=============================================================================
