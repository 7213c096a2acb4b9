--------------------------- MODULE GatewayProofs ---------------------------
(***************************************************************************)
(* A request that is handled is the one that was signed, for every set of  *)
(* keys, every order of the headers and of their lines, and every payload; *)
(* and one that arrives as it was signed is accepted, so far as the server *)
(* encodes keys and sorts headers as the client does.                      *)
(*                                                                         *)
(* A rewritten request brings the credentials of the signed one; if they   *)
(* are valid for it, the text the server signs is the text the client      *)
(* signed, and the text tells the signed parts of a request apart.         *)
(***************************************************************************)
EXTENDS Gateway, SequenceProofs

IsPath(path) == path \in [key : {path.key}, encoded : {path.encoded}]

IsRequest(r) ==
  /\ r \in [method : {r.method}, path : {r.path}, query : {r.query},
            headers : {r.headers}, authorization : {r.authorization},
            presign : {r.presign}]
  /\ IsPath(r.path)

\* The two ways to sign.
SignedInHeader(r) ==
  /\ r.presign = NoAuth
  /\ \E names, hash, date, scope :
       /\ r.authorization.credential = Config.access_key
       /\ r.authorization.signed = Pick(NameOrder, names)
       /\ r.authorization.signature =
            Signature(Config.secret_key, ClientText(r, names, NoAuth, hash, date, scope))

SignedInQuery(r) ==
  /\ r.authorization = NoAuth
  /\ \E names, params, date, scope :
       /\ r.presign.credential = Config.access_key
       /\ r.presign.signed = Pick(NameOrder, names)
       /\ r.presign.signature =
            Signature(Config.secret_key,
                      ClientText(r, names, params, "UNSIGNED-PAYLOAD", date, scope))

IsSigned(r) == IsRequest(r) /\ (SignedInHeader(r) \/ SignedInQuery(r))

\* What a rewriting leaves alone.
SameCredentials(w, s) ==
  /\ w.authorization = s.authorization
  /\ w.presign = s.presign
  /\ w.path.encoded = s.path.encoded

WireInv ==
  at # "idle" => IsSigned(signed) /\ IsRequest(wire) /\ SameCredentials(wire, signed)

AuthorizedInv == (guarded /\ at \in {"reading", "handled"}) => Authorized(wire)

-----------------------------------------------------------------------------
(***************************************************************************)
(* The text that is signed.                                                *)
(***************************************************************************)
\* PercentEncode keeps the key.
LEMMA EncodedKeyKept ==
  ASSUME NEW path, IsPath(path)
  PROVE  PercentEncode(path).key = path.key
BY DEF IsPath, PercentEncode

\* Equal texts are about equal requests, so far as they are signed.
LEMMA TextTellsApart ==
  ASSUME NEW s, NEW w, IsPath(s.path), IsPath(w.path),
         w.path.encoded = s.path.encoded,
         NEW names, NEW params, NEW hash, NEW date, NEW scope,
         NEW hash2, NEW date2, NEW scope2,
         ClientText(s, names, params, hash, date, scope)
           = StringToSign(w, Pick(NameOrder, names), hash2, date2, scope2)
  PROVE  /\ w.method = s.method /\ w.path = s.path /\ w.query = s.query
         /\ \A name \in ToSet(Pick(NameOrder, names)) :
              Value(w.headers, name) = Value(s.headers, name)
<1> DEFINE picked == Pick(NameOrder, names)
           picked2 == Pick(LineOrder, ToSet(picked))
<1>1. ClientText(s, names, params, hash, date, scope).request
        = StringToSign(w, picked, hash2, date2, scope2).request
  OBVIOUS
<1>2. <<s.method, s.path, <<s.query, params>>,
        Lines(NameOrder, s.headers, names), picked, hash>>
      = <<w.method, CanonicalizeUri(w), CanonicalizeQueryString(w),
          CanonicalizeHeaders(w, picked), picked, hash2>>
  BY <1>1 DEF ClientText, StringToSign
<1>3. /\ s.method = w.method
      /\ s.path = PercentEncode(w.path)
      /\ <<s.query, params>> = CanonicalizeQueryString(w)
      /\ Lines(NameOrder, s.headers, names) = Lines(LineOrder, w.headers, ToSet(picked))
  BY <1>2 DEF CanonicalizeUri, CanonicalizeHeaders
<1>4. w.path = s.path
  BY <1>3, EncodedKeyKept DEF IsPath
<1>5. w.query = s.query
  BY <1>3 DEF CanonicalizeQueryString
<1>6. /\ Lines(NameOrder, s.headers, names)
           = [i \in DOMAIN picked |-> <<picked[i], Value(s.headers, picked[i])>>]
      /\ Lines(LineOrder, w.headers, ToSet(picked))
           = [i \in DOMAIN picked2 |-> <<picked2[i], Value(w.headers, picked2[i])>>]
  BY DEF Lines
<1>7. \A i \in DOMAIN picked :
        Value(w.headers, picked[i]) = Value(s.headers, picked[i])
  <2> HIDE DEF picked, picked2
  <2> TAKE i \in DOMAIN picked
  <2>1. i \in DOMAIN picked2
    BY <1>3, <1>6
  <2>2. <<picked[i], Value(s.headers, picked[i])>>
          = <<picked2[i], Value(w.headers, picked2[i])>>
    BY <1>3, <1>6, <2>1
  <2> QED BY <2>2
<1>8. \A name \in ToSet(picked) : \E i \in DOMAIN picked : name = picked[i]
  BY DEF ToSet
<1> QED BY <1>3, <1>4, <1>5, <1>7, <1>8

LEMMA ValidTextsAgree ==
  ASSUME NEW credential, NEW text, NEW text2,
         IsValid([credential |-> credential,
                  signature |-> Signature(Config.secret_key, text),
                  string_to_sign |-> text2])
  PROVE  text = text2
BY DEF IsValid, Signature

\* What the server accepts under the credentials of a signed request agrees
\* with that request.
LEMMA AuthorizedIsSigned ==
  ASSUME NEW s, NEW w, IsSigned(s), IsRequest(w), SameCredentials(w, s),
         Authorized(w)
  PROVE  /\ w.method = s.method /\ w.path = s.path /\ w.query = s.query
         /\ \A name \in SignedNames(s) :
              Value(w.headers, name) = Value(s.headers, name)
<1>1. CASE SignedInHeader(s)
  <2>1. PICK names, hash, date, scope :
          /\ s.authorization.credential = Config.access_key
          /\ s.authorization.signed = Pick(NameOrder, names)
          /\ s.authorization.signature =
               Signature(Config.secret_key, ClientText(s, names, NoAuth, hash, date, scope))
    BY <1>1 DEF SignedInHeader
  <2>2. IsValid(FromAuthorizationHeader(w))
    BY <1>1 DEF SignedInHeader, SameCredentials, Authorized
  <2>3. ClientText(s, names, NoAuth, hash, date, scope)
          = StringToSign(w, Pick(NameOrder, names), BodyHash(w),
                         w.headers["x-amz-date"], w.authorization.scope)
    BY <2>1, <2>2, ValidTextsAgree DEF FromAuthorizationHeader, SameCredentials
  <2>4. SignedNames(s) = ToSet(Pick(NameOrder, names))
    BY <1>1, <2>1 DEF SignedNames, SignedInHeader
  <2> QED BY <2>3, <2>4, TextTellsApart DEF IsSigned, IsRequest, SameCredentials
<1>2. CASE SignedInQuery(s)
  <2>1. PICK names, params, date, scope :
          /\ s.presign.credential = Config.access_key
          /\ s.presign.signed = Pick(NameOrder, names)
          /\ s.presign.signature =
               Signature(Config.secret_key,
                         ClientText(s, names, params, "UNSIGNED-PAYLOAD", date, scope))
    BY <1>2 DEF SignedInQuery
  <2>2. s.presign # NoAuth
    <3>1. NoAuth.credential = "no credential" /\ Config.access_key = "access key"
      BY DEF NoAuth, Config
    <3> QED BY <2>1, <3>1
  <2>3. IsValid(FromQueryParams(w))
    BY <1>2 DEF SignedInQuery, SameCredentials, Authorized, HasAuthorizationHeader
  <2>4. ClientText(s, names, params, "UNSIGNED-PAYLOAD", date, scope)
          = StringToSign(w, Pick(NameOrder, names), "UNSIGNED-PAYLOAD",
                         w.presign.date, w.presign.scope)
    BY <2>1, <2>3, ValidTextsAgree DEF FromQueryParams, SameCredentials
  <2>5. SignedNames(s) = ToSet(Pick(NameOrder, names))
    BY <2>1, <2>2 DEF SignedNames
  <2> QED BY <2>4, <2>5, TextTellsApart DEF IsSigned, IsRequest, SameCredentials
<1> QED BY <1>1, <1>2 DEF IsSigned

-----------------------------------------------------------------------------
(***************************************************************************)
(* The client and the proxy.                                               *)
(***************************************************************************)
LEMMA DraftIsRequest ==
  ASSUME NEW method, NEW key, NEW query, NEW hash
  PROVE  /\ IsRequest(Draft(method, key, query, hash))
         /\ Draft(method, key, query, hash).authorization = NoAuth
         /\ Draft(method, key, query, hash).presign = NoAuth
<1>1. IsPath(PercentEncode([key |-> key, encoded |-> 0]))
  BY DEF IsPath, PercentEncode
<1> QED BY <1>1 DEF Draft, IsRequest

\* Only the credentials are not signed.
LEMMA TextOfParts ==
  ASSUME NEW r, NEW s, s.method = r.method, s.path = r.path, s.query = r.query,
         s.headers = r.headers,
         NEW names, NEW params, NEW hash, NEW date, NEW scope
  PROVE  ClientText(s, names, params, hash, date, scope)
           = ClientText(r, names, params, hash, date, scope)
BY DEF ClientText

LEMMA SigningsAreSigned ==
  ASSUME NEW r, IsRequest(r), r.authorization = NoAuth, r.presign = NoAuth,
         NEW s \in Signings(r)
  PROVE  IsSigned(s)
<1>1. CASE s = SignHeader(r, DOMAIN r.headers, "scope")
  <2> DEFINE names == DOMAIN r.headers
             date == r.headers["x-amz-date"]
             a == [credential |-> Config.access_key, scope |-> "scope",
                   signed |-> Pick(NameOrder, names),
                   signature |-> Signature(Config.secret_key,
                     ClientText(r, names, NoAuth, BodyHash(r), date, "scope"))]
  <2>1. s = [r EXCEPT !.authorization = a]
    BY <1>1 DEF SignHeader
  <2>2. /\ a.credential = Config.access_key
        /\ a.signed = Pick(NameOrder, names)
        /\ a.signature = Signature(Config.secret_key,
                           ClientText(r, names, NoAuth, BodyHash(r), date, "scope"))
    OBVIOUS
  <2> HIDE DEF a
  <2>3. /\ IsRequest(s) /\ s.authorization = a /\ s.presign = NoAuth
        /\ s.method = r.method /\ s.path = r.path /\ s.query = r.query
        /\ s.headers = r.headers
    BY <2>1 DEF IsRequest
  <2>4. ClientText(s, names, NoAuth, BodyHash(r), date, "scope")
          = ClientText(r, names, NoAuth, BodyHash(r), date, "scope")
    BY <2>3, TextOfParts
  <2> HIDE DEF names, date
  <2> QED BY <2>2, <2>3, <2>4 DEF IsSigned, SignedInHeader
<1>2. CASE s = Presign(r, {"host"}, "first", "scope")
  <2> DEFINE names == {"host"}
             params == [credential |-> Config.access_key, scope |-> "scope",
                        date |-> "first", signed |-> Pick(NameOrder, names)]
             q == [credential |-> params.credential, scope |-> params.scope,
                   date |-> params.date, signed |-> params.signed,
                   signature |-> Signature(Config.secret_key,
                     ClientText(r, names, params, "UNSIGNED-PAYLOAD", "first", "scope"))]
  <2>1. s = [r EXCEPT !.presign = q]
    BY <1>2 DEF Presign
  <2>2. /\ q.credential = Config.access_key
        /\ q.signed = Pick(NameOrder, names)
        /\ q.signature = Signature(Config.secret_key,
             ClientText(r, names, params, "UNSIGNED-PAYLOAD", "first", "scope"))
    OBVIOUS
  <2> HIDE DEF q
  <2>3. /\ IsRequest(s) /\ s.authorization = NoAuth /\ s.presign = q
        /\ s.method = r.method /\ s.path = r.path /\ s.query = r.query
        /\ s.headers = r.headers
    BY <2>1 DEF IsRequest
  <2>4. ClientText(s, names, params, "UNSIGNED-PAYLOAD", "first", "scope")
          = ClientText(r, names, params, "UNSIGNED-PAYLOAD", "first", "scope")
    BY <2>3, TextOfParts
  <2> HIDE DEF params, names
  <2> QED BY <2>2, <2>3, <2>4 DEF IsSigned, SignedInQuery
<1> QED BY <1>1, <1>2 DEF Signings

LEMMA RewrittenKeepsCredentials ==
  ASSUME NEW s, IsRequest(s), NEW w \in Rewritten(s)
  PROVE  IsRequest(w) /\ SameCredentials(w, s)
<1>1. CASE \E method \in Methods : w = [s EXCEPT !.method = method]
  BY <1>1 DEF IsRequest, SameCredentials
<1>2. CASE \E key \in Keys : w = [s EXCEPT !.path.key = key]
  BY <1>2 DEF IsRequest, IsPath, SameCredentials
<1>3. CASE \E query \in Queries : w = [s EXCEPT !.query = query]
  BY <1>3 DEF IsRequest, SameCredentials
<1>4. CASE \E headers : w = [s EXCEPT !.headers = headers]
  BY <1>4 DEF IsRequest, SameCredentials
<1> QED BY <1>1, <1>2, <1>3, <1>4 DEF Rewritten

-----------------------------------------------------------------------------
LEMMA WireInvNext ==
  ASSUME WireInv, [Next]_vars
  PROVE  WireInv'
<1>1. CASE Send
  <2>1. PICK method \in Methods, key \in Keys, query \in Queries, hash \in Hashes :
          \E r \in Signings(Draft(method, key, query, hash)) : signed' = r /\ wire' = r
    BY <1>1 DEF Send
  <2>2. IsSigned(signed') /\ wire' = signed'
    BY <2>1, DraftIsRequest, SigningsAreSigned
  <2> QED BY <2>2 DEF WireInv, IsSigned, SameCredentials
<1>2. CASE Rewrite
  <2>1. IsSigned(signed) /\ wire' \in Rewritten(signed) /\ signed' = signed
    BY <1>2 DEF Rewrite, WireInv
  <2>2. IsRequest(wire') /\ SameCredentials(wire', signed)
    BY <2>1, RewrittenKeepsCredentials DEF IsSigned
  <2> QED BY <2>1, <2>2 DEF WireInv
<1>3. CASE Close
  BY <1>3 DEF Close, WireInv
<1>4. CASE Arrive \/ End \/ Authorize \/ Read \/ UNCHANGED vars
  <2>1. UNCHANGED <<signed, wire>> /\ (at' = at \/ at # "idle")
    BY <1>4 DEF Arrive, End, Authorize, Read, NoSizePanics, NextChunk, LastChunk,
                ChunkFails, ReadBody, BodyFails, Leave, vars
  <2> QED BY <2>1 DEF WireInv
<1> QED BY <1>1, <1>2, <1>3, <1>4 DEF Next

LEMMA AuthorizedInvNext ==
  ASSUME AuthorizedInv, [Next]_vars
  PROVE  AuthorizedInv'
<1>1. CASE Authorize
  BY <1>1 DEF Authorize, AuthorizedInv
<1>2. CASE Send \/ Rewrite \/ Close
  BY <1>2 DEF Send, Rewrite, Close, AuthorizedInv
<1>3. CASE Arrive \/ End \/ Read \/ UNCHANGED vars
  <2>1. UNCHANGED <<guarded, wire>> /\ (at' = at \/ at = "reading")
    BY <1>3 DEF Arrive, End, Read, NoSizePanics, NextChunk, LastChunk,
                ChunkFails, ReadBody, BodyFails, Leave, vars
  <2> QED BY <2>1 DEF AuthorizedInv
<1> QED BY <1>1, <1>2, <1>3 DEF Next

\* With credentials configured, what is handled is what was signed, whichever
\* one of its parts a proxy changed on the way, for every set of keys and headers.
THEOREM OnlySignedIsHandled == Spec => []HandledAsSigned
<1>1. Init => WireInv /\ AuthorizedInv
  BY DEF Init, Blank, WireInv, AuthorizedInv
<1>2. WireInv /\ AuthorizedInv /\ [Next]_vars => WireInv' /\ AuthorizedInv'
  BY WireInvNext, AuthorizedInvNext
<1>3. WireInv /\ AuthorizedInv => HandledAsSigned
  BY AuthorizedIsSigned DEF WireInv, AuthorizedInv, HandledAsSigned
<1> QED BY <1>1, <1>2, <1>3, PTL DEF Spec

-----------------------------------------------------------------------------
(***************************************************************************)
(* Genuine requests.  The server signs the text that the client signed     *)
(* when nothing in a key is encoded, which it encodes again, and when the  *)
(* lines of the headers sort as the names do.                              *)
(***************************************************************************)
LEMMA PickedAgain ==
  ASSUME NEW names
  PROVE  Pick(NameOrder, ToSet(Pick(NameOrder, names))) = Pick(NameOrder, names)
<1> DEFINE T == {i \in DOMAIN NameOrder : NameOrder[i] \in names}
           picked == Subsequence(NameOrder, T)
<1>1. IsFiniteSet(DOMAIN NameOrder) /\ DOMAIN NameOrder \subseteq Int
  <2>1. Len(NameOrder) \in Nat /\ DOMAIN NameOrder = 1..Len(NameOrder)
    BY NamesAssumption
  <2> QED BY <2>1, FS_Interval
<1>2. IsFiniteSet(T) /\ T \subseteq Int
  BY <1>1, FS_Subset
<1>3. ToSet(picked) = {NameOrder[i] : i \in T}
  <2> HIDE DEF T
  <2> QED BY <1>2, SubsequenceRange DEF ToSet
<1>4. {i \in DOMAIN NameOrder : NameOrder[i] \in ToSet(picked)} = T
  BY <1>3
<1> QED BY <1>4 DEF Pick

LEMMA SignedIsAuthorized ==
  ASSUME PlainKeys = Keys, LineOrder = NameOrder,
         NEW method, NEW key \in Keys, NEW query, NEW hash,
         NEW s \in Signings(Draft(method, key, query, hash))
  PROVE  Authorized(s)
<1> DEFINE r == Draft(method, key, query, hash)
<1>1. /\ IsRequest(r) /\ r.authorization = NoAuth /\ r.presign = NoAuth
      /\ r.path = [key |-> key, encoded |-> 0]
      /\ "x-amz-date" \in DOMAIN r.headers
  <2>1. "x-amz-date" \in ToSet(NameOrder)
    BY GatewayAssumption
  <2> QED BY <2>1, DraftIsRequest DEF Draft, PercentEncode
<1> HIDE DEF r
<1>2. PercentEncode(r.path) = r.path
  BY <1>1 DEF PercentEncode
<1>3. \A names : Lines(LineOrder, r.headers, ToSet(Pick(NameOrder, names)))
                 = Lines(NameOrder, r.headers, names)
  BY PickedAgain DEF Lines
<1>4. CASE s = SignHeader(r, DOMAIN r.headers, "scope")
  <2> DEFINE names == DOMAIN r.headers
             date == r.headers["x-amz-date"]
             a == [credential |-> Config.access_key, scope |-> "scope",
                   signed |-> Pick(NameOrder, names),
                   signature |-> Signature(Config.secret_key,
                     ClientText(r, names, NoAuth, BodyHash(r), date, "scope"))]
  <2>1. s = [r EXCEPT !.authorization = a]
    BY <1>4 DEF SignHeader
  <2>2. /\ a.credential = Config.access_key /\ a.scope = "scope"
        /\ a.signed = Pick(NameOrder, names)
        /\ a.signature = Signature(Config.secret_key,
                           ClientText(r, names, NoAuth, BodyHash(r), date, "scope"))
    OBVIOUS
  <2> HIDE DEF a
  <2>3. /\ s.authorization = a /\ s.presign = NoAuth
        /\ s.method = r.method /\ s.path = r.path /\ s.query = r.query
        /\ s.headers = r.headers
    BY <1>1, <2>1 DEF IsRequest
  <2>4. StringToSign(s, a.signed, BodyHash(s), date, "scope")
          = ClientText(r, names, NoAuth, BodyHash(r), date, "scope")
    BY <1>2, <1>3, <2>2, <2>3
       DEF StringToSign, ClientText, CanonicalizeUri, CanonicalizeQueryString,
           CanonicalizeHeaders, BodyHash
  <2>5. a # NoAuth
    <3>1. NoAuth.credential = "no credential" /\ Config.access_key = "access key"
      BY DEF NoAuth, Config
    <3> QED BY <2>2, <3>1
  <2>6. IsValid(FromAuthorizationHeader(s))
    BY <2>2, <2>3, <2>4 DEF IsValid, FromAuthorizationHeader
  <2> QED BY <1>1, <2>3, <2>5, <2>6 DEF Authorized, HasAuthorizationHeader
<1>5. CASE s = Presign(r, {"host"}, "first", "scope")
  <2> DEFINE names == {"host"}
             params == [credential |-> Config.access_key, scope |-> "scope",
                        date |-> "first", signed |-> Pick(NameOrder, names)]
             q == [credential |-> params.credential, scope |-> params.scope,
                   date |-> params.date, signed |-> params.signed,
                   signature |-> Signature(Config.secret_key,
                     ClientText(r, names, params, "UNSIGNED-PAYLOAD", "first", "scope"))]
  <2>1. s = [r EXCEPT !.presign = q]
    BY <1>5 DEF Presign
  <2>2. /\ q.credential = Config.access_key /\ q.scope = "scope"
        /\ q.date = "first" /\ q.signed = Pick(NameOrder, names)
        /\ q.signature = Signature(Config.secret_key,
             ClientText(r, names, params, "UNSIGNED-PAYLOAD", "first", "scope"))
        /\ Unsigned(q) = params
    BY DEF Unsigned
  <2> HIDE DEF q, params
  <2>3. /\ s.authorization = NoAuth /\ s.presign = q
        /\ s.method = r.method /\ s.path = r.path /\ s.query = r.query
        /\ s.headers = r.headers
    BY <1>1, <2>1 DEF IsRequest
  <2>4. q # NoAuth
    <3>1. NoAuth.credential = "no credential" /\ Config.access_key = "access key"
      BY DEF NoAuth, Config
    <3> QED BY <2>2, <3>1
  <2>5. StringToSign(s, q.signed, "UNSIGNED-PAYLOAD", "first", "scope")
          = ClientText(r, names, params, "UNSIGNED-PAYLOAD", "first", "scope")
    BY <1>2, <1>3, <2>2, <2>3, <2>4
       DEF StringToSign, ClientText, CanonicalizeUri, CanonicalizeQueryString,
           CanonicalizeHeaders
  <2>6. IsValid(FromQueryParams(s))
    BY <2>2, <2>3, <2>5 DEF IsValid, FromQueryParams
  <2> QED BY <2>3, <2>4, <2>6 DEF Authorized, HasAuthorizationHeader
<1> QED BY <1>4, <1>5 DEF Signings, r

GenuineInv ==
  /\ at # "idle" => Authorized(signed)
  /\ at = "unauthorized" => ~Authorized(wire)

LEMMA GenuineInvNext ==
  ASSUME PlainKeys = Keys, LineOrder = NameOrder, GenuineInv, [Next]_vars
  PROVE  GenuineInv'
<1>1. CASE Send
  <2>1. Authorized(signed')
    BY <1>1, SignedIsAuthorized DEF Send
  <2> QED BY <1>1, <2>1 DEF Send, GenuineInv
<1>2. CASE Authorize
  BY <1>2 DEF Authorize, GenuineInv
<1>3. CASE Rewrite
  BY <1>3 DEF Rewrite, GenuineInv
<1>4. CASE Close
  BY <1>4 DEF Close, GenuineInv
<1>5. CASE Arrive \/ End \/ Read \/ UNCHANGED vars
  <2>1. /\ UNCHANGED <<signed, wire>>
        /\ \/ at' = at
           \/ at = "reading" /\ at' \in {"handled", "rejected", "panicked"}
    BY <1>5 DEF Arrive, End, Read, NoSizePanics, NextChunk, LastChunk,
                ChunkFails, ReadBody, BodyFails, Leave, vars
  <2> QED BY <2>1 DEF GenuineInv
<1> QED BY <1>1, <1>2, <1>3, <1>4, <1>5 DEF Next

\* A request that arrives as it was signed, in either way, is not refused: when
\* all keys are of unreserved characters and the header lines sort as the names
\* do.  The run encoded_key shows what happens to other keys.
THEOREM GenuineIsAccepted ==
  ASSUME PlainKeys = Keys, LineOrder = NameOrder
  PROVE  Spec => []GenuineAccepted
<1>1. Init => GenuineInv
  BY DEF Init, Blank, GenuineInv
<1>2. GenuineInv /\ [Next]_vars => GenuineInv'
  BY GenuineInvNext
<1>3. GenuineInv => GenuineAccepted
  BY DEF GenuineInv, GenuineAccepted
<1> QED BY <1>1, <1>2, <1>3, PTL DEF Spec

=============================================================================
