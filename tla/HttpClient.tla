----------------------------- MODULE HttpClient -----------------------------
(***************************************************************************)
(* client_t (http/client/client.cc): send() with its retries, redirects    *)
(* and total deadline, stream() and upload(), on a request built by        *)
(* client_request_t and framed by frame_request_head (connection.cc).      *)
(*                                                                         *)
(* Borrowing and exchanging are the pool's and the connection's business   *)
(* (ClientPool, ClientConnection); here they end in any way they can.      *)
(***************************************************************************)
EXTENDS Integers, Sequences, FiniteSets

CONSTANTS HcOrigins,    \* the origins a url or a Location can name
          HcFields,     \* headers the caller may write itself
          HcRetries,    \* max_retries
          HcRedirects   \* max_redirects

\* The limits are unsigned.
ASSUME HcAssumption == HcRetries \in Nat /\ HcRedirects \in Nat

VARIABLES hcPc,         \* where the call is
          hcKind,       \* send, stream or upload
          hcReq,        \* the request: method, body, origin, user headers, idempotent
          hcTry,        \* attempt
          hcLeft,       \* redirects_left
          hcLease,      \* the connection borrowed: "none", "fresh" or "reused"
          hcWire        \* the requests that may have reached a peer, by hop

hcVars == <<hcPc, hcKind, hcReq, hcTry, hcLeft, hcLease, hcWire>>

HcMethods == {"GET", "POST"}
HcBodyMethods == {"POST"}             \* method_needs_zero_length
HcIdempotentMethods == {"GET"}        \* method_is_idempotent

HcInit ==
  /\ hcPc = "new"
  /\ hcKind = "send"
  /\ hcReq = [method |-> "GET", body |-> FALSE, expect |-> FALSE, origin |-> "none",
              user |-> {}, idempotent |-> "unset"]
  /\ hcTry = 0 /\ hcLeft = 0
  /\ hcLease = "none"
  /\ hcWire = <<>>

-----------------------------------------------------------------------------
\* Mutant of HcFramework: the framing header is added without asking the request.
HcFrameworkTwice(req, chunked) ==
  IF chunked THEN {"TransferEncoding"}
  ELSE IF req.body \/ req.method \in HcBodyMethods THEN {"ContentLength"} ELSE {}

\* frame_request_head: the headers the client adds to the caller's own.
HcFramework(req, chunked) ==
  ({"Host", "UserAgent", "Accept", "Connection"} \ req.user)
  \cup (IF chunked THEN {"TransferEncoding"} \ req.user
        ELSE IF /\ req.user \cap {"ContentLength", "TransferEncoding"} = {}
                /\ req.body \/ req.method \in HcBodyMethods
             THEN {"ContentLength"} ELSE {})
  \cup (IF req.expect /\ req.body THEN {"Expect"} \ req.user ELSE {})

\* What an attempt puts on the wire.
HcAttempt == [hop |-> HcRedirects - hcLeft, origin |-> hcReq.origin, method |-> hcReq.method,
              body |-> hcReq.body \/ hcKind = "upload", user |-> hcReq.user,
              added |-> HcFramework(hcReq, hcKind = "upload")]

\* request(), the builder, and the call of send, stream or upload.
HcCall ==
  /\ hcPc = "new"
  /\ \E k \in {"send", "stream", "upload"}, m \in HcMethods, b, e \in BOOLEAN,
        o \in HcOrigins, u \in SUBSET HcFields, i \in {"unset", "yes", "no"} :
        /\ k = "upload" => ~b
        /\ e => b
        /\ hcKind' = k
        /\ hcReq' = [method |-> m, body |-> b, expect |-> e, origin |-> o, user |-> u,
                     idempotent |-> i]
  /\ hcTry' = 0
  /\ hcLeft' = HcRedirects
  /\ hcPc' = "borrow"
  /\ UNCHANGED <<hcLease, hcWire>>

\* borrow: the pool fails, or lends a connection it opened or kept.
HcBorrow ==
  /\ hcPc = "borrow"
  /\ \/ /\ hcPc' = "done"
        /\ UNCHANGED hcLease
     \/ /\ hcPc' = "exchange"
        /\ hcLease' \in {"fresh", "reused"}
  /\ UNCHANGED <<hcKind, hcReq, hcTry, hcLeft, hcWire>>

HcIdempotent(req) ==
  IF req.idempotent = "unset" THEN req.method \in HcIdempotentMethods
  ELSE req.idempotent = "yes"

\* Mutant of HcRetryable: idempotency is not asked for.
HcRetryableAnyway(responded, timedOut) ==
  hcLease = "reused" /\ ~responded /\ ~timedOut /\ hcTry < HcRetries

\* The one failure worth replaying.
HcRetryable(responded, timedOut) ==
  /\ hcKind # "upload"
  /\ hcLease = "reused" /\ HcIdempotent(hcReq)
  /\ ~responded /\ ~timedOut
  /\ hcTry < HcRetries

\* exchange fails: the connection goes back unusable, and the attempt may be repeated.
\* The bytes may or may not have reached the peer.  Once the total deadline is over,
\* remaining() leaves an attempt one millisecond, and it ends in a timeout.
HcFails ==
  /\ hcPc = "exchange"
  /\ \E responded, timedOut, reached \in BOOLEAN :
        /\ responded => reached
        /\ hcWire' = IF reached THEN Append(hcWire, HcAttempt) ELSE hcWire
        /\ hcLease' = "none"
        /\ IF HcRetryable(responded, timedOut)
           THEN hcTry' = hcTry + 1 /\ hcPc' = "borrow"
           ELSE hcPc' = "done" /\ UNCHANGED hcTry
  /\ UNCHANGED <<hcKind, hcReq, hcLeft>>

\* Mutant of HcFollows: the origin of the target is not looked at.
HcFollowsAnywhere(target) == TRUE

\* follow: whether this redirect may be followed.
HcFollows(target) ==
  ~(target # hcReq.origin /\ "Authorization" \in hcReq.user)

\* exchange succeeds: send() returns the answer, and so it does for a redirect whose
\* Location is absent or unusable.
HcAnswered ==
  /\ hcPc = "exchange" /\ hcKind = "send"
  /\ hcWire' = Append(hcWire, HcAttempt)
  /\ hcPc' = "done"
  /\ hcLease' = "none"
  /\ UNCHANGED <<hcKind, hcReq, hcTry, hcLeft>>

\* A redirect is followed: the connection goes back, and 301, 302 and 303 rewrite the
\* request.
HcRedirected ==
  /\ hcPc = "exchange" /\ hcKind = "send" /\ hcLeft > 0
  /\ hcWire' = Append(hcWire, HcAttempt)
  /\ hcLease' = "none"
  /\ \E target \in HcOrigins, becomesGet \in BOOLEAN :
        /\ HcFollows(target)
        /\ hcReq' = IF becomesGet
                    THEN [hcReq EXCEPT !.method = "GET", !.body = FALSE, !.origin = target]
                    ELSE [hcReq EXCEPT !.origin = target]
  /\ hcLeft' = hcLeft - 1
  /\ hcTry' = 0
  /\ hcPc' = "borrow"
  /\ UNCHANGED hcKind

\* stream() and upload() hand the connection to the object they return.
HcHandsOut ==
  /\ hcPc = "exchange" /\ hcKind # "send"
  /\ hcWire' = Append(hcWire, HcAttempt)
  /\ hcPc' = "borrowed"
  /\ UNCHANGED <<hcKind, hcReq, hcTry, hcLeft, hcLease>>

\* The stream or upload object is finished or destroyed: give_back, once.
HcObjectEnds ==
  /\ hcPc = "borrowed"
  /\ hcPc' = "done"
  /\ hcLease' = "none"
  /\ UNCHANGED <<hcKind, hcReq, hcTry, hcLeft, hcWire>>

HcNext ==
  \/ HcCall \/ HcBorrow \/ HcFails \/ HcAnswered \/ HcRedirected \/ HcHandsOut \/ HcObjectEnds

HcSpec == HcInit /\ [][HcNext]_hcVars

-----------------------------------------------------------------------------
HcTypeOK ==
  /\ hcPc \in {"new", "borrow", "exchange", "borrowed", "done"}
  /\ hcTry \in 0..HcRetries /\ hcLeft \in 0..HcRedirects
  /\ hcLease \in {"none", "fresh", "reused"}
  /\ hcLease # "none" <=> hcPc \in {"exchange", "borrowed"}

\* A request that is not idempotent reaches a peer at most once per hop: the retry
\* rule replays only what the method, or the caller, declares safe to replay, and an
\* upload is never replayed.  No call sends more attempts than its retries allow.
HcNoReplay ==
  \A i, j \in DOMAIN hcWire : i < j /\ hcWire[i].hop = hcWire[j].hop =>
     /\ hcKind # "upload"
     /\ IF hcReq.idempotent = "unset" THEN hcWire[i].method \in HcIdempotentMethods
        ELSE hcReq.idempotent = "yes"
     /\ j - i <= HcRetries

\* What a redirect chain carries: Authorization stays on the origin it was written
\* for, through any number of hops.
HcCredentials ==
  \A i \in DOMAIN hcWire :
     "Authorization" \in hcWire[i].user => hcWire[i].origin = hcWire[1].origin

\* How a request is framed on every hop: the client repeats none of the headers the
\* caller wrote, a body is announced, an upload always by Transfer-Encoding, and a GET
\* without a body gets no framing header.  Two different ones go out together only when
\* the caller wrote both, or wrote a Content-Length on an upload, to which the client
\* still adds Transfer-Encoding.  (A Content-Length the caller wrote also survives a
\* redirect that drops the body.)
HcFramed ==
  \A i \in DOMAIN hcWire :
     LET r       == hcWire[i]
         framing == (r.user \cup r.added) \cap {"ContentLength", "TransferEncoding"}
     IN  /\ r.added \cap r.user = {}
         /\ r.body => framing # {}
         /\ hcKind = "upload" => "TransferEncoding" \in framing
         /\ {"ContentLength", "TransferEncoding"} \subseteq framing =>
              /\ "ContentLength" \in r.user
              /\ "TransferEncoding" \in r.user \/ hcKind = "upload"
         /\ ~r.body /\ r.method = "GET" => "ContentLength" \notin r.added

\* What goes out in the name of one call: no unsafe replay, no credentials to another
\* origin, no framing header the caller wrote repeated.
HcDiscipline == HcNoReplay /\ HcCredentials /\ HcFramed

HcHop == HcRedirects - hcLeft

HcHeaders == {"Host", "UserAgent", "Accept", "Connection", "TransferEncoding", "ContentLength", "Expect"}
HcCalls == [method : HcMethods, body : BOOLEAN, expect : BOOLEAN, origin : HcOrigins \cup {"none"},
            user : SUBSET HcFields, idempotent : {"unset", "yes", "no"}]
HcRequests == [hop : Nat, origin : HcOrigins \cup {"none"}, method : HcMethods, body : BOOLEAN,
               user : SUBSET HcFields, added : SUBSET HcHeaders]

\* Why HcDiscipline holds: the requests on the wire belong to this hop or an earlier one
\* and carry the caller's headers, those of this hop are the latest, no more than the
\* attempts made, and made with the request as it is now; a second attempt was only
\* made for a request that may be replayed.
HcInv ==
  /\ HcTypeOK /\ HcDiscipline
  /\ hcKind \in {"send", "stream", "upload"} /\ hcReq \in HcCalls /\ hcWire \in Seq(HcRequests)
  /\ hcPc \in {"borrow", "exchange"} =>
       /\ hcTry > 0 => hcKind # "upload" /\ HcIdempotent(hcReq)
       /\ \A i \in DOMAIN hcWire :
            /\ hcWire[i].hop <= HcHop
            /\ hcWire[i].user = hcReq.user
            /\ "Authorization" \in hcReq.user => hcWire[i].origin = hcReq.origin
            /\ hcWire[i].hop = HcHop => i > Len(hcWire) - hcTry /\ hcWire[i].method = hcReq.method
  /\ hcPc = "new" => hcWire = <<>>

=============================================================================
