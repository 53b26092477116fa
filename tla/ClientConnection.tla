-------------------------- MODULE ClientConnection --------------------------
(***************************************************************************)
(* client_connection_t (http/client/connection.cc) over its life in the    *)
(* pool: exchanges, streamed responses and chunked uploads follow each     *)
(* other on one connection, each in the receive node of message.cc.        *)
(*                                                                         *)
(* The peer answers request x with units <<x, kind>>: the interim          *)
(* responses of CcShape[x].interim ("continue" is a 100, "hint" any other  *)
(* 1xx; the peer may leave some out), one unit of header section, and the  *)
(* body units.  A body is framed by its length ("length"), by chunks       *)
(* ("chunked") or by the end of the connection ("close").  The peer may    *)
(* close at any time and may send one unit nobody asked for behind a       *)
(* response.  A step runs from one await to the next.                      *)
(***************************************************************************)
EXTENDS Integers, Sequences

CONSTANTS CcShape,    \* the requests: [kind, expect, upload, interim, body, framing, keep]
          CcCap,      \* max_header_bytes, in units
          CcMaxBody   \* max_body_bytes, in units

CcRequest == [kind : {"exchange", "stream", "upload"}, expect : BOOLEAN, upload : Nat,
              interim : Seq({"continue", "hint"}), body : Nat,
              framing : {"length", "chunked", "close"}, keep : BOOLEAN]

ASSUME CcAssumption == CcShape \in Seq(CcRequest) /\ CcShape # <<>> /\ CcCap \in Nat

VARIABLES ccPc,       \* where the exchange is
          ccX,        \* the exchange in flight, or the next one
          ccNode,     \* node_: allocated, w (head.write_pos), body_window_, the body
          ccIn,       \* the parser's feed window
          ccGot,      \* body units of this response the parser has consumed
          ccRun,      \* the body run the parser paused on
          ccFlag,     \* headers_done_, body_complete_, keep_alive_, responded_, broken_, fired
          ccSent,     \* what each request put on the wire
          ccSock,     \* units in flight to us
          ccPeer,     \* the request the peer answers, the units it sent of that, junk, fin
          ccAnswer    \* what the caller of each exchange was given

ccVars == <<ccPc, ccX, ccNode, ccIn, ccGot, ccRun, ccFlag, ccSent, ccSock, ccPeer, ccAnswer>>

CcShapeOf == CcShape[ccX]
CcUnits(x) ==
  LET first == Len(CcShape[x].interim)
  IN  [i \in 1..(first + 1 + CcShape[x].body) |->
         <<x, IF i <= first THEN CcShape[x].interim[i]
              ELSE IF i = first + 1 THEN "head" ELSE "body">>]

CcNoNode == [on |-> FALSE, w |-> 0, window |-> 0, body |-> 0]

CcInit ==
  /\ ccPc = "pool"
  /\ ccX = 1
  /\ ccNode = CcNoNode
  /\ ccIn = <<>> /\ ccGot = 0 /\ ccRun = 0
  /\ ccFlag = [headers |-> FALSE, complete |-> TRUE, keep |-> TRUE, responded |-> FALSE,
               broken |-> FALSE, fired |-> FALSE]
  /\ ccSent = [x \in DOMAIN CcShape |-> <<>>]
  /\ ccSock = <<>>
  /\ ccPeer = [x |-> 1, sent |-> 0, junk |-> FALSE, fin |-> FALSE]
  /\ ccAnswer = [x \in DOMAIN CcShape |-> [result |-> "none", head |-> 0, body |-> <<>>]]

CcReusable == ~ccFlag.broken /\ ~ccFlag.fired /\ ccFlag.keep /\ ccFlag.complete

CcEnds(result) == [ccAnswer EXCEPT ![ccX].result = result]

\* The caller returns the connection: the next exchange follows on it, or it is closed.
CcGiveBack(reusable) ==
  /\ ccPc' = IF reusable /\ ccX < Len(CcShape) THEN "pool" ELSE "closed"
  /\ ccX' = IF reusable /\ ccX < Len(CcShape) THEN ccX + 1 ELSE ccX

\* Mutant of CcError: the exchange that failed leaves its connection usable.
CcErrorKept ==
  /\ ccAnswer' = CcEnds("error")
  /\ ccFlag' = [ccFlag EXCEPT !.fired = FALSE]
  /\ CcGiveBack(TRUE)

\* broken_ is set and the error returned, so the connection is not reusable.
CcError ==
  /\ ccAnswer' = CcEnds("error")
  /\ ccFlag' = [ccFlag EXCEPT !.broken = TRUE]
  /\ CcGiveBack(FALSE)

-----------------------------------------------------------------------------
\* ensure_node: a fresh node, or the one a drained and dropped stream left behind.
CcEnsureNode(f) == IF f.on THEN f ELSE [on |-> TRUE, w |-> 0, window |-> 0, body |-> 0]

\* alive_hint and the start of exchange, begin_exchange or begin_chunked: the head
\* goes out, alone when the body waits for a 100-continue or comes in chunks.
CcStarts ==
  /\ ccPc = "pool"
  /\ \/ /\ ccSock = <<>> /\ ~ccPeer.fin
        /\ ccNode' = CcEnsureNode(ccNode)
        /\ ccIn' = IF ccNode.on THEN ccIn ELSE <<>>
        /\ ccFlag' = [ccFlag EXCEPT !.responded = FALSE, !.complete = FALSE, !.headers = FALSE]
        /\ ccPc' = "writing"
     \/ /\ ccSock # <<>> \/ ccPeer.fin
        /\ ccPc' = "closed"
        /\ UNCHANGED <<ccNode, ccIn, ccFlag>>
  /\ ccGot' = 0 /\ ccRun' = 0
  /\ UNCHANGED <<ccX, ccSent, ccSock, ccPeer, ccAnswer>>

\* The pieces the next write_staged carries.
CcStaged ==
  IF ccPc = "lastChunk" THEN <<"last">>
  ELSE IF ccPc = "sendBody" THEN <<"body">>
  ELSE IF CcShapeOf.expect \/ CcShapeOf.upload = 0 \/ CcShapeOf.kind = "upload" THEN <<"head">>
  ELSE <<"head", "body">>

\* write_staged, and where the exchange goes on.
CcWrites ==
  /\ ccPc \in {"writing", "sendBody", "lastChunk"}
  /\ \/ /\ ~ccFlag.fired
        /\ ccSent' = [ccSent EXCEPT ![ccX] = @ \o CcStaged]
        /\ ccPc' = IF ccPc = "writing" /\ CcShapeOf.kind = "upload" THEN "upload"
                   ELSE IF ccPc = "writing" /\ CcShapeOf.expect THEN "permit"
                   ELSE "head"
        /\ UNCHANGED <<ccX, ccFlag, ccAnswer>>
     \/ /\ ccFlag.fired \/ ccPeer.fin
        /\ CcError
        /\ UNCHANGED ccSent
  /\ UNCHANGED <<ccNode, ccIn, ccGot, ccRun, ccSock, ccPeer>>

\* client_upload_t::write and finish; a dropped upload discards the connection.
CcUploads ==
  /\ ccPc = "upload"
  /\ \/ /\ Len(ccSent[ccX]) <= CcShapeOf.upload
        /\ ~ccFlag.fired
        /\ ccSent' = [ccSent EXCEPT ![ccX] = Append(@, "chunk")]
        /\ UNCHANGED <<ccPc, ccX, ccFlag, ccAnswer>>
     \/ /\ ccPc' = "lastChunk"
        /\ UNCHANGED <<ccX, ccFlag, ccSent, ccAnswer>>
     \/ /\ ccAnswer' = CcEnds("dropped")
        /\ CcGiveBack(FALSE)
        /\ UNCHANGED <<ccFlag, ccSent>>
  /\ UNCHANGED <<ccNode, ccIn, ccGot, ccRun, ccSock, ccPeer>>

-----------------------------------------------------------------------------
\* fill: some units behind the write position, or nothing more to come.
CcFill(w, n) ==
  /\ n <= Len(ccSock) /\ w + n <= CcCap
  /\ ccSock' = SubSeq(ccSock, n + 1, Len(ccSock))

\* Mutant of CcFinished: what follows the response is not noticed.
CcFinishedBlind(f, in) == [f EXCEPT !.complete = TRUE]

\* finish_message: unsolicited bytes cost the connection.
CcFinished(f, in) == [f EXCEPT !.complete = TRUE, !.keep = @ /\ in = <<>>]

\* record_headers; a response without a body is complete at once.
CcRecorded(in) ==
  LET f == [ccFlag EXCEPT !.headers = TRUE, !.responded = TRUE,
              !.keep = CcShapeOf.keep /\ CcShapeOf.framing # "close"]
  IN  IF CcShapeOf.body = 0 /\ CcShapeOf.framing # "close" THEN CcFinished(f, in) ELSE f

\* What the pump makes of the window: interim responses are swallowed, except the 100
\* that a body waits for.
CcSwallowed == IF ccPc = "permit" THEN {"hint"} ELSE {"hint", "continue"}

CcSkipped(in) ==
  LET firsts == {i \in 1..(Len(in) + 1) : i > Len(in) \/ in[i][2] \notin CcSwallowed}
  IN  CHOOSE i \in firsts : \A j \in firsts : i <= j

\* One pass of read_headers.
CcReadsHead ==
  /\ ccPc \in {"permit", "head"}
  /\ \/ \E n \in IF ccIn = <<>> THEN 1..CcCap ELSE {0} :
        LET got == ccIn \o SubSeq(ccSock, 1, n)
            at  == CcSkipped(got)
        IN  /\ CcFill(ccNode.w, n)
            /\ \/ /\ at <= Len(got) /\ got[at][2] = "continue"
                  /\ ccPc' = "sendBody"
                  /\ ccIn' = SubSeq(got, at + 1, Len(got))
                  /\ ccNode' = [ccNode EXCEPT !.w = @ + n]
                  /\ ccFlag' = [ccFlag EXCEPT !.responded = TRUE]
                  /\ UNCHANGED <<ccX, ccAnswer>>
               \/ /\ at > Len(got)
                  /\ ccIn' = <<>>
                  /\ ccNode' = [ccNode EXCEPT !.w = @ + n]
                  /\ ccFlag' = [ccFlag EXCEPT !.responded = TRUE]
                  /\ UNCHANGED <<ccPc, ccX, ccAnswer>>
               \/ /\ at <= Len(got) /\ got[at][2] = "head"
                  /\ LET in == SubSeq(got, at + 1, Len(got))
                         f  == CcRecorded(in)
                     IN  /\ ccIn' = in
                         /\ ccNode' = [ccNode EXCEPT !.w = @ + n, !.window = ccNode.w + n - Len(in)]
                         /\ ccFlag' = IF ccPc = "permit" THEN [f EXCEPT !.keep = FALSE] ELSE f
                         /\ ccAnswer' = [ccAnswer EXCEPT ![ccX].head = got[at][1]]
                  /\ ccPc' = "body"
                  /\ UNCHANGED ccX
               \/ /\ at <= Len(got) /\ got[at][2] \in {"body", "junk"}
                  /\ CcError
                  /\ UNCHANGED <<ccNode, ccIn>>
     \/ /\ ccIn = <<>>
        /\ ccNode.w >= CcCap \/ ccFlag.fired \/ (ccSock = <<>> /\ ccPeer.fin)
        /\ CcError
        /\ UNCHANGED <<ccNode, ccIn, ccSock>>
  /\ UNCHANGED <<ccGot, ccRun, ccSent, ccPeer>>

-----------------------------------------------------------------------------
\* take_response: the node leaves with the caller.
CcTakes(f) ==
  /\ ccAnswer' = CcEnds("ok")
  /\ ccNode' = CcNoNode
  /\ ccFlag' = [f EXCEPT !.headers = FALSE]

\* The body units of this response at the front of the window.
CcBodyRun(in) ==
  LET firsts == {i \in 1..(Len(in) + 1) : i > Len(in) \/ in[i] # <<ccX, "body">>}
  IN  (CHOOSE i \in firsts : \A j \in firsts : i <= j) - 1

CcTooLarge(n) ==
  \/ CcShapeOf.framing = "length" /\ CcShapeOf.body > CcMaxBody
  \/ CcShapeOf.framing # "length" /\ ccNode.body + n > CcMaxBody

CcLastUnit == CcShapeOf.framing # "close" /\ ccGot = CcShapeOf.body

\* aggregate_body, one pass: what the window holds is copied, the message may end.  A
\* length over the limit is refused by prepare_body, a body that outgrows it here.
CcAggregates ==
  /\ ccPc = "body" /\ CcShapeOf.kind # "stream"
  /\ ~ccFlag.complete
  /\ LET n == CcBodyRun(ccIn)
     IN  \/ /\ n > 0 /\ ~CcTooLarge(n)
            /\ ccNode' = [ccNode EXCEPT !.body = @ + n]
            /\ ccAnswer' = [ccAnswer EXCEPT ![ccX].body = @ \o SubSeq(ccIn, 1, n)]
            /\ ccGot' = ccGot + n
            /\ ccIn' = SubSeq(ccIn, n + 1, Len(ccIn))
            /\ ccFlag' = IF CcShapeOf.framing # "close" /\ ccGot' = CcShapeOf.body
                         THEN CcFinished(ccFlag, ccIn') ELSE ccFlag
            /\ UNCHANGED <<ccPc, ccX>>
         \/ /\ CcTooLarge(n)
            /\ CcError
            /\ UNCHANGED <<ccNode, ccIn, ccGot>>
  /\ UNCHANGED <<ccRun, ccSent, ccSock, ccPeer>>

\* A finished response is taken and the connection goes back.
CcExchangeEnds ==
  /\ ccPc = "body" /\ CcShapeOf.kind # "stream"
  /\ ccFlag.complete
  /\ CcTakes(ccFlag)
  /\ CcGiveBack(CcReusable)
  /\ UNCHANGED <<ccIn, ccGot, ccRun, ccSent, ccSock, ccPeer>>

\* refill_body rewinds to the window behind the header section.
CcRewound == ccNode.window

\* refill_body with an empty window, its error and its end of file: the end of the
\* connection ends a response without framing, and truncates any other.
CcRefills ==
  /\ ccPc = "body" /\ ~ccFlag.complete
  /\ ccIn = <<>> /\ ccRun = 0 /\ ~CcLastUnit
  /\ CcShapeOf.kind = "stream" \/ ~CcTooLarge(0)
  /\ \/ /\ \E n \in 1..CcCap :
              /\ CcFill(CcRewound, n)
              /\ ccIn' = SubSeq(ccSock, 1, n)
              /\ ccNode' = [ccNode EXCEPT !.w = CcRewound + n]
        /\ UNCHANGED <<ccPc, ccX, ccFlag, ccAnswer>>
     \/ /\ ccSock = <<>> /\ ccPeer.fin /\ CcShapeOf.framing = "close"
        /\ ccFlag' = CcFinished([ccFlag EXCEPT !.keep = FALSE], <<>>)
        /\ ccNode' = [ccNode EXCEPT !.w = CcRewound]
        /\ UNCHANGED <<ccPc, ccX, ccIn, ccSock, ccAnswer>>
     \/ /\ \/ ccSock = <<>> /\ ccPeer.fin /\ CcShapeOf.framing # "close"
           \/ ccFlag.fired
           \/ CcRewound >= CcCap
        /\ CcError
        /\ UNCHANGED <<ccNode, ccIn, ccSock>>
  /\ UNCHANGED <<ccGot, ccRun, ccSent, ccPeer>>

\* read_body of a stream: the parser pauses on each run, the caller takes it, and
\* the end of the message is noticed by the resume after the last one.
CcStreams ==
  /\ ccPc = "body" /\ CcShapeOf.kind = "stream"
  /\ ~ccFlag.complete
  /\ \/ /\ ccRun = 0 /\ CcBodyRun(ccIn) > 0
        /\ ccRun' = 1
        /\ ccIn' = Tail(ccIn)
        /\ UNCHANGED <<ccGot, ccFlag, ccAnswer>>
     \/ /\ ccRun = 1
        /\ ccRun' = 0
        /\ ccGot' = ccGot + 1
        /\ ccAnswer' = [ccAnswer EXCEPT ![ccX].body = Append(@, <<ccX, "body">>)]
        /\ UNCHANGED <<ccIn, ccFlag>>
     \/ /\ ccRun = 0 /\ CcLastUnit
        /\ ccFlag' = CcFinished(ccFlag, ccIn)
        /\ UNCHANGED <<ccIn, ccGot, ccRun, ccAnswer>>
  /\ UNCHANGED <<ccPc, ccX, ccNode, ccSent, ccSock, ccPeer>>

\* The stream object ends: finish() takes the response, the destructor leaves the
\* node with the connection; an unfinished body costs the connection.
CcStreamEnds ==
  /\ ccPc = "body" /\ CcShapeOf.kind = "stream"
  /\ \/ /\ ccFlag.complete
        /\ CcTakes(ccFlag)
     \/ /\ ccAnswer' = CcEnds("dropped")
        /\ UNCHANGED <<ccNode, ccFlag>>
  /\ CcGiveBack(CcReusable)
  /\ UNCHANGED <<ccIn, ccGot, ccRun, ccSent, ccSock, ccPeer>>

\* The deadline fires, or abort() is called: the operation in flight is cancelled.
CcFires ==
  /\ ccPc \notin {"pool", "closed"} /\ ~ccFlag.complete
  /\ ~ccFlag.fired
  /\ ccFlag' = [ccFlag EXCEPT !.fired = TRUE]
  /\ UNCHANGED <<ccPc, ccX, ccNode, ccIn, ccGot, ccRun, ccSent, ccSock, ccPeer, ccAnswer>>

\* The peer answers the requests in order once it has seen the head, sends something
\* behind a complete answer, or closes.
CcPeerSends ==
  /\ ~ccPeer.fin /\ ccPc # "closed"
  /\ \/ LET ended == ccPeer.sent = Len(CcUnits(ccPeer.x))
            x     == IF ended THEN ccPeer.x + 1 ELSE ccPeer.x
            next  == IF ended THEN 1 ELSE ccPeer.sent + 1
        IN  /\ x <= ccX /\ ccSent[x] # <<>>
            /\ ended => CcShape[ccPeer.x].framing # "close"
            /\ \E i \in next..(Len(CcShape[x].interim) + 1) \cup {next} :
                  /\ ccSock' = Append(ccSock, CcUnits(x)[i])
                  /\ ccPeer' = [ccPeer EXCEPT !.x = x, !.sent = i]
     \/ /\ ~ccPeer.junk
        /\ ccPeer.sent = Len(CcUnits(ccPeer.x)) /\ CcShape[ccPeer.x].framing # "close"
        /\ ccSock' = Append(ccSock, <<0, "junk">>)
        /\ ccPeer' = [ccPeer EXCEPT !.junk = TRUE]
     \/ /\ ccPeer' = [ccPeer EXCEPT !.fin = TRUE]
        /\ UNCHANGED ccSock
  /\ UNCHANGED <<ccPc, ccX, ccNode, ccIn, ccGot, ccRun, ccFlag, ccSent, ccAnswer>>

CcNext ==
  \/ CcStarts \/ CcWrites \/ CcUploads \/ CcReadsHead \/ CcAggregates \/ CcExchangeEnds
  \/ CcRefills \/ CcStreams \/ CcStreamEnds \/ CcFires \/ CcPeerSends

CcSpec == CcInit /\ [][CcNext]_ccVars

-----------------------------------------------------------------------------
CcTypeOK ==
  /\ ccPc \in {"pool", "writing", "permit", "sendBody", "upload", "lastChunk", "head", "body",
               "closed"}
  /\ ccX \in DOMAIN CcShape
  /\ ccNode.w \in 0..CcCap /\ ccNode.window \in 0..CcCap
  /\ ccRun \in 0..1 /\ ccGot \in Nat

\* A caller is only ever given its own response, and all of it: an exchange that
\* reports success carries the head of its own request's response and every body
\* unit of it, once and in order, whatever the earlier exchanges on the connection
\* left behind.
CcOwnAnswer ==
  \A x \in DOMAIN CcShape :
     /\ \A i \in DOMAIN ccAnswer[x].body : ccAnswer[x].body[i] = <<x, "body">>
     /\ Len(ccAnswer[x].body) <= CcShape[x].body
     /\ ccAnswer[x].result = "ok" =>
          /\ ccAnswer[x].head = x
          /\ CcShape[x].framing # "close" => Len(ccAnswer[x].body) = CcShape[x].body

\* A connection that goes back to the pool is at a message boundary in both
\* directions: nothing of the finished response is still to be read and nothing the
\* request announced is still to be sent.
CcCleanReuse ==
  ccPc = "pool" /\ ccX > 1 =>
    LET x == ccX - 1
    IN  /\ \A i \in DOMAIN ccSock : ccSock[i] = <<0, "junk">>
        /\ ccIn = <<>> /\ ccRun = 0
        /\ CcShape[x].upload > 0 =>
             ccSent[x][Len(ccSent[x])] = IF CcShape[x].kind = "upload" THEN "last" ELSE "body"

\* Every caller gets its own answer, and only a clean connection is used again.
CcSound == CcOwnAnswer /\ CcCleanReuse

=============================================================================
