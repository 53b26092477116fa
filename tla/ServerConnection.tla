------------------------- MODULE ServerConnection -------------------------
(***************************************************************************)
(* connection_t (http/server/connection.cc) with the parts it drives: the  *)
(* receive buffer (buffer.h), the request parser (parser.cc), the response *)
(* and its chunked writer (message.cc).                                    *)
(*                                                                         *)
(* What the peer sends is a stream of units: HsHeadParts units of header   *)
(* section and then the body units of request 1, of request 2, ...  A read *)
(* delivers any number of them.  What the server sends is a sequence of    *)
(* pieces, each the status line ("head"), the header lines ("hdr"), a body *)
(* ("body"), a chunk ("chunk"), the last chunk ("last"), an interim        *)
(* response ("100") or the upgrade ("101") of one request.  Between two    *)
(* awaits the connection is one step; request_close and the deadline come  *)
(* in at the awaits.                                                       *)
(***************************************************************************)
EXTENDS Integers, Sequences

CONSTANTS HsShape,        \* the requests: [body, policy, expect, keep, head, upgrade]
          HsStream,       \* what the peer sends: the units <<request, number>>, in order
          HsHeadParts,    \* units of a header section; 1: it arrives in one read
          HsCap,          \* max_header_bytes, in units
          HsPipelined,    \* max_pipelined
          HsSlots,        \* the capacity of pending_
          HsStreamBehind, \* whether a response may be streamed while head_out_ is in use
          HsChunks        \* bound: the chunks a handler writes

VARIABLES hsPc,           \* where run() is
          hsNext,         \* the next unit of HsStream to arrive
          hsIn,           \* in_ and the feed window: buf, w, pos, end
          hsMsg,          \* the message in the parser: req, got, off, the paused run, err
          hsBody,         \* in_body_, body_window_, streaming_, body_complete_
          hsResp,         \* resp_: source, failed, staged, finished, closes, fd
          hsOut,          \* head_out_, hdr_out_, pending_, and how far flush is
          hsWire,         \* what went out
          hsCtl,          \* closing_, fired, close_after_flush_, upgraded_, pipelined, cut
          hsFile,         \* file descriptors: opened and closed so far
          hsOwner         \* who holds the transport

hsVars == <<hsPc, hsNext, hsIn, hsMsg, hsBody, hsResp, hsOut, hsWire, hsCtl, hsFile, hsOwner>>

HsRequests == Len(HsShape)
HsLast(r) == HsHeadParts + HsShape[r].body

ASSUME HsAssumption ==
  /\ HsShape \in Seq([body : Nat, policy : {"agg", "stream"}, expect : BOOLEAN, keep : BOOLEAN,
                      head : BOOLEAN, upgrade : BOOLEAN])
  /\ HsHeadParts \in Nat /\ HsCap \in Nat /\ HsPipelined \in Nat /\ HsSlots \in Nat
  /\ HsStream \in Seq((1..HsRequests) \X Nat)

\* The requests come one behind the other, each from its first unit to its last.
ASSUME HsStreamAssumption ==
  /\ HsStream # <<>> => HsStream[1] = <<1, 1>>
  /\ \A j \in 1..Len(HsStream) :
       LET r == HsStream[j][1]
           n == HsStream[j][2]
       IN  /\ n <= HsLast(r)
           /\ \A i \in 1..HsLast(r) - n : j + i <= Len(HsStream) /\ HsStream[j + i] = <<r, n + i>>
           /\ n = HsLast(r) /\ j < Len(HsStream) => HsStream[j + 1] = <<r + 1, 1>>

\* resp_.begin()
HsBegin == [source |-> "None", failed |-> FALSE, staged |-> FALSE, finished |-> FALSE,
            closes |-> FALSE, chunks |-> 0]

HsInit ==
  /\ hsPc = "loop"
  /\ hsNext = 1
  /\ hsIn = [buf |-> [i \in 1..HsCap |-> <<0, 0>>], w |-> 0, pos |-> 0, end |-> 0]
  /\ hsMsg = [req |-> 1, got |-> 0, off |-> 0, run |-> 0, err |-> FALSE]
  /\ hsBody = [in |-> FALSE, window |-> 0, streaming |-> FALSE, complete |-> TRUE]
  /\ hsResp = HsBegin
  /\ hsOut = [head |-> <<>>, hdr |-> <<>>, pend |-> <<>>, i |-> 1]
  /\ hsWire = <<>>
  /\ hsCtl = [closing |-> FALSE, fired |-> FALSE, after |-> FALSE, upgraded |-> FALSE,
              pipelined |-> 0, cut |-> FALSE]
  /\ hsFile = [opened |-> 0, closed |-> 0]
  /\ hsOwner = "connection"

-----------------------------------------------------------------------------
(* The receive buffer and the parser.                                      *)

HsUnread == hsIn.pos < hsIn.end                       \* has_pending_input()

\* fill(): the recv completes with k units, committed at w and made the feed window.
HsFilled(k) ==
  /\ hsNext + k <= Len(HsStream) + 1
  /\ hsIn' = [buf |-> [i \in 1..HsCap |-> IF i \in hsIn.w + 1..hsIn.w + k
                                          THEN HsStream[hsNext + (i - hsIn.w) - 1] ELSE hsIn.buf[i]],
              w |-> hsIn.w + k, pos |-> hsIn.w, end |-> hsIn.w + k]
  /\ hsNext' = hsNext + k

\* Mutant of HsRewind: the whole buffer is reused.
HsRewindAll(in) == [in EXCEPT !.w = 0, !.pos = 0, !.end = 0]

\* rewind_to(body_window_): the region behind the header section is reused.
HsRewind(in) ==
  [in EXCEPT !.w = hsBody.window, !.pos = hsBody.window, !.end = hsBody.window]

\* pump(): how far llhttp runs over the window in and where it stops, for a message m
\* and a body sink or none.  Runs of a header section must be adjacent in the buffer
\* (accumulate); the header section, every run of a body without a sink and the end
\* of a message pause it.  A malformed message may be found anywhere.
HsPump(in, m, sink) ==
  LET avail == in.end - in.pos
      left  == HsLast(m.req) - m.got
      heads == HsHeadParts - m.got
      take(n, run) == [in |-> [in EXCEPT !.pos = @ + n],
                       m |-> [m EXCEPT !.got = @ + n, !.run = run,
                                       !.off = IF m.got = 0 THEN in.pos ELSE @]]
      apart == m.got > 0 /\ m.off + m.got # in.pos
      bad   == {[res |-> "Error", at |-> [in |-> in, m |-> [m EXCEPT !.err = TRUE]]]}
  IN  IF m.err \/ (heads > 0 /\ avail > 0 /\ apart) THEN bad ELSE
      CASE heads > 0 /\ avail < heads          -> {[res |-> "NeedMore", at |-> take(avail, 0)]}
        [] heads > 0 /\ avail >= heads         -> {[res |-> "HeadersReady", at |-> take(heads, 0)]}
                                                  \cup bad
        [] heads <= 0 /\ left = 0              -> {[res |-> "MessageReady", at |-> take(0, 0)]}
        [] heads <= 0 /\ left > 0 /\ avail = 0 -> {[res |-> "NeedMore", at |-> take(0, 0)]}
        [] heads <= 0 /\ left > 0 /\ avail > 0 ->
             LET n == IF avail < left THEN avail ELSE left
             IN  bad \cup {[res |-> IF ~sink THEN "BodyPaused"
                                    ELSE IF n = left THEN "MessageReady" ELSE "NeedMore",
                            at |-> take(n, IF sink THEN 0 ELSE n)]}

HsSink == ~hsBody.streaming

\* The result a step of the parser leads to, as the pc that handles it; a message that
\* asks for an upgrade ends the parsing in its own way.
HsParsed(in, upgrade) ==
  \E p \in HsPump(in, hsMsg, HsSink) :
    /\ hsIn' = p.at.in
    /\ hsMsg' = p.at.m
    /\ hsPc' = IF upgrade /\ p.res = "MessageReady" THEN "Upgrade" ELSE p.res

\* parser_.reset(): the next message starts where this one ended.
HsReset(m) == [req |-> m.req + 1, got |-> 0, off |-> 0, run |-> 0, err |-> FALSE]

-----------------------------------------------------------------------------
(* Framing.                                                                *)

\* frame_head: the status line goes to head_out_, the sealed header lines to hdr_out_.
HsFrameHead(o, r) == [o EXCEPT !.head = Append(@, <<"head", r>>), !.hdr = Append(@, <<"hdr", r>>)]

HsPending(o, p) == IF Len(o.pend) < HsSlots THEN [o EXCEPT !.pend = Append(@, p)] ELSE o

\* Mutant of HsFileLeaves: the descriptor stays in resp_ too.
HsFileLeavesNot(src) == [HsBegin EXCEPT !.source = src]

\* take_file_fd: once framed, a response holds its file no more.
HsFileLeaves(src) == HsBegin

\* frame_response, for everything but a streamed response.  A file body leaves resp_
\* with its descriptor, or is closed at once when the request was HEAD.
HsFramed(o, src, r) ==
  LET f == HsFrameHead(o, r)
  IN  HsPending(f, [head |-> Len(f.head), hdr |-> Len(f.hdr), r |-> r,
                    body |-> IF HsShape[r].head THEN "None" ELSE IF src = "File" THEN src ELSE "Inline"])

HsOverflows == Len(hsOut.pend) >= HsSlots      \* head_out_.fail(OutputOverflow)

\* write_continue: an interim response is queued; without a slot it is not.
HsContinue(o, r) ==
  LET f == [o EXCEPT !.head = Append(@, <<"100", r>>)]
  IN  HsPending(f, [head |-> Len(f.head), hdr |-> 0, r |-> r, body |-> "None"])

\* write_error: the response is started over (a file it held is closed), framed as an
\* error and the connection ends after the flush.
HsWriteError ==
  /\ hsResp' = HsBegin
  /\ hsFile' = [hsFile EXCEPT !.closed = @ + (IF hsResp.source = "File" THEN 1 ELSE 0)]
  /\ hsOut' = HsFramed(hsOut, "Inline", hsMsg.req)
  /\ hsBody' = [hsBody EXCEPT !.in = FALSE]
  /\ hsCtl' = [hsCtl EXCEPT !.after = TRUE, !.cut = @ \/ HsOverflows]
  /\ hsPc' = "flush"

\* reset_round
HsCleared == [head |-> <<>>, hdr |-> <<>>, pend |-> <<>>, i |-> 1]

-----------------------------------------------------------------------------
(* The loop of run().                                                      *)

\* Mutant of HsResumes: leftover input waits for the next read.
HsResumesNot == FALSE

\* Pipelined input is parsed before anything is read.
HsResumes == HsUnread

\* The head of the loop.
HsLoop ==
  /\ hsPc = "loop"
  /\ LET in == IF hsBody.in /\ ~HsUnread THEN HsRewind(hsIn) ELSE hsIn
     IN  IF hsCtl.closing \/ hsCtl.fired
         THEN hsPc' = "tail" /\ UNCHANGED <<hsIn, hsMsg>>
         ELSE IF HsResumes
         THEN HsParsed(in, FALSE)
         ELSE hsPc' = "read" /\ hsIn' = in /\ UNCHANGED hsMsg
  /\ UNCHANGED <<hsNext, hsBody, hsResp, hsOut, hsWire, hsCtl, hsFile, hsOwner>>

\* fill() completes with data, which is fed to the parser.
HsReads(k) ==
  /\ hsPc = "read"
  /\ hsIn.w + k <= HsCap
  /\ HsFilled(k)
  /\ hsPc' = "feed"
  /\ UNCHANGED <<hsMsg, hsBody, hsResp, hsOut, hsWire, hsCtl, hsFile, hsOwner>>

HsFeeds ==
  /\ hsPc = "feed"
  /\ HsParsed(hsIn, FALSE)
  /\ UNCHANGED <<hsNext, hsBody, hsResp, hsOut, hsWire, hsCtl, hsFile, hsOwner>>

\* fill() finds the buffer full: 431, flushed, and the loop is left.
HsFull ==
  /\ hsPc = "read"
  /\ hsIn.w = HsCap
  /\ HsWriteError
  /\ UNCHANGED <<hsNext, hsIn, hsMsg, hsWire, hsOwner>>

\* End of input, an error, or the read was cancelled by request_close or the deadline.
HsReadEnds ==
  /\ hsPc = "read"
  /\ hsIn.w < HsCap
  /\ hsPc' = "tail"
  /\ UNCHANGED <<hsNext, hsIn, hsMsg, hsBody, hsResp, hsOut, hsWire, hsCtl, hsFile, hsOwner>>

HsNeedMore ==
  /\ hsPc = "NeedMore"
  /\ hsPc' = "flush"
  /\ UNCHANGED <<hsNext, hsIn, hsMsg, hsBody, hsResp, hsOut, hsWire, hsCtl, hsFile, hsOwner>>

\* Error, or BodyPaused where an aggregated body was expected.
HsParseError ==
  /\ hsPc \in {"Error", "BodyPaused"}
  /\ HsWriteError
  /\ UNCHANGED <<hsNext, hsIn, hsMsg, hsWire, hsOwner>>

\* prepare_body: the request has no body, is aggregated, or is streamed to the handler.
HsPrepared ==
  LET s == HsShape[hsMsg.req]
  IN  [in |-> s.body > 0, window |-> hsIn.pos,
       streaming |-> s.body > 0 /\ s.policy = "stream", complete |-> s.body = 0]

\* HeadersReady: the request is routed and its body prepared; an unknown version, a
\* method that no route takes, a WebSocket route without an upgrade or a body too
\* large is answered with an error.  A streamed request is handled now.
HsHeadersReady ==
  /\ hsPc = "HeadersReady"
  /\ \/ HsWriteError /\ UNCHANGED <<hsNext, hsIn, hsMsg, hsWire, hsOwner>>
     \/ /\ hsResp' = HsBegin
        /\ hsFile' = [hsFile EXCEPT !.closed = @ + (IF hsResp.source = "File" THEN 1 ELSE 0)]
        /\ hsBody' = HsPrepared
        /\ hsOut' = IF HsShape[hsMsg.req].expect THEN HsContinue(hsOut, hsMsg.req) ELSE hsOut
        /\ hsPc' = IF HsPrepared.streaming THEN "serve" ELSE "resume"
        /\ UNCHANGED <<hsNext, hsIn, hsMsg, hsWire, hsCtl, hsOwner>>

\* parser_.resume() for an aggregated body or none.
HsResume ==
  /\ hsPc = "resume"
  /\ HsParsed(hsIn, HsShape[hsMsg.req].upgrade)
  /\ UNCHANGED <<hsNext, hsBody, hsResp, hsOut, hsWire, hsCtl, hsFile, hsOwner>>

\* MessageReady: the filters and the handler run.
HsMessageReady ==
  /\ hsPc = "MessageReady"
  /\ hsBody' = [hsBody EXCEPT !.in = FALSE, !.complete = TRUE]
  /\ hsPc' = "serve"
  /\ UNCHANGED <<hsNext, hsIn, hsMsg, hsResp, hsOut, hsWire, hsCtl, hsFile, hsOwner>>

-----------------------------------------------------------------------------
(* The handler.                                                            *)

\* read_body_chunk: a run that is pending is handed over; else the parser goes on, and
\* when it needs more the tail of the buffer is reused for the next read.
HsChunk(from, to) ==
  /\ hsPc = from
  /\ hsBody.streaming /\ ~hsBody.complete
  /\ IF hsMsg.run > 0
     THEN /\ hsMsg' = [hsMsg EXCEPT !.run = 0]
          /\ UNCHANGED <<hsPc, hsIn, hsBody>>
     ELSE \E p \in HsPump(hsIn, hsMsg, FALSE) :
            /\ hsMsg' = p.at.m
            /\ hsBody' = [hsBody EXCEPT !.complete = p.res = "MessageReady"]
            /\ hsIn' = IF p.res = "NeedMore" THEN HsRewind(p.at.in) ELSE p.at.in
            /\ hsPc' = CASE p.res = "NeedMore" -> to
                         [] p.res = "Error"    -> IF from = "drain" THEN "drainfail" ELSE from
                         [] OTHER              -> hsPc
  /\ UNCHANGED <<hsNext, hsResp, hsOut, hsWire, hsCtl, hsFile, hsOwner>>

\* The read of a body chunk completes: with data, or with an error or end of input.
HsChunkReads(from, to, k) ==
  /\ hsPc = to
  /\ \/ /\ k > 0
        /\ hsIn.w + k <= HsCap
        /\ HsFilled(k)
        /\ hsPc' = from
     \/ /\ k = 0
        /\ hsPc' = IF from = "drain" THEN "drainfail" ELSE from
        /\ hsNext' = Len(HsStream) + 1
        /\ UNCHANGED hsIn
  /\ UNCHANGED <<hsMsg, hsBody, hsResp, hsOut, hsWire, hsCtl, hsFile, hsOwner>>

\* The handler gives an answer: text or json, file(), or one that fails.  The status
\* may be one after which the connection closes.
HsAnswers(src, failed, closes) ==
  /\ hsPc = "serve"
  /\ hsResp.source = "None"
  /\ hsResp' = [hsResp EXCEPT !.source = src, !.failed = failed, !.closes = closes]
  /\ hsFile' = [hsFile EXCEPT !.opened = @ + (IF src = "File" THEN 1 ELSE 0)]
  /\ UNCHANGED <<hsPc, hsNext, hsIn, hsMsg, hsBody, hsOut, hsWire, hsCtl, hsOwner>>

\* chunked(): the status line and the headers are framed now and sent later.
HsStages ==
  /\ hsPc = "serve"
  /\ hsResp.source = "None"
  /\ HsStreamBehind \/ hsOut.head = <<>>
  /\ hsResp' = [hsResp EXCEPT !.source = "Streaming", !.staged = TRUE]
  /\ hsOut' = HsFrameHead(hsOut, hsMsg.req)
  /\ UNCHANGED <<hsPc, hsNext, hsIn, hsMsg, hsBody, hsWire, hsCtl, hsFile, hsOwner>>

\* flush_stream: with the first chunk goes all of head_out_ and the first header lines
\* of hdr_out_.
HsFlushStream(piece) ==
  IF hsResp.staged THEN hsOut.head \o <<hsOut.hdr[1]>> \o <<piece>> ELSE <<piece>>

\* body_writer_t::write and finish.
HsStreams(last) ==
  /\ hsPc = "serve"
  /\ hsResp.source = "Streaming"
  /\ ~hsResp.finished
  /\ last \/ hsResp.chunks < HsChunks
  /\ \/ /\ ~hsCtl.cut
        /\ hsWire' = hsWire \o HsFlushStream(<<IF last THEN "last" ELSE "chunk", hsMsg.req>>)
        /\ UNCHANGED hsCtl
     \/ hsCtl' = [hsCtl EXCEPT !.cut = TRUE] /\ UNCHANGED hsWire
  /\ hsResp' = [hsResp EXCEPT !.staged = FALSE, !.chunks = @ + (IF last THEN 0 ELSE 1),
                              !.finished = last /\ ~hsCtl'.cut]
  /\ UNCHANGED <<hsPc, hsNext, hsIn, hsMsg, hsBody, hsOut, hsFile, hsOwner>>

\* The handler returns.  What it left of a streamed body is drained.
HsReturns ==
  /\ hsPc = "serve"
  /\ hsPc' = IF hsBody.streaming /\ ~hsBody.complete THEN "drain" ELSE "settle"
  /\ UNCHANGED <<hsNext, hsIn, hsMsg, hsBody, hsResp, hsOut, hsWire, hsCtl, hsFile, hsOwner>>

HsDrained ==
  /\ hsPc = "drain"
  /\ hsBody.complete
  /\ hsPc' = "settle"
  /\ UNCHANGED <<hsNext, hsIn, hsMsg, hsBody, hsResp, hsOut, hsWire, hsCtl, hsFile, hsOwner>>

HsDrainFails ==
  /\ hsPc = "drainfail"
  /\ HsWriteError
  /\ UNCHANGED <<hsNext, hsIn, hsMsg, hsWire, hsOwner>>

HsCloseAfter == ~HsShape[hsMsg.req].keep \/ hsCtl.closing \/ hsResp.closes

\* A response that failed is replaced by a 500.
HsFails ==
  /\ hsPc = "settle"
  /\ hsResp.failed
  /\ HsWriteError
  /\ UNCHANGED <<hsNext, hsIn, hsMsg, hsWire, hsOwner>>

\* settle_streaming: a streamed response that was not finished is replaced by a 500
\* while nothing of it is out, and truncated otherwise.
HsSettles ==
  /\ hsPc = "settle"
  /\ ~hsResp.failed
  /\ hsResp.source = "Streaming" /\ ~hsResp.finished
  /\ hsBody' = [hsBody EXCEPT !.in = FALSE]
  /\ hsOut' = IF hsResp.staged
              THEN HsFramed([hsOut EXCEPT !.head = <<>>, !.hdr = <<>>], "Inline", hsMsg.req)
              ELSE hsOut
  /\ hsResp' = HsBegin
  /\ hsCtl' = [hsCtl EXCEPT !.closing = @ \/ ~hsResp.staged, !.after = TRUE,
                            !.cut = @ \/ (hsResp.staged /\ HsOverflows)]
  /\ hsPc' = "flush"
  /\ UNCHANGED <<hsNext, hsIn, hsMsg, hsWire, hsFile, hsOwner>>

\* frame_response, parser_.reset() and the next pipelined request; or the round ends,
\* for a close or at max_pipelined.
HsFrames ==
  /\ hsPc = "settle"
  /\ ~hsResp.failed
  /\ hsResp.source # "Streaming" \/ hsResp.finished
  /\ hsBody' = [hsBody EXCEPT !.in = FALSE, !.streaming = FALSE]
  /\ LET src  == hsResp.source
         noFd == src = "File" /\ HsShape[hsMsg.req].head
         m    == HsReset(hsMsg)
     IN  /\ hsOut' = IF src = "Streaming" THEN hsOut ELSE HsFramed(hsOut, src, hsMsg.req)
         /\ hsFile' = [hsFile EXCEPT !.closed = @ + (IF noFd THEN 1 ELSE 0)]
         /\ hsResp' = HsFileLeaves(src)
         /\ hsCtl' = [hsCtl EXCEPT !.after = HsCloseAfter, !.pipelined = @ + 1,
                                   !.cut = @ \/ (src # "Streaming" /\ HsOverflows)]
         /\ IF HsCloseAfter
            THEN hsPc' = "flush" /\ UNCHANGED <<hsIn, hsMsg>>
            ELSE IF hsCtl.pipelined + 1 >= HsPipelined \/ ~HsUnread
            THEN hsPc' = "flush" /\ hsMsg' = m /\ UNCHANGED hsIn
            ELSE \E p \in HsPump(hsIn, m, TRUE) :
                   hsIn' = p.at.in /\ hsMsg' = p.at.m /\ hsPc' = p.res
  /\ UNCHANGED <<hsNext, hsWire, hsOwner>>

-----------------------------------------------------------------------------
(* Upgrade.                                                                *)

\* Refused: no WebSocket route, a bad handshake, a filter or ws_accept said no.
HsRefuses ==
  /\ hsPc = "Upgrade"
  /\ HsWriteError
  /\ UNCHANGED <<hsNext, hsIn, hsMsg, hsWire, hsOwner>>

\* run_websocket: what was answered is flushed and the 101 follows; then the session
\* owns the transport.  When either write fails the transport stays here.
HsUpgrades ==
  /\ hsPc = "Upgrade"
  /\ hsPc' = "wsflush"
  /\ UNCHANGED <<hsNext, hsIn, hsMsg, hsBody, hsResp, hsOut, hsWire, hsCtl, hsFile, hsOwner>>

HsHandsOver ==
  /\ hsPc = "ws101"
  /\ \/ /\ ~hsCtl.cut
        /\ hsWire' = Append(hsWire, <<"101", hsMsg.req>>)
        /\ hsOwner' = "session"
        /\ hsPc' = "session"
        /\ UNCHANGED hsCtl
     \/ /\ hsCtl' = [hsCtl EXCEPT !.cut = TRUE, !.upgraded = TRUE, !.after = TRUE]
        /\ hsPc' = "tail"
        /\ UNCHANGED <<hsWire, hsOwner>>
  /\ UNCHANGED <<hsNext, hsIn, hsMsg, hsBody, hsResp, hsOut, hsFile>>

\* The handler of the session ends and finish() closes the transport.
HsSessionEnds ==
  /\ hsPc = "session"
  /\ hsOwner' = "closed"
  /\ hsCtl' = [hsCtl EXCEPT !.upgraded = TRUE, !.after = TRUE]
  /\ hsPc' = "tail"
  /\ UNCHANGED <<hsNext, hsIn, hsMsg, hsBody, hsResp, hsOut, hsWire, hsFile>>

-----------------------------------------------------------------------------
(* flush(), the end of a round and the end of run().                       *)

\* What a slot contributes to a gathered write.
HsPieces(p) ==
  <<hsOut.head[p.head]>> \o (IF p.hdr = 0 THEN <<>> ELSE <<hsOut.hdr[p.hdr]>>)
    \o (IF p.body = "Inline" THEN <<<<"body", p.r>>>> ELSE <<>>)

\* Mutant of HsSends: a file body goes out before its head.
HsSendsSwapped ==
  LET p == hsOut.pend[hsOut.i]
  IN  hsWire \o (IF p.body = "File" THEN <<<<"body", p.r>>>> ELSE <<>>) \o HsPieces(p)

\* The next slot is written: buffers, then the file that belongs to it.
HsSends ==
  LET p == hsOut.pend[hsOut.i]
  IN  hsWire \o HsPieces(p) \o (IF p.body = "File" THEN <<<<"body", p.r>>>> ELSE <<>>)

\* A slot at a time; a failed write closes at most the file it was sending.
HsFlushes(ok) ==
  /\ hsPc \in {"flush", "wsflush"}
  /\ hsOut.i <= Len(hsOut.pend)
  /\ LET p == hsOut.pend[hsOut.i]
     IN  /\ IF ok
            THEN /\ ~hsCtl.cut
                 /\ hsWire' = HsSends
                 /\ hsOut' = [hsOut EXCEPT !.i = @ + 1]
                 /\ UNCHANGED <<hsPc, hsCtl>>
            ELSE /\ hsOut' = HsCleared
                 /\ hsCtl' = [hsCtl EXCEPT !.cut = TRUE, !.upgraded = hsPc = "wsflush"]
                 /\ hsPc' = "tail"
                 /\ UNCHANGED hsWire
         /\ \E closes \in (IF ok THEN {p.body = "File"} ELSE {FALSE, p.body = "File"}) :
              hsFile' = [hsFile EXCEPT !.closed = @ + (IF closes THEN 1 ELSE 0)]
  /\ UNCHANGED <<hsNext, hsIn, hsMsg, hsBody, hsResp, hsOwner>>

\* The test before the receive buffer is reclaimed.
HsReclaimable == ~hsBody.in /\ ~HsUnread

\* Everything is out: the round is reset, and the loop ends or goes on.
HsRoundEnds ==
  /\ hsPc \in {"flush", "wsflush"}
  /\ hsOut.i > Len(hsOut.pend)
  /\ hsOut' = HsCleared
  /\ hsCtl' = [hsCtl EXCEPT !.pipelined = 0]
  /\ IF hsPc = "wsflush" THEN hsPc' = "ws101" /\ UNCHANGED hsIn
     ELSE IF hsCtl.after THEN hsPc' = "tail" /\ UNCHANGED hsIn
     ELSE /\ hsPc' = "loop"
          /\ hsIn' = IF HsReclaimable THEN [hsIn EXCEPT !.w = 0, !.pos = 0, !.end = 0] ELSE hsIn
  /\ UNCHANGED <<hsNext, hsMsg, hsBody, hsResp, hsWire, hsFile, hsOwner>>

\* After the loop: shutdown_gracefully unless the deadline fired, the buffers are
\* released and the transport is abandoned; an upgraded connection does neither, and
\* its transport, if it is still here, closes with the connection object.
HsTail ==
  /\ hsPc = "tail"
  /\ hsOwner' = "closed"
  /\ hsFile' = [hsFile EXCEPT !.closed = @ + (IF hsResp.source = "File" THEN 1 ELSE 0)]
  /\ hsResp' = HsBegin
  /\ hsPc' = "done"
  /\ UNCHANGED <<hsNext, hsIn, hsMsg, hsBody, hsOut, hsWire, hsCtl>>

\* request_close, from server_t::drain, at an await.
HsAwaits == {"read", "serve", "bodyread", "drainread", "flush", "wsflush", "session"}
HsRequestClose ==
  /\ hsPc \in HsAwaits
  /\ ~hsCtl.closing
  /\ hsCtl' = [hsCtl EXCEPT !.closing = TRUE]
  /\ UNCHANGED <<hsPc, hsNext, hsIn, hsMsg, hsBody, hsResp, hsOut, hsWire, hsFile, hsOwner>>

\* The deadline fires at an await.
HsFires ==
  /\ hsPc \in HsAwaits
  /\ ~hsCtl.fired
  /\ hsCtl' = [hsCtl EXCEPT !.fired = TRUE]
  /\ UNCHANGED <<hsPc, hsNext, hsIn, hsMsg, hsBody, hsResp, hsOut, hsWire, hsFile, hsOwner>>

HsNext ==
  \/ HsLoop \/ HsFeeds \/ HsFull \/ HsReadEnds \/ HsNeedMore \/ HsParseError \/ HsHeadersReady
  \/ HsResume \/ HsMessageReady \/ HsStages \/ HsReturns \/ HsDrained \/ HsDrainFails
  \/ HsFails \/ HsSettles \/ HsFrames \/ HsRefuses \/ HsUpgrades \/ HsHandsOver
  \/ HsSessionEnds \/ HsRoundEnds \/ HsTail \/ HsRequestClose \/ HsFires
  \/ \E k \in 1..HsCap : HsReads(k)
  \/ HsChunk("serve", "bodyread") \/ HsChunk("drain", "drainread")
  \/ \E k \in 0..HsCap : HsChunkReads("serve", "bodyread", k) \/ HsChunkReads("drain", "drainread", k)
  \/ \E src \in {"Inline", "File"}, f, c \in BOOLEAN : HsAnswers(src, f, c)
  \/ \E b \in BOOLEAN : HsStreams(b) \/ HsFlushes(b)

HsSpec == HsInit /\ [][HsNext]_hsVars

-----------------------------------------------------------------------------
(* Properties.                                                             *)

HsTypeOK ==
  /\ hsIn.pos \in 0..HsCap /\ hsIn.end \in hsIn.pos..HsCap /\ hsIn.w \in 0..HsCap
  /\ hsMsg.req \in 1..HsRequests + 1
  /\ hsOut.i \in 1..HsSlots + 1
  /\ hsOwner \in {"connection", "session", "closed"}

\* From the first byte of a header section until the response is framed, the bytes its
\* recorded offsets name are those of this request: no read, rewind or reclaim moves
\* or overwrites them ("compact() may only run at a message boundary", buffer.h).
HsHeadersIntact ==
  hsPc \notin {"tail", "done"} =>
    \A n \in 1..HsHeadParts : n <= hsMsg.got => hsIn.buf[hsMsg.off + n] = <<hsMsg.req, n>>

\* What leaves the connection is the answers in the order of the requests, each once and
\* whole; only the last one may be cut short, by a failed write or by truncation.  No
\* error follows chunks that were sent ("A 500 would now lie about the status line",
\* settle_streaming), but where the code breaks that rule: HsLies.
HsFinal == SelectSeq(hsWire, LAMBDA p : p[1] # "100")
HsFollows(p, q) ==
  CASE p[1] = "head"             -> q = <<"hdr", p[2]>>
    [] p[1] = "hdr"              -> \/ q[1] \in {"body", "chunk", "last"} /\ q[2] = p[2]
                                    \/ HsShape[p[2]].head /\ q \in {<<"head", p[2] + 1>>, <<"101", p[2] + 1>>}
    [] p[1] = "chunk"            -> q[1] \in {"chunk", "last"} /\ q[2] = p[2]
    [] p[1] \in {"body", "last"} -> q \in {<<"head", p[2] + 1>>, <<"101", p[2] + 1>>}
    [] OTHER                     -> FALSE

\* The handler of a streamed request answered with chunks and left a rest of the request
\* body that cannot be read: run() writes an error behind the chunks.  It is the last
\* thing the connection sends, and only a request with a streamed body gets it.
HsLies(i) ==
  LET r == HsFinal[i][2]
  IN  /\ HsFinal[i][1] \in {"chunk", "last"} /\ HsFinal[i + 1] = <<"head", r>>
      /\ HsShape[r].policy = "stream" /\ HsShape[r].body > 0
      /\ Len(HsFinal) <= i + 3 /\ hsCtl.after

HsWireOrder ==
  /\ HsFinal # <<>> => HsFinal[1] \in {<<"head", 1>>, <<"101", 1>>}
  /\ \A i \in 1..Len(HsFinal) - 1 : HsFollows(HsFinal[i], HsFinal[i + 1]) \/ HsLies(i)

\* Nothing waits for the peer that the peer may be waiting for: when run() reads, every
\* response it framed is out and everything received has been parsed.
HsAnswersOut == hsPc = "read" => hsOut.pend = <<>> /\ ~HsUnread

\* A file body is closed at most once, and as long as no write failed none is left open
\* when the connection is done.
HsFilesClosed ==
  /\ hsFile.closed <= hsFile.opened
  /\ hsPc = "done" /\ ~hsCtl.cut => hsFile.closed = hsFile.opened

\* The answers leave whole, in order and without waiting for the peer, and the files
\* they are made of are closed.
HsInOrder == HsWireOrder /\ HsAnswersOut /\ HsFilesClosed

=============================================================================
