----------------------------- MODULE WebSocket -----------------------------
(***************************************************************************)
(* One websocket session (session_t) after the handshake: the coroutine    *)
(* that runs the handler calls recv(), send(), close() and in the end      *)
(* finish(); the peer sends a script of frames cut into arbitrary reads;   *)
(* drain may call request_close(); the wheel may fire the deadline.  With  *)
(* WsParallel the handler only reads, and a second coroutine sends.        *)
(* A frame header is one unit of the stream, a payload byte another.  An   *)
(* unmasked byte keeps the index of the key byte it was masked with.       *)
(***************************************************************************)
EXTENDS Naturals, Sequences, SequencesExt, FiniteSets, FiniteSetsExt

CONSTANTS WsScripts,     \* what the peer may send, a sequence of scripts of frames
                         \* [op, fin, len, bad]; bad: refused by the decoder or the Close checks
          WsWindow,      \* recv_buffer_bytes
          WsMaxMessage,
          WsParallel,    \* whether a second coroutine calls send()
          WsCalls        \* bound: messages and pings the session's users send

VARIABLES wsScript,      \* the script of this behaviour, 0 before the session
          wsEof,         \* the peer's side is closed, wherever in its script it was
          wsGot, wsRead, \* units received into in_, units consumed from it
          wsFrame, wsLeft,           \* cur_ (0: no frame open) and cur_remaining_
          wsMsg, wsFragment, wsFragOp,   \* msg_, fragment_open_, frag_opcode_
          wsState, wsClosing, wsCanceled, wsFired, wsWait, wsFinished,
          wsPc,          \* where the handler's coroutine is
          wsPending,     \* coroutine -> units it is still writing
          wsOut,         \* the units on the wire, in order
          wsBroken,      \* writes fail from now on
          wsFrameNr,     \* frames begun
          wsDelivered    \* messages recv() returned

wsIn  == <<wsScript, wsEof, wsGot, wsRead>>
wsAsm == <<wsFrame, wsLeft, wsMsg, wsFragment, wsFragOp>>
wsEnd == <<wsState, wsClosing, wsCanceled, wsFired, wsWait, wsFinished>>
wsWr  == <<wsPending, wsOut, wsBroken, wsFrameNr>>
wsVars == <<wsIn, wsAsm, wsEnd, wsPc, wsWr, wsDelivered>>

WsCoroutines == {"handler", "writer"}

WsFrames == WsScripts[wsScript]

WsDataOps == {"text", "binary"}

WsInit ==
  /\ wsScript = 0 /\ wsEof = FALSE /\ wsGot = 0 /\ wsRead = 0
  /\ wsFrame = 0 /\ wsLeft = 0 /\ wsMsg = <<>> /\ wsFragment = FALSE /\ wsFragOp = "cont"
  /\ wsState = "Open" /\ wsClosing = FALSE /\ wsCanceled = FALSE /\ wsFired = FALSE
  /\ wsWait = FALSE /\ wsFinished = FALSE
  /\ wsPc = "begin" /\ wsPending = [c \in WsCoroutines |-> <<>>]
  /\ wsOut = <<>> /\ wsBroken = FALSE /\ wsFrameNr = 0 /\ wsDelivered = <<>>

WsBegin ==
  /\ wsPc = "begin" /\ wsPc' = "handler" /\ wsScript' \in DOMAIN WsScripts
  /\ UNCHANGED <<wsEof, wsGot, wsRead, wsAsm, wsEnd, wsWr, wsDelivered>>

\* The peer's stream: <<frame, 0>> is a header, <<frame, k>> payload byte k.
WsStream ==
  FoldLeft(LAMBDA s, f : s \o [k \in 1..(WsFrames[f].len + 1) |-> <<f, k - 1>>],
           <<>>, [f \in DOMAIN WsFrames |-> f])

\* A single thread: nobody else runs while step() is between two awaits.
WsYields == wsPc \notin {"step", "begin"}

-----------------------------------------------------------------------------
(* Sending.  writev_all() loops over short writes, so a frame leaves in    *)
(* pieces; the coroutine goes on when the last one has left.               *)

WsFrameUnits(kind) == <<<<kind, wsFrameNr + 1, "header">>, <<kind, wsFrameNr + 1, "payload">>>>

WsSubmit(c, kind) ==
  /\ wsFrameNr' = IF wsBroken THEN wsFrameNr ELSE wsFrameNr + 1
  /\ wsPending' = [wsPending EXCEPT ![c] = WsFrameUnits(kind)]
  /\ UNCHANGED <<wsOut, wsBroken>>

\* What step() returns to: recv()'s caller, or finish()'s loop.
WsReturned == IF wsWait THEN "drain" ELSE "handler"

\* The await of a write ends; ok tells how.
WsWritten(ok) ==
  CASE wsPc = "pong"    -> /\ wsPc' = IF ok THEN "step" ELSE WsReturned
                           /\ UNCHANGED <<wsState, wsWait, wsDelivered>>
    [] wsPc = "echo"    -> /\ wsPc' = WsReturned
                           /\ wsDelivered' = IF ok THEN Append(wsDelivered, [op |-> "close", body |-> <<>>]) ELSE wsDelivered
                           /\ UNCHANGED <<wsState, wsWait>>
    [] wsPc = "failing" -> /\ wsPc' = WsReturned
                           /\ wsState' = IF ok THEN "CloseSent" ELSE wsState
                           /\ UNCHANGED <<wsWait, wsDelivered>>
    [] wsPc = "closing" -> /\ wsPc' = "handler"
                           /\ wsState' = IF ok THEN "CloseSent" ELSE wsState
                           /\ UNCHANGED <<wsWait, wsDelivered>>
    [] wsPc = "finish"  -> \* the wait for the peer's Close begins
                           /\ wsPc' = IF wsFired THEN "drain" ELSE "step"
                           /\ wsState' = IF ok THEN "CloseSent" ELSE wsState
                           /\ wsWait' = ~wsFired
                           /\ UNCHANGED wsDelivered
    [] OTHER            -> wsPc' = "handler" /\ UNCHANGED <<wsState, wsWait, wsDelivered>>

WsWriteProgress(c) ==
  /\ WsYields /\ wsPending[c] # <<>>
  /\ \/ \E n \in 1..Len(wsPending[c]) :
          /\ ~wsBroken
          /\ wsOut' = wsOut \o SubSeq(wsPending[c], 1, n)
          /\ wsPending' = [wsPending EXCEPT ![c] = SubSeq(@, n + 1, Len(@))]
          /\ IF c = "handler" /\ n = Len(wsPending[c])
               THEN WsWritten(TRUE) ELSE UNCHANGED <<wsPc, wsState, wsWait, wsDelivered>>
          /\ UNCHANGED wsBroken
     \/ /\ wsBroken' = TRUE
        /\ wsPending' = [wsPending EXCEPT ![c] = <<>>]
        /\ IF c = "handler" THEN WsWritten(FALSE) ELSE UNCHANGED <<wsPc, wsState, wsWait, wsDelivered>>
        /\ UNCHANGED wsOut
  /\ UNCHANGED <<wsIn, wsAsm, wsClosing, wsCanceled, wsFired, wsFinished, wsFrameNr>>

\* The messages and pings on the wire.
WsUserFrames == {i \in DOMAIN wsOut : wsOut[i][1] \in {"data", "ping"} /\ wsOut[i][3] = "header"}

\* Mutant of WsMaySend: only a Close received from the peer stops the senders.
WsMaySendAfterClose == wsState # "CloseReceived"

\* send() and ping() are refused once closing has begun from either side.
WsMaySend == wsState = "Open"

WsSend(c, kind) ==
  /\ WsYields /\ WsMaySend /\ ~wsFinished /\ Cardinality(WsUserFrames) < WsCalls
  /\ WsParallel <=> c = "writer"
  /\ IF c = "handler" THEN wsPc = "handler" /\ wsPc' = "sending" ELSE UNCHANGED wsPc
  /\ wsPending[c] = <<>> /\ WsSubmit(c, kind)
  /\ UNCHANGED <<wsIn, wsAsm, wsEnd, wsDelivered>>

\* close() by the handler: a no-op unless Open.
WsClose ==
  /\ wsPc = "handler" /\ wsState = "Open" /\ ~WsParallel
  /\ wsPc' = "closing" /\ WsSubmit("handler", "close")
  /\ UNCHANGED <<wsIn, wsAsm, wsEnd, wsDelivered>>

-----------------------------------------------------------------------------
(* Receiving.                                                              *)

WsRecv ==
  /\ wsPc = "handler" /\ wsState # "CloseReceived" /\ ~wsFinished
  /\ wsPc' = "step" /\ UNCHANGED <<wsIn, wsAsm, wsEnd, wsWr, wsDelivered>>

\* fill(): the read is cancelled at once when the canceler already is.
WsAwaitsInput ==
  /\ wsPc' = IF wsCanceled THEN WsReturned ELSE "fill"
  /\ UNCHANGED <<wsIn, wsAsm, wsEnd, wsWr, wsDelivered>>

WsReadLands ==
  /\ wsPc = "fill"
  /\ \/ \E n \in 1..(Len(WsStream) - wsGot) :
          /\ ~wsEof /\ wsGot - wsRead + n <= WsWindow
          /\ wsGot' = wsGot + n /\ wsPc' = "step" /\ UNCHANGED wsEof
     \/ /\ wsEof' = TRUE
        /\ wsPc' = WsReturned /\ UNCHANGED wsGot
  /\ UNCHANGED <<wsScript, wsRead, wsAsm, wsEnd, wsWr, wsDelivered>>

\* fail_protocol(): tell the peer unless closing has begun.
WsFails ==
  /\ IF wsState = "Open" /\ ~wsFired
       THEN wsPc' = "failing" /\ WsSubmit("handler", "close")
       ELSE wsPc' = WsReturned /\ UNCHANGED wsWr
  /\ UNCHANGED <<wsIn, wsAsm, wsEnd, wsDelivered>>

WsWindowUnits == SubSeq(WsStream, wsRead + 1, wsGot)

\* parse(): reserved bits, an unknown opcode, a missing mask, a control frame that is
\* fragmented or too long.  What makes a Close bad is its payload, seen later.
WsMalformed(f) == f.bad /\ f.op # "close"

\* The message-level rules: no fragment out of place, no message too large.
WsRefused(f) ==
  \/ WsMalformed(f)
  \/ f.op \in WsDataOps /\ (wsFragment \/ f.len > WsMaxMessage)
  \/ f.op = "cont" /\ (~wsFragment \/ Len(wsMsg) + f.len > WsMaxMessage)

\* step() without an open frame: parse the next header and apply the
\* message-level rules.
WsHeader ==
  LET f == WsFrames[WsWindowUnits[1][1]]
      refused == WsRefused(f)
  IN  /\ wsPc = "step" /\ wsFrame = 0
      /\ \/ WsWindowUnits = <<>> /\ WsAwaitsInput
         \/ WsWindowUnits # <<>> /\ refused /\ WsFails
         \/ /\ WsWindowUnits # <<>> /\ ~refused
            /\ wsMsg' = IF f.op \in WsDataOps THEN <<>> ELSE wsMsg
            /\ wsRead' = wsRead + 1 /\ wsFrame' = WsWindowUnits[1][1] /\ wsLeft' = f.len
            /\ UNCHANGED <<wsScript, wsEof, wsGot, wsFragment, wsFragOp, wsEnd, wsPc, wsWr, wsDelivered>>

\* A control frame is taken whole; a Ping is answered, a Close echoed.
WsControl ==
  LET f == WsFrames[wsFrame]
      takes == /\ wsRead' = wsRead + wsLeft /\ wsFrame' = 0 /\ wsLeft' = 0
               /\ UNCHANGED <<wsScript, wsEof, wsGot, wsMsg, wsFragment, wsFragOp>>
      ends == UNCHANGED <<wsClosing, wsCanceled, wsFired, wsWait, wsFinished>>
  IN  /\ wsPc = "step" /\ wsFrame # 0 /\ f.op \in {"ping", "pong", "close"}
      /\ \/ Len(WsWindowUnits) < wsLeft /\ WsAwaitsInput
         \/ /\ Len(WsWindowUnits) >= wsLeft /\ f.op = "ping" /\ takes
            /\ wsPc' = "pong" /\ WsSubmit("handler", "pong")
            /\ ends /\ UNCHANGED <<wsState, wsDelivered>>
         \/ /\ Len(WsWindowUnits) >= wsLeft /\ f.op = "pong" /\ takes
            /\ ends /\ UNCHANGED <<wsState, wsPc, wsWr, wsDelivered>>
         \/ /\ Len(WsWindowUnits) >= wsLeft /\ f.op = "close" /\ f.bad /\ takes
            /\ IF wsState = "Open" /\ ~wsFired
                 THEN wsPc' = "failing" /\ WsSubmit("handler", "close")
                 ELSE wsPc' = WsReturned /\ UNCHANGED wsWr
            /\ ends /\ UNCHANGED <<wsState, wsDelivered>>
         \/ /\ Len(WsWindowUnits) >= wsLeft /\ f.op = "close" /\ ~f.bad /\ takes
            /\ wsState' = "CloseReceived" /\ ends
            /\ IF wsState = "Open"
                 THEN wsPc' = "echo" /\ WsSubmit("handler", "close") /\ UNCHANGED wsDelivered
                 ELSE /\ wsPc' = WsReturned /\ UNCHANGED wsWr
                      /\ wsDelivered' = Append(wsDelivered, [op |-> "close", body |-> <<>>])

\* apply_mask(): the key byte used for byte i (from 1) of a run of n that
\* starts at payload offset `at`: head bytewise, whole words, tail.
WsKeyByte(at, n, i) ==
  LET head == Min({n, (4 - (at % 4)) % 4})
      body == ((n - head) \div 4) * 4
  IN  IF i <= head THEN (at + i - 1) % 4 ELSE IF i <= head + body THEN (i - head - 1) % 4 ELSE i - head - body - 1

\* Mutant of WsDirect: the last run of a longer frame takes the fast path.
WsDirectLast(run) == ~wsFragment /\ run = wsLeft

\* Zero-copy delivery: the frame's whole payload is this run.
WsDirect(run) == ~wsFragment /\ run = WsFrames[wsFrame].len

\* A data frame: consume a run; the last one completes the frame, and the
\* last frame the message.
WsData ==
  LET f == WsFrames[wsFrame]
      run == Min({Len(WsWindowUnits), wsLeft})
      at == f.len - wsLeft
      part == [i \in 1..run |-> <<wsFrame, at + i, WsKeyByte(at, run, i)>>]
      body == IF WsDirect(run) THEN part ELSE wsMsg \o part
      complete == run = wsLeft
  IN  /\ wsPc = "step" /\ wsFrame # 0 /\ f.op \in WsDataOps \cup {"cont"}
      /\ \/ WsWindowUnits = <<>> /\ WsAwaitsInput
         \/ /\ WsWindowUnits # <<>>
            /\ wsRead' = wsRead + run /\ wsLeft' = wsLeft - run
            /\ wsFrame' = IF complete THEN 0 ELSE wsFrame
            /\ wsMsg' = IF WsDirect(run) /\ f.fin THEN wsMsg ELSE wsMsg \o part
            /\ wsFragment' = IF complete THEN ~f.fin ELSE wsFragment
            /\ wsFragOp' = IF complete /\ ~f.fin THEN f.op ELSE wsFragOp
            /\ IF complete /\ f.fin /\ ~wsWait
                 THEN /\ wsPc' = "handler"
                      /\ wsDelivered' = Append(wsDelivered,
                           [op |-> IF wsFragment THEN wsFragOp ELSE f.op, body |-> body])
                 ELSE UNCHANGED <<wsPc, wsDelivered>>
            /\ UNCHANGED <<wsScript, wsEof, wsGot, wsEnd, wsWr>>

-----------------------------------------------------------------------------
(* Ending.                                                                 *)

\* finish(): send Close if nobody did, else go straight to the wait.
WsFinish ==
  /\ wsPc = "handler" /\ ~wsFinished /\ wsPending["writer"] = <<>>
  /\ IF wsState = "Open" /\ ~wsFired
       THEN wsPc' = "finish" /\ WsSubmit("handler", "close") /\ UNCHANGED wsWait
       ELSE /\ wsWait' = (wsState # "CloseReceived" /\ ~wsFired)
            /\ wsPc' = IF wsState # "CloseReceived" /\ ~wsFired THEN "step" ELSE "drain"
            /\ UNCHANGED wsWr
  /\ UNCHANGED <<wsIn, wsAsm, wsState, wsClosing, wsCanceled, wsFired, wsFinished, wsDelivered>>

\* close_gracefully() and abandon(), then finished_.
WsAbandons ==
  /\ wsPc = "drain" /\ wsPc' = "done" /\ wsFinished' = TRUE /\ wsWait' = FALSE
  /\ UNCHANGED <<wsIn, wsAsm, wsState, wsClosing, wsCanceled, wsFired, wsWr, wsDelivered>>

\* The pending read is cancelled, and every later one.
WsCancels ==
  /\ WsYields /\ wsPc # "done" /\ wsCanceled' = TRUE
  /\ wsPc' = IF wsPc = "fill" THEN WsReturned ELSE wsPc
  /\ UNCHANGED <<wsIn, wsAsm, wsState, wsWait, wsFinished, wsWr, wsDelivered>>

\* request_close() by drain()
WsRequestClose == ~wsClosing /\ wsClosing' = TRUE /\ WsCancels /\ UNCHANGED wsFired

\* The idle or the close deadline, also one that was armed before request_close().
WsDeadlineFires == ~wsFired /\ wsFired' = TRUE /\ WsCancels /\ UNCHANGED wsClosing

WsNext ==
  \/ WsBegin \/ WsClose \/ WsRecv \/ WsReadLands \/ WsHeader \/ WsControl \/ WsData
  \/ WsFinish \/ WsAbandons \/ WsRequestClose \/ WsDeadlineFires
  \/ \E c \in WsCoroutines : WsWriteProgress(c) \/ WsSend(c, "data")
  \/ WsSend("handler", "ping")

-----------------------------------------------------------------------------
WsTypeOK ==
  wsPc # "begin" =>
  /\ wsRead <= wsGot /\ wsGot <= Len(WsStream) /\ wsGot - wsRead <= WsWindow
  /\ wsState \in {"Open", "CloseSent", "CloseReceived"} /\ wsFrame \in 0..Len(WsFrames)
  /\ wsPc \in {"handler", "step", "fill", "pong", "echo", "failing", "closing", "finish", "sending", "drain", "done"}

\* The messages of the script: a data frame with the continuations behind it.  The
\* opcode is that of the first frame, which the session forgets at the second of three
\* or more: their message is reported as a continuation.
WsScripted ==
  LET data == SelectSeq([f \in DOMAIN WsFrames |-> f], LAMBDA f : WsFrames[f].op \in WsDataOps \cup {"cont"})
      units(f) == [k \in 1..WsFrames[f].len |-> <<f, k, (k - 1) % 4>>]
      grown(acc, f) == [op   |-> IF acc.n = 0 THEN WsFrames[f].op ELSE IF acc.n = 1 THEN acc.op ELSE "cont",
                        n    |-> acc.n + 1, body |-> acc.body \o units(f), all |-> acc.all]
      step(acc, f) == LET g == grown(acc, f)
                      IN  IF WsFrames[f].fin
                          THEN [op |-> "none", n |-> 0, body |-> <<>>,
                                all |-> Append(g.all, [op |-> g.op, body |-> g.body])]
                          ELSE g
  IN  FoldLeft(step, [op |-> "none", n |-> 0, body |-> <<>>, all |-> <<>>], data).all

\* recv() returns the peer's messages whole, in order, as the kind they were sent (up to
\* two fragments) and unmasked with the right key bytes, however the frames were cut into
\* reads and whatever control frames came between; a Close comes last and once.
WsConversation ==
  wsScript # 0 =>
  /\ IsPrefix(SelectSeq(wsDelivered, LAMBDA m : m.op # "close"), WsScripted)
  /\ \A i \in DOMAIN wsDelivered : wsDelivered[i].op = "close" => i = Len(wsDelivered)

\* What leaves is whole frames, one behind the other; at most one of them is
\* a Close, and no message and no ping follows it, whoever closed and why.
WsFramesWhole ==
  /\ \A i \in DOMAIN wsOut :
       IF wsOut[i][3] = "header"
         THEN i = Len(wsOut) \/ wsOut[i + 1] = <<wsOut[i][1], wsOut[i][2], "payload">>
         ELSE i > 1 /\ wsOut[i - 1] = <<wsOut[i][1], wsOut[i][2], "header">>
  /\ \A i, j \in DOMAIN wsOut :
       i < j /\ wsOut[i][1] = "close" => wsOut[j][2] = wsOut[i][2] \/ wsOut[j][1] = "pong"

WsSound == WsConversation /\ WsFramesWhole
=============================================================================
