----------------------------- MODULE TlsStream -----------------------------
(***************************************************************************)
(* Two ends of one TLS connection, each a transport_t whose coroutine runs *)
(* a program of operations: "connect", "start_tls", "write", "read",       *)
(* "shutdown" and "drain", then abandons the socket.  tls_stream_t pumps   *)
(* records between the engine's memory buffers and the socket through one  *)
(* scratch buffer.  The engine (OpenSSL) is external: it is modelled by    *)
(* the flights of the handshake and by one unit per record.                *)
(***************************************************************************)
EXTENDS Naturals, Sequences, FiniteSetsExt

CONSTANTS TlProgram,     \* side -> its operations
          TlRecords,     \* records one writev() becomes
          TlBite, TlMaxBite,   \* kMinIoBiteSize, kMaxIoBiteSize, in records
          TlFlights,     \* the handshake: who makes each flight
          TlHsLast       \* side -> the flight its SSL_do_handshake() returns after

TlSides == {"client", "server"}

ASSUME TlAssumption ==
  /\ TlProgram \in [TlSides -> Seq({"connect", "start_tls", "write", "read", "shutdown", "drain"})]
  /\ TlRecords \in Nat /\ TlBite \in Nat /\ TlMaxBite \in Nat

TlPeer(s) == IF s = "client" THEN "server" ELSE "client"

VARIABLES tlOp,       \* side -> index of the running operation
          tlPc,       \* side -> "begin", "engine", "flush", "fill", "failed", "closed"
          tlThen,     \* side -> what flush_output() returns to
          tlHs,       \* side -> flights it has seen or made
          tlMade,     \* side -> records made so far
          tlOut,      \* side -> wbio: records not taken yet
          tlScratch,  \* side -> io_bite_, the part not sent yet
          tlFull,     \* side -> the piece in the scratch filled it when it was taken
          tlSize,     \* side -> io_bite_size_
          tlNet,      \* side -> records on the way to it
          tlIn,       \* side -> rbio
          tlSeen,     \* side -> records its engine consumed
          tlCut,      \* side -> a flush of it failed: what the scratch held is lost
          tlSock      \* side -> owner of the descriptor: "transport" (the plain socket),
                      \*   "frame" (the stream local to start_tls()), "stream", "nobody"

tlVars == <<tlOp, tlPc, tlThen, tlHs, tlMade, tlOut, tlScratch, tlFull, tlSize, tlNet, tlIn, tlSeen,
            tlCut, tlSock>>

TlInit ==
  /\ tlOp = [s \in TlSides |-> 1] /\ tlPc = [s \in TlSides |-> "begin"]
  /\ tlThen = [s \in TlSides |-> "engine"] /\ tlHs = [s \in TlSides |-> 0] /\ tlMade = [s \in TlSides |-> 0]
  /\ tlOut = [s \in TlSides |-> <<>>] /\ tlScratch = [s \in TlSides |-> <<>>]
  /\ tlFull = [s \in TlSides |-> FALSE]
  /\ tlSize = [s \in TlSides |-> TlBite] /\ tlNet = [s \in TlSides |-> <<>>]
  /\ tlIn = [s \in TlSides |-> <<>>] /\ tlSeen = [s \in TlSides |-> 0]
  /\ tlCut = [s \in TlSides |-> FALSE] /\ tlSock = [s \in TlSides |-> "transport"]

TlDoing(s) == IF tlOp[s] > Len(TlProgram[s]) THEN "end" ELSE TlProgram[s][tlOp[s]]

TlGoes(s, pc) == tlPc' = [tlPc EXCEPT ![s] = pc]

\* A record: its kind and its number among those of its side.
TlRecord(s, kind, n) == [kind |-> kind, nr |-> tlMade[s] + n]

\* The engine appends records to wbio.
TlMakes(s, kind, n) ==
  /\ tlOut' = [tlOut EXCEPT ![s] = @ \o [i \in 1..n |-> TlRecord(s, kind, i)]]
  /\ tlMade' = [tlMade EXCEPT ![s] = @ + n]

\* The operation ends well; the next one begins.
TlDone(s) == tlOp' = [tlOp EXCEPT ![s] = @ + 1] /\ TlGoes(s, "begin")

\* abandon(): the plain socket or the stream gives the descriptor up and it is
\* closed; a transport whose socket was moved away has nothing to give up.
TlAbandons(s) ==
  /\ tlPc[s] = "failed" \/ (tlPc[s] = "begin" /\ TlDoing(s) = "end")
  /\ TlGoes(s, "closed")
  /\ tlSock' = [tlSock EXCEPT ![s] = IF @ = "frame" THEN @ ELSE "nobody"]
  /\ UNCHANGED <<tlOp, tlThen, tlHs, tlMade, tlOut, tlScratch, tlFull, tlSize, tlNet, tlIn, tlSeen, tlCut>>

TlFlushesThen(s, then) == TlGoes(s, "flush") /\ tlThen' = [tlThen EXCEPT ![s] = then]

TlStarts(s) ==
  /\ tlPc[s] = "begin"
  /\ \/ TlDoing(s) = "connect" /\ TlDone(s) /\ UNCHANGED <<tlThen, tlSock>>
     \/ \* start_tls(): the stream takes the socket; handshake() flushes first
        /\ TlDoing(s) = "start_tls"
        /\ tlSock' = [tlSock EXCEPT ![s] = "frame"]
        /\ TlFlushesThen(s, "engine") /\ UNCHANGED tlOp
     \/ TlDoing(s) \in {"write", "read", "shutdown", "drain"} /\ TlGoes(s, "engine") /\ UNCHANGED <<tlOp, tlThen, tlSock>>
  /\ UNCHANGED <<tlHs, tlMade, tlOut, tlScratch, tlFull, tlSize, tlNet, tlIn, tlSeen, tlCut>>

-----------------------------------------------------------------------------
(* flush_output() and fill_input().                                        *)

\* Up to a bite of wbio is taken; an empty wbio ends the flush.
TlTakes(s) ==
  /\ tlPc[s] = "flush" /\ tlScratch[s] = <<>>
  /\ LET n == Min({Len(tlOut[s]), tlSize[s]})
     IN  \/ /\ n > 0
            /\ tlScratch' = [tlScratch EXCEPT ![s] = SubSeq(tlOut[s], 1, n)]
            /\ tlFull' = [tlFull EXCEPT ![s] = n = tlSize[s]]
            /\ tlOut' = [tlOut EXCEPT ![s] = SubSeq(@, n + 1, Len(@))]
            /\ UNCHANGED <<tlOp, tlPc>>
         \/ /\ n = 0
            /\ IF tlThen[s] = "done" THEN TlDone(s) ELSE TlGoes(s, tlThen[s]) /\ UNCHANGED tlOp
            /\ UNCHANGED <<tlScratch, tlFull, tlOut>>
  /\ UNCHANGED <<tlThen, tlHs, tlMade, tlSize, tlNet, tlIn, tlSeen, tlCut, tlSock>>

\* send() takes part of the scratch; once a piece that filled it has left, in however
\* many sends, the scratch grows.
TlSends(s) ==
  /\ tlPc[s] = "flush" /\ tlPc[TlPeer(s)] # "closed"
  /\ \E n \in 1..Len(tlScratch[s]) :
       /\ tlNet' = [tlNet EXCEPT ![TlPeer(s)] = @ \o SubSeq(tlScratch[s], 1, n)]
       /\ tlScratch' = [tlScratch EXCEPT ![s] = SubSeq(@, n + 1, Len(@))]
       /\ tlSize' = [tlSize EXCEPT ![s] = IF tlFull[s] /\ n = Len(tlScratch[s]) THEN TlMaxBite ELSE @]
       /\ tlFull' = [tlFull EXCEPT ![s] = @ /\ n < Len(tlScratch[s])]
  /\ UNCHANGED <<tlOp, tlPc, tlThen, tlHs, tlMade, tlOut, tlIn, tlSeen, tlCut, tlSock>>

TlFills(s) ==
  /\ tlPc[s] = "fill"
  /\ \E n \in 1..Min({Len(tlNet[s]), tlSize[s]}) :
       /\ tlIn' = [tlIn EXCEPT ![s] = @ \o SubSeq(tlNet[s], 1, n)]
       /\ tlNet' = [tlNet EXCEPT ![s] = SubSeq(@, n + 1, Len(@))]
       /\ tlSize' = [tlSize EXCEPT ![s] = IF n = @ THEN TlMaxBite ELSE @]
  /\ IF TlDoing(s) = "start_tls" THEN TlFlushesThen(s, "engine") ELSE TlGoes(s, "engine") /\ UNCHANGED tlThen
  /\ UNCHANGED <<tlOp, tlHs, tlMade, tlOut, tlScratch, tlFull, tlSeen, tlCut, tlSock>>

\* Mutant of TlRecovers: the socket dies with the frame of start_tls().
TlRecoversNot(s) == UNCHANGED tlSock

\* A failed start_tls() puts the socket back into the transport.
TlRecovers(s) == tlSock' = [tlSock EXCEPT ![s] = IF @ = "frame" THEN "transport" ELSE @]

\* close_gracefully() ignores a failed shutdown and a failed drain read.
TlForgiven(s) == TlDoing(s) \in {"shutdown", "drain"}

\* An await or the engine fails: the peer is gone, a deadline or a canceler
\* ended it, the certificate or a record is bad.  What is not forgiven makes the
\* owner abandon the transport.
TlFails(s) ==
  /\ tlPc[s] \in {"engine", "flush", "fill"} \/ (tlPc[s] = "begin" /\ TlDoing(s) = "connect")
  /\ tlCut' = [tlCut EXCEPT ![s] = @ \/ tlPc[s] = "flush"]
  /\ tlScratch' = [tlScratch EXCEPT ![s] = <<>>]
  /\ tlFull' = [tlFull EXCEPT ![s] = FALSE]
  /\ TlRecovers(s)
  /\ IF TlForgiven(s) THEN TlDone(s) ELSE TlGoes(s, "failed") /\ UNCHANGED tlOp
  /\ UNCHANGED <<tlThen, tlHs, tlMade, tlOut, tlSize, tlNet, tlIn, tlSeen>>

-----------------------------------------------------------------------------
(* One call of the engine.                                                 *)

\* Mutant of TlWantsRead: wait for the peer with the own flight unsent.
TlWantsReadAtOnce(s) == TlGoes(s, "fill") /\ UNCHANGED tlThen

\* WantRead: output first, then input.
TlWantsRead(s) == TlFlushesThen(s, "fill")

\* SSL_do_handshake(): the next flight is made or awaited; Done after the
\* last one, without a flush.
TlHandshakes(s) ==
  LET next == tlHs[s] + 1
  IN  /\ tlPc[s] = "engine" /\ TlDoing(s) = "start_tls"
      /\ \/ /\ tlHs[s] = TlHsLast[s] /\ TlDone(s)
            /\ tlSock' = [tlSock EXCEPT ![s] = "stream"]
            /\ UNCHANGED <<tlThen, tlHs, tlMade, tlOut, tlIn, tlSeen>>
         \/ /\ tlHs[s] < TlHsLast[s] /\ TlFlights[next] = s
            /\ TlMakes(s, "hs", 1) /\ tlHs' = [tlHs EXCEPT ![s] = next]
            /\ UNCHANGED <<tlOp, tlPc, tlThen, tlIn, tlSeen, tlSock>>
         \/ /\ tlHs[s] < TlHsLast[s] /\ TlFlights[next] # s /\ tlIn[s] # <<>>
            /\ tlIn' = [tlIn EXCEPT ![s] = Tail(@)] /\ tlSeen' = [tlSeen EXCEPT ![s] = @ + 1]
            /\ tlHs' = [tlHs EXCEPT ![s] = next]
            /\ UNCHANGED <<tlOp, tlPc, tlThen, tlMade, tlOut, tlSock>>
         \/ /\ tlHs[s] < TlHsLast[s] /\ TlFlights[next] # s /\ tlIn[s] = <<>>
            /\ TlWantsRead(s)
            /\ UNCHANGED <<tlOp, tlHs, tlMade, tlOut, tlIn, tlSeen, tlSock>>
      /\ UNCHANGED <<tlScratch, tlFull, tlSize, tlNet, tlCut>>

\* recv(): one record of data, the peer's close_notify, or more input; a
\* ticket is consumed on the way.  A drain reads on until close_notify, or
\* until max_reads.
TlReads(s) ==
  /\ tlPc[s] = "engine" /\ TlDoing(s) \in {"read", "drain"}
  /\ \/ /\ tlIn[s] # <<>>
        /\ tlIn' = [tlIn EXCEPT ![s] = Tail(@)] /\ tlSeen' = [tlSeen EXCEPT ![s] = @ + 1]
        /\ \/ Head(tlIn[s]).kind \in {"close", "data"} /\ TlDone(s)
           \/ Head(tlIn[s]).kind = "hs" /\ UNCHANGED <<tlOp, tlPc>>
           \/ Head(tlIn[s]).kind = "data" /\ TlDoing(s) = "drain" /\ UNCHANGED <<tlOp, tlPc>>
        /\ UNCHANGED tlThen
     \/ /\ tlIn[s] = <<>>
        /\ TlWantsRead(s) /\ UNCHANGED <<tlOp, tlIn, tlSeen>>
  /\ UNCHANGED <<tlHs, tlMade, tlOut, tlScratch, tlFull, tlSize, tlNet, tlCut, tlSock>>

\* writev(): every record is made, then all of them are flushed;
\* shutdown_write(): the close_notify is.
TlWrites(s) ==
  /\ tlPc[s] = "engine" /\ TlDoing(s) \in {"write", "shutdown"}
  /\ IF TlDoing(s) = "write" THEN TlMakes(s, "data", TlRecords) ELSE TlMakes(s, "close", 1)
  /\ TlFlushesThen(s, "done")
  /\ UNCHANGED <<tlOp, tlHs, tlScratch, tlFull, tlSize, tlNet, tlIn, tlSeen, tlCut, tlSock>>

TlSide(s) ==
  TlStarts(s) \/ TlAbandons(s) \/ TlTakes(s) \/ TlSends(s) \/ TlFills(s) \/ TlFails(s)
  \/ TlHandshakes(s) \/ TlReads(s) \/ TlWrites(s)

TlNext == \E s \in TlSides : TlSide(s)

TlSpec == TlInit /\ [][TlNext]_tlVars

-----------------------------------------------------------------------------
TlTypeOK ==
  \A s \in TlSides :
    /\ tlOp[s] \in 1..(Len(TlProgram[s]) + 1) /\ tlHs[s] \in 0..TlHsLast[s]
    /\ tlPc[s] \in {"begin", "engine", "flush", "fill", "failed", "closed"}
    /\ tlThen[s] \in {"engine", "fill", "done"} /\ tlSize[s] \in {TlBite, TlMaxBite}
    /\ tlCut[s] \in BOOLEAN /\ tlFull[s] \in BOOLEAN /\ tlSock[s] \in {"transport", "frame", "stream", "nobody"}

\* tls_stream_t: every record a side made is in exactly one place on its way,
\* in order, whatever the short sends and the grown scratch did, until a flush
\* of it fails.
TlInOrder ==
  \A s \in TlSides :
    LET way == tlIn[TlPeer(s)] \o tlNet[TlPeer(s)] \o tlScratch[s] \o tlOut[s]
    IN  tlCut[s] \/ /\ Len(way) = tlMade[s] - tlSeen[TlPeer(s)]
                    /\ \A i \in DOMAIN way : way[i].nr = tlSeen[TlPeer(s)] + i

\* The two ends never both wait for input with nothing under way (the
\* mutual-recv deadlock handshake() speaks of), unless one of them is in the drain
\* its deadline bounds: a side that waits has sent all it has.
TlNotBothWaiting ==
  \E s \in TlSides : tlPc[s] # "fill" \/ tlNet[s] # <<>> \/ tlCut[s] \/ TlDoing(s) = "drain"

\* A transport that was abandoned has closed its descriptor, a start_tls() that
\* failed half-way included.
TlReleased == \A s \in TlSides : tlPc[s] = "closed" => tlSock[s] = "nobody"

\* Records arrive whole and in order, the ends do not wait for each other, and no
\* descriptor is left open.
TlStreamExact == TlInOrder /\ TlNotBothWaiting /\ TlReleased
=============================================================================
