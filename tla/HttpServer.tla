----------------------------- MODULE HttpServer -----------------------------
(***************************************************************************)
(* server_t (http/server/server.cc): the accept loop, the connections in   *)
(* its scope, drain() and stop().  What a connection does while it runs is *)
(* ServerConnection's business: here it may end at any time, or never, for *)
(* no deadline bounds its handlers and its writes.                         *)
(***************************************************************************)
EXTENDS Integers, FiniteSets

CONSTANTS HvClients,   \* peers that connect
          HvMax        \* max_connections

ASSUME HvAssumption == IsFiniteSet(HvClients) /\ HvMax \in Nat

VARIABLES hvState,     \* state_
          hvTls,       \* opt_.tls is set
          hvLoop,      \* where serve() is
          hvListening, \* the listener is open
          hvConn,      \* what became of each client
          hvCount,     \* conns_
          hvActive,    \* active_
          hvAsked,     \* connections request_close() was called on
          hvCanceled   \* scope_->cancel() was called

hvVars == <<hvState, hvTls, hvLoop, hvListening, hvConn, hvCount, hvActive, hvAsked, hvCanceled>>

HvInScope == {c \in HvClients : hvConn[c] \in {"spawned", "handshake", "running"}}

HvInit ==
  /\ hvState = "Stopped"
  /\ hvTls = FALSE
  /\ hvLoop = "none"
  /\ hvListening = TRUE
  /\ hvConn = [c \in HvClients |-> "new"]
  /\ hvCount = 0 /\ hvActive = {} /\ hvAsked = {}
  /\ hvCanceled = FALSE

\* serve() up to the first accept, for a server with or without TLS.
HvServe ==
  /\ hvLoop = "none"
  /\ hvState' = "Running"
  /\ hvLoop' = "accept"
  /\ hvTls' \in BOOLEAN
  /\ UNCHANGED <<hvListening, hvConn, hvCount, hvActive, hvAsked, hvCanceled>>

\* The top of the loop: another accept while the server runs, else the join.
HvAgain == hvLoop' = IF hvState = "Running" THEN "accept" ELSE "join"

\* A connection whose accept completed is served, unless the server left Running
\* while the completion was on its way, or the limit is reached.
HvAdmits == hvState = "Running" /\ hvCount < HvMax

\* accept completes with a client: spawned into the scope, or closed at once.  The
\* kernel may have completed it before the listener was closed.  The ready queue is
\* first in, first out, so what the loop spawned before has started.
HvAccepts(c) ==
  /\ hvLoop = "accept"
  /\ hvConn[c] = "new"
  /\ \A d \in HvClients : hvConn[d] # "spawned"
  /\ hvConn' = [hvConn EXCEPT ![c] = IF HvAdmits THEN "spawned" ELSE "refused"]
  /\ HvAgain
  /\ UNCHANGED <<hvState, hvTls, hvListening, hvCount, hvActive, hvAsked, hvCanceled>>

\* accept fails: the listener is closed, or the operation was cancelled under an open
\* one (the loop leaves in both), descriptors have run out (a pause), or anything else
\* (at once again).
HvAcceptFails ==
  /\ hvLoop = "accept"
  /\ hvLoop' \in IF hvListening THEN {"accept", "pause", "join"} ELSE {"join"}
  /\ UNCHANGED <<hvState, hvTls, hvListening, hvConn, hvCount, hvActive, hvAsked, hvCanceled>>

HvPauseEnds ==
  /\ hvLoop = "pause"
  /\ HvAgain
  /\ UNCHANGED <<hvState, hvTls, hvListening, hvConn, hvCount, hvActive, hvAsked, hvCanceled>>

\* serve_connection past the handshake: counted, listed, running.
HvRuns(c) ==
  /\ hvConn' = [hvConn EXCEPT ![c] = "running"]
  /\ hvCount' = hvCount + 1
  /\ hvActive' = hvActive \cup {c}

\* serve_connection starts.
HvStarts(c) ==
  /\ hvConn[c] = "spawned"
  /\ IF hvTls THEN /\ hvConn' = [hvConn EXCEPT ![c] = "handshake"]
                   /\ UNCHANGED <<hvCount, hvActive>>
              ELSE HvRuns(c)
  /\ UNCHANGED <<hvState, hvTls, hvLoop, hvListening, hvAsked, hvCanceled>>

\* The handshake succeeds, or fails or times out and the transport is abandoned.  No
\* operation of a connection is registered with the scope's canceler, so stop() ends
\* neither a handshake nor a connection.
HvHandshakes(c) ==
  /\ hvConn[c] = "handshake"
  /\ \/ HvRuns(c)
     \/ /\ hvConn' = [hvConn EXCEPT ![c] = "ended"]
        /\ UNCHANGED <<hvCount, hvActive>>
  /\ UNCHANGED <<hvState, hvTls, hvLoop, hvListening, hvAsked, hvCanceled>>

\* run() returns: asked to, done, failed, or by a deadline of its reads.
HvEnds(c) ==
  /\ hvConn[c] = "running"
  /\ hvConn' = [hvConn EXCEPT ![c] = "ended"]
  /\ hvCount' = hvCount - 1
  /\ hvActive' = hvActive \ {c}
  /\ UNCHANGED <<hvState, hvTls, hvLoop, hvListening, hvAsked, hvCanceled>>

\* Mutant of HvDrained: the listener stays open, and the accept pending.
HvDrainedOpen(state) ==
  /\ hvState' = IF hvState = "Running" \/ state = "Stopped" THEN state ELSE hvState
  /\ hvAsked' = IF hvState = "Running" THEN hvAsked \cup hvActive ELSE hvAsked
  /\ UNCHANGED hvListening

\* drain(): no effect unless Running.
HvDrained(state) ==
  IF hvState = "Running"
  THEN /\ hvState' = state
       /\ hvListening' = FALSE
       /\ hvAsked' = hvAsked \cup hvActive
  ELSE /\ hvState' = IF state = "Stopped" THEN state ELSE hvState
       /\ UNCHANGED <<hvListening, hvAsked>>

HvDrain ==
  /\ hvLoop # "returned"
  /\ HvDrained("Draining")
  /\ UNCHANGED <<hvTls, hvLoop, hvConn, hvCount, hvActive, hvCanceled>>

\* stop(): drain, and cancel the scope.
HvStop ==
  /\ hvLoop \notin {"none", "returned"}
  /\ HvDrained("Stopped")
  /\ hvCanceled' = TRUE
  /\ UNCHANGED <<hvTls, hvLoop, hvConn, hvCount, hvActive>>

\* Mutant of HvJoined: the loop's end is taken for the end of the connections.
HvJoinedEarly == hvActive = {}

\* scope_join_awaiter: every coroutine of the scope has ended.
HvJoined == HvInScope = {}

HvReturns ==
  /\ hvLoop = "join"
  /\ HvJoined
  /\ hvLoop' = "returned"
  /\ hvState' = "Stopped"
  /\ UNCHANGED <<hvTls, hvListening, hvConn, hvCount, hvActive, hvAsked, hvCanceled>>

HvNext ==
  \/ HvServe \/ HvAcceptFails \/ HvPauseEnds \/ HvDrain \/ HvStop \/ HvReturns
  \/ \E c \in HvClients : HvAccepts(c) \/ HvStarts(c) \/ HvHandshakes(c) \/ HvEnds(c)

HvSpec == HvInit /\ [][HvNext]_hvVars

\* The scheduler resumes what is ready, the kernel completes an accept on a closed
\* listener, and handshake_timeout bounds the handshake.  Nothing is assumed of the
\* connections that run.
HvProgress ==
  \/ HvPauseEnds \/ HvReturns \/ (~hvListening /\ HvAcceptFails)
  \/ \E c \in HvClients : HvStarts(c) \/ HvHandshakes(c)

-----------------------------------------------------------------------------
HvTypeOK ==
  /\ hvState \in {"Stopped", "Running", "Draining"}
  /\ hvLoop \in {"none", "accept", "pause", "join", "returned"}
  /\ hvConn \in [HvClients -> {"new", "spawned", "handshake", "running", "ended", "refused"}]
  /\ hvActive \subseteq HvClients /\ hvAsked \subseteq HvClients
  /\ hvTls \in BOOLEAN /\ hvListening \in BOOLEAN /\ hvCanceled \in BOOLEAN

\* serve() returns only after every connection it spawned: no response is cut off by
\* the server ending under it.  While connections run, conns_ and active_ describe
\* exactly them, and without TLS the limit holds (a handshake is not counted, so TLS
\* connections can pass the test together).
HvStructured ==
  /\ hvLoop = "returned" => HvInScope = {}
  /\ hvActive = {c \in HvClients : hvConn[c] = "running"}
  /\ hvCount = Cardinality(hvActive)
  /\ ~hvTls => hvCount <= HvMax

\* Why HvStructured holds: without TLS an admitted connection is counted before the
\* next one is looked at, so the test it passed is still true when it starts.
HvInv ==
  /\ HvTypeOK /\ HvStructured
  /\ hvLoop = "none" => \A c \in HvClients : hvConn[c] = "new"
  /\ \A c, d \in HvClients : hvConn[c] = "spawned" /\ hvConn[d] = "spawned" => c = d
  /\ ~hvTls => \A c \in HvClients : /\ hvConn[c] # "handshake"
                                    /\ hvConn[c] = "spawned" => hvCount < HvMax

\* After drain() or stop() only running connections hold serve(): it returns, or one of
\* them runs (again after every end of another), though drain() does not reach the
\* connections that are still in the handshake.
HvDrainReturns ==
  (hvState = "Draining" \/ hvCanceled) ~>
    (hvLoop = "returned" \/ \E c \in HvClients : hvConn[c] = "running")

=============================================================================
