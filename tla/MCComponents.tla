---------------------------- MODULE MCComponents ----------------------------
(***************************************************************************)
(* The components of the library side by side, for TLC: a behaviour picks  *)
(* one of them (focus) and runs it from its initial state while the others *)
(* stay in theirs.  Every component has its own variables and constants,   *)
(* so what is checked of each is what would be checked of it alone.        *)
(***************************************************************************)
EXTENDS ParkHandshake, IoSlots, Canceler, TimerWheel, Queues, Coroutine, Descriptors,
        ServerConnection, ClientPool, ClientConnection, HttpClient, Router, HeaderTable,
        WebSocket, TlsStream

VARIABLE focus

\* The components.  The two queues are looked at one at a time, and so are the wheel
\* without a deadline on it and the deadline alone on it, the operations of few
\* cancelers and the shapes of a larger tree, the pool of one host and that of two.
Parts == {"park", "slots", "canceler", "cancel tree", "wheel", "deadline", "ready", "ring",
          "coroutine", "descriptors", "server connection", "pool", "pool of two hosts",
          "client connection", "client", "router", "headers", "websocket", "tls"}

everything == <<focus, vars, slotsVars, cnVars, twVars, quVars, coVars, fdVars, hsVars,
                cpVars, ccVars, hcVars, rrVars, hdVars, wsVars, tlVars>>

\* The components not named in part stay as they are.
Stay(part, own, components) == IF part \in components THEN TRUE ELSE UNCHANGED own

Alone(part) ==
  /\ focus = part
  /\ UNCHANGED focus
  /\ Stay(part, vars, {"park"})
  /\ Stay(part, slotsVars, {"slots"})
  /\ Stay(part, cnVars, {"canceler", "cancel tree"})
  /\ Stay(part, twVars, {"wheel", "deadline"})
  /\ Stay(part, quVars, {"ready", "ring"})
  /\ Stay(part, coVars, {"coroutine"})
  /\ Stay(part, fdVars, {"descriptors"})
  /\ Stay(part, hsVars, {"server connection"})
  /\ Stay(part, cpVars, {"pool", "pool of two hosts"})
  /\ Stay(part, ccVars, {"client connection"})
  /\ Stay(part, hcVars, {"client"})
  /\ Stay(part, rrVars, {"router"})
  /\ Stay(part, hdVars, {"headers"})
  /\ Stay(part, wsVars, {"websocket"})
  /\ Stay(part, tlVars, {"tls"})

\* The canceler that only the tree uses, and the only operation it has.
MCLastId == Max(CnIds)
MCOneOp == CHOOSE o \in CnOps : TRUE

\* The deadline alone on the wheel, in a context that runs, until a time of its own.
DeadlineEnd == 5
DeadlineOnly ==
  /\ \A n \in TwNodes \ {"dl"} : twNode'[n] = TwUnarmed
  /\ UNCHANGED twPhase
  /\ twNow' <= DeadlineEnd

MCInit ==
  /\ focus \in Parts
  /\ Init /\ SlotsInit /\ CnInit /\ TwInit /\ QuInit /\ CoInit /\ FdInit /\ HsInit
  /\ CpInit /\ CcInit /\ HcInit /\ RrInit /\ HdInit /\ WsInit /\ TlInit

MCNext ==
  \/ Alone("park") /\ Next
  \/ Alone("slots") /\ SlotsNext
  \/ Alone("canceler") /\ CnNext /\ cnObj'[MCLastId].mem = "unused"
  \/ Alone("cancel tree") /\ CnNext /\ \A o \in CnOps \ {MCOneOp} : cnOp'[o] = cnOp[o]
  \/ Alone("wheel") /\ TwNext /\ UNCHANGED dlOnly
  \/ Alone("deadline") /\ TwNext /\ DeadlineOnly
  \/ Alone("ready") /\ RqOnly
  \/ Alone("ring") /\ SpOnly
  \/ Alone("coroutine") /\ CoNext
  \/ Alone("descriptors") /\ FdNext
  \/ Alone("server connection") /\ HsNext
  \/ Alone("pool") /\ CpNext /\ cpPc'["t4"] = "idle"
  \/ Alone("pool of two hosts") /\ CpNext /\ cpPc'["t3"] = "idle"
  \/ Alone("client connection") /\ CcNext
  \/ Alone("client") /\ HcNext
  \/ Alone("router") /\ RrNext
  \/ Alone("headers") /\ HdNext
  \/ Alone("websocket") /\ WsNext
  \/ Alone("tls") /\ TlNext

MCSpec == MCInit /\ [][MCNext]_everything

-----------------------------------------------------------------------------
(* Values of the constants. *)

\* Requests on one connection: aggregated after an Expect and answered to HEAD,
\* streamed, and an upgrade.
MCShape ==
  LET S(b, p, e, k, h, u) == [body |-> b, policy |-> p, expect |-> e, keep |-> k,
                              head |-> h, upgrade |-> u]
  IN  <<S(1, "agg", TRUE, TRUE, TRUE, FALSE), S(2, "stream", FALSE, TRUE, FALSE, FALSE),
        S(0, "agg", FALSE, TRUE, FALSE, TRUE)>>

\* The requests, one behind the other.
MCStream ==
  FoldLeft(LAMBDA s, r : s \o [n \in 1..HsLast(r) |-> <<r, n>>], <<>>, [r \in 1..HsRequests |-> r])

\* Three requests for one host, or two for it and one for another.
MCCpOrigin == [t1 |-> "x", t2 |-> "x", t3 |-> "x", t4 |-> "y"]

\* A streamed answer, a body that may be given permission, an upload in chunks, and an
\* answer that ends with the connection, behind a 100 nobody waits for.
MCCcShape ==
  LET S(k, e, u, i, b, f) == [kind |-> k, expect |-> e, upload |-> u, interim |-> i,
                              body |-> b, framing |-> f, keep |-> TRUE]
  IN  <<S("stream", FALSE, 0, <<>>, 2, "chunked"),
        S("exchange", TRUE, 1, <<"hint", "continue">>, 2, "length"),
        S("upload", FALSE, 1, <<>>, 0, "length"),
        S("exchange", FALSE, 1, <<"continue">>, 3, "close")>>

MCPatterns ==
  {<<"a">>, <<"">>, <<":x">>, <<":y">>, <<"*w", "b">>, <<"a", ":x">>, <<"a", "", "*w">>,
   <<":x", "b">>, <<"a", "b", "a">>, <<"a", ":x", "b">>, <<":x", ":y", "*w">>}
MCRoutes == {<<"GET", p>> : p \in MCPatterns} \cup {<<"PUT", <<":x">>>>, <<"PUT", <<"a", ":x">>>>}
MCPaths == UNION {[1..n -> {"a", "b", ""}] : n \in 1..3}

\* Requests as the tokens llhttp reports: names and values of two bytes, a value with
\* white space inside, trailers, a second request, inputs that end early, and a value
\* and a target too long for their length field.
MCHdWires ==
  LET T(t, l) == <<[t |-> t, line |-> l]>>
      N(t, l, n) == [i \in 1..n |-> [t |-> t, line |-> l]]
      Line(l) == N("name", l, 2) \o T("colon", l) \o T("space", l) \o N("value", l, 2) \o T("eol", l)
      Brief(l) == T("name", l) \o T("colon", l) \o T("value", l) \o T("eol", l)
      Fold(l) == T("name", l) \o T("colon", l) \o T("value", l) \o T("space", l)
                 \o T("value", l) \o T("eol", l)
      Long(l) == T("name", l) \o T("colon", l) \o N("value", l, HdLenMax + 2) \o T("eol", l)
      Url     == N("url", 0, 2)
      End     == T("end", 0) \o T("done", 0)
  IN  {Url \o Line(1) \o Fold(2) \o T("end", 0) \o T("body", 0) \o T("last", 0) \o Brief(3)
         \o Line(4) \o Brief(5) \o Line(8) \o T("done", 0) \o Url \o Line(6) \o End,
       Url \o Fold(2) \o Fold(7) \o Line(1) \o End,
       Url \o T("name", 1) \o Line(1),
       Url \o Line(1) \o Long(2) \o Line(7) \o End,
       N("url", 0, HdLenMax + 1) \o Line(1) \o End,
       Url \o Line(1) \o Line(6) \o End}
MCHdField == <<"Host", "Other", "Host", "Etag", "Etag", "Host", "Other", "Other">>

\* What the peer sends: fragments around a ping, a message in three fragments, one at and
\* one over the limit, a fragment out of place, a bad Close and a bad frame.
MCWsScripts ==
  LET F(o, fi, n) == [op |-> o, fin |-> fi, len |-> n, bad |-> FALSE]
      B(o, n)     == [op |-> o, fin |-> TRUE, len |-> n, bad |-> TRUE]
  IN  <<<<F("text", TRUE, 5), F("binary", FALSE, 1), F("ping", TRUE, 0), F("cont", TRUE, 2),
          F("close", TRUE, 0)>>,
        <<F("text", FALSE, 1), F("cont", FALSE, 2), F("cont", TRUE, 2), F("binary", TRUE, 1)>>,
        <<F("pong", TRUE, 1), F("text", FALSE, 0), F("cont", FALSE, 1), F("cont", TRUE, 6)>>,
        <<F("text", FALSE, 1), F("text", TRUE, 1)>>,
        <<F("text", TRUE, 1), B("close", 1)>>,
        <<B("text", 1)>>>>

\* Both sides write, read and close; a flight of the handshake each way, twice, the
\* last being the tickets a TLS 1.3 server sends after it is done.
MCTlProgram == [client |-> <<"connect", "start_tls", "write", "read", "shutdown", "drain">>,
                server |-> <<"start_tls", "read", "write", "shutdown", "drain">>]
MCTlFlights == <<"client", "server", "client", "server">>
MCTlHsLast == [client |-> 3, server |-> 4]
-----------------------------------------------------------------------------
(* Properties: the components state theirs; here they are brought together. *)

\* Every component's variables have the values its code can give them.
ComponentsTypeOK ==
  CASE focus = "park"              -> TypeOK
    [] focus = "slots"             -> SlotsTypeOK
    [] focus \in {"canceler", "cancel tree"} -> CnTypeOK
    [] focus \in {"wheel", "deadline"} -> TwTypeOK
    [] focus \in {"ready", "ring"} -> QuTypeOK
    [] focus = "coroutine"         -> CoTypeOK
    [] focus = "descriptors"       -> FdTypeOK
    [] focus = "server connection" -> HsTypeOK
    [] focus \in {"pool", "pool of two hosts"} -> CpTypeOK
    [] focus = "client connection" -> CcTypeOK
    [] focus = "client"            -> HcTypeOK
    [] focus = "router"            -> RrTypeOK
    [] focus = "headers"           -> HdTypeOK
    [] focus = "websocket"         -> WsTypeOK
    [] focus = "tls"               -> TlTypeOK

\* match() agrees with the registrations (looked at where the router moves: no other
\* component changes what it depends on).
RouterMatches == focus = "router" => RrMatchesRegistrations

=============================================================================
