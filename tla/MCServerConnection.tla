------------------------- MODULE MCServerConnection -------------------------
(* One server connection with two plain requests, for TLC. *)
EXTENDS ServerConnection, SequencesExt

Plain(body, policy) == [body |-> body, policy |-> policy, expect |-> FALSE, keep |-> TRUE,
                        head |-> FALSE, upgrade |-> FALSE]

\* A request whose header section may come in pieces, and one behind it.
TwoRequests == <<Plain(0, "agg"), Plain(0, "agg")>>

\* Pipelined: an aggregated request and one that is answered by a stream.
StreamSecond == <<Plain(0, "agg"), Plain(0, "stream")>>

\* The requests, one behind the other.
PeerStream ==
  FoldLeft(LAMBDA s, r : s \o [n \in 1..HsLast(r) |-> <<r, n>>], <<>>, [r \in 1..HsRequests |-> r])
=============================================================================
