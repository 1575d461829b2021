--------------------------- MODULE MCP2PReconnect ---------------------------
(***************************************************************************)
(* One guest tab, and one or two tabs of the host.                         *)
(***************************************************************************)
EXTENDS P2PReconnect

CONSTANTS h1, h2, h3, h4, g1, g2, a, b, c, MaxCalls, MaxPeers

McFirstTab == [role \in Roles |-> IF role = "host" THEN a ELSE c]

\* Bound on the requests that are under way at a time.
McFewCalls == Cardinality(calls) <= MaxCalls

\* Bound on the peers there have been: attempts of the host, the guest, or both.
McFewPeers == Cardinality({p \in Peers : peer[p].status # "unused"}) <= MaxPeers
=============================================================================
