---------------------------- MODULE MCSignaling ----------------------------
(***************************************************************************)
(* Two processes and two requests at a time, from two tabs of the host and *)
(* two of the guest (or two guests, for a link).                           *)
(***************************************************************************)
EXTENDS Signaling, TLC

CONSTANTS h1, h2, g1, g2

McHosts == {h1, h2}
McGuests == {g1, g2}

Request(op, role, i, value) == [op |-> op, role |-> role, from |-> i, value |-> value]

McRoster ==
    {Request("create", "host", h1, h1)}
    \cup {Request("submit", "guest", i, i) : i \in McGuests}
    \cup {Request("finalize-session", "host", i, None) : i \in {h1, g1}}
    \cup {Request("register", "host", h1, None)}
    \cup {Request("claim", RoleOf(i), i, None) : i \in Instances}
    \cup {Request("heartbeat", "guest", g1, None)}
    \cup {Request("offer", "host", h1, h1)}
    \cup {Request("answer", "guest", g1, g1)}
    \cup {Request("finalize", "host", h1, outcome) : outcome \in Outcomes}

\* The two records share nothing: a state with both is not explored further.
McOneRecord ==
    /\ store["session"] = None \/ store["control"] = None
    /\ \A t, u \in Tasks : tasks[t] # NoTask /\ tasks[u] # NoTask =>
          (tasks[t].request.op \in SessionOps \cup {"create"}) =
              (tasks[u].request.op \in SessionOps \cup {"create"})

\* Processes do not differ, nor do tasks.
McSymmetry == Permutations(Processes) \cup Permutations(Tasks)
=============================================================================
