----------------------------- MODULE MC_Dialing -----------------------------
(* Values of the constants of Dialing that a cfg cannot write.              *)
EXTENDS Dialing

CONSTANTS n1, n2, p

Scene(some, times, calm, back, keep) ==
  [nodes |-> some, rounds |-> times, steady |-> calm, continued |-> back, long |-> keep]

\* two nodes that share the cache on a calm network; a node on any network, with
\* reconnection; a node and the pool; a node whose connection is used twice
MCScenes ==
  {Scene({n1, n2}, 1, TRUE, FALSE, FALSE), Scene({n1}, 1, FALSE, TRUE, FALSE)}
    \union {Scene({n1, p}, 1, calm, FALSE, FALSE) : calm \in BOOLEAN}
    \union {Scene({n1}, 2, calm, back, TRUE) : calm \in BOOLEAN, back \in BOOLEAN}
=============================================================================
