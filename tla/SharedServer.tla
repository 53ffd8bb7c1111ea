----------------------------- MODULE SharedServer -----------------------------
(***************************************************************************)
(* What a node promises the loops that share its rpc-server, with neither    *)
(* counts, idle clocks, locks nor gossip: the server a loop was given stays   *)
(* the node's server until no loop uses it, and a server is routed to before  *)
(* anybody uses it and is not routed to any more when it is killed.          *)
(***************************************************************************)
CONSTANTS Loop, Server, None

VARIABLES
  users,     \* the loops that use the server
  current,   \* the server they use, or None
  retiring,  \* servers given up and not yet killed
  killed,
  route      \* the server that streams of other nodes go to, or None

vars == <<users, current, retiring, killed, route>>

Init ==
  /\ users = {}
  /\ current = None
  /\ retiring = {}
  /\ killed = {}
  /\ route = None

\* A new server is for the loop that asked for it.
Start(l, s) ==
  /\ current = None
  /\ s \notin retiring \cup killed
  /\ current' = s
  /\ route' = s
  /\ users' = users \cup {l}
  /\ UNCHANGED <<retiring, killed>>

Join(l) ==
  /\ current # None
  /\ users' = users \cup {l}
  /\ UNCHANGED <<current, retiring, killed, route>>

Part(l) ==
  /\ users' = users \ {l}
  /\ UNCHANGED <<current, retiring, killed, route>>

Retire ==
  /\ users = {}
  /\ current # None
  /\ retiring' = retiring \cup {current}
  /\ current' = None
  /\ UNCHANGED <<users, killed, route>>

\* Streams are turned away while a server retires, also from one started since.
TurnAway ==
  /\ retiring # {}
  /\ route' = None
  /\ UNCHANGED <<users, current, retiring, killed>>

Kill(s) ==
  /\ s \in retiring
  /\ route # s
  /\ retiring' = retiring \ {s}
  /\ killed' = killed \cup {s}
  /\ UNCHANGED <<users, current, route>>

Next ==
  \/ \E l \in Loop : Join(l) \/ Part(l)
  \/ \E l \in Loop, s \in Server : Start(l, s)
  \/ \E s \in Server : Kill(s)
  \/ Retire \/ TurnAway

Spec == Init /\ [][Next]_vars
=============================================================================
