------------------------------ MODULE Blackboard ------------------------------
(***************************************************************************)
(* The blackboard plugins of the nodes of a mesh (plugins/blackboard/mod.rs) *)
(* and the channel they talk over (plugin frames in mesh/mod.rs).            *)
(*                                                                         *)
(* A frame goes to every direct connection of the node that sends it; a      *)
(* frame with a target is passed on once, by those connected to the target.  *)
(* A plugin told of a new peer asks it for its items: request, digest,       *)
(* fetch, response, each a frame with a target.  Frames of one node overtake *)
(* each other, and copies are lost with their connection.                    *)
(*                                                                         *)
(* Timestamps are whole seconds: items may share one.  What a plugin process *)
(* does with a frame is one step with the arrival of the frame.  Names that  *)
(* PluginSupervision has too begin with Board here: the theorems about both  *)
(* are in one module.                                                        *)
(***************************************************************************)
EXTENDS Integers, FiniteSets

CONSTANTS
  Node,
  Everybody,   \* the target of a frame without one
  Links,       \* pairs of nodes that may be connected
  MaxItems,    \* MAX_ITEMS
  Item,        \* bound: items, each with its id and its time
  LastExpired, \* bound: those that may expire
  Posters,     \* bound: nodes with users who post
  Meets,       \* bound: <<node, peer>> pairs for which PeerUp is emitted
  Unstable,    \* bound: nodes whose plugin may restart
  MaxFrames,   \* bound: frames under way
  MaxMeetings, \* bound: PeerUp events
  MaxLosses    \* bound: connections lost, plugins restarted

Pair == {{m, n} : m, n \in Node}
Frame == 1..MaxFrames

ASSUME BlackboardAssumption ==
  /\ Everybody \notin Node
  /\ Links \subseteq {l \in Pair : Cardinality(l) = 2}
  /\ MaxItems \in Nat \ {0}
  /\ Posters \cup Unstable \subseteq Node
  /\ Meets \subseteq Node \X Node
  /\ IsFiniteSet(Item)
  /\ \A i \in Item : i.id \in Nat /\ i.time \in Nat
  /\ {LastExpired, MaxFrames, MaxMeetings, MaxLosses} \subseteq Nat

VARIABLES
  connected, \* the connections there are
  board,     \* [Node -> items in the store]
  horizon,   \* items with timestamps up to it have expired
  outbox,    \* [Node -> messages the plugin has handed to the node]
  frame,     \* [Frame -> what it says, its copies under way, and who has seen it]
  got,       \* history: [Node -> items inserted since the plugin started]
  owed,      \* history: items a node is to get of another, and along which path
  meetings,
  losses

boardVars == <<connected, board, horizon, outbox, frame, got, owed, meetings, losses>>

Message ==
  [to : Node \cup {Everybody}, items : SUBSET Item,
   kind : {"post", "request", "digest", "fetch", "response"}]

Content == [src : Node, says : Message, copies : SUBSET (Node \X Node), seen : SUBSET Node]
NoFrame == [src |-> Everybody]
Debt == [who : Node, whose : Node, item : Item, path : SUBSET Links]

BoardTypeOK ==
  /\ connected \subseteq Links
  /\ board \in [Node -> SUBSET Item]
  /\ \A n \in Node : Cardinality(board[n]) <= MaxItems
  /\ horizon \in 0..LastExpired
  /\ outbox \in [Node -> SUBSET Message]
  /\ frame \in [Frame -> Content \cup {NoFrame}]
  /\ \A f \in Frame : frame[f] # NoFrame => frame[f].copies # {}
  /\ got \in [Node -> SUBSET Item]
  /\ owed \subseteq Debt
  /\ meetings \in 0..MaxMeetings
  /\ losses \in 0..MaxLosses

BoardInit ==
  /\ connected = {}
  /\ board = [n \in Node |-> {}]
  /\ horizon = 0
  /\ outbox = [n \in Node |-> {}]
  /\ frame = [f \in Frame |-> NoFrame]
  /\ got = [n \in Node |-> {}]
  /\ owed = {}
  /\ meetings = 0
  /\ losses = 0

-----------------------------------------------------------------------------
(* The store *)

Fresh(S) == {i \in S : i.time > horizon}

\* Mutant of Kept: there is no cap.
KeptAll(B, S) == {Fresh(B \cup S)}

\* prune_locked, of a board B to which S has been added: what has not expired and, if
\* that is too much, MAX_ITEMS of the newest.  Of the same second those go first that
\* came last: S before B; the order in which B came is left open.
Kept(B, S) ==
  LET fresh == Fresh(B \cup S)
  IN  IF Cardinality(fresh) <= MaxItems THEN {fresh}
      ELSE {K \in SUBSET fresh :
              /\ Cardinality(K) = MaxItems
              /\ \A k \in K, i \in fresh \ K :
                   k.time > i.time \/ (k.time = i.time /\ (i \in B => k \in B))}

\* Mutant of Inserted: a full board takes nothing.
InsertedIfRoom(B, S) ==
  IF S \subseteq B \/ Cardinality(B) >= MaxItems THEN {B} ELSE Kept(B, S)

\* insert, for each of the items in turn; an item that is there already changes nothing.
Inserted(B, S) == IF S \subseteq B THEN {B} ELSE Kept(B, S)

Insert(n, S) ==
  /\ \E B \in Inserted(board[n], S) : board' = [board EXCEPT ![n] = B]
  /\ got' = [got EXCEPT ![n] = @ \cup S]

\* What is still to come: not what has arrived, nor what nobody could send any more.
Unsettled(D) ==
  {d \in D : d.item \notin got'[d.who] /\ d.item \in board'[d.whose] /\ d.item.time > horizon'}

Owes(who, whose, items, paths) ==
  {[who |-> who, whose |-> whose, item |-> i, path |-> p] : i \in items, p \in paths}

-----------------------------------------------------------------------------
(* The node *)

Linked(m, n) == {m, n} \in connected
Neighbours(n) == {m \in Node \ {n} : Linked(m, n)}

\* Paths a targeted frame and its answer may take.
Paths(m, n) ==
  {{{m, n}} : x \in {y \in {m} : Linked(m, n)}}
  \cup {{{m, r}, {r, n}} : r \in Neighbours(m) \cap Neighbours(n)}

Under(f) == frame[f] # NoFrame
Left(content) == IF content.copies = {} THEN NoFrame ELSE content

\* broadcast_plugin_channel_frame: a copy to each connection, whatever the target.
ForwardTo(n, says, receivers) ==
  \E f \in Frame :
    /\ ~Under(f) /\ \A e \in Frame : e < f => Under(e)
    /\ frame' = [frame EXCEPT ![f] =
         Left([src |-> n, says |-> says, copies |-> {n} \X receivers, seen |-> {n}])]

\* Mutant of Forward: a targeted frame is only sent if the target is connected.
ForwardDirectly(n) ==
  \E says \in outbox[n] :
    /\ ForwardTo(n, says, IF says.to = Everybody THEN Neighbours(n)
                                                 ELSE Neighbours(n) \cap {says.to})
    /\ outbox' = [outbox EXCEPT ![n] = @ \ {says}]
    /\ UNCHANGED <<connected, board, horizon, got, owed, meetings, losses>>

\* forward_plugin_event
Forward(n) ==
  \E says \in outbox[n] :
    /\ ForwardTo(n, says, Neighbours(n))
    /\ outbox' = [outbox EXCEPT ![n] = @ \ {says}]
    /\ UNCHANGED <<connected, board, horizon, got, owed, meetings, losses>>

\* What the plugin answers, if anything.
AnswerTo(n, src, says) ==
  LET reply(kind, items) == {[to |-> src, kind |-> kind, items |-> items]}
  IN  CASE says.kind = "request" -> reply("digest", board[n])
        [] says.kind = "digest" /\ ~(says.items \subseteq board[n])
             -> reply("fetch", says.items \ board[n])
        [] says.kind = "fetch" -> reply("response", says.items \cap board[n])
        [] OTHER -> {}

\* on_channel_message
Handle(n, src, says) ==
  /\ outbox' = [outbox EXCEPT ![n] = @ \cup AnswerTo(n, src, says)]
  /\ IF says.kind \in {"post", "response"}
     THEN Insert(n, says.items)
     ELSE UNCHANGED <<board, got>>
  /\ UNCHANGED horizon

\* Mutant of Relayed: whoever is not the target drops the frame.
RelayedNowhere(n, says) == {}

\* A frame for another node goes on, if that one is connected.
Relayed(n, says) == {<<n, m>> : m \in Neighbours(n) \cap {says.to}}

\* handle_plugin_channel_stream: one copy of frame f reaches n.
Arrive(f, m, n) ==
  /\ Under(f) /\ <<m, n>> \in frame[f].copies
  /\ LET content == frame[f]
         says    == content.says
         fresh   == n \notin content.seen
         left    == content.copies \ {<<m, n>>}
     IN  /\ frame' = [frame EXCEPT ![f] =
              Left([content EXCEPT !.seen = @ \cup {n},
                                   !.copies = IF fresh THEN left \cup Relayed(n, says)
                                                       ELSE left])]
         /\ IF fresh /\ says.to \in {Everybody, n}
            THEN Handle(n, content.src, says)
            ELSE UNCHANGED <<board, got, horizon, outbox>>
  /\ owed' = Unsettled(owed)
  /\ UNCHANGED <<connected, meetings, losses>>

\* emit_plugin_mesh_event: the plugin of m is told of n and asks it for its items.
PeerUp(m, n) ==
  /\ m # n /\ <<m, n>> \in Meets
  /\ meetings < MaxMeetings
  /\ meetings' = meetings + 1
  /\ outbox' = [outbox EXCEPT ![m] = @ \cup {[to |-> n, kind |-> "request", items |-> {}]}]
  /\ UNCHANGED <<connected, board, horizon, frame, got, losses>>
  /\ owed' = Unsettled(owed \cup Owes(m, n, board[n], Paths(m, n)))

MeshConnect(m, n) ==
  /\ {m, n} \in Links \ connected
  /\ connected' = connected \cup {{m, n}}
  /\ UNCHANGED <<board, horizon, outbox, frame, got, owed, meetings, losses>>

-----------------------------------------------------------------------------
(* The plugin *)

\* An identifier is used again when no trace of its item is left.
Known ==
  UNION {got[m] : m \in Node}
  \cup UNION {says.items : says \in UNION {outbox[m] : m \in Node}}
  \cup UNION {frame[f].says.items : f \in {e \in Frame : Under(e)}}

\* POST /post
Post(n, i) ==
  /\ n \in Posters
  /\ i.time > horizon /\ \A k \in Known : k.id # i.id
  /\ \A j \in Item : j.id < i.id => \E k \in Known : k.id = j.id
  /\ Insert(n, {i})
  /\ outbox' = [outbox EXCEPT ![n] =
       @ \cup {[to |-> Everybody, kind |-> "post", items |-> {i}]}]
  /\ UNCHANGED <<connected, horizon, frame, meetings, losses>>
  /\ owed' = Unsettled(owed \cup UNION {Owes(m, n, {i}, {{{m, n}}}) : m \in Neighbours(n)})

\* Reading the feed, searching it and the health check prune it.
Read(n) ==
  /\ board[n] # Fresh(board[n])
  /\ \E B \in Kept(board[n], {}) : board' = [board EXCEPT ![n] = B]
  /\ UNCHANGED <<connected, horizon, outbox, frame, got, meetings, losses>>
  /\ owed' = Unsettled(owed)

Expire ==
  /\ horizon < LastExpired
  /\ horizon' = horizon + 1
  /\ UNCHANGED <<connected, board, outbox, frame, got, meetings, losses>>
  /\ owed' = Unsettled(owed)

-----------------------------------------------------------------------------
(* Faults *)

Loss == losses < MaxLosses /\ losses' = losses + 1

Disconnect(m, n) ==
  /\ Linked(m, n)
  /\ Loss
  /\ connected' = connected \ {{m, n}}
  /\ frame' = [f \in Frame |->
       IF Under(f) THEN Left([frame[f] EXCEPT !.copies = @ \ {<<m, n>>, <<n, m>>}])
                   ELSE NoFrame]
  /\ owed' = {d \in owed : {m, n} \notin d.path}
  /\ UNCHANGED <<board, horizon, outbox, got, meetings>>

\* The store is lost, with what the process had not handled and not yet handed over;
\* on_initialized asks the direct peers.
Restart(n) ==
  /\ n \in Unstable /\ Loss
  /\ board' = [board EXCEPT ![n] = {}]
  /\ got' = [got EXCEPT ![n] = {}]
  /\ \E left \in SUBSET outbox[n] :
       outbox' = [outbox EXCEPT ![n] =
         left \cup {[to |-> Everybody, kind |-> "request", items |-> {}]}]
  /\ \E unread \in SUBSET {f \in Frame : Under(f) /\ frame[f].says.to \in {Everybody, n}
                                          /\ \E m \in Node : <<m, n>> \in frame[f].copies} :
       frame' = [f \in Frame |-> IF f \in unread THEN [frame[f] EXCEPT !.seen = @ \cup {n}]
                                                 ELSE frame[f]]
  /\ UNCHANGED <<connected, horizon, meetings>>
  /\ owed' = Unsettled({d \in owed : n \notin {d.who, d.whose}}
                       \cup UNION {Owes(n, m, board[m], {{{m, n}}}) : m \in Neighbours(n)})

-----------------------------------------------------------------------------

Arrival == \E f \in Frame, m, n \in Node : Arrive(f, m, n)

BoardNext ==
  \/ \E n \in Node : Forward(n) \/ Read(n) \/ Restart(n) \/ \E i \in Item : Post(n, i)
  \/ \E m, n \in Node : PeerUp(m, n) \/ MeshConnect(m, n) \/ Disconnect(m, n)
  \/ Arrival
  \/ Expire

\* The forwarder's task runs; a stream over a connection that lasts arrives.
BoardFairness ==
  /\ \A n \in Node : WF_boardVars(Forward(n))
  /\ WF_boardVars(Arrival)

BoardSpec == BoardInit /\ [][BoardNext]_boardVars /\ BoardFairness

-----------------------------------------------------------------------------
(* Properties *)

\* Whatever the order in which posts and responses come, and whatever was dropped and
\* came back, an item that a plugin has been given and that has not expired is missing
\* from its board only when the board is full of items that are no older ("the list is
\* capped at 500 items"): an item that is newer than all the others is never dropped for
\* them.
BoardIsNewest ==
  \A n \in Node :
    LET shown == Fresh(board[n])
    IN  /\ shown \subseteq got[n]
        /\ \A i \in Fresh(got[n]) \ shown :
             /\ Cardinality(shown) = MaxItems
             /\ \A k \in shown : k.time >= i.time

\* Violated: nodes that were given the same items show the same feed.
SameFeed ==
  \A m, n \in Node : got[m] = got[n] => Fresh(board[m]) = Fresh(board[n])

\* What a peer had when a plugin was told of it, or posted while it was connected,
\* reaches the plugin, over one relay if need be, unless the path to the peer breaks,
\* one of the two plugins restarts, or the peer has dropped it meanwhile.
CaughtUp == []<>(owed = {})

\* What a node owes is on its way: a message that asks for it or brings it has yet to be
\* handed over, or a copy of it will reach the node it is for along the path of the debt.
Asks(says, d) ==
  \/ /\ says.kind = "request"
     /\ says.to = d.whose \/ (says.to = Everybody /\ {d.who, d.whose} \in d.path)
  \/ says.kind = "fetch" /\ says.to = d.whose /\ d.item \in says.items

Brings(says, d) ==
  /\ d.item \in says.items
  /\ \/ says.kind \in {"digest", "response"} /\ says.to = d.who
     \/ says.kind = "post" /\ says.to = Everybody /\ {d.who, d.whose} \in d.path

WillReach(content, n, path) ==
  /\ n \notin content.seen
  /\ \/ <<content.src, n>> \in content.copies /\ {content.src, n} \in path
     \/ \E r \in Node :
          /\ content.says.to = n /\ path = {{content.src, r}, {r, n}}
          /\ \/ <<content.src, r>> \in content.copies /\ r \notin content.seen
             \/ <<r, n>> \in content.copies

OnItsWay(d) ==
  \/ \E says \in outbox[d.who] : Asks(says, d)
  \/ \E says \in outbox[d.whose] : Brings(says, d)
  \/ \E f \in Frame :
       /\ Under(f)
       /\ \/ /\ frame[f].src = d.who /\ Asks(frame[f].says, d)
             /\ WillReach(frame[f], d.whose, d.path)
          \/ /\ frame[f].src = d.whose /\ Brings(frame[f].says, d)
             /\ WillReach(frame[f], d.who, d.path)

OwedIsOnItsWay == \A d \in owed : OnItsWay(d)

\* Violated: "every node holds the same in-memory list".
EveryNodeHolds ==
  \A n \in Node, i \in Item :
    i \in got[n] ~> (i.time <= horizon \/ \A m \in Node : i \in got[m])
=============================================================================
