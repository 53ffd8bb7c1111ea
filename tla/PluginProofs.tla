------------------------------ MODULE PluginProofs ------------------------------
(***************************************************************************)
(* Theorems about the plugins of a node.  Blackboard: a board is the newest   *)
(* of what its plugin was given, and what a plugin is owed is on its way to   *)
(* it.  PluginSupervision: there is never a second process of a plugin, and a *)
(* failure ends only the process that failed.                                *)
(***************************************************************************)
EXTENDS Blackboard, PluginSupervision, FiniteSetTheorems, TLAPS

-----------------------------------------------------------------------------
(* The store *)

LEMMA BoundsAreNaturals ==
  /\ MaxItems \in Nat \ {0}
  /\ LastExpired \in Nat
  /\ MaxFrames \in Nat /\ MaxMeetings \in Nat /\ MaxLosses \in Nat
BY BlackboardAssumption

LEMMA TimesAreNaturals == \A i \in Item : i.time \in Nat
BY BlackboardAssumption

LEMMA ItemsAreFinite ==
  ASSUME NEW S \in SUBSET Item
  PROVE  IsFiniteSet(S) /\ Cardinality(S) \in Nat
BY BlackboardAssumption, FS_Subset, FS_CardinalityType

\* Board B may be what is left of G: an item is missing only when B is full of items that
\* are no older.
Holds(B, G) ==
  /\ Fresh(B) \subseteq G
  /\ \A i \in Fresh(G) \ Fresh(B) :
       /\ Cardinality(Fresh(B)) = MaxItems
       /\ \A k \in Fresh(B) : k.time >= i.time

LEMMA KeptMeans ==
  ASSUME NEW B \in SUBSET Item, NEW S \in SUBSET Item, NEW K \in Kept(B, S)
  PROVE  /\ K \in SUBSET Item /\ K \subseteq B \cup S /\ Fresh(K) = K
         /\ Cardinality(K) <= MaxItems
         /\ K # Fresh(B \cup S) => Cardinality(K) = MaxItems
         /\ \A k \in K, i \in Fresh(B \cup S) \ K : k.time >= i.time
<1>1. CASE Cardinality(Fresh(B \cup S)) <= MaxItems
  BY <1>1 DEF Kept, Fresh
<1>2. CASE ~(Cardinality(Fresh(B \cup S)) <= MaxItems)
  <2>1. /\ K \in SUBSET Fresh(B \cup S) /\ Cardinality(K) = MaxItems
        /\ \A k \in K, i \in Fresh(B \cup S) \ K : k.time > i.time \/ k.time = i.time
    BY <1>2 DEF Kept
  <2>2. K \in SUBSET Item /\ K \subseteq B \cup S /\ Fresh(K) = K
    BY <2>1 DEF Fresh
  <2>3. \A k \in K, i \in Fresh(B \cup S) \ K : k.time \in Nat /\ i.time \in Nat
    BY <2>2, TimesAreNaturals DEF Fresh
  <2>4. \A k \in K, i \in Fresh(B \cup S) \ K : k.time >= i.time
    <3> SUFFICES ASSUME NEW k \in K, NEW i \in Fresh(B \cup S) \ K PROVE k.time >= i.time
      OBVIOUS
    <3>1. k.time \in Nat /\ i.time \in Nat
      BY <2>3
    <3>2. k.time > i.time \/ k.time = i.time
      BY <2>1
    <3> QED
      BY <3>1, <3>2
  <2>5. Cardinality(K) <= MaxItems
    BY <2>1, BoundsAreNaturals
  <2> QED
    BY <2>1, <2>2, <2>4, <2>5
<1> QED
  BY <1>1, <1>2

\* If a full board changes at all, each of its new items pushes out one that is no newer.
LEMMA KeptOfFull ==
  ASSUME NEW B \in SUBSET Item, NEW S \in SUBSET Item, NEW K \in Kept(B, S),
         Cardinality(Fresh(B)) = MaxItems
  PROVE  /\ Cardinality(K) = MaxItems
         /\ \A k \in K \ Fresh(B) : \E b \in Fresh(B) : k.time >= b.time
<1>1. /\ Fresh(B) \in SUBSET Fresh(B \cup S) /\ Fresh(B \cup S) \in SUBSET Item
      /\ K \in SUBSET Item
  BY KeptMeans DEF Fresh
<1>2. Fresh(B) \subseteq K => Fresh(B) = K
  <2> SUFFICES ASSUME Fresh(B) \subseteq K PROVE Fresh(B) = K
    OBVIOUS
  <2>1. IsFiniteSet(K) /\ Cardinality(K) \in Nat
    BY <1>1, ItemsAreFinite
  <2>2. Cardinality(Fresh(B)) <= Cardinality(K)
    BY <2>1, FS_Subset
  <2>3. Cardinality(Fresh(B)) = Cardinality(K)
    <3>1. Cardinality(K) <= MaxItems
      BY KeptMeans
    <3> QED
      BY <2>1, <2>2, <3>1, BoundsAreNaturals
  <2> QED
    BY <2>1, <2>3, FS_Subset
<1>3. CASE K = Fresh(B \cup S)
  <2>1. Fresh(B) = K
    BY <1>1, <1>2, <1>3
  <2> QED
    BY <2>1
<1>4. CASE K # Fresh(B \cup S)
  <2>1. Cardinality(K) = MaxItems
    BY <1>4, KeptMeans
  <2>2. ASSUME NEW k \in K \ Fresh(B) PROVE \E b \in Fresh(B) : k.time >= b.time
    <3>1. PICK b \in Fresh(B) : b \notin K
      BY <1>2, <2>2
    <3>2. b \in Fresh(B \cup S) \ K
      BY <1>1, <3>1
    <3> QED
      BY <3>2, KeptMeans
  <2> QED
    BY <2>1, <2>2
<1> QED
  BY <1>3, <1>4

\* What has been dropped would be dropped again.
LEMMA KeptHolds ==
  ASSUME NEW B \in SUBSET Item, NEW S \in SUBSET Item, NEW G \in SUBSET Item,
         Holds(B, G), NEW K \in Kept(B, S)
  PROVE  Holds(K, G \cup S)
<1>1. /\ K \in SUBSET Item /\ K \subseteq B \cup S /\ Fresh(K) = K
  BY KeptMeans
<1>2. K \subseteq G \cup S
  BY <1>1 DEF Holds, Fresh
<1>3. ASSUME NEW i \in Fresh(G \cup S) \ K
      PROVE  Cardinality(K) = MaxItems /\ \A k \in K : k.time >= i.time
  <2>1. CASE i \in Fresh(B \cup S)
    <3>1. K # Fresh(B \cup S)
      BY <1>3, <2>1
    <3> QED
      BY <1>3, <2>1, <3>1, KeptMeans
  <2>2. CASE i \notin Fresh(B \cup S)
    <3>1. i \in Fresh(G) \ Fresh(B)
      BY <1>3, <2>2 DEF Fresh
    <3>2. Cardinality(Fresh(B)) = MaxItems /\ \A b \in Fresh(B) : b.time >= i.time
      BY <3>1 DEF Holds
    <3>3. Cardinality(K) = MaxItems
      BY <3>2, KeptOfFull
    <3>4. ASSUME NEW k \in K PROVE k.time >= i.time
      <4>1. PICK b \in Fresh(B) : k = b \/ k.time >= b.time
        BY <3>2, KeptOfFull
      <4>2. i.time \in Nat /\ b.time \in Nat /\ k.time \in Nat
        BY <1>1, <3>1, TimesAreNaturals DEF Fresh
      <4> QED
        BY <3>2, <4>1, <4>2
    <3> QED
      BY <3>3, <3>4
  <2> QED
    BY <2>1, <2>2
<1> QED
  BY <1>1, <1>2, <1>3 DEF Holds

\* Inserting keeps a board what may be left of all that has been given.
LEMMA InsertedHolds ==
  ASSUME NEW B \in SUBSET Item, NEW S \in SUBSET Item, NEW G \in SUBSET Item,
         Holds(B, G), NEW K \in Inserted(B, S)
  PROVE  Holds(K, G \cup S)
<1>1. CASE S \subseteq B
  <2>1. K = B
    BY <1>1 DEF Inserted
  <2>2. Fresh(B) \subseteq G \cup S
    BY DEF Holds
  <2>3. Fresh(G \cup S) \ Fresh(B) \subseteq Fresh(G) \ Fresh(B)
    BY <1>1 DEF Fresh
  <2> QED
    BY <2>1, <2>2, <2>3 DEF Holds
<1>2. CASE ~(S \subseteq B)
  BY <1>2, KeptHolds DEF Inserted
<1> QED
  BY <1>1, <1>2

LEMMA InsertedType ==
  ASSUME NEW B \in SUBSET Item, NEW S \in SUBSET Item, Cardinality(B) <= MaxItems,
         NEW K \in Inserted(B, S)
  PROVE  K \in SUBSET Item /\ Cardinality(K) <= MaxItems
BY KeptMeans DEF Inserted

-----------------------------------------------------------------------------
(* Types *)

LEMMA HorizonIsNatural == BoardTypeOK => horizon \in Nat
BY BoundsAreNaturals DEF BoardTypeOK

LEMMA InsertType ==
  ASSUME BoardTypeOK, NEW n \in Node, NEW S \in SUBSET Item, Insert(n, S)
  PROVE  /\ board' \in [Node -> SUBSET Item]
         /\ \A m \in Node : Cardinality(board'[m]) <= MaxItems
         /\ got' \in [Node -> SUBSET Item]
<1>1. PICK B \in Inserted(board[n], S) : board' = [board EXCEPT ![n] = B]
  BY DEF Insert
<1>2. B \in SUBSET Item /\ Cardinality(B) <= MaxItems
  BY <1>1, InsertedType DEF BoardTypeOK
<1> QED
  BY <1>1, <1>2 DEF Insert, BoardTypeOK

LEMMA OwesType ==
  ASSUME NEW who \in Node, NEW whose \in Node, NEW items \in SUBSET Item,
         NEW paths \in SUBSET (SUBSET Links)
  PROVE  Owes(who, whose, items, paths) \subseteq Debt
BY DEF Owes, Debt

LEMMA UnsettledIsPart ==
  ASSUME NEW D
  PROVE  Unsettled(D) \subseteq D
BY DEF Unsettled

LEMMA PathsType ==
  ASSUME BoardTypeOK, NEW m \in Node, NEW n \in Node
  PROVE  Paths(m, n) \subseteq SUBSET Links
<1>1. ASSUME NEW r \in Neighbours(m) \cap Neighbours(n)
      PROVE  {m, r} \in Links /\ {r, n} \in Links
  <2>1. {r, n} = {n, r}
    OBVIOUS
  <2> QED
    BY <2>1 DEF Neighbours, Linked, BoardTypeOK
<1>2. Linked(m, n) => {m, n} \in Links
  BY DEF Linked, BoardTypeOK
<1> QED
  BY <1>1, <1>2 DEF Paths

LEMMA LeftType ==
  ASSUME NEW c \in Content
  PROVE  /\ Left(c) \in Content \cup {NoFrame}
         /\ Left(c) # NoFrame => Left(c).copies # {}
BY DEF Left

LEMMA NothingIsNoContent == NoFrame \notin Content
BY BlackboardAssumption DEF NoFrame, Content

LEMMA HandleType ==
  ASSUME BoardTypeOK, NEW n \in Node, NEW src \in Node, NEW says \in Message,
         Handle(n, src, says)
  PROVE  /\ outbox' \in [Node -> SUBSET Message]
         /\ board' \in [Node -> SUBSET Item]
         /\ \A m \in Node : Cardinality(board'[m]) <= MaxItems
         /\ got' \in [Node -> SUBSET Item]
         /\ horizon' = horizon
<1>1. says.items \in SUBSET Item
  BY DEF Message
<1>2. AnswerTo(n, src, says) \subseteq Message
  BY <1>1 DEF AnswerTo, Message, BoardTypeOK
<1>3. outbox' \in [Node -> SUBSET Message]
  BY <1>2 DEF Handle, BoardTypeOK
<1>4. CASE says.kind \in {"post", "response"}
  BY <1>1, <1>3, <1>4, InsertType DEF Handle
<1>5. CASE says.kind \notin {"post", "response"}
  BY <1>3, <1>5 DEF Handle, BoardTypeOK
<1> QED
  BY <1>4, <1>5

\* Boards hold MAX_ITEMS items at most, and every frame that is kept is still under way.
THEOREM BoardTypes == BoardSpec => []BoardTypeOK
<1>1. BoardInit => BoardTypeOK
  BY BlackboardAssumption, FS_EmptySet, BoundsAreNaturals DEF BoardInit, BoardTypeOK
<1>2. BoardTypeOK /\ [BoardNext]_boardVars => BoardTypeOK'
  <2> SUFFICES ASSUME BoardTypeOK, [BoardNext]_boardVars PROVE BoardTypeOK'
    OBVIOUS
  <2> USE HorizonIsNatural, NothingIsNoContent
  <2>0. CASE UNCHANGED boardVars
    BY <2>0 DEF boardVars, BoardTypeOK
  <2>1. ASSUME NEW n \in Node, Forward(n) PROVE BoardTypeOK'
    <3>1. PICK says \in outbox[n] : /\ ForwardTo(n, says, Neighbours(n))
                                    /\ outbox' = [outbox EXCEPT ![n] = @ \ {says}]
      BY <2>1 DEF Forward
    <3>2. says \in Message
      BY DEF BoardTypeOK
    <3>3. PICK f \in Frame :
            frame' = [frame EXCEPT ![f] =
              Left([src |-> n, says |-> says, copies |-> {n} \X Neighbours(n), seen |-> {n}])]
      BY <3>1 DEF ForwardTo
    <3>4. [src |-> n, says |-> says, copies |-> {n} \X Neighbours(n), seen |-> {n}] \in Content
      BY <3>2 DEF Content, Neighbours
    <3>5. /\ frame' \in [Frame -> Content \cup {NoFrame}]
          /\ \A e \in Frame : frame'[e] # NoFrame => frame'[e].copies # {}
      BY <3>3, <3>4, LeftType DEF BoardTypeOK
    <3> QED
      BY <2>1, <3>1, <3>5 DEF Forward, BoardTypeOK
  <2>2. ASSUME NEW n \in Node, Read(n) PROVE BoardTypeOK'
    <3>1. PICK B \in Kept(board[n], {}) : board' = [board EXCEPT ![n] = B]
      BY <2>2 DEF Read
    <3>2. B \in SUBSET Item /\ Cardinality(B) <= MaxItems
      <4>1. board[n] \in SUBSET Item /\ {} \in SUBSET Item
        BY DEF BoardTypeOK
      <4> QED
        BY <3>1, <4>1, KeptMeans
    <3> QED
      BY <2>2, <3>1, <3>2 DEF Read, Unsettled, BoardTypeOK
  <2>3. ASSUME NEW n \in Node, Restart(n) PROVE BoardTypeOK'
    <3>1. outbox' \in [Node -> SUBSET Message]
      <4>1. [to |-> Everybody, items |-> {}, kind |-> "request"] \in Message
        BY DEF Message
      <4>2. PICK left \in SUBSET outbox[n] :
              outbox' = [outbox EXCEPT ![n] =
                left \cup {[to |-> Everybody, items |-> {}, kind |-> "request"]}]
        BY <2>3 DEF Restart
      <4>3. left \subseteq Message
        BY DEF BoardTypeOK
      <4> QED
        BY <4>1, <4>2, <4>3 DEF BoardTypeOK
    <3>2. PICK unread \in SUBSET Frame :
            /\ \A f \in unread : Under(f)
            /\ frame' = [f \in Frame |-> IF f \in unread THEN [frame[f] EXCEPT !.seen = @ \cup {n}]
                                                         ELSE frame[f]]
      BY <2>3 DEF Restart
    <3>3. \A f \in unread : /\ [frame[f] EXCEPT !.seen = @ \cup {n}] \in Content
                            /\ [frame[f] EXCEPT !.seen = @ \cup {n}].copies # {}
      BY <3>2 DEF Content, Under, BoardTypeOK
    <3>4. /\ frame' \in [Frame -> Content \cup {NoFrame}]
          /\ \A f \in Frame : frame'[f] # NoFrame => frame'[f].copies # {}
      BY <3>2, <3>3 DEF BoardTypeOK
    <3>5. owed' \subseteq Debt
      <4>1. \A m \in Neighbours(n) : m \in Node /\ {{m, n}} \in SUBSET Links
        <5> SUFFICES ASSUME NEW m \in Neighbours(n) PROVE m \in Node /\ {m, n} \in Links
          OBVIOUS
        <5>1. {m, n} = {n, m}
          OBVIOUS
        <5> QED
          BY <5>1 DEF Neighbours, Linked, BoardTypeOK
      <4>2. \A m \in Neighbours(n) : Owes(n, m, board[m], {{{m, n}}}) \subseteq Debt
        BY <4>1, OwesType DEF BoardTypeOK
      <4> QED
        <5>1. UNION {Owes(n, m, board[m], {{{m, n}}}) : m \in Neighbours(n)} \subseteq Debt
          BY <4>2
        <5>2. {d \in owed : n \notin {d.who, d.whose}}
              \cup UNION {Owes(n, m, board[m], {{{m, n}}}) : m \in Neighbours(n)} \subseteq Debt
          BY <5>1 DEF BoardTypeOK
        <5> QED
          BY <2>3, <5>2, UnsettledIsPart DEF Restart
    <3>6. board' \in [Node -> SUBSET Item] /\ got' \in [Node -> SUBSET Item]
          /\ \A m \in Node : Cardinality(board'[m]) <= MaxItems
      BY <2>3, FS_EmptySet, BoundsAreNaturals DEF Restart, BoardTypeOK
    <3> QED
      <4>1. losses' \in 0..MaxLosses
        BY <2>3, BoundsAreNaturals DEF Restart, Loss, BoardTypeOK
      <4>2. UNCHANGED <<connected, horizon, meetings>>
        BY <2>3 DEF Restart
      <4> QED
        BY <3>1, <3>4, <3>5, <3>6, <4>1, <4>2 DEF BoardTypeOK
  <2>4. ASSUME NEW n \in Node, NEW i \in Item, Post(n, i) PROVE BoardTypeOK'
    <3>1. Insert(n, {i})
      BY <2>4 DEF Post
    <3>2. /\ board' \in [Node -> SUBSET Item] /\ got' \in [Node -> SUBSET Item]
          /\ \A m \in Node : Cardinality(board'[m]) <= MaxItems
      BY <3>1, InsertType
    <3>3. outbox' \in [Node -> SUBSET Message]
      <4>1. [to |-> Everybody, kind |-> "post", items |-> {i}] \in Message
        BY DEF Message
      <4> QED
        BY <2>4, <4>1 DEF Post, BoardTypeOK
    <3>4. owed' \subseteq Debt
      <4>1. \A m \in Neighbours(n) : m \in Node /\ {{m, n}} \in SUBSET Links
        <5> SUFFICES ASSUME NEW m \in Neighbours(n) PROVE m \in Node /\ {m, n} \in Links
          OBVIOUS
        <5>1. {m, n} = {n, m}
          OBVIOUS
        <5> QED
          BY <5>1 DEF Neighbours, Linked, BoardTypeOK
      <4>2. \A m \in Neighbours(n) : Owes(m, n, {i}, {{{m, n}}}) \subseteq Debt
        BY <4>1, OwesType
      <4> QED
        <5>1. UNION {Owes(m, n, {i}, {{{m, n}}}) : m \in Neighbours(n)} \subseteq Debt
          BY <4>2
        <5>2. owed \cup UNION {Owes(m, n, {i}, {{{m, n}}}) : m \in Neighbours(n)} \subseteq Debt
          BY <5>1 DEF BoardTypeOK
        <5> QED
          BY <2>4, <5>2, UnsettledIsPart DEF Post
    <3> QED
      BY <2>4, <3>2, <3>3, <3>4 DEF Post, BoardTypeOK
  <2>5. ASSUME NEW m \in Node, NEW n \in Node, PeerUp(m, n) PROVE BoardTypeOK'
    <3>1. outbox' \in [Node -> SUBSET Message]
      <4>1. [to |-> n, kind |-> "request", items |-> {}] \in Message
        BY DEF Message
      <4> QED
        BY <2>5, <4>1 DEF PeerUp, BoardTypeOK
    <3>2. Owes(m, n, board[n], Paths(m, n)) \subseteq Debt
      BY PathsType, OwesType DEF BoardTypeOK
    <3>3. owed' \subseteq Debt
      BY <2>5, <3>2 DEF PeerUp, Unsettled, BoardTypeOK
    <3> QED
      <4>1. meetings' \in 0..MaxMeetings
        BY <2>5, BoundsAreNaturals DEF PeerUp, BoardTypeOK
      <4>2. UNCHANGED <<connected, board, horizon, frame, got, losses>>
        BY <2>5 DEF PeerUp
      <4> QED
        BY <3>1, <3>3, <4>1, <4>2 DEF BoardTypeOK
  <2>6. ASSUME NEW m \in Node, NEW n \in Node, MeshConnect(m, n) PROVE BoardTypeOK'
    BY <2>6 DEF MeshConnect, BoardTypeOK
  <2>7. ASSUME NEW m \in Node, NEW n \in Node, Disconnect(m, n) PROVE BoardTypeOK'
    <3>1. ASSUME NEW f \in Frame, Under(f)
          PROVE  [frame[f] EXCEPT !.copies = @ \ {<<m, n>>, <<n, m>>}] \in Content
      BY <3>1 DEF Content, Under, BoardTypeOK
    <3>2. /\ frame' \in [Frame -> Content \cup {NoFrame}]
          /\ \A f \in Frame : frame'[f] # NoFrame => frame'[f].copies # {}
      BY <2>7, <3>1, LeftType DEF Disconnect
    <3> QED
      BY <2>7, <3>2, BoundsAreNaturals DEF Disconnect, Loss, BoardTypeOK
  <2>8. ASSUME NEW f \in Frame, NEW m \in Node, NEW n \in Node, Arrive(f, m, n) PROVE BoardTypeOK'
    <3> DEFINE content == frame[f]
               says == content.says
               fresh == n \notin content.seen
               left == content.copies \ {<<m, n>>}
               after == [content EXCEPT !.seen = @ \cup {n},
                                        !.copies = IF fresh THEN left \cup Relayed(n, says)
                                                            ELSE left]
    <3>1. content \in Content /\ says \in Message /\ content.src \in Node
      BY <2>8 DEF Arrive, Under, Content, BoardTypeOK
    <3>2. after \in Content
      <4>1. left \cup Relayed(n, says) \subseteq Node \X Node
        BY <3>1 DEF Content, Relayed, Neighbours
      <4>2. content.seen \cup {n} \subseteq Node
        BY <3>1 DEF Content
      <4> QED
        BY <3>1, <4>1, <4>2 DEF Content
    <3>3. /\ frame' \in [Frame -> Content \cup {NoFrame}]
          /\ \A e \in Frame : frame'[e] # NoFrame => frame'[e].copies # {}
      BY <2>8, <3>2, LeftType DEF Arrive, BoardTypeOK
    <3>4. /\ outbox' \in [Node -> SUBSET Message]
          /\ board' \in [Node -> SUBSET Item] /\ got' \in [Node -> SUBSET Item]
          /\ \A k \in Node : Cardinality(board'[k]) <= MaxItems
          /\ horizon' = horizon
      <4>1. CASE fresh /\ says.to \in {Everybody, n}
        <5>1. Handle(n, content.src, says)
          BY <2>8, <4>1 DEF Arrive
        <5> QED
          BY <3>1, <5>1, HandleType
      <4>2. CASE ~(fresh /\ says.to \in {Everybody, n})
        BY <2>8, <4>2 DEF Arrive, BoardTypeOK
      <4> QED
        BY <4>1, <4>2
    <3>5. owed' \subseteq Debt
      BY <2>8 DEF Arrive, Unsettled, BoardTypeOK
    <3> QED
      BY <2>8, <3>3, <3>4, <3>5 DEF Arrive, BoardTypeOK
  <2>9. CASE Expire
    BY <2>9, BoundsAreNaturals DEF Expire, Unsettled, BoardTypeOK
  <2> QED
    BY <2>0, <2>1, <2>2, <2>3, <2>4, <2>5, <2>6, <2>7, <2>8, <2>9 DEF BoardNext, Arrival
<1> QED
  BY <1>1, <1>2, PTL DEF BoardSpec


-----------------------------------------------------------------------------
(* The board is the newest of what was given *)

HoldsGiven(n) == Holds(board[n], got[n])

LEMMA InsertKeepsNewest ==
  ASSUME BoardTypeOK, NEW n \in Node, NEW S \in SUBSET Item, Insert(n, S), horizon' = horizon,
         \A m \in Node : HoldsGiven(m)
  PROVE  \A m \in Node : HoldsGiven(m)'
<1> SUFFICES ASSUME NEW m \in Node PROVE HoldsGiven(m)'
  OBVIOUS
<1>1. HoldsGiven(m)' <=> Holds(board'[m], got'[m])
  BY DEF HoldsGiven, Holds, Fresh
<1>2. CASE m = n
  <2>1. board'[n] \in Inserted(board[n], S) /\ got'[n] = got[n] \cup S
    BY DEF Insert, BoardTypeOK
  <2>2. board[n] \in SUBSET Item /\ got[n] \in SUBSET Item
    BY DEF BoardTypeOK
  <2>3. Holds(board'[n], got[n] \cup S)
    BY <2>1, <2>2, InsertedHolds DEF HoldsGiven
  <2> QED
    BY <1>1, <1>2, <2>1, <2>3
<1>3. CASE m # n
  <2>1. board'[m] = board[m] /\ got'[m] = got[m]
    BY <1>3 DEF Insert, BoardTypeOK
  <2> QED
    BY <1>1, <2>1 DEF HoldsGiven
<1> QED
  BY <1>2, <1>3

LEMMA StutterKeepsNewest ==
  ASSUME \A m \in Node : HoldsGiven(m), UNCHANGED <<board, got, horizon>>
  PROVE  \A m \in Node : HoldsGiven(m)'
BY DEF HoldsGiven, Holds, Fresh

\* Reading keeps of a board what may be left of all that was given.
LEMMA ReadKeepsNewest ==
  ASSUME BoardTypeOK, NEW n \in Node, Read(n), \A m \in Node : HoldsGiven(m)
  PROVE  \A m \in Node : HoldsGiven(m)'
<1> SUFFICES ASSUME NEW m \in Node PROVE HoldsGiven(m)'
  OBVIOUS
<1>1. /\ UNCHANGED <<got, horizon>>
      /\ board'[m] = board[m] \/ board'[m] \in Kept(board[m], {})
  BY DEF Read, BoardTypeOK
<1>2. HoldsGiven(m)' <=> Holds(board'[m], got[m])
  BY <1>1 DEF HoldsGiven, Holds, Fresh
<1>3. board[m] \in SUBSET Item /\ got[m] \in SUBSET Item /\ got[m] \cup {} = got[m]
  BY DEF BoardTypeOK
<1>4. ASSUME board'[m] \in Kept(board[m], {}) PROVE Holds(board'[m], got[m] \cup {})
  BY <1>3, <1>4, KeptHolds DEF HoldsGiven
<1> QED
  BY <1>1, <1>2, <1>3, <1>4 DEF HoldsGiven

\* As items expire: a board full of items no older than one that is left keeps them all.
LEMMA ExpireKeepsNewest ==
  ASSUME BoardTypeOK, Expire, \A m \in Node : HoldsGiven(m)
  PROVE  \A m \in Node : HoldsGiven(m)'
<1> SUFFICES ASSUME NEW m \in Node PROVE HoldsGiven(m)'
  OBVIOUS
<1>1. UNCHANGED <<board, got>> /\ horizon' = horizon + 1 /\ horizon \in Nat
  BY HorizonIsNatural DEF Expire
<1> DEFINE Later(S) == {i \in S : i.time > horizon + 1}
<1>2. HoldsGiven(m)' <=>
        /\ Later(board[m]) \subseteq got[m]
        /\ \A i \in Later(got[m]) \ Later(board[m]) :
             /\ Cardinality(Later(board[m])) = MaxItems
             /\ \A k \in Later(board[m]) : k.time >= i.time
  BY <1>1 DEF HoldsGiven, Holds, Fresh
<1>3. /\ \A i \in board[m] \cup got[m] : i.time \in Nat
  BY TimesAreNaturals DEF BoardTypeOK
<1>4. Later(board[m]) \subseteq Fresh(board[m]) /\ Later(got[m]) \subseteq Fresh(got[m])
  BY <1>1, <1>3 DEF Fresh
<1>5. ASSUME NEW i \in Later(got[m]) \ Later(board[m])
      PROVE  /\ Cardinality(Later(board[m])) = MaxItems
             /\ \A k \in Later(board[m]) : k.time >= i.time
  <2>1. i \in Fresh(got[m]) \ Fresh(board[m])
    BY <1>4, <1>5 DEF Fresh
  <2>2. /\ Cardinality(Fresh(board[m])) = MaxItems
        /\ \A k \in Fresh(board[m]) : k.time >= i.time
    BY <2>1 DEF HoldsGiven, Holds
  <2>3. ASSUME NEW k \in Fresh(board[m]) PROVE k \in Later(board[m])
    <3>1. k.time >= i.time /\ i.time > horizon + 1 /\ k \in board[m]
      BY <2>2, <1>5 DEF Fresh
    <3>2. k.time \in Nat /\ i.time \in Nat
      BY <1>3, <1>5, <3>1
    <3> QED
      BY <1>1, <3>1, <3>2
  <2>4. Later(board[m]) = Fresh(board[m])
    BY <1>4, <2>3
  <2> QED
    BY <2>2, <2>4
<1>6. Later(board[m]) \subseteq got[m]
  BY <1>4 DEF HoldsGiven, Holds
<1> QED
  BY <1>2, <1>5, <1>6

\* Whatever the order in which items came and whatever was dropped and came back
\* meanwhile, an item is missing from a board only when the board is full of items that
\* are no older.
THEOREM BoardNewest == BoardSpec => []BoardIsNewest
<1> DEFINE Inv == \A n \in Node : HoldsGiven(n)
<1>1. BoardInit => Inv
  BY DEF BoardInit, HoldsGiven, Holds, Fresh
<1>2. BoardTypeOK /\ Inv /\ [BoardNext]_boardVars => Inv'
  <2> SUFFICES ASSUME BoardTypeOK, Inv, [BoardNext]_boardVars PROVE Inv'
    OBVIOUS
  <2>0. CASE UNCHANGED boardVars
    BY <2>0, StutterKeepsNewest DEF boardVars
  <2>1. ASSUME NEW n \in Node, Forward(n) PROVE Inv'
    BY <2>1, StutterKeepsNewest DEF Forward
  <2>2. ASSUME NEW n \in Node, Read(n) PROVE Inv'
    BY <2>2, ReadKeepsNewest
  <2>3. ASSUME NEW n \in Node, Restart(n) PROVE Inv'
    <3>1. /\ board' = [board EXCEPT ![n] = {}] /\ got' = [got EXCEPT ![n] = {}]
          /\ horizon' = horizon
      BY <2>3 DEF Restart
    <3>2. ASSUME NEW m \in Node PROVE HoldsGiven(m)'
      <4>1. CASE m = n
        BY <3>1, <4>1 DEF HoldsGiven, Holds, Fresh, BoardTypeOK
      <4>2. CASE m # n
        <5>1. board'[m] = board[m] /\ got'[m] = got[m]
          BY <3>1, <4>2 DEF BoardTypeOK
        <5> QED
          BY <3>1, <5>1 DEF HoldsGiven, Holds, Fresh
      <4> QED
        BY <4>1, <4>2
    <3> QED
      BY <3>2
  <2>4. ASSUME NEW n \in Node, NEW i \in Item, Post(n, i) PROVE Inv'
    <3>1. Insert(n, {i}) /\ horizon' = horizon
      BY <2>4 DEF Post
    <3> QED
      BY <3>1, InsertKeepsNewest
  <2>5. ASSUME NEW m \in Node, NEW n \in Node, PeerUp(m, n) \/ MeshConnect(m, n) \/ Disconnect(m, n)
        PROVE  Inv'
    BY <2>5, StutterKeepsNewest DEF PeerUp, MeshConnect, Disconnect
  <2>6. ASSUME NEW f \in Frame, NEW m \in Node, NEW n \in Node, Arrive(f, m, n) PROVE Inv'
    <3>1. CASE UNCHANGED <<board, got, horizon>>
      BY <3>1, StutterKeepsNewest
    <3>2. CASE Handle(n, frame[f].src, frame[f].says)
      <4>1. horizon' = horizon
        BY <3>2 DEF Handle
      <4>2. frame[f].says.items \in SUBSET Item
        BY <2>6 DEF Arrive, Under, Content, Message, BoardTypeOK
      <4>3. Insert(n, frame[f].says.items) \/ UNCHANGED <<board, got>>
        BY <3>2 DEF Handle
      <4> QED
        BY <4>1, <4>2, <4>3, InsertKeepsNewest, StutterKeepsNewest
    <3> QED
      BY <2>6, <3>1, <3>2 DEF Arrive
  <2>7. CASE Expire
    BY <2>7, ExpireKeepsNewest
  <2> QED
    BY <2>0, <2>1, <2>2, <2>3, <2>4, <2>5, <2>6, <2>7 DEF BoardNext, Arrival
<1>3. Inv => BoardIsNewest
  BY DEF HoldsGiven, Holds, BoardIsNewest
<1> QED
  BY <1>1, <1>2, <1>3, BoardTypes, PTL DEF BoardSpec

-----------------------------------------------------------------------------
(* What is owed is on its way *)

BoardIsGiven == \A n \in Node : board[n] \subseteq got[n]

Direct(d) == d.path = {{d.who, d.whose}}
Relay(d, r) == r \notin {d.who, d.whose} /\ d.path = {{d.who, r}, {r, d.whose}}

\* A debt is along connections there are, and neither paid nor void.
DebtSound(d) ==
  /\ d.who # d.whose
  /\ d.path \subseteq connected
  /\ Direct(d) \/ \E r \in Node : Relay(d, r)
  /\ d.item \in board[d.whose] /\ d.item \notin got[d.who]

DebtInv ==
  /\ BoardIsGiven
  /\ \A d \in owed : DebtSound(d) /\ OnItsWay(d)

LEMMA InsertedIsPart ==
  ASSUME NEW B, NEW S, NEW K \in Inserted(B, S)
  PROVE  K \subseteq B \cup S
BY DEF Inserted, Kept, Fresh

LEMMA InsertGiven ==
  ASSUME BoardTypeOK, BoardIsGiven, NEW n \in Node, NEW S, Insert(n, S)
  PROVE  BoardIsGiven'
BY InsertedIsPart DEF BoardIsGiven, Insert, BoardTypeOK

\* Debts that are left after a step that breaks no connection were sound and are sound.
LEMMA SoundStays ==
  ASSUME NEW d, DebtSound(d), connected \subseteq connected', d.item \in board'[d.whose],
         d.item \notin got'[d.who]
  PROVE  DebtSound(d)'
BY DEF DebtSound, Direct, Relay

LEMMA UnsettledMeans ==
  ASSUME NEW D, NEW d \in Unsettled(D)
  PROVE  d \in D /\ d.item \notin got'[d.who] /\ d.item \in board'[d.whose]
BY DEF Unsettled

\* A message that asks or brings reaches the connected ones of its path once it is sent.
LEMMA SentReaches ==
  ASSUME BoardTypeOK, NEW d \in Debt, DebtSound(d), NEW says,
         NEW n \in Node, NEW target \in Node, {n, target} = {d.who, d.whose},
         NEW copies, copies = {n} \X Neighbours(n), says.to \in {target, Everybody},
         says.to = Everybody => {d.who, d.whose} \in d.path
  PROVE  WillReach([src |-> n, says |-> says, copies |-> copies, seen |-> {n}], target, d.path)
<1>1. n # target /\ target \in {d.who, d.whose} /\ n \in {d.who, d.whose}
  BY DEF DebtSound
<1>2. ASSUME NEW m \in Node, {n, m} \in d.path, m # n PROVE <<n, m>> \in copies
  BY <1>2 DEF DebtSound, Neighbours, Linked
<1>3. CASE {n, target} \in d.path
  BY <1>1, <1>2, <1>3 DEF WillReach
<1>4. CASE {n, target} \notin d.path
  <2>1. PICK r \in Node : Relay(d, r)
    BY <1>4 DEF DebtSound, Direct
  <2>2. r # n /\ r # target /\ d.path = {{n, r}, {r, target}}
    <3>1. CASE n = d.who /\ target = d.whose
      BY <2>1, <3>1 DEF Relay
    <3>2. CASE n = d.whose /\ target = d.who
      <4>1. {d.who, r} = {r, target} /\ {r, d.whose} = {n, r}
        BY <3>2
      <4> QED
        BY <2>1, <3>2, <4>1 DEF Relay
    <3> QED
      BY <1>1, <3>1, <3>2
  <2>3. says.to = target
    BY <1>4
  <2>4. <<n, r>> \in copies
    BY <1>2, <2>2
  <2> QED
    BY <1>1, <2>2, <2>3, <2>4 DEF WillReach
<1> QED
  BY <1>3, <1>4

LEMMA WaitingStays ==
  ASSUME NEW d \in Debt, OnItsWay(d), frame' = frame,
         outbox[d.who] \subseteq outbox'[d.who], outbox[d.whose] \subseteq outbox'[d.whose]
  PROVE  OnItsWay(d)'
<1>1. CASE \E says \in outbox[d.who] : Asks(says, d)
  BY <1>1 DEF OnItsWay, Asks
<1>2. CASE \E says \in outbox[d.whose] : Brings(says, d)
  BY <1>2 DEF OnItsWay, Brings
<1>3. CASE \E f \in Frame :
             /\ Under(f)
             /\ \/ /\ frame[f].src = d.who /\ Asks(frame[f].says, d)
                   /\ WillReach(frame[f], d.whose, d.path)
                \/ /\ frame[f].src = d.whose /\ Brings(frame[f].says, d)
                   /\ WillReach(frame[f], d.who, d.path)
  BY <1>3 DEF OnItsWay, Asks, Brings, WillReach, Under
<1> QED
  BY <1>1, <1>2, <1>3 DEF OnItsWay

LEMMA ForwardCarries ==
  ASSUME BoardTypeOK, NEW n \in Node, Forward(n), NEW d \in owed, DebtSound(d), OnItsWay(d)
  PROVE  OnItsWay(d)'
<1>0. d \in Debt /\ d.who \in Node /\ d.whose \in Node
  BY DEF BoardTypeOK, Debt
<1>1. PICK says \in outbox[n] : /\ ForwardTo(n, says, Neighbours(n))
                                /\ outbox' = [outbox EXCEPT ![n] = @ \ {says}]
  BY DEF Forward
<1> DEFINE sent == [src |-> n, says |-> says, copies |-> {n} \X Neighbours(n), seen |-> {n}]
<1>2. PICK f \in Frame : ~Under(f) /\ frame' = [frame EXCEPT ![f] = Left(sent)]
  BY <1>1 DEF ForwardTo
<1>3. \A e \in Frame : Under(e) => frame'[e] = frame[e]
  BY <1>2 DEF BoardTypeOK
<1>4. \A m \in Node : \A it \in outbox[m] : it \in outbox'[m] \/ (m = n /\ it = says)
  BY <1>1 DEF BoardTypeOK
<1>5. ASSUME NEW target \in Node, WillReach(sent, target, d.path)
      PROVE  frame'[f] = sent /\ Under(f)'
  <2>1. sent.copies # {}
    BY <1>5 DEF WillReach
  <2>2. frame'[f] = sent
    BY <1>2, <2>1 DEF Left, BoardTypeOK
  <2>3. sent # NoFrame
    <3>1. sent.src # NoFrame.src
      BY BlackboardAssumption DEF NoFrame
    <3> QED
      BY <3>1
  <2> QED
    BY <2>2, <2>3 DEF Under, NoFrame
<1>6. ASSUME n = d.who, Asks(says, d)
      PROVE  WillReach(sent, d.whose, d.path)
  <2>1. /\ says.to \in {d.whose, Everybody}
        /\ says.to = Everybody => {d.who, d.whose} \in d.path
    BY <1>0, <1>6, BlackboardAssumption DEF Asks
  <2>2. {n, d.whose} = {d.who, d.whose}
    BY <1>6
  <2> QED
    BY <1>0, <2>1, <2>2, SentReaches
<1>7. ASSUME n = d.whose, Brings(says, d)
      PROVE  WillReach(sent, d.who, d.path)
  <2>1. {n, d.who} = {d.who, d.whose}
    BY <1>7
  <2>2. /\ says.to \in {d.who, Everybody}
        /\ says.to = Everybody => {d.who, d.whose} \in d.path
    BY <1>0, <1>7, BlackboardAssumption DEF Brings
  <2> QED
    BY <1>0, <2>1, <2>2, SentReaches
<1>8. CASE \E it \in outbox[d.who] : Asks(it, d)
  <2>1. PICK it \in outbox[d.who] : Asks(it, d)
    BY <1>8
  <2>2. CASE it \in outbox'[d.who]
    BY <2>1, <2>2 DEF OnItsWay, Asks
  <2>3. CASE d.who = n /\ it = says
    <3>1. frame'[f] = sent /\ Under(f)' /\ WillReach(sent, d.whose, d.path)
      BY <1>0, <1>5, <1>6, <2>1, <2>3
    <3> HIDE DEF sent
    <3>2. sent.src = d.who /\ Asks(sent.says, d)
      BY <2>1, <2>3 DEF sent
    <3> QED
      BY <3>1, <3>2 DEF OnItsWay, Asks, WillReach
  <2> QED
    BY <1>0, <1>4, <2>1, <2>2, <2>3
<1>9. CASE \E it \in outbox[d.whose] : Brings(it, d)
  <2>1. PICK it \in outbox[d.whose] : Brings(it, d)
    BY <1>9
  <2>2. CASE it \in outbox'[d.whose]
    BY <2>1, <2>2 DEF OnItsWay, Brings
  <2>3. CASE d.whose = n /\ it = says
    <3>1. frame'[f] = sent /\ Under(f)' /\ WillReach(sent, d.who, d.path)
      BY <1>0, <1>5, <1>7, <2>1, <2>3
    <3> HIDE DEF sent
    <3>2. sent.src = d.whose /\ Brings(sent.says, d)
      BY <2>1, <2>3 DEF sent
    <3> QED
      BY <3>1, <3>2 DEF OnItsWay, Brings, WillReach
  <2> QED
    BY <1>0, <1>4, <2>1, <2>2, <2>3
<1>10. CASE \E e \in Frame :
              /\ Under(e)
              /\ \/ /\ frame[e].src = d.who /\ Asks(frame[e].says, d)
                    /\ WillReach(frame[e], d.whose, d.path)
                 \/ /\ frame[e].src = d.whose /\ Brings(frame[e].says, d)
                    /\ WillReach(frame[e], d.who, d.path)
  <2>1. PICK e \in Frame :
              /\ Under(e)
              /\ \/ /\ frame[e].src = d.who /\ Asks(frame[e].says, d)
                    /\ WillReach(frame[e], d.whose, d.path)
                 \/ /\ frame[e].src = d.whose /\ Brings(frame[e].says, d)
                    /\ WillReach(frame[e], d.who, d.path)
    BY <1>10
  <2>2. frame'[e] = frame[e] /\ Under(e)'
    BY <1>3, <2>1 DEF Under, NoFrame
  <2> QED
    BY <2>1, <2>2 DEF OnItsWay, Asks, Brings, WillReach
<1> QED
  BY <1>8, <1>9, <1>10 DEF OnItsWay

\* What arrives elsewhere still reaches its target: over the relay, if it has arrived there.
LEMMA RelayCarries ==
  ASSUME BoardTypeOK, NEW d \in Debt, DebtSound(d), NEW c \in Content,
         NEW target \in {d.who, d.whose}, WillReach(c, target, d.path),
         NEW m \in Node, NEW n \in Node, n # target
  PROVE  WillReach([c EXCEPT !.seen = @ \cup {n},
                             !.copies = IF n \notin c.seen
                                        THEN (c.copies \ {<<m, n>>}) \cup Relayed(n, c.says)
                                        ELSE c.copies \ {<<m, n>>}], target, d.path)
<1> DEFINE left == c.copies \ {<<m, n>>}
           after == [c EXCEPT !.seen = @ \cup {n},
                              !.copies = IF n \notin c.seen THEN left \cup Relayed(n, c.says)
                                                            ELSE left]
<1>1. /\ after.src = c.src /\ after.says = c.says /\ after.seen = c.seen \cup {n}
      /\ left \subseteq after.copies
      /\ n \notin c.seen => Relayed(n, c.says) \subseteq after.copies
  BY DEF Content
<1>2. target \in Node /\ target \notin after.seen
  BY <1>1 DEF WillReach, Debt
<1> HIDE DEF after
<1>3. ASSUME <<c.src, target>> \in c.copies, {c.src, target} \in d.path
      PROVE  WillReach(after, target, d.path)
  <2>1. <<c.src, target>> \in left
    BY <1>3
  <2> QED
    BY <1>1, <1>2, <1>3, <2>1 DEF WillReach
<1>4. ASSUME NEW r \in Node, c.says.to = target, d.path = {{c.src, r}, {r, target}},
             \/ <<c.src, r>> \in c.copies /\ r \notin c.seen
             \/ <<r, target>> \in c.copies
      PROVE  WillReach(after, target, d.path)
  <2>1. r # target
    <3>1. SUFFICES ASSUME r = target PROVE FALSE
      OBVIOUS
    <3>2. {target} \in d.path
      <4>1. {r, target} = {target}
        BY <3>1
      <4> QED
        BY <1>4, <4>1
    <3>3. CASE Direct(d)
      BY <3>2, <3>3 DEF Direct, DebtSound
    <3>4. ASSUME NEW q \in Node, Relay(d, q) PROVE FALSE
      BY <3>2, <3>4 DEF Relay, DebtSound
    <3> QED
      BY <3>3, <3>4 DEF DebtSound
  <2>2. CASE <<r, target>> \in c.copies
    <3>1. <<r, target>> \in left
      BY <2>2
    <3> QED
      BY <1>1, <1>2, <1>4, <3>1 DEF WillReach
  <2>3. CASE <<c.src, r>> \in c.copies /\ r \notin c.seen /\ n # r
    <3>1. <<c.src, r>> \in left /\ r \notin after.seen
      BY <1>1, <2>3
    <3> QED
      BY <1>1, <1>2, <1>4, <3>1 DEF WillReach
  <2>4. CASE r \notin c.seen /\ n = r
    <3>1. {r, target} \in connected
      BY <1>4 DEF DebtSound
    <3>2. target \in Neighbours(r)
      BY <1>2, <2>1, <3>1 DEF Neighbours, Linked
    <3>3. <<r, target>> \in Relayed(r, c.says)
      BY <1>4, <3>2 DEF Relayed
    <3> QED
      BY <1>1, <1>2, <1>4, <2>4, <3>3 DEF WillReach
  <2> QED
    BY <1>4, <2>2, <2>3, <2>4
<1>5. WillReach(after, target, d.path)
  <2>1. CASE \E r \in Node :
               /\ c.says.to = target /\ d.path = {{c.src, r}, {r, target}}
               /\ \/ <<c.src, r>> \in c.copies /\ r \notin c.seen
                  \/ <<r, target>> \in c.copies
    BY <2>1, <1>4
  <2>2. \/ <<c.src, target>> \in c.copies /\ {c.src, target} \in d.path
        \/ \E r \in Node :
              /\ c.says.to = target /\ d.path = {{c.src, r}, {r, target}}
              /\ \/ <<c.src, r>> \in c.copies /\ r \notin c.seen
                 \/ <<r, target>> \in c.copies
    BY DEF WillReach
  <2> QED
    BY <2>1, <2>2, <1>3
<1> QED
  BY <1>5 DEF after

\* What arrives where it was meant to is answered, until what was owed is there.
LEMMA HandledCarries ==
  ASSUME BoardTypeOK, BoardIsGiven, NEW d \in Debt, DebtSound(d),
         d.item \notin got'[d.who], NEW says \in Message
  PROVE  /\ Asks(says, d) /\ Handle(d.whose, d.who, says) => OnItsWay(d)'
         /\ Brings(says, d) /\ Handle(d.who, d.whose, says) => OnItsWay(d)'
<1>0. d.who \in Node /\ d.whose \in Node
  BY DEF Debt
<1>1. ASSUME Asks(says, d), Handle(d.whose, d.who, says) PROVE OnItsWay(d)'
  <2>1. outbox'[d.whose] = outbox[d.whose] \cup AnswerTo(d.whose, d.who, says)
    BY <1>0, <1>1 DEF Handle, BoardTypeOK
  <2>2. CASE says.kind = "request"
    <3>1. [to |-> d.who, kind |-> "digest", items |-> board[d.whose]] \in outbox'[d.whose]
      BY <2>1, <2>2 DEF AnswerTo
    <3>2. Brings([to |-> d.who, kind |-> "digest", items |-> board[d.whose]], d)
      BY DEF Brings, DebtSound
    <3> QED
      BY <3>1, <3>2 DEF OnItsWay, Brings
  <2>3. CASE says.kind = "fetch"
    <3> DEFINE back == [to |-> d.who, kind |-> "response", items |-> says.items \cap board[d.whose]]
    <3>1. back \in outbox'[d.whose]
      BY <2>1, <2>3 DEF AnswerTo
    <3>2. Brings(back, d)
      BY <1>1, <2>3 DEF Brings, Asks, DebtSound
    <3> QED
      BY <3>1, <3>2 DEF OnItsWay, Brings
  <2> QED
    BY <1>1, <2>2, <2>3 DEF Asks
<1>2. ASSUME Brings(says, d), Handle(d.who, d.whose, says) PROVE OnItsWay(d)'
  <2>1. outbox'[d.who] = outbox[d.who] \cup AnswerTo(d.who, d.whose, says)
    BY <1>0, <1>2 DEF Handle, BoardTypeOK
  <2>2. says.kind \notin {"post", "response"}
    <3> SUFFICES ASSUME says.kind \in {"post", "response"} PROVE FALSE
      OBVIOUS
    <3>1. Insert(d.who, says.items)
      BY <1>2 DEF Handle
    <3>2. says.items \subseteq got'[d.who]
      BY <1>0, <3>1 DEF Insert, BoardTypeOK
    <3> QED
      BY <1>2, <3>2 DEF Brings
  <2>3. says.kind = "digest" /\ d.item \in says.items
    BY <1>2, <2>2 DEF Brings
  <2>4. d.item \notin board[d.who]
    BY <1>0 DEF BoardIsGiven, DebtSound
  <2> DEFINE back == [to |-> d.whose, kind |-> "fetch", items |-> says.items \ board[d.who]]
  <2>5. back \in outbox'[d.who]
    BY <2>1, <2>3, <2>4 DEF AnswerTo
  <2>6. Asks(back, d)
    BY <2>3, <2>4 DEF Asks
  <2> QED
    BY <2>5, <2>6 DEF OnItsWay, Asks
<1> QED
  BY <1>1, <1>2

LEMMA ArriveCarries ==
  ASSUME BoardTypeOK, BoardIsGiven, NEW f \in Frame, NEW m \in Node, NEW n \in Node,
         Arrive(f, m, n), NEW d \in owed, DebtSound(d), OnItsWay(d),
         d.item \notin got'[d.who]
  PROVE  OnItsWay(d)'
<1> DEFINE content == frame[f]
           says == content.says
           left == content.copies \ {<<m, n>>}
           after == [content EXCEPT !.seen = @ \cup {n},
                                    !.copies = IF n \notin content.seen
                                               THEN left \cup Relayed(n, says) ELSE left]
<1>0. d \in Debt /\ d.who \in Node /\ d.whose \in Node /\ d.who # d.whose
  BY DEF BoardTypeOK, Debt, DebtSound
<1>1. Under(f) /\ content \in Content /\ says \in Message
  BY DEF Arrive, Under, Content, BoardTypeOK
<1>2. frame' = [frame EXCEPT ![f] = Left(after)]
  BY DEF Arrive
<1>3. \A k \in Node : outbox[k] \subseteq outbox'[k]
  BY DEF Arrive, Handle, BoardTypeOK
<1>4. ASSUME NEW target, WillReach(after, target, d.path)
      PROVE  frame'[f] = after /\ Under(f)'
  <2>1. after.copies # {}
    BY <1>4 DEF WillReach
  <2>2. frame'[f] = after
    BY <1>2, <2>1 DEF Left, BoardTypeOK
  <2>3. after.src = content.src /\ content.src # Everybody
    BY <1>1, BlackboardAssumption DEF Content
  <2>4. after # NoFrame
    <3>1. NoFrame.src = Everybody
      BY DEF NoFrame
    <3> QED
      BY <2>3, <3>1
  <2> QED
    BY <2>2, <2>4 DEF Under, NoFrame
<1>5. after.src = content.src /\ after.says = says
  BY <1>1 DEF Content
<1>6. n \notin content.seen /\ says.to \in {Everybody, n} => Handle(n, content.src, says)
  BY DEF Arrive
<1>7. CASE (\E it \in outbox[d.who] : Asks(it, d)) \/ (\E it \in outbox[d.whose] : Brings(it, d))
  BY <1>0, <1>3, <1>7 DEF OnItsWay, Asks, Brings
<1>8. ASSUME content.src = d.who, Asks(says, d), WillReach(content, d.whose, d.path)
      PROVE  OnItsWay(d)'
  <2>1. CASE n = d.whose
    <3>1. n \notin content.seen /\ says.to \in {Everybody, n}
      BY <1>8, <2>1 DEF WillReach, Asks
    <3>2. Handle(d.whose, d.who, says)
      BY <1>6, <1>8, <2>1, <3>1
    <3> QED
      BY <1>0, <1>1, <1>8, <3>2, HandledCarries
  <2>2. CASE n # d.whose
    <3>1. WillReach(after, d.whose, d.path)
      BY <1>0, <1>1, <1>8, <2>2, RelayCarries
    <3>2. frame'[f] = after /\ Under(f)'
      BY <1>4, <3>1
    <3> HIDE DEF after
    <3> QED
      BY <1>5, <1>8, <3>1, <3>2 DEF OnItsWay, Asks, WillReach
  <2> QED
    BY <2>1, <2>2
<1>9. ASSUME content.src = d.whose, Brings(says, d), WillReach(content, d.who, d.path)
      PROVE  OnItsWay(d)'
  <2>1. CASE n = d.who
    <3>1. n \notin content.seen /\ says.to \in {Everybody, n}
      BY <1>9, <2>1 DEF WillReach, Brings
    <3>2. Handle(d.who, d.whose, says)
      BY <1>6, <1>9, <2>1, <3>1
    <3> QED
      BY <1>0, <1>1, <1>9, <3>2, HandledCarries
  <2>2. CASE n # d.who
    <3>1. WillReach(after, d.who, d.path)
      BY <1>0, <1>1, <1>9, <2>2, RelayCarries
    <3>2. frame'[f] = after /\ Under(f)'
      BY <1>4, <3>1
    <3> HIDE DEF after
    <3> QED
      BY <1>5, <1>9, <3>1, <3>2 DEF OnItsWay, Brings, WillReach
  <2> QED
    BY <2>1, <2>2
<1>10. ASSUME NEW e \in Frame, e # f, Under(e),
              \/ /\ frame[e].src = d.who /\ Asks(frame[e].says, d)
                 /\ WillReach(frame[e], d.whose, d.path)
              \/ /\ frame[e].src = d.whose /\ Brings(frame[e].says, d)
                 /\ WillReach(frame[e], d.who, d.path)
       PROVE  OnItsWay(d)'
  <2>1. frame'[e] = frame[e]
    BY <1>2, <1>10 DEF BoardTypeOK
  <2>2. Under(e)'
    BY <1>10, <2>1 DEF Under, NoFrame
  <2> QED
    BY <1>10, <2>1, <2>2 DEF OnItsWay, Asks, Brings, WillReach
<1> QED
  BY <1>7, <1>8, <1>9, <1>10 DEF OnItsWay

LEMMA DisconnectCarries ==
  ASSUME BoardTypeOK, NEW m \in Node, NEW n \in Node, Disconnect(m, n),
         NEW d \in owed, {m, n} \notin d.path, DebtSound(d), OnItsWay(d)
  PROVE  OnItsWay(d)'
<1> DEFINE broken == {<<m, n>>, <<n, m>>}
           after(f) == [frame[f] EXCEPT !.copies = @ \ broken]
<1>1. \A f \in Frame : Under(f) => frame'[f] = Left(after(f))
  BY DEF Disconnect
<1>2. ASSUME NEW f \in Frame, Under(f), NEW target, WillReach(frame[f], target, d.path)
      PROVE  /\ WillReach(after(f), target, d.path) /\ frame'[f] = after(f) /\ Under(f)'
             /\ after(f).src = frame[f].src /\ after(f).says = frame[f].says
  <2>1. /\ frame[f] \in Content
        /\ after(f).src = frame[f].src /\ after(f).says = frame[f].says
        /\ after(f).seen = frame[f].seen /\ after(f).copies = frame[f].copies \ broken
    BY <1>2 DEF Under, Content, BoardTypeOK
  <2>2. \A x, y : <<x, y>> \in broken => {x, y} = {m, n}
    OBVIOUS
  <2> DEFINE c == frame[f]
  <2>3. WillReach(after(f), target, d.path)
    <3>1. CASE <<c.src, target>> \in c.copies /\ {c.src, target} \in d.path
      <4>1. <<c.src, target>> \in after(f).copies
        BY <2>1, <2>2, <3>1
      <4> QED
        BY <1>2, <2>1, <3>1, <4>1 DEF WillReach
    <3>2. CASE \E r \in Node :
                 /\ c.says.to = target /\ d.path = {{c.src, r}, {r, target}}
                 /\ \/ <<c.src, r>> \in c.copies /\ r \notin c.seen
                    \/ <<r, target>> \in c.copies
      <4>1. PICK r \in Node :
                 /\ c.says.to = target /\ d.path = {{c.src, r}, {r, target}}
                 /\ \/ <<c.src, r>> \in c.copies /\ r \notin c.seen
                    \/ <<r, target>> \in c.copies
        BY <3>2
      <4>2. {c.src, r} \in d.path /\ {r, target} \in d.path
        BY <4>1
      <4>3. \/ <<c.src, r>> \in after(f).copies /\ r \notin after(f).seen
            \/ <<r, target>> \in after(f).copies
        BY <2>1, <2>2, <4>1, <4>2
      <4> HIDE DEF after
      <4> QED
        BY <1>2, <2>1, <4>1, <4>3 DEF WillReach
    <3> QED
      BY <1>2, <3>1, <3>2 DEF WillReach
  <2>4. after(f).copies # {}
    BY <2>3 DEF WillReach
  <2>5. frame'[f] = after(f)
    BY <1>1, <1>2, <2>4 DEF Left
  <2>6. frame[f].src # Everybody
    BY <2>1, BlackboardAssumption DEF Content
  <2>7. after(f) # NoFrame
    <3>1. NoFrame.src = Everybody
      BY DEF NoFrame
    <3> QED
      BY <2>1, <2>6, <3>1
  <2> QED
    BY <2>1, <2>3, <2>5, <2>7 DEF Under, NoFrame
<1>3. CASE (\E it \in outbox[d.who] : Asks(it, d)) \/ (\E it \in outbox[d.whose] : Brings(it, d))
  BY <1>3 DEF Disconnect, OnItsWay, Asks, Brings
<1>4. ASSUME NEW f \in Frame, Under(f), frame[f].src = d.who, Asks(frame[f].says, d),
             WillReach(frame[f], d.whose, d.path)
      PROVE  OnItsWay(d)'
  <2>1. /\ WillReach(after(f), d.whose, d.path) /\ frame'[f] = after(f) /\ Under(f)'
        /\ after(f).src = d.who /\ Asks(after(f).says, d)
    BY <1>2, <1>4
  <2> HIDE DEF after
  <2> QED
    BY <2>1 DEF OnItsWay, Asks, WillReach
<1>5. ASSUME NEW f \in Frame, Under(f), frame[f].src = d.whose, Brings(frame[f].says, d),
             WillReach(frame[f], d.who, d.path)
      PROVE  OnItsWay(d)'
  <2>1. /\ WillReach(after(f), d.who, d.path) /\ frame'[f] = after(f) /\ Under(f)'
        /\ after(f).src = d.whose /\ Brings(after(f).says, d)
    BY <1>2, <1>5
  <2> HIDE DEF after
  <2> QED
    BY <2>1 DEF OnItsWay, Brings, WillReach
<1> QED
  BY <1>3, <1>4, <1>5 DEF OnItsWay

\* A plugin that restarts loses no message between two others.
LEMMA RestartCarries ==
  ASSUME BoardTypeOK, NEW n \in Node, Restart(n),
         NEW d \in owed, n \notin {d.who, d.whose}, DebtSound(d), OnItsWay(d)
  PROVE  OnItsWay(d)'
<1>0. d.who \in Node /\ d.whose \in Node
  BY DEF BoardTypeOK, Debt
<1>1. PICK unread \in SUBSET {f \in Frame : Under(f) /\ frame[f].says.to \in {Everybody, n}} :
        frame' = [f \in Frame |-> IF f \in unread THEN [frame[f] EXCEPT !.seen = @ \cup {n}]
                                                  ELSE frame[f]]
  BY DEF Restart
<1>2. outbox'[d.who] = outbox[d.who] /\ outbox'[d.whose] = outbox[d.whose]
  BY <1>0 DEF Restart, BoardTypeOK
<1>3. ASSUME NEW f \in Frame, Under(f), NEW target \in {d.who, d.whose},
             frame[f].says.to \in {Everybody, target},
             WillReach(frame[f], target, d.path)
      PROVE  /\ WillReach(frame'[f], target, d.path) /\ Under(f)'
             /\ frame'[f].src = frame[f].src /\ frame'[f].says = frame[f].says
  <2>1. frame[f] \in Content
    BY <1>3 DEF Under, BoardTypeOK
  <2>2. CASE f \notin unread
    <3>1. frame'[f] = frame[f]
      BY <1>1, <2>2
    <3> QED
      BY <1>3, <3>1 DEF Under, NoFrame
  <2>3. CASE f \in unread
    <3>1. frame'[f] = [frame[f] EXCEPT !.seen = @ \cup {n}]
      BY <1>1, <2>3
    <3>2. /\ frame'[f].src = frame[f].src /\ frame'[f].says = frame[f].says
          /\ frame'[f].copies = frame[f].copies /\ frame'[f].seen = frame[f].seen \cup {n}
      BY <2>1, <3>1 DEF Content
    <3>3. frame[f].says.to = Everybody
      BY <1>1, <1>3, <2>3
    <3>4. target # Everybody
      BY <1>0, BlackboardAssumption
    <3>5. WillReach(frame'[f], target, d.path)
      BY <1>3, <3>2, <3>3, <3>4 DEF WillReach
    <3>6. frame'[f] # NoFrame
      <4>1. NoFrame.src = Everybody /\ frame[f].src # Everybody
        BY <2>1, BlackboardAssumption DEF NoFrame, Content
      <4> QED
        BY <3>2, <4>1
    <3> QED
      BY <3>2, <3>5, <3>6 DEF Under, NoFrame
  <2> QED
    BY <2>2, <2>3
<1>4. CASE (\E it \in outbox[d.who] : Asks(it, d)) \/ (\E it \in outbox[d.whose] : Brings(it, d))
  BY <1>2, <1>4 DEF OnItsWay, Asks, Brings
<1>5. ASSUME NEW f \in Frame, Under(f), frame[f].src = d.who, Asks(frame[f].says, d),
             WillReach(frame[f], d.whose, d.path)
      PROVE  OnItsWay(d)'
  <2>1. frame[f].says.to \in {Everybody, d.whose}
    BY <1>5 DEF Asks
  <2>2. /\ WillReach(frame'[f], d.whose, d.path) /\ Under(f)'
        /\ frame'[f].src = d.who /\ Asks(frame'[f].says, d)
    BY <1>3, <1>5, <2>1
  <2> QED
    BY <2>2 DEF OnItsWay, Asks, WillReach
<1>6. ASSUME NEW f \in Frame, Under(f), frame[f].src = d.whose, Brings(frame[f].says, d),
             WillReach(frame[f], d.who, d.path)
      PROVE  OnItsWay(d)'
  <2>1. frame[f].says.to \in {Everybody, d.who}
    BY <1>6 DEF Brings
  <2>2. /\ WillReach(frame'[f], d.who, d.path) /\ Under(f)'
        /\ frame'[f].src = d.whose /\ Brings(frame'[f].says, d)
    BY <1>3, <1>6, <2>1
  <2> QED
    BY <2>2 DEF OnItsWay, Brings, WillReach
<1> QED
  BY <1>4, <1>5, <1>6 DEF OnItsWay

\* Whatever a plugin asked its peer for, or was posted while they were connected, is on
\* its way until it is there, void, or the path or one of the two plugins has failed.
THEOREM OwedOnItsWay == BoardSpec => []OwedIsOnItsWay
<1>1. BoardInit => DebtInv
  BY DEF BoardInit, DebtInv, BoardIsGiven
<1>2. BoardTypeOK /\ DebtInv /\ [BoardNext]_boardVars => DebtInv'
  <2> SUFFICES ASSUME BoardTypeOK, DebtInv, [BoardNext]_boardVars PROVE DebtInv'
    OBVIOUS
  <2> USE DEF DebtInv
  <2>0. CASE UNCHANGED boardVars
    <3>1. ASSUME NEW d \in owed PROVE DebtSound(d)' /\ OnItsWay(d)'
      <4>1. d \in Debt
        BY DEF BoardTypeOK
      <4> QED
        BY <2>0, <4>1, WaitingStays DEF boardVars, DebtSound, Direct, Relay
    <3> QED
      BY <2>0, <3>1 DEF boardVars, BoardIsGiven
  <2>1. ASSUME NEW n \in Node, Forward(n) PROVE DebtInv'
    <3>1. UNCHANGED <<connected, board, got, owed>>
      BY <2>1 DEF Forward
    <3>2. ASSUME NEW d \in owed PROVE DebtSound(d)' /\ OnItsWay(d)'
      BY <2>1, <3>1, ForwardCarries DEF DebtSound, Direct, Relay
    <3> QED
      BY <3>1, <3>2 DEF BoardIsGiven
  <2>2. ASSUME NEW n \in Node, Read(n) PROVE DebtInv'
    <3>1. /\ UNCHANGED <<connected, outbox, frame, got>> /\ owed' = Unsettled(owed)
          /\ \E B \in Kept(board[n], {}) : board' = [board EXCEPT ![n] = B]
      BY <2>2 DEF Read
    <3>2. ASSUME NEW d \in owed' PROVE DebtSound(d)' /\ OnItsWay(d)'
      <4>1. d \in owed /\ d \in Debt /\ d.item \notin got'[d.who] /\ d.item \in board'[d.whose]
        BY <3>1, UnsettledMeans DEF BoardTypeOK
      <4> QED
        BY <3>1, <4>1, SoundStays, WaitingStays
    <3>3. BoardIsGiven'
      BY <3>1 DEF BoardIsGiven, Kept, Fresh, BoardTypeOK
    <3> QED
      BY <3>2, <3>3
  <2>3. ASSUME NEW n \in Node, Restart(n) PROVE DebtInv'
    <3> DEFINE left == {d \in owed : n \notin {d.who, d.whose}}
               new(m) == Owes(n, m, board[m], {{{m, n}}})
    <3>1. /\ UNCHANGED connected
          /\ board' = [board EXCEPT ![n] = {}] /\ got' = [got EXCEPT ![n] = {}]
          /\ owed' = Unsettled(left \cup UNION {new(m) : m \in Neighbours(n)})
          /\ [to |-> Everybody, kind |-> "request", items |-> {}] \in outbox'[n]
      BY <2>3 DEF Restart, BoardTypeOK
    <3>2. ASSUME NEW d \in owed' PROVE DebtSound(d)' /\ OnItsWay(d)'
      <4>1. /\ d \in left \cup UNION {new(m) : m \in Neighbours(n)}
            /\ d.item \notin got'[d.who] /\ d.item \in board'[d.whose]
        BY <3>1, UnsettledMeans
      <4>2. CASE d \in left
        BY <2>3, <3>1, <4>1, <4>2, SoundStays, RestartCarries
      <4>3. ASSUME NEW m \in Neighbours(n), d \in new(m) PROVE DebtSound(d)' /\ OnItsWay(d)'
        <5>1. d.who = n /\ d.whose = m /\ d.path = {{m, n}} /\ {m, n} = {n, m}
          BY <4>3 DEF Owes
        <5>2. m # n /\ {n, m} \in connected
          BY DEF Neighbours, Linked
        <5>3. DebtSound(d)'
          BY <3>1, <4>1, <5>1, <5>2 DEF DebtSound, Direct
        <5>4. Asks([to |-> Everybody, kind |-> "request", items |-> {}], d)
          BY <5>1 DEF Asks
        <5> QED
          BY <3>1, <5>1, <5>3, <5>4 DEF OnItsWay, Asks
      <4> QED
        BY <4>1, <4>2, <4>3
    <3>3. BoardIsGiven'
      BY <3>1 DEF BoardIsGiven, BoardTypeOK
    <3> QED
      BY <3>2, <3>3
  <2>4. ASSUME NEW n \in Node, NEW i \in Item, Post(n, i) PROVE DebtInv'
    <3> DEFINE new(m) == Owes(m, n, {i}, {{{m, n}}})
               post == [to |-> Everybody, kind |-> "post", items |-> {i}]
    <3>1. /\ UNCHANGED <<connected, frame>> /\ Insert(n, {i})
          /\ outbox' = [outbox EXCEPT ![n] = @ \cup {post}]
          /\ owed' = Unsettled(owed \cup UNION {new(m) : m \in Neighbours(n)})
      BY <2>4 DEF Post
    <3>2. /\ \A m \in Node : outbox[m] \subseteq outbox'[m]
          /\ post \in outbox'[n]
      BY <3>1 DEF BoardTypeOK
    <3>3. ASSUME NEW d \in owed' PROVE DebtSound(d)' /\ OnItsWay(d)'
      <4>1. /\ d \in owed \cup UNION {new(m) : m \in Neighbours(n)}
            /\ d.item \notin got'[d.who] /\ d.item \in board'[d.whose]
        BY <3>1, UnsettledMeans
      <4>2. CASE d \in owed
        <5>1. d \in Debt /\ d.who \in Node /\ d.whose \in Node
          BY <4>2 DEF BoardTypeOK, Debt
        <5> QED
          BY <3>1, <3>2, <4>1, <4>2, <5>1, SoundStays, WaitingStays
      <4>3. ASSUME NEW m \in Neighbours(n), d \in new(m) PROVE DebtSound(d)' /\ OnItsWay(d)'
        <5>1. d.who = m /\ d.whose = n /\ d.item = i /\ d.path = {{m, n}} /\ {m, n} = {n, m}
          BY <4>3 DEF Owes
        <5>2. m # n /\ {n, m} \in connected
          BY DEF Neighbours, Linked
        <5>3. DebtSound(d)'
          BY <3>1, <4>1, <5>1, <5>2 DEF DebtSound, Direct
        <5>4. Brings(post, d)
          BY <5>1 DEF Brings
        <5> HIDE DEF post
        <5> QED
          BY <3>2, <5>1, <5>3, <5>4 DEF OnItsWay, Brings
      <4> QED
        BY <4>1, <4>2, <4>3
    <3>4. BoardIsGiven'
      BY <3>1, InsertGiven
    <3> QED
      BY <3>3, <3>4
  <2>5. ASSUME NEW m \in Node, NEW n \in Node, PeerUp(m, n) PROVE DebtInv'
    <3> DEFINE new == Owes(m, n, board[n], Paths(m, n))
               request == [to |-> n, kind |-> "request", items |-> {}]
    <3>1. /\ UNCHANGED <<connected, board, frame, got>> /\ m # n
          /\ outbox' = [outbox EXCEPT ![m] = @ \cup {request}]
          /\ owed' = Unsettled(owed \cup new)
      BY <2>5 DEF PeerUp
    <3>2. /\ \A k \in Node : outbox[k] \subseteq outbox'[k]
          /\ request \in outbox'[m]
      BY <3>1 DEF BoardTypeOK
    <3>3. ASSUME NEW d \in owed' PROVE DebtSound(d)' /\ OnItsWay(d)'
      <4>1. /\ d \in owed \cup new
            /\ d.item \notin got'[d.who] /\ d.item \in board'[d.whose]
        BY <3>1, UnsettledMeans
      <4>2. CASE d \in owed
        <5>1. d \in Debt /\ d.who \in Node /\ d.whose \in Node
          BY <4>2 DEF BoardTypeOK, Debt
        <5> QED
          BY <3>1, <3>2, <4>1, <4>2, <5>1, SoundStays, WaitingStays
      <4>3. CASE d \in new
        <5>1. d.who = m /\ d.whose = n /\ d.path \in Paths(m, n)
          BY <4>3 DEF Owes
        <5>2. d.path \subseteq connected /\ (Direct(d) \/ \E r \in Node : Relay(d, r))
          <6>1. CASE Linked(m, n) /\ d.path = {{m, n}}
            BY <5>1, <6>1 DEF Linked, Direct
          <6>2. ASSUME NEW r \in Neighbours(m) \cap Neighbours(n), d.path = {{m, r}, {r, n}}
                PROVE  d.path \subseteq connected /\ Relay(d, r)
            <7>1. {n, r} = {r, n}
              OBVIOUS
            <7>2. r # m /\ r # n /\ {m, r} \in connected /\ {n, r} \in connected
              BY DEF Neighbours, Linked
            <7>3. {r, n} \in connected
              BY <7>1, <7>2
            <7> QED
              BY <5>1, <6>2, <7>2, <7>3 DEF Relay
          <6>3. \A r \in Neighbours(m) : r \in Node
            BY DEF Neighbours
          <6> QED
            BY <5>1, <6>1, <6>2, <6>3 DEF Paths
        <5>3. DebtSound(d)'
          BY <3>1, <4>1, <5>1, <5>2 DEF DebtSound, Direct, Relay
        <5>4. Asks(request, d)
          BY <5>1 DEF Asks
        <5> HIDE DEF request
        <5> QED
          BY <3>2, <5>1, <5>3, <5>4 DEF OnItsWay, Asks
      <4> QED
        BY <4>1, <4>2, <4>3
    <3> QED
      BY <3>1, <3>3 DEF BoardIsGiven
  <2>6. ASSUME NEW m \in Node, NEW n \in Node, MeshConnect(m, n) PROVE DebtInv'
    <3>1. /\ UNCHANGED <<board, outbox, frame, got, owed>> /\ connected \subseteq connected'
      BY <2>6 DEF MeshConnect
    <3>2. ASSUME NEW d \in owed PROVE DebtSound(d)' /\ OnItsWay(d)'
      <4>1. d \in Debt /\ d.item \in board[d.whose] /\ d.item \notin got[d.who]
        BY DEF BoardTypeOK, DebtSound
      <4> QED
        BY <3>1, <4>1, SoundStays, WaitingStays
    <3> QED
      BY <3>1, <3>2 DEF BoardIsGiven
  <2>7. ASSUME NEW m \in Node, NEW n \in Node, Disconnect(m, n) PROVE DebtInv'
    <3>1. /\ UNCHANGED <<board, got>> /\ connected' = connected \ {{m, n}}
          /\ owed' = {d \in owed : {m, n} \notin d.path}
      BY <2>7 DEF Disconnect
    <3>2. ASSUME NEW d \in owed' PROVE DebtSound(d)' /\ OnItsWay(d)'
      <4>1. d \in owed /\ {m, n} \notin d.path
        BY <3>1
      <4> QED
        BY <2>7, <3>1, <4>1, DisconnectCarries DEF DebtSound, Direct, Relay
    <3> QED
      BY <3>1, <3>2 DEF BoardIsGiven
  <2>8. ASSUME NEW f \in Frame, NEW m \in Node, NEW n \in Node, Arrive(f, m, n) PROVE DebtInv'
    <3>1. UNCHANGED connected /\ owed' = Unsettled(owed)
      BY <2>8 DEF Arrive
    <3>2. ASSUME NEW d \in owed' PROVE DebtSound(d)' /\ OnItsWay(d)'
      <4>1. d \in owed /\ d.item \notin got'[d.who] /\ d.item \in board'[d.whose]
        BY <3>1, UnsettledMeans
      <4> QED
        BY <2>8, <3>1, <4>1, SoundStays, ArriveCarries
    <3>3. BoardIsGiven'
      BY <2>8, InsertGiven DEF Arrive, Handle, BoardIsGiven
    <3> QED
      BY <3>2, <3>3
  <2>9. CASE Expire
    <3>1. /\ UNCHANGED <<connected, board, outbox, frame, got>> /\ owed' = Unsettled(owed)
      BY <2>9 DEF Expire
    <3>2. ASSUME NEW d \in owed' PROVE DebtSound(d)' /\ OnItsWay(d)'
      <4>1. d \in owed /\ d \in Debt /\ d.item \notin got'[d.who] /\ d.item \in board'[d.whose]
        BY <3>1, UnsettledMeans DEF BoardTypeOK
      <4> QED
        BY <3>1, <4>1, SoundStays, WaitingStays
    <3> QED
      BY <3>1, <3>2 DEF BoardIsGiven
  <2> QED
    BY <2>0, <2>1, <2>2, <2>3, <2>4, <2>5, <2>6, <2>7, <2>8, <2>9 DEF BoardNext, Arrival
<1>3. DebtInv => OwedIsOnItsWay
  BY DEF DebtInv, OwedIsOnItsWay
<1> QED
  BY <1>1, <1>2, <1>3, BoardTypes, PTL DEF BoardSpec
-----------------------------------------------------------------------------
(* The supervision of a plugin: types *)

USE PluginAssumption DEF PluginAssumption

TaskState == [at : Place, job : Job, retry : BOOLEAN, gen : Gen \cup {Nothing}, reply : Reply]

\* A task in conversation with a plugin knows its generation.
Sane(s) == s \in TaskState /\ (s.at \in Engaged => s.gen \in Gen)

-----------------------------------------------------------------------------
(* Where a task goes *)

LEMMA SaneTask == ASSUME TypeOK, NEW t \in Task PROVE Sane(task[t])
BY DEF TypeOK, Sane, TaskState

LEMMA GoesSane ==
  ASSUME TypeOK, NEW t \in Task, NEW s, Sane(s), Goes(t, s)
  PROVE  /\ task' \in [Task -> TaskState]
         /\ \A u \in Task : task'[u].at \in Engaged => task'[u].gen \in Gen
         /\ task'[t] = s
         /\ \A u \in Task : u # t => task'[u] = task[u]
<1>1. task \in [Task -> TaskState]
  BY DEF TypeOK, TaskState
<1>2. s \in TaskState /\ task' = [task EXCEPT ![t] = s]
  BY DEF Sane, Goes
<1>3. task' \in [Task -> TaskState]
  BY <1>1, <1>2
<1>4. task'[t] = s /\ \A u \in Task : u # t => task'[u] = task[u]
  BY <1>1, <1>2
<1>5. ASSUME NEW u \in Task PROVE Sane(task'[u])
  BY <1>4, SaneTask
<1>6. QED
  BY <1>3, <1>4, <1>5 DEF Sane

LEMMA EnsuringSane ==
  ASSUME NEW job \in Job
  PROVE  Sane(Ensuring(job)) /\ Ensuring(job).at = "ensure"
BY DEF Sane, TaskState, Engaged, Ensuring, Resting, Place, Job, Reply

LEMMA EndedSane ==
  ASSUME TypeOK, NEW t \in Task
  PROVE  Sane(Ended(t)) /\ Ended(t).at \in {"rest", "ensure"}
<1>1. Sane(Resting) /\ Resting.at = "rest"
  BY DEF Sane, TaskState, Engaged, Resting, Place, Job, Reply
<1>2. "manifest" \in Job
  BY DEF Job
<1>3. QED
  BY <1>1, <1>2, EnsuringSane DEF Ended

LEMMA AgainSane ==
  ASSUME TypeOK, NEW t \in Task
  PROVE  Sane(Again(t)) /\ Again(t).at \in {"rest", "ensure"}
<1>1. task[t].job \in Job
  BY SaneTask DEF Sane, TaskState, Engaged
<1>2. Sane([Ensuring(task[t].job) EXCEPT !.retry = TRUE])
  BY <1>1 DEF Sane, TaskState, Engaged, Ensuring, Resting, Place, Job, Reply
<1>3. [Ensuring(task[t].job) EXCEPT !.retry = TRUE].at = "ensure"
  BY DEF Ensuring, Resting
<1>4. QED
  BY <1>2, <1>3, EndedSane DEF Again

LEMMA PlacedSane ==
  ASSUME TypeOK, NEW t \in Task, NEW p \in Place \ Engaged
  PROVE  Sane([task[t] EXCEPT !.at = p]) /\ [task[t] EXCEPT !.at = p].at = p
BY SaneTask DEF Sane, TaskState, Engaged, Place

\* A task that reports a failure still knows whose it was, also when it is done.
LEMMA ReportSane ==
  ASSUME TypeOK, NEW t \in Task, task[t].at \in Engaged
  PROVE  /\ Sane([task[t] EXCEPT !.at = "report"])
         /\ [task[t] EXCEPT !.at = "report"].at = "report"
BY SaneTask DEF Sane, TaskState, Engaged, Place

LEMMA AfterSane ==
  ASSUME TypeOK, NEW t \in Task, At(t, "report")
  PROVE  /\ Sane(AfterReport(t))
         /\ AfterReport(t).at \in {"rest", "ensure", "init"}
         /\ AfterReport(t).at = "init" => lock = t /\ task[t].reply \notin {"bad", "lost"}
<1>1. /\ Sane([task[t] EXCEPT !.at = "init", !.reply = "lost"])
      /\ [task[t] EXCEPT !.at = "init", !.reply = "lost"].at = "init"
  BY SaneTask DEF Sane, TaskState, Engaged, Place, Reply, At
<1>2. QED
  BY <1>1, EndedSane, AgainSane DEF AfterReport

LEMMA DropTyped ==
  ASSUME TypeOK, NEW G, Drop(G)
  PROVE  /\ runtime' \in Gen \cup {Nothing}
         /\ proc' \in [Gen -> {"up", "hung", "down"}]
         /\ \A g \in Gen : proc'[g] # proc[g] => g \in G /\ g = runtime /\ proc'[g] = "down"
         /\ runtime' = runtime \/ (runtime' = Nothing /\ runtime \in G)
BY DEF Drop, TypeOK

-----------------------------------------------------------------------------
(* Types *)

TasksOK ==
  /\ task \in [Task -> TaskState]
  /\ \A t \in Task : task[t].at \in Engaged => task[t].gen \in Gen

\* Every variable stays in its set, and a task that talks to the plugin always knows
\* to which of its processes.
THEOREM TypeCorrect == Spec => []TypeOK
<1>1. Init => TypeOK
  <2> SUFFICES ASSUME Init PROVE TypeOK
    OBVIOUS
  <2>1. Sane(Resting)
    BY DEF Sane, TaskState, Engaged, Resting, Place, Job, Reply
  <2>2. TasksOK
    BY <2>1 DEF Init, TasksOK, Sane
  <2>3. 0 \in 0..MaxBacklog /\ 0 \in 0..MaxFaults
    OBVIOUS
  <2>4. QED
    BY <2>2, <2>3 DEF Init, TypeOK, TasksOK, TaskState
<1>2. TypeOK /\ [Next]_vars => TypeOK'
  <2> SUFFICES ASSUME TypeOK, [Next]_vars PROVE TypeOK'
    OBVIOUS
  <2>t. ASSUME NEW t \in Task, NEW s, Sane(s), Goes(t, s) PROVE TasksOK'
    BY <2>t, GoesSane DEF TasksOK
  <2>s. ASSUME TasksOK',
               runtime' \in Gen \cup {Nothing},
               status' \in {"starting", "running", "restarting", "stopped", "shutting down",
                            "disabled"},
               lock' \in Task \cup {Nothing},
               proc' \in [Gen -> {"up", "hung", "down"}],
               link' \in [Gen -> {"run", "drain", "over"}],
               backlog' \in [Gen -> 0..MaxBacklog],
               stopping' \in {"no", "told", "taken", "done"}, faults' \in 0..MaxFaults
        PROVE  TypeOK'
    BY <2>s DEF TasksOK, TaskState, TypeOK
  <2>k. UNCHANGED task => TasksOK'
    BY DEF TypeOK, TasksOK, TaskState
  <2>f. Fault => faults' \in 0..MaxFaults
    <3>1. faults \in 0..MaxFaults /\ MaxFaults \in Nat
      BY DEF TypeOK
    <3>2. QED
      BY <3>1 DEF Fault
  <2>1. CASE UNCHANGED vars
    BY <2>1, <2>k, <2>s DEF vars, TypeOK
  <2>2. ASSUME NEW g \in Gen, Crash(g) \/ Hang(g) PROVE TypeOK'
    BY <2>2, <2>k, <2>f, <2>s DEF Crash, Hang, TypeOK
  <2>3. ASSUME NEW g \in Gen, LoopClears(g) PROVE TypeOK'
    BY <2>3, <2>k, <2>f, <2>s, DropTyped DEF LoopClears, TypeOK
  <2>4. ASSUME NEW g \in Gen, LoopDrains(g) PROVE TypeOK'
    <3>1. ASSUME NEW t \in Task PROVE Sane([task[t] EXCEPT !.reply = "lost"])
      BY SaneTask DEF Sane, TaskState, Engaged, Reply
    <3>2. ASSUME NEW t \in Task PROVE Sane(task'[t])
      BY <2>4, <3>1, SaneTask DEF LoopDrains
    <3>3. TasksOK'
      BY <2>4, <3>2 DEF LoopDrains, TasksOK, Sane
    <3>4. backlog' \in [Gen -> 0..MaxBacklog]
      <4>1. 0 \in 0..MaxBacklog
        OBVIOUS
      <4>2. QED
        BY <2>4, <4>1 DEF LoopDrains, TypeOK
    <3>5. QED
      BY <2>4, <3>3, <3>4, <2>s DEF LoopDrains, TypeOK
  <2>5. ASSUME NEW t \in Task, Ensure(t) PROVE TypeOK'
    <3>1. TasksOK'
      BY <2>5, <2>t, EndedSane, PlacedSane DEF Ensure, Place, Engaged
    <3>2. QED
      BY <2>5, <3>1, <2>s DEF Ensure, TypeOK
  <2>6. ASSUME NEW t \in Task, Lock(t) PROVE TypeOK'
    <3>1. TasksOK'
      BY <2>6, <2>t, PlacedSane DEF Lock, Place, Engaged
    <3>2. QED
      BY <2>6, <3>1, <2>s DEF Lock, TypeOK
  <2>7. ASSUME NEW t \in Task, NEW g \in Gen, Connect(t, g) PROVE TypeOK'
    <3>1. TasksOK'
      BY <2>7, <2>t, PlacedSane DEF Connect, Place, Engaged
    <3>2. QED
      BY <2>7, <3>1, <2>s DEF Connect, TypeOK
  <2>8. ASSUME NEW t \in Task, ConnectFails(t) PROVE TypeOK'
    BY <2>8, <2>t, <2>f, <2>s, EndedSane DEF ConnectFails, TypeOK
  <2>9. ASSUME NEW t \in Task, Greet(t) PROVE TypeOK'
    <3>1. runtime # Nothing => Sane([task[t] EXCEPT !.at = "offer", !.gen = runtime])
      BY SaneTask DEF Sane, TaskState, Engaged, Place, TypeOK
    <3>2. TasksOK'
      BY <2>9, <2>t, <3>1, EndedSane DEF Greet
    <3>3. QED
      BY <2>9, <3>2, <2>s DEF Greet, TypeOK
  <2>10. ASSUME NEW t \in Task, Initialized(t) PROVE TypeOK'
    <3>1. Sane([task[t] EXCEPT !.at = "ready", !.gen = Nothing, !.reply = "none"])
      BY SaneTask DEF Sane, TaskState, Engaged, Place, Reply
    <3>2. TasksOK'
      BY <2>10, <2>t, <3>1 DEF Initialized
    <3>3. QED
      BY <2>10, <3>2, <2>s DEF Initialized, TypeOK
  <2>11. ASSUME NEW t \in Task, Rejected(t) PROVE TypeOK'
    <3>1. task[t].at \in Engaged
      BY <2>11 DEF Rejected, At, Engaged
    <3>2. TasksOK'
      BY <2>11, <2>t, <3>1, ReportSane, EndedSane DEF Rejected, HandleRuntimeFailure
    <3>3. QED
      BY <2>11, <3>2, <2>s, DropTyped DEF Rejected, HandleRuntimeFailure, TypeOK
  <2>12. ASSUME NEW t \in Task, Disabled(t) PROVE TypeOK'
    <3>1. task[t].at \in Engaged
      BY <2>12 DEF Disabled, At, Engaged
    <3>2. TasksOK'
      BY <2>12, <2>t, <3>1, ReportSane DEF Disabled, HandleRuntimeFailure
    <3>3. QED
      BY <2>12, <3>2, <2>s, DropTyped DEF Disabled, HandleRuntimeFailure, TypeOK
  <2>13. ASSUME NEW t \in Task, Timeout(t) PROVE TypeOK'
    <3>1. task[t].at \in Engaged
      BY <2>13 DEF Timeout, At, Waiting, Engaged
    <3>2. TasksOK'
      BY <2>13, <2>t, <3>1, ReportSane DEF Timeout, HandleRuntimeFailure
    <3>3. QED
      BY <2>13, <3>2, <2>s, DropTyped DEF Timeout, HandleRuntimeFailure, TypeOK
  <2>14. ASSUME NEW t \in Task, Call(t) PROVE TypeOK'
    <3>1. TasksOK'
      BY <2>14, <2>t, EnsuringSane DEF Call, Job
    <3>2. QED
      BY <2>14, <3>1, <2>s DEF Call, TypeOK
  <2>15. ASSUME NEW t \in Task, Ready(t) PROVE TypeOK'
    <3>1. runtime # Nothing => Sane([task[t] EXCEPT !.at = "send", !.gen = runtime])
      BY SaneTask DEF Sane, TaskState, Engaged, Place, TypeOK
    <3>2. TasksOK'
      BY <2>15, <2>t, <3>1, EndedSane DEF Ready
    <3>3. QED
      BY <2>15, <3>2, <2>s DEF Ready, TypeOK
  <2>16. ASSUME NEW t \in Task, Send(t) PROVE TypeOK'
    <3>1. Sane([task[t] EXCEPT !.at = "asked"])
      BY <2>16, SaneTask DEF Send, At, Sane, TaskState, Engaged, Place
    <3>2. TasksOK'
      BY <2>16, <2>t, <3>1, EndedSane DEF Send
    <3>3. backlog' \in [Gen -> 0..MaxBacklog]
      <4>1. \A n \in 0..MaxBacklog : n < MaxBacklog => n + 1 \in 0..MaxBacklog
        OBVIOUS
      <4>2. backlog \in [Gen -> 0..MaxBacklog]
        BY DEF TypeOK
      <4>3. QED
        BY <2>16, <4>1, <4>2 DEF Send
    <3>4. QED
      BY <2>16, <3>2, <3>3, <2>s DEF Send, TypeOK
  <2>17. ASSUME NEW t \in Task, SendFails(t) PROVE TypeOK'
    <3>1. task[t].at \in Engaged
      BY <2>17 DEF SendFails, At, Engaged
    <3>2. TasksOK'
      BY <2>17, <2>t, <3>1, ReportSane DEF SendFails, HandleRuntimeFailure
    <3>3. QED
      BY <2>17, <3>2, <2>s, DropTyped DEF SendFails, HandleRuntimeFailure, TypeOK
  <2>18. ASSUME NEW t \in Task, Lost(t) PROVE TypeOK'
    <3>1. TasksOK'
      BY <2>18, <2>t, AgainSane DEF Lost
    <3>2. QED
      BY <2>18, <3>1, <2>s DEF Lost, TypeOK
  <2>19. ASSUME NEW t \in Task, Answered(t) PROVE TypeOK'
    <3>1. TasksOK'
      BY <2>19, <2>t, EndedSane DEF Answered
    <3>2. QED
      BY <2>19, <3>1, <2>s DEF Answered, TypeOK
  <2>20. ASSUME NEW t \in Task, Unhealthy(t) PROVE TypeOK'
    <3>1. task[t].at \in Engaged
      BY <2>20 DEF Unhealthy, At, Engaged
    <3>2. TasksOK'
      BY <2>20, <2>t, <3>1, ReportSane DEF Unhealthy, HandleRuntimeFailure
    <3>3. QED
      BY <2>20, <3>2, <2>s, DropTyped DEF Unhealthy, HandleRuntimeFailure, TypeOK
  <2>21. ASSUME NEW t \in Task, Answer(t) PROVE TypeOK'
    <3>1. PICK r \in {"ok", "odd", "bad", "off"} :
            /\ IF r = "ok" THEN UNCHANGED faults ELSE Fault
            /\ Goes(t, [task[t] EXCEPT !.reply = r])
      BY <2>21 DEF Answer
    <3>2. Sane([task[t] EXCEPT !.reply = r])
      BY SaneTask DEF Sane, TaskState, Engaged, Reply
    <3>3. TasksOK'
      BY <3>1, <3>2, <2>t
    <3>4. faults' \in 0..MaxFaults
      BY <3>1, <2>f DEF TypeOK
    <3>5. QED
      BY <2>21, <3>3, <3>4, <2>s DEF Answer, TypeOK
  <2>22. CASE Tick
    <3>1. TasksOK'
      BY <2>22, <2>t, EnsuringSane DEF Tick, Job, Task
    <3>2. QED
      BY <2>22, <3>1, <2>s DEF Tick, TypeOK
  <2>23. CASE StopTold \/ StopDone
    BY <2>23, <2>k, <2>s DEF StopTold, StopDone, TypeOK
  <2>24. CASE StopTaken
    <3>1. ASSUME NEW t \in Task PROVE Sane([task[t] EXCEPT !.reply = "lost"])
      BY SaneTask DEF Sane, TaskState, Engaged, Reply
    <3>2. ASSUME NEW t \in Task PROVE Sane(task'[t])
      BY <2>24, <3>1, SaneTask DEF StopTaken
    <3>3. TasksOK'
      BY <2>24, <3>2 DEF StopTaken, TasksOK, Sane
    <3>4. QED
      BY <2>24, <3>3, <2>s, DropTyped DEF StopTaken, TypeOK
  <2>26. ASSUME NEW t \in Task, Offer(t) PROVE TypeOK'
    <3>1. Sane([task[t] EXCEPT !.at = "init"])
      BY <2>26, SaneTask DEF Offer, At, Sane, TaskState, Engaged, Place
    <3>2. TasksOK'
      BY <2>26, <2>t, <3>1 DEF Offer
    <3>3. QED
      BY <2>26, <3>2, <2>s DEF Offer, TypeOK
  <2>27. ASSUME NEW t \in Task, Garbled(t) PROVE TypeOK'
    BY <2>27, <2>t, <2>s, EndedSane DEF Garbled, TypeOK
  <2>28. ASSUME NEW t \in Task, Report(t) PROVE TypeOK'
    <3>1. TasksOK'
      BY <2>28, <2>t, AfterSane DEF Report
    <3>2. QED
      BY <2>28, <3>1, <2>s DEF Report, TypeOK
  <2>25. QED
    BY <2>1, <2>2, <2>3, <2>4, <2>5, <2>6, <2>7, <2>8, <2>9, <2>10, <2>11, <2>12, <2>13,
       <2>14, <2>15, <2>16, <2>17, <2>18, <2>19, <2>20, <2>21, <2>22, <2>23, <2>24, <2>26,
       <2>27, <2>28
       DEF Next, Steps, Loop
<1>3. QED
  BY <1>1, <1>2, PTL DEF Spec

-----------------------------------------------------------------------------
(* One process *)

\* A process is up only as the current generation's; whoever starts one holds the lock
\* until it is initialized; there is no current generation while one is launched.
Sole ==
  /\ \A g \in Gen : proc[g] # "down" => runtime = g
  /\ \A t \in Task : task[t].at \in {"launch", "greet", "offer", "init"} => lock = t
  /\ \A t \in Task : task[t].at = "launch" => runtime = Nothing

\* A task that gives up needs no lock, one that goes on with the plugin keeps it.
LEMMA SoleGoes ==
  ASSUME TypeOK, Sole, NEW t \in Task, NEW s, Sane(s), Goes(t, s),
         s.at # "launch", s.at \in {"greet", "offer", "init"} => lock = t /\ lock' = t,
         \A g \in Gen : proc'[g] # "down" => proc[g] # "down" /\ runtime' = runtime,
         runtime' \in {runtime, Nothing},
         lock' = lock \/ (lock' = Nothing /\ lock = t)
  PROVE  Sole'
<1>1. ASSUME NEW u \in Task, task'[u].at \in {"launch", "greet", "offer", "init"}
      PROVE  lock' = u /\ (task'[u].at = "launch" => u # t /\ task'[u] = task[u])
  BY <1>1, GoesSane DEF Sole
<1>2. QED
  BY <1>1 DEF Sole

LEMMA DropSole ==
  ASSUME TypeOK, Sole, NEW G, Drop(G)
  PROVE  /\ \A g \in Gen : proc'[g] # "down" => proc[g] # "down" /\ runtime' = runtime
         /\ runtime' \in {runtime, Nothing}
BY DEF Drop, TypeOK, Sole

\* For any number of tasks, the restart lock and the second look at the runtime keep
\* the plugin to one process.
THEOREM OneProcessEver == Spec => []OneProcess
<1>1. Init => Sole
  BY DEF Init, Sole, Resting
<1>2. TypeOK /\ Sole /\ [Next]_vars => Sole'
  <2> SUFFICES ASSUME TypeOK, Sole, [Next]_vars PROVE Sole'
    OBVIOUS
  <2>k. UNCHANGED <<proc, runtime>> =>
          /\ \A g \in Gen : proc'[g] # "down" => proc[g] # "down" /\ runtime' = runtime
          /\ runtime' \in {runtime, Nothing}
    OBVIOUS
  <2>1. CASE UNCHANGED vars
    BY <2>1 DEF vars, Sole
  <2>2. ASSUME NEW g \in Gen, Crash(g) \/ Hang(g) PROVE Sole'
    BY <2>2 DEF Crash, Hang, Sole, TypeOK
  <2>3. ASSUME NEW g \in Gen, LoopClears(g) PROVE Sole'
    BY <2>3, DropSole DEF LoopClears, Sole
  <2>4. ASSUME NEW g \in Gen, LoopDrains(g) PROVE Sole'
    <3>1. \A t \in Task : task'[t].at = task[t].at
      BY <2>4 DEF LoopDrains, TypeOK
    <3>2. QED
      BY <2>4, <3>1 DEF LoopDrains, Sole
  <2>5. ASSUME NEW t \in Task, Ensure(t) PROVE Sole'
    BY <2>5, <2>k, SoleGoes, EndedSane, PlacedSane DEF Ensure, Place, Engaged
  <2>6. ASSUME NEW t \in Task, Lock(t) PROVE Sole'
    <3>1. CASE runtime # Nothing
      BY <2>6, <3>1, <2>k, SoleGoes, PlacedSane DEF Lock, Place, Engaged
    <3>2. CASE runtime = Nothing
      <4>1. Goes(t, [task[t] EXCEPT !.at = "launch"]) /\ lock' = t /\ lock = Nothing
        BY <2>6, <3>2 DEF Lock
      <4>2. \A u \in Task : u # t => task'[u] = task[u]
        BY <4>1, GoesSane, PlacedSane DEF Place, Engaged
      <4>3. QED
        BY <2>6, <3>2, <4>1, <4>2 DEF Lock, Sole
    <3>3. QED
      BY <3>1, <3>2
  <2>7. ASSUME NEW t \in Task, NEW g \in Gen, Connect(t, g) PROVE Sole'
    <3>1. /\ task'[t].at = "greet" /\ lock = t /\ runtime = Nothing
          /\ \A u \in Task : u # t => task'[u] = task[u]
      <4>1. task[t].at = "launch" /\ Goes(t, [task[t] EXCEPT !.at = "greet"])
        BY <2>7 DEF Connect, At
      <4>2. lock = t /\ runtime = Nothing
        BY <4>1 DEF Sole
      <4>3. "greet" \in Place \ Engaged
        BY DEF Place, Engaged
      <4>4. /\ Sane([task[t] EXCEPT !.at = "greet"])
            /\ [task[t] EXCEPT !.at = "greet"].at = "greet"
        BY <4>3, PlacedSane
      <4>5. QED
        BY <4>1, <4>2, <4>4, GoesSane
    <3>2. \A h \in Gen : proc'[h] # "down" => h = g
      BY <2>7, <3>1 DEF Connect, Sole, TypeOK
    <3>3. QED
      BY <2>7, <3>1, <3>2 DEF Connect, Sole
  <2>8. ASSUME NEW t \in Task, ConnectFails(t) PROVE Sole'
    BY <2>8, <2>k, SoleGoes, EndedSane DEF ConnectFails, At, Sole
  <2>9. ASSUME NEW t \in Task, Greet(t) PROVE Sole'
    <3>1. CASE runtime = Nothing
      BY <2>9, <3>1, <2>k, SoleGoes, EndedSane DEF Greet, At, Sole
    <3>2. CASE runtime # Nothing
      <4>1. Sane([task[t] EXCEPT !.at = "offer", !.gen = runtime])
        BY <3>2, SaneTask DEF Sane, TaskState, Engaged, Place, TypeOK
      <4>2. Goes(t, [task[t] EXCEPT !.at = "offer", !.gen = runtime])
        BY <2>9, <3>2 DEF Greet
      <4>3. /\ task'[t].at = "offer" /\ lock = t
            /\ \A u \in Task : u # t => task'[u] = task[u]
        <5>1. lock = t
          BY <2>9 DEF Greet, At, Sole
        <5>2. [task[t] EXCEPT !.at = "offer", !.gen = runtime].at = "offer"
          BY SaneTask DEF Sane, TaskState, Engaged
        <5>3. QED
          BY <4>1, <4>2, <5>1, <5>2, GoesSane
      <4>4. QED
        BY <2>9, <3>2, <4>3 DEF Greet, Sole
    <3>3. QED
      BY <3>1, <3>2
  <2>10. ASSUME NEW t \in Task, Initialized(t) PROVE Sole'
    <3>1. /\ Sane([task[t] EXCEPT !.at = "ready", !.gen = Nothing, !.reply = "none"])
          /\ [task[t] EXCEPT !.at = "ready", !.gen = Nothing, !.reply = "none"].at = "ready"
      BY SaneTask DEF Sane, TaskState, Engaged, Place, Reply
    <3>2. QED
      BY <2>10, <3>1, <2>k, SoleGoes DEF Initialized, At, Sole
  <2>11. ASSUME NEW t \in Task, Rejected(t) PROVE Sole'
    <3>1. task[t].at \in Engaged
      BY <2>11 DEF Rejected, At, Engaged
    <3>2. QED
      BY <2>11, <3>1, <2>k, DropSole, SoleGoes, ReportSane, EndedSane
         DEF Rejected, HandleRuntimeFailure, At, Sole
  <2>12. ASSUME NEW t \in Task, Disabled(t) PROVE Sole'
    <3>1. task[t].at \in Engaged
      BY <2>12 DEF Disabled, At, Engaged
    <3>2. QED
      BY <2>12, <3>1, <2>k, DropSole, SoleGoes, ReportSane
         DEF Disabled, HandleRuntimeFailure, At, Sole
  <2>13. ASSUME NEW t \in Task, Timeout(t) PROVE Sole'
    <3>1. task[t].at \in Engaged
      BY <2>13 DEF Timeout, At, Waiting, Engaged
    <3>2. QED
      BY <2>13, <3>1, <2>k, DropSole, SoleGoes, ReportSane
         DEF Timeout, HandleRuntimeFailure, At, Sole
  <2>14. ASSUME NEW t \in Task, Call(t) PROVE Sole'
    BY <2>14, <2>k, SoleGoes, EnsuringSane DEF Call, Job
  <2>15. ASSUME NEW t \in Task, Ready(t) PROVE Sole'
    <3>1. runtime # Nothing => /\ Sane([task[t] EXCEPT !.at = "send", !.gen = runtime])
                               /\ [task[t] EXCEPT !.at = "send", !.gen = runtime].at = "send"
      BY SaneTask DEF Sane, TaskState, Engaged, Place, TypeOK
    <3>2. QED
      BY <2>15, <3>1, <2>k, SoleGoes, EndedSane DEF Ready
  <2>16. ASSUME NEW t \in Task, Send(t) PROVE Sole'
    <3>1. /\ Sane([task[t] EXCEPT !.at = "asked"])
          /\ [task[t] EXCEPT !.at = "asked"].at = "asked"
      BY <2>16, SaneTask DEF Send, At, Sane, TaskState, Engaged, Place
    <3>2. QED
      BY <2>16, <3>1, <2>k, SoleGoes, EndedSane DEF Send
  <2>17. ASSUME NEW t \in Task, SendFails(t) PROVE Sole'
    <3>1. task[t].at \in Engaged
      BY <2>17 DEF SendFails, At, Engaged
    <3>2. QED
      BY <2>17, <3>1, <2>k, DropSole, SoleGoes, ReportSane
         DEF SendFails, HandleRuntimeFailure, At, Sole
  <2>18. ASSUME NEW t \in Task, Lost(t) PROVE Sole'
    BY <2>18, <2>k, SoleGoes, AgainSane DEF Lost
  <2>19. ASSUME NEW t \in Task, Answered(t) PROVE Sole'
    BY <2>19, <2>k, SoleGoes, EndedSane DEF Answered
  <2>20. ASSUME NEW t \in Task, Unhealthy(t) PROVE Sole'
    <3>1. task[t].at \in Engaged
      BY <2>20 DEF Unhealthy, At, Engaged
    <3>2. QED
      BY <2>20, <3>1, <2>k, DropSole, SoleGoes, ReportSane
         DEF Unhealthy, HandleRuntimeFailure, At, Sole
  <2>21. ASSUME NEW t \in Task, Answer(t) PROVE Sole'
    <3>1. PICK r \in {"ok", "odd", "bad", "off"} : Goes(t, [task[t] EXCEPT !.reply = r])
      BY <2>21 DEF Answer
    <3>2. Sane([task[t] EXCEPT !.reply = r]) /\ [task[t] EXCEPT !.reply = r].at = task[t].at
      BY SaneTask DEF Sane, TaskState, Engaged, Reply
    <3>3. \A u \in Task : task'[u].at = task[u].at
      BY <3>1, <3>2, GoesSane
    <3>4. QED
      BY <2>21, <3>3 DEF Answer, Sole
  <2>22. CASE Tick
    BY <2>22, <2>k, SoleGoes, EnsuringSane DEF Tick, Job, Task
  <2>23. CASE StopTold \/ StopDone
    BY <2>23 DEF StopTold, StopDone, Sole
  <2>24. CASE StopTaken
    <3>1. ASSUME NEW t \in Task PROVE task'[t].at = task[t].at
      <4>1. task'[t] = task[t] \/ task'[t] = [task[t] EXCEPT !.reply = "lost"]
        BY <2>24 DEF StopTaken
      <4>2. QED
        BY <4>1, SaneTask DEF Sane, TaskState, Engaged
    <3>2. QED
      BY <2>24, <3>1, DropSole DEF StopTaken, Sole
  <2>26. ASSUME NEW t \in Task, Offer(t) PROVE Sole'
    <3>1. /\ Sane([task[t] EXCEPT !.at = "init"])
          /\ [task[t] EXCEPT !.at = "init"].at = "init"
      BY <2>26, SaneTask DEF Offer, At, Sane, TaskState, Engaged, Place
    <3>2. lock = t
      BY <2>26 DEF Offer, At, Sole
    <3>3. QED
      BY <2>26, <3>1, <3>2, <2>k, SoleGoes DEF Offer
  <2>27. ASSUME NEW t \in Task, Garbled(t) PROVE Sole'
    BY <2>27, <2>k, SoleGoes, EndedSane DEF Garbled, At, Sole
  <2>28. ASSUME NEW t \in Task, Report(t) PROVE Sole'
    BY <2>28, <2>k, SoleGoes, AfterSane DEF Report
  <2>25. QED
    BY <2>1, <2>2, <2>3, <2>4, <2>5, <2>6, <2>7, <2>8, <2>9, <2>10, <2>11, <2>12, <2>13,
       <2>14, <2>15, <2>16, <2>17, <2>18, <2>19, <2>20, <2>21, <2>22, <2>23, <2>24, <2>26,
       <2>27, <2>28
       DEF Next, Steps, Loop
<1>3. TypeOK /\ Sole => OneProcess
  <2> SUFFICES ASSUME TypeOK, Sole PROVE OneProcess
    OBVIOUS
  <2>1. \A g, h \in Gen : proc[g] # "down" /\ proc[h] # "down" => g = h
    BY DEF Sole
  <2>2. \A t, u \in Task : At(t, "launch") /\ At(u, "launch") => t = u
    BY DEF Sole, At
  <2>3. \A g \in Gen, t \in Task : ~(proc[g] # "down" /\ At(t, "launch"))
    BY DEF Sole, At
  <2>4. QED
    BY <2>1, <2>2, <2>3 DEF OneProcess
<1>4. QED
  BY <1>1, <1>2, <1>3, TypeCorrect, PTL DEF Spec

-----------------------------------------------------------------------------
(* Whose failure ends a process *)

Spares ==
  \A g \in Gen :
    proc[g] = "up" /\ proc'[g] = "down"
    => \/ faults' # faults
       \/ stopping' # stopping
       \/ \E t \in Task : task'[t] # task[t] /\ (task[t].gen = g \/ Unhealthy(t))

LEMMA DropSpares ==
  ASSUME TypeOK, NEW t \in Task, NEW s, Sane(s), Goes(t, s), s.at # task[t].at,
         Drop({task[t].gen})
  PROVE  Spares
<1>1. task'[t] # task[t]
  BY GoesSane
<1>2. \A g \in Gen : proc'[g] # proc[g] => task[t].gen = g
  BY DropTyped
<1>3. QED
  BY <1>1, <1>2 DEF Spares

\* A failure of one process, however late it is noticed, ends no later process; only
\* the supervisor's verdict does not look.
THEOREM FailureSpares == Spec => FailureSparesSuccessor
<1>1. TypeOK /\ [Next]_vars => [Spares]_vars
  <2> SUFFICES ASSUME TypeOK, Next PROVE Spares
    BY DEF Spares, vars
  <2>k. UNCHANGED proc => Spares
    BY DEF Spares
  <2>1. ASSUME NEW g \in Gen, Crash(g) \/ Hang(g) PROVE Spares
    <3>1. faults \in 0..MaxFaults
      BY DEF TypeOK
    <3>2. faults' # faults
      <4>1. faults' = faults + 1
        BY <2>1 DEF Crash, Hang, Fault
      <4>2. QED
        BY <3>1, <4>1
    <3>3. QED
      BY <3>2 DEF Spares
  <2>2. ASSUME NEW g \in Gen, Loop(g) PROVE Spares
    <3>1. CASE LoopDrains(g)
      BY <3>1, <2>k DEF LoopDrains
    <3>2. CASE LoopClears(g) /\ proc[g] = "down"
      BY <3>2, DropTyped DEF LoopClears, Spares
    <3>3. CASE LoopClears(g) /\ Fault
      <4>1. faults \in 0..MaxFaults /\ faults' = faults + 1
        BY <3>3 DEF TypeOK, Fault
      <4>2. faults' # faults
        BY <4>1
      <4>3. QED
        BY <4>2 DEF Spares
    <3>4. QED
      BY <2>2, <3>1, <3>2, <3>3 DEF Loop, LoopClears
  <2>3. ASSUME NEW t \in Task, NEW g \in Gen, Connect(t, g) PROVE Spares
    BY <2>3 DEF Connect, Spares, TypeOK
  <2>4. ASSUME NEW t \in Task, Rejected(t) PROVE Spares
    <3>1. task[t].at \in Engaged /\ task[t].at # "report"
      BY <2>4 DEF Rejected, At, Engaged
    <3>2. QED
      BY <2>4, <3>1, <2>k, DropSpares, ReportSane DEF Rejected, HandleRuntimeFailure
  <2>5. ASSUME NEW t \in Task, Disabled(t) PROVE Spares
    <3>1. task[t].at \in Engaged /\ task[t].at # "report"
      BY <2>5 DEF Disabled, At, Engaged
    <3>2. QED
      BY <2>5, <3>1, <2>k, DropSpares, ReportSane DEF Disabled, HandleRuntimeFailure
  <2>6. ASSUME NEW t \in Task, Timeout(t) PROVE Spares
    <3>1. task[t].at \in Engaged /\ task[t].at # "report"
      BY <2>6 DEF Timeout, At, Waiting, Engaged
    <3>2. QED
      BY <2>6, <3>1, <2>k, DropSpares, ReportSane DEF Timeout, HandleRuntimeFailure
  <2>7. ASSUME NEW t \in Task, SendFails(t) PROVE Spares
    <3>1. task[t].at \in Engaged /\ task[t].at # "report"
      BY <2>7 DEF SendFails, At, Engaged
    <3>2. QED
      BY <2>7, <3>1, <2>k, DropSpares, ReportSane DEF SendFails, HandleRuntimeFailure
  <2>8. ASSUME NEW t \in Task, Unhealthy(t) PROVE Spares
    <3>1. task[t].at = "asked" /\ task[t].at \in Engaged
      BY <2>8 DEF Unhealthy, At, Engaged
    <3>2. task'[t] # task[t]
      BY <2>8, <3>1, GoesSane, ReportSane DEF Unhealthy, HandleRuntimeFailure
    <3>3. QED
      BY <2>8, <3>2 DEF Spares
  <2>9. ASSUME NEW t \in Task,
               \/ Ensure(t) \/ Lock(t) \/ ConnectFails(t) \/ Greet(t) \/ Initialized(t)
               \/ Ready(t) \/ Send(t) \/ Lost(t) \/ Answered(t) \/ Answer(t) \/ Call(t)
               \/ Offer(t) \/ Garbled(t) \/ Report(t)
        PROVE  Spares
    BY <2>9, <2>k DEF Ensure, Lock, ConnectFails, Greet, Initialized, Ready, Send, Lost,
       Answered, Answer, Call, Offer, Garbled, Report
  <2>10. CASE Tick \/ StopTold \/ StopDone
    BY <2>10, <2>k DEF Tick, StopTold, StopDone
  <2>11. CASE StopTaken
    BY <2>11 DEF StopTaken, Spares
  <2>12. QED
    BY <2>1, <2>2, <2>3, <2>4, <2>5, <2>6, <2>7, <2>8, <2>9, <2>10, <2>11 DEF Next, Steps
<1>2. [Spares]_vars <=> [\A g \in Gen :
       proc[g] = "up" /\ proc'[g] = "down"
       => \/ faults' # faults
          \/ stopping' # stopping
          \/ \E t \in Task : task'[t] # task[t] /\ (task[t].gen = g \/ Unhealthy(t))]_vars
  BY DEF Spares
<1>3. QED
  BY <1>1, <1>2, TypeCorrect, PTL DEF Spec, FailureSparesSuccessor
=============================================================================
