----------------------------- MODULE SharedConfig -----------------------------
(***************************************************************************)
(* What a node promises the nodes of its owner about its configuration, with *)
(* neither locks, files, sidecars, hashes nor streams: contents under a       *)
(* version, and to each subscriber a view of both.  A subscriber that was     *)
(* shown the contents in this run of the node replaces exactly those, or      *)
(* nothing.  What was written survives the node unless somebody drafts other   *)
(* contents by hand; its version may fall back.                             *)
(***************************************************************************)
EXTENDS Integers

CONSTANTS Wire, Subscriber

VARIABLES
  up,        \* the node runs
  contents,  \* what the node runs on, or would if it were started
  draft,     \* what it will load when it starts again
  version,
  view       \* [Subscriber -> revision, wire, and whether shown in this run]

vars == <<up, contents, draft, version, view>>

Init ==
  /\ up = TRUE
  /\ contents \in Wire
  /\ draft = contents
  /\ version = 0
  /\ \A s \in Subscriber : ~view[s].live

\* A subscriber is shown the present: never an older version than before.
Show(s) ==
  /\ up
  /\ view[s].live => view[s].revision <= version
  /\ view' = [view EXCEPT ![s] = [revision |-> version, wire |-> contents, live |-> TRUE]]
  /\ UNCHANGED <<up, contents, draft, version>>

\* A compare-and-swap on the contents, complete at once.
Replace(s, w) ==
  /\ up
  /\ view[s].live => view[s].revision = version /\ view[s].wire = contents
  /\ contents' = w
  /\ draft' = w
  /\ version' = version + 1
  /\ UNCHANGED <<up, view>>

\* The file is edited by hand: a node that runs does not notice.
Draft(w) ==
  /\ draft' = w
  /\ contents' = IF up THEN contents ELSE w
  /\ UNCHANGED <<up, version, view>>

Stop ==
  /\ up
  /\ up' = FALSE
  /\ contents' = draft
  /\ version' \in 0..version
  /\ view' = [s \in Subscriber |-> [view[s] EXCEPT !.live = FALSE]]
  /\ UNCHANGED draft

Start ==
  /\ ~up
  /\ up' = TRUE
  /\ UNCHANGED <<contents, draft, version, view>>

Next ==
  \/ \E s \in Subscriber : Show(s)
  \/ \E s \in Subscriber, w \in Wire : Replace(s, w)
  \/ \E w \in Wire : Draft(w)
  \/ Stop \/ Start

Spec == Init /\ [][Next]_vars
=============================================================================
