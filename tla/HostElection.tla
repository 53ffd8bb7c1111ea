----------------------------- MODULE HostElection -----------------------------
(***************************************************************************)
(* Who hosts a model that is split over several nodes, and with whom        *)
(* (inference/election.rs): the pure part of the election.                  *)
(*                                                                         *)
(* A node n decides from v, what it knows of the other nodes assigned to    *)
(* the model.  Every one of them runs a version the election supports.      *)
(* Memory is counted in GB.                                                 *)
(***************************************************************************)
EXTENDS Integers, FiniteSets, FiniteSetsExt

CONSTANTS
  Node,   \* the nodes assigned to the model
  Rank,   \* [Node -> order of the endpoint ids]
  Fast,   \* [Node -> fast_memory_bytes]
  Ram,    \* [Node -> system_ram_bytes, 0 if unknown]
  Bytes   \* [Node -> total_model_bytes of its copy, 0 if it has none]

ASSUME ElectionAssumption ==
  /\ IsFiniteSet(Node) /\ Node # {}
  /\ Rank \in [Node -> Nat]
  /\ \A m, n \in Node : Rank[m] = Rank[n] => m = n
  /\ {Fast, Ram, Bytes} \subseteq [Node -> Nat]

Rtt == {"none", "near", "far"}     \* not measured, up to MAX_SPLIT_RTT_MS, beyond it
Role == {"worker", "host"}
Peer ==
  [role : Role, serving : BOOLEAN, hosted : BOOLEAN, ready : BOOLEAN,
   rtt : Rtt, seen : BOOLEAN, late : BOOLEAN]   \* late: seen for HOST_CLAIM_GRACE

Need(n) == (Bytes[n] * 11) \div 10

-----------------------------------------------------------------------------
(* The host *)

Outranks(m, o) == Fast[m] > Fast[o] \/ (Fast[m] = Fast[o] /\ Rank[m] > Rank[o])

\* A host claimed in vain counts no longer once its grace is over; a host that
\* cannot be dialed only within it.
Viable(v) ==
  {m \in DOMAIN v : ~v[m].late \/ (v[m].role = "host" /\ v[m].rtt # "none")}

\* fallback_host_candidates_after_grace: with nobody viable, all but the one
\* that has kept the others waiting.
Fallback(v) ==
  LET dialable == {m \in DOMAIN v : ~v[m].late \/ v[m].role # "host" \/ v[m].rtt # "none"}
      pool     == IF dialable = {} THEN DOMAIN v ELSE dialable
      stuck    == {m \in pool : v[m].late /\ v[m].role # "host" /\ ~v[m].hosted}
      peeled   == {m \in pool : m \notin stuck \/ \E o \in stuck : Outranks(o, m)}
  IN  IF Viable(v) # {} THEN Viable(v)
      ELSE IF peeled = {} THEN pool ELSE peeled

\* 3 GB for the activations, half of the local share for everything else.
PredictedHostRam(n, cohort) ==
  3 + (IF cohort = 0 THEN Bytes[n] ELSE Bytes[n] \div cohort) \div 2

RamCanHost(n, m, cohort) ==
  Ram[m] = 0 \/ 4 * PredictedHostRam(n, cohort) <= 3 * Ram[m]

RamFiltered(n, v, S) ==
  {m \in S : v[m].role = "host" \/ RamCanHost(n, m, Cardinality(S))}

CanSolo(n, m) == Fast[m] >= Need(n)

PreferSolo(n, S) ==
  LET capable == {m \in S : CanSolo(n, m)}
  IN  IF capable = {} THEN S ELSE capable

HostCandidates(n, v) == PreferSolo(n, RamFiltered(n, v, Fallback(v)))

ScoreTied(n, m, dialable) ==
  <<IF CanSolo(n, m) THEN 1 ELSE 0, IF dialable THEN 1 ELSE 0, Fast[m] \div 16>>

Score(n, m, dialable) ==
  <<IF CanSolo(n, m) THEN 1 ELSE 0, IF dialable THEN 1 ELSE 0, Fast[m], Ram[m], Rank[m]>>

Lower(s, t) == \E i \in DOMAIN s : s[i] < t[i] /\ \A j \in 1..(i - 1) : s[j] = t[j]

ShouldBeHostUnclaimed(n, v) ==
  \A m \in HostCandidates(n, v) :
    /\ v[m].role # "host"
    /\ ~Lower(Score(n, n, TRUE), Score(n, m, v[m].rtt # "none"))

\* should_be_host_for_model_with_solo_bias: no candidate scores higher.
ShouldBeHost(n, v) ==
  \A m \in HostCandidates(n, v) :
    ~Lower(Score(n, n, TRUE), Score(n, m, v[m].rtt # "none"))

RoutesIfServing(v) == \E m \in DOMAIN v : v[m].serving /\ v[m].rtt # "none"

\* A peer serves the model over HTTP and can be reached.
DialablePeerRoutes(v) ==
  \E m \in DOMAIN v : v[m].role = "host" /\ v[m].hosted /\ v[m].rtt # "none"

-----------------------------------------------------------------------------
(* The cohort *)

\* split_peer_vram_bytes: a peer that does not say counts as one's own size.
Capacity(n, m) == IF Fast[m] > 0 THEN Fast[m] ELSE Fast[n]
Total(n, S) == Fast[n] + MapThenSumSet(LAMBDA m : Capacity(n, m), S)

\* Workers are taken by round-trip time, an unknown one last, then by id.
Before(v, a, b) ==
  \/ v[a].rtt = "near" /\ v[b].rtt = "none"
  \/ v[a].rtt = v[b].rtt /\ Rank[a] < Rank[b]

Near(v) == {m \in DOMAIN v : v[m].rtt # "far"}
Eligible(v) == {m \in Near(v) : v[m].ready}

\* From S, in order, until kept and they hold the model.
Fill(n, v, kept, S) ==
  kept \cup {m \in S : Total(n, kept \cup {o \in S : Before(v, o, m)}) < Need(n)}

Waiting == [kind |-> "waiting", workers |-> {}]
Solo == [kind |-> "solo", workers |-> {}]
Split(S) == [kind |-> "split", workers |-> S]

\* build_dense_launch_plan
LaunchPlan(n, v) ==
  LET cohort == Fill(n, v, {}, Eligible(v))
  IN  IF Bytes[n] > 0 /\ CanSolo(n, n) THEN Solo
      ELSE IF Bytes[n] > 0 /\ Total(n, cohort) >= Need(n) THEN Split(cohort)
      ELSE Waiting

\* current_cohort_still_viable: how the workers are doing is not asked, only
\* whether they are still there.
CohortStillViable(n, v, running) ==
  running.workers \subseteq DOMAIN v /\ Total(n, running.workers) >= Need(n)
=============================================================================
