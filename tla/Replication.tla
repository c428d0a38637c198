---------------------------- MODULE Replication ----------------------------
(***************************************************************************)
(* The replication of the research headers: a pair of HotStandbyReplica    *)
(* (luv_raft_sync.hpp) over a network that loses, repeats and reorders     *)
(* entries, with a failover timer that may fire at any time; and one       *)
(* region's view of a MultiRegionRaftCluster                               *)
(* (luv_multiregion_raft_cluster.hpp), whose peers report what they have.  *)
(***************************************************************************)
EXTENDS Naturals, FiniteSets, SequencesExt

CONSTANTS
    Events,       \* what an entry says: insert, cancel, trade
    MaxTerm,      \* bound on the terms
    MaxIndex,     \* bound on the log
    Regions,      \* kMaxRegions regions, the local one first
    Local,        \* local_region_
    Majority,     \* how many regions a commit needs: 3 of 5
    RegionStamps  \* clock readings

ASSUME ReplicationAssumption ==
    /\ {MaxTerm, MaxIndex, Majority} \subseteq Nat
    /\ Local \in Regions /\ IsFiniteSet(Regions) /\ RegionStamps \subseteq Nat
    /\ Cardinality(Regions) = 2 * Majority - 1

VARIABLES
    replica,     \* the two HotStandbyReplicas
    wire,        \* entries ever sent; any may arrive at any time, or never
    region       \* the local region's members

pairVars == <<replica, wire>>
replicationVars == <<pairVars, region>>

Nodes == {"a", "b"}
Heartbeat == "heartbeat"

-----------------------------------------------------------------------------
(***************************************************************************)
(* HotStandbyReplica.  The commit index is the length of the log: a leader *)
(* commits what it appends without waiting for the follower.               *)
(***************************************************************************)
leader_append(n, event) ==
    LET r == replica[n]
        entry == [from |-> n, term |-> r.term, index |-> Len(r.log) + 1, event |-> event]
    IN  /\ r.role = "leader" /\ Len(r.log) < MaxIndex
        /\ replica' = [replica EXCEPT ![n].log = Append(@, entry)]
        /\ wire' = wire \cup {entry}
        /\ UNCHANGED region

\* What a node that takes an entry's term becomes.
Adopts(r, entry) ==
    IF entry.term > r.term THEN [r EXCEPT !.term = entry.term, !.role = "follower"] ELSE r

\* An entry of an old term is refused; one that is not the next is not applied.
follower_apply(n, entry) ==
    LET r == Adopts(replica[n], entry)
    IN  /\ entry.from # n
        /\ entry.term >= replica[n].term
        /\ replica' = [replica EXCEPT ![n] =
                IF entry.event # Heartbeat /\ entry.index = Len(r.log) + 1
                THEN [r EXCEPT !.log = Append(@, entry), !.applied = @ + 1] ELSE r]
        /\ UNCHANGED <<wire, region>>

\* Mutant: the term is kept.
PromotedInTerm(r) == [r EXCEPT !.role = "leader"]

Promoted(r) == [r EXCEPT !.role = "leader", !.term = @ + 1]

check_failover(n) ==
    /\ replica[n].role # "leader" /\ replica[n].term < MaxTerm
    /\ replica' = [replica EXCEPT ![n] = Promoted(@)]
    /\ UNCHANGED <<wire, region>>

PairNext ==
    \E n \in Nodes :
        \/ check_failover(n)
        \/ \E event \in Events \cup {Heartbeat} : leader_append(n, event)
        \/ \E entry \in wire : follower_apply(n, entry)

-----------------------------------------------------------------------------
(***************************************************************************)
(* MultiRegionRaftCluster.                                                 *)
(***************************************************************************)
AckedBy(acks, i) == Cardinality({r \in Regions : acks[r] >= i})

\* Mutant: one region fewer decides.
MinorityIndex(acks) ==
    CHOOSE i \in {acks[r] : r \in Regions} :
        AckedBy(acks, i) >= Majority - 1 /\ \A r \in Regions : AckedBy(acks, acks[r]) >= Majority - 1 => acks[r] <= i

\* The median of what the regions acknowledged, reachable or not.
MedianIndex(acks) ==
    CHOOSE i \in {acks[r] : r \in Regions} :
        AckedBy(acks, i) >= Majority /\ \A r \in Regions : AckedBy(acks, acks[r]) >= Majority => acks[r] <= i

update_global_commit_index(s) == [s EXCEPT !.global = MedianIndex(s.acked)]

\* A late heartbeat may carry an older index.
on_peer_heartbeat(from, index) ==
    /\ from # Local
    /\ region' = update_global_commit_index(
                    [region EXCEPT !.reachable = @ \cup {from}, !.acked[from] = index])
    /\ UNCHANGED pairVars

on_peer_timeout(from) ==
    /\ region' = [region EXCEPT !.reachable = @ \ {from}]
    /\ UNCHANGED pairVars

append_order_event(now) ==
    /\ Len(region.log) < MaxIndex
    /\ LET hlc == IF region.hlc + 1 > now THEN region.hlc + 1 ELSE now
           entry == [term |-> region.term, origin |-> Local, hlc |-> hlc]
       IN  region' = update_global_commit_index(
                        [region EXCEPT !.log = Append(@, entry), !.hlc = hlc,
                                       !.acked[Local] = Len(region.log) + 1])
    /\ UNCHANGED pairVars

\* The clock moves past the entry's even when the entry is not the next one.
replicate_from_remote(origin, term, index, stamp, now) ==
    LET latest == IF region.hlc > now THEN region.hlc ELSE now
        hlc == (IF latest > stamp THEN latest ELSE stamp) + 1
        s == [region EXCEPT !.hlc = hlc, !.term = term,
                            !.leader = IF term > region.term THEN origin ELSE @]
        entry == [term |-> term, origin |-> origin, hlc |-> stamp]
    IN  /\ origin # Local /\ term >= region.term
        /\ hlc <= 2 * MaxIndex
        /\ region' = IF index # Len(region.log) + 1 THEN s
                     ELSE update_global_commit_index(
                            [s EXCEPT !.log = Append(@, entry),
                                      !.acked[Local] = index, !.acked[origin] = index])
        /\ UNCHANGED pairVars

HasGlobalQuorum == Cardinality(region.reachable) >= Majority

RegionNext ==
    \/ \E from \in Regions, index \in 0 .. MaxIndex : on_peer_heartbeat(from, index)
    \/ \E from \in Regions : on_peer_timeout(from)
    \/ \E now \in RegionStamps :
        \/ append_order_event(now)
        \/ \E origin \in Regions, term \in 1 .. MaxTerm, index \in 1 .. MaxIndex, stamp \in RegionStamps :
            replicate_from_remote(origin, term, index, stamp, now)

ReplicationInit ==
    /\ replica = [n \in Nodes |-> [role |-> IF n = "a" THEN "leader" ELSE "follower",
                                   term |-> 1, log |-> <<>>, applied |-> 0]]
    /\ wire = {}
    /\ region = [acked |-> [r \in Regions |-> 0], reachable |-> Regions, global |-> 0,
                 log |-> <<>>, hlc |-> 0, term |-> 1, leader |-> Local]

-----------------------------------------------------------------------------
(***************************************************************************)
(* Properties.                                                             *)
(***************************************************************************)

\* However failovers and late entries cross, the pair never has two leaders in
\* one term, and two entries of the same term at the same place are the same
\* entry: the logs can part only where a new term began.
TermsAgree ==
    /\ replica["a"].role = "leader" /\ replica["b"].role = "leader" =>
        replica["a"].term # replica["b"].term
    /\ \A i \in 1 .. MaxIndex :
        LET A == replica["a"].log
            B == replica["b"].log
        IN  i <= Len(A) /\ i <= Len(B) /\ A[i].term = B[i].term => A[i] = B[i]

\* What the region reports as committed everywhere is held by a majority of the
\* regions, and no larger index is.
CommitHasMajority ==
    /\ AckedBy(region.acked, region.global) >= Majority
    /\ AckedBy(region.acked, region.global + 1) < Majority

\* The hybrid clock orders a region's log as it was written.
ClockOrdersLog ==
    \A i, j \in DOMAIN region.log :
        i < j /\ region.log[j].origin = Local => region.log[i].hlc < region.log[j].hlc

\* HotStandbyReplica and MultiRegionRaftCluster, over lost, repeated and reordered
\* entries and early failovers: terms have one leader and one history, a global
\* commit has a majority, and the clock follows the log.
ReplicationSound == TermsAgree /\ CommitHasMajority /\ ClockOrdersLog
=============================================================================
