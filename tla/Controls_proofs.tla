--------------------------- MODULE Controls_proofs ---------------------------
(***************************************************************************)
(* The controls that work on their own, for every value of their           *)
(* constants.  Only one of them moves in a behaviour of MCControls, so a   *)
(* step of it is a step of that control or leaves its state alone.         *)
(***************************************************************************)
EXTENDS MCControls, Induction, FiniteSetTheorems, SequenceTheorems, TLAPS

-----------------------------------------------------------------------------
(***************************************************************************)
(* The circuit breaker.                                                    *)
(***************************************************************************)
LEMMA BreakerSteps == [Next]_vars => [BreakerNext]_breakerVars
BY DEF vars, allVars, Next, Alone, Encodings, Tables, Limits, Trails_, Metrics, Conditional,
       Venues, Sessions, breakerVars

Setting ==
    [max_failures : Nat, cool_down : Nat, half_open : BOOLEAN, max_probes : Nat, needed : Nat,
     max_rejections : Nat, max_rate : Nat, window : Nat, max_loss : Nat]

BreakerState ==
    [state : {"closed", "open", "half_open"}, failures : Nat, rejections : Nat, probes : Nat,
     successes : Nat, tripped_at : Nat, window_start : Nat, window_count : Nat]

Trial == [since : Nat, stamped : BOOLEAN, admitted : Nat, good : Nat]

BreakerTypes ==
    setting \in Setting /\ breaker \in BreakerState /\ clock \in Nat /\ trial \in Trial

\* The history follows the breaker: the time of the trip is the one the
\* cool-down is measured from, and what the half-open state counts is what has
\* happened since it began.
BreakerInv ==
    /\ BreakerTypes
    /\ breaker.state = "open" /\ trial.stamped => trial.since = breaker.tripped_at
    /\ breaker.state = "half_open" =>
          trial.admitted <= breaker.probes /\ trial.good = breaker.successes

LEMMA BreakerStarts == BreakerInit => BreakerInv
<1> SUFFICES ASSUME BreakerInit PROVE BreakerInv
  OBVIOUS
<1>1. PICK c \in BreakerConfigs : setting = [c EXCEPT !.max_failures = AtLeastOne(@)]
  BY DEF BreakerInit
<1>2. c \in Setting
  BY BreakerAssumption DEF Setting
<1>3. AtLeastOne(c.max_failures) \in Nat
  BY <1>2 DEF AtLeastOne, Setting
<1>4. setting \in Setting
  BY <1>1, <1>2, <1>3 DEF Setting
<1> QED BY <1>4 DEF BreakerInit, BreakerInv, BreakerTypes, BreakerState, Trial

\* What a step that trips or leaves the state closed does, with the time ts.
Trips(b, ts) ==
    /\ b \in BreakerState
    /\ \/ b.state = "open" /\ b.tripped_at = ts
       \/ b.state = breaker.state /\ b.tripped_at = breaker.tripped_at
          /\ b.probes = breaker.probes /\ b.successes = breaker.successes

LEMMA TrippedTrips ==
    ASSUME NEW b \in BreakerState, NEW ts \in Nat
    PROVE  Trips(Tripped(b, ts), ts)
BY DEF Trips, Tripped, BreakerState

LEMMA FailedTrips ==
    ASSUME BreakerTypes, NEW b \in BreakerState, NEW ts \in Nat,
           b.state = breaker.state, b.tripped_at = breaker.tripped_at,
           b.probes = breaker.probes, b.successes = breaker.successes
    PROVE  Trips(Failed(b, ts), ts)
<1> DEFINE n == IF b.failures < setting.max_failures THEN b.failures + 1 ELSE b.failures
           counted == [b EXCEPT !.failures = IF @ < setting.max_failures THEN @ + 1 ELSE @]
<1>1. n \in Nat
  BY DEF BreakerState, BreakerTypes, Setting
<1>2. counted = [b EXCEPT !.failures = n]
  OBVIOUS
<1> HIDE DEF n
<1>3. /\ counted \in BreakerState /\ counted.state = b.state /\ counted.tripped_at = b.tripped_at
      /\ counted.probes = b.probes /\ counted.successes = b.successes
  BY <1>1, <1>2 DEF BreakerState
<1>4. Failed(b, ts) \in {Tripped(b, ts), Tripped(counted, ts), counted}
  BY DEF Failed
<1> HIDE DEF counted
<1>5. Trips(counted, ts)
  BY <1>3 DEF Trips
<1> QED BY <1>3, <1>4, <1>5, TrippedTrips

LEMMA RejectedTrips ==
    ASSUME BreakerTypes, NEW ts \in Nat
    PROVE  Trips(Rejected(breaker, ts), ts)
<1> DEFINE n == IF setting.max_rejections > 0 THEN breaker.rejections + 1 ELSE breaker.rejections
           counted == [breaker EXCEPT !.rejections = IF setting.max_rejections > 0 THEN @ + 1 ELSE @]
<1>1. n \in Nat
  BY DEF BreakerState, BreakerTypes
<1>2. counted = [breaker EXCEPT !.rejections = n]
  OBVIOUS
<1> HIDE DEF n
<1>3. /\ counted \in BreakerState /\ counted.state = breaker.state
      /\ counted.tripped_at = breaker.tripped_at
      /\ counted.probes = breaker.probes /\ counted.successes = breaker.successes
  BY <1>1, <1>2 DEF BreakerState, BreakerTypes
<1>4. Rejected(breaker, ts) \in {Tripped(counted, ts), Failed(counted, ts)}
  BY DEF Rejected
<1> HIDE DEF counted
<1> QED BY <1>3, <1>4, TrippedTrips, FailedTrips

\* The history of such a step keeps the invariant.
LEMMA TripsKeep ==
    ASSUME BreakerInv, NEW ts \in {0, clock}, Trips(breaker', ts), trial' = Watched(breaker', ts),
           UNCHANGED <<setting, clock>>
    PROVE  /\ BreakerInv'
           /\ breaker'.state # breaker.state => breaker'.state = "open"
           /\ trial'.admitted = trial.admitted
<1>1. /\ trial \in Trial /\ clock \in Nat /\ breaker \in BreakerState /\ breaker' \in BreakerState
  BY DEF BreakerInv, BreakerTypes, Trips
<1>2. CASE breaker'.state = "open" /\ <<breaker'.state, breaker'.tripped_at>> # <<breaker.state, breaker.tripped_at>>
  <2>1. trial' = [trial EXCEPT !.since = clock, !.stamped = (ts = clock)]
    BY <1>2 DEF Watched
  <2>2. /\ trial' \in Trial /\ trial'.since = clock /\ trial'.stamped = (ts = clock)
        /\ trial'.admitted = trial.admitted
    BY <1>1, <2>1 DEF Trial
  <2>3. breaker'.tripped_at = ts
    BY <1>2 DEF Trips
  <2> QED BY <1>1, <1>2, <2>2, <2>3 DEF BreakerInv, BreakerTypes
<1>3. CASE ~(breaker'.state = "open" /\ <<breaker'.state, breaker'.tripped_at>> # <<breaker.state, breaker.tripped_at>>)
  <2>1. trial' = trial
    BY <1>3 DEF Watched
  <2>2. breaker'.state = breaker.state /\ breaker'.tripped_at = breaker.tripped_at
    BY <1>3 DEF Trips
  <2>3. breaker.state # "open" => breaker'.probes = breaker.probes /\ breaker'.successes = breaker.successes
    BY <2>2 DEF Trips
  <2> QED BY <1>1, <2>1, <2>2, <2>3 DEF BreakerInv, BreakerTypes
<1> QED BY <1>2, <1>3

LEMMA ResetKeeps ==
    ASSUME NEW b \in BreakerState
    PROVE  Reset(b) \in BreakerState /\ Reset(b).state = "closed"
BY DEF Reset, BreakerState

\* What HalfOpenIsTrial says of a step.
StepIsTrial ==
    /\ breaker.state = "open" /\ breaker'.state # "open" /\ ~reset /\ trial.stamped =>
         clock - trial.since >= setting.cool_down
    /\ breaker'.state = "half_open" /\ trial'.admitted > trial.admitted =>
         trial'.admitted <= setting.max_probes
    /\ breaker.state = "half_open" /\ breaker'.state = "closed" /\ ~reset =>
         trial'.good >= setting.needed

LEMMA TripsTrial ==
    ASSUME BreakerInv, NEW ts \in {0, clock}, Trips(breaker', ts), trial' = Watched(breaker', ts),
           UNCHANGED <<setting, clock>>
    PROVE  BreakerInv' /\ StepIsTrial
<1>1. /\ BreakerInv'
      /\ breaker'.state # breaker.state => breaker'.state = "open"
      /\ trial'.admitted = trial.admitted
  BY TripsKeep
<1>2. trial'.admitted \in Nat
  BY <1>1 DEF BreakerInv, BreakerTypes, Trial
<1> QED BY <1>1, <1>2 DEF StepIsTrial

LEMMA SuccessTrial ==
    ASSUME BreakerInv, record_success
    PROVE  BreakerInv' /\ StepIsTrial
<1>1. /\ trial \in Trial /\ clock \in Nat /\ breaker \in BreakerState /\ setting \in Setting
      /\ breaker' = Succeeded(breaker) /\ setting' = setting /\ clock' = clock
  BY DEF BreakerInv, BreakerTypes, record_success
<1>2. CASE breaker.state = "half_open"
  <2>1. trial' = [trial EXCEPT !.good = @ + 1]
    BY <1>2 DEF record_success
  <2>2. /\ trial' \in Trial /\ trial'.good = trial.good + 1 /\ trial'.admitted = trial.admitted
    BY <1>1, <2>1 DEF Trial
  <2>3. CASE breaker.successes + 1 >= setting.needed
    <3>1. breaker' = Reset(breaker)
      BY <1>1, <1>2, <2>3 DEF Succeeded
    <3>2. breaker' \in BreakerState /\ breaker'.state = "closed"
      BY <1>1, <3>1, ResetKeeps
    <3> QED BY <1>1, <1>2, <2>2, <2>3, <3>2 DEF BreakerInv, BreakerTypes, StepIsTrial
  <2>4. CASE ~(breaker.successes + 1 >= setting.needed)
    <3>1. breaker' = [breaker EXCEPT !.successes = @ + 1]
      BY <1>1, <1>2, <2>4 DEF Succeeded
    <3>2. /\ breaker' \in BreakerState /\ breaker'.state = "half_open"
          /\ breaker'.probes = breaker.probes /\ breaker'.successes = breaker.successes + 1
      BY <1>1, <1>2, <3>1 DEF BreakerState
    <3>3. trial'.admitted \in Nat
      BY <2>2 DEF Trial
    <3> QED BY <1>1, <1>2, <2>2, <3>2, <3>3 DEF BreakerInv, BreakerTypes, StepIsTrial
  <2> QED BY <2>3, <2>4
<1>3. CASE breaker.state = "closed"
  <2>1. breaker' = [breaker EXCEPT !.failures = 0, !.rejections = 0] /\ trial' = trial
    BY <1>1, <1>3 DEF Succeeded, record_success
  <2>2. breaker' \in BreakerState /\ breaker'.state = "closed"
    <3>1. breaker \in BreakerState
      BY <1>1
    <3> QED BY ONLY <1>3, <2>1, <3>1 DEF BreakerState
  <2> QED BY <1>1, <1>3, <2>1, <2>2 DEF BreakerInv, BreakerTypes, StepIsTrial
<1>4. CASE breaker.state = "open"
  <2>1. breaker' = breaker /\ trial' = trial
    BY <1>1, <1>4 DEF Succeeded, record_success
  <2> QED BY <1>1, <1>4, <2>1 DEF BreakerInv, BreakerTypes, StepIsTrial
<1> QED BY <1>1, <1>2, <1>3, <1>4 DEF BreakerState

LEMMA ResetTrial ==
    ASSUME BreakerInv, reset
    PROVE  BreakerInv' /\ StepIsTrial
<1>1. breaker' = Reset(breaker) /\ UNCHANGED <<setting, clock, trial>>
  BY DEF reset
<1>2. breaker' \in BreakerState /\ breaker'.state = "closed"
  BY <1>1, ResetKeeps DEF BreakerInv, BreakerTypes
<1> QED BY <1>1, <1>2 DEF BreakerInv, BreakerTypes, StepIsTrial

LEMMA RatedTrips ==
    ASSUME BreakerTypes, breaker.state = "closed", NEW at \in Nat
    PROVE  Trips(Rated(breaker, at), at)
<1> DEFINE counted == [breaker EXCEPT !.window_count = @ + 1]
           fresh == [breaker EXCEPT !.window_start = at, !.window_count = 1]
<1>1. Trips(counted, at) /\ counted \in BreakerState
  BY DEF Trips, BreakerState, BreakerTypes
<1>2. Trips(fresh, at)
  BY DEF Trips, BreakerState, BreakerTypes
<1>3. Trips(breaker, at)
  BY DEF Trips, BreakerTypes
<1>4. Rated(breaker, at) \in {breaker, fresh, Tripped(counted, at), counted}
  BY DEF Rated
<1> HIDE DEF counted, fresh
<1> QED BY <1>1, <1>2, <1>3, <1>4, TrippedTrips

LEMMA AllowTrial ==
    ASSUME BreakerInv, NEW at \in {0, clock}, allow(at)
    PROVE  BreakerInv' /\ StepIsTrial
<1>1. /\ trial \in Trial /\ clock \in Nat /\ breaker \in BreakerState /\ setting \in Setting
      /\ breaker' = Asked(breaker, at) /\ setting' = setting /\ clock' = clock /\ at \in Nat
  BY DEF BreakerInv, BreakerTypes, allow
<1>2. CASE breaker.state = "closed"
  <2>1. breaker' = Rated(breaker, at)
    BY <1>1, <1>2 DEF Asked
  <2>2. trial' = Watched(breaker', at)
    BY <1>2 DEF allow, CooledDown
  <2>3. Trips(breaker', at)
    BY <1>1, <1>2, <2>1, RatedTrips DEF BreakerInv
  <2> QED BY <1>1, <2>2, <2>3, TripsTrial
<1>3. CASE breaker.state = "half_open"
  <2>1. Cooled(breaker, at) = breaker
    BY <1>3 DEF Cooled, CooledDown
  <2>2. breaker' = [breaker EXCEPT !.probes = @ + 1]
    BY <1>1, <1>3, <2>1 DEF Asked
  <2>3. /\ breaker' \in BreakerState /\ breaker'.state = "half_open"
        /\ breaker'.probes = breaker.probes + 1 /\ breaker'.successes = breaker.successes
    BY <1>1, <1>3, <2>2 DEF BreakerState
  <2>4. breaker.probes \in Nat /\ trial.admitted \in Nat /\ setting.max_probes \in Nat
    BY <1>1 DEF BreakerState, Trial, Setting
  <2>5. CASE Allows(breaker, at)
    <3>1. trial' = [trial EXCEPT !.admitted = @ + 1]
      BY <1>3, <2>5 DEF allow, CooledDown
    <3>2. trial' \in Trial /\ trial'.admitted = trial.admitted + 1 /\ trial'.good = trial.good
      BY <1>1, <3>1 DEF Trial
    <3>3. breaker.probes < setting.max_probes
      BY <1>3, <2>1, <2>5 DEF Allows
    <3> QED BY <1>1, <1>3, <2>3, <2>4, <3>2, <3>3 DEF BreakerInv, BreakerTypes, StepIsTrial
  <2>6. CASE ~Allows(breaker, at)
    <3>1. trial' = trial
      BY <1>3, <2>6 DEF allow, CooledDown
    <3> QED BY <1>1, <1>3, <2>3, <2>4, <3>1 DEF BreakerInv, BreakerTypes, StepIsTrial
  <2> QED BY <2>5, <2>6
<1>4. CASE breaker.state = "open" /\ ~CooledDown(breaker, at)
  <2>1. breaker' = breaker
    BY <1>1, <1>4 DEF Asked, Cooled
  <2>2. trial' = trial
    BY <1>4 DEF allow
  <2> QED BY <1>1, <1>4, <2>1, <2>2 DEF BreakerInv, BreakerTypes, StepIsTrial
<1>5. CASE breaker.state = "open" /\ CooledDown(breaker, at)
  <2>1. at = clock /\ clock - breaker.tripped_at >= setting.cool_down
    BY <1>1, <1>5 DEF CooledDown
  <2>2. trial.stamped => clock - trial.since >= setting.cool_down
    BY <1>5, <2>1 DEF BreakerInv
  <2>3. CASE setting.half_open
    <3>1. Cooled(breaker, at) = HalfOpened(breaker)
      BY <1>5, <2>3 DEF Cooled
    <3> DEFINE c == HalfOpened(breaker)
    <3>2. c \in BreakerState /\ c.state = "half_open" /\ c.probes = 0 /\ c.successes = 0
      BY <1>1 DEF HalfOpened, BreakerState
    <3>3. breaker' = [c EXCEPT !.probes = @ + 1]
      BY <1>1, <1>5, <3>1, <3>2 DEF Asked
    <3>4. Allows(breaker, at) => 0 < setting.max_probes
      BY <1>5, <3>1, <3>2 DEF Allows
    <3> DEFINE n == IF Allows(breaker, at) THEN 1 ELSE 0
    <3>5. trial' = [trial EXCEPT !.admitted = n, !.good = 0]
      BY <1>5, <2>3 DEF allow
    <3> HIDE DEF c
    <3>6. n \in Nat /\ n <= 1 /\ (n > 0 => n <= setting.max_probes)
      BY <1>1, <3>4 DEF Setting
    <3> HIDE DEF n
    <3>7. /\ breaker' \in BreakerState /\ breaker'.state = "half_open"
          /\ breaker'.probes = 1 /\ breaker'.successes = 0
      BY ONLY <3>2, <3>3 DEF BreakerState
    <3>8. trial' \in Trial /\ trial'.admitted = n /\ trial'.good = 0
      BY ONLY <1>1, <3>5, <3>6 DEF Trial
    <3>9. trial.admitted \in Nat
      BY <1>1 DEF Trial
    <3> QED BY <1>1, <1>5, <2>2, <3>6, <3>7, <3>8, <3>9 DEF BreakerInv, BreakerTypes, StepIsTrial
  <2>4. CASE ~setting.half_open
    <3>1. breaker' = Reset(breaker)
      BY <1>1, <1>5, <2>4, ResetKeeps DEF Asked, Cooled
    <3>2. breaker' \in BreakerState /\ breaker'.state = "closed"
      BY <1>1, <3>1, ResetKeeps
    <3>3. trial' = trial
      BY <1>5, <2>4 DEF allow
    <3> QED BY <1>1, <1>5, <2>2, <3>2, <3>3 DEF BreakerInv, BreakerTypes, StepIsTrial
  <2> QED BY <2>3, <2>4
<1> QED BY <1>1, <1>2, <1>3, <1>4, <1>5 DEF BreakerState

LEMMA ConfigureTrial ==
    ASSUME BreakerInv, NEW c \in BreakerConfigs, configure(c)
    PROVE  BreakerInv' /\ StepIsTrial
<1>1. c \in Setting /\ setting \in Setting
  BY BreakerAssumption DEF Setting, BreakerInv, BreakerTypes
<1>2. AtLeastOne(c.max_probes) \in Nat /\ AtLeastOne(c.needed) \in Nat
  BY <1>1 DEF AtLeastOne, Setting
<1>3. setting' \in Setting
  BY <1>1, <1>2 DEF configure, set_half_open_params, Setting
<1>4. UNCHANGED <<breaker, clock, trial>>
  BY DEF configure
<1>5. breaker \in BreakerState /\ trial \in Trial
  BY DEF BreakerInv, BreakerTypes
<1>6. trial.admitted \in Nat
  BY <1>5 DEF Trial
<1> QED BY <1>3, <1>4, <1>5, <1>6 DEF BreakerInv, BreakerTypes, StepIsTrial

LEMMA BreakerStepTrial ==
    ASSUME BreakerInv, [BreakerNext]_breakerVars
    PROVE  BreakerInv' /\ (StepIsTrial \/ UNCHANGED breakerVars)
<1>0. BreakerTypes /\ breaker \in BreakerState /\ clock \in Nat /\ trial \in Trial
  BY DEF BreakerInv, BreakerTypes
<1>1. CASE Tick
  <2>1. clock' \in Nat /\ UNCHANGED <<breaker, setting, trial>>
    BY <1>0, <1>1 DEF Tick
  <2>2. trial.admitted \in Nat
    BY <1>0 DEF Trial
  <2> QED BY <2>1, <2>2 DEF BreakerInv, BreakerTypes, StepIsTrial
<1>2. CASE reset
  BY <1>2, ResetTrial
<1>3. CASE record_success
  BY <1>3, SuccessTrial
<1>4. ASSUME NEW c \in BreakerConfigs, configure(c) PROVE BreakerInv' /\ StepIsTrial
  BY <1>4, ConfigureTrial
<1>5. ASSUME NEW ts \in {0, clock},
             record_failure(ts) \/ record_rejection(ts) \/ trip(ts)
               \/ \E loss \in BreakerLosses : check_loss_limit(loss, ts)
      PROVE  BreakerInv' /\ StepIsTrial
  <2>0. ts \in Nat
    BY <1>0
  <2>1. /\ breaker' \in {Failed(breaker, ts), Rejected(breaker, ts), Tripped(breaker, ts)}
        /\ trial' = Watched(breaker', ts) /\ UNCHANGED <<setting, clock>>
    BY <1>5 DEF record_failure, record_rejection, trip, check_loss_limit
  <2>2. Trips(breaker', ts)
    BY <1>0, <2>0, <2>1, FailedTrips, RejectedTrips, TrippedTrips
  <2> QED BY <2>1, <2>2, TripsTrial
<1>6. ASSUME NEW ts \in {0, clock}, allow(ts) PROVE BreakerInv' /\ StepIsTrial
  BY <1>6, AllowTrial
<1>7. CASE UNCHANGED breakerVars
  BY <1>7 DEF breakerVars, BreakerInv, BreakerTypes
<1> QED BY <1>1, <1>2, <1>3, <1>4, <1>5, <1>6, <1>7 DEF BreakerNext

\* CircuitBreaker: whatever the settings and however late reports, probes and
\* the counters of earlier trials meet, a tripped breaker lets trading back in
\* only after its cool-down, admits no more probes than allowed in a trial and
\* closes only after the successes the settings ask for.
THEOREM BreakerReopensByTrial == Spec => HalfOpenIsTrial
<1>1. Init => BreakerInv
  BY BreakerStarts DEF Init
<1>2. BreakerInv /\ [Next]_vars => BreakerInv'
  BY BreakerSteps, BreakerStepTrial
<1>3. BreakerInv /\ [Next]_vars => [StepIsTrial]_breakerVars
  BY BreakerSteps, BreakerStepTrial
<1>4. Spec => []BreakerInv
  BY <1>1, <1>2, PTL DEF Spec
<1>5. Spec => [][StepIsTrial]_breakerVars
  BY <1>3, <1>4, PTL DEF Spec
<1> QED BY <1>5 DEF HalfOpenIsTrial, StepIsTrial

-----------------------------------------------------------------------------
(***************************************************************************)
(* The standby pair.  A term has one leader: a node is promoted only when  *)
(* it follows the other, whose term it shares, so the term it takes is     *)
(* new.                                                                    *)
(***************************************************************************)
LEMMA PairSteps == [Next]_vars => [PairNext \/ RegionNext]_replicationVars
BY DEF vars, allVars, Next, Alone, Encodings, Tables, Limits, Trails_, Metrics, Conditional,
       Venues, Sessions, replicationVars

PairEntry == [from : Nodes, term : Nat, index : Nat, event : Events \cup {Heartbeat}]

Replica == [role : {"leader", "follower"}, term : Nat, log : Seq(PairEntry), applied : Nat]

Other(n) == IF n = "a" THEN "b" ELSE "a"

PairTypes == replica \in [Nodes -> Replica] /\ wire \subseteq PairEntry

Leads(n) == replica[n].role = "leader"

\* A node that does not lead follows the leader of its term.
OneLeads ==
    \A n \in Nodes :
        /\ ~Leads(n) => Leads(Other(n)) /\ replica[n].term = replica[Other(n)].term
        /\ Leads(n) /\ Leads(Other(n)) => replica[n].term # replica[Other(n)].term

\* What is on the way was written by the leader of its term.
SentByLeader ==
    \A e \in wire :
        /\ e.term <= replica[e.from].term
        /\ e.term > replica[Other(e.from)].term => e.term = replica[e.from].term
        /\ Leads(Other(e.from)) => e.term # replica[Other(e.from)].term
        /\ e.index <= Len(replica[e.from].log)

SentOnce == \A e, f \in wire : e.term = f.term /\ e.index = f.index => e = f

\* Whatever is in a log was sent for that place.
LogsSent ==
    \A n \in Nodes : \A i \in 1 .. Len(replica[n].log) :
        replica[n].log[i] \in wire /\ replica[n].log[i].index = i

PairInv == PairTypes /\ OneLeads /\ SentByLeader /\ SentOnce /\ LogsSent

LEMMA PairStarts == ReplicationInit => PairInv
<1> SUFFICES ASSUME ReplicationInit PROVE PairInv
  OBVIOUS
<1>1. /\ replica = [n \in Nodes |-> [role |-> IF n = "a" THEN "leader" ELSE "follower",
                                     term |-> 1, log |-> <<>>, applied |-> 0]]
      /\ wire = {}
  BY DEF ReplicationInit
<1>2. \A n \in Nodes : replica[n] \in Replica /\ Len(replica[n].log) = 0
  BY <1>1 DEF Replica
<1>3. PairTypes
  BY <1>1, <1>2 DEF PairTypes
<1>4. OneLeads
  BY <1>1 DEF OneLeads, Leads, Other, Nodes
<1> QED BY <1>1, <1>2, <1>3, <1>4 DEF PairInv, SentByLeader, SentOnce, LogsSent

LEMMA PairOther ==
    ASSUME NEW n \in Nodes
    PROVE  /\ Other(n) \in Nodes /\ Other(n) # n /\ Other(Other(n)) = n
           /\ \A m \in Nodes : m # n => m = Other(n)
BY DEF Other, Nodes

LEMMA PromotedIs ==
    ASSUME NEW x \in Replica, NEW q, q = Promoted(x)
    PROVE  q \in Replica /\ q.role = "leader" /\ q.term = x.term + 1 /\ q.log = x.log
<1> DEFINE t == x.term + 1
<1>1. t \in Nat
  BY DEF Replica
<1>2. q = [x EXCEPT !.role = "leader", !.term = t]
  BY DEF Promoted
<1> HIDE DEF t
<1>3. q \in Replica /\ q.role = "leader" /\ q.term = t /\ q.log = x.log
  BY <1>1, <1>2 DEF Replica
<1> QED BY <1>3 DEF t

LEMMA FailoverKeeps ==
    ASSUME PairInv, NEW n \in Nodes, check_failover(n)
    PROVE  PairInv'
<1> DEFINE m == Other(n)
<1>0. m \in Nodes /\ m # n /\ Other(m) = n /\ \A x \in Nodes : x # n => x = m
  BY PairOther
<1>1. /\ replica[n] \in Replica /\ replica[m] \in Replica /\ ~Leads(n)
      /\ replica' = [replica EXCEPT ![n] = Promoted(replica[n])] /\ wire' = wire
  BY <1>0 DEF PairInv, PairTypes, check_failover, Leads
<1> DEFINE r == Promoted(replica[n])
<1>2. /\ r \in Replica /\ r.role = "leader" /\ r.term = replica[n].term + 1
      /\ r.log = replica[n].log
  BY <1>1, PromotedIs
<1>3. replica'[n] = r /\ replica'[m] = replica[m] /\ replica' \in [Nodes -> Replica]
  BY <1>0, <1>1, <1>2 DEF PairInv, PairTypes
<1> HIDE DEF r, m
<1>4. Leads(m) /\ replica[n].term = replica[m].term
  BY <1>1 DEF PairInv, OneLeads, m
<1>5. replica[n].term \in Nat /\ replica[m].term \in Nat
  BY <1>1 DEF Replica
<1>6. PairTypes'
  BY <1>1, <1>3 DEF PairInv, PairTypes
<1>7. OneLeads'
  <2>1. Leads(n)' /\ Leads(m)' /\ replica'[n].term # replica'[m].term
    BY <1>2, <1>3, <1>4, <1>5 DEF Leads
  <2> QED BY <1>0, <2>1 DEF OneLeads, m
<1>8. SentByLeader'
  <2> SUFFICES ASSUME NEW e \in wire
               PROVE  /\ e.term <= replica'[e.from].term
                      /\ e.term > replica'[Other(e.from)].term => e.term = replica'[e.from].term
                      /\ Leads(Other(e.from))' => e.term # replica'[Other(e.from)].term
                      /\ e.index <= Len(replica'[e.from].log)
    BY <1>1 DEF SentByLeader, Leads
  <2>1. e \in PairEntry /\ e.from \in Nodes /\ e.term \in Nat
    BY DEF PairInv, PairTypes, PairEntry
  <2>2. /\ e.term <= replica[e.from].term
        /\ e.term > replica[Other(e.from)].term => e.term = replica[e.from].term
        /\ Leads(Other(e.from)) => e.term # replica[Other(e.from)].term
        /\ e.index <= Len(replica[e.from].log)
    BY DEF PairInv, SentByLeader
  <2>3. CASE e.from = n
    BY <1>2, <1>3, <1>4, <1>5, <2>1, <2>2, <2>3 DEF m
  <2>4. CASE e.from = m
    BY <1>0, <1>2, <1>3, <1>4, <1>5, <2>1, <2>2, <2>4
  <2> QED BY <1>0, <2>1, <2>3, <2>4
<1>9. LogsSent'
  BY <1>0, <1>1, <1>2, <1>3 DEF PairInv, LogsSent
<1> QED BY <1>1, <1>6, <1>7, <1>8, <1>9 DEF PairInv, SentOnce

LEMMA AppendKeeps ==
    ASSUME PairInv, NEW n \in Nodes, NEW event \in Events \cup {Heartbeat}, leader_append(n, event)
    PROVE  PairInv'
<1> DEFINE m == Other(n)
           had == replica[n].log
           entry == [from |-> n, term |-> replica[n].term, index |-> Len(had) + 1, event |-> event]
           r == [replica[n] EXCEPT !.log = Append(@, entry)]
<1>0. m \in Nodes /\ m # n /\ Other(m) = n /\ \A x \in Nodes : x # n => x = m
  BY PairOther
<1>1. /\ replica[n] \in Replica /\ replica[m] \in Replica /\ Leads(n)
      /\ replica' = [replica EXCEPT ![n] = r] /\ wire' = wire \cup {entry}
  BY <1>0 DEF PairInv, PairTypes, leader_append, Leads
<1>2. had \in Seq(PairEntry) /\ Len(had) \in Nat /\ replica[n].term \in Nat /\ replica[m].term \in Nat
  BY <1>1 DEF Replica
<1>3. /\ entry \in PairEntry /\ entry.from = n /\ entry.term = replica[n].term
      /\ entry.index = Len(had) + 1
  BY <1>2 DEF PairEntry
<1>4. r = [replica[n] EXCEPT !.log = Append(had, entry)]
  OBVIOUS
<1> HIDE DEF entry, had, r, m
<1>5. /\ Append(had, entry) \in Seq(PairEntry) /\ Len(Append(had, entry)) = Len(had) + 1
      /\ \A i \in 1 .. Len(had) : Append(had, entry)[i] = had[i]
      /\ Append(had, entry)[Len(had) + 1] = entry
  BY <1>2, <1>3, AppendProperties
<1>6. /\ r \in Replica /\ r.role = replica[n].role /\ r.term = replica[n].term
      /\ r.log = Append(had, entry)
  BY <1>1, <1>4, <1>5 DEF Replica
<1>7. replica'[n] = r /\ replica'[m] = replica[m] /\ replica' \in [Nodes -> Replica]
  BY <1>0, <1>1, <1>6 DEF PairInv, PairTypes
<1>8. PairTypes'
  BY <1>1, <1>3, <1>7 DEF PairInv, PairTypes
<1>9. \A x \in Nodes : replica'[x].term = replica[x].term /\ (Leads(x)' <=> Leads(x))
  BY <1>0, <1>6, <1>7 DEF Leads
<1>10. OneLeads'
  BY <1>9, PairOther DEF PairInv, OneLeads
<1>11. \A e \in wire : e \in PairEntry /\ e.from \in Nodes /\ e.term \in Nat /\ e.index \in Nat
  BY DEF PairInv, PairTypes, PairEntry
<1>12. Len(r.log) = Len(had) + 1 /\ replica[n].log = had
  BY <1>5, <1>6 DEF had
<1>13. SentByLeader'
  <2> SUFFICES ASSUME NEW e \in wire'
               PROVE  /\ e.term <= replica'[e.from].term
                      /\ e.term > replica'[Other(e.from)].term => e.term = replica'[e.from].term
                      /\ Leads(Other(e.from))' => e.term # replica'[Other(e.from)].term
                      /\ e.index <= Len(replica'[e.from].log)
    BY DEF SentByLeader, Leads
  <2>1. CASE e = entry
    <3>1. e.from = n /\ Other(e.from) = m
      BY <1>3, <2>1 DEF m
    <3>2. Leads(m) => replica[n].term # replica[m].term
      BY <1>1 DEF PairInv, OneLeads, m
    <3> QED BY <1>0, <1>1, <1>2, <1>3, <1>7, <1>9, <1>12, <2>1, <3>1, <3>2
  <2>2. CASE e \in wire
    <3>1. /\ e.term <= replica[e.from].term
          /\ e.term > replica[Other(e.from)].term => e.term = replica[e.from].term
          /\ Leads(Other(e.from)) => e.term # replica[Other(e.from)].term
          /\ e.index <= Len(replica[e.from].log)
      BY <2>2 DEF PairInv, SentByLeader
    <3>2. e.from \in Nodes /\ Other(e.from) \in Nodes /\ e.index \in Nat
      BY <1>11, <2>2, PairOther
    <3>3. e.index <= Len(replica'[e.from].log)
      BY <1>0, <1>2, <1>7, <1>12, <3>1, <3>2
    <3> QED BY <1>9, <3>1, <3>2, <3>3
  <2> QED BY <1>1, <2>1, <2>2
<1>14. SentOnce'
  <2>1. ASSUME NEW e \in wire, e.term = entry.term, e.index = entry.index PROVE FALSE
    <3>1. e.from \in Nodes /\ e.index \in Nat
      BY <1>11
    <3>2. e.from = n
      BY <1>0, <1>1, <1>3, <2>1, <3>1 DEF PairInv, SentByLeader
    <3>3. e.index <= Len(had)
      BY <1>12, <3>2 DEF PairInv, SentByLeader
    <3> QED BY <1>2, <1>3, <2>1, <3>1, <3>3
  <2>2. \A e, f \in wire : e.term = f.term /\ e.index = f.index => e = f
    BY DEF PairInv, SentOnce
  <2> QED BY <1>1, <2>1, <2>2 DEF SentOnce
<1>15. LogsSent'
  <2>1. \A i \in 1 .. Len(replica'[m].log) : replica'[m].log[i] \in wire' /\ replica'[m].log[i].index = i
    BY <1>0, <1>1, <1>7 DEF PairInv, LogsSent
  <2>2. ASSUME NEW i \in 1 .. Len(replica'[n].log)
        PROVE  replica'[n].log[i] \in wire' /\ replica'[n].log[i].index = i
    <3>1. CASE i = Len(had) + 1
      BY <1>1, <1>3, <1>5, <1>6, <1>7, <3>1
    <3>2. CASE i \in 1 .. Len(had)
      <4>1. had[i] \in wire /\ had[i].index = i
        BY <1>12, <3>2 DEF PairInv, LogsSent
      <4> QED BY <1>1, <1>5, <1>6, <1>7, <3>2, <4>1
    <3> QED BY <1>2, <1>7, <1>12, <3>1, <3>2
  <2> QED BY <1>0, <2>1, <2>2 DEF LogsSent
<1> QED BY <1>8, <1>10, <1>13, <1>14, <1>15 DEF PairInv

\* The follower's record: its term, and perhaps one entry more.
LEMMA AppliedIs ==
    ASSUME NEW x \in Replica, NEW e \in PairEntry, e.term >= x.term, NEW q,
           q = IF e.event # Heartbeat /\ e.index = Len(Adopts(x, e).log) + 1
               THEN [Adopts(x, e) EXCEPT !.log = Append(@, e), !.applied = @ + 1] ELSE Adopts(x, e)
    PROVE  /\ q \in Replica /\ q.term = e.term
           /\ q.role = IF e.term > x.term THEN "follower" ELSE x.role
           /\ q.log = x.log \/ (q.log = Append(x.log, e) /\ e.index = Len(x.log) + 1)
<1> DEFINE y == Adopts(x, e)
<1>0. e.term \in Nat /\ x.term \in Nat /\ x.log \in Seq(PairEntry)
  BY DEF PairEntry, Replica
<1>1. /\ y \in Replica /\ y.term = e.term /\ y.log = x.log
      /\ y.role = IF e.term > x.term THEN "follower" ELSE x.role
  <2>1. CASE e.term > x.term
    <3>1. y = [x EXCEPT !.term = e.term, !.role = "follower"]
      BY <2>1 DEF Adopts
    <3> HIDE DEF y
    <3> QED BY <1>0, <2>1, <3>1 DEF Replica
  <2>2. CASE e.term = x.term
    BY <1>0, <2>2 DEF Adopts
  <2> QED BY <1>0, <2>1, <2>2
<1>2. q = IF e.event # Heartbeat /\ e.index = Len(y.log) + 1
          THEN [y EXCEPT !.log = Append(@, e), !.applied = @ + 1] ELSE y
  OBVIOUS
<1> HIDE DEF y
<1>3. CASE e.event # Heartbeat /\ e.index = Len(y.log) + 1
  <2> DEFINE l == Append(y.log, e)
             a == y.applied + 1
  <2>1. l \in Seq(PairEntry) /\ a \in Nat
    BY <1>0, <1>1, AppendProperties DEF Replica
  <2>2. q = [y EXCEPT !.log = l, !.applied = a]
    BY <1>2, <1>3
  <2>3. l = Append(x.log, e)
    BY <1>1
  <2> HIDE DEF l, a
  <2>4. q \in Replica /\ q.term = y.term /\ q.role = y.role /\ q.log = l
    BY <1>1, <2>1, <2>2 DEF Replica
  <2> QED BY <1>1, <1>3, <2>3, <2>4
<1>4. CASE ~(e.event # Heartbeat /\ e.index = Len(y.log) + 1)
  BY <1>1, <1>2, <1>4
<1> QED BY <1>3, <1>4

LEMMA ApplyKeeps ==
    ASSUME PairInv, NEW n \in Nodes, NEW entry \in wire, follower_apply(n, entry)
    PROVE  PairInv'
<1> DEFINE m == Other(n)
           q == replica'[n]
           had == replica[n].log
<1>0. m \in Nodes /\ m # n /\ Other(m) = n /\ \A x \in Nodes : x # n => x = m
  BY PairOther
<1>1. /\ replica[n] \in Replica /\ replica[m] \in Replica /\ wire' = wire
      /\ \A e \in wire : e \in PairEntry /\ e.from \in Nodes /\ e.term \in Nat /\ e.index \in Nat
      /\ entry.from = m /\ entry.term >= replica[n].term
  BY <1>0 DEF PairInv, PairTypes, PairEntry, follower_apply
<1>2. /\ q = IF entry.event # Heartbeat /\ entry.index = Len(Adopts(replica[n], entry).log) + 1
             THEN [Adopts(replica[n], entry) EXCEPT !.log = Append(@, entry), !.applied = @ + 1]
             ELSE Adopts(replica[n], entry)
      /\ replica' = [replica EXCEPT ![n] = q]
  BY DEF PairInv, PairTypes, follower_apply
<1> HIDE DEF q, m, had
<1>3. /\ q \in Replica /\ q.term = entry.term
      /\ q.role = IF entry.term > replica[n].term THEN "follower" ELSE replica[n].role
      /\ q.log = had \/ (q.log = Append(had, entry) /\ entry.index = Len(had) + 1)
  <2> DEFINE x == replica[n]
  <2>1. x \in Replica /\ entry \in PairEntry /\ entry.term >= x.term
    BY <1>1
  <2>2. q = IF entry.event # Heartbeat /\ entry.index = Len(Adopts(x, entry).log) + 1
            THEN [Adopts(x, entry) EXCEPT !.log = Append(@, entry), !.applied = @ + 1]
            ELSE Adopts(x, entry)
    BY <1>2
  <2> HIDE DEF x
  <2>3. /\ q \in Replica /\ q.term = entry.term
        /\ q.role = IF entry.term > x.term THEN "follower" ELSE x.role
        /\ q.log = x.log \/ (q.log = Append(x.log, entry) /\ entry.index = Len(x.log) + 1)
    BY ONLY <2>1, <2>2, AppliedIs
  <2> QED BY <2>3 DEF x, had
<1>4. replica'[n] = q /\ replica'[m] = replica[m] /\ replica' \in [Nodes -> Replica]
  BY <1>0, <1>2, <1>3 DEF PairInv, PairTypes
<1>5. /\ replica[n].term \in Nat /\ replica[m].term \in Nat /\ had \in Seq(PairEntry) /\ Len(had) \in Nat
      /\ entry.term \in Nat
  BY <1>1 DEF Replica, had
<1>6. /\ entry.term <= replica[m].term
      /\ entry.term > replica[n].term => entry.term = replica[m].term
  BY <1>0, <1>1 DEF PairInv, SentByLeader
<1>7. entry.term > replica[n].term => Leads(m)
  BY <1>0, <1>5, <1>6 DEF PairInv, OneLeads
<1>8. /\ Leads(m)' <=> Leads(m)
      /\ entry.term = replica[n].term => (Leads(n)' <=> Leads(n))
      /\ entry.term > replica[n].term => ~Leads(n)'
  BY <1>3, <1>4, <1>5 DEF Leads
<1>9. PairTypes'
  BY <1>1, <1>4 DEF PairInv, PairTypes
<1>10. OneLeads'
  <2>1. /\ ~Leads(n)' => Leads(m)' /\ replica'[n].term = replica'[m].term
        /\ ~Leads(m)' => Leads(n)' /\ replica'[n].term = replica'[m].term
        /\ Leads(n)' /\ Leads(m)' => replica'[n].term # replica'[m].term
    <3>1. /\ ~Leads(n) => Leads(m) /\ replica[n].term = replica[m].term
          /\ ~Leads(m) => Leads(n) /\ replica[n].term = replica[m].term
          /\ Leads(n) /\ Leads(m) => replica[n].term # replica[m].term
      BY <1>0 DEF PairInv, OneLeads, m
    <3>2. CASE entry.term > replica[n].term
      BY <1>3, <1>4, <1>6, <1>7, <1>8, <3>2
    <3>3. CASE entry.term = replica[n].term
      BY <1>3, <1>4, <1>8, <3>1, <3>3
    <3> QED BY <1>1, <1>5, <3>2, <3>3
  <2> QED BY <1>0, <2>1 DEF OneLeads, m
<1>11. Len(q.log) >= Len(had) /\ Len(q.log) \in Nat
  BY <1>1, <1>3, <1>5, AppendProperties
<1>12. SentByLeader'
  <2> SUFFICES ASSUME NEW e \in wire
               PROVE  /\ e.term <= replica'[e.from].term
                      /\ e.term > replica'[Other(e.from)].term => e.term = replica'[e.from].term
                      /\ Leads(Other(e.from))' => e.term # replica'[Other(e.from)].term
                      /\ e.index <= Len(replica'[e.from].log)
    BY <1>1 DEF SentByLeader, Leads
  <2>1. /\ e.term <= replica[e.from].term
        /\ e.term > replica[Other(e.from)].term => e.term = replica[e.from].term
        /\ Leads(Other(e.from)) => e.term # replica[Other(e.from)].term
        /\ e.index <= Len(replica[e.from].log)
    BY DEF PairInv, SentByLeader
  <2>2. e.from \in Nodes /\ e.term \in Nat /\ e.index \in Nat
    BY <1>1
  <2>3. CASE e.from = n
    <3>1. Other(e.from) = m
      BY <2>3 DEF m
    <3>2. e.index <= Len(q.log)
      BY <1>5, <1>11, <2>1, <2>2, <2>3 DEF had
    <3> QED BY <1>1, <1>3, <1>4, <1>5, <1>6, <1>8, <2>1, <2>2, <2>3, <3>1, <3>2
  <2>4. CASE e.from = m
    <3>1. Other(e.from) = n
      BY <1>0, <2>4
    <3>2. CASE entry.term > replica[n].term
      BY <1>3, <1>4, <1>5, <1>6, <1>8, <2>1, <2>2, <2>4, <3>1, <3>2
    <3>3. CASE entry.term = replica[n].term
      BY <1>3, <1>4, <1>8, <2>1, <2>4, <3>1, <3>3
    <3> QED BY <1>1, <1>5, <3>2, <3>3
  <2> QED BY <1>0, <2>2, <2>3, <2>4
<1>13. LogsSent'
  <2>1. \A i \in 1 .. Len(replica'[m].log) : replica'[m].log[i] \in wire' /\ replica'[m].log[i].index = i
    BY <1>0, <1>1, <1>4 DEF PairInv, LogsSent
  <2>2. \A i \in 1 .. Len(had) : had[i] \in wire /\ had[i].index = i
    BY DEF PairInv, LogsSent, had
  <2>3. \A i \in 1 .. Len(q.log) : q.log[i] \in wire /\ q.log[i].index = i
    <3>1. CASE q.log = had
      BY <2>2, <3>1
    <3>2. CASE q.log = Append(had, entry) /\ entry.index = Len(had) + 1
      <4>1. /\ Len(q.log) = Len(had) + 1 /\ q.log[Len(had) + 1] = entry
            /\ \A i \in 1 .. Len(had) : q.log[i] = had[i]
        BY <1>1, <1>5, <3>2, AppendProperties
      <4> QED BY <1>5, <2>2, <3>2, <4>1
    <3> QED BY <1>3, <3>1, <3>2
  <2> QED BY <1>0, <1>1, <1>4, <2>1, <2>3 DEF LogsSent
<1> QED BY <1>1, <1>9, <1>10, <1>12, <1>13 DEF PairInv, SentOnce

LEMMA PairAgrees == PairInv => TermsAgree
<1> SUFFICES ASSUME PairInv PROVE TermsAgree
  OBVIOUS
<1>1. "a" \in Nodes /\ "b" \in Nodes /\ Other("a") = "b"
  BY DEF Nodes, Other
<1>2. ASSUME NEW i \in 1 .. MaxIndex, i <= Len(replica["a"].log), i <= Len(replica["b"].log),
             replica["a"].log[i].term = replica["b"].log[i].term
      PROVE  replica["a"].log[i] = replica["b"].log[i]
  <2>1. Len(replica["a"].log) \in Nat /\ Len(replica["b"].log) \in Nat
    BY <1>1 DEF PairInv, PairTypes, Replica
  <2>2. i \in 1 .. Len(replica["a"].log) /\ i \in 1 .. Len(replica["b"].log)
    BY <1>2, <2>1, ReplicationAssumption
  <2>3. /\ replica["a"].log[i] \in wire /\ replica["a"].log[i].index = i
        /\ replica["b"].log[i] \in wire /\ replica["b"].log[i].index = i
    BY <1>1, <2>2 DEF PairInv, LogsSent
  <2> QED BY <1>2, <2>3 DEF PairInv, SentOnce
<1>3. replica["a"].role = "leader" /\ replica["b"].role = "leader" =>
        replica["a"].term # replica["b"].term
  BY <1>1 DEF PairInv, OneLeads, Leads
<1> QED BY <1>2, <1>3 DEF TermsAgree

-----------------------------------------------------------------------------
(***************************************************************************)
(* The regions.  The region whose index the fewest others reach, among     *)
(* those a majority reaches, has the largest such index.                   *)
(***************************************************************************)
Reaching(acks, i) == {r \in Regions : acks[r] >= i}

LEMMA ReachingCount ==
    ASSUME NEW acks, NEW i
    PROVE  /\ IsFiniteSet(Reaching(acks, i)) /\ AckedBy(acks, i) = Cardinality(Reaching(acks, i))
           /\ AckedBy(acks, i) \in Nat
<1>1. Reaching(acks, i) \in SUBSET Regions
  BY DEF Reaching
<1>2. IsFiniteSet(Reaching(acks, i))
  BY <1>1, FS_Subset, ReplicationAssumption
<1>3. AckedBy(acks, i) = Cardinality(Reaching(acks, i))
  BY DEF AckedBy, Reaching
<1> QED BY <1>2, <1>3, FS_CardinalityType

LEMMA MedianExists ==
    ASSUME NEW acks \in [Regions -> Nat]
    PROVE  \E i \in {acks[r] : r \in Regions} :
              /\ AckedBy(acks, i) >= Majority
              /\ \A r \in Regions : AckedBy(acks, acks[r]) >= Majority => acks[r] <= i
<1> DEFINE V == {acks[r] : r \in Regions}
           G == {r \in Regions : AckedBy(acks, acks[r]) >= Majority}
           N == {AckedBy(acks, acks[r]) : r \in G}
<1>1. Majority \in Nat /\ Cardinality(Regions) = 2 * Majority - 1 /\ Cardinality(Regions) >= 1
  <2>1. Cardinality(Regions) \in Nat /\ Cardinality(Regions) # 0
    BY ReplicationAssumption, FS_CardinalityType, FS_EmptySet
  <2> QED BY <2>1, ReplicationAssumption
<1>2. G # {}
  <2>1. V \subseteq Nat /\ V # {}
    BY ReplicationAssumption
  <2>2. PICK v \in V : \A y \in V : v <= y
    <3> HIDE DEF V
    <3> QED BY <2>1, LeastNumber
  <2>3. PICK r \in Regions : v = acks[r]
    OBVIOUS
  <2>4. Reaching(acks, acks[r]) = Regions
    BY <2>2, <2>3 DEF Reaching
  <2>5. AckedBy(acks, acks[r]) = Cardinality(Regions)
    BY <2>4, ReachingCount
  <2> QED BY <1>1, <2>5
<1>3. N \subseteq Nat /\ N # {}
  BY <1>2, ReachingCount
<1>4. PICK n \in N : \A y \in N : n <= y
  <2> HIDE DEF N
  <2> QED BY <1>3, LeastNumber
<1>5. PICK r \in G : n = AckedBy(acks, acks[r])
  OBVIOUS
<1>6. ASSUME NEW s \in G, ~(acks[s] <= acks[r]) PROVE FALSE
  <2>1. acks[s] \in Nat /\ acks[r] \in Nat /\ acks[s] > acks[r]
    BY <1>6
  <2> DEFINE S == Reaching(acks, acks[s])
             R == Reaching(acks, acks[r])
  <2>2. S \in SUBSET R /\ r \in R /\ r \notin S
    BY <2>1 DEF Reaching
  <2>3. /\ IsFiniteSet(R) /\ Cardinality(R) = AckedBy(acks, acks[r])
        /\ Cardinality(S) = AckedBy(acks, acks[s])
        /\ Cardinality(R) \in Nat /\ Cardinality(S) \in Nat
    BY ReachingCount
  <2> HIDE DEF S, R
  <2>4. Cardinality(S) <= Cardinality(R) /\ Cardinality(S) # Cardinality(R)
    BY <2>2, <2>3, FS_Subset
  <2>5. AckedBy(acks, acks[r]) <= AckedBy(acks, acks[s])
    BY <1>4, <1>5, <1>6
  <2> QED BY <2>3, <2>4, <2>5
<1> QED BY <1>5, <1>6

LEMMA MedianIs ==
    ASSUME NEW acks \in [Regions -> Nat], NEW g, g = MedianIndex(acks)
    PROVE  /\ g \in Nat /\ AckedBy(acks, g) >= Majority
           /\ AckedBy(acks, g + 1) < Majority
<1>1. /\ g \in {acks[r] : r \in Regions} /\ AckedBy(acks, g) >= Majority
      /\ \A r \in Regions : AckedBy(acks, acks[r]) >= Majority => acks[r] <= g
  BY MedianExists DEF MedianIndex
<1>2. g \in Nat
  BY <1>1
<1>3. ASSUME ~(AckedBy(acks, g + 1) < Majority) PROVE FALSE
  <2> DEFINE S == Reaching(acks, g + 1)
             V == {acks[r] : r \in S}
  <2>1. Majority \in Nat /\ Majority > 0
    <3>1. Cardinality(Regions) \in Nat /\ Cardinality(Regions) # 0
      BY ReplicationAssumption, FS_CardinalityType, FS_EmptySet
    <3> QED BY <3>1, ReplicationAssumption
  <2>2. IsFiniteSet(S) /\ Cardinality(S) \in Nat /\ Cardinality(S) >= Majority
    BY <1>3, <2>1, ReachingCount
  <2>3. S # {}
    BY <2>1, <2>2, FS_EmptySet
  <2>4. V \subseteq Nat /\ V # {}
    BY <2>3 DEF Reaching
  <2>5. PICK v \in V : \A y \in V : v <= y
    <3> HIDE DEF V
    <3> QED BY <2>4, LeastNumber
  <2>6. PICK r \in S : v = acks[r]
    OBVIOUS
  <2>7. r \in Regions /\ acks[r] >= g + 1 /\ acks[r] \in Nat
    BY DEF Reaching
  <2> DEFINE R == Reaching(acks, acks[r])
  <2>8. S \in SUBSET R
    BY <2>5, <2>6 DEF Reaching
  <2>9. IsFiniteSet(R) /\ Cardinality(R) = AckedBy(acks, acks[r]) /\ Cardinality(R) \in Nat
    BY ReachingCount
  <2> HIDE DEF S, R
  <2>10. Cardinality(S) <= Cardinality(R)
    BY <2>8, <2>9, FS_Subset
  <2>11. AckedBy(acks, acks[r]) >= Majority
    BY <2>1, <2>2, <2>9, <2>10
  <2> QED BY <1>1, <1>2, <2>7, <2>11
<1> QED BY <1>1, <1>2, <1>3

RegionEntry == [term : Nat, origin : Regions, hlc : Nat]

RegionState ==
    [acked : [Regions -> Nat], reachable : SUBSET Regions, global : Nat, log : Seq(RegionEntry),
     hlc : Nat, term : Nat, leader : Regions]

\* The clock is past every entry of the log, and past what each local entry was
\* written after.
ClockAhead(s) ==
    /\ \A i \in 1 .. Len(s.log) : s.log[i].hlc <= s.hlc
    /\ \A i, j \in 1 .. Len(s.log) :
          i < j /\ s.log[j].origin = Local => s.log[i].hlc < s.log[j].hlc

Committed(s) ==
    AckedBy(s.acked, s.global) >= Majority /\ AckedBy(s.acked, s.global + 1) < Majority

RegionInv == region \in RegionState /\ Committed(region) /\ ClockAhead(region)

LEMMA CommitCommits ==
    ASSUME NEW s \in RegionState, NEW q, q = update_global_commit_index(s), ClockAhead(s)
    PROVE  q \in RegionState /\ Committed(q) /\ ClockAhead(q)
<1> DEFINE g == MedianIndex(s.acked)
<1>1. s.acked \in [Regions -> Nat]
  BY DEF RegionState
<1>2. g \in Nat /\ AckedBy(s.acked, g) >= Majority /\ AckedBy(s.acked, g + 1) < Majority
  BY <1>1, MedianIs
<1>3. q = [s EXCEPT !.global = g]
  BY DEF update_global_commit_index
<1> HIDE DEF g
<1>4. q \in RegionState /\ q.acked = s.acked /\ q.log = s.log /\ q.hlc = s.hlc /\ q.global = g
  BY <1>2, <1>3 DEF RegionState
<1> QED BY <1>2, <1>4 DEF Committed, ClockAhead

\* An entry the clock is past may be appended; a local one must be past the others.
LEMMA ClockMoves ==
    ASSUME NEW s \in RegionState, NEW q \in RegionState, NEW entry \in RegionEntry, ClockAhead(s),
           q.log = Append(s.log, entry), entry.hlc <= q.hlc, s.hlc <= q.hlc,
           entry.origin = Local => s.hlc < entry.hlc
    PROVE  ClockAhead(q)
<1>1. /\ s.log \in Seq(RegionEntry) /\ q.log \in Seq(RegionEntry)
      /\ s.hlc \in Nat /\ q.hlc \in Nat /\ entry.hlc \in Nat
  BY DEF RegionState, RegionEntry
<1>2. /\ Len(q.log) = Len(s.log) + 1 /\ q.log[Len(s.log) + 1] = entry /\ Len(s.log) \in Nat
      /\ \A i \in 1 .. Len(s.log) : q.log[i] = s.log[i] /\ s.log[i] \in RegionEntry
  BY <1>1, AppendProperties
<1>3. \A i \in 1 .. Len(s.log) : s.log[i].hlc \in Nat /\ s.log[i].hlc <= s.hlc
  BY <1>2 DEF RegionEntry, ClockAhead
<1>4. \A i \in 1 .. Len(q.log) : i \in 1 .. Len(s.log) \/ i = Len(s.log) + 1
  BY <1>2
<1>5. \A i \in 1 .. Len(q.log) : q.log[i].hlc <= q.hlc
  BY <1>1, <1>2, <1>3, <1>4
<1>6. ASSUME NEW i \in 1 .. Len(q.log), NEW j \in 1 .. Len(q.log), i < j, q.log[j].origin = Local
      PROVE  q.log[i].hlc < q.log[j].hlc
  <2>1. i \in 1 .. Len(s.log)
    BY <1>2, <1>6
  <2>2. CASE j \in 1 .. Len(s.log)
    BY <1>2, <1>6, <2>1, <2>2 DEF ClockAhead
  <2>3. CASE j = Len(s.log) + 1
    BY <1>1, <1>2, <1>3, <1>6, <2>1, <2>3
  <2> QED BY <1>4, <2>2, <2>3
<1> QED BY <1>5, <1>6 DEF ClockAhead

LEMMA RegionStarts == ReplicationInit => RegionInv
<1> SUFFICES ASSUME ReplicationInit PROVE RegionInv
  OBVIOUS
<1>1. Local \in Regions /\ Majority \in Nat /\ Majority > 0 /\ Cardinality(Regions) = 2 * Majority - 1
  <2>1. Cardinality(Regions) \in Nat /\ Cardinality(Regions) # 0
    BY ReplicationAssumption, FS_CardinalityType, FS_EmptySet
  <2> QED BY <2>1, ReplicationAssumption
<1>2. /\ region.acked = [r \in Regions |-> 0] /\ region.global = 0 /\ region.log = << >>
      /\ region \in RegionState
  BY <1>1 DEF ReplicationInit, RegionState
<1>3. Reaching(region.acked, 0) = Regions /\ Reaching(region.acked, 1) = {}
  BY <1>2 DEF Reaching
<1>4. AckedBy(region.acked, 0) = Cardinality(Regions) /\ AckedBy(region.acked, 0 + 1) = 0
  BY <1>3, ReachingCount, FS_EmptySet
<1>5. Committed(region)
  BY <1>1, <1>2, <1>4 DEF Committed
<1>6. ClockAhead(region)
  BY <1>2 DEF ClockAhead
<1> QED BY <1>2, <1>5, <1>6 DEF RegionInv

LEMMA HeartbeatKeeps ==
    ASSUME RegionInv, NEW from \in Regions, NEW index \in Nat, on_peer_heartbeat(from, index)
    PROVE  RegionInv'
<1> DEFINE s == [region EXCEPT !.reachable = @ \cup {from}, !.acked[from] = index]
<1>1. /\ region \in RegionState /\ ClockAhead(region) /\ region' = update_global_commit_index(s)
  BY DEF RegionInv, on_peer_heartbeat
<1>2. [region.acked EXCEPT ![from] = index] \in [Regions -> Nat]
  BY <1>1 DEF RegionState
<1>3. s = [region EXCEPT !.reachable = region.reachable \cup {from},
                         !.acked = [region.acked EXCEPT ![from] = index]]
  BY <1>1 DEF RegionState
<1>4. s \in RegionState /\ s.log = region.log /\ s.hlc = region.hlc
  <2> DEFINE acks == [region.acked EXCEPT ![from] = index]
             those == region.reachable \cup {from}
  <2>1. acks \in [Regions -> Nat] /\ those \in SUBSET Regions
    BY <1>1, <1>2 DEF RegionState
  <2>2. s = [region EXCEPT !.reachable = those, !.acked = acks]
    BY <1>3
  <2> HIDE DEF acks, those, s
  <2> QED BY <1>1, <2>1, <2>2 DEF RegionState
<1> HIDE DEF s
<1>5. ClockAhead(s)
  BY <1>1, <1>4 DEF ClockAhead
<1>6. region' \in RegionState /\ Committed(region') /\ ClockAhead(region')
  BY <1>1, <1>4, <1>5, CommitCommits
<1> QED BY <1>6 DEF RegionInv, Committed, ClockAhead

LEMMA TimeoutKeeps ==
    ASSUME RegionInv, NEW from \in Regions, on_peer_timeout(from)
    PROVE  RegionInv'
<1>1. region \in RegionState /\ region' = [region EXCEPT !.reachable = @ \ {from}]
  BY DEF RegionInv, on_peer_timeout
<1>2. /\ region' \in RegionState /\ region'.acked = region.acked /\ region'.global = region.global
      /\ region'.log = region.log /\ region'.hlc = region.hlc
  BY <1>1 DEF RegionState
<1> QED BY <1>2 DEF RegionInv, Committed, ClockAhead

LEMMA EventKeeps ==
    ASSUME RegionInv, NEW at \in Nat, append_order_event(at)
    PROVE  RegionInv'
<1> DEFINE hlc == IF region.hlc + 1 > at THEN region.hlc + 1 ELSE at
           entry == [term |-> region.term, origin |-> Local, hlc |-> hlc]
           s == [region EXCEPT !.log = Append(@, entry), !.hlc = hlc,
                               !.acked[Local] = Len(region.log) + 1]
           acks == [region.acked EXCEPT ![Local] = Len(region.log) + 1]
           longer == Append(region.log, entry)
<1>1. region \in RegionState /\ ClockAhead(region) /\ region' = update_global_commit_index(s)
  BY DEF RegionInv, append_order_event
<1>2. hlc \in Nat /\ hlc > region.hlc
  BY <1>1 DEF RegionState
<1>3. entry \in RegionEntry /\ entry.hlc = hlc /\ entry.origin = Local
  BY <1>1, <1>2, ReplicationAssumption DEF RegionEntry, RegionState
<1>4. acks \in [Regions -> Nat]
  <2>1. region.acked \in [Regions -> Nat] /\ Len(region.log) + 1 \in Nat
    BY <1>1 DEF RegionState
  <2> QED BY <2>1
<1>5. longer \in Seq(RegionEntry)
  BY <1>1, <1>3 DEF RegionState
<1>6. s = [region EXCEPT !.log = longer, !.hlc = hlc, !.acked = acks]
  BY <1>1 DEF RegionState
<1>7. longer = Append(region.log, entry)
  OBVIOUS
<1> HIDE DEF hlc, entry, s, acks, longer
<1>8. s \in RegionState /\ s.log = longer /\ s.hlc = hlc
  BY <1>1, <1>2, <1>4, <1>5, <1>6 DEF RegionState
<1>9. region.hlc \in Nat
  BY <1>1 DEF RegionState
<1>10. region.hlc <= s.hlc /\ entry.hlc <= s.hlc /\ region.hlc < entry.hlc
  BY <1>2, <1>3, <1>8, <1>9
<1>11. ClockAhead(s)
  BY <1>1, <1>3, <1>7, <1>8, <1>10, ClockMoves
<1>12. region' \in RegionState /\ Committed(region') /\ ClockAhead(region')
  BY <1>1, <1>8, <1>11, CommitCommits
<1> QED BY <1>12 DEF RegionInv, Committed, ClockAhead

LEMMA RemoteKeeps ==
    ASSUME RegionInv, NEW origin \in Regions, NEW term \in Nat, NEW index \in Nat,
           NEW stamp \in Nat, NEW at \in Nat,
           replicate_from_remote(origin, term, index, stamp, at)
    PROVE  RegionInv'
<1> DEFINE latest == IF region.hlc > at THEN region.hlc ELSE at
           hlc == (IF latest > stamp THEN latest ELSE stamp) + 1
           leads == IF term > region.term THEN origin ELSE region.leader
           s == [region EXCEPT !.hlc = hlc, !.term = term,
                               !.leader = IF term > region.term THEN origin ELSE @]
           entry == [term |-> term, origin |-> origin, hlc |-> stamp]
           q == [s EXCEPT !.log = Append(@, entry), !.acked[Local] = index, !.acked[origin] = index]
           acks == [[s.acked EXCEPT ![Local] = index] EXCEPT ![origin] = index]
           longer == Append(s.log, entry)
<1>1. region \in RegionState /\ ClockAhead(region) /\ Committed(region)
  BY DEF RegionInv
<1>2. /\ origin # Local
      /\ region' = IF index # Len(region.log) + 1 THEN s ELSE update_global_commit_index(q)
  BY DEF replicate_from_remote
<1>3. hlc \in Nat /\ hlc >= region.hlc /\ hlc >= stamp /\ leads \in Regions
  BY <1>1 DEF RegionState
<1>4. s = [region EXCEPT !.hlc = hlc, !.term = term, !.leader = leads]
  OBVIOUS
<1>5. q = [s EXCEPT !.log = longer, !.acked = acks]
  <2>1. s \in RegionState
    <3> HIDE DEF hlc, leads
    <3> QED BY <1>1, <1>3, <1>4 DEF RegionState
  <2> HIDE DEF s, entry
  <2> QED BY <2>1 DEF RegionState
<1>6. entry \in RegionEntry /\ entry.hlc = stamp /\ entry.origin = origin
  BY DEF RegionEntry
<1>7. longer = Append(s.log, entry) /\ acks = [[s.acked EXCEPT ![Local] = index] EXCEPT ![origin] = index]
  OBVIOUS
<1> HIDE DEF latest, hlc, leads, s, entry, q, acks, longer
<1>8. /\ s \in RegionState /\ s.log = region.log /\ s.hlc = hlc
      /\ s.acked = region.acked /\ s.global = region.global
  BY <1>1, <1>3, <1>4 DEF RegionState
<1>9. region.hlc \in Nat /\ s.acked \in [Regions -> Nat] /\ s.log \in Seq(RegionEntry)
      /\ \A i \in 1 .. Len(region.log) : region.log[i] \in RegionEntry
  BY <1>1, <1>8 DEF RegionState
<1>10. ClockAhead(s) /\ Committed(s)
  <2>1. \A i \in 1 .. Len(region.log) : region.log[i].hlc \in Nat
    BY <1>9 DEF RegionEntry
  <2>2. ClockAhead(s)
    BY <1>1, <1>3, <1>8, <1>9, <2>1 DEF ClockAhead
  <2>3. Committed(s)
    BY <1>1, <1>8 DEF Committed
  <2> QED BY <2>2, <2>3
<1>11. CASE region' = s
  <2>1. region' \in RegionState /\ Committed(region') /\ ClockAhead(region')
    BY <1>8, <1>10, <1>11
  <2> QED BY <2>1 DEF RegionInv, Committed, ClockAhead
<1>12. CASE region' = update_global_commit_index(q)
  <2>1. acks \in [Regions -> Nat]
    BY <1>7, <1>9
  <2>2. longer \in Seq(RegionEntry)
    BY <1>6, <1>7, <1>9
  <2>3. q \in RegionState /\ q.log = longer /\ q.hlc = s.hlc
    BY <1>5, <1>8, <2>1, <2>2 DEF RegionState
  <2>4. ClockAhead(q)
    <3>1. q.log = Append(s.log, entry) /\ entry.origin # Local
      BY ONLY <1>2, <1>6, <1>7, <2>3
    <3>2. entry.hlc <= q.hlc /\ s.hlc <= q.hlc
      BY ONLY <1>3, <1>6, <1>8, <2>3
    <3> QED BY ONLY <1>6, <1>8, <1>10, <2>3, <3>1, <3>2, ClockMoves
  <2>5. region' \in RegionState /\ Committed(region') /\ ClockAhead(region')
    BY <1>12, <2>3, <2>4, CommitCommits
  <2> QED BY <2>5 DEF RegionInv, Committed, ClockAhead
<1> QED BY <1>2, <1>11, <1>12

LEMMA RegionKeeps == RegionInv /\ [PairNext \/ RegionNext]_replicationVars => RegionInv'
<1> SUFFICES ASSUME RegionInv, [PairNext \/ RegionNext]_replicationVars PROVE RegionInv'
  OBVIOUS
<1>1. 0 .. MaxIndex \subseteq Nat /\ 1 .. MaxIndex \subseteq Nat /\ 1 .. MaxTerm \subseteq Nat
      /\ RegionStamps \subseteq Nat
  BY ReplicationAssumption
<1>2. CASE UNCHANGED region
  BY <1>2 DEF RegionInv, Committed, ClockAhead
<1>3. CASE RegionNext
  <2>1. ASSUME NEW from \in Regions, NEW index \in 0 .. MaxIndex, on_peer_heartbeat(from, index) PROVE RegionInv'
    BY <1>1, <2>1, HeartbeatKeeps
  <2>2. ASSUME NEW from \in Regions, on_peer_timeout(from) PROVE RegionInv'
    BY <2>2, TimeoutKeeps
  <2>3. ASSUME NEW at \in RegionStamps, append_order_event(at) PROVE RegionInv'
    BY <1>1, <2>3, EventKeeps
  <2>4. ASSUME NEW at \in RegionStamps, NEW origin \in Regions, NEW term \in 1 .. MaxTerm,
               NEW index \in 1 .. MaxIndex, NEW stamp \in RegionStamps,
               replicate_from_remote(origin, term, index, stamp, at)
        PROVE  RegionInv'
    <3>1. at \in Nat /\ term \in Nat /\ index \in Nat /\ stamp \in Nat
      BY ONLY <1>1
    <3>2. RegionInv
      OBVIOUS
    <3> QED BY ONLY <2>4, <3>1, <3>2, RemoteKeeps
  <2> QED BY ONLY <1>3, <2>1, <2>2, <2>3, <2>4 DEF RegionNext
<1>4. CASE PairNext
  <2>1. region' = region
    BY ONLY <1>4 DEF PairNext, check_failover, leader_append, follower_apply
  <2> QED BY <1>2, <2>1
<1> QED BY <1>2, <1>3, <1>4 DEF replicationVars

LEMMA PairKeeps == PairInv /\ [PairNext \/ RegionNext]_replicationVars => PairInv'
<1> SUFFICES ASSUME PairInv, [PairNext \/ RegionNext]_replicationVars PROVE PairInv'
  OBVIOUS
<1>1. CASE UNCHANGED pairVars
  BY <1>1 DEF pairVars, PairInv, PairTypes, OneLeads, SentByLeader, SentOnce, LogsSent, Leads
<1>2. CASE RegionNext
  <2>1. \A from, index : on_peer_heartbeat(from, index) \/ on_peer_timeout(from) => UNCHANGED pairVars
    BY DEF on_peer_heartbeat, on_peer_timeout
  <2>2. \A at : append_order_event(at) => UNCHANGED pairVars
    BY DEF append_order_event
  <2>3. ASSUME NEW origin, NEW term, NEW index, NEW stamp, NEW at,
               replicate_from_remote(origin, term, index, stamp, at)
        PROVE  UNCHANGED pairVars
    BY ONLY <2>3 DEF replicate_from_remote
  <2>4. UNCHANGED pairVars
    BY <1>2, <2>1, <2>2, <2>3 DEF RegionNext
  <2> QED BY <1>1, <2>4
<1>3. CASE PairNext
  BY <1>3, FailoverKeeps, AppendKeeps, ApplyKeeps DEF PairNext
<1> QED BY <1>1, <1>2, <1>3 DEF replicationVars

LEMMA RegionSound == RegionInv => CommitHasMajority /\ ClockOrdersLog
BY DEF RegionInv, Committed, ClockAhead, CommitHasMajority, ClockOrdersLog, RegionState

\* Over lost, repeated and reordered longer and early failovers, a term of the
\* HotStandbyReplica pair has one leader and one history, the index the cluster
\* commits is the largest a majority of the regions holds, and the hybrid clock
\* follows the log, for every number of regions, terms and longer.
THEOREM ReplicationHolds == Spec => []ReplicationSound
<1>1. Init => PairInv /\ RegionInv
  BY PairStarts, RegionStarts DEF Init
<1>2. PairInv /\ RegionInv /\ [Next]_vars => PairInv' /\ RegionInv'
  BY PairSteps, PairKeeps, RegionKeeps
<1>3. PairInv /\ RegionInv => ReplicationSound
  BY PairAgrees, RegionSound DEF ReplicationSound
<1> QED BY <1>1, <1>2, <1>3, PTL DEF Spec

-----------------------------------------------------------------------------
(***************************************************************************)
(* The durable audit log.                                                  *)
(***************************************************************************)
LEMMA AuditSteps == [Next]_vars => [AuditNext]_auditVars
BY DEF vars, allVars, Next, Alone, Encodings, Tables, Limits, Trails_, Metrics, Conditional,
       Venues, Sessions, auditVars

Hash == Seq(Nat \X Bodies)
AuditEvent == [sequence : Nat, body : Bodies, previous_hash : Hash, hash : Hash]
Members == [open : BOOLEAN, sequence : Nat, tail : Hash, pending : Nat]

Checkpoints == [flushed : BOOLEAN, start : Nat, end : Nat, start_hash : Hash, end_hash : Hash]

AuditTypes ==
    /\ file \in Seq(AuditEvent) /\ torn \in BOOLEAN /\ synced \in 0 .. Len(file)
    /\ log \in Members /\ manifest \in Seq(Checkpoints)
    /\ promised \subseteq 0 .. Len(file)

\* An open log whose file is whole goes on where the file ends.
GoesOn ==
    ~torn /\ log.open =>
        /\ log.sequence = Len(file) /\ log.tail = PreviousHash(file, Len(file) + 1)
        /\ log.pending <= Len(file)

\* What was promised and not synchronised was appended after the last flush that
\* succeeded, and before as many events as the interval were pending.
PromisedNear ==
    /\ ~log.open => promised = {}
    /\ ~torn /\ log.open =>
          \A i \in promised :
              i > synced => /\ i > Len(file) - log.pending
                            /\ i < Len(file) - log.pending + SyncInterval

\* A checkpoint that was flushed names events that are synchronised.
CheckpointSynced ==
    manifest # << >> /\ manifest[1].flushed =>
        LET c == manifest[1]
        IN  /\ c.start <= c.end /\ c.end < synced
            /\ c.start_hash = file[c.start + 1].previous_hash
            /\ c.end_hash = file[c.end + 1].hash

AuditInv ==
    AuditTypes /\ verify_log_integrity(file) /\ GoesOn /\ PromisedNear /\ CheckpointSynced

LEMMA AuditStarts == AuditInit => AuditInv
<1> SUFFICES ASSUME AuditInit PROVE AuditInv
  OBVIOUS
<1>1. file = << >> /\ manifest = << >> /\ promised = {} /\ torn = FALSE /\ synced = 0 /\ log = Closed_
  BY DEF AuditInit
<1>2. AuditTypes
  <2>1. << >> \in Hash /\ file \in Seq(AuditEvent) /\ manifest \in Seq(Checkpoints) /\ Len(file) = 0
    BY <1>1 DEF Hash
  <2>2. log \in Members
    BY <1>1, <2>1 DEF Closed_, Members
  <2>3. torn \in BOOLEAN /\ promised \subseteq 0 .. Len(file)
    BY <1>1
  <2>4. synced \in 0 .. Len(file)
    BY <1>1, <2>1
  <2> QED BY <2>1, <2>2, <2>3, <2>4 DEF AuditTypes
<1>3. verify_log_integrity(file)
  BY <1>1 DEF verify_log_integrity
<1>4. ~log.open
  BY <1>1 DEF Closed_
<1> QED BY <1>1, <1>2, <1>3, <1>4 DEF AuditInv, GoesOn, PromisedNear, CheckpointSynced

LEMMA EventIs ==
    ASSUME NEW n \in Nat, NEW h \in Hash, NEW body \in Bodies
    PROVE  /\ Event(n, h, body) \in AuditEvent /\ valid_event(Event(n, h, body))
           /\ Event(n, h, body).sequence = n /\ Event(n, h, body).previous_hash = h
<1>1. Digest(h, n, body) \in Hash
  BY DEF Digest, Hash
<1> QED BY <1>1 DEF Event, AuditEvent, valid_event

\* The walk over a file with one event more.
LEMMA ChainGrows ==
    ASSUME NEW f \in Seq(AuditEvent), NEW e \in AuditEvent, verify_log_integrity(f),
           valid_event(e), e.sequence = Len(f), e.previous_hash = PreviousHash(f, Len(f) + 1)
    PROVE  /\ verify_log_integrity(Append(f, e))
           /\ PreviousHash(Append(f, e), Len(f) + 2) = e.hash
<1> DEFINE g == Append(f, e)
<1>1. /\ g \in Seq(AuditEvent) /\ Len(g) = Len(f) + 1 /\ g[Len(f) + 1] = e /\ Len(f) \in Nat
      /\ \A i \in 1 .. Len(f) : g[i] = f[i]
      /\ DOMAIN g = 1 .. Len(f) + 1 /\ DOMAIN f = 1 .. Len(f)
  BY AppendProperties
<1> HIDE DEF g
<1>2. \A i \in 1 .. Len(f) + 1 : PreviousHash(g, i) = PreviousHash(f, i)
  BY <1>1 DEF PreviousHash
<1>3. ASSUME NEW i \in 1 .. Len(f) + 1
      PROVE  /\ g[i].sequence = i - 1 /\ g[i].previous_hash = PreviousHash(g, i) /\ valid_event(g[i])
  <2>1. CASE i \in 1 .. Len(f)
    BY <1>1, <1>2, <2>1 DEF verify_log_integrity
  <2>2. CASE i = Len(f) + 1
    BY <1>1, <1>2, <2>2
  <2> QED BY <1>1, <2>1, <2>2
<1>4. PreviousHash(g, Len(f) + 2) = e.hash
  BY <1>1 DEF PreviousHash
<1> QED BY <1>1, <1>3, <1>4 DEF verify_log_integrity, g

\* The walk over what a crash keeps.
LEMMA ChainCut ==
    ASSUME NEW f \in Seq(AuditEvent), verify_log_integrity(f), NEW n \in 0 .. Len(f)
    PROVE  /\ SubSeq(f, 1, n) \in Seq(AuditEvent) /\ Len(SubSeq(f, 1, n)) = n
           /\ \A i \in 1 .. n : SubSeq(f, 1, n)[i] = f[i]
           /\ verify_log_integrity(SubSeq(f, 1, n))
<1> DEFINE g == SubSeq(f, 1, n)
<1>1. Len(f) \in Nat /\ \A i \in 1 .. n : i \in DOMAIN f
  OBVIOUS
<1>2. /\ g \in Seq(AuditEvent) /\ Len(g) = n /\ DOMAIN g = 1 .. n
      /\ \A i \in 1 .. n : g[i] = f[i]
  BY <1>1, SubSeqProperties
<1> HIDE DEF g
<1>3. \A i \in 1 .. n : PreviousHash(g, i) = PreviousHash(f, i)
  BY <1>2 DEF PreviousHash
<1>4. verify_log_integrity(g)
  BY <1>1, <1>2, <1>3 DEF verify_log_integrity
<1> QED BY <1>2, <1>4 DEF g

LEMMA ClosedIs == Closed_ \in Members /\ ~Closed_.open
<1>1. << >> \in Hash
  BY DEF Hash
<1> QED BY <1>1 DEF Closed_, Members

\* A flushed checkpoint outlives every step that keeps what was synchronised.
LEMMA CheckpointKept ==
    ASSUME AuditInv, manifest' = manifest, synced' \in Nat, synced' >= synced,
           \A i \in 1 .. synced : file'[i] = file[i]
    PROVE  CheckpointSynced'
<1>1. synced \in Nat /\ manifest \in Seq(Checkpoints)
  BY DEF AuditInv, AuditTypes
<1> SUFFICES ASSUME manifest # << >>, manifest[1].flushed
             PROVE  /\ manifest[1].start <= manifest[1].end /\ manifest[1].end < synced'
                    /\ manifest[1].start_hash = file'[manifest[1].start + 1].previous_hash
                    /\ manifest[1].end_hash = file'[manifest[1].end + 1].hash
  BY DEF CheckpointSynced
<1>2. manifest[1] \in Checkpoints
  BY <1>1
<1>3. manifest[1].start \in Nat /\ manifest[1].end \in Nat
  BY <1>2 DEF Checkpoints
<1>4. /\ manifest[1].start <= manifest[1].end /\ manifest[1].end < synced
      /\ manifest[1].start_hash = file[manifest[1].start + 1].previous_hash
      /\ manifest[1].end_hash = file[manifest[1].end + 1].hash
  BY DEF AuditInv, CheckpointSynced
<1>5. manifest[1].start + 1 \in 1 .. synced /\ manifest[1].end + 1 \in 1 .. synced
  BY <1>1, <1>3, <1>4
<1> QED BY <1>1, <1>3, <1>4, <1>5

LEMMA OpenKeeps == AuditInv /\ open => AuditInv'
<1> SUFFICES ASSUME AuditInv, open PROVE AuditInv'
  OBVIOUS
<1>1. /\ UNCHANGED <<file, torn, synced, manifest>> /\ promised' = {}
      /\ log' = [open |-> TRUE, sequence |-> Len(file), tail |-> PreviousHash(file, Len(file) + 1),
                 pending |-> 0]
  BY DEF open
<1>2. AuditTypes /\ file \in Seq(AuditEvent) /\ Len(file) \in Nat
  BY DEF AuditInv, AuditTypes
<1>3. PreviousHash(file, Len(file) + 1) \in Hash
  <2>1. << >> \in Hash /\ (Len(file) # 0 => file[Len(file)] \in AuditEvent)
    BY <1>2 DEF Hash
  <2> QED BY <1>2, <2>1 DEF PreviousHash, AuditEvent
<1>4. log' \in Members /\ log'.sequence = Len(file) /\ log'.pending = 0 /\ log'.open
      /\ log'.tail = PreviousHash(file, Len(file) + 1)
  BY <1>1, <1>2, <1>3 DEF Members
<1>5. AuditTypes'
  BY <1>1, <1>2, <1>4 DEF AuditTypes
<1>6. CheckpointSynced'
  BY <1>1, <1>2, CheckpointKept DEF AuditTypes
<1>7. verify_log_integrity(file)'
  BY <1>1 DEF AuditInv
<1> QED BY <1>1, <1>2, <1>4, <1>5, <1>6, <1>7 DEF AuditInv, GoesOn, PromisedNear

\* A flush, kept or failed, that changes nothing else.
LEMMA FlushKeeps ==
    ASSUME AuditInv, UNCHANGED <<file, torn, manifest, promised>>,
           \/ synced' = Len(file) /\ log' = [log EXCEPT !.pending = 0]
           \/ UNCHANGED <<synced, log>>
    PROVE  AuditInv'
<1>1. /\ AuditTypes /\ log \in Members /\ Len(file) \in Nat /\ synced \in 0 .. Len(file)
      /\ promised \subseteq 0 .. Len(file)
  BY DEF AuditInv, AuditTypes
<1>2. CASE UNCHANGED <<synced, log>>
  BY <1>2 DEF AuditInv, AuditTypes, GoesOn, PromisedNear, CheckpointSynced
<1>3. CASE synced' = Len(file) /\ log' = [log EXCEPT !.pending = 0]
  <2>1. /\ log' \in Members /\ log'.open = log.open /\ log'.sequence = log.sequence
        /\ log'.tail = log.tail /\ log'.pending = 0
    BY <1>1, <1>3 DEF Members
  <2>2. AuditTypes'
    BY <1>1, <1>3, <2>1 DEF AuditTypes
  <2>3. CheckpointSynced'
    BY <1>1, <1>3, CheckpointKept
  <2>4. \A i \in promised : ~(i > Len(file))
    BY <1>1
  <2>5. verify_log_integrity(file)'
    BY DEF AuditInv
  <2>6. GoesOn'
    BY <1>1, <2>1 DEF AuditInv, GoesOn
  <2>7. PromisedNear'
    BY <1>3, <2>1, <2>4 DEF AuditInv, PromisedNear
  <2> QED BY <2>2, <2>3, <2>5, <2>6, <2>7 DEF AuditInv
<1> QED BY <1>2, <1>3

\* close() and a crash forget what was promised.
LEMMA ClosedKeeps ==
    ASSUME AuditInv, log' = Closed_, promised' = {}, manifest' = manifest, torn' \in BOOLEAN,
           NEW n \in synced .. Len(file), file' = SubSeq(file, 1, n) \/ (file' = file /\ n = Len(file)),
           synced' \in synced .. n
    PROVE  AuditInv'
<1>1. file \in Seq(AuditEvent) /\ synced \in 0 .. Len(file) /\ AuditTypes /\ n \in 0 .. Len(file)
      /\ Len(file) \in Nat /\ verify_log_integrity(file)
  BY DEF AuditInv, AuditTypes
<1>2. /\ file' \in Seq(AuditEvent) /\ Len(file') = n /\ (\A i \in 1 .. n : file'[i] = file[i])
      /\ verify_log_integrity(file')
  BY <1>1, ChainCut
<1>3. AuditTypes'
  BY <1>1, <1>2, ClosedIs DEF AuditTypes
<1>4. CheckpointSynced'
  BY <1>1, <1>2, CheckpointKept
<1>5. verify_log_integrity(file)'
  BY <1>2 DEF verify_log_integrity, PreviousHash, valid_event, Digest
<1> QED BY <1>3, <1>4, <1>5, ClosedIs DEF AuditInv, GoesOn, PromisedNear

LEMMA AppendFailedKeeps ==
    ASSUME AuditInv, NEW body \in Bodies, append_failed(body)
    PROVE  AuditInv'
<1>1. /\ log' = log /\ torn' \in {torn, TRUE} /\ UNCHANGED <<file, synced, manifest, promised>>
  BY DEF append_failed, Unwritten
<1>2. torn' \in BOOLEAN /\ (~torn' => ~torn)
  BY <1>1 DEF AuditInv, AuditTypes
<1> QED BY <1>1, <1>2 DEF AuditInv, AuditTypes, GoesOn, PromisedNear, CheckpointSynced

LEMMA AppendedKeeps ==
    ASSUME AuditInv, NEW body \in Bodies, append(body)
    PROVE  AuditInv'
<1> DEFINE e == Event(log.sequence, log.tail, body)
           l == Advanced(log, e)
<1>1. /\ AuditTypes /\ log \in Members /\ Len(file) \in Nat /\ synced \in 0 .. Len(file)
      /\ promised \subseteq 0 .. Len(file) /\ file \in Seq(AuditEvent) /\ torn \in BOOLEAN
      /\ SyncInterval \in Nat \ {0} /\ verify_log_integrity(file)
  BY AuditAssumption DEF AuditInv, AuditTypes
<1>2. /\ log.open /\ file' = (IF torn THEN file ELSE Append(file, e))
      /\ UNCHANGED <<torn, manifest>>
      /\ \/ ~SyncDue(l) /\ log' = l /\ promised' = promised \cup {Len(file')} /\ UNCHANGED synced
         \/ /\ SyncDue(l) /\ synced' = Len(file') /\ log' = [l EXCEPT !.pending = 0]
            /\ promised' = promised \cup {Len(file')}
         \/ SyncDue(l) /\ log' = l /\ UNCHANGED <<promised, synced>>
  BY DEF append, flush_kept, flush_failed
<1>3. /\ log.sequence \in Nat /\ log.tail \in Hash /\ log.pending \in Nat
  BY <1>1 DEF Members
<1>4. /\ e \in AuditEvent /\ valid_event(e) /\ e.sequence = log.sequence
      /\ e.previous_hash = log.tail
  BY <1>3, EventIs
<1>5. e.hash \in Hash
  BY <1>4 DEF AuditEvent
<1> HIDE DEF e
<1>6. /\ l \in Members /\ l.open /\ l.sequence = log.sequence + 1 /\ l.tail = e.hash
      /\ l.pending = log.pending + 1
  <2> DEFINE n == log.sequence + 1
             p == log.pending + 1
             h == e.hash
  <2>1. n \in Nat /\ p \in Nat /\ h \in Hash
    BY <1>3, <1>5
  <2>2. l = [log EXCEPT !.sequence = n, !.tail = h, !.pending = p]
    BY DEF Advanced
  <2> HIDE DEF n, p, h, l
  <2>3. /\ l \in Members /\ l.open = log.open /\ l.sequence = n /\ l.tail = h /\ l.pending = p
    BY <1>1, <2>1, <2>2 DEF Members
  <2> QED BY <1>2, <2>3 DEF n, p, h
<1>7. SyncDue(l) <=> l.pending >= SyncInterval
  BY DEF SyncDue
<1> HIDE DEF l
<1>8. /\ log' \in Members /\ log'.open /\ log'.sequence = log.sequence + 1 /\ log'.tail = e.hash
      /\ log'.pending \in {0, log.pending + 1}
      /\ log' = l => log'.pending = log.pending + 1
  <2>1. CASE log' = l
    BY <1>6, <2>1
  <2>2. CASE log' = [l EXCEPT !.pending = 0]
    BY <1>6, <2>2 DEF Members
  <2> QED BY <1>2, <2>1, <2>2
<1>9. /\ file' \in Seq(AuditEvent) /\ Len(file') \in Nat /\ Len(file') >= Len(file)
      /\ \A i \in 1 .. Len(file) : file'[i] = file[i]
      /\ ~torn => Len(file') = Len(file) + 1
      /\ torn => file' = file
  BY <1>1, <1>2, <1>4, AppendProperties
<1>10. /\ verify_log_integrity(file')
       /\ ~torn => PreviousHash(file', Len(file) + 2) = e.hash
  <2>1. CASE torn
    BY <1>1, <1>2, <2>1
  <2>2. CASE ~torn
    <3>1. e.sequence = Len(file) /\ e.previous_hash = PreviousHash(file, Len(file) + 1)
      BY <1>2, <1>4, <2>2 DEF AuditInv, GoesOn
    <3> QED BY <1>1, <1>2, <1>4, <2>2, <3>1, ChainGrows
  <2> QED BY <2>1, <2>2
<1>11. synced' \in Nat /\ synced' >= synced /\ synced' \in 0 .. Len(file')
  BY <1>1, <1>2, <1>9
<1>12. promised' \subseteq 0 .. Len(file')
  BY <1>1, <1>2, <1>9
<1>13. AuditTypes'
  BY <1>1, <1>2, <1>8, <1>9, <1>11, <1>12 DEF AuditTypes
<1>14. CheckpointSynced'
  BY <1>1, <1>2, <1>9, <1>11, CheckpointKept
<1>15. GoesOn'
  <2>1. ASSUME ~torn PROVE log.sequence = Len(file) /\ log.pending <= Len(file)
    BY <1>2, <2>1 DEF AuditInv, GoesOn
  <2>2. ASSUME ~torn PROVE log'.pending <= Len(file')
    BY <1>1, <1>3, <1>8, <1>9, <2>1, <2>2
  <2>3. ASSUME ~torn PROVE Len(file') + 1 = Len(file) + 2
    BY <1>1, <1>9, <2>3
  <2> QED BY <1>2, <1>8, <1>9, <1>10, <2>1, <2>2, <2>3 DEF GoesOn
<1>16. ASSUME ~torn, NEW i \in promised', i > synced'
       PROVE  /\ i > Len(file') - log'.pending
              /\ i < Len(file') - log'.pending + SyncInterval
  <2>1. i \in Nat /\ i \in 0 .. Len(file')
    BY <1>9, <1>12
  <2>2. CASE log' = l /\ synced' = synced
    <3>1. Len(file') - log'.pending = Len(file) - log.pending
      BY <1>1, <1>3, <1>8, <1>9, <1>16, <2>2
    <3>2. CASE i \in promised
      BY <1>2, <1>16, <2>2, <3>1, <3>2 DEF AuditInv, PromisedNear
    <3>3. CASE i = Len(file') /\ ~SyncDue(l)
      BY <1>1, <1>3, <1>6, <1>7, <1>8, <1>9, <1>16, <2>2, <3>3
    <3> QED BY <1>2, <3>2, <3>3, <1>9, <1>16, <2>1, <2>2
  <2>3. CASE synced' = Len(file')
    BY <1>9, <1>16, <2>1, <2>3
  <2> QED BY <1>2, <2>2, <2>3
<1>17. PromisedNear'
  BY <1>2, <1>8, <1>16 DEF PromisedNear
<1>18. verify_log_integrity(file)'
  BY <1>10 DEF verify_log_integrity, PreviousHash, valid_event, Digest
<1> QED BY <1>13, <1>14, <1>15, <1>17, <1>18 DEF AuditInv

LEMMA CheckpointKeeps ==
    ASSUME AuditInv, NEW first \in Nat, NEW last \in Nat, write_manifest_checkpoint(first, last)
    PROVE  AuditInv'
<1>1. /\ AuditTypes /\ log \in Members /\ Len(file) \in Nat /\ synced \in 0 .. Len(file)
      /\ file \in Seq(AuditEvent) /\ manifest \in Seq(Checkpoints)
  BY DEF AuditInv, AuditTypes
<1>2. /\ log.open /\ ~torn /\ first <= last /\ last < log.sequence
      /\ UNCHANGED <<file, torn, promised>>
  BY DEF write_manifest_checkpoint
<1>3. PICK flushed \in BOOLEAN :
        /\ manifest' = Append(manifest, Checkpoint(file, first, last, flushed))
        /\ \/ flushed /\ synced' = Len(file) /\ log' = [log EXCEPT !.pending = 0]
           \/ ~flushed /\ UNCHANGED <<synced, log>>
  BY <1>2 DEF write_manifest_checkpoint, CheckpointFlush, flush_kept, flush_failed
<1>4. log.sequence = Len(file)
  BY <1>2 DEF AuditInv, GoesOn
<1>5. first + 1 \in 1 .. Len(file) /\ last + 1 \in 1 .. Len(file)
  BY <1>1, <1>2, <1>4
<1> DEFINE c == Checkpoint(file, first, last, flushed)
<1>6. /\ c \in Checkpoints /\ c.flushed = flushed /\ c.start = first /\ c.end = last
      /\ c.start_hash = file[first + 1].previous_hash /\ c.end_hash = file[last + 1].hash
  <2>1. file[first + 1] \in AuditEvent /\ file[last + 1] \in AuditEvent
    BY <1>1, <1>5
  <2>2. file[first + 1].previous_hash \in Hash /\ file[last + 1].hash \in Hash
    BY <2>1 DEF AuditEvent
  <2> QED BY <2>2 DEF Checkpoint, Checkpoints
<1> HIDE DEF c
<1>7. /\ manifest' \in Seq(Checkpoints) /\ manifest' # << >>
      /\ manifest # << >> => manifest'[1] = manifest[1]
      /\ manifest = << >> => manifest'[1] = c
  <2>1. manifest' = Append(manifest, c)
    BY <1>3 DEF c
  <2>2. /\ Len(manifest) \in Nat /\ Len(manifest') = Len(manifest) + 1
        /\ manifest' \in Seq(Checkpoints)
        /\ \A i \in 1 .. Len(manifest) : manifest'[i] = manifest[i]
        /\ manifest'[Len(manifest) + 1] = c
    BY <1>1, <1>6, <2>1, AppendProperties
  <2>3. manifest = << >> <=> Len(manifest) = 0
    BY <1>1, EmptySeq
  <2>4. manifest' # << >>
    BY <2>2, EmptySeq
  <2>5. manifest # << >> => 1 \in 1 .. Len(manifest)
    BY <2>2, <2>3
  <2>6. manifest = << >> => Len(manifest) + 1 = 1
    BY <2>3
  <2>7. manifest # << >> => manifest'[1] = manifest[1]
    BY <2>2, <2>5
  <2>8. manifest = << >> => manifest'[1] = c
    BY <2>2, <2>6
  <2> QED BY <2>2, <2>4, <2>7, <2>8
<1>8. /\ log' \in Members /\ log'.open = log.open /\ log'.sequence = log.sequence
      /\ log'.tail = log.tail /\ (log'.pending = 0 \/ log' = log)
  BY <1>1, <1>3 DEF Members
<1>9. synced' \in Nat /\ synced' >= synced /\ synced' \in 0 .. Len(file)
  BY <1>1, <1>3
<1>10. AuditTypes'
  BY <1>1, <1>2, <1>7, <1>8, <1>9 DEF AuditTypes
<1>11. GoesOn'
  BY <1>1, <1>2, <1>8 DEF AuditInv, GoesOn
<1>12. PromisedNear'
  <2>1. CASE UNCHANGED <<synced, log>>
    BY <1>2, <2>1 DEF AuditInv, PromisedNear
  <2>2. CASE synced' = Len(file)
    <3>1. \A i \in promised : ~(i > Len(file))
      BY <1>1 DEF AuditTypes
    <3> QED BY <1>2, <1>8, <2>2, <3>1 DEF AuditInv, PromisedNear
  <2> QED BY <1>3, <2>1, <2>2
<1>13. CheckpointSynced'
  <2>1. CASE manifest = << >>
    BY <1>1, <1>2, <1>3, <1>4, <1>6, <1>7, <2>1 DEF CheckpointSynced
  <2>2. CASE manifest # << >>
    <3>1. manifest[1] \in Checkpoints
      BY <1>1, <2>2
    <3>2. manifest[1].end \in Nat
      BY <3>1 DEF Checkpoints
    <3> QED BY <1>1, <1>2, <1>7, <1>9, <2>2, <3>2 DEF AuditInv, CheckpointSynced
  <2> QED BY <2>1, <2>2
<1>14. verify_log_integrity(file)'
  BY <1>2 DEF AuditInv
<1> QED BY <1>10, <1>11, <1>12, <1>13, <1>14 DEF AuditInv

LEMMA CrashKeeps == AuditInv /\ AuditCrash => AuditInv'
<1> SUFFICES ASSUME AuditInv, AuditCrash PROVE AuditInv'
  OBVIOUS
<1>1. PICK n \in synced .. Len(file) :
        /\ file' = SubSeq(file, 1, n) /\ synced' = n
        /\ torn' \in IF n < Len(file) THEN BOOLEAN ELSE {torn, FALSE}
  BY DEF AuditCrash
<1>2. torn \in BOOLEAN /\ synced \in Nat /\ Len(file) \in Nat
  BY DEF AuditInv, AuditTypes
<1>3. log' = Closed_ /\ promised' = {} /\ manifest' = manifest
  BY DEF AuditCrash
<1>4. synced' \in synced .. n
  BY <1>1, <1>2
<1>5. torn' \in BOOLEAN
  BY Zenon, <1>1, <1>2
<1>6. file' = SubSeq(file, 1, n) \/ (file' = file /\ n = Len(file))
  BY <1>1
<1> QED BY <1>3, <1>4, <1>5, <1>6, ClosedKeeps, Zenon

LEMMA CloseKeeps == AuditInv /\ close => AuditInv'
<1> SUFFICES ASSUME AuditInv, close PROVE AuditInv'
  OBVIOUS
<1>1. synced \in 0 .. Len(file) /\ Len(file) \in Nat /\ torn \in BOOLEAN
  BY DEF AuditInv, AuditTypes
<1>2. /\ file' = file /\ torn' = torn /\ manifest' = manifest /\ log' = Closed_ /\ promised' = {}
      /\ synced' = Len(file) \/ synced' = synced
  BY DEF close, flush_kept, flush_failed
<1>3. Len(file) \in synced .. Len(file) /\ synced' \in synced .. Len(file)
  BY <1>1, <1>2
<1> QED BY <1>1, <1>2, <1>3, ClosedKeeps

LEMMA AuditKeeps == AuditInv /\ [AuditNext]_auditVars => AuditInv'
<1> SUFFICES ASSUME AuditInv, [AuditNext]_auditVars PROVE AuditInv'
  OBVIOUS
<1>1. CASE UNCHANGED auditVars
  BY <1>1 DEF auditVars, AuditInv, AuditTypes, GoesOn, PromisedNear, CheckpointSynced
<1>2. CASE flush
  BY <1>2, FlushKeeps DEF flush, flush_kept, flush_failed
<1>3. ASSUME NEW first \in 0 .. MaxEvents - 1, NEW last \in 0 .. MaxEvents - 1,
             write_manifest_checkpoint(first, last)
      PROVE  AuditInv'
  BY <1>3, CheckpointKeeps, AuditAssumption
<1> QED BY <1>1, <1>2, <1>3, OpenKeeps, CloseKeeps, CrashKeeps, AppendedKeeps, AppendFailedKeeps
        DEF AuditNext

LEMMA LossIsBounded == AuditInv => LossBounded
<1> SUFFICES ASSUME AuditInv, ~torn PROVE Cardinality({i \in promised : i > synced}) < SyncInterval
  BY DEF LossBounded
<1> DEFINE lost == {i \in promised : i > synced}
           from == Len(file) - log.pending
           near == from + 1 .. from + SyncInterval - 1
<1>1. SyncInterval \in Nat \ {0} /\ Len(file) \in Nat /\ log \in Members /\ promised \subseteq Nat
  BY AuditAssumption DEF AuditInv, AuditTypes
<1>2. from \in Int
  BY <1>1 DEF Members
<1>3. lost \subseteq near
  <2>1. CASE log.open
    <3> SUFFICES ASSUME NEW i \in lost PROVE i \in near
      OBVIOUS
    <3>1. i \in Nat /\ i > from /\ i < from + SyncInterval
      BY <1>1, <2>1 DEF AuditInv, PromisedNear
    <3> HIDE DEF from
    <3> QED BY <1>1, <1>2, <3>1
  <2>2. CASE ~log.open
    BY <2>2 DEF AuditInv, PromisedNear
  <2> QED BY <2>1, <2>2
<1> HIDE DEF lost, from
<1>4. IsFiniteSet(near) /\ Cardinality(near) = SyncInterval - 1
  <2> DEFINE a == from + 1
             b == from + SyncInterval - 1
  <2>1. a \in Int /\ b \in Int /\ (a > b => SyncInterval = 1) /\ b - a + 1 = SyncInterval - 1
    BY ONLY <1>1, <1>2
  <2> HIDE DEF a, b
  <2>2. IsFiniteSet(a .. b) /\ Cardinality(a .. b) = IF a > b THEN 0 ELSE b - a + 1
    BY ONLY <2>1, FS_Interval
  <2>3. Cardinality(a .. b) = SyncInterval - 1
    BY ONLY <1>1, <2>1, <2>2
  <2> QED BY <2>2, <2>3 DEF a, b
<1>5. Cardinality(lost) <= Cardinality(near) /\ Cardinality(lost) \in Nat
  BY <1>3, <1>4, FS_Subset, FS_CardinalityType
<1>6. Cardinality(lost) < SyncInterval
  <2> HIDE DEF near
  <2> QED BY <1>1, <1>4, <1>5
<1> QED BY <1>6 DEF lost

LEMMA FlushedVerifies == AuditInv => CheckpointHolds
<1> SUFFICES ASSUME AuditInv, manifest # << >>, manifest[1].flushed
             PROVE  verify_manifest(file, manifest)
  BY DEF CheckpointHolds
<1> DEFINE c == manifest[1]
<1>1. /\ manifest \in Seq(Checkpoints) /\ synced \in 0 .. Len(file) /\ Len(file) \in Nat
      /\ verify_log_integrity(file) /\ DOMAIN file = 1 .. Len(file)
  BY DEF AuditInv, AuditTypes
<1>2. c \in Checkpoints
  BY <1>1
<1>3. c.start \in Nat /\ c.end \in Nat
  BY <1>2 DEF Checkpoints
<1>4. /\ c.start <= c.end /\ c.end < synced /\ c.start_hash = file[c.start + 1].previous_hash
      /\ c.end_hash = file[c.end + 1].hash
  BY DEF AuditInv, CheckpointSynced
<1> HIDE DEF c
<1>5. c.end < Len(file)
  BY <1>1, <1>3, <1>4
<1>6. ASSUME NEW i \in c.start + 1 .. c.end + 1
      PROVE  /\ file[i].previous_hash = IF i = c.start + 1 THEN c.start_hash ELSE file[i - 1].hash
             /\ valid_event(file[i])
  <2>1. i \in 1 .. Len(file) /\ (i # c.start + 1 => i # 1)
    BY <1>1, <1>3, <1>5
  <2>2. file[i].previous_hash = PreviousHash(file, i) /\ valid_event(file[i])
    BY <1>1, <2>1 DEF verify_log_integrity
  <2> QED BY <1>4, <2>1, <2>2 DEF PreviousHash
<1> QED BY <1>4, <1>5, <1>6 DEF verify_manifest, c

LEMMA ChainGoesOn == AuditInv => ChainContinues
BY DEF AuditInv, GoesOn, ChainContinues

\* Through failed writes, failed flushes, crashes and restarts, a DurableAuditLog
\* whose file holds no torn event is one valid chain that an open log goes on,
\* a crash loses fewer reported events than the interval, and a checkpoint whose
\* flush succeeded verifies for ever: for every interval and every number of
\* events, checkpoints and faults.
THEOREM AuditHolds == Spec => []AuditSound
<1>1. Init => AuditInv
  BY AuditStarts DEF Init
<1>2. AuditInv /\ [Next]_vars => AuditInv'
  BY AuditSteps, AuditKeeps
<1>3. AuditInv => AuditSound
  BY LossIsBounded, FlushedVerifies, ChainGoesOn DEF AuditSound
<1> QED BY <1>1, <1>2, <1>3, PTL DEF Spec

-----------------------------------------------------------------------------
(***************************************************************************)
(* The order reference map.  A key is where a scan first stops, and a      *)
(* slot that was ever taken never becomes empty again until clear().       *)
(***************************************************************************)
LEMMA MapSteps == [Next]_vars => [MapNext]_mapVars
BY DEF vars, allVars, Next, Alone, Encodings, Tables, Limits, Trails_, Metrics, Conditional,
       Venues, Sessions, mapVars

\* A scan for r stops at distance d because r is there.
ScanMeets(t, r, d) ==
    /\ d \in Window /\ t[Probe(r, d)] = r
    /\ \A e \in Window : e < d => t[Probe(r, e)] # r /\ t[Probe(r, e)] # kEmptyKey

KeyArray == [Buckets -> Refs \cup {kEmptyKey, kTombstone}]
StoredRefs(s) == {r \in Refs : s[r] # Absent}

\* The slots hold the stored references, each once, where a scan meets them.
MapsTo(t, v, s) ==
    /\ t \in KeyArray /\ v \in [Buckets -> Locations \cup {Absent}]
    /\ s \in [Refs -> Locations \cup {Absent}]
    /\ \A r \in Refs : s[r] # Absent => \E d : ScanMeets(t, r, d) /\ v[Probe(r, d)] = s[r]
    /\ \A i \in Buckets : t[i] \in Refs => s[t[i]] # Absent
    /\ \A i, j \in Buckets : t[i] \in Refs /\ t[i] = t[j] => i = j

MapInv ==
    /\ MapsTo(keys, values, stored)
    /\ IsFiniteSet(StoredRefs(stored)) /\ count = Cardinality(StoredRefs(stored))

LEMMA MapNumbers ==
    /\ kCapacity \in Nat \ {0} /\ Window \subseteq Nat /\ Window \subseteq 0 .. kCapacity - 1
    /\ \A r \in Refs, d \in Nat : Probe(r, d) \in Buckets
    /\ kEmptyKey \notin Refs /\ kTombstone \notin Refs /\ kEmptyKey # kTombstone
<1>1. kCapacity \in Nat \ {0} /\ Window \subseteq Nat /\ Window \subseteq 0 .. kCapacity - 1
  BY MapAssumption DEF Window
<1>2. ASSUME NEW r \in Refs, NEW d \in Nat PROVE Probe(r, d) \in Buckets
  <2>1. RefHash[r] + d \in Nat
    BY <1>1, MapAssumption
  <2> QED BY <1>1, <2>1, PlaceIn DEF Probe, Buckets
<1>3. kEmptyKey \notin Refs /\ kTombstone \notin Refs /\ kEmptyKey # kTombstone
  BY MapAssumption DEF kEmptyKey, kTombstone
<1> QED BY <1>1, <1>2, <1>3

LEMMA MeetsFinds ==
    ASSUME NEW t, NEW r \in Refs, NEW d, ScanMeets(t, r, d)
    PROVE  Finds(t, r) /\ At(t, r) = Probe(r, d)
<1>1. d \in Stops(t, r) /\ Stops(t, r) \subseteq Nat /\ d \in Nat
  BY MapNumbers DEF ScanMeets, Stops
<1>2. Min(Stops(t, r)) \in Stops(t, r) /\ Min(Stops(t, r)) <= d
  BY <1>1, MinIn
<1>3. Min(Stops(t, r)) \in Window /\ Min(Stops(t, r)) \in Nat
  BY <1>1, <1>2 DEF Stops
<1>4. ~(Min(Stops(t, r)) < d)
  BY <1>2, <1>3 DEF ScanMeets, Stops
<1>5. Min(Stops(t, r)) = d
  BY <1>1, <1>2, <1>3, <1>4
<1> QED BY <1>1, <1>5 DEF Finds, At, ScanMeets

LEMMA FindsMeets ==
    ASSUME NEW t, NEW r \in Refs, Finds(t, r)
    PROVE  \E d : ScanMeets(t, r, d) /\ At(t, r) = Probe(r, d)
<1> DEFINE d == Min(Stops(t, r))
<1>1. Stops(t, r) # {} /\ Stops(t, r) \subseteq Nat /\ t[Probe(r, d)] = r
  BY MapNumbers DEF Finds, Stops
<1>2. d \in Stops(t, r) /\ \A e \in Stops(t, r) : d <= e
  BY <1>1, MinIn
<1>3. d \in Window /\ d \in Nat /\ At(t, r) = Probe(r, d)
  BY <1>1, <1>2 DEF Stops, At
<1> HIDE DEF d
<1>4. ASSUME NEW e \in Window, e < d PROVE t[Probe(r, e)] # r /\ t[Probe(r, e)] # kEmptyKey
  <2>1. e \in Nat /\ ~(d <= e)
    BY <1>3, <1>4, MapNumbers
  <2> QED BY <1>2, <2>1 DEF Stops
<1> QED BY <1>1, <1>3, <1>4 DEF ScanMeets

LEMMA LookupAnswers ==
    ASSUME MapsTo(keys, values, stored), NEW r \in Refs
    PROVE  lookup(r) = stored[r]
<1>1. CASE stored[r] # Absent
  <2>1. PICK d : ScanMeets(keys, r, d) /\ values[Probe(r, d)] = stored[r]
    BY <1>1 DEF MapsTo
  <2> QED BY <2>1, MeetsFinds DEF lookup
<1>2. CASE stored[r] = Absent
  <2>1. ~Finds(keys, r)
    <3> SUFFICES ASSUME Finds(keys, r) PROVE FALSE
      OBVIOUS
    <3>1. PICK d : ScanMeets(keys, r, d)
      BY FindsMeets
    <3>2. Probe(r, d) \in Buckets /\ keys[Probe(r, d)] = r
      BY <3>1, MapNumbers DEF ScanMeets
    <3> QED BY <1>2, <3>2 DEF MapsTo
  <2> QED BY <1>2, <2>1 DEF lookup
<1> QED BY <1>1, <1>2

\* The place a new key goes to.
LEMMA PlaceFree ==
    ASSUME NEW t \in KeyArray, NEW r \in Refs, ~Finds(t, r), HasPlace(t, r),
           \A i \in Buckets : t[i] # r
    PROVE  \E d \in Window : /\ Place(t, r) = Probe(r, d) /\ t[Probe(r, d)] \notin Refs
                             /\ \A e \in Window : e < d => t[Probe(r, e)] # kEmptyKey
<1>1. Stops(t, r) \subseteq Nat /\ Passed(t, r) \subseteq Nat
  BY MapNumbers DEF Stops, Passed
<1>2. CASE Passed(t, r) # {}
  <2> DEFINE d == Min(Passed(t, r))
  <2>1. d \in Passed(t, r)
    BY <1>1, <1>2, MinIn
  <2>2. Place(t, r) = Probe(r, d)
    BY <1>2 DEF Place
  <2> HIDE DEF d
  <2>3. d \in Window /\ d \in Nat /\ t[Probe(r, d)] = kTombstone /\ \A e \in Stops(t, r) : d < e
    BY <1>1, <2>1 DEF Passed
  <2>4. ASSUME NEW e \in Window, e < d PROVE t[Probe(r, e)] # kEmptyKey
    <3>1. e \in Nat /\ ~(d < e)
      BY <2>3, <2>4, MapNumbers
    <3> QED BY <2>3, <3>1 DEF Stops
  <2> QED BY <2>2, <2>3, <2>4, MapNumbers
<1>3. CASE Passed(t, r) = {}
  <2> DEFINE d == Min(Stops(t, r))
  <2>1. Stops(t, r) # {}
    BY <1>3 DEF HasPlace
  <2>2. d \in Stops(t, r) /\ \A e \in Stops(t, r) : d <= e
    BY <1>1, <2>1, MinIn
  <2>3. Place(t, r) = Probe(r, d)
    BY <1>3 DEF Place
  <2> HIDE DEF d
  <2>4. d \in Window /\ d \in Nat /\ t[Probe(r, d)] \in {r, kEmptyKey}
    BY <1>1, <2>2 DEF Stops
  <2>5. t[Probe(r, d)] = kEmptyKey
    BY <2>4, MapNumbers
  <2>6. ASSUME NEW e \in Window, e < d PROVE t[Probe(r, e)] # kEmptyKey
    <3>1. e \in Nat /\ ~(d <= e)
      BY <2>4, <2>6, MapNumbers
    <3> QED BY <2>2, <3>1 DEF Stops
  <2> QED BY <2>3, <2>4, <2>5, <2>6, MapNumbers
<1> QED BY <1>2, <1>3

LEMMA WindowDistinct ==
    ASSUME NEW r \in Refs, NEW d \in Window, NEW e \in Window, e < d
    PROVE  Probe(r, e) # Probe(r, d)
<1>1. kCapacity \in Nat \ {0} /\ d \in 0 .. kCapacity - 1 /\ e \in 0 .. kCapacity - 1
  BY MapNumbers
<1>2. RefHash[r] \in Nat
  BY <1>1, MapAssumption
<1> DEFINE h == RefHash[r]
<1>3. h + e \in Nat /\ h + d \in Nat /\ h + e < h + d /\ (h + d) - (h + e) < kCapacity
  BY <1>1, <1>2
<1> HIDE DEF h
<1> QED BY <1>1, <1>3, PlacesDistinct DEF Probe, h

\* What is not found is not in the table, and not stored.
LEMMA NotFoundAbsent ==
    ASSUME NEW t, NEW v, NEW s, MapsTo(t, v, s), NEW r \in Refs
    PROVE  /\ Finds(t, r) <=> s[r] # Absent
           /\ ~Finds(t, r) => \A i \in Buckets : t[i] # r
<1>1. ASSUME s[r] # Absent PROVE Finds(t, r)
  <2>1. PICK d : ScanMeets(t, r, d)
    BY <1>1 DEF MapsTo
  <2> QED BY <2>1, MeetsFinds
<1>2. ASSUME Finds(t, r) PROVE s[r] # Absent
  <2>1. PICK d : ScanMeets(t, r, d)
    BY <1>2, FindsMeets
  <2>2. Probe(r, d) \in Buckets /\ t[Probe(r, d)] = r
    BY <2>1, MapNumbers DEF ScanMeets
  <2> QED BY <2>2 DEF MapsTo
<1>3. ASSUME NEW i \in Buckets, t[i] = r PROVE Finds(t, r)
  BY <1>1, <1>3 DEF MapsTo
<1> QED BY <1>1, <1>2, <1>3

LEMMA InsertMaps ==
    ASSUME NEW t, NEW v, NEW s, MapsTo(t, v, s), NEW r \in Refs, NEW loc \in Locations,
           ~Finds(t, r), HasPlace(t, r), NEW p, p = Place(t, r)
    PROVE  MapsTo([t EXCEPT ![p] = r], [v EXCEPT ![p] = loc], [s EXCEPT ![r] = loc])
<1> DEFINE t1 == [t EXCEPT ![p] = r]
           v1 == [v EXCEPT ![p] = loc]
           s1 == [s EXCEPT ![r] = loc]
<1>1. /\ t \in KeyArray /\ v \in [Buckets -> Locations \cup {Absent}]
      /\ s \in [Refs -> Locations \cup {Absent}]
  BY DEF MapsTo
<1>2. \A i \in Buckets : t[i] # r
  BY NotFoundAbsent
<1>3. PICK d \in Window : /\ p = Probe(r, d) /\ t[p] \notin Refs
                          /\ \A e \in Window : e < d => t[Probe(r, e)] # kEmptyKey
  BY <1>1, <1>2, PlaceFree
<1>4. p \in Buckets /\ d \in Nat
  BY <1>3, MapNumbers
<1>5. /\ t1[p] = r /\ v1[p] = loc /\ s1[r] = loc
      /\ \A i \in Buckets : i # p => t1[i] = t[i] /\ v1[i] = v[i]
      /\ \A q \in Refs : q # r => s1[q] = s[q]
  BY <1>1, <1>4 DEF KeyArray
<1>6. /\ t1 \in KeyArray /\ v1 \in [Buckets -> Locations \cup {Absent}]
      /\ s1 \in [Refs -> Locations \cup {Absent}]
  BY <1>1, <1>4 DEF KeyArray
<1> HIDE DEF t1, v1, s1
<1>7. ScanMeets(t1, r, d)
  <2>1. ASSUME NEW e \in Window, e < d PROVE t1[Probe(r, e)] # r /\ t1[Probe(r, e)] # kEmptyKey
    <3>1. Probe(r, e) \in Buckets /\ Probe(r, e) # p
      BY <1>3, <2>1, WindowDistinct, MapNumbers
    <3> QED BY <1>2, <1>3, <1>5, <2>1, <3>1
  <2> QED BY <1>3, <1>5, <2>1 DEF ScanMeets
<1>8. ASSUME NEW q \in Refs, s1[q] # Absent
      PROVE  \E e : ScanMeets(t1, q, e) /\ v1[Probe(q, e)] = s1[q]
  <2>1. CASE q = r
    BY <1>3, <1>5, <1>7, <2>1
  <2>2. CASE q # r
    <3>1. PICK e : ScanMeets(t, q, e) /\ v[Probe(q, e)] = s[q]
      BY <1>5, <1>8, <2>2 DEF MapsTo
    <3>2. \A f \in Window : Probe(q, f) \in Buckets
      BY MapNumbers
    <3>3. Probe(q, e) \in Buckets /\ Probe(q, e) # p
      BY <1>3, <3>1, <3>2 DEF ScanMeets
    <3>4. \A f \in Window : f < e => t1[Probe(q, f)] # q /\ t1[Probe(q, f)] # kEmptyKey
      BY <1>5, <2>2, <3>1, <3>2, MapNumbers DEF ScanMeets
    <3>5. ScanMeets(t1, q, e)
      BY <1>5, <3>1, <3>3, <3>4 DEF ScanMeets
    <3> QED BY <1>5, <2>2, <3>1, <3>3, <3>5
  <2> QED BY <2>1, <2>2
<1>9. ASSUME NEW i \in Buckets, t1[i] \in Refs PROVE s1[t1[i]] # Absent
  <2>1. CASE i = p
    BY <1>5, <2>1, MapAssumption
  <2>2. CASE i # p
    <3>1. t1[i] = t[i] /\ t[i] # r
      BY <1>2, <1>5, <2>2
    <3> QED BY <1>5, <1>9, <3>1 DEF MapsTo
  <2> QED BY <2>1, <2>2
<1>10. ASSUME NEW i \in Buckets, NEW j \in Buckets, t1[i] \in Refs, t1[i] = t1[j] PROVE i = j
  <2>1. CASE i # p /\ j # p
    BY <1>5, <1>10, <2>1 DEF MapsTo
  <2>2. CASE i = p \/ j = p
    BY <1>2, <1>5, <1>10, <2>2
  <2> QED BY <2>1, <2>2
<1>11. MapsTo(t1, v1, s1)
  BY <1>6, <1>8, <1>9, <1>10 DEF MapsTo
<1> QED BY <1>11 DEF t1, v1, s1

LEMMA UpdateMaps ==
    ASSUME NEW t, NEW v, NEW s, MapsTo(t, v, s), NEW r \in Refs, NEW loc \in Locations, Finds(t, r)
    PROVE  MapsTo(t, [v EXCEPT ![At(t, r)] = loc], [s EXCEPT ![r] = loc])
<1> DEFINE v1 == [v EXCEPT ![At(t, r)] = loc]
           s1 == [s EXCEPT ![r] = loc]
<1>1. /\ t \in KeyArray /\ v \in [Buckets -> Locations \cup {Absent}]
      /\ s \in [Refs -> Locations \cup {Absent}]
  BY DEF MapsTo
<1>2. PICK d : ScanMeets(t, r, d) /\ At(t, r) = Probe(r, d)
  BY FindsMeets
<1>3. At(t, r) \in Buckets /\ t[At(t, r)] = r
  BY <1>2, MapNumbers DEF ScanMeets
<1>4. /\ v1[At(t, r)] = loc /\ s1[r] = loc
      /\ \A i \in Buckets : i # At(t, r) => v1[i] = v[i]
      /\ \A q \in Refs : q # r => s1[q] = s[q]
  BY <1>1, <1>3
<1>5. v1 \in [Buckets -> Locations \cup {Absent}] /\ s1 \in [Refs -> Locations \cup {Absent}]
  BY <1>1, <1>3
<1> HIDE DEF v1, s1
<1>6. ASSUME NEW q \in Refs, s1[q] # Absent
      PROVE  \E e : ScanMeets(t, q, e) /\ v1[Probe(q, e)] = s1[q]
  <2>1. CASE q = r
    BY <1>2, <1>4, <2>1
  <2>2. CASE q # r
    <3>1. PICK e : ScanMeets(t, q, e) /\ v[Probe(q, e)] = s[q]
      BY <1>4, <1>6, <2>2 DEF MapsTo
    <3>2. Probe(q, e) \in Buckets /\ Probe(q, e) # At(t, r)
      BY <1>3, <2>2, <3>1, MapNumbers DEF ScanMeets
    <3> QED BY <1>4, <2>2, <3>1, <3>2
  <2> QED BY <2>1, <2>2
<1>7. ASSUME NEW i \in Buckets, t[i] \in Refs PROVE s1[t[i]] # Absent
  BY <1>4, <1>7, MapAssumption DEF MapsTo
<1>8. MapsTo(t, v1, s1)
  BY <1>1, <1>5, <1>6, <1>7 DEF MapsTo
<1> QED BY <1>8 DEF v1, s1

LEMMA RemoveMaps ==
    ASSUME NEW t, NEW v, NEW s, MapsTo(t, v, s), NEW r \in Refs, Finds(t, r)
    PROVE  MapsTo(RemovedKeys(t, r), v, [s EXCEPT ![r] = Absent])
<1> DEFINE t1 == RemovedKeys(t, r)
           s1 == [s EXCEPT ![r] = Absent]
<1>1. /\ t \in KeyArray /\ v \in [Buckets -> Locations \cup {Absent}]
      /\ s \in [Refs -> Locations \cup {Absent}]
  BY DEF MapsTo
<1>2. PICK d : ScanMeets(t, r, d) /\ At(t, r) = Probe(r, d)
  BY FindsMeets
<1>3. At(t, r) \in Buckets /\ t[At(t, r)] = r
  BY <1>2, MapNumbers DEF ScanMeets
<1>4. /\ t1[At(t, r)] = kTombstone /\ s1[r] = Absent
      /\ \A i \in Buckets : i # At(t, r) => t1[i] = t[i]
      /\ \A q \in Refs : q # r => s1[q] = s[q]
  BY <1>1, <1>3 DEF RemovedKeys, KeyArray
<1>5. t1 \in KeyArray /\ s1 \in [Refs -> Locations \cup {Absent}]
  BY <1>1, <1>3 DEF RemovedKeys, KeyArray
<1> HIDE DEF t1, s1
<1>6. ASSUME NEW q \in Refs, s1[q] # Absent
      PROVE  \E e : ScanMeets(t1, q, e) /\ v[Probe(q, e)] = s1[q]
  <2>1. q # r
    BY <1>4, <1>6
  <2>2. PICK e : ScanMeets(t, q, e) /\ v[Probe(q, e)] = s[q]
    BY <1>4, <1>6, <2>1 DEF MapsTo
  <2>3. \A f \in Window : Probe(q, f) \in Buckets
    BY MapNumbers
  <2>4. Probe(q, e) \in Buckets /\ Probe(q, e) # At(t, r)
    BY <1>3, <2>1, <2>2, <2>3 DEF ScanMeets
  <2>5. \A f \in Window : f < e => t1[Probe(q, f)] # q /\ t1[Probe(q, f)] # kEmptyKey
    BY <1>4, <2>2, <2>3, MapNumbers DEF ScanMeets
  <2>6. ScanMeets(t1, q, e)
    BY <1>4, <2>2, <2>4, <2>5 DEF ScanMeets
  <2> QED BY <1>4, <2>1, <2>2, <2>6
<1>7. ASSUME NEW i \in Buckets, t1[i] \in Refs PROVE i # At(t, r) /\ t[i] # r /\ s1[t1[i]] # Absent
  <2>1. i # At(t, r)
    BY <1>4, <1>7, MapNumbers
  <2>2. t1[i] = t[i] /\ t[i] # r
    BY <1>3, <1>4, <1>7, <2>1 DEF MapsTo
  <2> QED BY <1>4, <1>7, <2>1, <2>2 DEF MapsTo
<1>8. ASSUME NEW i \in Buckets, NEW j \in Buckets, t1[i] \in Refs, t1[i] = t1[j] PROVE i = j
  BY <1>4, <1>7, <1>8 DEF MapsTo
<1>9. MapsTo(t1, v, s1)
  BY <1>1, <1>5, <1>6, <1>7, <1>8 DEF MapsTo
<1> QED BY <1>9 DEF t1, s1

LEMMA EmptyMaps ==
    ASSUME NEW v \in [Buckets -> Locations \cup {Absent}]
    PROVE  /\ MapsTo([i \in Buckets |-> kEmptyKey], v, [r \in Refs |-> Absent])
           /\ StoredRefs([r \in Refs |-> Absent]) = {}
BY MapNumbers DEF MapsTo, KeyArray, StoredRefs

LEMMA MapStarts == MapInit => MapInv
<1> SUFFICES ASSUME MapInit PROVE MapInv
  OBVIOUS
<1>1. values \in [Buckets -> Locations \cup {Absent}]
  BY DEF MapInit
<1> QED BY <1>1, EmptyMaps, FS_EmptySet DEF MapInit, MapInv

LEMMA MapKeeps == MapInv /\ [MapNext]_mapVars => MapInv'
<1> SUFFICES ASSUME MapInv, [MapNext]_mapVars PROVE MapInv'
  OBVIOUS
<1>1. /\ MapsTo(keys, values, stored) /\ stored \in [Refs -> Locations \cup {Absent}]
      /\ values \in [Buckets -> Locations \cup {Absent}]
      /\ IsFiniteSet(StoredRefs(stored)) /\ count = Cardinality(StoredRefs(stored))
  BY DEF MapInv, MapsTo
<1>2. CASE clear
  <2>1. /\ keys' = [i \in Buckets |-> kEmptyKey] /\ count' = 0
        /\ stored' = [r \in Refs |-> Absent] /\ values' = values
    BY <1>2 DEF clear
  <2> QED BY <1>1, <2>1, EmptyMaps, FS_EmptySet DEF MapInv
<1>3. ASSUME NEW r \in Refs, remove(r) PROVE MapInv'
  <2>1. /\ Finds(keys, r) /\ keys' = RemovedKeys(keys, r) /\ count' = count - 1
        /\ stored' = [stored EXCEPT ![r] = Absent] /\ values' = values
    BY <1>3 DEF remove
  <2>2. MapsTo(keys', values', stored')
    BY <1>1, <2>1, RemoveMaps
  <2>3. r \in StoredRefs(stored) /\ StoredRefs(stored') = StoredRefs(stored) \ {r}
    BY <1>1, <2>1, NotFoundAbsent DEF StoredRefs
  <2> QED BY <1>1, <2>1, <2>2, <2>3, FS_RemoveElement DEF MapInv
<1>4. ASSUME NEW r \in Refs, NEW loc \in Locations, insert(r, loc) PROVE MapInv'
  <2>1. /\ ~Finds(keys, r) /\ HasPlace(keys, r) /\ count' = count + 1
        /\ keys' = [keys EXCEPT ![Place(keys, r)] = r] /\ values' = [values EXCEPT ![Place(keys, r)] = loc]
        /\ stored' = [stored EXCEPT ![r] = loc]
    BY <1>4 DEF insert, Accepts
  <2>2. MapsTo(keys', values', stored')
    BY <1>1, <2>1, InsertMaps
  <2>3. r \notin StoredRefs(stored) /\ StoredRefs(stored') = StoredRefs(stored) \cup {r}
    BY <1>1, <2>1, NotFoundAbsent, MapAssumption DEF StoredRefs
  <2>4. /\ IsFiniteSet(StoredRefs(stored) \cup {r})
        /\ Cardinality(StoredRefs(stored) \cup {r}) = Cardinality(StoredRefs(stored)) + 1
    BY ONLY <1>1, <2>3, FS_AddElement
  <2> QED BY <1>1, <2>1, <2>2, <2>3, <2>4 DEF MapInv
<1>5. ASSUME NEW r \in Refs, NEW loc \in Locations, insert_update(r, loc) PROVE MapInv'
  <2>1. /\ Finds(keys, r) /\ values' = [values EXCEPT ![At(keys, r)] = loc]
        /\ stored' = [stored EXCEPT ![r] = loc] /\ keys' = keys /\ count' = count
    BY <1>5 DEF insert_update
  <2>2. MapsTo(keys', values', stored')
    BY <1>1, <2>1, UpdateMaps
  <2>3. StoredRefs(stored') = StoredRefs(stored)
    BY <1>1, <2>1, NotFoundAbsent, MapAssumption DEF StoredRefs
  <2> QED BY <1>1, <2>1, <2>2, <2>3 DEF MapInv
<1>6. CASE UNCHANGED mapVars
  BY <1>6 DEF mapVars, MapInv
<1> QED BY <1>2, <1>3, <1>4, <1>5, <1>6 DEF MapNext

LEMMA MapAnswers == MapInv => LookupReturnsStored /\ PreflightSound
<1> SUFFICES ASSUME MapInv PROVE LookupReturnsStored /\ PreflightSound
  OBVIOUS
<1>1. LookupReturnsStored
  BY LookupAnswers DEF MapInv, LookupReturnsStored, StoredRefs
<1>2. ASSUME NEW new \in Refs, NEW old \in Refs, can_insert(keys, count, new), Finds(keys, old)
      PROVE  Accepts(RemovedKeys(keys, old), count - 1, new)
  <2>1. ~Finds(keys, new) /\ Stops(keys, new) # {} /\ count < kMaxEntries
    BY <1>2 DEF can_insert
  <2>2. count \in Nat /\ kMaxEntries \in Nat
    BY FS_CardinalityType, MapAssumption DEF MapInv
  <2>3. PICK d \in Stops(keys, new) : TRUE
    BY <2>1
  <2>4. d \in Window /\ Probe(new, d) \in Buckets /\ keys[Probe(new, d)] \in {new, kEmptyKey}
    BY <2>3, MapNumbers DEF Stops
  <2>5. keys[Probe(new, d)] = kEmptyKey
    BY <2>1, <2>4, NotFoundAbsent DEF MapInv
  <2>6. At(keys, old) \in Buckets /\ keys[At(keys, old)] = old
    <3>1. PICK e : ScanMeets(keys, old, e) /\ At(keys, old) = Probe(old, e)
      BY <1>2, FindsMeets
    <3> QED BY <3>1, MapNumbers DEF ScanMeets
  <2>7. keys \in KeyArray
    BY DEF MapInv, MapsTo
  <2>8. RemovedKeys(keys, old)[Probe(new, d)] = kEmptyKey
    BY <2>4, <2>5, <2>6, <2>7, MapNumbers DEF RemovedKeys, KeyArray
  <2>9. d \in Stops(RemovedKeys(keys, old), new)
    BY <2>4, <2>8 DEF Stops
  <2> QED BY <2>1, <2>2, <2>9 DEF Accepts, HasPlace
<1> QED BY <1>1, <1>2 DEF PreflightSound

-----------------------------------------------------------------------------
(***************************************************************************)
(* The open-order ledger.  The slots are numbered from a base so that no   *)
(* entry's probe path crosses the last of them: from the slot behind an    *)
(* empty one, or, when the table is full, from the slot behind the one     *)
(* that was filled last.  In these numbers the walk behind a freed entry   *)
(* is the textbook deletion, with one hole that moves along.               *)
(***************************************************************************)
LEMMA LedgerSteps == [Next]_vars => [LedgerNext]_ledgerVars
BY DEF vars, allVars, Next, Alone, Encodings, Tables, Limits, Trails_, Metrics, Conditional,
       Venues, Sessions, ledgerVars

EntryTable == [EntrySlots -> Entry]
Taken(t) == {s \in EntrySlots : t[s].id # 0}
OnceEach(t) == \A i, j \in EntrySlots : t[i].id # 0 /\ t[i].id = t[j].id => i = j

\* The slot x steps behind the base.
Cell(B, x) == (B + x) % TableCapacity

\* The entry at x has its home at g, and its path is taken throughout.
PathTaken(t, B, x, g) ==
    /\ g \in 0 .. x /\ Cell(B, g) = IdHash[t[Cell(B, x)].id]
    /\ \A z \in g .. x : t[Cell(B, z)].id # 0

ProbesTo(t, B) ==
    /\ B \in EntrySlots
    /\ \A x \in EntrySlots : t[Cell(B, x)].id # 0 => \E g : PathTaken(t, B, x, g)

GoodTable(t) == t \in EntryTable /\ OnceEach(t) /\ \E B : ProbesTo(t, B)

LedgerInv ==
    /\ holed \in BOOLEAN
    /\ ~holed => GoodTable(entries) /\ open_orders = Cardinality(Taken(entries))

LEMMA LedgerNumbers ==
    /\ TableCapacity \in Nat \ {0} /\ EntrySlots = 0 .. TableCapacity - 1 /\ EntrySlots \subseteq Nat
    /\ \A id \in OrderIds : id # 0 /\ IdHash[id] \in EntrySlots
    /\ Nowhere \notin EntrySlots /\ EmptyEntry \in Entry /\ EmptyEntry.id = 0
BY LedgerAssumption DEF EntrySlots, Nowhere, EmptyEntry, Entry

LEMMA TakenFinite == \A t : IsFiniteSet(Taken(t)) /\ Cardinality(Taken(t)) \in Nat
<1>1. IsFiniteSet(0 .. TableCapacity - 1)
  BY LedgerNumbers, FS_Interval
<1>2. \A t : Taken(t) \subseteq 0 .. TableCapacity - 1
  BY LedgerNumbers DEF Taken
<1> QED BY <1>1, <1>2, FS_Subset, FS_CardinalityType

\* Remainders of a sum.
LEMMA PlaceShift ==
    ASSUME NEW c \in Nat \ {0}, NEW p \in Nat, NEW e \in Nat
    PROVE  ((p % c) + e) % c = (p + e) % c
<1> DEFINE r == p % c
           k == p \div c
<1>1. r \in Nat /\ k \in Nat /\ p = c * k + r
  OBVIOUS
<1> DEFINE u == r + e
<1>2. u \in Nat
  BY <1>1
<1> DEFINE a == u \div c
           s == u % c
           b == (p + e) \div c
           v == (p + e) % c
<1>3. a \in Int /\ s \in Int /\ s \in 0 .. c - 1 /\ u = c * a + s
  <2> HIDE DEF u
  <2> QED BY <1>2
<1>4. p + e \in Nat
  OBVIOUS
<1>5. b \in Int /\ v \in Int /\ v \in 0 .. c - 1 /\ p + e = c * b + v
  <2> DEFINE w == p + e
  <2>1. w \in Nat
    OBVIOUS
  <2> HIDE DEF w
  <2>2. w \div c \in Int /\ w % c \in Int /\ w % c \in 0 .. c - 1 /\ w = c * (w \div c) + (w % c)
    BY <2>1
  <2> QED BY <2>2 DEF w
<1>6. p + e = c * k + u
  BY <1>1
<1> HIDE DEF r, k, u, a, s, b, v
<1> DEFINE m == a + k - b
<1>7. m \in Int /\ c * m = v - s
  BY <1>1, <1>2, <1>3, <1>5, <1>6
<1>8. -c < v - s /\ v - s < c
  BY <1>3, <1>5
<1> HIDE DEF m
<1>9. m = 0
  <2>1. CASE m >= 1
    BY <1>7, <1>8, <2>1
  <2>2. CASE m <= -1
    BY <1>7, <1>8, <2>2
  <2> QED BY <1>7, <2>1, <2>2
<1>10. v = s
  BY <1>3, <1>5, <1>7, <1>9
<1> QED BY <1>10 DEF s, u, r, v

LEMMA CellIn ==
    ASSUME NEW B \in EntrySlots, NEW x \in Nat
    PROVE  Cell(B, x) \in EntrySlots
<1>1. B + x \in Nat
  BY LedgerNumbers
<1> QED BY <1>1, LedgerNumbers, PlaceIn DEF Cell

LEMMA CellDistinct ==
    ASSUME NEW B \in EntrySlots, NEW x \in EntrySlots, NEW y \in EntrySlots, x # y
    PROVE  Cell(B, x) # Cell(B, y)
<1>1. ASSUME NEW p \in EntrySlots, NEW q \in EntrySlots, p < q PROVE Cell(B, p) # Cell(B, q)
  <2>1. B + p \in Nat /\ B + q \in Nat /\ B + p < B + q /\ (B + q) - (B + p) < TableCapacity
    BY <1>1, LedgerNumbers
  <2> QED BY <2>1, LedgerNumbers, PlacesDistinct DEF Cell
<1>2. x < y \/ y < x
  BY LedgerNumbers
<1> QED BY <1>1, <1>2

LEMMA CellFound ==
    ASSUME NEW B \in EntrySlots, NEW s \in EntrySlots
    PROVE  \E x \in EntrySlots : Cell(B, x) = s
<1>1. PICK n \in 0 .. TableCapacity - 1 : (B + n) % TableCapacity = s
  <2>1. TableCapacity \in Nat \ {0} /\ B \in 0 .. TableCapacity - 1 /\ s \in 0 .. TableCapacity - 1
    BY LedgerNumbers
  <2> QED BY ONLY <2>1, PlaceFound
<1> QED BY <1>1, LedgerNumbers DEF Cell

LEMMA CellMoves ==
    ASSUME NEW B \in EntrySlots, NEW x \in Nat, NEW e \in Nat
    PROVE  Cell(Cell(B, x), e) = Cell(B, x + e)
<1> DEFINE p == B + x
<1>1. p \in Nat /\ p + e = B + (x + e)
  BY LedgerNumbers
<1> HIDE DEF p
<1>2. ((p % TableCapacity) + e) % TableCapacity = (p + e) % TableCapacity
  BY <1>1, LedgerNumbers, PlaceShift
<1> QED BY <1>1, <1>2 DEF Cell, p

LEMMA CellLaps ==
    ASSUME NEW B \in EntrySlots, NEW x \in Nat
    PROVE  Cell(B, x + TableCapacity) = Cell(B, x)
<1> DEFINE c == TableCapacity
<1>1. c \in Nat \ {0} /\ B + x \in Nat /\ B + (x + c) = (B + x) + c
  BY LedgerNumbers
<1>2. ASSUME NEW p \in Nat PROVE (p + c) % c = p % c
  <2>1. (c + p) % c = ((c % c) + p) % c
    BY <1>1, PlaceShift
  <2>2. c % c = 0
    BY <1>1
  <2> HIDE DEF c
  <2>3. c + p = p + c /\ 0 + p = p
    BY <1>1
  <2> QED BY <2>1, <2>2, <2>3
<1> HIDE DEF c
<1> QED BY <1>1, <1>2 DEF Cell, c

LEMMA CellNext ==
    ASSUME NEW B \in EntrySlots, NEW x \in Nat
    PROVE  Succ(Cell(B, x)) = Cell(B, x + 1)
<1>1. Succ(Cell(B, x)) = Cell(Cell(B, x), 1)
  BY DEF Succ, Cell
<1> QED BY <1>1, CellMoves

\* The probe of an id, from its home on.
LEMMA ProbeCell ==
    ASSUME NEW B \in EntrySlots, NEW g \in Nat, NEW e \in Nat, NEW id, Cell(B, g) = IdHash[id]
    PROVE  (IdHash[id] + e) % TableCapacity = Cell(B, g + e)
<1>1. (IdHash[id] + e) % TableCapacity = Cell(Cell(B, g), e)
  BY DEF Cell
<1> QED BY <1>1, CellMoves

\* The probe for id stops at m, counted from a base.
LEMMA ProbeStops ==
    ASSUME NEW t, NEW B \in EntrySlots, NEW id, NEW g \in Nat, NEW m \in EntrySlots, g <= m,
           Cell(B, g) = IdHash[id], t[Cell(B, m)].id \in {id, 0},
           \A z \in g .. (m - 1) : t[Cell(B, z)].id \notin {id, 0}
    PROVE  find_or_empty(t, id) = Cell(B, m)
<1> DEFINE P(d) == (IdHash[id] + d) % TableCapacity
           S == {d \in EntrySlots : t[P(d)].id \in {id, 0}}
<1>1. m \in Nat /\ m - g \in EntrySlots /\ m - g \in Nat /\ g + (m - g) = m /\ S \subseteq Nat
  BY LedgerNumbers
<1>2. P(m - g) = Cell(B, m)
  BY <1>1, ProbeCell
<1>3. m - g \in S
  BY <1>1, <1>2
<1>4. ASSUME NEW d \in S PROVE m - g <= d
  <2> SUFFICES ASSUME d < m - g PROVE FALSE
    BY <1>1
  <2>1. d \in Nat /\ g + d \in g .. (m - 1)
    BY <1>1
  <2>2. P(d) = Cell(B, g + d)
    BY <2>1, ProbeCell
  <2> QED BY <2>1, <2>2
<1>5. find_or_empty(t, id) = IF S = {} THEN Nowhere ELSE P(Min(S))
  BY DEF find_or_empty
<1> HIDE DEF S
<1>6. Min(S) \in S /\ Min(S) <= m - g /\ m - g <= Min(S)
  BY <1>1, <1>3, <1>4, MinIn
<1>7. Min(S) = m - g
  <2>1. Min(S) \in Nat /\ m - g \in Nat
    BY <1>1, <1>6
  <2> QED BY ONLY <1>6, <2>1
<1> QED BY <1>2, <1>3, <1>5, <1>7

\* Where the probe of an id stops, if it does.
LEMMA ProbeResult ==
    ASSUME NEW t, NEW id \in OrderIds
    PROVE  \/ /\ find_or_empty(t, id) = Nowhere
              /\ \A s \in EntrySlots : t[s].id \notin {id, 0}
           \/ \E m \in EntrySlots :
                 /\ find_or_empty(t, id) = Cell(IdHash[id], m) /\ t[Cell(IdHash[id], m)].id \in {id, 0}
                 /\ \A e \in 0 .. m - 1 : t[Cell(IdHash[id], e)].id \notin {id, 0}
<1> DEFINE h == IdHash[id]
           S == {d \in EntrySlots : t[Cell(h, d)].id \in {id, 0}}
<1>1. h \in EntrySlots /\ S \subseteq Nat
  BY LedgerNumbers
<1>2. find_or_empty(t, id) = IF S = {} THEN Nowhere ELSE Cell(h, Min(S))
  BY DEF find_or_empty, Cell
<1>3. CASE S = {}
  <2>1. ASSUME NEW s \in EntrySlots PROVE t[s].id \notin {id, 0}
    <3>1. PICK x \in EntrySlots : Cell(h, x) = s
      BY <1>1, CellFound
    <3> QED BY <1>3, <3>1
  <2> QED BY <1>2, <1>3, <2>1
<1>4. CASE S # {}
  <2> DEFINE m == Min(S)
  <2>1. m \in S /\ \A y \in S : m <= y
    <3> HIDE DEF S
    <3> QED BY <1>1, <1>4, MinIn
  <2>2. m \in EntrySlots /\ t[Cell(h, m)].id \in {id, 0}
    BY <2>1
  <2> HIDE DEF m
  <2>3. ASSUME NEW e \in 0 .. m - 1 PROVE t[Cell(h, e)].id \notin {id, 0}
    <3>1. e \in EntrySlots /\ ~(m <= e)
      BY <2>2, LedgerNumbers
    <3> QED BY <2>1, <3>1
  <2>4. find_or_empty(t, id) = Cell(h, m)
    BY <1>2, <1>4 DEF m
  <2> QED BY <2>2, <2>3, <2>4
<1> QED BY <1>3, <1>4

LEMMA FoundAt ==
    ASSUME NEW t, NEW id \in OrderIds, contains(t, id)
    PROVE  find(t, id) \in EntrySlots /\ t[find(t, id)].id = id
<1>1. find(t, id) # Nowhere
  BY DEF contains
<1>2. find(t, id) = find_or_empty(t, id) /\ find_or_empty(t, id) # Nowhere /\ t[find_or_empty(t, id)].id = id
  BY <1>1 DEF find
<1>3. PICK m \in EntrySlots : find_or_empty(t, id) = Cell(IdHash[id], m)
  BY <1>2, ProbeResult
<1>4. find_or_empty(t, id) \in EntrySlots
  BY <1>3, CellIn, LedgerNumbers
<1> QED BY <1>2, <1>4

\* In a good table the probe for a stored id ends at its entry.
LEMMA FindReaches ==
    ASSUME NEW t \in EntryTable, OnceEach(t), NEW B, ProbesTo(t, B), NEW s \in Taken(t)
    PROVE  find(t, t[s].id) = s
<1>1. B \in EntrySlots /\ s \in EntrySlots /\ t[s].id # 0
  BY DEF ProbesTo, Taken
<1>2. PICK x \in EntrySlots : Cell(B, x) = s
  BY <1>1, CellFound
<1>3. PICK g : PathTaken(t, B, x, g)
  BY <1>1, <1>2 DEF ProbesTo
<1>4. g \in Nat /\ g <= x /\ Cell(B, g) = IdHash[t[s].id] /\ \A z \in g .. x : t[Cell(B, z)].id # 0
  BY <1>2, <1>3 DEF PathTaken
<1>5. ASSUME NEW z \in g .. (x - 1) PROVE t[Cell(B, z)].id \notin {t[s].id, 0}
  <2>1. z \in EntrySlots /\ z # x /\ z \in g .. x /\ z \in Nat
    BY <1>4, LedgerNumbers
  <2>2. Cell(B, z) \in EntrySlots /\ Cell(B, z) # s
    BY <1>1, <1>2, <2>1, CellIn, CellDistinct
  <2>3. t[Cell(B, z)].id # 0
    BY <1>4, <2>1
  <2>4. t[Cell(B, z)].id # t[s].id
    BY <1>1, <2>2, <2>3 DEF OnceEach
  <2> QED BY <2>3, <2>4
<1>6. find_or_empty(t, t[s].id) = s
  BY <1>1, <1>2, <1>4, <1>5, ProbeStops
<1> QED BY <1>1, <1>6, LedgerNumbers DEF find

-----------------------------------------------------------------------------
\* One turn of the walk moves the entry at y to the first place m on its path that
\* is empty once the entry is out of the way.
LEMMA TurnMoves ==
    ASSUME NEW t \in EntryTable, OnceEach(t), NEW B \in EntrySlots, NEW y \in EntrySlots,
           t[Cell(B, y)].id # 0, NEW g \in Nat, NEW m \in Nat, g <= m, m <= y,
           Cell(B, g) = IdHash[t[Cell(B, y)].id], m = y \/ t[Cell(B, m)].id = 0,
           \A z \in g .. (m - 1) : t[Cell(B, z)].id # 0,
           NEW u, u = Reinserted([tab |-> t, slot |-> Cell(B, y)])
    PROVE  /\ u = [tab |-> u.tab, slot |-> Cell(B, y + 1)]
           /\ u.tab \in EntryTable /\ OnceEach(u.tab)
           /\ Cardinality(Taken(u.tab)) = Cardinality(Taken(t))
           /\ u.tab[Cell(B, m)] = t[Cell(B, y)] /\ (m # y => u.tab[Cell(B, y)].id = 0)
           /\ \A s \in EntrySlots : s # Cell(B, m) /\ s # Cell(B, y) => u.tab[s] = t[s]
           /\ m = y => u.tab = t
<1> DEFINE from == Cell(B, y)
           to == Cell(B, m)
           moved == t[from]
           cleared == [t EXCEPT ![from] = EmptyEntry]
           after == [cleared EXCEPT ![to] = moved]
<1>1. y \in Nat /\ m \in EntrySlots /\ \A z \in g .. (m - 1) : z \in EntrySlots /\ z \in Nat /\ z # y
  BY LedgerNumbers
<1>2. from \in EntrySlots /\ to \in EntrySlots /\ (m # y => to # from)
  BY <1>1, CellIn, CellDistinct
<1>3. moved \in Entry /\ moved.id # 0 /\ cleared \in EntryTable /\ cleared[from].id = 0
      /\ \A s \in EntrySlots : s # from => cleared[s] = t[s]
  BY <1>2, LedgerNumbers DEF EntryTable
<1> HIDE DEF from, to, moved, cleared
<1>4. cleared[to].id = 0
  BY <1>2, <1>3 DEF from, to
<1>5. ASSUME NEW z \in g .. (m - 1) PROVE cleared[Cell(B, z)].id \notin {moved.id, 0}
  <2>1. Cell(B, z) \in EntrySlots /\ Cell(B, z) # from
    BY <1>1, CellIn, CellDistinct DEF from
  <2>2. cleared[Cell(B, z)] = t[Cell(B, z)] /\ t[Cell(B, z)].id # 0
    BY <1>3, <2>1
  <2>3. t[Cell(B, z)].id # moved.id
    BY <1>2, <2>1, <2>2 DEF OnceEach, moved
  <2> QED BY <2>2, <2>3
<1>6. Cell(B, g) = IdHash[moved.id]
  BY DEF moved, from
<1>7. find_or_empty(cleared, moved.id) = to
  <2>1. cleared[Cell(B, m)].id \in {moved.id, 0}
    BY <1>4 DEF to
  <2>2. \A z \in g .. (m - 1) : cleared[Cell(B, z)].id \notin {moved.id, 0}
    BY <1>5
  <2>3. find_or_empty(cleared, moved.id) = Cell(B, m)
    <3>1. B \in EntrySlots /\ g \in Nat /\ m \in EntrySlots /\ g <= m
      BY <1>1
    <3> QED BY ONLY <1>6, <2>1, <2>2, <3>1, ProbeStops
  <2> QED BY <2>3 DEF to
<1>8. u = [tab |-> after, slot |-> Succ(from)]
  <2> DEFINE w == [tab |-> t, slot |-> from]
  <2>1. w.tab = t /\ w.slot = from /\ u = Reinserted(w) /\ t[from].id # 0
    BY DEF from
  <2> HIDE DEF w
  <2>2. u = [tab |-> [[w.tab EXCEPT ![w.slot] = EmptyEntry] EXCEPT
                ![find_or_empty([w.tab EXCEPT ![w.slot] = EmptyEntry], w.tab[w.slot].id)] = w.tab[w.slot]],
             slot |-> Succ(w.slot)]
    BY <2>1 DEF Reinserted
  <2> QED BY <1>7, <2>1, <2>2 DEF moved, cleared
<1>9. /\ after \in EntryTable /\ after[to] = moved
      /\ \A s \in EntrySlots : s # to => after[s] = cleared[s]
  BY <1>2, <1>3 DEF EntryTable
<1> HIDE DEF after
<1>10. u.tab = after /\ u.slot = Cell(B, y + 1) /\ u = [tab |-> u.tab, slot |-> u.slot]
  <2>1. u.tab = after /\ u.slot = Succ(from) /\ u = [tab |-> u.tab, slot |-> u.slot]
    BY ONLY <1>8
  <2>2. Succ(from) = Cell(B, y + 1)
    BY <1>1, CellNext DEF from
  <2> QED BY <2>1, <2>2
<1>11. /\ m # y => after[from].id = 0
       /\ \A s \in EntrySlots : s # to /\ s # from => after[s] = t[s]
  BY <1>2, <1>3, <1>9
<1>12. m = y => after = t
  <2> SUFFICES ASSUME m = y PROVE after = t
    OBVIOUS
  <2>1. to = from
    BY DEF to, from
  <2>2. \A s \in EntrySlots : after[s] = t[s]
    BY <1>3, <1>9, <2>1 DEF moved
  <2>3. after = [s \in EntrySlots |-> after[s]] /\ t = [s \in EntrySlots |-> t[s]]
    BY <1>9 DEF EntryTable
  <2> QED BY ONLY <2>2, <2>3
<1>13. OnceEach(after)
  <2> SUFFICES ASSUME NEW i \in EntrySlots, NEW j \in EntrySlots, after[i].id # 0,
                      after[i].id = after[j].id
               PROVE  i = j
    BY DEF OnceEach
  <2>1. CASE m = y
    BY <1>12, <2>1 DEF OnceEach
  <2>2. CASE m # y
    <3>1. i # from /\ j # from
      BY <1>11, <2>2
    <3>2. CASE i # to /\ j # to
      BY <1>11, <3>1, <3>2 DEF OnceEach
    <3>3. CASE i = to \/ j = to
      BY <1>2, <1>9, <1>11, <3>1, <3>3 DEF OnceEach, moved
    <3> QED BY <3>2, <3>3
  <2> QED BY <2>1, <2>2
<1>14. Cardinality(Taken(after)) = Cardinality(Taken(t))
  <2>1. CASE m = y
    BY <1>12, <2>1
  <2>2. CASE m # y
    <3>1. t[to].id = 0 /\ from \in Taken(t) /\ to \notin Taken(t) \ {from} /\ to \notin Taken(t)
      BY <1>2, <2>2 DEF to, from, Taken
    <3>2. Taken(after) = (Taken(t) \ {from}) \cup {to}
      BY <1>2, <1>3, <1>9, <1>11, <2>2 DEF Taken
    <3>3. IsFiniteSet(Taken(t)) /\ Cardinality(Taken(t)) \in Nat
      BY TakenFinite
    <3>4. IsFiniteSet(Taken(t) \ {from}) /\ Cardinality(Taken(t) \ {from}) = Cardinality(Taken(t)) - 1
      BY ONLY <3>1, <3>3, FS_RemoveElement
    <3>5. Cardinality((Taken(t) \ {from}) \cup {to}) = Cardinality(Taken(t) \ {from}) + 1
      BY ONLY <3>1, <3>4, FS_AddElement
    <3> QED BY ONLY <3>2, <3>3, <3>4, <3>5
  <2> QED BY <2>1, <2>2
<1> QED BY <1>9, <1>10, <1>11, <1>12, <1>13, <1>14 DEF to, from, moved

\* During the walk: everything up to y is in order, a path behind it may still
\* cross the hole at h.
PathButHole(t, B, x, g, h, y) ==
    /\ g \in 0 .. x /\ Cell(B, g) = IdHash[t[Cell(B, x)].id]
    /\ \A z \in g .. x : t[Cell(B, z)].id = 0 => z = h /\ x >= y

Walking(t, B, h, y) ==
    /\ t \in EntryTable /\ OnceEach(t) /\ B \in EntrySlots
    /\ h \in Nat /\ y \in Nat /\ h < y /\ y <= TableCapacity /\ t[Cell(B, h)].id = 0
    /\ \A x \in EntrySlots : t[Cell(B, x)].id # 0 => \E g : PathButHole(t, B, x, g, h, y)

\* At an empty slot, or at the end, the paths are whole.
LEMMA WalkDone ==
    ASSUME NEW t, NEW B, NEW h, NEW y, Walking(t, B, h, y),
           y = TableCapacity \/ t[Cell(B, y)].id = 0
    PROVE  ProbesTo(t, B)
<1>1. B \in EntrySlots /\ h \in Nat /\ y \in Nat /\ h < y /\ TableCapacity \in Nat
  BY LedgerNumbers DEF Walking
<1> SUFFICES ASSUME NEW x \in EntrySlots, t[Cell(B, x)].id # 0 PROVE \E g : PathTaken(t, B, x, g)
  BY <1>1 DEF ProbesTo
<1>2. PICK g : PathButHole(t, B, x, g, h, y)
  BY DEF Walking
<1>3. x \in Nat /\ x < TableCapacity
  BY LedgerNumbers
<1>4. g \in 0 .. x /\ Cell(B, g) = IdHash[t[Cell(B, x)].id]
      /\ \A z \in g .. x : t[Cell(B, z)].id = 0 => z = h /\ x >= y
  BY <1>2 DEF PathButHole
<1>5. ASSUME NEW z \in g .. x, t[Cell(B, z)].id = 0 PROVE FALSE
  <2>1. z = h /\ x >= y
    BY <1>4, <1>5
  <2>2. y # TableCapacity /\ y \in g .. x
    BY <1>1, <1>3, <1>4, <2>1
  <2> QED BY <1>1, <1>4, <2>2
<1> QED BY <1>4, <1>5 DEF PathTaken

\* A turn over an entry leaves the walk one slot further.
LEMMA WalkTurn ==
    ASSUME NEW t, NEW B, NEW h, NEW y, Walking(t, B, h, y), y < TableCapacity, t[Cell(B, y)].id # 0,
           NEW u, u = Reinserted([tab |-> t, slot |-> Cell(B, y)])
    PROVE  /\ u = [tab |-> u.tab, slot |-> Cell(B, y + 1)]
           /\ Cardinality(Taken(u.tab)) = Cardinality(Taken(t))
           /\ \E k : Walking(u.tab, B, k, y + 1)
<1>1. /\ t \in EntryTable /\ OnceEach(t) /\ B \in EntrySlots /\ h \in Nat /\ y \in Nat /\ h < y
      /\ t[Cell(B, h)].id = 0 /\ TableCapacity \in Nat /\ y \in EntrySlots /\ h \in EntrySlots
  BY LedgerNumbers DEF Walking
<1>2. PICK g : PathButHole(t, B, y, g, h, y)
  BY <1>1 DEF Walking
<1>3. g \in Nat /\ g <= y /\ Cell(B, g) = IdHash[t[Cell(B, y)].id]
      /\ \A z \in g .. y : t[Cell(B, z)].id = 0 => z = h
  BY <1>1, <1>2 DEF PathButHole
<1> DEFINE m == IF g <= h THEN h ELSE y
<1>4. m \in Nat /\ g <= m /\ m <= y /\ (m = y \/ t[Cell(B, m)].id = 0) /\ (m # y => m = h)
      /\ (m = y => g > h) /\ m \in EntrySlots
  BY <1>1, <1>3
<1>5. ASSUME NEW z \in g .. (m - 1) PROVE t[Cell(B, z)].id # 0
  <2>1. z \in g .. y /\ z # h
    BY <1>1, <1>3
  <2> QED BY <1>3, <2>1
<1> HIDE DEF m
<1>6. /\ u = [tab |-> u.tab, slot |-> Cell(B, y + 1)]
      /\ u.tab \in EntryTable /\ OnceEach(u.tab)
      /\ Cardinality(Taken(u.tab)) = Cardinality(Taken(t))
      /\ u.tab[Cell(B, m)] = t[Cell(B, y)] /\ (m # y => u.tab[Cell(B, y)].id = 0)
      /\ \A s \in EntrySlots : s # Cell(B, m) /\ s # Cell(B, y) => u.tab[s] = t[s]
      /\ m = y => u.tab = t
  BY <1>1, <1>3, <1>4, <1>5, TurnMoves
<1>7. CASE m = y
  <2>1. ASSUME NEW x \in EntrySlots, t[Cell(B, x)].id # 0 PROVE \E f : PathButHole(t, B, x, f, h, y + 1)
    <3>1. CASE x = y
      <4>1. \A z \in g .. y : z # h
        BY <1>1, <1>3, <1>4, <1>7
      <4>2. PathButHole(t, B, x, g, h, y + 1)
        BY <1>3, <3>1, <4>1 DEF PathButHole
      <4> QED BY <4>2
    <3>2. CASE x # y
      <4>1. PICK f : PathButHole(t, B, x, f, h, y)
        BY <2>1 DEF Walking
      <4>2. x \in Nat /\ (x >= y => x >= y + 1)
        BY <1>1, <3>2, LedgerNumbers
      <4>3. PathButHole(t, B, x, f, h, y + 1)
        BY <4>1, <4>2 DEF PathButHole
      <4> QED BY <4>3
    <3> QED BY <3>1, <3>2
  <2>2. h < y + 1 /\ y + 1 \in Nat /\ y + 1 <= TableCapacity
    BY <1>1
  <2>3. Walking(t, B, h, y + 1)
    BY <1>1, <2>1, <2>2 DEF Walking
  <2> QED BY <1>6, <1>7, <2>3
<1>8. CASE m # y
  <2> DEFINE a == u.tab
  <2>1. /\ m = h /\ \A x \in EntrySlots : x # h /\ x # y => a[Cell(B, x)] = t[Cell(B, x)]
        /\ a[Cell(B, h)] = t[Cell(B, y)] /\ a[Cell(B, y)].id = 0
    <3>1. ASSUME NEW x \in EntrySlots, x # h, x # y PROVE a[Cell(B, x)] = t[Cell(B, x)]
      <4>1. Cell(B, x) \in EntrySlots /\ Cell(B, x) # Cell(B, m) /\ Cell(B, x) # Cell(B, y)
        BY <1>1, <1>4, <1>8, <3>1, CellIn, CellDistinct, LedgerNumbers
      <4> QED BY <1>6, <4>1
    <3> QED BY <1>4, <1>6, <1>8, <3>1
  <2>2. ASSUME NEW x \in EntrySlots, a[Cell(B, x)].id # 0 PROVE \E f : PathButHole(a, B, x, f, y, y + 1)
    <3>0. x # y /\ x \in Nat
      BY <2>1, <2>2, LedgerNumbers
    <3>1. CASE x = h
      <4>1. ASSUME NEW z \in g .. h PROVE a[Cell(B, z)].id # 0
        <5>1. z \in EntrySlots /\ z # y /\ z \in g .. y
          BY <1>1, <1>3, LedgerNumbers
        <5>2. CASE z = h
          BY <2>1, <5>2
        <5>3. CASE z # h
          BY <1>3, <2>1, <5>1, <5>3
        <5> QED BY <5>2, <5>3
      <4>2. g \in 0 .. h /\ Cell(B, g) = IdHash[a[Cell(B, h)].id]
        BY <1>1, <1>3, <1>4, <2>1
      <4>3. PathButHole(a, B, x, g, y, y + 1)
        BY <3>1, <4>1, <4>2 DEF PathButHole
      <4> QED BY <4>3
    <3>2. CASE x # h
      <4>1. a[Cell(B, x)] = t[Cell(B, x)]
        BY <2>1, <3>0, <3>2
      <4>2. PICK f : PathButHole(t, B, x, f, h, y)
        BY <2>2, <4>1 DEF Walking
      <4>3. /\ f \in 0 .. x /\ Cell(B, f) = IdHash[a[Cell(B, x)].id]
            /\ \A z \in f .. x : t[Cell(B, z)].id = 0 => z = h
        BY <4>1, <4>2 DEF PathButHole
      <4>4. ASSUME NEW z \in f .. x, a[Cell(B, z)].id = 0 PROVE z = y /\ x >= y + 1
        <5>1. z \in EntrySlots /\ z \in Nat
          BY <4>3, LedgerNumbers
        <5>2. z # h
          BY <2>1, <4>4
        <5>3. z = y
          BY <2>1, <4>3, <4>4, <5>1, <5>2
        <5> QED BY <1>1, <3>0, <4>3, <5>1, <5>3
      <4>5. PathButHole(a, B, x, f, y, y + 1)
        BY <4>3, <4>4 DEF PathButHole
      <4> QED BY <4>5
    <3> QED BY <3>1, <3>2
  <2>3. y < y + 1 /\ y + 1 \in Nat /\ y + 1 <= TableCapacity
    BY <1>1
  <2>4. a \in EntryTable /\ OnceEach(a)
    BY <1>6
  <2> HIDE DEF a
  <2>5. Walking(a, B, y, y + 1)
    BY <1>1, <2>1, <2>2, <2>3, <2>4 DEF Walking
  <2> QED BY <1>6, <2>5 DEF a
<1> QED BY <1>7, <1>8

\* A turn over a good table puts the entry back where it was.
LEMMA GoodTurn ==
    ASSUME NEW t \in EntryTable, OnceEach(t), NEW B, ProbesTo(t, B), NEW s \in EntrySlots
    PROVE  Reinserted([tab |-> t, slot |-> s]).tab = t
<1>1. CASE t[s].id = 0
  BY <1>1 DEF Reinserted
<1>2. CASE t[s].id # 0
  <2>1. B \in EntrySlots
    BY DEF ProbesTo
  <2>2. PICK y \in EntrySlots : Cell(B, y) = s
    BY <2>1, CellFound
  <2>3. PICK g : PathTaken(t, B, y, g)
    BY <1>2, <2>2 DEF ProbesTo
  <2>4. /\ g \in Nat /\ g <= y /\ y \in Nat /\ Cell(B, g) = IdHash[t[Cell(B, y)].id]
        /\ \A z \in g .. (y - 1) : t[Cell(B, z)].id # 0
    BY <2>3, LedgerNumbers DEF PathTaken
  <2> DEFINE u == Reinserted([tab |-> t, slot |-> Cell(B, y)])
  <2>5. u.tab = t
    <3>1. u = Reinserted([tab |-> t, slot |-> Cell(B, y)]) /\ y <= y /\ (y = y \/ t[Cell(B, y)].id = 0)
      BY <2>4
    <3>2. t[Cell(B, y)].id # 0
      BY <1>2, <2>2
    <3> HIDE DEF u
    <3> QED BY <2>1, <2>4, <3>1, <3>2, TurnMoves
  <2> QED BY <2>2, <2>5
<1> QED BY <1>1, <1>2

-----------------------------------------------------------------------------
WalkState == [tab : EntryTable, slot : EntrySlots]

\* A turn never loses an entry for want of a place: the one it left is empty.
LEMMA TurnTypes ==
    ASSUME NEW w \in WalkState
    PROVE  Reinserted(w) \in WalkState
<1>1. w.tab \in EntryTable /\ w.slot \in EntrySlots /\ w.tab[w.slot] \in Entry
  BY DEF WalkState, EntryTable
<1>2. CASE w.tab[w.slot].id = 0
  BY <1>2 DEF Reinserted
<1>3. CASE w.tab[w.slot].id # 0
  <2> DEFINE cleared == [w.tab EXCEPT ![w.slot] = EmptyEntry]
             id == w.tab[w.slot].id
             home == find_or_empty(cleared, id)
  <2>1. cleared \in EntryTable /\ cleared[w.slot].id = 0 /\ id \in OrderIds
    BY <1>1, <1>3, LedgerNumbers DEF EntryTable, Entry
  <2>2. home \in EntrySlots
    <3> HIDE DEF cleared, id
    <3>1. PICK m \in EntrySlots : find_or_empty(cleared, id) = Cell(IdHash[id], m)
      BY <1>1, <2>1, ProbeResult
    <3> QED BY <2>1, <3>1, CellIn, LedgerNumbers
  <2>3. Reinserted(w) = [tab |-> [cleared EXCEPT ![home] = w.tab[w.slot]], slot |-> Succ(w.slot)]
    BY <1>3 DEF Reinserted
  <2> HIDE DEF cleared, id, home
  <2>4. [cleared EXCEPT ![home] = w.tab[w.slot]] \in EntryTable
    BY <1>1, <2>1, <2>2 DEF EntryTable
  <2>5. Succ(w.slot) \in EntrySlots
    <3>1. w.slot + 1 \in Nat
      BY <1>1, LedgerNumbers
    <3> QED BY <3>1, LedgerNumbers, PlaceIn DEF Succ
  <2> QED BY <2>3, <2>4, <2>5 DEF WalkState
<1> QED BY <1>2, <1>3

\* F lists the states of the walk.
WalkTurns(F, t, removed, N) ==
    /\ F \in [0 .. N -> WalkState] /\ F[0] = [tab |-> t, slot |-> Succ(removed)]
    /\ \A n \in 1 .. N : F[n] = Reinserted(F[n - 1])
    /\ reinsert_cluster(t, removed) = F[N].tab

\* The walk is its turns, one after the other.
LEMMA WalkIsTurns ==
    ASSUME NEW t \in EntryTable, NEW removed \in EntrySlots, NEW N, N = 2 * TableCapacity
    PROVE  \E F : WalkTurns(F, t, removed, N)
<1> DEFINE x == [tab |-> t, slot |-> Succ(removed)]
           step == [i \in 1 .. N |-> [w \in WalkState |-> Reinserted(w)]]
           body(g) == [s \in SUBSET (1 .. N) |-> IF s = {} THEN x ELSE Reinserted(g[s \ {Max(s)}])]
           fold == CHOOSE g : g = body(g)
<1>0. N \in Nat
  BY LedgerNumbers
<1>1. reinsert_cluster(t, removed) = fold[1 .. N].tab
  BY DEF reinsert_cluster, FoldLeft, MapThenFoldSet
<1>2. x \in WalkState
  <2>1. removed + 1 \in Nat
    BY LedgerNumbers
  <2>2. Succ(removed) \in EntrySlots
    BY <2>1, LedgerNumbers, PlaceIn DEF Succ
  <2> QED BY <2>2 DEF WalkState
<1>3. step \in [1 .. N -> [WalkState -> WalkState]]
  BY TurnTypes
<1> HIDE DEF x
<1>4. PICK f : Folds(f, step, x, WalkState, N)
  <2> HIDE DEF step
  <2> QED BY ONLY <1>0, <1>2, <1>3, FoldsExist
<1>5. \A s \in SUBSET (1 .. N) : s # {} => Max(s) \in s
  <2> TAKE s \in SUBSET (1 .. N)
  <2>1. s \subseteq 0 .. N
    BY <1>0
  <2> QED BY <1>0, <2>1, MaxIn
<1>6. f = body(f)
  <2>1. ASSUME NEW s \in SUBSET (1 .. N) PROVE f[s] = body(f)[s]
    <3>1. CASE s = {}
      BY <1>4, <3>1 DEF Folds
    <3>2. CASE s # {}
      <4>1. Max(s) \in 1 .. N /\ s \ {Max(s)} \in SUBSET (1 .. N)
        BY <1>5, <3>2
      <4>2. f[s \ {Max(s)}] \in WalkState /\ f[s] = step[Max(s)][f[s \ {Max(s)}]]
        BY <1>4, <3>2, <4>1 DEF Folds
      <4>3. step[Max(s)][f[s \ {Max(s)}]] = Reinserted(f[s \ {Max(s)}])
        BY <4>1, <4>2
      <4> QED BY <3>2, <4>2, <4>3
    <3> QED BY <3>1, <3>2
  <2> QED BY <1>4, <2>1 DEF Folds
<1>7. fold = body(fold)
  <2> HIDE DEF body
  <2> QED BY <1>6
<1> HIDE DEF fold
<1>8. fold[{}] = x /\ fold[1 .. 0] = x
  <2>1. 1 .. 0 = {}
    OBVIOUS
  <2> QED BY <1>7, <2>1
<1>9. ASSUME NEW n \in 1 .. N PROVE fold[1 .. n] = Reinserted(fold[1 .. (n - 1)])
  <2>1. \A i \in 1 .. n : i \in 1 .. N
    BY <1>0
  <2>2. n \in 1 .. n /\ n \in Nat \ {0}
    BY <1>0
  <2>3. fold[1 .. n] = Reinserted(fold[(1 .. n) \ {Max(1 .. n)}])
    BY <1>7, <2>1, <2>2
  <2> QED BY <2>2, <2>3, MaxPrefix
<1> DEFINE S == {n \in Nat : n <= N => fold[1 .. n] \in WalkState}
<1>10. 0 \in S
  BY <1>2, <1>8
<1>11. \A n \in Nat : n \in S => n + 1 \in S
  <2> SUFFICES ASSUME NEW n \in Nat, n \in S, n + 1 <= N PROVE fold[1 .. (n + 1)] \in WalkState
    OBVIOUS
  <2>1. n + 1 \in 1 .. N /\ (n + 1) - 1 = n /\ n <= N
    BY <1>0
  <2>2. fold[1 .. (n + 1)] = Reinserted(fold[1 .. n])
    BY <1>9, <2>1
  <2> QED BY <2>1, <2>2, TurnTypes
<1>12. \A n \in Nat : n \in S
  <2> HIDE DEF S
  <2> QED BY <1>10, <1>11, NatSetInduction
<1> DEFINE F == [n \in 0 .. N |-> fold[1 .. n]]
<1>13. F \in [0 .. N -> WalkState]
  BY <1>0, <1>12
<1>14. F[0] = x /\ F[N] = fold[1 .. N]
  BY <1>0, <1>8
<1>15. \A n \in 1 .. N : F[n] = Reinserted(F[n - 1])
  BY <1>0, <1>9
<1> HIDE DEF F
<1>16. WalkTurns(F, t, removed, N)
  BY <1>1, <1>13, <1>14, <1>15 DEF x, WalkTurns
<1> QED BY <1>16

\* Freeing an entry and walking on behind it leaves a good table without it.
LEMMA WalkMends ==
    ASSUME NEW t \in EntryTable, OnceEach(t), NEW B, ProbesTo(t, B), NEW removed \in Taken(t),
           NEW u, u = reinsert_cluster([t EXCEPT ![removed] = EmptyEntry], removed)
    PROVE  u \in EntryTable /\ OnceEach(u) /\ ProbesTo(u, B)
           /\ Cardinality(Taken(u)) = Cardinality(Taken(t)) - 1
<1> DEFINE t0 == [t EXCEPT ![removed] = EmptyEntry]
           N == 2 * TableCapacity
           K == Cardinality(Taken(t)) - 1
<1>1. /\ removed \in EntrySlots /\ B \in EntrySlots /\ N \in Nat /\ TableCapacity \in Nat \ {0}
      /\ TableCapacity <= N
  BY LedgerNumbers DEF Taken, ProbesTo
<1>2. /\ t0 \in EntryTable /\ t0[removed].id = 0
      /\ \A s \in EntrySlots : s # removed => t0[s] = t[s]
  BY <1>1, LedgerNumbers DEF EntryTable
<1>3. PICK r \in EntrySlots : Cell(B, r) = removed
  BY <1>1, CellFound
<1>4. r \in Nat /\ r < TableCapacity
  BY LedgerNumbers
<1> HIDE DEF t0, K
<1>5. OnceEach(t0)
  BY <1>1, <1>2 DEF OnceEach
<1>6. Cardinality(Taken(t0)) = K
  <2>1. Taken(t0) = Taken(t) \ {removed}
    BY <1>1, <1>2 DEF Taken
  <2> QED BY <2>1, TakenFinite, FS_RemoveElement DEF K
<1>7. Walking(t0, B, r, r + 1)
  <2>1. ASSUME NEW x \in EntrySlots, t0[Cell(B, x)].id # 0 PROVE \E g : PathButHole(t0, B, x, g, r, r + 1)
    <3>1. x # r /\ x \in Nat /\ Cell(B, x) \in EntrySlots
      BY <1>1, <1>2, <1>3, <2>1, CellIn, LedgerNumbers
    <3>2. Cell(B, x) # removed /\ t0[Cell(B, x)] = t[Cell(B, x)]
      BY <1>1, <1>2, <1>3, <3>1, CellDistinct
    <3>3. PICK g : PathTaken(t, B, x, g)
      BY <2>1, <3>2 DEF ProbesTo
    <3>4. /\ g \in 0 .. x /\ Cell(B, g) = IdHash[t0[Cell(B, x)].id]
          /\ \A z \in g .. x : t[Cell(B, z)].id # 0
      BY <3>2, <3>3 DEF PathTaken
    <3>5. ASSUME NEW z \in g .. x, t0[Cell(B, z)].id = 0 PROVE z = r /\ x >= r + 1
      <4>1. z \in EntrySlots /\ z \in Nat /\ z <= x
        BY <3>4, LedgerNumbers
      <4>2. z = r
        <5> SUFFICES ASSUME z # r PROVE FALSE
          OBVIOUS
        <5>1. Cell(B, z) \in EntrySlots /\ Cell(B, z) # removed
          BY <1>1, <1>3, <4>1, CellIn, CellDistinct
        <5> QED BY <1>2, <3>4, <3>5, <5>1
      <4> QED BY <1>4, <3>1, <4>1, <4>2
    <3>6. PathButHole(t0, B, x, g, r, r + 1)
      BY <3>4, <3>5 DEF PathButHole
    <3> QED BY <3>6
  <2>2. r + 1 \in Nat /\ r < r + 1 /\ r + 1 <= TableCapacity
    BY <1>1, <1>4
  <2> QED BY <1>1, <1>2, <1>3, <1>4, <1>5, <2>1, <2>2 DEF Walking
<1>8. u = reinsert_cluster(t0, removed)
  BY DEF t0
<1>9. PICK F \in [0 .. N -> WalkState] :
              /\ F[0] = [tab |-> t0, slot |-> Succ(removed)]
              /\ \A n \in 1 .. N : F[n] = Reinserted(F[n - 1])
              /\ u = F[N].tab
  <2> HIDE DEF N
  <2>1. N = 2 * TableCapacity
    BY DEF N
  <2>2. PICK F : WalkTurns(F, t0, removed, N)
    BY ONLY <1>1, <1>2, <2>1, WalkIsTurns
  <2> QED BY ONLY <1>8, <2>2 DEF WalkTurns
<1> HIDE DEF N
<1> DEFINE Mended(w) == OnceEach(w.tab) /\ ProbesTo(w.tab, B)
           UnderWay(w, y) == y < TableCapacity /\ w.slot = Cell(B, y) /\ \E h : Walking(w.tab, B, h, y)
           S == {n \in Nat : n <= N => /\ Cardinality(Taken(F[n].tab)) = K
                                       /\ Mended(F[n]) \/ UnderWay(F[n], r + 1 + n)}
<1>10. \A n \in 0 .. N : F[n] = [tab |-> F[n].tab, slot |-> F[n].slot]
                         /\ F[n].tab \in EntryTable /\ F[n].slot \in EntrySlots
  BY <1>9 DEF WalkState
<1>11. 0 \in S
  <2>1. F[0].tab = t0 /\ F[0].slot = Cell(B, r + 1) /\ r + 1 + 0 = r + 1
    BY <1>1, <1>3, <1>4, <1>9, CellNext
  <2>2. CASE r + 1 = TableCapacity
    BY <1>5, <1>6, <1>7, <2>1, <2>2, WalkDone
  <2>3. CASE r + 1 # TableCapacity
    <3>1. r + 1 < TableCapacity
      BY <1>1, <1>4, <2>3
    <3> QED BY <1>6, <1>7, <2>1, <3>1
  <2> QED BY <2>2, <2>3
<1>12. ASSUME NEW n \in Nat, n \in S PROVE n + 1 \in S
  <2> SUFFICES ASSUME n + 1 <= N
               PROVE  /\ Cardinality(Taken(F[n + 1].tab)) = K
                      /\ Mended(F[n + 1]) \/ UnderWay(F[n + 1], r + 1 + (n + 1))
    OBVIOUS
  <2>1. n \in 0 .. N /\ n + 1 \in 1 .. N /\ (n + 1) - 1 = n /\ n <= N
    BY <1>1
  <2>2. F[n + 1] = Reinserted(F[n]) /\ Cardinality(Taken(F[n].tab)) = K
    BY <1>9, <1>12, <2>1
  <2> DEFINE a == F[n].tab
             p == F[n].slot
             v == F[n + 1]
             y == r + 1 + n
  <2>3. a \in EntryTable /\ p \in EntrySlots /\ v = Reinserted([tab |-> a, slot |-> p])
    BY <1>10, <2>1, <2>2
  <2>4. y \in Nat /\ r + 1 + (n + 1) = y + 1
    BY <1>4
  <2>5. Mended(F[n]) \/ UnderWay(F[n], y)
    BY <1>12, <2>1
  <2> HIDE DEF v, y, a, p
  <2>6. CASE OnceEach(a) /\ ProbesTo(a, B)
    <3>1. v.tab = a
      BY <2>3, <2>6, GoodTurn
    <3> QED BY <2>2, <2>6, <3>1 DEF v, a
  <2>7. ASSUME NEW h, y < TableCapacity, p = Cell(B, y), Walking(a, B, h, y)
        PROVE  /\ Cardinality(Taken(v.tab)) = K
               /\ Mended(v) \/ UnderWay(v, y + 1)
    <3>1. CASE a[p].id = 0
      <4>1. OnceEach(a) /\ ProbesTo(a, B)
        BY <2>7, <3>1, WalkDone DEF Walking
      <4>2. v.tab = a
        BY <2>3, <4>1, GoodTurn
      <4> QED BY <2>2, <4>1, <4>2 DEF a
    <3>2. CASE a[p].id # 0
      <4>1. /\ v = [tab |-> v.tab, slot |-> Cell(B, y + 1)]
            /\ Cardinality(Taken(v.tab)) = Cardinality(Taken(a))
            /\ \E k : Walking(v.tab, B, k, y + 1)
        BY <2>3, <2>7, <3>2, WalkTurn
      <4>2. v.slot = Cell(B, y + 1)
        BY ONLY <4>1
      <4>3. PICK k : Walking(v.tab, B, k, y + 1)
        BY <4>1
      <4>4. CASE y + 1 = TableCapacity
        <5>1. ProbesTo(v.tab, B) /\ OnceEach(v.tab)
          BY <4>3, <4>4, WalkDone DEF Walking
        <5> QED BY <2>2, <4>1, <5>1 DEF a
      <4>5. CASE y + 1 # TableCapacity
        <5>1. y + 1 < TableCapacity
          BY <1>1, <2>4, <2>7, <4>5
        <5> QED BY <2>2, <4>1, <4>2, <4>3, <5>1 DEF a
      <4> QED BY <4>4, <4>5
    <3> QED BY <3>1, <3>2
  <2> QED BY <2>4, <2>5, <2>6, <2>7 DEF v, a, p
<1>13. \A n \in Nat : n \in S
  <2> HIDE DEF S
  <2> QED BY <1>11, <1>12, NatSetInduction
<1>14. N \in S /\ N \in 0 .. N /\ ~(r + 1 + N < TableCapacity)
  BY <1>1, <1>4, <1>13
<1>15. Cardinality(Taken(u)) = K /\ OnceEach(u) /\ ProbesTo(u, B)
  BY <1>9, <1>14
<1> QED BY <1>9, <1>10, <1>14, <1>15 DEF K

\* From the slot behind y on, every path that avoids y keeps its direction.
LEMMA Rebased ==
    ASSUME NEW t, NEW B, ProbesTo(t, B), NEW y \in EntrySlots, t[Cell(B, y)].id = 0,
           NEW A, A = Cell(B, y + 1)
    PROVE  ProbesTo(t, A) /\ Cell(A, TableCapacity - 1) = Cell(B, y)
<1> DEFINE c == TableCapacity
<1>1. B \in EntrySlots /\ y \in Nat /\ y < c /\ c \in Nat \ {0}
  BY LedgerNumbers DEF ProbesTo
<1>2. A \in EntrySlots /\ y + 1 \in Nat
  <2>1. y + 1 \in Nat
    BY ONLY <1>1
  <2>2. Cell(B, y + 1) \in EntrySlots
    BY ONLY <1>1, <2>1, CellIn
  <2> QED BY ONLY <2>1, <2>2, A = Cell(B, y + 1)
<1>3. ASSUME NEW x \in Nat PROVE Cell(A, x) = Cell(B, y + 1 + x)
  <2>1. Cell(Cell(B, y + 1), x) = Cell(B, (y + 1) + x)
    BY ONLY x \in Nat, <1>1, <1>2, CellMoves
  <2> QED BY <2>1
<1>4. ASSUME NEW x \in Nat PROVE Cell(B, x + c) = Cell(B, x)
  BY <1>1, <1>4, CellLaps
\* x' is x seen from A.
<1> DEFINE Seen(x) == IF x > y THEN x - (y + 1) ELSE x + c - (y + 1)
<1>5. ASSUME NEW x \in EntrySlots PROVE Seen(x) \in EntrySlots /\ Seen(x) \in Nat /\ Cell(A, Seen(x)) = Cell(B, x)
  <2>1. x \in Nat /\ x < c
    BY LedgerNumbers
  <2>2. CASE x > y
    <3>1. x - (y + 1) \in Nat /\ x - (y + 1) < c /\ y + 1 + (x - (y + 1)) = x
      BY <1>1, <2>1, <2>2
    <3>2. Seen(x) = x - (y + 1)
      BY <2>2
    <3>3. x - (y + 1) \in EntrySlots
      BY <1>1, <3>1, LedgerNumbers
    <3> QED BY <1>3, <3>1, <3>2, <3>3
  <2>3. CASE ~(x > y)
    <3>1. x + c - (y + 1) \in Nat /\ x + c - (y + 1) < c /\ y + 1 + (x + c - (y + 1)) = x + c
      BY <1>1, <2>1, <2>3
    <3>2. Seen(x) = x + c - (y + 1)
      BY <2>3
    <3>3. x + c - (y + 1) \in EntrySlots
      BY <1>1, <3>1, LedgerNumbers
    <3> QED BY <1>3, <1>4, <2>1, <3>1, <3>2, <3>3
  <2> QED BY <2>2, <2>3
<1>6. Cell(A, c - 1) = Cell(B, y)
  <2>1. Seen(y) = c - 1
    BY <1>1
  <2> QED BY <1>5, <2>1
<1>7. ASSUME NEW q \in EntrySlots, t[Cell(A, q)].id # 0 PROVE \E f : PathTaken(t, A, q, f)
  <2>0. q \in Nat /\ Cell(A, q) \in EntrySlots
    BY <1>2, CellIn, LedgerNumbers
  <2>1. PICK x \in EntrySlots : Cell(B, x) = Cell(A, q)
    BY ONLY <1>1, <2>0, CellFound
  <2>2. Seen(x) = q
    <3> HIDE DEF Seen
    <3>1. Seen(x) \in EntrySlots /\ Cell(A, Seen(x)) = Cell(A, q)
      BY <1>5, <2>1
    <3> QED BY <1>2, <3>1, CellDistinct
  <2>3. PICK g : PathTaken(t, B, x, g)
    BY <1>7, <2>1 DEF ProbesTo
  <2>4. /\ g \in Nat /\ g <= x /\ x \in Nat /\ x < c /\ Cell(B, g) = IdHash[t[Cell(B, x)].id]
        /\ \A z \in g .. x : t[Cell(B, z)].id # 0
    BY <2>3, LedgerNumbers DEF PathTaken
  <2>5. ~(y \in g .. x)
    BY <2>4
  <2>6. (g > y /\ x > y) \/ (g < y /\ x < y)
    BY <1>1, <2>4, <2>5
  <2> DEFINE f == Seen(g)
  <2>7. f \in 0 .. q /\ q - f = x - g /\ q \in Nat /\ f \in Nat /\ g \in EntrySlots
    <3>1. CASE g > y /\ x > y
      BY <1>1, <2>2, <2>4, <3>1, LedgerNumbers
    <3>2. CASE g < y /\ x < y
      BY <1>1, <2>2, <2>4, <3>2, LedgerNumbers
    <3> QED BY <2>6, <3>1, <3>2
  <2>8. Cell(A, f) = Cell(B, g)
    <3> HIDE DEF Seen
    <3> QED BY <1>5, <2>7
  <2>9. ASSUME NEW z \in f .. q PROVE t[Cell(A, z)].id # 0
    <3>1. z - f \in Nat /\ f + (z - f) = z /\ g + (z - f) \in g .. x
      <4> HIDE DEF f
      <4> QED BY <2>4, <2>7
    <3>2. Cell(A, z) = Cell(Cell(A, f), z - f)
      <4> HIDE DEF f
      <4> QED BY <1>2, <2>7, <3>1, CellMoves
    <3>3. Cell(B, g + (z - f)) = Cell(Cell(B, g), z - f)
      <4> HIDE DEF f
      <4> QED BY <1>1, <2>4, <3>1, CellMoves
    <3> QED BY <2>4, <2>8, <3>1, <3>2, <3>3
  <2> HIDE DEF f, Seen
  <2>10. PathTaken(t, A, q, f)
    BY <2>1, <2>4, <2>7, <2>8, <2>9 DEF PathTaken
  <2> QED BY <2>10
<1> QED BY <1>2, <1>6, <1>7 DEF ProbesTo

\* A new entry goes where its probe stops; counted from the slot behind it, its own
\* path ends at the last slot.
LEMMA RegisterGood ==
    ASSUME NEW t, GoodTable(t), NEW id \in OrderIds, NEW v \in Entry, v.id = id,
           NEW p, p = find_or_empty(t, id), p # Nowhere, t[p].id = 0, NEW u, u = [t EXCEPT ![p] = v]
    PROVE  GoodTable(u) /\ Cardinality(Taken(u)) = Cardinality(Taken(t)) + 1
<1> DEFINE c == TableCapacity
           h == IdHash[id]
<1>1. t \in EntryTable /\ OnceEach(t) /\ c \in Nat \ {0} /\ h \in EntrySlots /\ id # 0
  BY LedgerNumbers DEF GoodTable
<1>2. PICK B : ProbesTo(t, B)
  BY DEF GoodTable
<1>3. PICK m \in EntrySlots : /\ p = Cell(h, m)
                              /\ \A e \in 0 .. m - 1 : t[Cell(h, e)].id \notin {id, 0}
  BY ProbeResult
<1>4. p \in EntrySlots /\ m \in Nat /\ m < c
  <2>1. m \in Nat /\ m < c
    BY LedgerNumbers
  <2> HIDE DEF h
  <2> QED BY <1>1, <1>3, <2>1, CellIn
<1>5. /\ u \in EntryTable /\ u[p].id = id
      /\ \A s \in EntrySlots : s # p => u[s] = t[s]
  BY <1>1, <1>4 DEF EntryTable, Entry
<1>6. \A s \in EntrySlots : t[s].id # id
  <2> SUFFICES ASSUME NEW s \in EntrySlots, t[s].id = id PROVE FALSE
    OBVIOUS
  <2>1. s \in Taken(t)
    BY <1>1 DEF Taken
  <2>2. find(t, id) = s
    BY <1>1, <1>2, <2>1, FindReaches
  <2>3. find(t, id) = Nowhere
    BY <1>1 DEF find
  <2> QED BY <2>2, <2>3, LedgerNumbers
<1>7. OnceEach(u)
  <2> SUFFICES ASSUME NEW i \in EntrySlots, NEW j \in EntrySlots, u[i].id # 0, u[i].id = u[j].id
               PROVE  i = j
    BY DEF OnceEach
  <2>1. CASE i # p /\ j # p
    BY <1>1, <1>5, <2>1 DEF OnceEach
  <2>2. CASE i = p \/ j = p
    BY <1>5, <1>6, <2>2
  <2> QED BY <2>1, <2>2
<1>8. PICK y \in EntrySlots : Cell(B, y) = p
  BY <1>2, <1>4, CellFound DEF ProbesTo
<1> DEFINE A == Cell(B, y + 1)
<1>9. ProbesTo(t, A) /\ Cell(A, c - 1) = p
  BY <1>2, <1>8, Rebased
<1>10. A \in EntrySlots /\ c - 1 \in EntrySlots /\ c - 1 \in Nat
  BY <1>1, <1>9, LedgerNumbers DEF ProbesTo
<1> HIDE DEF A, c, h
<1>11. ASSUME NEW x \in EntrySlots, u[Cell(A, x)].id # 0 PROVE \E g : PathTaken(u, A, x, g)
  <2>1. \A z \in EntrySlots : Cell(A, z) \in EntrySlots
    BY <1>10, CellIn, LedgerNumbers
  <2>2. \A z \in EntrySlots : z # c - 1 => u[Cell(A, z)] = t[Cell(A, z)]
    BY <1>5, <1>9, <1>10, <2>1, CellDistinct
  <2>3. CASE x # c - 1
    <3>1. PICK g : PathTaken(t, A, x, g)
      BY <1>9, <1>11, <2>2, <2>3 DEF ProbesTo
    <3>2. /\ g \in 0 .. x /\ Cell(A, g) = IdHash[u[Cell(A, x)].id]
          /\ \A z \in g .. x : t[Cell(A, z)].id # 0
      BY <2>2, <2>3, <3>1 DEF PathTaken
    <3>3. ASSUME NEW z \in g .. x PROVE u[Cell(A, z)].id # 0
      <4>1. z \in EntrySlots /\ z # c - 1
        BY <1>1, <2>3, <3>2, LedgerNumbers DEF c
      <4> QED BY <2>2, <3>2, <4>1
    <3>4. PathTaken(u, A, x, g)
      BY <3>2, <3>3 DEF PathTaken
    <3> QED BY <3>4
  <2>4. CASE x = c - 1
    <3>1. PICK g \in EntrySlots : Cell(A, g) = h
      BY <1>1, <1>10, CellFound
    <3>2. g \in Nat /\ g <= c - 1
      BY <1>1, LedgerNumbers DEF c
    <3>3. ASSUME NEW e \in Nat PROVE Cell(h, e) = Cell(A, g + e)
      BY <1>10, <3>1, <3>2, <3>3, CellMoves
    <3>4. m = c - 1 - g
      <4> SUFFICES ASSUME m # c - 1 - g PROVE FALSE
        OBVIOUS
      <4>1. c - 1 - g \in EntrySlots /\ c - 1 - g \in Nat /\ g + (c - 1 - g) = c - 1
        BY <1>1, <3>2, LedgerNumbers DEF c
      <4>2. Cell(h, c - 1 - g) = p
        BY <1>9, <3>3, <4>1
      <4> QED BY <1>1, <1>3, <4>1, <4>2, CellDistinct
    <3>5. ASSUME NEW z \in g .. (c - 1) PROVE u[Cell(A, z)].id # 0
      <4>1. CASE z = c - 1
        BY <1>1, <1>5, <1>9, <4>1
      <4>2. CASE z # c - 1
        <5>1. z - g \in Nat /\ z - g \in 0 .. m - 1 /\ g + (z - g) = z /\ z \in EntrySlots
          BY <1>1, <3>2, <3>4, <4>2, LedgerNumbers DEF c
        <5>2. Cell(h, z - g) = Cell(A, z)
          BY <3>3, <5>1
        <5>3. t[Cell(A, z)].id # 0
          BY <1>3, <5>1, <5>2
        <5> QED BY <2>2, <4>2, <5>1, <5>3
      <4> QED BY <4>1, <4>2
    <3>6. g \in 0 .. (c - 1) /\ Cell(A, g) = IdHash[u[Cell(A, c - 1)].id]
      BY <1>1, <1>5, <1>9, <3>1, <3>2 DEF h
    <3>7. PathTaken(u, A, x, g)
      BY <2>4, <3>5, <3>6 DEF PathTaken
    <3> QED BY <3>7
  <2> QED BY <2>3, <2>4
<1>12. ProbesTo(u, A)
  BY <1>10, <1>11 DEF ProbesTo
<1>13. Cardinality(Taken(u)) = Cardinality(Taken(t)) + 1
  <2>1. p \notin Taken(t) /\ Taken(u) = Taken(t) \cup {p}
    BY <1>1, <1>4, <1>5 DEF Taken
  <2>2. IsFiniteSet(Taken(t))
    BY TakenFinite
  <2> QED BY ONLY <2>1, <2>2, FS_AddElement
<1> QED BY <1>5, <1>7, <1>12, <1>13 DEF GoodTable

\* An entry whose successor is empty is on nobody else's path.
LEMMA FreedGood ==
    ASSUME NEW t, GoodTable(t), NEW p \in Taken(t), t[Succ(p)].id = 0,
           NEW u, u = [t EXCEPT ![p] = EmptyEntry]
    PROVE  GoodTable(u) /\ Cardinality(Taken(u)) = Cardinality(Taken(t)) - 1
<1>1. t \in EntryTable /\ OnceEach(t) /\ p \in EntrySlots /\ t[p].id # 0
  BY DEF GoodTable, Taken
<1>2. PICK B : ProbesTo(t, B)
  BY DEF GoodTable
<1>3. /\ u \in EntryTable /\ u[p].id = 0
      /\ \A s \in EntrySlots : s # p => u[s] = t[s]
  BY <1>1, LedgerNumbers DEF EntryTable
<1>4. OnceEach(u)
  BY <1>1, <1>3 DEF OnceEach
<1>5. B \in EntrySlots
  BY <1>2 DEF ProbesTo
<1>6. ASSUME NEW x \in EntrySlots, u[Cell(B, x)].id # 0 PROVE \E g : PathTaken(u, B, x, g)
  <2>1. Cell(B, x) \in EntrySlots /\ x \in Nat
    BY <1>5, CellIn, LedgerNumbers
  <2>2. Cell(B, x) # p /\ u[Cell(B, x)] = t[Cell(B, x)]
    BY <1>3, <1>6, <2>1
  <2>3. PICK g : PathTaken(t, B, x, g)
    BY <1>2, <1>6, <2>2 DEF ProbesTo
  <2>4. /\ g \in 0 .. x /\ Cell(B, g) = IdHash[u[Cell(B, x)].id]
        /\ \A z \in g .. x : t[Cell(B, z)].id # 0
    BY <2>2, <2>3 DEF PathTaken
  <2>5. ASSUME NEW z \in g .. x PROVE u[Cell(B, z)].id # 0
    <3>0. z \in Nat /\ z \in EntrySlots
      BY <2>1, <2>4, LedgerNumbers
    <3>1. z \in Nat /\ z \in EntrySlots /\ Cell(B, z) \in EntrySlots
      BY <1>5, <3>0, CellIn
    <3>2. Cell(B, z) # p
      <4> SUFFICES ASSUME Cell(B, z) = p PROVE FALSE
        OBVIOUS
      <4>1. z # x
        BY <2>2
      <4>2. z + 1 \in g .. x
        BY <2>1, <2>4, <3>1, <4>1
      <4>3. Cell(B, z + 1) = Succ(p)
        BY <1>5, <3>1, CellNext
      <4> QED BY <2>4, <4>2, <4>3
    <3> QED BY <1>3, <2>4, <3>1, <3>2
  <2>6. PathTaken(u, B, x, g)
    BY <2>4, <2>5 DEF PathTaken
  <2> QED BY <2>6
<1>7. ProbesTo(u, B)
  BY <1>5, <1>6 DEF ProbesTo
<1>8. Cardinality(Taken(u)) = Cardinality(Taken(t)) - 1
  <2>1. Taken(u) = Taken(t) \ {p}
    BY <1>1, <1>3 DEF Taken
  <2>2. IsFiniteSet(Taken(t))
    BY TakenFinite
  <2> QED BY <2>1, <2>2, FS_RemoveElement
<1> QED BY <1>3, <1>4, <1>7, <1>8 DEF GoodTable

\* A new quantity changes no path.
LEMMA RequantifiedGood ==
    ASSUME NEW t, GoodTable(t), NEW p \in EntrySlots, NEW v \in Entry, v.id = t[p].id,
           NEW u, u = [t EXCEPT ![p] = v]
    PROVE  GoodTable(u) /\ Cardinality(Taken(u)) = Cardinality(Taken(t))
<1>1. t \in EntryTable /\ OnceEach(t) /\ t[p] \in Entry
  BY DEF GoodTable, EntryTable
<1>2. PICK B : ProbesTo(t, B)
  BY DEF GoodTable
<1>4. u \in EntryTable /\ \A s \in EntrySlots : u[s].id = t[s].id
  BY <1>1 DEF EntryTable
<1>5. OnceEach(u) /\ Taken(u) = Taken(t)
  BY <1>1, <1>4 DEF OnceEach, Taken
<1>6. \A x \in Nat : u[Cell(B, x)].id = t[Cell(B, x)].id
  BY <1>2, <1>4, CellIn DEF ProbesTo
<1>7. ASSUME NEW x \in EntrySlots, u[Cell(B, x)].id # 0 PROVE \E g : PathTaken(u, B, x, g)
  <2>1. x \in Nat
    BY LedgerNumbers
  <2>2. PICK g : PathTaken(t, B, x, g)
    BY <1>2, <1>6, <1>7, <2>1 DEF ProbesTo
  <2>3. \A z \in g .. x : z \in Nat
    BY <2>1, <2>2 DEF PathTaken
  <2>4. PathTaken(u, B, x, g)
    BY <1>6, <2>1, <2>2, <2>3 DEF PathTaken
  <2> QED BY <2>4
<1>8. ProbesTo(u, B)
  BY <1>2, <1>7 DEF ProbesTo
<1> QED BY <1>4, <1>5, <1>8 DEF GoodTable

LEMMA LedgerStarts == LedgerInit => LedgerInv
<1> SUFFICES ASSUME LedgerInit PROVE LedgerInv
  OBVIOUS
<1>1. entries = [slot \in EntrySlots |-> EmptyEntry] /\ open_orders = 0 /\ holed = FALSE
  BY DEF LedgerInit
<1>2. entries \in EntryTable /\ \A s \in EntrySlots : entries[s].id = 0
  BY <1>1, LedgerNumbers DEF EntryTable
<1>3. Taken(entries) = {} /\ OnceEach(entries)
  BY <1>2 DEF Taken, OnceEach
<1>4. 0 \in EntrySlots
  BY LedgerNumbers
<1>5. ProbesTo(entries, 0)
  BY <1>2, <1>4, CellIn, LedgerNumbers DEF ProbesTo
<1> QED BY <1>1, <1>2, <1>3, <1>5, FS_EmptySet DEF LedgerInv, GoodTable

LEMMA LedgerKeeps == LedgerInv /\ [LedgerNext]_ledgerVars => LedgerInv'
<1> SUFFICES ASSUME LedgerInv, [LedgerNext]_ledgerVars PROVE LedgerInv'
  OBVIOUS
<1>0. holed \in BOOLEAN /\ (~holed => GoodTable(entries) /\ open_orders = Cardinality(Taken(entries)))
  BY DEF LedgerInv
<1>q. \A q \in LedgerQtys : q \in Nat /\ q # 0
  BY LedgerAssumption
<1>1. ASSUME NEW id \in OrderIds, NEW q \in LedgerQtys, register_order(id, q) PROVE LedgerInv'
  <2> DEFINE p == find_or_empty(entries, id)
  <2>1. /\ p # Nowhere /\ entries[p].id = 0 /\ holed' = holed
        /\ entries' = [entries EXCEPT ![p] = [id |-> id, rem |-> q]] /\ open_orders' = open_orders + 1
    BY <1>1 DEF register_order
  <2> HIDE DEF p
  <2>2. ASSUME ~holed PROVE GoodTable(entries') /\ open_orders' = Cardinality(Taken(entries'))
    <3>1. GoodTable(entries) /\ open_orders = Cardinality(Taken(entries)) /\ q \in Nat
      BY <1>0, <1>q, <2>2
    <3>2. p = find_or_empty(entries, id)
      BY DEF p
    <3> DEFINE v == [id |-> id, rem |-> q]
               u == [entries EXCEPT ![p] = v]
    <3>3. entries' = u /\ v \in Entry /\ v.id = id
      BY <2>1, <3>1 DEF Entry
    <3> HIDE DEF v
    <3>4. u = [entries EXCEPT ![p] = v]
      OBVIOUS
    <3> HIDE DEF u
    <3>5. GoodTable(u) /\ Cardinality(Taken(u)) = Cardinality(Taken(entries)) + 1
      BY <2>1, <3>1, <3>2, <3>3, <3>4, RegisterGood
    <3> QED BY <2>1, <3>1, <3>3, <3>5
  <2> QED BY <1>0, <2>1, <2>2 DEF LedgerInv
<1>2. ASSUME NEW id \in OrderIds, NEW q \in LedgerQtys, replace(id, q) PROVE LedgerInv'
  <2> DEFINE p == find(entries, id)
  <2>1. /\ p \in EntrySlots /\ holed' = holed /\ open_orders' = open_orders
        /\ entries' = [entries EXCEPT ![p] = [entries[p] EXCEPT !.rem = q]]
    BY <1>2, FoundAt DEF replace
  <2> HIDE DEF p
  <2>2. ASSUME ~holed PROVE GoodTable(entries') /\ open_orders' = Cardinality(Taken(entries'))
    <3>1. GoodTable(entries) /\ open_orders = Cardinality(Taken(entries)) /\ q \in Nat
      BY <1>0, <1>q, <2>2
    <3> DEFINE v == [entries[p] EXCEPT !.rem = q]
               u == [entries EXCEPT ![p] = v]
    <3>2. entries' = u /\ v \in Entry /\ v.id = entries[p].id
      BY <2>1, <3>1 DEF GoodTable, EntryTable, Entry
    <3> HIDE DEF v
    <3>4. u = [entries EXCEPT ![p] = v]
      OBVIOUS
    <3> HIDE DEF u
    <3>3. GoodTable(u) /\ Cardinality(Taken(u)) = Cardinality(Taken(entries))
      <4>1. p \in EntrySlots /\ v \in Entry /\ v.id = entries[p].id /\ GoodTable(entries)
        BY <2>1, <3>1, <3>2
      <4> QED BY ONLY <3>4, <4>1, RequantifiedGood
    <3> QED BY <2>1, <3>1, <3>2, <3>3
  <2> QED BY <1>0, <2>1, <2>2 DEF LedgerInv
<1>3. ASSUME NEW id \in OrderIds, NEW q \in LedgerQtys, NEW terminal \in BOOLEAN, apply(id, q, terminal)
      PROVE  LedgerInv'
  <2> DEFINE p == find(entries, id)
             left == entries[p].rem - q
             frees == terminal \/ left = 0
  <2>1. contains(entries, id) /\ q <= entries[p].rem
    BY <1>3 DEF apply, fits
  <2>2. /\ entries' = [entries EXCEPT ![p] =
                          IF frees THEN EmptyEntry ELSE [entries[p] EXCEPT !.rem = left]]
        /\ open_orders' = IF frees THEN open_orders - 1 ELSE open_orders
        /\ holed' = (holed \/ (frees /\ entries[Succ(p)].id # 0))
    BY <1>3 DEF apply
  <2>3. p \in EntrySlots /\ entries[p].id = id /\ id # 0
    BY <2>1, FoundAt, LedgerNumbers
  <2> HIDE DEF p
  <2>4. ASSUME ~holed' PROVE GoodTable(entries') /\ open_orders' = Cardinality(Taken(entries'))
    <3>1. GoodTable(entries) /\ open_orders = Cardinality(Taken(entries))
      BY <1>0, <2>2, <2>4
    <3>2. entries[p].rem \in Nat /\ p \in Taken(entries)
      BY <2>3, <3>1 DEF GoodTable, EntryTable, Entry, Taken
    <3>3. left \in Nat
      BY <1>q, <2>1, <3>2
    <3> HIDE DEF left
    <3>4. CASE frees
      <4>1. entries[Succ(p)].id = 0 /\ entries' = [entries EXCEPT ![p] = EmptyEntry] /\ open_orders' = open_orders - 1
        BY <2>2, <2>4, <3>4
      <4> HIDE DEF frees
      <4> DEFINE u == [entries EXCEPT ![p] = EmptyEntry]
      <4>2. entries' = u /\ u = [entries EXCEPT ![p] = EmptyEntry]
        BY <4>1
      <4> HIDE DEF u
      <4>3. GoodTable(u) /\ Cardinality(Taken(u)) = Cardinality(Taken(entries)) - 1
        BY <3>1, <3>2, <4>1, <4>2, FreedGood
      <4> QED BY <3>1, <4>1, <4>2, <4>3
    <3>5. CASE ~frees
      <4>1. entries' = [entries EXCEPT ![p] = [entries[p] EXCEPT !.rem = left]] /\ open_orders' = open_orders
        BY <2>2, <3>5
      <4> HIDE DEF frees
      <4> DEFINE v == [entries[p] EXCEPT !.rem = left]
                 u == [entries EXCEPT ![p] = v]
      <4>2. entries' = u /\ v \in Entry /\ v.id = entries[p].id
        BY <2>3, <3>1, <3>3, <4>1 DEF GoodTable, EntryTable, Entry
      <4> HIDE DEF v
      <4>4. u = [entries EXCEPT ![p] = v]
        OBVIOUS
      <4> HIDE DEF u
      <4>3. GoodTable(u) /\ Cardinality(Taken(u)) = Cardinality(Taken(entries))
        <5>1. p \in EntrySlots /\ v \in Entry /\ v.id = entries[p].id /\ GoodTable(entries)
          BY <2>3, <3>1, <4>2
        <5> QED BY ONLY <4>4, <5>1, RequantifiedGood
      <4> QED BY <3>1, <4>1, <4>2, <4>3
    <3> QED BY <3>4, <3>5
  <2>5. holed' \in BOOLEAN
    BY <1>0, <2>2
  <2> QED BY <2>4, <2>5 DEF LedgerInv
<1>4. ASSUME NEW id \in OrderIds, NEW q \in LedgerQtys, apply_mismatch(id, q) PROVE LedgerInv'
  BY <1>0, <1>4 DEF apply_mismatch, LedgerInv
<1>5. ASSUME NEW id \in OrderIds, cancel(id) PROVE LedgerInv'
  <2> DEFINE p == find(entries, id)
  <2>1. /\ contains(entries, id) /\ open_orders' = open_orders - 1 /\ holed' = holed
        /\ entries' = reinsert_cluster([entries EXCEPT ![p] = EmptyEntry], p)
    BY <1>5 DEF cancel, CancelledTable
  <2>2. p \in Taken(entries)
    BY <2>1, FoundAt, LedgerNumbers DEF Taken
  <2> HIDE DEF p
  <2>3. ASSUME ~holed PROVE GoodTable(entries') /\ open_orders' = Cardinality(Taken(entries'))
    <3>1. entries \in EntryTable /\ OnceEach(entries) /\ open_orders = Cardinality(Taken(entries))
      BY <1>0, <2>3 DEF GoodTable
    <3>2. PICK B : ProbesTo(entries, B)
      BY <1>0, <2>3 DEF GoodTable
    <3>3. /\ entries' \in EntryTable /\ OnceEach(entries') /\ ProbesTo(entries', B)
          /\ Cardinality(Taken(entries')) = Cardinality(Taken(entries)) - 1
      BY <2>1, <2>2, <3>1, <3>2, WalkMends
    <3> QED BY <2>1, <3>1, <3>3 DEF GoodTable
  <2> QED BY <1>0, <2>1, <2>3 DEF LedgerInv
<1>6. CASE UNCHANGED ledgerVars
  BY <1>0, <1>6 DEF ledgerVars, LedgerInv
<1> QED BY <1>1, <1>2, <1>3, <1>4, <1>5, <1>6 DEF LedgerNext

LEMMA LedgerReaches == LedgerInv => EveryOrderReachable
<1> SUFFICES ASSUME LedgerInv, ~holed
             PROVE  /\ \A slot \in Taken(entries) : find(entries, entries[slot].id) = slot
                    /\ open_orders = Cardinality(Taken(entries))
  BY DEF EveryOrderReachable, Taken
<1> QED BY FindReaches DEF LedgerInv, GoodTable

\* ReconciliationLedger and OrderRefMap, for every capacity, hash and load: until
\* apply() has left a hole in a cluster every open order is found by its own probe
\* and counted once, across wrapped clusters, full tables and the walk of cancel();
\* the map answers what was stored, and a pre-flight that says yes is kept.
THEOREM TablesHold == Spec => []TablesSound
<1>1. Init => LedgerInv /\ MapInv
  BY LedgerStarts, MapStarts DEF Init
<1>2. LedgerInv /\ MapInv /\ [Next]_vars => (LedgerInv /\ MapInv)'
  BY LedgerSteps, MapSteps, LedgerKeeps, MapKeeps
<1>3. LedgerInv /\ MapInv => TablesSound
  BY LedgerReaches, MapAnswers DEF TablesSound
<1> QED BY <1>1, <1>2, <1>3, PTL DEF Spec

-----------------------------------------------------------------------------
(***************************************************************************)
(* Conditional orders: the table of stop orders.                           *)
(***************************************************************************)
LEMMA StopSteps == [Next]_vars => [StopNext]_stopVars
BY DEF vars, allVars, Next, Alone, Encodings, Tables, Limits, Trails_, Metrics, Conditional,
       Venues, Sessions, stopVars

TriggerTable == [Indices -> {Waiting(o) : o \in StopSpecs} \cup {Inactive}]
WaitingFor(t, id) == {i \in Live(t) : t[i].id = id}
RoutedAs(routed, id) == {k \in DOMAIN routed : routed[k] = id}

StopInv ==
    /\ triggers \in TriggerTable
    /\ ended \in [ClientIds -> [registered : Nat, routed : Nat, cancelled : Nat]]
    /\ TriggersAccounted

LEMMA StopNumbers ==
    /\ MaxTriggers \in Nat \ {0} /\ Indices = 1 .. MaxTriggers
    /\ \A t : IsFiniteSet(Live(t)) /\ Cardinality(Live(t)) \in Nat
    /\ \A t, id : IsFiniteSet(WaitingFor(t, id)) /\ Cardinality(WaitingFor(t, id)) \in Nat
<1>1. MaxTriggers \in Nat \ {0} /\ Indices = 1 .. MaxTriggers
  BY StopAssumption DEF Indices
<1>2. IsFiniteSet(Indices)
  BY <1>1, FS_Interval
<1>3. \A t : IsFiniteSet(Live(t)) /\ \A id : IsFiniteSet(WaitingFor(t, id))
  <2>1. \A t : Live(t) \subseteq Indices /\ \A id : WaitingFor(t, id) \subseteq Indices
    BY DEF Live, WaitingFor
  <2> QED BY <1>2, <2>1, FS_Subset
<1> QED BY <1>1, <1>3, FS_CardinalityType

LEMMA TriggerIs ==
    ASSUME NEW t \in TriggerTable, NEW i \in Indices
    PROVE  /\ t[i].active \in BOOLEAN
           /\ t[i].active => t[i].id \in ClientIds
<1>1. t[i] = Inactive \/ \E o \in StopSpecs : t[i] = Waiting(o)
  BY DEF TriggerTable
<1>2. CASE t[i] = Inactive
  BY <1>2 DEF Inactive
<1>3. ASSUME NEW o \in StopSpecs, t[i] = Waiting(o)
      PROVE  t[i].active \in BOOLEAN /\ t[i].id \in ClientIds
  BY <1>3 DEF Waiting, ClientIds
<1> QED BY <1>1, <1>2, <1>3

OneFewer(t, u, key) ==
    /\ u \in TriggerTable
    /\ Cardinality(Live(u)) = Cardinality(Live(t)) - 1
    /\ \A id : Cardinality(WaitingFor(u, id)) =
                 Cardinality(WaitingFor(t, id)) - (IF key = id THEN 1 ELSE 0)
OneMore(t, u, key) ==
    /\ u \in TriggerTable
    /\ Cardinality(Live(u)) = Cardinality(Live(t)) + 1
    /\ \A id : Cardinality(WaitingFor(u, id)) =
                 Cardinality(WaitingFor(t, id)) + (IF key = id THEN 1 ELSE 0)

\* A slot that empties is one fewer that waits, under its id and no other.
LEMMA TriggerLeaves ==
    ASSUME NEW t \in TriggerTable, NEW i \in Live(t), NEW u, u = [t EXCEPT ![i] = Inactive]
    PROVE  OneFewer(t, u, t[i].id)
<1>1. i \in Indices /\ t[i].active /\ t = [j \in Indices |-> t[j]]
  BY DEF Live, TriggerTable
<1>2. /\ u \in TriggerTable /\ ~u[i].active
      /\ \A j \in Indices : j # i => u[j] = t[j]
  BY <1>1 DEF TriggerTable, Inactive
<1>3. Live(u) = Live(t) \ {i}
  BY <1>2 DEF Live
<1>4. Cardinality(Live(u)) = Cardinality(Live(t)) - 1
  BY <1>3, StopNumbers, FS_RemoveElement
<1>5. ASSUME NEW id PROVE Cardinality(WaitingFor(u, id)) =
                        Cardinality(WaitingFor(t, id)) - (IF t[i].id = id THEN 1 ELSE 0)
  <2>1. CASE t[i].id = id
    <3>1. WaitingFor(u, id) = WaitingFor(t, id) \ {i} /\ i \in WaitingFor(t, id)
      BY <1>1, <1>2, <1>3, <2>1 DEF WaitingFor, Live
    <3>2. IsFiniteSet(WaitingFor(t, id))
      BY StopNumbers
    <3>3. Cardinality(WaitingFor(u, id)) = Cardinality(WaitingFor(t, id)) - 1
      BY ONLY <3>1, <3>2, FS_RemoveElement
    <3> QED BY <2>1, <3>3
  <2>2. CASE t[i].id # id
    <3>1. WaitingFor(u, id) = WaitingFor(t, id)
      BY <1>1, <1>2, <1>3, <2>2 DEF WaitingFor, Live
    <3> QED BY <2>2, <3>1, StopNumbers
  <2> QED BY <2>1, <2>2
<1> QED BY <1>2, <1>4, <1>5 DEF OneFewer

LEMMA TriggerWaits ==
    ASSUME NEW t \in TriggerTable, NEW i \in Indices \ Live(t), NEW o \in StopSpecs,
           NEW u, u = [t EXCEPT ![i] = Waiting(o)]
    PROVE  OneMore(t, u, o.id)
<1>1. i \in Indices /\ ~t[i].active /\ t = [j \in Indices |-> t[j]]
  BY DEF Live, TriggerTable
<1>2. Waiting(o).active /\ Waiting(o).id = o.id
  BY DEF Waiting
<1>3. /\ u \in TriggerTable /\ u[i].active /\ u[i].id = o.id
      /\ \A j \in Indices : j # i => u[j] = t[j]
  BY <1>1, <1>2 DEF TriggerTable
<1>4. Live(u) = Live(t) \cup {i} /\ i \notin Live(t)
  BY <1>1, <1>3 DEF Live
<1>5. Cardinality(Live(u)) = Cardinality(Live(t)) + 1
  BY <1>4, StopNumbers, FS_AddElement
<1>6. ASSUME NEW id PROVE Cardinality(WaitingFor(u, id)) =
                        Cardinality(WaitingFor(t, id)) + (IF o.id = id THEN 1 ELSE 0)
  <2>1. CASE o.id = id
    <3>1. WaitingFor(u, id) = WaitingFor(t, id) \cup {i} /\ i \notin WaitingFor(t, id)
      BY <1>3, <1>4, <2>1 DEF WaitingFor, Live
    <3> QED BY <2>1, <3>1, StopNumbers, FS_AddElement
  <2>2. CASE o.id # id
    <3>1. WaitingFor(u, id) = WaitingFor(t, id)
      BY <1>3, <1>4, <2>2 DEF WaitingFor, Live
    <3> QED BY <2>2, <3>1, StopNumbers
  <2> QED BY <2>1, <2>2
<1> QED BY <1>3, <1>5, <1>6 DEF OneMore

-----------------------------------------------------------------------------
ScanState == [table : TriggerTable, routed : Seq(ClientIds)]

\* Every turn of the scan routes what it takes from the table.
LEMMA VisitKeeps ==
    ASSUME NEW w \in ScanState, NEW i \in Indices, NEW symbol, NEW bid, NEW ask, NEW admitted,
           NEW v, v = Visited(w, i, symbol, bid, ask, admitted)
    PROVE  /\ v \in ScanState
           /\ Len(v.routed) + Cardinality(Live(v.table)) = Len(w.routed) + Cardinality(Live(w.table))
           /\ \A id : Cardinality(RoutedAs(v.routed, id)) + Cardinality(WaitingFor(v.table, id))
                        = Cardinality(RoutedAs(w.routed, id)) + Cardinality(WaitingFor(w.table, id))
<1>1. w.table \in TriggerTable /\ w.routed \in Seq(ClientIds) /\ w = [table |-> w.table, routed |-> w.routed]
  BY DEF ScanState
<1>2. CASE v = w
  BY <1>2
<1>3. CASE v # w
  <2> DEFINE key == w.table[i].id
             u == [w.table EXCEPT ![i] = Inactive]
  <2>1. w.table[i].active /\ v = [table |-> AfterRouting(w.table, i, i \in admitted),
                                  routed |-> IF i \in admitted THEN Append(w.routed, key) ELSE w.routed]
    BY <1>3 DEF Visited
  <2>2. i \in admitted
    <3> SUFFICES ASSUME i \notin admitted PROVE FALSE
      OBVIOUS
    <3>1. v = [table |-> w.table, routed |-> w.routed]
      BY <2>1 DEF AfterRouting
    <3> QED BY <1>1, <1>3, <3>1
  <2>3. v = [table |-> u, routed |-> Append(w.routed, key)]
    BY <2>1, <2>2 DEF AfterRouting
  <2>4. i \in Live(w.table) /\ key \in ClientIds
    BY <1>1, <2>1, TriggerIs DEF Live
  <2>5. /\ u \in TriggerTable
        /\ Cardinality(Live(u)) = Cardinality(Live(w.table)) - 1
        /\ \A id : Cardinality(WaitingFor(u, id)) =
                     Cardinality(WaitingFor(w.table, id)) - (IF key = id THEN 1 ELSE 0)
    <3>1. OneFewer(w.table, u, key)
      BY <1>1, <2>4, TriggerLeaves
    <3> QED BY <3>1 DEF OneFewer
  <2> DEFINE r == Append(w.routed, key)
             n == Len(w.routed)
  <2> HIDE DEF u, key
  <2>6. /\ r \in Seq(ClientIds) /\ Len(r) = n + 1 /\ n \in Nat /\ r[n + 1] = key
        /\ DOMAIN w.routed = 1 .. n /\ DOMAIN r = 1 .. n + 1
        /\ \A k \in 1 .. n : r[k] = w.routed[k]
    BY <1>1, <2>4
  <2>7. v.table = u /\ v.routed = r /\ v \in ScanState
    BY <2>3, <2>5, <2>6 DEF ScanState
  <2> HIDE DEF r, n
  <2>8. Len(v.routed) + Cardinality(Live(v.table)) = Len(w.routed) + Cardinality(Live(w.table))
    <3>1. Cardinality(Live(w.table)) \in Nat
      BY StopNumbers
    <3> QED BY <2>5, <2>6, <2>7, <3>1 DEF n
  <2>9. ASSUME NEW id
        PROVE  Cardinality(RoutedAs(v.routed, id)) + Cardinality(WaitingFor(v.table, id))
                        = Cardinality(RoutedAs(w.routed, id)) + Cardinality(WaitingFor(w.table, id))
    <3>1. IsFiniteSet(RoutedAs(w.routed, id)) /\ Cardinality(RoutedAs(w.routed, id)) \in Nat
      <4>1. IsFiniteSet(1 .. n)
        BY <2>6, FS_Interval
      <4>2. RoutedAs(w.routed, id) \subseteq 1 .. n
        BY <2>6 DEF RoutedAs
      <4> QED BY <4>1, <4>2, FS_Subset, FS_CardinalityType
    <3>2. Cardinality(WaitingFor(w.table, id)) \in Nat
      BY StopNumbers
    <3>3. CASE key = id
      <4>1. RoutedAs(r, id) = RoutedAs(w.routed, id) \cup {n + 1} /\ n + 1 \notin RoutedAs(w.routed, id)
        BY <2>6, <3>3 DEF RoutedAs
      <4>2. Cardinality(RoutedAs(r, id)) = Cardinality(RoutedAs(w.routed, id)) + 1
        BY ONLY <3>1, <4>1, FS_AddElement
      <4>3. Cardinality(WaitingFor(u, id)) = Cardinality(WaitingFor(w.table, id)) - 1
        BY <2>5, <3>3
      <4> QED BY ONLY <2>7, <3>1, <3>2, <4>2, <4>3
    <3>4. CASE key # id
      <4>1. RoutedAs(r, id) = RoutedAs(w.routed, id)
        BY <2>6, <3>4 DEF RoutedAs
      <4>2. Cardinality(WaitingFor(u, id)) = Cardinality(WaitingFor(w.table, id)) - 0
        BY <2>5, <3>4
      <4> QED BY ONLY <2>7, <3>1, <3>2, <4>1, <4>2
    <3> QED BY <3>3, <3>4
  <2> QED BY <2>7, <2>8, <2>9
<1> QED BY <1>2, <1>3

ScanTurns(F, symbol, bid, ask, admitted) ==
    /\ F \in [0 .. MaxTriggers -> ScanState]
    /\ F[0] = [table |-> triggers, routed |-> << >>]
    /\ \A n \in 1 .. MaxTriggers : F[n] = Visited(F[n - 1], n, symbol, bid, ask, admitted)
    /\ Scan(symbol, bid, ask, admitted) = F[MaxTriggers]

LEMMA ScanIsTurns ==
    ASSUME triggers \in TriggerTable, NEW symbol, NEW bid, NEW ask, NEW admitted
    PROVE  \E F : ScanTurns(F, symbol, bid, ask, admitted)
<1> DEFINE N == MaxTriggers
           x == [table |-> triggers, routed |-> << >>]
           V(w, i) == Visited(w, i, symbol, bid, ask, admitted)
           step == [i \in 1 .. N |-> [w \in ScanState |-> V(w, i)]]
           body(g) == [s \in SUBSET (1 .. N) |-> IF s = {} THEN x ELSE V(g[s \ {Max(s)}], Max(s))]
           fold == CHOOSE g : g = body(g)
<1>0. N \in Nat /\ Indices = 1 .. N
  BY StopNumbers
<1>1. \A s \in SUBSET (1 .. N) : s # {} => Max(s) \in s
  <2> TAKE s \in SUBSET (1 .. N)
  <2>1. s \subseteq 0 .. N
    BY <1>0
  <2> QED BY <1>0, <2>1, MaxIn
<1>2. x \in ScanState
  BY DEF ScanState
<1>3. \A w \in ScanState, i \in 1 .. N : V(w, i) \in ScanState
  BY <1>0, VisitKeeps
<1>4. Scan(symbol, bid, ask, admitted) = fold[1 .. N]
  <2> DEFINE seq == [i \in Indices |-> i]
             body2(g) == [s \in SUBSET (1 .. N) |-> IF s = {} THEN x ELSE V(g[s \ {Max(s)}], seq[Max(s)])]
  <2>1. Scan(symbol, bid, ask, admitted) = (CHOOSE g : g = body2(g))[1 .. N]
    BY <1>0 DEF Scan, FoldLeft, MapThenFoldSet
  <2>2. \A g : body2(g) = body(g)
    <3> HIDE DEF x, V
    <3> QED BY <1>0, <1>1
  <2> HIDE DEF body, body2
  <2> QED BY <2>1, <2>2 DEF fold
<1> HIDE DEF x, V
<1>5. step \in [1 .. N -> [ScanState -> ScanState]]
  BY <1>3
<1>6. PICK f : Folds(f, step, x, ScanState, N)
  <2> HIDE DEF step
  <2> QED BY ONLY <1>0, <1>2, <1>5, FoldsExist
<1>7. f = body(f)
  <2>1. ASSUME NEW s \in SUBSET (1 .. N) PROVE f[s] = body(f)[s]
    <3>1. CASE s = {}
      BY <1>6, <3>1 DEF Folds
    <3>2. CASE s # {}
      <4>1. Max(s) \in 1 .. N /\ s \ {Max(s)} \in SUBSET (1 .. N)
        BY <1>1, <3>2
      <4>2. f[s \ {Max(s)}] \in ScanState /\ f[s] = step[Max(s)][f[s \ {Max(s)}]]
        BY <1>6, <3>2, <4>1 DEF Folds
      <4>3. step[Max(s)][f[s \ {Max(s)}]] = V(f[s \ {Max(s)}], Max(s))
        BY <4>1, <4>2
      <4> QED BY <3>2, <4>2, <4>3
    <3> QED BY <3>1, <3>2
  <2> QED BY <1>6, <2>1 DEF Folds
<1>8. fold = body(fold)
  <2> HIDE DEF body
  <2> QED BY <1>7
<1> HIDE DEF fold
<1>9. fold[{}] = x /\ fold[1 .. 0] = x
  <2>1. 1 .. 0 = {}
    OBVIOUS
  <2> QED BY <1>8, <2>1
<1>10. ASSUME NEW n \in 1 .. N PROVE fold[1 .. n] = V(fold[1 .. (n - 1)], n)
  <2>1. \A i \in 1 .. n : i \in 1 .. N
    BY <1>0
  <2>2. n \in 1 .. n /\ n \in Nat \ {0}
    BY <1>0
  <2>3. fold[1 .. n] = V(fold[(1 .. n) \ {Max(1 .. n)}], Max(1 .. n))
    BY <1>8, <2>1, <2>2
  <2> QED BY <2>2, <2>3, MaxPrefix
<1> DEFINE F == [n \in 0 .. N |-> fold[1 .. n]]
           S == {n \in Nat : n <= N => fold[1 .. n] \in ScanState}
<1>11. 0 \in S
  BY <1>2, <1>9
<1>12. \A n \in Nat : n \in S => n + 1 \in S
  <2> SUFFICES ASSUME NEW n \in Nat, n \in S, n + 1 <= N PROVE fold[1 .. (n + 1)] \in ScanState
    OBVIOUS
  <2>1. n + 1 \in 1 .. N /\ (n + 1) - 1 = n /\ n <= N
    BY <1>0
  <2>2. fold[1 .. (n + 1)] = V(fold[1 .. n], n + 1)
    BY <1>10, <2>1
  <2> QED BY <1>3, <2>1, <2>2
<1>13. \A n \in Nat : n \in S
  <2> HIDE DEF S
  <2> QED BY <1>11, <1>12, NatSetInduction
<1>14. F \in [0 .. N -> ScanState]
  BY <1>0, <1>13
<1>15. F[0] = x /\ F[N] = fold[1 .. N]
  BY <1>0, <1>9
<1>16. \A n \in 1 .. N : F[n] = V(F[n - 1], n)
  BY <1>0, <1>10
<1> HIDE DEF F
<1>17. ScanTurns(F, symbol, bid, ask, admitted)
  BY <1>4, <1>14, <1>15, <1>16 DEF x, V, ScanTurns
<1> QED BY <1>17

\* What the scan routed and what it left waiting is what waited before.
LEMMA ScanKeeps ==
    ASSUME triggers \in TriggerTable, NEW symbol, NEW bid, NEW ask, NEW admitted,
           NEW w, w = Scan(symbol, bid, ask, admitted)
    PROVE  /\ w \in ScanState
           /\ Len(w.routed) + Cardinality(Live(w.table)) = Cardinality(Live(triggers))
           /\ \A id : Cardinality(RoutedAs(w.routed, id)) + Cardinality(WaitingFor(w.table, id))
                        = Cardinality(WaitingFor(triggers, id))
<1>1. PICK F : ScanTurns(F, symbol, bid, ask, admitted)
  BY ScanIsTurns
<1> DEFINE Kept(v) ==
              /\ Len(v.routed) + Cardinality(Live(v.table)) = Cardinality(Live(triggers))
              /\ \A id : Cardinality(RoutedAs(v.routed, id)) + Cardinality(WaitingFor(v.table, id))
                           = Cardinality(WaitingFor(triggers, id))
           T == {v \in ScanState : Kept(v)}
           x == [table |-> triggers, routed |-> << >>]
<1>2. Kept(x)
  <2>1. Len(x.routed) = 0 /\ x.table = triggers /\ \A id : RoutedAs(x.routed, id) = {}
    BY DEF RoutedAs
  <2> HIDE DEF x
  <2>2. Cardinality({}) = 0
    BY FS_EmptySet
  <2>3. /\ Cardinality(Live(triggers)) \in Nat
        /\ \A id : Cardinality(WaitingFor(triggers, id)) \in Nat
    BY StopNumbers
  <2>4. Len(x.routed) + Cardinality(Live(x.table)) = Cardinality(Live(triggers))
    BY ONLY <2>1, <2>3
  <2>5. ASSUME NEW id
        PROVE  Cardinality(RoutedAs(x.routed, id)) + Cardinality(WaitingFor(x.table, id))
                 = Cardinality(WaitingFor(triggers, id))
    <3>1. RoutedAs(x.routed, id) = {} /\ x.table = triggers /\ Cardinality(WaitingFor(triggers, id)) \in Nat
      BY <2>1, <2>3
    <3> QED BY ONLY <2>2, <3>1
  <2> QED BY <2>4, <2>5
<1>3. F[0] \in T
  BY <1>1, <1>2 DEF ScanTurns, ScanState
<1>4. ASSUME NEW n \in 1 .. MaxTriggers, F[n - 1] \in T PROVE F[n] \in T
  <2> DEFINE v == F[n - 1]
  <2>1. v \in ScanState /\ Kept(v) /\ n \in Indices
    BY <1>4, StopNumbers
  <2>2. F[n] = Visited(v, n, symbol, bid, ask, admitted)
    BY <1>1 DEF ScanTurns
  <2> HIDE DEF v
  <2>3. /\ F[n] \in ScanState
        /\ Len(F[n].routed) + Cardinality(Live(F[n].table)) = Len(v.routed) + Cardinality(Live(v.table))
        /\ \A id : Cardinality(RoutedAs(F[n].routed, id)) + Cardinality(WaitingFor(F[n].table, id))
                     = Cardinality(RoutedAs(v.routed, id)) + Cardinality(WaitingFor(v.table, id))
    BY <2>1, <2>2, VisitKeeps
  <2> QED BY <2>1, <2>3
<1>5. F[MaxTriggers] \in T
  <2> HIDE DEF T
  <2>1. MaxTriggers \in Nat
    BY StopNumbers
  <2> QED BY ONLY <1>3, <1>4, <2>1, TurnsKeep
<1> QED BY <1>1, <1>5 DEF ScanTurns

-----------------------------------------------------------------------------
LEMMA StopStarts == StopInit => StopInv
<1> SUFFICES ASSUME StopInit PROVE StopInv
  OBVIOUS
<1>1. triggers = [i \in Indices |-> Inactive] /\ active_count = 0
      /\ ended = [id \in ClientIds |-> [registered |-> 0, routed |-> 0, cancelled |-> 0]]
  BY DEF StopInit
<1>2. triggers \in TriggerTable /\ \A i \in Indices : ~triggers[i].active
  BY <1>1 DEF TriggerTable, Inactive
<1>3. Live(triggers) = {} /\ \A id : {i \in Live(triggers) : triggers[i].id = id} = {}
  BY <1>2 DEF Live
<1>4. Cardinality({}) = 0
  BY FS_EmptySet
<1>5. TriggersAccounted
  BY <1>1, <1>3, <1>4 DEF TriggersAccounted
<1> QED BY <1>1, <1>2, <1>5 DEF StopInv

Tally == [registered : Nat, routed : Nat, cancelled : Nat]

\* The account of one step: as many end or start waiting as are entered.
LEMMA AccountKeeps ==
    ASSUME StopInv, triggers' \in TriggerTable, ended' \in [ClientIds -> Tally],
           active_count' = Cardinality(Live(triggers')),
           \A id \in ClientIds :
              ended'[id].registered - ended[id].registered
                 = (ended'[id].routed - ended[id].routed) + (ended'[id].cancelled - ended[id].cancelled)
                   + (Cardinality(WaitingFor(triggers', id)) - Cardinality(WaitingFor(triggers, id)))
    PROVE  StopInv'
<1>1. ASSUME NEW id \in ClientIds
      PROVE  ended'[id].registered = ended'[id].routed + ended'[id].cancelled
                                     + Cardinality(WaitingFor(triggers', id))
  <2>1. ended[id] \in Tally /\ ended'[id] \in Tally
    BY DEF StopInv, Tally
  <2>2. /\ Cardinality(WaitingFor(triggers', id)) \in Nat
        /\ Cardinality(WaitingFor(triggers, id)) \in Nat
    BY StopNumbers
  <2>3. ended[id].registered = ended[id].routed + ended[id].cancelled
                                 + Cardinality(WaitingFor(triggers, id))
    BY DEF StopInv, TriggersAccounted, WaitingFor
  <2>4. ended'[id].registered - ended[id].registered
                 = (ended'[id].routed - ended[id].routed) + (ended'[id].cancelled - ended[id].cancelled)
                   + (Cardinality(WaitingFor(triggers', id)) - Cardinality(WaitingFor(triggers, id)))
    OBVIOUS
  <2> DEFINE a == ended[id].registered
             b == ended[id].routed
             c == ended[id].cancelled
             d == Cardinality(WaitingFor(triggers, id))
             a2 == ended'[id].registered
             b2 == ended'[id].routed
             c2 == ended'[id].cancelled
             d2 == Cardinality(WaitingFor(triggers', id))
  <2>5. a \in Nat /\ b \in Nat /\ c \in Nat /\ a2 \in Nat /\ b2 \in Nat /\ c2 \in Nat
    BY <2>1 DEF Tally
  <2>6. d \in Nat /\ d2 \in Nat /\ a = b + c + d /\ a2 - a = (b2 - b) + (c2 - c) + (d2 - d)
    BY <2>2, <2>3, <2>4
  <2> HIDE DEF a, b, c, d, a2, b2, c2, d2
  <2>7. a2 = b2 + c2 + d2
    BY ONLY <2>5, <2>6
  <2> QED BY <2>7 DEF a2, b2, c2, d2
<1>2. TriggersAccounted'
  BY <1>1 DEF TriggersAccounted, WaitingFor
<1> QED BY <1>2 DEF StopInv, Tally

LEMMA RegisterKeeps ==
    ASSUME StopInv, NEW o \in StopSpecs, register_trigger(o)
    PROVE  StopInv'
<1> DEFINE free == Indices \ Live(triggers)
           i == CHOOSE j \in free : \A k \in free : j <= k
<1>1. /\ free # {} /\ triggers' = [triggers EXCEPT ![i] = Waiting(o)]
      /\ active_count' = active_count + 1
      /\ ended' = [ended EXCEPT ![o.id].registered = @ + 1]
  BY DEF register_trigger
<1>2. i \in free
  <2>1. free \subseteq Nat
    BY StopNumbers
  <2> HIDE DEF free
  <2> QED BY <1>1, <2>1, LeastNumber
<1>3. i \in Indices \ Live(triggers) /\ triggers \in TriggerTable
  BY <1>2 DEF StopInv
<1> HIDE DEF i, free
<1> DEFINE u == [triggers EXCEPT ![i] = Waiting(o)]
<1>4. u = [triggers EXCEPT ![i] = Waiting(o)]
  OBVIOUS
<1> HIDE DEF u
<1>5. /\ u \in TriggerTable
      /\ Cardinality(Live(u)) = Cardinality(Live(triggers)) + 1
      /\ \A id : Cardinality(WaitingFor(u, id)) =
                   Cardinality(WaitingFor(triggers, id)) + (IF o.id = id THEN 1 ELSE 0)
  <2>1. OneMore(triggers, u, o.id)
    BY <1>3, <1>4, TriggerWaits
  <2> QED BY <2>1 DEF OneMore
<1>6. triggers' = u
  BY <1>1, <1>4
<1>7. o.id \in ClientIds /\ ended \in [ClientIds -> Tally] /\ active_count = Cardinality(Live(triggers))
  BY DEF ClientIds, StopInv, Tally, TriggersAccounted
<1> DEFINE n == [ended[o.id] EXCEPT !.registered = @ + 1]
<1>8. /\ ended[o.id] \in Tally /\ n \in Tally /\ n.routed = ended[o.id].routed
      /\ n.cancelled = ended[o.id].cancelled /\ n.registered = ended[o.id].registered + 1
  BY <1>7 DEF Tally
<1>9. ended' = [ended EXCEPT ![o.id] = n]
  BY <1>1
<1> HIDE DEF n
<1>10. /\ ended' \in [ClientIds -> Tally] /\ ended'[o.id] = n
       /\ \A id \in ClientIds : id # o.id => ended'[id] = ended[id]
  BY <1>7, <1>8, <1>9
<1>11. ASSUME NEW id \in ClientIds
       PROVE  ended'[id].registered - ended[id].registered
                 = (ended'[id].routed - ended[id].routed) + (ended'[id].cancelled - ended[id].cancelled)
                   + (Cardinality(WaitingFor(u, id)) - Cardinality(WaitingFor(triggers, id)))
  <2>1. ended[id] \in Tally /\ Cardinality(WaitingFor(triggers, id)) \in Nat
    BY <1>7, StopNumbers
  <2>2. CASE id = o.id
    <3>1. Cardinality(WaitingFor(u, id)) = Cardinality(WaitingFor(triggers, id)) + 1
      BY <1>5, <2>2
    <3>2. /\ ended'[id].registered = ended[id].registered + 1
          /\ ended'[id].routed = ended[id].routed /\ ended'[id].cancelled = ended[id].cancelled
      BY <1>8, <1>10, <2>2
    <3> QED BY ONLY <2>1, <3>1, <3>2 DEF Tally
  <2>3. CASE id # o.id
    <3>1. Cardinality(WaitingFor(u, id)) = Cardinality(WaitingFor(triggers, id)) + 0
      BY <1>5, <2>3
    <3>2. ended'[id] = ended[id]
      BY <1>10, <2>3
    <3> QED BY ONLY <2>1, <3>1, <3>2 DEF Tally
  <2> QED BY <2>2, <2>3
<1>12. active_count' = Cardinality(Live(u))
  BY <1>1, <1>5, <1>7
<1> QED BY <1>5, <1>6, <1>10, <1>11, <1>12, AccountKeeps

LEMMA CancelKeeps ==
    ASSUME StopInv, NEW c \in ClientIds, cancel_trigger(c)
    PROVE  StopInv'
<1> DEFINE matching == {j \in Live(triggers) : triggers[j].id = c}
           i == CHOOSE j \in matching : \A k \in matching : j <= k
<1>1. /\ matching # {} /\ triggers' = [triggers EXCEPT ![i] = Inactive]
      /\ active_count' = IF active_count > 0 THEN active_count - 1 ELSE 0
      /\ ended' = [ended EXCEPT ![c].cancelled = @ + 1]
  BY DEF cancel_trigger
<1>2. i \in matching
  <2>1. matching \subseteq Nat
    BY StopNumbers DEF Live
  <2> HIDE DEF matching
  <2> QED BY <1>1, <2>1, LeastNumber
<1>3. i \in Live(triggers) /\ triggers[i].id = c /\ triggers \in TriggerTable
  BY <1>2 DEF StopInv
<1> HIDE DEF i, matching
<1> DEFINE u == [triggers EXCEPT ![i] = Inactive]
<1>4. u = [triggers EXCEPT ![i] = Inactive]
  OBVIOUS
<1> HIDE DEF u
<1>5. /\ u \in TriggerTable
      /\ Cardinality(Live(u)) = Cardinality(Live(triggers)) - 1
      /\ \A id : Cardinality(WaitingFor(u, id)) =
                   Cardinality(WaitingFor(triggers, id)) - (IF triggers[i].id = id THEN 1 ELSE 0)
  <2>1. OneFewer(triggers, u, triggers[i].id)
    BY <1>3, <1>4, TriggerLeaves
  <2> QED BY <2>1 DEF OneFewer
<1>6. triggers' = u
  BY <1>1, <1>4
<1>7. ended \in [ClientIds -> Tally] /\ active_count = Cardinality(Live(triggers))
  BY DEF StopInv, Tally, TriggersAccounted
<1> DEFINE n == [ended[c] EXCEPT !.cancelled = @ + 1]
<1>8. /\ ended[c] \in Tally /\ n \in Tally /\ n.routed = ended[c].routed
      /\ n.registered = ended[c].registered /\ n.cancelled = ended[c].cancelled + 1
  BY <1>7 DEF Tally
<1>9. ended' = [ended EXCEPT ![c] = n]
  BY <1>1
<1> HIDE DEF n
<1>10. /\ ended' \in [ClientIds -> Tally] /\ ended'[c] = n
       /\ \A id \in ClientIds : id # c => ended'[id] = ended[id]
  BY <1>7, <1>8, <1>9
<1>11. ASSUME NEW id \in ClientIds
       PROVE  ended'[id].registered - ended[id].registered
                 = (ended'[id].routed - ended[id].routed) + (ended'[id].cancelled - ended[id].cancelled)
                   + (Cardinality(WaitingFor(u, id)) - Cardinality(WaitingFor(triggers, id)))
  <2>1. ended[id] \in Tally /\ Cardinality(WaitingFor(triggers, id)) \in Nat
    BY <1>7, StopNumbers
  <2>2. CASE id = c
    <3>1. Cardinality(WaitingFor(u, id)) = Cardinality(WaitingFor(triggers, id)) - 1
      BY <1>3, <1>5, <2>2
    <3>2. /\ ended'[id].registered = ended[id].registered
          /\ ended'[id].routed = ended[id].routed /\ ended'[id].cancelled = ended[id].cancelled + 1
      BY <1>8, <1>10, <2>2
    <3> QED BY ONLY <2>1, <3>1, <3>2 DEF Tally
  <2>3. CASE id # c
    <3>1. Cardinality(WaitingFor(u, id)) = Cardinality(WaitingFor(triggers, id)) - 0
      BY <1>3, <1>5, <2>3
    <3>2. ended'[id] = ended[id]
      BY <1>10, <2>3
    <3> QED BY ONLY <2>1, <3>1, <3>2 DEF Tally
  <2> QED BY <2>2, <2>3
<1>12. active_count' = Cardinality(Live(u))
  <2>1. Cardinality(Live(triggers)) \in Nat /\ Cardinality(Live(u)) \in Nat
    BY StopNumbers
  <2> QED BY <1>1, <1>5, <1>7, <2>1
<1> QED BY <1>5, <1>6, <1>10, <1>11, <1>12, AccountKeeps

LEMMA EvaluateKeeps ==
    ASSUME StopInv, NEW symbol, NEW bid, NEW ask, NEW admitted, evaluate_bbo(symbol, bid, ask, admitted)
    PROVE  StopInv'
<1> DEFINE w == Scan(symbol, bid, ask, admitted)
           Sent(id) == Cardinality(RoutedAs(w.routed, id))
<1>1. /\ triggers' = w.table /\ active_count' = active_count - Len(w.routed)
      /\ ended' = [id \in ClientIds |-> [ended[id] EXCEPT !.routed = @ + Sent(id)]]
  BY DEF evaluate_bbo, RoutedAs
<1>2. w = Scan(symbol, bid, ask, admitted) /\ triggers \in TriggerTable
  BY DEF StopInv
<1> HIDE DEF w
<1>3. /\ w \in ScanState
      /\ Len(w.routed) + Cardinality(Live(w.table)) = Cardinality(Live(triggers))
      /\ \A id : Sent(id) + Cardinality(WaitingFor(w.table, id)) = Cardinality(WaitingFor(triggers, id))
  BY <1>2, ScanKeeps
<1>4. ended \in [ClientIds -> Tally] /\ active_count = Cardinality(Live(triggers))
  BY DEF StopInv, Tally, TriggersAccounted
<1>5. w.table \in TriggerTable /\ Len(w.routed) \in Nat /\ \A id : Sent(id) \in Nat
  <2>1. w.table \in TriggerTable /\ w.routed \in Seq(ClientIds)
    BY <1>3 DEF ScanState
  <2>2. ASSUME NEW id PROVE Sent(id) \in Nat
    <3>1. IsFiniteSet(1 .. Len(w.routed)) /\ RoutedAs(w.routed, id) \subseteq 1 .. Len(w.routed)
      BY <2>1, FS_Interval DEF RoutedAs
    <3> QED BY <3>1, FS_Subset, FS_CardinalityType
  <2> QED BY <2>1, <2>2
<1> HIDE DEF Sent
<1>6. ASSUME NEW id \in ClientIds
      PROVE  /\ ended'[id] \in Tally
             /\ ended'[id].registered - ended[id].registered
                 = (ended'[id].routed - ended[id].routed) + (ended'[id].cancelled - ended[id].cancelled)
                   + (Cardinality(WaitingFor(w.table, id)) - Cardinality(WaitingFor(triggers, id)))
  <2> DEFINE m == Sent(id)
             n == [ended[id] EXCEPT !.routed = @ + m]
  <2>1. ended[id] \in Tally /\ m \in Nat /\ ended'[id] = n
    BY <1>1, <1>4, <1>5
  <2> HIDE DEF m
  <2>2. /\ n \in Tally /\ n.routed = ended[id].routed + m
        /\ n.registered = ended[id].registered /\ n.cancelled = ended[id].cancelled
    BY <2>1 DEF Tally
  <2> HIDE DEF n
  <2>3. /\ Cardinality(WaitingFor(w.table, id)) \in Nat /\ Cardinality(WaitingFor(triggers, id)) \in Nat
        /\ m + Cardinality(WaitingFor(w.table, id)) = Cardinality(WaitingFor(triggers, id))
    BY <1>3, StopNumbers DEF m
  <2> QED BY ONLY <2>1, <2>2, <2>3 DEF Tally
<1>7. ended' \in [ClientIds -> Tally]
  <2>1. ended' = [id \in ClientIds |-> ended'[id]]
    BY <1>1
  <2> QED BY <1>6, <2>1
<1>8. active_count' = Cardinality(Live(w.table))
  <2>1. Cardinality(Live(w.table)) \in Nat
    BY StopNumbers
  <2> QED BY <1>1, <1>3, <1>4, <1>5, <2>1
<1> QED BY <1>1, <1>5, <1>6, <1>7, <1>8, AccountKeeps

LEMMA StopKeeps == StopInv /\ [StopNext]_stopVars => StopInv'
<1> SUFFICES ASSUME StopInv, [StopNext]_stopVars PROVE StopInv'
  OBVIOUS
<1>1. CASE UNCHANGED stopVars
  BY <1>1 DEF stopVars, StopInv, TriggersAccounted, Live
<1> QED BY <1>1, RegisterKeeps, CancelKeeps, EvaluateKeeps DEF StopNext

-----------------------------------------------------------------------------
(***************************************************************************)
(* Conditional orders: pairs and trailing stops.                           *)
(***************************************************************************)
LEMMA ContingentSteps == [Next]_vars => [ContingentNext]_contingentVars
BY DEF vars, allVars, Next, Alone, Encodings, Tables, Limits, Trails_, Metrics, Conditional,
       Venues, Sessions, contingentVars

OrderStates == {"active", "filled", "cancelled", "triggered"}
Legs == [type : {"oco"}, pair : Nat, state : OrderStates]
TrailingStops == [type : {"trailing"}, state : OrderStates, buy : BOOLEAN, delta : Nat, peak : Nat,
                  initial : Nat, since : Nat, stop : Nat]

PathOf(o, t) == [k \in 1 .. Len(t) - o.since + 1 |-> IF k = 1 THEN o.initial ELSE t[o.since + k - 1]]

\* The price at j has retreated delta from an earlier one.
RetreatsAt(p, j, buy, delta) ==
    \E i \in 1 .. j - 1 : IF buy THEN p[j] >= p[i] + delta ELSE p[i] > delta /\ p[j] <= p[i] - delta

\* peak is the best of the first n prices.
BestOf(p, n, buy, peak) ==
    /\ \E k \in 1 .. n : p[k] = peak
    /\ \A k \in 1 .. n : IF buy THEN peak <= p[k] ELSE p[k] <= peak

\* A stop is where the best price put it, and no price has met it yet, or one has.
TrailOK(o, p, n) ==
    /\ o.state = "active" => /\ BestOf(p, n, o.buy, o.peak) /\ o.stop = StopAt(o, o.peak)
                             /\ \A j \in 1 .. n : ~RetreatsAt(p, j, o.buy, o.delta)
    /\ o.state = "triggered" => \E j \in 1 .. n : RetreatsAt(p, j, o.buy, o.delta)

PairOK(c, i) ==
    /\ c[i].pair \in DOMAIN c /\ c[c[i].pair].type = "oco" /\ c[c[i].pair].pair = i
    /\ c[i].state = "filled" => c[c[i].pair].state # "active"

StopOK(o, t) == o.since <= Len(t) /\ TrailOK(o, PathOf(o, t), Len(t) - o.since + 1)

OrdersOK(c, t) ==
    /\ t \in Seq(Nat) /\ c \in Seq(Legs \cup TrailingStops)
    /\ \A i \in DOMAIN c : c[i].type = "oco" => PairOK(c, i)
    /\ \A i \in DOMAIN c : c[i].type = "trailing" => StopOK(c[i], t)

LEMMA KindOf ==
    ASSUME NEW o \in Legs \cup TrailingStops
    PROVE  /\ o.type \in {"oco", "trailing"} /\ o.state \in OrderStates
           /\ o.type = "oco" => o \in Legs /\ o.pair \in Nat
           /\ o.type = "trailing" => o \in TrailingStops
BY DEF Legs, TrailingStops

\* One more price.
LEMMA PriceKeeps ==
    ASSUME NEW o \in TrailingStops, NEW n \in Nat \ {0}, NEW p, NEW q, TrailOK(o, p, n),
           \A k \in 1 .. n : p[k] \in Nat /\ q[k] = p[k], NEW price \in Nat, price # 0, q[n + 1] = price,
           NEW u, u = OnPrice(o, price)
    PROVE  /\ u \in TrailingStops /\ u.since = o.since /\ u.initial = o.initial
           /\ TrailOK(u, q, n + 1)
<1>1. /\ o.type = "trailing" /\ o.state \in OrderStates /\ o.buy \in BOOLEAN
      /\ o.delta \in Nat /\ o.peak \in Nat /\ o.stop \in Nat
  BY DEF TrailingStops
<1>2. ASSUME NEW j \in 1 .. n
      PROVE  RetreatsAt(q, j, o.buy, o.delta) <=> RetreatsAt(p, j, o.buy, o.delta)
  <2>1. \A i \in 1 .. j - 1 : q[i] = p[i] /\ q[j] = p[j]
    OBVIOUS
  <2> QED BY <2>1 DEF RetreatsAt
<1>3. 1 .. n + 1 = (1 .. n) \cup {n + 1}
  OBVIOUS
<1>4. CASE o.state # "active"
  <2>1. u = o
    BY <1>4 DEF OnPrice
  <2>2. o.state = "triggered" => \E j \in 1 .. n + 1 : RetreatsAt(q, j, o.buy, o.delta)
    BY <1>2, <1>3 DEF TrailOK
  <2> QED BY <1>4, <2>1, <2>2 DEF TrailOK
<1>5. CASE o.state = "active"
  <2>1. /\ o.stop = StopAt(o, o.peak) /\ BestOf(p, n, o.buy, o.peak)
        /\ \A j \in 1 .. n : ~RetreatsAt(q, j, o.buy, o.delta)
    BY <1>2, <1>5 DEF TrailOK
  <2>2. PICK m \in 1 .. n : p[m] = o.peak
    BY <2>1 DEF BestOf
  <2>3. m \in 1 .. (n + 1) - 1 /\ q[m] = o.peak
    BY <2>2
  <2>4. \A i \in 1 .. (n + 1) - 1 : q[i] \in Nat /\ (IF o.buy THEN o.peak <= q[i] ELSE q[i] <= o.peak)
    BY <2>1 DEF BestOf
  <2>5. CASE IF o.buy THEN price < o.peak ELSE price > o.peak
    <3>1. u = Followed(o, price)
      BY <1>1, <1>5, <2>5 DEF OnPrice
    <3> DEFINE at == StopAt(o, price)
    <3>2. at \in Nat
      BY <1>1 DEF StopAt
    <3>3. u = [o EXCEPT !.peak = price, !.stop = at]
      BY <3>1 DEF Followed
    <3>4. at = StopAt(o, price)
      OBVIOUS
    <3> HIDE DEF at
    <3>5. /\ u \in TrailingStops /\ u.since = o.since /\ u.initial = o.initial /\ u.buy = o.buy
          /\ u.delta = o.delta /\ u.peak = price /\ u.stop = at /\ u.state = "active"
      BY <1>5, <3>2, <3>3 DEF TrailingStops
    <3>6. u.stop = StopAt(u, u.peak)
      BY <3>4, <3>5 DEF StopAt
    <3>7. BestOf(q, n + 1, o.buy, price)
      <4>1. n + 1 \in 1 .. n + 1 /\ q[n + 1] = price
        OBVIOUS
      <4>2. ASSUME NEW k \in 1 .. n + 1 PROVE IF o.buy THEN price <= q[k] ELSE q[k] <= price
        <5>1. CASE k = n + 1
          BY <5>1
        <5>2. CASE k # n + 1
          <6>1. k \in 1 .. (n + 1) - 1
            BY <5>2
          <6> QED BY <1>1, <2>4, <2>5, <6>1
        <5> QED BY <5>1, <5>2
      <4> QED BY <4>1, <4>2 DEF BestOf
    <3>8. ~RetreatsAt(q, n + 1, o.buy, o.delta)
      <4> SUFFICES ASSUME NEW i \in 1 .. (n + 1) - 1,
                          IF o.buy THEN q[n + 1] >= q[i] + o.delta
                          ELSE q[i] > o.delta /\ q[n + 1] <= q[i] - o.delta
                   PROVE  FALSE
        BY DEF RetreatsAt
      <4>1. q[i] \in Nat /\ (IF o.buy THEN o.peak <= q[i] ELSE q[i] <= o.peak)
        BY <2>4
      <4> QED BY <1>1, <2>5, <4>1
    <3>9. \A j \in 1 .. n + 1 : ~RetreatsAt(q, j, u.buy, u.delta)
      BY <1>3, <2>1, <3>5, <3>8
    <3> QED BY <3>5, <3>6, <3>7, <3>9 DEF TrailOK
  <2>6. CASE /\ ~(IF o.buy THEN price < o.peak ELSE price > o.peak)
             /\ (IF o.buy THEN price >= o.stop ELSE price <= o.stop /\ o.stop > 0)
    <3>1. u = [o EXCEPT !.state = "triggered"]
      BY <1>1, <1>5, <2>6 DEF OnPrice
    <3>2. /\ u \in TrailingStops /\ u.since = o.since /\ u.initial = o.initial /\ u.buy = o.buy
          /\ u.delta = o.delta /\ u.state = "triggered"
      BY <3>1 DEF TrailingStops, OrderStates
    <3>3. RetreatsAt(q, n + 1, o.buy, o.delta)
      <4>1. IF o.buy THEN price >= o.peak + o.delta ELSE o.peak > o.delta /\ price <= o.peak - o.delta
        BY <1>1, <2>1, <2>6 DEF StopAt
      <4> QED BY <2>3, <4>1 DEF RetreatsAt
    <3>4. n + 1 \in 1 .. n + 1
      OBVIOUS
    <3>5. \E j \in 1 .. n + 1 : RetreatsAt(q, j, u.buy, u.delta)
      BY <3>2, <3>3, <3>4
    <3> QED BY <3>2, <3>5 DEF TrailOK
  <2>7. CASE /\ ~(IF o.buy THEN price < o.peak ELSE price > o.peak)
             /\ ~(IF o.buy THEN price >= o.stop ELSE price <= o.stop /\ o.stop > 0)
    <3>1. u = o
      BY <1>1, <1>5, <2>7 DEF OnPrice
    <3>2. BestOf(q, n + 1, o.buy, o.peak)
      <4>1. m \in 1 .. n + 1
        OBVIOUS
      <4>2. ASSUME NEW k \in 1 .. n + 1 PROVE IF o.buy THEN o.peak <= q[k] ELSE q[k] <= o.peak
        <5>1. CASE k = n + 1
          BY <1>1, <2>7, <5>1
        <5>2. CASE k # n + 1
          <6>1. k \in 1 .. (n + 1) - 1
            BY <5>2
          <6> QED BY <2>4, <6>1
        <5> QED BY <5>1, <5>2
      <4> QED BY <2>3, <4>1, <4>2 DEF BestOf
    <3>3. ~RetreatsAt(q, n + 1, o.buy, o.delta)
      <4> SUFFICES ASSUME NEW i \in 1 .. (n + 1) - 1,
                          IF o.buy THEN q[n + 1] >= q[i] + o.delta
                          ELSE q[i] > o.delta /\ q[n + 1] <= q[i] - o.delta
                   PROVE  FALSE
        BY DEF RetreatsAt
      <4>1. q[i] \in Nat /\ (IF o.buy THEN o.peak <= q[i] ELSE q[i] <= o.peak)
        BY <2>4
      <4>2. o.stop = IF o.buy THEN o.peak + o.delta
                     ELSE IF o.peak > o.delta THEN o.peak - o.delta ELSE 0
        BY <2>1 DEF StopAt
      <4> QED BY <1>1, <2>7, <4>1, <4>2
    <3>4. \A j \in 1 .. n + 1 : ~RetreatsAt(q, j, o.buy, o.delta)
      BY <1>3, <2>1, <3>3
    <3> QED BY <1>5, <2>1, <3>1, <3>2, <3>4 DEF TrailOK
  <2> QED BY <2>5, <2>6, <2>7
<1> QED BY <1>4, <1>5

-----------------------------------------------------------------------------
ContingentInv == OrdersOK(contingent, ticks)

LEMMA PathIs ==
    ASSUME NEW o \in TrailingStops, NEW t \in Seq(Nat), o.since <= Len(t)
    PROVE  /\ Len(t) - o.since + 1 \in Nat \ {0}
           /\ \A k \in 1 .. Len(t) - o.since + 1 :
                 /\ PathOf(o, t)[k] = IF k = 1 THEN o.initial ELSE t[o.since + k - 1]
                 /\ PathOf(o, t)[k] \in Nat
<1>1. o.since \in Nat /\ o.initial \in Nat /\ Len(t) \in Nat
  BY DEF TrailingStops
<1>2. ASSUME NEW k \in 1 .. Len(t) - o.since + 1, k # 1 PROVE o.since + k - 1 \in 1 .. Len(t)
  BY <1>1, <1>2
<1>3. \A k \in 1 .. Len(t) : t[k] \in Nat
  OBVIOUS
<1> QED BY <1>1, <1>2, <1>3 DEF PathOf

LEMMA MarketKeeps ==
    ASSUME NEW c, NEW t, OrdersOK(c, t), NEW price \in Nat, price # 0,
           NEW u, u = [i \in DOMAIN c |-> OnPrice(c[i], price)]
    PROVE  OrdersOK(u, Append(t, price))
<1>1. c \in Seq(Legs \cup TrailingStops) /\ t \in Seq(Nat) /\ DOMAIN c = 1 .. Len(c) /\ Len(c) \in Nat
  BY DEF OrdersOK
<1> DEFINE s == Append(t, price)
<1>2. s \in Seq(Nat) /\ Len(s) = Len(t) + 1 /\ s[Len(t) + 1] = price /\ \A k \in 1 .. Len(t) : s[k] = t[k]
  BY <1>1
<1> HIDE DEF s
<1>3. ASSUME NEW i \in DOMAIN c, c[i].type = "oco" PROVE u[i] = c[i]
  BY <1>3 DEF OnPrice
<1>4. ASSUME NEW i \in DOMAIN c, c[i].type = "trailing"
      PROVE  u[i] \in TrailingStops /\ u[i].type = "trailing" /\ StopOK(u[i], s)
  <2> DEFINE o == c[i]
             n == Len(t) - o.since + 1
             p == PathOf(o, t)
             q == PathOf(o, s)
  <2>1. o \in TrailingStops /\ o.since <= Len(t) /\ TrailOK(o, p, n)
    BY <1>1, <1>4, KindOf DEF OrdersOK, StopOK
  <2>2. o.since \in Nat /\ Len(t) \in Nat /\ o.since <= Len(s)
    <3>1. o.since \in Nat /\ Len(t) \in Nat
      BY ONLY <1>1, <2>1 DEF TrailingStops
    <3>2. Len(s) = Len(t) + 1 /\ o.since <= Len(t)
      BY ONLY <1>2, <2>1
    <3> QED BY ONLY <3>1, <3>2
  <2>3. /\ n \in Nat \ {0} /\ Len(s) - o.since + 1 = n + 1
        /\ \A k \in 1 .. n : p[k] = (IF k = 1 THEN o.initial ELSE t[o.since + k - 1]) /\ p[k] \in Nat
    <3>1. /\ n \in Nat \ {0}
          /\ \A k \in 1 .. n : p[k] = (IF k = 1 THEN o.initial ELSE t[o.since + k - 1]) /\ p[k] \in Nat
      BY ONLY <1>1, <2>1, PathIs
    <3>2. Len(s) - o.since + 1 = n + 1
      <4>1. Len(s) = Len(t) + 1
        BY ONLY <1>2
      <4> QED BY ONLY <2>2, <4>1
    <3> QED BY ONLY <3>1, <3>2
  <2>4. \A k \in 1 .. n + 1 : q[k] = IF k = 1 THEN o.initial ELSE s[o.since + k - 1]
    BY <2>3 DEF PathOf
  <2>5. ASSUME NEW k \in 1 .. n PROVE p[k] \in Nat /\ q[k] = p[k]
    <3>1. k \in 1 .. n + 1 /\ (k # 1 => o.since + k - 1 \in 1 .. Len(t))
      <4> DEFINE a == o.since
                 z == Len(t)
      <4>1. a \in Nat /\ z \in Nat /\ n \in Nat /\ n = z - a + 1
        BY <2>2, <2>3
      <4> HIDE DEF a, z, n
      <4>2. k \in 1 .. n + 1 /\ (k # 1 => a + k - 1 \in 1 .. z)
        BY ONLY <4>1, k \in 1 .. n
      <4> QED BY <4>2 DEF a, z
    <3> HIDE DEF o, p, q, n
    <3> QED BY <1>2, <2>3, <2>4, <3>1
  <2>6. q[n + 1] = price
    <3>1. n + 1 # 1 /\ n + 1 \in 1 .. n + 1 /\ o.since + (n + 1) - 1 = Len(t) + 1
      BY <2>2, <2>3
    <3> HIDE DEF o, p, q, n
    <3> QED BY <1>2, <2>4, <3>1
  <2>7. u[i] = OnPrice(o, price)
    OBVIOUS
  <2> DEFINE v == u[i]
  <2>8. v = OnPrice(o, price)
    BY <2>7
  <2>9. n \in Nat \ {0} /\ o \in TrailingStops /\ TrailOK(o, p, n)
    BY <2>1, <2>3
  <2> HIDE DEF v, o, p, q, n
  <2>10. /\ v \in TrailingStops /\ v.since = o.since /\ v.initial = o.initial
         /\ TrailOK(v, q, n + 1)
    BY ONLY <2>5, <2>6, <2>8, <2>9, price \in Nat, price # 0, PriceKeeps
  <2>11. PathOf(v, s) = PathOf(o, s)
    BY <2>10 DEF PathOf
  <2>12. v.type = "trailing" /\ v.since <= Len(s) /\ Len(s) - v.since + 1 = n + 1
    BY <2>2, <2>3, <2>10 DEF TrailingStops
  <2> QED BY <2>10, <2>11, <2>12 DEF StopOK, v, q
<1>5. \A i \in DOMAIN c : c[i] \in Legs \cup TrailingStops /\ c[i].type \in {"oco", "trailing"}
  BY <1>1, KindOf
<1>6. /\ DOMAIN u = DOMAIN c /\ \A i \in DOMAIN c : u[i] \in Legs \cup TrailingStops /\ u[i].type = c[i].type
  BY <1>3, <1>4, <1>5
<1>7. u \in Seq(Legs \cup TrailingStops) /\ Len(u) = Len(c)
  <2>1. u = [i \in 1 .. Len(c) |-> u[i]]
    BY <1>1
  <2>2. u \in [1 .. Len(c) -> Legs \cup TrailingStops]
    BY <1>1, <1>6, <2>1
  <2> QED BY <1>1, <2>2 DEF Seq
<1>8. ASSUME NEW i \in DOMAIN u, u[i].type = "oco" PROVE PairOK(u, i)
  <2>1. i \in DOMAIN c /\ c[i].type = "oco" /\ PairOK(c, i)
    BY <1>6, <1>8 DEF OrdersOK
  <2>2. u[i] = c[i] /\ u[c[i].pair] = c[c[i].pair]
    BY <1>3, <2>1 DEF PairOK
  <2> QED BY <1>6, <2>1, <2>2 DEF PairOK
<1>9. ASSUME NEW i \in DOMAIN u, u[i].type = "trailing" PROVE StopOK(u[i], s)
  BY <1>4, <1>6, <1>9
<1> QED BY <1>2, <1>7, <1>8, <1>9 DEF OrdersOK, s

\* Only states change, and no leg is left working behind a filled one.
OnlyStates(c, u) ==
    /\ u \in Seq(Legs \cup TrailingStops) /\ DOMAIN u = DOMAIN c
    /\ \A i \in DOMAIN c :
          \/ u[i] = c[i]
          \/ \E st \in {"filled", "cancelled"} : u[i] = [c[i] EXCEPT !.state = st]
    /\ \A i \in DOMAIN c :
          c[i].type = "oco" /\ u[i].state = "filled" => u[c[i].pair].state # "active"

LEMMA RestateKeeps ==
    ASSUME NEW c, NEW t, OrdersOK(c, t), NEW u, OnlyStates(c, u)
    PROVE  OrdersOK(u, t)
<1> USE DEF OnlyStates
<1>1. \A i \in DOMAIN c : c[i] \in Legs \cup TrailingStops
  BY DEF OrdersOK
<1>2. ASSUME NEW i \in DOMAIN c
      PROVE  /\ u[i].type = c[i].type /\ (c[i].type = "oco" => u[i].pair = c[i].pair)
             /\ c[i].type = "trailing" =>
                   \/ u[i] = c[i]
                   \/ u[i].state \in {"filled", "cancelled"} /\ u[i].since = c[i].since
  <2>1. CASE u[i] = c[i]
    BY <2>1
  <2>2. ASSUME NEW st \in {"filled", "cancelled"}, u[i] = [c[i] EXCEPT !.state = st]
        PROVE  /\ u[i].type = c[i].type /\ (c[i].type = "oco" => u[i].pair = c[i].pair)
               /\ c[i].type = "trailing" =>
                     u[i].state \in {"filled", "cancelled"} /\ u[i].since = c[i].since
    <3>1. CASE c[i] \in Legs
      BY <2>2, <3>1 DEF Legs
    <3>2. CASE c[i] \in TrailingStops
      BY <2>2, <3>2 DEF TrailingStops
    <3> QED BY <1>1, <3>1, <3>2
  <2> QED BY <2>1, <2>2
<1>3. ASSUME NEW i \in DOMAIN u, u[i].type = "oco" PROVE PairOK(u, i)
  <2>1. PairOK(c, i) /\ c[i].type = "oco" /\ u[i].pair = c[i].pair
    BY <1>2, <1>3 DEF OrdersOK
  <2>2. c[i].pair \in DOMAIN c /\ u[c[i].pair].type = "oco" /\ u[c[i].pair].pair = i
    BY <1>2, <2>1 DEF PairOK
  <2> QED BY <2>1, <2>2 DEF PairOK
<1>4. ASSUME NEW i \in DOMAIN u, u[i].type = "trailing" PROVE StopOK(u[i], t)
  <2>1. c[i].type = "trailing" /\ StopOK(c[i], t)
    BY <1>2, <1>4 DEF OrdersOK
  <2> QED BY <1>2, <2>1 DEF StopOK, TrailOK
<1> QED BY <1>3, <1>4 DEF OrdersOK

Restated(c, u, id, st) ==
    /\ u \in Seq(Legs \cup TrailingStops) /\ DOMAIN u = DOMAIN c
    /\ u[id] = [c[id] EXCEPT !.state = st] /\ u[id].state = st /\ u[id].type = c[id].type
    /\ c[id].type = "oco" => u[id].pair = c[id].pair
    /\ \A i \in DOMAIN c : i # id => u[i] = c[i]

LEMMA RestatedIs ==
    ASSUME NEW c \in Seq(Legs \cup TrailingStops), NEW id \in DOMAIN c, NEW st \in {"filled", "cancelled"},
           NEW u, u = [c EXCEPT ![id].state = st]
    PROVE  Restated(c, u, id, st)
<1> DEFINE v == [c[id] EXCEPT !.state = st]
<1>1. v \in Legs \cup TrailingStops /\ v.state = st /\ v.type = c[id].type
      /\ (c[id].type = "oco" => v.pair = c[id].pair)
  <2>1. CASE c[id] \in Legs
    BY <2>1 DEF Legs, OrderStates
  <2>2. CASE c[id] \in TrailingStops
    BY <2>2 DEF TrailingStops, OrderStates
  <2> QED BY <2>1, <2>2
<1>2. u = [c EXCEPT ![id] = v] /\ v = [c[id] EXCEPT !.state = st]
  OBVIOUS
<1> HIDE DEF v
<1>3. DOMAIN c = 1 .. Len(c) /\ Len(c) \in Nat /\ c \in [1 .. Len(c) -> Legs \cup TrailingStops]
  OBVIOUS
<1>4. u \in [1 .. Len(c) -> Legs \cup TrailingStops] /\ u[id] = v /\ \A i \in DOMAIN c : i # id => u[i] = c[i]
  BY <1>1, <1>2, <1>3
<1>5. u \in Seq(Legs \cup TrailingStops) /\ DOMAIN u = DOMAIN c
  BY <1>3, <1>4 DEF Seq
<1> QED BY <1>1, <1>2, <1>4, <1>5 DEF Restated

LEMMA FillKeeps ==
    ASSUME ContingentInv, NEW id \in DOMAIN contingent, contingent' = AfterFill(id), ticks' = ticks
    PROVE  ContingentInv'
<1> DEFINE c == contingent
           filled_ == [c EXCEPT ![id].state = "filled"]
<1>1. OrdersOK(c, ticks) /\ c \in Seq(Legs \cup TrailingStops)
  BY DEF ContingentInv, OrdersOK
<1>2. contingent' = IF filled_[id].type = "oco" THEN Cancelled(filled_, filled_[id].pair) ELSE filled_
  BY DEF AfterFill
<1>3. /\ filled_ \in Seq(Legs \cup TrailingStops) /\ DOMAIN filled_ = DOMAIN c
      /\ filled_[id] = [c[id] EXCEPT !.state = "filled"] /\ filled_[id].state = "filled"
      /\ filled_[id].type = c[id].type /\ (c[id].type = "oco" => filled_[id].pair = c[id].pair)
      /\ \A i \in DOMAIN c : i # id => filled_[i] = c[i]
  <2>1. filled_ = [c EXCEPT ![id].state = "filled"] /\ id \in DOMAIN c
    OBVIOUS
  <2> HIDE DEF filled_
  <2>2. Restated(c, filled_, id, "filled")
    BY <1>1, <2>1, RestatedIs
  <2> QED BY <2>2 DEF Restated
<1> HIDE DEF filled_
<1>4. CASE c[id].type # "oco"
  <2>1. contingent' = filled_
    BY <1>2, <1>3, <1>4
  <2>2. ASSUME NEW i \in DOMAIN c, c[i].type = "oco", filled_[i].state = "filled"
        PROVE  filled_[c[i].pair].state # "active"
    <3>1. i # id /\ PairOK(c, i) /\ c[i].pair # id
      BY <1>1, <1>4, <2>2 DEF OrdersOK, PairOK
    <3> QED BY <1>3, <2>2, <3>1 DEF PairOK
  <2>3. OrdersOK(filled_, ticks)
    <3>1. OnlyStates(c, filled_)
      BY <1>3, <2>2 DEF OnlyStates
    <3> QED BY <1>1, <3>1, RestateKeeps
  <2> QED BY <2>1, <2>3 DEF ContingentInv
<1>5. CASE c[id].type = "oco"
  <2> DEFINE other == c[id].pair
             u == Cancelled(filled_, other)
  <2>1. PairOK(c, id) /\ other \in DOMAIN c /\ c[other].type = "oco" /\ c[other].pair = id
    BY <1>1, <1>5 DEF OrdersOK, PairOK
  <2>2. contingent' = u
    BY <1>2, <1>3, <1>5
  <2>3. CASE filled_[other].state = "active"
    <3>1. u = [filled_ EXCEPT ![other].state = "cancelled"]
      BY <1>3, <2>1, <2>3 DEF Cancelled
    <3>2. other # id
      BY <1>3, <2>3
    <3> HIDE DEF u, other
    <3>3. /\ u \in Seq(Legs \cup TrailingStops) /\ DOMAIN u = DOMAIN filled_
          /\ u[other] = [filled_[other] EXCEPT !.state = "cancelled"] /\ u[other].state = "cancelled"
          /\ \A i \in DOMAIN filled_ : i # other => u[i] = filled_[i]
      <4>1. Restated(filled_, u, other, "cancelled")
        BY <1>3, <2>1, <3>1, RestatedIs
      <4> QED BY <4>1 DEF Restated
    <3>4. ASSUME NEW i \in DOMAIN c
          PROVE  u[i] = c[i] \/ \E st \in {"filled", "cancelled"} : u[i] = [c[i] EXCEPT !.state = st]
      BY <1>3, <3>2, <3>3
    <3>5. ASSUME NEW i \in DOMAIN c, c[i].type = "oco", u[i].state = "filled"
          PROVE  u[c[i].pair].state # "active"
      <4>1. PairOK(c, i)
        BY <1>1, <3>5 DEF OrdersOK
      <4>2. CASE i = id
        BY <2>1, <3>3, <4>2 DEF other
      <4>3. CASE i # id
        <5>1. i # other /\ c[i].pair # other
          BY <2>1, <3>3, <3>5, <4>1, <4>3 DEF PairOK
        <5>2. u[i] = c[i]
          BY <1>3, <3>3, <4>3, <5>1
        <5>3. c[i].pair \in DOMAIN c /\ c[i].pair # id
          BY <2>1, <4>1, <5>1 DEF PairOK, other
        <5>4. u[c[i].pair] = c[c[i].pair]
          BY <1>3, <3>3, <5>1, <5>3
        <5> QED BY <3>5, <4>1, <5>2, <5>4 DEF PairOK
      <4> QED BY <4>2, <4>3
    <3>6. OrdersOK(u, ticks)
      <4>1. OnlyStates(c, u)
        BY <1>3, <3>3, <3>4, <3>5 DEF OnlyStates
      <4> QED BY <1>1, <4>1, RestateKeeps
    <3> QED BY <2>2, <3>6 DEF ContingentInv
  <2>4. CASE filled_[other].state # "active"
    <3>1. u = filled_
      BY <2>4 DEF Cancelled
    <3> HIDE DEF u
    <3>2. ASSUME NEW i \in DOMAIN c, c[i].type = "oco", filled_[i].state = "filled"
          PROVE  filled_[c[i].pair].state # "active"
      <4>1. PairOK(c, i)
        BY <1>1, <3>2 DEF OrdersOK
      <4>2. CASE i = id
        BY <2>4, <4>2
      <4>3. CASE i # id
        BY <1>3, <3>2, <4>1, <4>3 DEF PairOK
      <4> QED BY <4>2, <4>3
    <3>3. OrdersOK(filled_, ticks)
      <4>1. OnlyStates(c, filled_)
        BY <1>3, <3>2 DEF OnlyStates
      <4> QED BY <1>1, <4>1, RestateKeeps
    <3> QED BY <2>2, <3>1, <3>3 DEF ContingentInv
  <2> QED BY <2>3, <2>4
<1> QED BY <1>4, <1>5

LEMMA CancelContingentKeeps ==
    ASSUME ContingentInv, NEW id \in DOMAIN contingent, cancel_contingent(id)
    PROVE  ContingentInv'
<1> DEFINE c == contingent
           u == Cancelled(c, id)
<1>1. OrdersOK(c, ticks) /\ c \in Seq(Legs \cup TrailingStops)
  BY DEF ContingentInv, OrdersOK
<1>2. contingent' = u /\ ticks' = ticks
  BY DEF cancel_contingent
<1>3. CASE c[id].state # "active"
  <2>1. u = c
    BY <1>3 DEF Cancelled
  <2> QED BY <1>1, <1>2, <2>1 DEF ContingentInv
<1>4. CASE c[id].state = "active"
  <2>1. u = [c EXCEPT ![id].state = "cancelled"] /\ id \in DOMAIN c
    BY <1>4 DEF Cancelled
  <2> HIDE DEF u
  <2>2. Restated(c, u, id, "cancelled")
    BY <1>1, <2>1, RestatedIs
  <2>3. ASSUME NEW i \in DOMAIN c, c[i].type = "oco", u[i].state = "filled"
        PROVE  u[c[i].pair].state # "active"
    <3>1. i # id /\ PairOK(c, i)
      BY <1>1, <2>2, <2>3 DEF OrdersOK, Restated
    <3> QED BY <2>2, <2>3, <3>1 DEF PairOK, Restated
  <2>4. OnlyStates(c, u)
    BY <2>2, <2>3 DEF OnlyStates, Restated
  <2>5. OrdersOK(u, ticks)
    BY <1>1, <2>4, RestateKeeps
  <2> QED BY <1>2, <2>5 DEF ContingentInv
<1> QED BY <1>3, <1>4

\* Orders put behind the ones there are.
Extended(c, u) ==
    /\ u \in Seq(Legs \cup TrailingStops) /\ Len(c) <= Len(u)
    /\ \A i \in 1 .. Len(c) : u[i] = c[i]

LEMMA ExtensionKeeps ==
    ASSUME NEW c, NEW t, OrdersOK(c, t), NEW u, Extended(c, u),
           \A i \in DOMAIN u : i \notin 1 .. Len(c) /\ u[i].type = "oco" => PairOK(u, i),
           \A i \in DOMAIN u : i \notin 1 .. Len(c) /\ u[i].type = "trailing" => StopOK(u[i], t)
    PROVE  OrdersOK(u, t)
<1>1. /\ DOMAIN c = 1 .. Len(c) /\ Len(c) \in Nat /\ DOMAIN u = 1 .. Len(u) /\ Len(u) \in Nat
  BY DEF OrdersOK, Extended
<1>2. \A i \in DOMAIN c : i \in DOMAIN u /\ u[i] = c[i]
  BY <1>1 DEF Extended
<1>3. ASSUME NEW i \in DOMAIN u, u[i].type = "oco" PROVE PairOK(u, i)
  <2>1. CASE i \in DOMAIN c
    <3>1. PairOK(c, i) /\ u[i] = c[i]
      BY <1>2, <1>3, <2>1 DEF OrdersOK
    <3> QED BY <1>2, <3>1 DEF PairOK
  <2> QED BY <1>1, <1>3, <2>1
<1>4. ASSUME NEW i \in DOMAIN u, u[i].type = "trailing" PROVE StopOK(u[i], t)
  <2>1. CASE i \in DOMAIN c
    BY <1>2, <1>4, <2>1 DEF OrdersOK
  <2> QED BY <1>1, <1>4, <2>1
<1> QED BY <1>3, <1>4 DEF OrdersOK, Extended

LEMMA PairAddKeeps ==
    ASSUME ContingentInv, add_oco_pair
    PROVE  ContingentInv'
<1> DEFINE c == contingent
           n == Len(c)
           x == Leg(n + 2)
           y == Leg(n + 1)
           u == c \o <<x, y>>
<1>1. OrdersOK(c, ticks) /\ c \in Seq(Legs \cup TrailingStops) /\ n \in Nat
  BY DEF ContingentInv, OrdersOK
<1>2. contingent' = u /\ ticks' = ticks
  <2>1. n + 1 + 1 = n + 2
    BY <1>1
  <2> QED BY <2>1 DEF add_oco_pair
<1>3. /\ x \in Legs /\ x.type = "oco" /\ x.pair = n + 2 /\ x.state = "active"
      /\ y \in Legs /\ y.type = "oco" /\ y.pair = n + 1 /\ y.state = "active"
  BY <1>1 DEF Leg, Legs, OrderStates
<1> HIDE DEF x, y
<1>4. /\ u \in Seq(Legs \cup TrailingStops) /\ Len(u) = n + 2
      /\ \A i \in 1 .. n : u[i] = c[i]
      /\ u[n + 1] = x /\ u[n + 2] = y
  BY <1>1, <1>3
<1> HIDE DEF u
<1>5. Extended(c, u) /\ DOMAIN u = 1 .. n + 2
  BY <1>1, <1>4 DEF Extended
<1>6. ASSUME NEW i \in DOMAIN u, i \notin 1 .. Len(c)
      PROVE  (i = n + 1 \/ i = n + 2) /\ u[i].type = "oco" /\ PairOK(u, i)
  <2>1. i = n + 1 \/ i = n + 2
    BY <1>1, <1>5, <1>6
  <2>2. n + 1 \in DOMAIN u /\ n + 2 \in DOMAIN u
    BY <1>1, <1>5
  <2> QED BY <1>3, <1>4, <2>1, <2>2 DEF PairOK
<1>7. OrdersOK(u, ticks)
  BY <1>1, <1>5, <1>6, ExtensionKeeps
<1> QED BY <1>2, <1>7 DEF ContingentInv

LEMMA TrailingKeeps ==
    ASSUME ContingentInv, NEW spec \in Trails, NEW initial \in TickPrices,
           add_trailing_stop(spec, initial)
    PROVE  ContingentInv'
<1> DEFINE c == contingent
           n == Len(c)
           o == [type |-> "trailing", state |-> "active", buy |-> spec.buy, delta |-> spec.delta,
                 peak |-> initial, initial |-> initial, since |-> Len(ticks), stop |-> 0]
           at == StopAt(o, initial)
           v == [o EXCEPT !.stop = at]
           u == Append(c, v)
<1>1. /\ OrdersOK(c, ticks) /\ c \in Seq(Legs \cup TrailingStops) /\ n \in Nat
      /\ ticks \in Seq(Nat) /\ Len(ticks) \in Nat
  BY DEF ContingentInv, OrdersOK
<1>2. contingent' = u /\ ticks' = ticks
  BY DEF add_trailing_stop
<1>3. initial \in Nat /\ spec.buy \in BOOLEAN /\ spec.delta \in Nat
  BY ContingentAssumption
<1>4. /\ o \in TrailingStops /\ o.buy = spec.buy /\ o.delta = spec.delta
      /\ o.peak = initial /\ o.initial = initial /\ o.since = Len(ticks) /\ o.state = "active"
  BY <1>1, <1>3 DEF TrailingStops, OrderStates
<1> HIDE DEF o
<1>5. at \in Nat
  BY <1>3, <1>4 DEF StopAt
<1>6. at = StopAt(o, initial)
  OBVIOUS
<1> HIDE DEF at
<1>7. /\ v \in TrailingStops /\ v.buy = spec.buy /\ v.delta = spec.delta /\ v.type = "trailing"
      /\ v.peak = initial /\ v.initial = initial /\ v.since = Len(ticks) /\ v.state = "active"
      /\ v.stop = at
  BY <1>4, <1>5 DEF TrailingStops
<1>8. v.stop = StopAt(v, v.peak)
  BY <1>4, <1>6, <1>7 DEF StopAt
<1> HIDE DEF v
<1>9. Extended(c, u) /\ DOMAIN u = 1 .. n + 1 /\ u[n + 1] = v
  BY <1>1, <1>7 DEF Extended
<1>10. StopOK(v, ticks)
  <2> DEFINE p == PathOf(v, ticks)
  <2>1. Len(ticks) - v.since + 1 = 1 /\ v.since <= Len(ticks)
    BY <1>1, <1>7
  <2>2. p[1] = initial
    BY <1>7, <2>1 DEF PathOf
  <2> HIDE DEF p
  <2>3. BestOf(p, 1, v.buy, v.peak)
    BY <1>3, <1>7, <2>2 DEF BestOf
  <2>4. \A j \in 1 .. 1 : ~RetreatsAt(p, j, v.buy, v.delta)
    BY DEF RetreatsAt
  <2>5. TrailOK(v, p, 1)
    BY <1>7, <1>8, <2>3, <2>4 DEF TrailOK
  <2> QED BY <2>1, <2>5 DEF StopOK, p
<1> HIDE DEF u
<1>11. \A i \in DOMAIN u : i \notin 1 .. Len(c) => i = n + 1
  BY <1>1, <1>9
<1>12. OrdersOK(u, ticks)
  BY <1>1, <1>7, <1>9, <1>10, <1>11, ExtensionKeeps
<1> QED BY <1>2, <1>12 DEF ContingentInv

LEMMA ContingentStarts == ContingentInit => ContingentInv
BY DEF ContingentInit, ContingentInv, OrdersOK

LEMMA ContingentKeeps == ContingentInv /\ [ContingentNext]_contingentVars => ContingentInv'
<1> SUFFICES ASSUME ContingentInv, [ContingentNext]_contingentVars PROVE ContingentInv'
  OBVIOUS
<1>1. CASE UNCHANGED contingentVars
  BY <1>1 DEF contingentVars, ContingentInv
<1>2. ASSUME NEW price \in TickPrices, on_market_price(price) PROVE ContingentInv'
  <2>1. price \in Nat /\ price # 0
    BY ContingentAssumption
  <2>2. /\ contingent' = [i \in DOMAIN contingent |-> OnPrice(contingent[i], price)]
        /\ ticks' = Append(ticks, price)
    BY <1>2 DEF on_market_price
  <2>3. OrdersOK(contingent', Append(ticks, price))
    BY <2>1, <2>2, MarketKeeps DEF ContingentInv
  <2> QED BY <2>2, <2>3 DEF ContingentInv
<1>3. ASSUME NEW id \in DOMAIN contingent, on_order_fill(id) PROVE ContingentInv'
  BY <1>3, FillKeeps DEF on_order_fill
<1> QED BY <1>1, <1>2, <1>3, PairAddKeeps, TrailingKeeps, CancelContingentKeeps DEF ContingentNext

LEMMA ContingentSuffices == ContingentInv => ContingenciesHold
<1> SUFFICES ASSUME ContingentInv, NEW i \in DOMAIN contingent
             PROVE  IF contingent[i].type = "oco"
                    THEN contingent[i].state = "filled" => contingent[contingent[i].pair].state # "active"
                    ELSE /\ contingent[i].state = "active" => Retreats(contingent[i]) = {}
                         /\ contingent[i].state = "triggered" => Retreats(contingent[i]) # {}
  BY DEF ContingenciesHold
<1> DEFINE o == contingent[i]
<1>1. OrdersOK(contingent, ticks) /\ o \in Legs \cup TrailingStops
  BY DEF ContingentInv, OrdersOK
<1>2. CASE o.type = "oco"
  BY <1>1, <1>2 DEF OrdersOK, PairOK
<1>3. CASE o.type # "oco"
  <2> DEFINE n == Len(ticks) - o.since + 1
             p == PathOf(o, ticks)
  <2>1. o.type = "trailing" /\ o \in TrailingStops
    BY <1>1, <1>3, KindOf
  <2>2. TrailOK(o, p, n)
    BY <1>1, <2>1 DEF OrdersOK, StopOK
  <2>3. Path(o) = p /\ DOMAIN p = 1 .. n
    BY DEF Path, PathOf
  <2> HIDE DEF p, n, o
  <2>4. Retreats(o) = {j \in 1 .. n : RetreatsAt(p, j, o.buy, o.delta)}
    BY <2>3 DEF Retreats, RetreatsAt
  <2>5. /\ o.state = "active" => Retreats(o) = {}
        /\ o.state = "triggered" => Retreats(o) # {}
    BY <2>2, <2>4 DEF TrailOK
  <2> QED BY <1>3, <2>5 DEF o
<1> QED BY <1>2, <1>3

\* ConditionalOrdersEnd, for every number of triggers and contingent orders, every
\* book, every price path and every answer of the gateway: what a registration adds
\* to the StopOrderTable of luv_execution.hpp is waiting, routed or cancelled, once;
\* a fill in ContingentOrderManager leaves no working partner; and a trailing stop
\* is triggered exactly by a retreat of delta from an earlier price.
THEOREM ConditionalOrdersHold == Spec => []ConditionalOrdersEnd
<1>1. Init => StopInv /\ ContingentInv
  BY StopStarts, ContingentStarts DEF Init
<1>2. StopInv /\ ContingentInv /\ [Next]_vars => StopInv' /\ ContingentInv'
  BY StopSteps, StopKeeps, ContingentSteps, ContingentKeeps
<1>3. StopInv /\ ContingentInv => ConditionalOrdersEnd
  BY ContingentSuffices DEF StopInv, ConditionalOrdersEnd
<1> QED BY <1>1, <1>2, <1>3, PTL DEF Spec

-----------------------------------------------------------------------------
(***************************************************************************)
(* Compliance: the registry of customers.                                  *)
(***************************************************************************)
Accepted == [at : Nat, value : Nat]
Share(o, lo, hi) == IF o.at \in lo .. hi THEN o.value ELSE 0

Runs(F, s, lo, hi) ==
    /\ F \in [0 .. Len(s) -> Nat] /\ F[0] = 0 /\ F[Len(s)] = WorthWithin(s, lo, hi)
    /\ \A n \in 1 .. Len(s) : F[n] = F[n - 1] + Share(s[n], lo, hi)

\* WorthWithin adds the shares one after the other.
LEMMA WithinRuns ==
    ASSUME NEW s \in Seq(Accepted), NEW lo \in Int, NEW hi \in Int
    PROVE  \E F : Runs(F, s, lo, hi)
<1> DEFINE N == Len(s)
           V(w, i) == IF s[i].at \in lo .. hi THEN w + s[i].value ELSE w
           step == [i \in 1 .. N |-> [w \in Nat |-> V(w, i)]]
           body(g) == [t \in SUBSET (1 .. N) |-> IF t = {} THEN 0 ELSE V(g[t \ {Max(t)}], Max(t))]
           fold == CHOOSE g : g = body(g)
<1>0. N \in Nat /\ DOMAIN s = 1 .. N /\ \A i \in 1 .. N : s[i].at \in Nat /\ s[i].value \in Nat
  <2>1. N \in Nat /\ DOMAIN s = 1 .. N /\ \A i \in 1 .. N : s[i] \in Accepted
    OBVIOUS
  <2> QED BY <2>1 DEF Accepted
<1>1. \A t \in SUBSET (1 .. N) : t # {} => Max(t) \in t
  <2> TAKE t \in SUBSET (1 .. N)
  <2>1. t \subseteq 0 .. N
    BY <1>0
  <2> QED BY <1>0, <2>1, MaxIn
<1>3. \A w \in Nat, i \in 1 .. N : V(w, i) \in Nat /\ V(w, i) = w + Share(s[i], lo, hi)
  BY <1>0 DEF Share
<1>4. WorthWithin(s, lo, hi) = fold[1 .. N]
  BY <1>0 DEF WorthWithin, FoldLeft, MapThenFoldSet
<1> HIDE DEF V
<1>5. step \in [1 .. N -> [Nat -> Nat]]
  BY <1>3
<1>6. PICK f : Folds(f, step, 0, Nat, N)
  <2> HIDE DEF step
  <2> QED BY ONLY <1>0, <1>5, FoldsExist
<1>7. f = body(f)
  <2>1. ASSUME NEW t \in SUBSET (1 .. N) PROVE f[t] = body(f)[t]
    <3>1. CASE t = {}
      BY <1>6, <3>1 DEF Folds
    <3>2. CASE t # {}
      <4>1. Max(t) \in 1 .. N /\ t \ {Max(t)} \in SUBSET (1 .. N)
        BY <1>1, <3>2
      <4>2. f[t \ {Max(t)}] \in Nat /\ f[t] = step[Max(t)][f[t \ {Max(t)}]]
        BY <1>6, <3>2, <4>1 DEF Folds
      <4>3. step[Max(t)][f[t \ {Max(t)}]] = V(f[t \ {Max(t)}], Max(t))
        BY <4>1, <4>2
      <4> QED BY <3>2, <4>2, <4>3
    <3> QED BY <3>1, <3>2
  <2> QED BY <1>6, <2>1 DEF Folds
<1>8. fold = body(fold)
  <2> HIDE DEF body
  <2> QED BY <1>7
<1> HIDE DEF fold
<1>9. fold[{}] = 0 /\ fold[1 .. 0] = 0
  <2>1. 1 .. 0 = {}
    OBVIOUS
  <2> QED BY <1>8, <2>1
<1>10. ASSUME NEW n \in 1 .. N PROVE fold[1 .. n] = V(fold[1 .. (n - 1)], n)
  <2>1. \A i \in 1 .. n : i \in 1 .. N
    BY <1>0
  <2>2. n \in 1 .. n /\ n \in Nat \ {0}
    BY <1>0
  <2>3. fold[1 .. n] = V(fold[(1 .. n) \ {Max(1 .. n)}], Max(1 .. n))
    BY <1>8, <2>1, <2>2
  <2> QED BY <2>2, <2>3, MaxPrefix
<1> DEFINE F == [n \in 0 .. N |-> fold[1 .. n]]
           S == {n \in Nat : n <= N => fold[1 .. n] \in Nat}
<1>11. 0 \in S
  BY <1>9
<1>12. \A n \in Nat : n \in S => n + 1 \in S
  <2> SUFFICES ASSUME NEW n \in Nat, n \in S, n + 1 <= N PROVE fold[1 .. (n + 1)] \in Nat
    OBVIOUS
  <2>1. n + 1 \in 1 .. N /\ (n + 1) - 1 = n /\ n <= N
    BY <1>0
  <2>2. fold[1 .. (n + 1)] = V(fold[1 .. n], n + 1)
    BY <1>10, <2>1
  <2> QED BY <1>3, <2>1, <2>2
<1>13. \A n \in Nat : n \in S
  <2> HIDE DEF S
  <2> QED BY <1>11, <1>12, NatSetInduction
<1>14. F \in [0 .. N -> Nat]
  BY <1>0, <1>13
<1>15. F[0] = 0 /\ F[N] = fold[1 .. N]
  BY <1>0, <1>9
<1>16. ASSUME NEW n \in 1 .. N PROVE F[n] = V(F[n - 1], n) /\ F[n - 1] \in Nat
  <2>1. n \in 0 .. N /\ n - 1 \in 0 .. N
    BY <1>0
  <2>2. F[n] = fold[1 .. n] /\ F[n - 1] = fold[1 .. (n - 1)]
    BY <2>1
  <2> QED BY <1>10, <1>14, <2>1, <2>2
<1> HIDE DEF F
<1>17. Runs(F, s, lo, hi)
  BY <1>3, <1>4, <1>14, <1>15, <1>16 DEF Runs
<1> QED BY <1>17

LEMMA WithinNat ==
    ASSUME NEW s \in Seq(Accepted), NEW lo \in Int, NEW hi \in Int
    PROVE  WorthWithin(s, lo, hi) \in Nat /\ (s = << >> => WorthWithin(s, lo, hi) = 0)
<1>1. PICK F : Runs(F, s, lo, hi)
  BY WithinRuns
<1>2. Len(s) \in 0 .. Len(s) /\ (s = << >> => Len(s) = 0)
  OBVIOUS
<1> QED BY <1>1, <1>2 DEF Runs

LEMMA EmptyWorth == \A a, b \in Int : WorthWithin(<< >>, a, b) = 0
<1>1. << >> \in Seq(Accepted)
  OBVIOUS
<1>2. ASSUME NEW s \in Seq(Accepted), s = << >>, NEW a \in Int, NEW b \in Int
      PROVE  WorthWithin(s, a, b) = 0
  BY <1>2, WithinNat
<1> QED BY <1>1, <1>2

\* One more order.
LEMMA WithinNext ==
    ASSUME NEW s \in Seq(Accepted), NEW o \in Accepted, NEW lo \in Int, NEW hi \in Int
    PROVE  WorthWithin(Append(s, o), lo, hi) = WorthWithin(s, lo, hi) + Share(o, lo, hi)
<1> DEFINE N == Len(s)
           u == Append(s, o)
<1>1. /\ N \in Nat /\ u \in Seq(Accepted) /\ Len(u) = N + 1 /\ u[N + 1] = o
      /\ \A n \in 1 .. N : u[n] = s[n]
  OBVIOUS
<1> HIDE DEF u
<1>2. PICK F : Runs(F, s, lo, hi)
  BY WithinRuns
<1>3. PICK G : Runs(G, u, lo, hi)
  BY <1>1, WithinRuns
<1> DEFINE S == {n \in Nat : n <= N => G[n] = F[n]}
<1>4. 0 \in S
  BY <1>2, <1>3 DEF Runs
<1>5. \A n \in Nat : n \in S => n + 1 \in S
  <2> SUFFICES ASSUME NEW n \in Nat, n \in S, n + 1 <= N PROVE G[n + 1] = F[n + 1]
    BY <1>1
  <2>1. n + 1 \in 1 .. N /\ n + 1 \in 1 .. Len(u) /\ (n + 1) - 1 = n /\ n <= N
    BY <1>1
  <2> QED BY <1>1, <1>2, <1>3, <2>1 DEF Runs
<1>6. \A n \in Nat : n \in S
  <2> HIDE DEF S
  <2> QED BY <1>4, <1>5, NatSetInduction
<1>7. G[N] = F[N] /\ N + 1 \in 1 .. Len(u) /\ (N + 1) - 1 = N
  BY <1>1, <1>6
<1> QED BY <1>1, <1>2, <1>3, <1>7 DEF Runs, u

\* Shares that are bounded one by one are bounded together.
LEMMA WithinBounded ==
    ASSUME NEW s \in Seq(Accepted), NEW lo \in Int, NEW hi \in Int, NEW a \in Int, NEW b \in Int,
           NEW c \in Int, NEW d \in Int,
           \A i \in 1 .. Len(s) : Share(s[i], lo, hi) <= Share(s[i], a, b) + Share(s[i], c, d)
    PROVE  WorthWithin(s, lo, hi) <= WorthWithin(s, a, b) + WorthWithin(s, c, d)
<1> DEFINE N == Len(s)
<1>1. PICK F : Runs(F, s, lo, hi)
  BY WithinRuns
<1>2. PICK G : Runs(G, s, a, b)
  BY WithinRuns
<1>3. PICK H : Runs(H, s, c, d)
  BY WithinRuns
<1> DEFINE S == {n \in Nat : n <= N => F[n] <= G[n] + H[n]}
<1>4. 0 \in S
  BY <1>1, <1>2, <1>3 DEF Runs
<1>5. \A n \in Nat : n \in S => n + 1 \in S
  <2> SUFFICES ASSUME NEW n \in Nat, n \in S, n + 1 <= N PROVE F[n + 1] <= G[n + 1] + H[n + 1]
    OBVIOUS
  <2> DEFINE x == Share(s[n + 1], lo, hi)
             y == Share(s[n + 1], a, b)
             z == Share(s[n + 1], c, d)
  <2>1. n + 1 \in 1 .. N /\ (n + 1) - 1 = n /\ n <= N /\ n \in 0 .. N
    OBVIOUS
  <2>2. F[n + 1] = F[n] + x /\ G[n + 1] = G[n] + y /\ H[n + 1] = H[n] + z
    BY <1>1, <1>2, <1>3, <2>1 DEF Runs
  <2>3. F[n] \in Nat /\ G[n] \in Nat /\ H[n] \in Nat /\ F[n] <= G[n] + H[n]
    BY <1>1, <1>2, <1>3, <2>1 DEF Runs
  <2>4. x \in Nat /\ y \in Nat /\ z \in Nat /\ x <= y + z
    <3>1. s[n + 1] \in Accepted
      BY <2>1
    <3>2. s[n + 1].value \in Nat
      BY <3>1 DEF Accepted
    <3>3. x \in Nat /\ y \in Nat /\ z \in Nat
      BY <3>2 DEF Share
    <3> QED BY <2>1, <3>3
  <2> HIDE DEF x, y, z
  <2> DEFINE f == F[n]
             g == G[n]
             h == H[n]
  <2>5. f \in Nat /\ g \in Nat /\ h \in Nat /\ f <= g + h
    BY ONLY <2>3
  <2> HIDE DEF f, g, h
  <2>6. f + x <= (g + y) + (h + z)
    BY ONLY <2>4, <2>5
  <2> QED BY ONLY <2>2, <2>6 DEF f, g, h
<1>6. \A n \in Nat : n \in S
  <2> HIDE DEF S
  <2> QED BY <1>4, <1>5, NatSetInduction
<1>7. F[N] <= G[N] + H[N]
  BY <1>6
<1> QED BY <1>1, <1>2, <1>3, <1>7 DEF Runs

LEMMA WithinNone ==
    ASSUME NEW s \in Seq(Accepted), NEW lo \in Int, NEW hi \in Int,
           \A i \in 1 .. Len(s) : s[i].at \notin lo .. hi
    PROVE  WorthWithin(s, lo, hi) = 0
<1>1. PICK F : Runs(F, s, lo, hi)
  BY WithinRuns
<1> DEFINE S == {n \in Nat : n <= Len(s) => F[n] = 0}
<1>2. 0 \in S
  BY <1>1 DEF Runs
<1>3. \A n \in Nat : n \in S => n + 1 \in S
  <2> SUFFICES ASSUME NEW n \in Nat, n \in S, n + 1 <= Len(s) PROVE F[n + 1] = 0
    OBVIOUS
  <2>1. n + 1 \in 1 .. Len(s) /\ (n + 1) - 1 = n /\ n <= Len(s)
    OBVIOUS
  <2>2. Share(s[n + 1], lo, hi) = 0
    BY <2>1 DEF Share
  <2> QED BY <1>1, <2>1, <2>2 DEF Runs
<1>4. \A n \in Nat : n \in S
  <2> HIDE DEF S
  <2> QED BY <1>2, <1>3, NatSetInduction
<1> QED BY <1>1, <1>4 DEF Runs

LEMMA WithinPart ==
    ASSUME NEW s \in Seq(Accepted), NEW lo \in Int, NEW hi \in Int, NEW a \in Int, NEW b \in Int,
           \A i \in 1 .. Len(s) : s[i].at \in lo .. hi => s[i].at \in a .. b
    PROVE  WorthWithin(s, lo, hi) <= WorthWithin(s, a, b)
<1>1. ASSUME NEW i \in 1 .. Len(s)
      PROVE  Share(s[i], lo, hi) <= Share(s[i], a, b) + Share(s[i], 1, 0)
  <2>1. s[i] \in Accepted
    OBVIOUS
  <2>2. s[i].value \in Nat /\ s[i].at \notin 1 .. 0
    BY <2>1 DEF Accepted
  <2> QED BY <2>2 DEF Share
<1>2. WorthWithin(s, lo, hi) <= WorthWithin(s, a, b) + WorthWithin(s, 1, 0)
  BY <1>1, WithinBounded
<1>3. WorthWithin(s, 1, 0) = 0
  BY WithinNone
<1>4. WorthWithin(s, lo, hi) \in Nat /\ WorthWithin(s, a, b) \in Nat
  BY WithinNat
<1> QED BY <1>2, <1>3, <1>4

Profile == [tier : DOMAIN Tiers, sanctioned : BOOLEAN, suspended : BOOLEAN, traded : Nat, day_start : Nat]
DailyLimit(p) == Tiers[p.tier].daily

\* What the present day has taken is within the limit, and so is what came
\* within a day before it: any day meets those two at most.
DaysHold(p, s, instant) ==
    /\ p \in Profile /\ s \in Seq(Accepted) /\ p.day_start <= instant
    /\ \A i \in 1 .. Len(s) : s[i].at < p.day_start + Day
    /\ WorthWithin(s, p.day_start, p.day_start + Day - 1) <= p.traded /\ p.traded <= DailyLimit(p)
    /\ \A from \in Int : from + Day > p.day_start => WorthWithin(s, from, p.day_start - 1) <= DailyLimit(p)
    /\ \A from \in Int : WorthWithin(s, from, from + Day - 1) <= 2 * DailyLimit(p)

LEMMA LimitNat ==
    /\ Day \in Nat /\ Day > 0
    /\ \A p \in Profile : DailyLimit(p) \in Nat /\ p.traded \in Nat /\ p.day_start \in Nat
BY ComplianceAssumption DEF DailyLimit, Profile

LEMMA AcceptedIs ==
    ASSUME NEW s \in Seq(Accepted)
    PROVE  \A i \in 1 .. Len(s) : s[i] \in Accepted /\ s[i].at \in Nat /\ s[i].value \in Nat
<1>1. \A i \in 1 .. Len(s) : s[i] \in Accepted
  OBVIOUS
<1> QED BY <1>1 DEF Accepted

\* The day a new order falls in.
LEMMA TodayHolds ==
    ASSUME NEW p, NEW s, NEW instant \in Nat, DaysHold(p, s, instant), NEW q, q = Today(p, instant)
    PROVE  /\ DaysHold(q, s, instant) /\ instant < q.day_start + Day
           /\ q.tier = p.tier
<1>1. /\ p \in Profile /\ s \in Seq(Accepted) /\ p.day_start \in Nat /\ p.traded \in Nat
      /\ Day \in Nat /\ Day > 0 /\ DailyLimit(p) \in Nat
  BY LimitNat DEF DaysHold
<1>2. CASE instant < p.day_start + Day
  BY <1>1, <1>2 DEF Today
<1>3. CASE instant >= p.day_start + Day
  <2>1. q = [p EXCEPT !.traded = 0, !.day_start = instant]
    BY <1>3 DEF Today, DayReset
  <2>2. q \in Profile /\ q.traded = 0 /\ q.day_start = instant /\ q.tier = p.tier
    <3>1. p \in Profile
      BY <1>1
    <3> QED BY ONLY <3>1, instant \in Nat, <2>1 DEF Profile
  <2>3. DailyLimit(q) = DailyLimit(p)
    BY <2>2 DEF DailyLimit
  <2>4. \A i \in 1 .. Len(s) : s[i].at \in Nat /\ s[i].at < p.day_start + Day
    BY <1>1, AcceptedIs DEF DaysHold
  <2> DEFINE lo == p.day_start
             hi == p.day_start + Day - 1
             end == instant + Day - 1
  <2>5. lo \in Int /\ hi \in Int /\ end \in Int /\ instant - 1 \in Int
    BY <1>1
  <2>6. WorthWithin(s, instant, end) = 0
    <3>1. \A i \in 1 .. Len(s) : s[i].at \notin instant .. end
      BY <1>1, <1>3, <2>4
    <3> HIDE DEF end
    <3> QED BY <1>1, <2>5, <3>1, WithinNone
  <2>7. WorthWithin(s, lo, hi) <= DailyLimit(p) /\ WorthWithin(s, lo, hi) \in Nat
    <3>1. WorthWithin(s, lo, hi) <= p.traded /\ p.traded <= DailyLimit(p)
      BY DEF DaysHold
    <3> HIDE DEF lo, hi
    <3>2. WorthWithin(s, lo, hi) \in Nat
      BY <1>1, <2>5, WithinNat
    <3> QED BY <1>1, <3>1, <3>2
  <2>8. ASSUME NEW from \in Int, from + Day > instant
        PROVE  WorthWithin(s, from, instant - 1) <= DailyLimit(p)
    <3>1. \A i \in 1 .. Len(s) : s[i].at \in from .. instant - 1 => s[i].at \in lo .. hi
      BY <1>1, <1>3, <2>4, <2>8
    <3> HIDE DEF lo, hi
    <3>2. WorthWithin(s, from, instant - 1) <= WorthWithin(s, lo, hi)
      BY <1>1, <2>5, <3>1, WithinPart
    <3>3. WorthWithin(s, from, instant - 1) \in Nat
      BY <1>1, <2>5, WithinNat
    <3> QED BY <1>1, <2>7, <3>2, <3>3
  <2>9. \A i \in 1 .. Len(s) : s[i].at < instant + Day
    BY <1>1, <1>3, <2>4
  <2>10. \A from \in Int : WorthWithin(s, from, from + Day - 1) <= 2 * DailyLimit(p)
    BY DEF DaysHold
  <2>11. WorthWithin(s, instant, instant + Day - 1) <= 0
    BY <2>6
  <2>12. DaysHold(q, s, instant)
    <3>1. instant <= instant /\ 0 <= DailyLimit(p)
      BY <1>1
    <3> QED BY <1>1, <2>2, <2>3, <2>8, <2>9, <2>10, <2>11, <3>1 DEF DaysHold
  <2> QED BY <1>1, <2>2, <2>12
<1> QED BY <1>1, <1>2, <1>3

\* An order within the limit of the day.
LEMMA OrderHolds ==
    ASSUME NEW p, NEW s, NEW instant \in Nat, DaysHold(p, s, instant), instant < p.day_start + Day,
           NEW v \in Nat, p.traded + v <= DailyLimit(p), NEW q, q = [p EXCEPT !.traded = @ + v],
           NEW o, o = [at |-> instant, value |-> v]
    PROVE  DaysHold(q, Append(s, o), instant)
<1>1. /\ p \in Profile /\ s \in Seq(Accepted) /\ p.day_start \in Nat /\ p.traded \in Nat
      /\ Day \in Nat /\ Day > 0 /\ DailyLimit(p) \in Nat /\ p.day_start <= instant
  BY LimitNat DEF DaysHold
<1> DEFINE w == p.traded + v
           u == Append(s, o)
           d == p.day_start
           L == DailyLimit(p)
<1>2. w \in Nat /\ q = [p EXCEPT !.traded = w]
  BY <1>1
<1>3. o \in Accepted /\ o.at = instant /\ o.value = v
  BY DEF Accepted
<1>4. q \in Profile /\ q.traded = w /\ q.day_start = d /\ q.tier = p.tier
  <2> HIDE DEF w
  <2> QED BY <1>1, <1>2 DEF Profile
<1>5. DailyLimit(q) = L
  BY <1>4 DEF DailyLimit
<1>6. /\ u \in Seq(Accepted) /\ Len(u) = Len(s) + 1 /\ u[Len(s) + 1] = o /\ Len(s) \in Nat
      /\ \A i \in 1 .. Len(s) : u[i] = s[i]
  BY <1>1, <1>3
<1>7. \A a, b \in Int : /\ WorthWithin(u, a, b) = WorthWithin(s, a, b) + Share(o, a, b)
                        /\ WorthWithin(s, a, b) \in Nat
  BY <1>1, <1>3, WithinNext, WithinNat
<1> HIDE DEF u
<1>8. \A i \in 1 .. Len(u) : u[i].at < d + Day
  <2>1. \A i \in 1 .. Len(u) : i \in 1 .. Len(s) \/ i = Len(s) + 1
    BY <1>6
  <2> QED BY <1>3, <1>6, <2>1 DEF DaysHold
<1>9. WorthWithin(u, d, d + Day - 1) <= w
  <2>1. d + Day - 1 \in Int /\ Share(o, d, d + Day - 1) <= v /\ Share(o, d, d + Day - 1) \in Nat
    BY <1>1, <1>3 DEF Share
  <2>2. WorthWithin(s, d, d + Day - 1) <= p.traded
    BY DEF DaysHold
  <2> QED BY <1>1, <1>7, <2>1, <2>2
<1>10. ASSUME NEW from \in Int, from + Day > d PROVE WorthWithin(u, from, d - 1) <= L
  <2>1. d - 1 \in Int /\ Share(o, from, d - 1) = 0
    BY <1>1, <1>3 DEF Share
  <2>2. WorthWithin(s, from, d - 1) <= L
    BY <1>10 DEF DaysHold
  <2> QED BY <1>7, <2>1, <2>2
<1>11. ASSUME NEW from \in Int PROVE WorthWithin(u, from, from + Day - 1) <= 2 * L
  <2> DEFINE hi == from + Day - 1
  <2>0. hi \in Int /\ d - 1 \in Int /\ d + Day - 1 \in Int
    BY <1>1
  <2>1. CASE from + Day > d
    <3>1. ASSUME NEW i \in 1 .. Len(u)
          PROVE  Share(u[i], from, hi) <= Share(u[i], from, d - 1) + Share(u[i], d, d + Day - 1)
      <4>1. u[i].at \in Nat /\ u[i].value \in Nat /\ u[i].at < d + Day
        BY <1>6, <1>8, AcceptedIs
      <4>2. u[i].at \in from .. hi => u[i].at \in from .. d - 1 \/ u[i].at \in d .. d + Day - 1
        <5> DEFINE z == u[i].at
        <5>1. z \in Nat /\ z < d + Day /\ d \in Int /\ Day \in Int
          BY <1>1, <4>1
        <5> HIDE DEF z, d
        <5>2. z \in from .. hi => z \in from .. d - 1 \/ z \in d .. d + Day - 1
          BY ONLY <5>1, from \in Int
        <5> QED BY <5>2 DEF z
      <4> HIDE DEF hi, d
      <4> QED BY <4>1, <4>2 DEF Share
    <3>0. d \in Int
      BY <1>1
    <3> HIDE DEF hi, d
    <3>2. WorthWithin(u, from, hi) <= WorthWithin(u, from, d - 1) + WorthWithin(u, d, d + Day - 1)
      BY <1>6, <2>0, <3>0, <3>1, WithinBounded
    <3>3. /\ WorthWithin(u, from, hi) \in Nat /\ WorthWithin(u, from, d - 1) \in Nat
          /\ WorthWithin(u, d, d + Day - 1) \in Nat
      BY <1>6, <2>0, <3>0, WithinNat
    <3>4. WorthWithin(u, from, d - 1) <= L
      BY <1>10, <2>1
    <3>5. WorthWithin(u, d, d + Day - 1) <= L
      BY <1>1, <1>2, <1>9, <3>3
    <3> QED BY <1>1, <3>2, <3>3, <3>4, <3>5 DEF hi, L
  <2>2. CASE from + Day <= d
    <3>1. Share(o, from, hi) = 0
      BY <1>1, <1>3, <2>2 DEF Share
    <3>2. WorthWithin(s, from, hi) <= 2 * L
      BY DEF DaysHold
    <3> HIDE DEF hi
    <3>3. WorthWithin(u, from, hi) <= 2 * L
      BY <1>7, <2>0, <3>1, <3>2
    <3> QED BY <3>3 DEF hi
  <2> QED BY <1>1, <2>1, <2>2
<1>12. w <= L
  OBVIOUS
<1> HIDE DEF w, d, L
<1>13. DaysHold(q, u, instant)
  BY <1>1, <1>4, <1>5, <1>6, <1>8, <1>9, <1>10, <1>11, <1>12 DEF DaysHold, d
<1> QED BY <1>13 DEF u

-----------------------------------------------------------------------------
ComplianceNext ==
    \/ RegistryNext /\ UNCHANGED <<monitorVars, trailVars>>
    \/ MonitorNext /\ UNCHANGED <<registryVars, trailVars>>
    \/ TrailNext /\ UNCHANGED <<registryVars, monitorVars, sars, moment>>

LEMMA ComplianceSteps == [Next]_vars => [ComplianceNext]_complianceVars
BY DEF vars, allVars, Next, Alone, Encodings, Tables, Limits, Trails_, Metrics, Conditional,
       Venues, Sessions, complianceVars, ComplianceNext

RegistryInv ==
    /\ moment \in Nat
    /\ profiles \in [Traders -> Profile] /\ orders \in [Traders -> Seq(Accepted)]
    /\ \A t \in Traders : DaysHold(profiles[t], orders[t], moment)

LEMMA RegistryStarts == ComplianceInit => RegistryInv
<1> SUFFICES ASSUME ComplianceInit PROVE RegistryInv
  OBVIOUS
<1>1. NewProfile \in Profile /\ NewProfile.day_start = 0 /\ NewProfile.traded = 0
  BY ComplianceAssumption DEF NewProfile, Profile
<1>2. DailyLimit(NewProfile) \in Nat /\ Day \in Nat
  BY <1>1, LimitNat
<1>3. \A a, b \in Int : WorthWithin(<< >>, a, b) = 0
  BY EmptyWorth
<1>4. DaysHold(NewProfile, << >>, 0)
  BY <1>1, <1>2, <1>3 DEF DaysHold
<1> QED BY <1>1, <1>4 DEF ComplianceInit, RegistryInv

\* One trader's profile and orders change.
LEMMA TraderKeeps ==
    ASSUME RegistryInv, NEW t \in Traders, NEW p, NEW s, DaysHold(p, s, moment),
           profiles' = [profiles EXCEPT ![t] = p], orders' = [orders EXCEPT ![t] = s], moment' = moment
    PROVE  RegistryInv'
<1>1. p \in Profile /\ s \in Seq(Accepted)
  BY DEF DaysHold
<1>2. \A u \in Traders : /\ profiles'[u] = IF u = t THEN p ELSE profiles[u]
                         /\ orders'[u] = IF u = t THEN s ELSE orders[u]
  BY DEF RegistryInv
<1>3. \A u \in Traders : DaysHold(profiles'[u], orders'[u], moment)
  BY <1>2 DEF RegistryInv
<1>4. profiles' \in [Traders -> Profile] /\ orders' \in [Traders -> Seq(Accepted)]
  BY <1>1 DEF RegistryInv
<1> QED BY <1>3, <1>4 DEF RegistryInv

LEMMA RegisterTraderKeeps ==
    ASSUME RegistryInv, NEW trader \in Traders, NEW tier \in DOMAIN Tiers, NEW on \in BOOLEAN,
           register_trader(trader, tier, on)
    PROVE  RegistryInv'
<1> DEFINE o == profiles[trader]
           p == [o EXCEPT !.tier = tier, !.sanctioned = on, !.suspended = FALSE, !.traded = 0]
<1>1. o \in Profile /\ o.day_start <= moment /\ moment \in Nat
  BY DEF RegistryInv, DaysHold
<1> HIDE DEF o
<1>2. p \in Profile /\ p.day_start = o.day_start /\ p.traded = 0
  BY <1>1 DEF Profile
<1>3. profiles' = [profiles EXCEPT ![trader] = p] /\ moment' = moment
      /\ orders' = [orders EXCEPT ![trader] = << >>]
  BY DEF register_trader, o
<1> HIDE DEF p
<1>4. DailyLimit(p) \in Nat /\ Day \in Nat /\ p.day_start \in Nat
  BY <1>2, LimitNat
<1>5. \A a, b \in Int : WorthWithin(<< >>, a, b) = 0
  BY EmptyWorth
<1>6. DaysHold(p, << >>, moment)
  BY <1>1, <1>2, <1>4, <1>5 DEF DaysHold
<1> QED BY <1>3, <1>6, TraderKeeps

\* A flag of a profile.
LEMMA FlagKeeps ==
    ASSUME RegistryInv, NEW t \in Traders, NEW on \in BOOLEAN, NEW p,
           p = [profiles[t] EXCEPT !.sanctioned = on] \/ p = [profiles[t] EXCEPT !.suspended = on],
           profiles' = [profiles EXCEPT ![t] = p], orders' = orders, moment' = moment
    PROVE  RegistryInv'
<1> DEFINE o == profiles[t]
<1>1. DaysHold(o, orders[t], moment) /\ o \in Profile
  BY DEF RegistryInv, DaysHold
<1>2. p = [o EXCEPT !.sanctioned = on] \/ p = [o EXCEPT !.suspended = on]
  OBVIOUS
<1> HIDE DEF o
<1>3. p \in Profile /\ p.day_start = o.day_start /\ p.traded = o.traded /\ p.tier = o.tier
  BY ONLY <1>1, <1>2, on \in BOOLEAN DEF Profile
<1>4. DaysHold(p, orders[t], moment)
  BY <1>1, <1>3 DEF DaysHold, DailyLimit
<1>5. orders' = [orders EXCEPT ![t] = orders[t]]
  BY DEF RegistryInv
<1> QED BY <1>4, <1>5, TraderKeeps

LEMMA ValidateKeeps ==
    ASSUME RegistryInv, NEW trader \in Traders, NEW notional \in Notionals, validate_order(trader, notional)
    PROVE  RegistryInv'
<1> DEFINE verdict == Verdict(trader, notional, moment)
           o == profiles[trader]
           q == Today(o, moment)
           s == orders[trader]
<1>1. DaysHold(o, s, moment) /\ moment \in Nat /\ notional \in Nat /\ s \in Seq(Accepted)
  BY ComplianceAssumption DEF RegistryInv
<1>2. /\ profiles' = [profiles EXCEPT ![trader] = Checked(trader, notional, moment)] /\ moment' = moment
      /\ orders' = IF verdict # "accepted" THEN orders
                   ELSE [orders EXCEPT ![trader] = Append(s, [at |-> moment, value |-> notional])]
  BY DEF validate_order, RegistryInv
<1>3. verdict = "accepted" => q.traded + notional <= Tiers[o.tier].daily
  <2>1. verdict = "accepted" => ~(q.traded + notional > Tiers[o.tier].daily)
    BY DEF Verdict
  <2>2. DaysHold(q, s, moment) /\ q.tier = o.tier
    BY <1>1, TodayHolds
  <2>3. q.traded \in Nat /\ Tiers[o.tier].daily \in Nat
    BY <2>2, LimitNat DEF DaysHold, DailyLimit
  <2> QED BY <1>1, <2>1, <2>3
<1>4. DaysHold(q, s, moment) /\ q.tier = o.tier /\ moment < q.day_start + Day
  BY <1>1, TodayHolds
<1>5. orders = [orders EXCEPT ![trader] = s]
  BY DEF RegistryInv
<1>6. CASE verdict = "accepted"
  <2> DEFINE p == [q EXCEPT !.traded = @ + notional]
             u == [at |-> moment, value |-> notional]
  <2>1. Checked(trader, notional, moment) = p
    BY <1>6 DEF Checked
  <2>2. q.traded + notional <= DailyLimit(q)
    BY <1>3, <1>4, <1>6 DEF DailyLimit
  <2>3. p = [q EXCEPT !.traded = @ + notional] /\ u = [at |-> moment, value |-> notional]
    OBVIOUS
  <2>4. orders' = [orders EXCEPT ![trader] = Append(s, u)]
    BY <1>2, <1>6
  <2> HIDE DEF p, u, q
  <2>5. DaysHold(p, Append(s, u), moment)
    BY <1>1, <1>4, <2>2, <2>3, OrderHolds
  <2> QED BY <1>2, <2>1, <2>4, <2>5, TraderKeeps
<1>7. CASE verdict = "daily"
  <2>1. Checked(trader, notional, moment) = q
    BY <1>7 DEF Checked
  <2> QED BY <1>2, <1>4, <1>5, <1>7, <2>1, TraderKeeps
<1>8. CASE verdict # "accepted" /\ verdict # "daily"
  <2>1. Checked(trader, notional, moment) = o
    BY <1>8 DEF Checked
  <2> QED BY <1>1, <1>2, <1>5, <1>8, <2>1, TraderKeeps
<1> QED BY <1>6, <1>7, <1>8

LEMMA RegistryKeeps == RegistryInv /\ [ComplianceNext]_complianceVars => RegistryInv'
<1> SUFFICES ASSUME RegistryInv, [ComplianceNext]_complianceVars PROVE RegistryInv'
  OBVIOUS
<1>1. ASSUME UNCHANGED registryVars, moment' \in Nat, moment <= moment' PROVE RegistryInv'
  <2>1. \A t \in Traders : DaysHold(profiles[t], orders[t], moment')
    <3> TAKE t \in Traders
    <3>1. DaysHold(profiles[t], orders[t], moment) /\ moment \in Nat
      BY DEF RegistryInv
    <3>2. profiles[t].day_start \in Nat
      BY <3>1, LimitNat DEF DaysHold
    <3>3. profiles[t].day_start <= moment'
      BY <1>1, <3>1, <3>2 DEF DaysHold
    <3> QED BY <3>1, <3>3 DEF DaysHold
  <2> QED BY <1>1, <2>1 DEF RegistryInv, registryVars
<1>2. moment \in Nat /\ moment <= moment /\ moment + 1 \in Nat /\ moment <= moment + 1
  BY DEF RegistryInv
<1>3. CASE UNCHANGED registryVars /\ moment' = moment
  BY <1>1, <1>2, <1>3
<1>4. CASE UNCHANGED registryVars /\ Passes
  BY <1>1, <1>2, <1>4 DEF Passes
<1>5. CASE MonitorNext /\ UNCHANGED <<registryVars, trailVars>>
  <2>1. Passes \/ moment' = moment
    BY <1>5 DEF MonitorNext, check_wash_trade, check_structuring
  <2> QED BY <1>3, <1>4, <1>5, <2>1
<1>6. CASE RegistryNext
  <2>1. ASSUME NEW t \in Traders, NEW on \in BOOLEAN, set_sanctioned(t, on) PROVE RegistryInv'
    <3> DEFINE p == [profiles[t] EXCEPT !.sanctioned = on]
    <3>1. profiles' = [profiles EXCEPT ![t] = p] /\ orders' = orders /\ moment' = moment
      BY <2>1 DEF set_sanctioned
    <3>2. p = [profiles[t] EXCEPT !.sanctioned = on]
      OBVIOUS
    <3> HIDE DEF p
    <3> QED BY <3>1, <3>2, FlagKeeps
  <2>2. ASSUME NEW t \in Traders, NEW on \in BOOLEAN, set_suspended(t, on) PROVE RegistryInv'
    <3> DEFINE p == [profiles[t] EXCEPT !.suspended = on]
    <3>1. profiles' = [profiles EXCEPT ![t] = p] /\ orders' = orders /\ moment' = moment
      BY <2>2 DEF set_suspended
    <3>2. p = [profiles[t] EXCEPT !.suspended = on]
      OBVIOUS
    <3> HIDE DEF p
    <3> QED BY <3>1, <3>2, FlagKeeps
  <2> QED BY <1>4, <1>6, <2>1, <2>2, RegisterTraderKeeps, ValidateKeeps DEF RegistryNext
<1>7. CASE TrailNext /\ UNCHANGED <<registryVars, monitorVars, sars, moment>>
  BY <1>3, <1>7
<1>8. CASE UNCHANGED complianceVars
  BY <1>3, <1>8 DEF complianceVars
<1> QED BY <1>5, <1>6, <1>7, <1>8 DEF ComplianceNext

LEMMA RegistrySuffices == RegistryInv => RollingDayBound
<1> SUFFICES ASSUME RegistryInv, NEW t \in Traders, NEW from \in 0 .. LastMoment
             PROVE  WorthWithin(orders[t], from, from + Day - 1) <= 2 * Tiers[profiles[t].tier].daily
  BY DEF RollingDayBound
<1>1. from \in Int /\ DaysHold(profiles[t], orders[t], moment)
  BY ComplianceAssumption DEF RegistryInv
<1> QED BY <1>1 DEF DaysHold, DailyLimit

-----------------------------------------------------------------------------
(***************************************************************************)
(* Compliance: structuring.                                                *)
(***************************************************************************)
Suspect == [at : Nat, reported : BOOLEAN]
WatchState == [start : Nat, count : Nat, amount : Nat]

\* The window's amounts are the last ones; from its TriggerCount-th on they are
\* reported.  The amounts before it that came within a day of its start belong
\* to one window, so TriggerCount of them end with a reported one.
WindowHolds(w, s, instant) ==
    /\ w \in WatchState /\ s \in Seq(Suspect) /\ w.start <= instant /\ w.count <= Len(s)
    /\ \A k \in 1 .. Len(s) : s[k].at <= instant
    /\ \A k \in 1 .. Len(s) :
          IF k <= Len(s) - w.count THEN s[k].at <= w.start
          ELSE /\ w.start <= s[k].at
               /\ s[k].reported <=> k - (Len(s) - w.count) >= TriggerCount
    /\ \A i \in 1 .. Len(s) - w.count :
          /\ s[i].at + Day > w.start
          /\ Len(s) - w.count - i + 1 >= TriggerCount
          => s[Len(s) - w.count].reported
    /\ \A i, j \in 1 .. Len(s) :
          j - i + 1 >= 2 * TriggerCount - 1 /\ s[j].at - s[i].at < Day => \E k \in i .. j : s[k].reported

MonitorInv ==
    /\ moment \in Nat
    /\ watch \in [Traders -> WatchState] /\ suspects \in [Traders -> Seq(Suspect)]
    /\ \A t \in Traders : WindowHolds(watch[t], suspects[t], moment)

LEMMA SuspectIs ==
    ASSUME NEW s \in Seq(Suspect)
    PROVE  Len(s) \in Nat /\ \A k \in 1 .. Len(s) : s[k].at \in Nat /\ s[k].reported \in BOOLEAN
<1>1. Len(s) \in Nat /\ \A k \in 1 .. Len(s) : s[k] \in Suspect
  OBVIOUS
<1> QED BY <1>1 DEF Suspect

\* The window the next amount falls in.
LEMMA WindowTurns ==
    ASSUME NEW w, NEW s, NEW instant \in Nat, WindowHolds(w, s, instant), NEW v, v = Window_(w, instant)
    PROVE  WindowHolds(v, s, instant) /\ instant < v.start + Day
<1> DEFINE n == Len(s)
<1>1. /\ w \in WatchState /\ s \in Seq(Suspect) /\ w.start \in Nat /\ w.count \in Nat /\ n \in Nat
      /\ w.count <= n /\ w.start <= instant
  BY SuspectIs DEF WindowHolds, WatchState
<1>2. Day \in Nat /\ Day > 0 /\ TriggerCount \in Nat /\ TriggerCount > 0
  BY ComplianceAssumption
<1>3. CASE instant < w.start + Day
  <2>1. v = w
    BY <1>1, <1>2, <1>3 DEF Window_
  <2> QED BY <1>3, <2>1
<1>4. CASE instant >= w.start + Day
  <2>1. v = [start |-> instant, count |-> 0, amount |-> 0]
    BY <1>4 DEF Window_
  <2>2. v \in WatchState /\ v.start = instant /\ v.count = 0
    BY <2>1 DEF WatchState
  <2>3. ASSUME NEW i \in 1 .. n, s[i].at + Day > instant, n - i + 1 >= TriggerCount
        PROVE  s[n].reported
    <3>1. s[i].at \in Nat /\ s[i].at > w.start
      BY <1>1, <1>2, <1>4, <2>3, SuspectIs
    <3>2. i > n - w.count
      BY <1>1, <3>1 DEF WindowHolds
    <3>3. n \in 1 .. n /\ ~(n <= n - w.count) /\ n - (n - w.count) >= TriggerCount
      BY <1>1, <1>2, <2>3, <3>2
    <3> QED BY <1>1, <3>3 DEF WindowHolds
  <2>4. n - v.count = n /\ v.count <= n
    BY <1>1, <2>2
  <2>5. WindowHolds(v, s, instant)
    <3>1. \A k \in 1 .. n : s[k].at <= instant
      BY DEF WindowHolds
    <3>2. \A k \in 1 .. n : k <= n
      BY <1>1
    <3>3. instant <= instant
      OBVIOUS
    <3>4. \A i, j \in 1 .. Len(s) :
            j - i + 1 >= 2 * TriggerCount - 1 /\ s[j].at - s[i].at < Day => \E k \in i .. j : s[k].reported
      BY DEF WindowHolds
    <3> QED BY <1>1, <2>2, <2>3, <2>4, <3>1, <3>2, <3>3, <3>4 DEF WindowHolds
  <2> QED BY <1>2, <2>2, <2>5
<1> QED BY <1>1, <1>2, <1>3, <1>4

\* An amount in the window.
LEMMA AmountHolds ==
    ASSUME NEW w, NEW s, NEW instant \in Nat, WindowHolds(w, s, instant), instant < w.start + Day,
           NEW a \in Nat, NEW v, v = [w EXCEPT !.count = @ + 1, !.amount = @ + a],
           NEW e, e = [at |-> instant, reported |-> Triggers(v)]
    PROVE  WindowHolds(v, Append(s, e), instant)
<1> DEFINE n == Len(s)
           m == n - w.count
           T == TriggerCount
           u == Append(s, e)
           c == w.count + 1
           b == w.amount + a
<1>1. /\ w \in WatchState /\ s \in Seq(Suspect) /\ w.start \in Nat /\ w.count \in Nat /\ n \in Nat
      /\ w.count <= n /\ w.start <= instant /\ w.amount \in Nat /\ m \in Nat /\ m <= n
  BY SuspectIs DEF WindowHolds, WatchState
<1>2. Day \in Nat /\ Day > 0 /\ T \in Nat /\ T > 0
  BY ComplianceAssumption
<1>3. c \in Nat /\ b \in Nat /\ v = [w EXCEPT !.count = c, !.amount = b] /\ (n + 1) - c = m /\ c <= n + 1
  BY <1>1
<1> HIDE DEF c, b
<1>4. v \in WatchState /\ v.start = w.start /\ v.count = c
  BY <1>1, <1>3 DEF WatchState
<1>5. e \in Suspect /\ e.at = instant /\ (e.reported <=> (n + 1) - m >= T)
  <2>1. Triggers(v) = (c >= T) /\ (c >= T) \in BOOLEAN
    BY <1>4 DEF Triggers
  <2>2. c = (n + 1) - m
    BY <1>1, <1>3
  <2> QED BY <2>1, <2>2 DEF Suspect
<1>6. /\ u \in Seq(Suspect) /\ Len(u) = n + 1 /\ u[n + 1] = e
      /\ \A k \in 1 .. n : u[k] = s[k]
  BY <1>1, <1>5
<1> HIDE DEF u
<1>7. \A k \in 1 .. n + 1 : k \in 1 .. n \/ k = n + 1
  BY <1>1
<1>8. \A k \in 1 .. n + 1 : u[k].at <= instant
  BY <1>5, <1>6, <1>7 DEF WindowHolds
<1>9. ASSUME NEW k \in 1 .. n + 1
      PROVE  IF k <= m THEN u[k].at <= w.start
             ELSE w.start <= u[k].at /\ (u[k].reported <=> k - m >= T)
  <2>1. CASE k = n + 1
    BY <1>1, <1>5, <1>6, <2>1
  <2>2. CASE k \in 1 .. n
    BY <1>6, <2>2 DEF WindowHolds
  <2> QED BY <1>7, <2>1, <2>2
<1>10. ASSUME NEW i \in 1 .. m, u[i].at + Day > w.start, m - i + 1 >= T
       PROVE  u[m].reported
  <2>1. m \in 1 .. n /\ i \in 1 .. n
    BY <1>1
  <2> QED BY <1>6, <1>10, <2>1 DEF WindowHolds
<1>11. ASSUME NEW i \in 1 .. n + 1, NEW j \in 1 .. n + 1, j - i + 1 >= 2 * T - 1, u[j].at - u[i].at < Day
       PROVE  \E k \in i .. j : u[k].reported
  <2>1. CASE j \in 1 .. n
    <3>1. i \in 1 .. n
      BY <1>1, <1>2, <1>11, <2>1
    <3>2. \E k \in i .. j : s[k].reported
      BY <1>6, <1>11, <2>1, <3>1 DEF WindowHolds
    <3>3. \A k \in i .. j : k \in 1 .. n
      BY <2>1, <3>1
    <3> QED BY <1>6, <3>2, <3>3
  <2>2. CASE j = n + 1
    <3>1. u[j].reported <=> (n + 1) - m >= T
      BY <1>5, <1>6, <2>2
    <3>2. CASE i > m \/ m - i + 1 < T
      <4>1. (n + 1) - m >= T
        <5>1. /\ n \in Nat /\ m \in Nat /\ T \in Nat /\ T > 0 /\ i \in Nat /\ j = n + 1
              /\ j - i + 1 >= 2 * T - 1
          BY <1>1, <1>2, <1>11, <2>2
        <5> HIDE DEF n, m, T
        <5> QED BY ONLY <3>2, <5>1
      <4>2. j \in i .. j
        <5>1. T \in Nat /\ T > 0 /\ i \in Nat /\ j \in Nat /\ j - i + 1 >= 2 * T - 1
          BY <1>1, <1>2, <1>11, <2>2
        <5> HIDE DEF T
        <5> QED BY ONLY <5>1
      <4> QED BY <3>1, <4>1, <4>2
    <3>3. CASE i <= m /\ m - i + 1 >= T
      <4>5. j = n + 1 /\ u[j].at = instant
        BY <1>1, <1>5, <1>6, <2>2
      <4>6. n \in Nat /\ m \in Nat /\ m <= n /\ i \in 1 .. n + 1
        BY <1>1
      <4>1. i \in 1 .. n /\ i \in 1 .. m /\ m \in i .. j /\ u[j].at = instant
        <5> HIDE DEF n, m
        <5>1. i \in 1 .. n /\ i \in 1 .. m /\ m \in i .. j
          BY ONLY <3>3, <4>5, <4>6
        <5> QED BY ONLY <4>5, <5>1
      <4>2. u[i].at \in Nat
        BY <1>6, <4>1, SuspectIs
      <4>3. u[i].at + Day > w.start
        <5>1. instant - u[i].at < Day
          BY <1>11, <4>1
        <5> QED BY ONLY <1>1, <1>2, <4>2, <5>1, instant \in Nat
      <4> QED BY <1>10, <3>3, <4>1, <4>3
    <3>4. n \in Nat /\ m \in Nat /\ T \in Nat /\ i \in Nat
      BY <1>1, <1>2
    <3>5. (i > m \/ m - i + 1 < T) \/ (i <= m /\ m - i + 1 >= T)
      <4> HIDE DEF n, m, T
      <4> QED BY ONLY <3>4
    <3> QED BY <3>2, <3>3, <3>5
  <2> QED BY <1>7, <2>1, <2>2
<1>12. Len(u) - v.count = m
  BY <1>3, <1>4, <1>6
<1>13. v.count <= Len(u)
  BY <1>3, <1>4, <1>6
<1> HIDE DEF n, m, T
<1>14. WindowHolds(v, u, instant)
  BY <1>1, <1>4, <1>6, <1>8, <1>9, <1>10, <1>11, <1>12, <1>13 DEF WindowHolds, T
<1> QED BY <1>14 DEF u

LEMMA MonitorStarts == ComplianceInit => MonitorInv
<1> SUFFICES ASSUME ComplianceInit PROVE MonitorInv
  OBVIOUS
<1> DEFINE w == [start |-> 0, count |-> 0, amount |-> 0]
<1>1. w \in WatchState /\ w.start = 0 /\ w.count = 0
  BY DEF WatchState
<1>2. watch = [t \in Traders |-> w] /\ suspects = [t \in Traders |-> << >>] /\ moment = 0
  BY DEF ComplianceInit
<1> HIDE DEF w
<1>3. << >> \in Seq(Suspect) /\ Len(<< >>) = 0 /\ 1 .. 0 = {}
  OBVIOUS
<1>4. WindowHolds(w, << >>, 0)
  BY <1>1, <1>3 DEF WindowHolds
<1> QED BY <1>1, <1>2, <1>3, <1>4 DEF MonitorInv

LEMMA MonitorKeeps == MonitorInv /\ [ComplianceNext]_complianceVars => MonitorInv'
<1> SUFFICES ASSUME MonitorInv, [ComplianceNext]_complianceVars PROVE MonitorInv'
  OBVIOUS
<1>1. ASSUME UNCHANGED monitorVars, moment' \in Nat, moment <= moment' PROVE MonitorInv'
  <2>1. \A t \in Traders : WindowHolds(watch[t], suspects[t], moment')
    <3> TAKE t \in Traders
    <3>1. WindowHolds(watch[t], suspects[t], moment) /\ moment \in Nat
      BY DEF MonitorInv
    <3>2. /\ watch[t].start \in Nat
          /\ \A k \in 1 .. Len(suspects[t]) : suspects[t][k].at \in Nat /\ suspects[t][k].at <= moment
      BY <3>1, SuspectIs DEF WindowHolds, WatchState
    <3>3. watch[t].start <= moment
      BY <3>1 DEF WindowHolds
    <3>4. watch[t].start <= moment' /\ \A k \in 1 .. Len(suspects[t]) : suspects[t][k].at <= moment'
      BY ONLY <1>1, <3>1, <3>2, <3>3
    <3> QED BY <3>1, <3>4 DEF WindowHolds
  <2> QED BY <1>1, <2>1 DEF MonitorInv, monitorVars
<1>2. moment \in Nat /\ moment <= moment /\ moment + 1 \in Nat /\ moment <= moment + 1
  BY DEF MonitorInv
<1>3. CASE UNCHANGED monitorVars /\ moment' = moment
  BY <1>1, <1>2, <1>3
<1>4. CASE UNCHANGED monitorVars /\ Passes
  BY <1>1, <1>2, <1>4 DEF Passes
<1>5. ASSUME NEW trader \in Traders, NEW amount \in Notionals, check_structuring(trader, amount)
      PROVE  MonitorInv'
  <2> DEFINE w == Window_(watch[trader], moment)
             s == suspects[trader]
             v == [w EXCEPT !.count = @ + 1, !.amount = @ + amount]
             e == [at |-> moment, reported |-> Triggers(v)]
             u == Append(s, e)
  <2>1. /\ watch' = [watch EXCEPT ![trader] = v] /\ suspects' = [suspects EXCEPT ![trader] = u]
        /\ moment' = moment
    BY <1>5 DEF check_structuring, MonitorInv
  <2>2. WindowHolds(w, s, moment) /\ moment < w.start + Day /\ amount \in Nat
    BY <1>2, WindowTurns, ComplianceAssumption DEF MonitorInv
  <2>3. v = [w EXCEPT !.count = @ + 1, !.amount = @ + amount] /\ e = [at |-> moment, reported |-> Triggers(v)]
    OBVIOUS
  <2> HIDE DEF w, v, e
  <2>4. WindowHolds(v, u, moment)
    BY <1>2, <2>2, <2>3, AmountHolds
  <2>5. v \in WatchState /\ u \in Seq(Suspect)
    BY <2>4 DEF WindowHolds
  <2> HIDE DEF u
  <2>6. \A t \in Traders : /\ watch'[t] = IF t = trader THEN v ELSE watch[t]
                           /\ suspects'[t] = IF t = trader THEN u ELSE suspects[t]
    BY <2>1 DEF MonitorInv
  <2>7. \A t \in Traders : WindowHolds(watch'[t], suspects'[t], moment)
    BY <2>4, <2>6 DEF MonitorInv
  <2>8. watch' \in [Traders -> WatchState] /\ suspects' \in [Traders -> Seq(Suspect)]
    BY <2>1, <2>5 DEF MonitorInv
  <2> QED BY <1>2, <2>1, <2>7, <2>8 DEF MonitorInv
<1>6. CASE MonitorNext
  <2>1. ASSUME NEW b \in Traders, NEW c \in Traders, check_wash_trade(b, c) PROVE MonitorInv'
    BY <1>3, <2>1 DEF check_wash_trade
  <2> QED BY <1>4, <1>5, <1>6, <2>1 DEF MonitorNext
<1>7. CASE RegistryNext /\ UNCHANGED <<monitorVars, trailVars>>
  <2>1. Passes \/ moment' = moment
    BY <1>7 DEF RegistryNext, register_trader, set_sanctioned, set_suspended, validate_order
  <2> QED BY <1>3, <1>4, <1>7, <2>1
<1>8. CASE TrailNext /\ UNCHANGED <<registryVars, monitorVars, sars, moment>>
  BY <1>3, <1>8
<1>9. CASE UNCHANGED complianceVars
  BY <1>3, <1>9 DEF complianceVars
<1> QED BY <1>6, <1>7, <1>8, <1>9 DEF ComplianceNext

LEMMA MonitorSuffices == MonitorInv => StructuringSeen
<1> SUFFICES ASSUME MonitorInv, NEW t \in Traders
             PROVE  \A i, j \in DOMAIN suspects[t] :
                       /\ j - i + 1 >= 2 * TriggerCount - 1
                       /\ suspects[t][j].at - suspects[t][i].at < Day
                       => \E k \in i .. j : suspects[t][k].reported
  BY DEF StructuringSeen
<1>1. WindowHolds(watch[t], suspects[t], moment) /\ suspects[t] \in Seq(Suspect)
  BY DEF MonitorInv
<1>2. DOMAIN suspects[t] = 1 .. Len(suspects[t])
  BY <1>1
<1> QED BY <1>1, <1>2 DEF WindowHolds

-----------------------------------------------------------------------------
(***************************************************************************)
(* Compliance: the trail of events.                                        *)
(***************************************************************************)

TrailMembers == [open : BOOLEAN, sequence : Nat, tail : Hash]

\* What the open ledger writes next continues the file.
TrailInv ==
    /\ trailFile \in Seq(AuditEvent) /\ trail \in TrailMembers
    /\ ~trailFaulty =>
          /\ verify_log_integrity(trailFile)
          /\ trail.open => /\ trail.sequence = Len(trailFile)
                           /\ trail.tail = PreviousHash(trailFile, Len(trailFile) + 1)

\* The walk that verifies the trail is the one that verifies the log.
LEMMA SameWalk == \A f : verify_integrity(f) <=> verify_log_integrity(f)
BY DEF verify_integrity, verify_log_integrity, valid_event, compute_hash

LEMMA TrailStarts == ComplianceInit => TrailInv
<1> SUFFICES ASSUME ComplianceInit PROVE TrailInv
  OBVIOUS
<1>1. trailFile = << >> /\ trail = [open |-> FALSE, sequence |-> 0, tail |-> << >>]
  BY DEF ComplianceInit
<1>2. << >> \in Hash /\ trailFile \in Seq(AuditEvent)
  BY <1>1 DEF Hash
<1>3. trail \in TrailMembers /\ ~trail.open
  BY <1>1, <1>2 DEF TrailMembers
<1>4. verify_log_integrity(trailFile)
  BY <1>1 DEF verify_log_integrity
<1> QED BY <1>2, <1>3, <1>4 DEF TrailInv

LEMMA LogEventKeeps ==
    ASSUME TrailInv, NEW body \in Bodies, NEW written \in BOOLEAN, log_event(body, written)
    PROVE  TrailInv'
<1> DEFINE n == trail.sequence
           h == trail.tail
           e == Event(n, h, body)
           f == trailFile
<1>1. n \in Nat /\ h \in Hash /\ trail \in TrailMembers /\ f \in Seq(AuditEvent) /\ trail.open
  BY DEF TrailInv, TrailMembers, log_event
<1>2. /\ e \in AuditEvent /\ valid_event(e) /\ e.sequence = n /\ e.previous_hash = h
  BY <1>1, EventIs
<1>3. /\ trail' = [trail EXCEPT !.sequence = n + 1, !.tail = e.hash]
      /\ trailFile' = IF written THEN Append(f, e) ELSE f
      /\ trailFaulty' = (trailFaulty \/ ~written)
  BY DEF log_event, Moved
<1> HIDE DEF e, n, h
<1>4. e.hash \in Hash /\ n + 1 \in Nat
  BY <1>1, <1>2 DEF AuditEvent
<1>5. trail' \in TrailMembers /\ trail'.sequence = n + 1 /\ trail'.tail = e.hash
  BY <1>1, <1>3, <1>4 DEF TrailMembers
<1>6. trailFile' \in Seq(AuditEvent)
  BY <1>1, <1>2, <1>3
<1>7. CASE trailFaulty \/ ~written
  BY <1>3, <1>5, <1>6, <1>7 DEF TrailInv
<1>8. CASE ~trailFaulty /\ written
  <2>1. trailFile' = Append(f, e) /\ n = Len(f) /\ h = PreviousHash(f, Len(f) + 1)
        /\ verify_log_integrity(f)
    BY <1>1, <1>3, <1>8 DEF TrailInv, n, h
  <2>2. Len(f) \in Nat /\ Len(Append(f, e)) = Len(f) + 1
    BY <1>1, <1>2
  <2>3. verify_log_integrity(Append(f, e)) /\ PreviousHash(Append(f, e), Len(f) + 2) = e.hash
    BY <1>1, <1>2, <2>1, ChainGrows
  <2>4. Len(trailFile') = n + 1 /\ Len(trailFile') + 1 = Len(f) + 2
    BY <2>1, <2>2
  <2>5. trail'.tail = PreviousHash(trailFile', Len(trailFile') + 1)
    BY <1>5, <2>1, <2>3, <2>4
  <2> QED BY <1>5, <1>6, <2>1, <2>3, <2>4, <2>5 DEF TrailInv
<1> QED BY <1>7, <1>8

LEMMA TrailKeeps == TrailInv /\ [ComplianceNext]_complianceVars => TrailInv'
<1> SUFFICES ASSUME TrailInv, [ComplianceNext]_complianceVars PROVE TrailInv'
  OBVIOUS
<1>1. CASE UNCHANGED trailVars
  BY <1>1 DEF TrailInv, trailVars
<1>2. CASE trail_open
  <2> DEFINE f == trailFile
             h == PreviousHash(f, Len(f) + 1)
  <2>1. f \in Seq(AuditEvent) /\ Len(f) \in Nat
    BY DEF TrailInv
  <2>2. h \in Hash
    <3>1. CASE Len(f) = 0
      BY <3>1 DEF PreviousHash, Hash
    <3>2. CASE Len(f) # 0
      <4>1. Len(f) + 1 # 1 /\ f[(Len(f) + 1) - 1] \in AuditEvent
        BY <2>1, <3>2
      <4> QED BY <4>1 DEF PreviousHash, AuditEvent
    <3> QED BY <3>1, <3>2
  <2>3. trail' = [open |-> TRUE, sequence |-> Len(f), tail |-> h] /\ UNCHANGED <<trailFile, trailFaulty>>
    BY <1>2 DEF trail_open
  <2> HIDE DEF h
  <2>4. trail' \in TrailMembers /\ trail'.sequence = Len(f) /\ trail'.tail = h
    BY <2>1, <2>2, <2>3 DEF TrailMembers
  <2> QED BY <2>3, <2>4 DEF TrailInv, h
<1>3. CASE trail_close
  <2>1. trail' \in TrailMembers /\ ~trail'.open /\ UNCHANGED <<trailFile, trailFaulty>>
    BY <1>3 DEF trail_close, TrailInv, TrailMembers
  <2> QED BY <2>1 DEF TrailInv
<1>4. CASE TrailNext
  BY <1>2, <1>3, <1>4, LogEventKeeps DEF TrailNext
<1> QED BY <1>1, <1>4 DEF ComplianceNext, complianceVars

ComplianceInv == RegistryInv /\ MonitorInv /\ TrailInv

\* ComplianceSound, for any traders, tiers, length of the day, amounts and reports:
\* what ComplianceRegistry accepts within any day is at most twice the tier's limit,
\* 2 * TriggerCount - 1 amounts of the band within a day never pass check_structuring
\* unreported, and until a write fails the file of ComplianceAuditLedger verifies.
THEOREM ComplianceHolds == Spec => []ComplianceSound
<1>1. Init => ComplianceInv
  BY RegistryStarts, MonitorStarts, TrailStarts DEF Init, ComplianceInv
<1>2. ComplianceInv /\ [Next]_vars => ComplianceInv'
  BY ComplianceSteps, RegistryKeeps, MonitorKeeps, TrailKeeps DEF ComplianceInv
<1>3. ComplianceInv => ComplianceSound
  <2>1. TrailInv => TrailVerifies
    BY SameWalk DEF TrailInv, TrailVerifies
  <2> QED BY <2>1, RegistrySuffices, MonitorSuffices DEF ComplianceInv, ComplianceSound
<1> QED BY <1>1, <1>2, <1>3, PTL DEF Spec


-----------------------------------------------------------------------------
(***************************************************************************)
(* Telemetry: the percentiles of a batch.                                  *)
(***************************************************************************)
Ascends(t, n) == \A i, j \in 1 .. n : i < j => t[i] <= t[j]

SortedBy(s, n, p) ==
    /\ p \in [1 .. n -> 1 .. n] /\ \A w \in 1 .. n : \E v \in 1 .. n : p[v] = w
    /\ \A i, j \in 1 .. n : i < j => s[p[i]] <= s[p[j]]

\* Where a number enters an order: before the first that exceeds it.
LEMMA EntersAt ==
    ASSUME NEW n \in Nat, NEW g, \A i \in 1 .. n : g[i] \in Nat, Ascends(g, n), NEW x \in Nat
    PROVE  \E k \in 1 .. n + 1 : /\ \A i \in 1 .. n : i < k => g[i] <= x
                                 /\ \A i \in 1 .. n : i >= k => x <= g[i]
<1> DEFINE K == {k \in 1 .. n + 1 : k = n + 1 \/ g[k] > x}
<1>1. K \subseteq Nat /\ n + 1 \in K
  OBVIOUS
<1>2. PICK k \in K : \A y \in K : k <= y
  <2> HIDE DEF K
  <2> QED BY <1>1, LeastNumber
<1>3. \A i \in 1 .. n : i < k => g[i] <= x
  <2> TAKE i \in 1 .. n
  <2>1. SUFFICES ASSUME i < k, ~(g[i] <= x) PROVE FALSE
    OBVIOUS
  <2>2. i \in K
    BY <2>1
  <2>3. k <= i
    BY <1>2, <2>2
  <2> QED BY <1>2, <2>1, <2>3
<1>4. ASSUME NEW i \in 1 .. n, i >= k PROVE x <= g[i]
  <2>1. k \in 1 .. n /\ g[k] > x
    BY <1>2, <1>4
  <2>2. CASE i = k
    BY <2>1, <2>2
  <2>3. CASE i # k
    <3>1. g[k] <= g[i]
      BY <1>4, <2>1, <2>3 DEF Ascends
    <3> QED BY <2>1, <3>1
  <2> QED BY <2>2, <2>3
<1> QED BY <1>2, <1>3, <1>4

LEMMA SortNext ==
    ASSUME NEW n \in Nat, NEW s, \A i \in 1 .. n + 1 : s[i] \in Nat, NEW p, SortedBy(s, n, p)
    PROVE  \E q : SortedBy(s, n + 1, q)
<1> DEFINE g == [i \in 1 .. n |-> s[p[i]]]
           x == s[n + 1]
<1>1. p \in [1 .. n -> 1 .. n] /\ \A w \in 1 .. n : \E v \in 1 .. n : p[v] = w
  BY DEF SortedBy
<1>2. (\A i \in 1 .. n : g[i] \in Nat /\ g[i] = s[p[i]]) /\ Ascends(g, n) /\ x \in Nat
  <2>1. \A i \in 1 .. n : g[i] = s[p[i]] /\ g[i] \in Nat /\ p[i] \in 1 .. n
    <3> TAKE i \in 1 .. n
    <3>1. p[i] \in 1 .. n /\ p[i] \in 1 .. n + 1
      BY <1>1
    <3> QED BY <3>1
  <2>2. Ascends(g, n)
    BY <2>1 DEF SortedBy, Ascends
  <2>3. x \in Nat
    OBVIOUS
  <2> QED BY <2>1, <2>2, <2>3
<1> HIDE DEF g, x
<1>3. PICK k \in 1 .. n + 1 : /\ \A i \in 1 .. n : i < k => g[i] <= x
                              /\ \A i \in 1 .. n : i >= k => x <= g[i]
  BY <1>2, EntersAt
<1> DEFINE q == [i \in 1 .. n + 1 |-> IF i < k THEN p[i] ELSE IF i = k THEN n + 1 ELSE p[i - 1]]
<1>4. ASSUME NEW i \in 1 .. n + 1
      PROVE  \/ i < k /\ i \in 1 .. n /\ q[i] = p[i]
             \/ i = k /\ q[i] = n + 1
             \/ i > k /\ i - 1 \in 1 .. n /\ i - 1 >= k /\ q[i] = p[i - 1]
  BY <1>3
<1>5. q \in [1 .. n + 1 -> 1 .. n + 1]
  <2>1. ASSUME NEW i \in 1 .. n + 1 PROVE q[i] \in 1 .. n + 1
    <3>1. \A w \in 1 .. n : p[w] \in 1 .. n + 1
      BY <1>1
    <3>2. n + 1 \in 1 .. n + 1
      OBVIOUS
    <3> HIDE DEF q
    <3> QED BY <1>4, <3>1, <3>2
  <2> QED BY <2>1
<1>6. ASSUME NEW w \in 1 .. n + 1 PROVE \E v \in 1 .. n + 1 : q[v] = w
  <2>1. CASE w = n + 1
    BY <1>3, <2>1
  <2>2. CASE w # n + 1
    <3>1. PICK v \in 1 .. n : p[v] = w
      BY <1>1, <2>2
    <3>2. CASE v < k
      <4>1. q[v] = w /\ v \in 1 .. n + 1
        BY <3>1, <3>2
      <4> QED BY <4>1
    <3>3. CASE ~(v < k)
      <4>1. v + 1 \in 1 .. n + 1 /\ ~(v + 1 < k) /\ v + 1 # k /\ (v + 1) - 1 = v
        BY <1>3, <3>3
      <4>2. q[v + 1] = w
        BY <3>1, <4>1
      <4> QED BY <4>1, <4>2
    <3> QED BY <3>2, <3>3
  <2> QED BY <2>1, <2>2
<1> DEFINE h(i) == s[q[i]]
<1>7. ASSUME NEW i \in 1 .. n + 1
      PROVE  \/ i < k /\ i \in 1 .. n /\ h(i) = g[i]
             \/ i = k /\ h(i) = x
             \/ i > k /\ i - 1 \in 1 .. n /\ i - 1 >= k /\ h(i) = g[i - 1]
  BY <1>2, <1>4 DEF x
<1> HIDE DEF q
<1>8. ASSUME NEW i \in 1 .. n + 1, NEW j \in 1 .. n + 1, i < j PROVE h(i) <= h(j)
  <2> HIDE DEF h
  <2>1. CASE i < k /\ i \in 1 .. n /\ h(i) = g[i]
    <3>1. CASE j < k /\ j \in 1 .. n /\ h(j) = g[j]
      BY <1>2, <1>8, <2>1, <3>1 DEF Ascends
    <3>2. CASE j = k /\ h(j) = x
      BY <1>3, <2>1, <3>2
    <3>3. CASE j > k /\ j - 1 \in 1 .. n /\ j - 1 >= k /\ h(j) = g[j - 1]
      <4>1. i < j - 1
        BY <1>3, <2>1, <3>3
      <4> QED BY <1>2, <2>1, <3>3, <4>1 DEF Ascends
    <3> QED BY <1>7, <3>1, <3>2, <3>3
  <2>2. CASE i = k /\ h(i) = x
    <3>1. j > k /\ j - 1 \in 1 .. n /\ j - 1 >= k /\ h(j) = g[j - 1]
      <4>1. j > k /\ ~(j < k) /\ ~(j = k)
        BY <1>3, <1>8, <2>2
      <4> QED BY <1>7, <4>1
    <3> QED BY <1>3, <2>2, <3>1
  <2>3. CASE i > k /\ i - 1 \in 1 .. n /\ i - 1 >= k /\ h(i) = g[i - 1]
    <3>1. j > k /\ ~(j < k) /\ ~(j = k)
      BY <1>3, <1>8, <2>3
    <3>2. j - 1 \in 1 .. n /\ h(j) = g[j - 1]
      BY <1>7, <3>1
    <3>3. i - 1 < j - 1
      BY <1>8
    <3> QED BY <1>2, <2>3, <3>2, <3>3 DEF Ascends
  <2> QED BY <1>7, <2>1, <2>2, <2>3
<1>9. SortedBy(s, n + 1, q)
  BY <1>5, <1>6, <1>8 DEF SortedBy
<1> QED BY <1>9

\* Every sequence of numbers can be sorted.
LEMMA SortExists ==
    ASSUME NEW N \in Nat, NEW s, \A i \in 1 .. N : s[i] \in Nat
    PROVE  \E p : SortedBy(s, N, p)
<1> DEFINE S == {n \in Nat : n <= N => \E p : SortedBy(s, n, p)}
<1>1. 0 \in S
  <2>1. SortedBy(s, 0, [i \in 1 .. 0 |-> i])
    BY DEF SortedBy
  <2> QED BY <2>1
<1>2. ASSUME NEW n \in Nat, n \in S PROVE n + 1 \in S
  <2> SUFFICES ASSUME n + 1 <= N PROVE \E p : SortedBy(s, n + 1, p)
    OBVIOUS
  <2>1. n <= N /\ \A i \in 1 .. n + 1 : s[i] \in Nat
    OBVIOUS
  <2>2. PICK p : SortedBy(s, n, p)
    BY <1>2, <2>1
  <2> QED BY <2>1, <2>2, SortNext
<1>3. N \in S
  <2> HIDE DEF S
  <2> QED BY <1>1, <1>2, NatSetInduction
<1> QED BY <1>3

LEMMA SortedIs ==
    ASSUME NEW s \in Seq(Nat)
    PROVE  Sorted(s) \in Seq(Nat) /\ Len(Sorted(s)) = Len(s) /\ Ascends(Sorted(s), Len(s))
<1> DEFINE n == Len(s)
           P == CHOOSE p \in Surjection(DOMAIN s, DOMAIN s) :
                  \A i, j \in DOMAIN s : i < j => s[p[i]] <= s[p[j]]
<1>1. n \in Nat /\ DOMAIN s = 1 .. n /\ \A i \in 1 .. n : s[i] \in Nat
  OBVIOUS
<1>2. Sorted(s) = [i \in DOMAIN s |-> s[P[i]]]
  BY DEF Sorted
<1>3. PICK p : SortedBy(s, n, p)
  <2> HIDE DEF n
  <2> QED BY <1>1, SortExists
<1>4. p \in Surjection(DOMAIN s, DOMAIN s)
  BY <1>1, <1>3 DEF SortedBy, Surjection
<1>5. \A i, j \in DOMAIN s : i < j => s[p[i]] <= s[p[j]]
  BY <1>1, <1>3 DEF SortedBy
<1>6. P \in Surjection(DOMAIN s, DOMAIN s) /\ \A i, j \in DOMAIN s : i < j => s[P[i]] <= s[P[j]]
  BY <1>4, <1>5
<1> HIDE DEF P
<1>7. P \in [1 .. n -> 1 .. n]
  BY <1>1, <1>6 DEF Surjection
<1>8. ASSUME NEW i \in 1 .. n PROVE Sorted(s)[i] = s[P[i]] /\ s[P[i]] \in Nat
  BY <1>1, <1>2, <1>7
<1>9. Sorted(s) \in [1 .. n -> Nat]
  BY <1>1, <1>2, <1>8
<1>10. Ascends(Sorted(s), n)
  BY <1>1, <1>6, <1>8 DEF Ascends
<1> HIDE DEF n
<1>11. Sorted(s) \in Seq(Nat) /\ Len(Sorted(s)) = n
  BY <1>1, <1>9 DEF Seq
<1> QED BY <1>10, <1>11 DEF n

\* The nearest rank.
LEMMA RankIs ==
    ASSUME NEW n \in Nat \ {0}, NEW rank \in {50, 99}, NEW index, index = (n * rank + 100 - 1) \div 100
    PROVE  /\ index \in 1 .. n /\ 100 * index >= rank * n /\ 100 * (index - 1) < rank * n
<1>1. CASE rank = 50
  BY <1>1
<1>2. CASE rank = 99
  BY <1>2
<1> QED BY <1>1, <1>2

Ranked(a, b, x, v, t) ==
    a \in Nat /\ a >= x /\ b \in Nat /\ (v < t[x] => b <= x - 1)

LEMMA RankCounts ==
    ASSUME NEW n \in Nat \ {0}, NEW t, \A i \in 1 .. n : t[i] \in Nat, Ascends(t, n), NEW x \in 1 .. n,
           NEW v \in Nat, NEW a, a = Cardinality({i \in 1 .. n : t[i] <= t[x]}),
           NEW b, b = Cardinality({i \in 1 .. n : t[i] <= v})
    PROVE  Ranked(a, b, x, v, t)
<1> DEFINE A == {i \in 1 .. n : t[i] <= t[x]}
           B == {i \in 1 .. n : t[i] <= v}
<1>1. IsFiniteSet(1 .. n) /\ A \subseteq 1 .. n /\ B \subseteq 1 .. n
  BY FS_Interval
<1>2. IsFiniteSet(1 .. x) /\ Cardinality(1 .. x) = x /\ IsFiniteSet(1 .. x - 1) /\ Cardinality(1 .. x - 1) = x - 1
  <2>1. /\ IsFiniteSet(1 .. x) /\ Cardinality(1 .. x) = IF 1 > x THEN 0 ELSE x - 1 + 1
        /\ IsFiniteSet(1 .. x - 1) /\ Cardinality(1 .. x - 1) = IF 1 > x - 1 THEN 0 ELSE x - 1 - 1 + 1
    BY FS_Interval
  <2> QED BY <2>1
<1>3. 1 .. x \subseteq A
  <2> SUFFICES ASSUME NEW i \in 1 .. x PROVE i \in A
    OBVIOUS
  <2>1. i \in 1 .. n /\ (i = x \/ i < x)
    OBVIOUS
  <2>2. t[i] <= t[x]
    BY <2>1 DEF Ascends
  <2> QED BY <2>1, <2>2
<1>4. ASSUME v < t[x] PROVE B \subseteq 1 .. x - 1
  <2> SUFFICES ASSUME NEW i \in B PROVE i \in 1 .. x - 1
    OBVIOUS
  <2>1. i \in 1 .. n /\ t[i] < t[x]
    BY <1>4
  <2>2. ~(x < i) /\ x # i
    BY <2>1 DEF Ascends
  <2> QED BY <2>1, <2>2
<1> HIDE DEF A, B
<1>5. IsFiniteSet(A) /\ IsFiniteSet(B) /\ Cardinality(A) \in Nat /\ Cardinality(B) \in Nat
  BY <1>1, FS_Subset, FS_CardinalityType
<1>6. Cardinality(A) >= x
  <2>1. Cardinality(1 .. x) <= Cardinality(A)
    BY ONLY <1>3, <1>5, FS_Subset
  <2> QED BY <1>2, <1>5, <2>1
<1>7. ASSUME v < t[x] PROVE Cardinality(B) <= x - 1
  <2>1. B \subseteq 1 .. x - 1 /\ IsFiniteSet(1 .. x - 1)
    BY <1>2, <1>4, <1>7
  <2>2. Cardinality(B) <= Cardinality(1 .. x - 1)
    BY ONLY <2>1, FS_Subset
  <2> QED BY <1>2, <2>2
<1> QED BY <1>5, <1>6, <1>7 DEF A, B, Ranked

LEMMA PercentileIsNearest ==
    ASSUME batch.now.latencies \in Seq(Nat)
    PROVE  PercentilesNearestRank
<1> DEFINE t == Sorted(batch.now.latencies)
           n == Len(t)
           Part(v) == 100 * Cardinality({i \in DOMAIN t : t[i] <= v})
<1>1. t \in Seq(Nat) /\ Ascends(t, n) /\ n \in Nat /\ DOMAIN t = 1 .. n /\ \A i \in 1 .. n : t[i] \in Nat
  BY SortedIs
<1> HIDE DEF t
<1> SUFFICES ASSUME NEW rank \in {50, 99}, t # << >>
             PROVE  /\ Part(percentile(t, rank)) >= rank * n
                    /\ \A v \in ToSet(t) : v < percentile(t, rank) => Part(v) < rank * n
  BY DEF PercentilesNearestRank, t
<1> DEFINE index == (n * rank + 100 - 1) \div 100
<1>2. n \in Nat \ {0}
  BY <1>1
<1>3. /\ index \in 1 .. n /\ 100 * index >= rank * n /\ 100 * (index - 1) < rank * n
  <2> HIDE DEF n
  <2> QED BY <1>2, RankIs
<1>4. percentile(t, rank) = t[index]
  <2>1. ~(rank >= 1000)
    OBVIOUS
  <2>2. percentile(t, rank) = t[IF index = 0 THEN 1 ELSE IF index < n THEN index ELSE n]
    BY <1>2, <2>1 DEF percentile
  <2> HIDE DEF index, n
  <2>3. (IF index = 0 THEN 1 ELSE IF index < n THEN index ELSE n) = index
    BY <1>2, <1>3
  <2> QED BY <2>2, <2>3
<1> DEFINE z == rank * n
<1>5. z \in Nat
  BY <1>2
<1> HIDE DEF index, n, z
<1>6. ASSUME NEW v \in Nat
      PROVE  /\ Part(t[index]) >= z
             /\ v < t[index] => Part(v) < z
  <2> DEFINE a == Cardinality({i \in 1 .. n : t[i] <= t[index]})
             b == Cardinality({i \in 1 .. n : t[i] <= v})
  <2>1. a \in Nat /\ a >= index /\ b \in Nat /\ (v < t[index] => b <= index - 1)
    <3>1. Ranked(a, b, index, v, t)
      BY <1>1, <1>2, <1>3, RankCounts
    <3> QED BY <3>1 DEF Ranked
  <2>2. Part(t[index]) = 100 * a /\ Part(v) = 100 * b
    BY <1>1
  <2>3. 100 * index >= z /\ 100 * (index - 1) < z /\ index \in Nat
    BY <1>2, <1>3 DEF z
  <2> HIDE DEF a, b, Part
  <2>4. 100 * a >= z /\ (b <= index - 1 => 100 * b < z)
    BY ONLY <1>5, <2>1, <2>3
  <2> QED BY <2>1, <2>2, <2>4
<1>7. ToSet(t) \subseteq Nat
  BY <1>1 DEF ToSet
<1> HIDE DEF Part
<1>8. 0 \in Nat
  OBVIOUS
<1> QED BY <1>4, <1>6, <1>7, <1>8 DEF z

-----------------------------------------------------------------------------
(***************************************************************************)
(* Telemetry: the fills.                                                   *)
(***************************************************************************)
Snapshots == [fill_count : Nat, fills_total : Nat]

Adds(F, base, s) ==
    /\ F \in [0 .. Len(s) -> Nat] /\ F[0] = base /\ F[Len(s)] = FillsIn(base, s)
    /\ \A n \in 1 .. Len(s) : F[n] = F[n - 1] + s[n].fill_count

\* FillsIn adds one snapshot after the other.
LEMMA FillsAdd ==
    ASSUME NEW s \in Seq(Snapshots), NEW base \in Nat
    PROVE  \E F : Adds(F, base, s)
<1> DEFINE N == Len(s)
           V(w, i) == w + s[i].fill_count
           step == [i \in 1 .. N |-> [w \in Nat |-> V(w, i)]]
           body(g) == [t \in SUBSET (1 .. N) |-> IF t = {} THEN base ELSE V(g[t \ {Max(t)}], Max(t))]
           fold == CHOOSE g : g = body(g)
<1>0. N \in Nat /\ DOMAIN s = 1 .. N /\ \A i \in 1 .. N : s[i].fill_count \in Nat
  <2>1. N \in Nat /\ DOMAIN s = 1 .. N /\ \A i \in 1 .. N : s[i] \in Snapshots
    OBVIOUS
  <2> QED BY <2>1 DEF Snapshots
<1>1. \A t \in SUBSET (1 .. N) : t # {} => Max(t) \in t
  <2> TAKE t \in SUBSET (1 .. N)
  <2>1. t \subseteq 0 .. N
    BY <1>0
  <2> QED BY <1>0, <2>1, MaxIn
<1>3. \A w \in Nat, i \in 1 .. N : V(w, i) \in Nat /\ V(w, i) = w + s[i].fill_count
  BY <1>0
<1>4. FillsIn(base, s) = fold[1 .. N]
  BY <1>0 DEF FillsIn, FoldLeft, MapThenFoldSet
<1> HIDE DEF V
<1>5. step \in [1 .. N -> [Nat -> Nat]]
  BY <1>3
<1>6. PICK f : Folds(f, step, base, Nat, N)
  <2> HIDE DEF step
  <2> QED BY ONLY <1>0, <1>5, base \in Nat, FoldsExist
<1>7. f = body(f)
  <2>1. ASSUME NEW t \in SUBSET (1 .. N) PROVE f[t] = body(f)[t]
    <3>1. CASE t = {}
      BY <1>6, <3>1 DEF Folds
    <3>2. CASE t # {}
      <4>1. Max(t) \in 1 .. N /\ t \ {Max(t)} \in SUBSET (1 .. N)
        BY <1>1, <3>2
      <4>2. f[t \ {Max(t)}] \in Nat /\ f[t] = step[Max(t)][f[t \ {Max(t)}]]
        BY <1>6, <3>2, <4>1 DEF Folds
      <4>3. step[Max(t)][f[t \ {Max(t)}]] = V(f[t \ {Max(t)}], Max(t))
        BY <4>1, <4>2
      <4> QED BY <3>2, <4>2, <4>3
    <3> QED BY <3>1, <3>2
  <2> QED BY <1>6, <2>1 DEF Folds
<1>8. fold = body(fold)
  <2> HIDE DEF body
  <2> QED BY <1>7
<1> HIDE DEF fold
<1>9. fold[{}] = base /\ fold[1 .. 0] = base
  <2>1. 1 .. 0 = {}
    OBVIOUS
  <2> QED BY <1>8, <2>1
<1>10. ASSUME NEW n \in 1 .. N PROVE fold[1 .. n] = V(fold[1 .. (n - 1)], n)
  <2>1. \A i \in 1 .. n : i \in 1 .. N
    BY <1>0
  <2>2. n \in 1 .. n /\ n \in Nat \ {0}
    BY <1>0
  <2>3. fold[1 .. n] = V(fold[(1 .. n) \ {Max(1 .. n)}], Max(1 .. n))
    BY <1>8, <2>1, <2>2
  <2> QED BY <2>2, <2>3, MaxPrefix
<1> DEFINE F == [n \in 0 .. N |-> fold[1 .. n]]
           S == {n \in Nat : n <= N => fold[1 .. n] \in Nat}
<1>11. 0 \in S
  BY <1>9
<1>12. \A n \in Nat : n \in S => n + 1 \in S
  <2> HIDE DEF N
  <2> SUFFICES ASSUME NEW n \in Nat, n \in S, n + 1 <= N PROVE fold[1 .. (n + 1)] \in Nat
    OBVIOUS
  <2>1. n + 1 \in 1 .. N /\ (n + 1) - 1 = n /\ n <= N
    BY <1>0
  <2>2. fold[1 .. (n + 1)] = V(fold[1 .. n], n + 1)
    BY <1>10, <2>1
  <2> QED BY <1>3, <2>1, <2>2
<1>13. \A n \in Nat : n \in S
  <2> HIDE DEF S
  <2> QED BY <1>11, <1>12, NatSetInduction
<1>14. F \in [0 .. N -> Nat]
  BY <1>0, <1>13
<1>15. F[0] = base /\ F[N] = fold[1 .. N]
  BY <1>0, <1>9
<1>16. ASSUME NEW n \in 1 .. N PROVE F[n] = V(F[n - 1], n) /\ F[n - 1] \in Nat
  <2>1. n \in 0 .. N /\ n - 1 \in 0 .. N
    BY <1>0
  <2>2. F[n] = fold[1 .. n] /\ F[n - 1] = fold[1 .. (n - 1)]
    BY <2>1
  <2> QED BY <1>10, <1>14, <2>1, <2>2
<1> HIDE DEF F
<1>17. Adds(F, base, s)
  BY <1>3, <1>4, <1>14, <1>15, <1>16 DEF Adds
<1> QED BY <1>17

\* Two sums of the same terms differ by what they start from.
LEMMA SameTerms ==
    ASSUME NEW N \in Nat, NEW d \in Int, NEW F, NEW G,
           \A k \in 0 .. N : F[k] \in Int /\ G[k] \in Int,
           F[0] = G[0] + d, \A k \in 1 .. N : F[k] - F[k - 1] = G[k] - G[k - 1]
    PROVE  F[N] = G[N] + d
<1> DEFINE S == {n \in Nat : n <= N => F[n] = G[n] + d}
<1>1. 0 \in S
  OBVIOUS
<1>2. \A n \in Nat : n \in S => n + 1 \in S
  <2> SUFFICES ASSUME NEW n \in Nat, n \in S, n + 1 <= N PROVE F[n + 1] = G[n + 1] + d
    OBVIOUS
  <2>1. n + 1 \in 1 .. N /\ (n + 1) - 1 = n /\ n \in 0 .. N /\ n + 1 \in 0 .. N /\ F[n] = G[n] + d
    OBVIOUS
  <2>2. F[n + 1] - F[n] = G[n + 1] - G[n]
    BY <2>1
  <2>3. F[n] \in Int /\ G[n] \in Int /\ F[n + 1] \in Int /\ G[n + 1] \in Int
    BY <2>1
  <2> QED BY <2>1, <2>2, <2>3
<1>3. N \in S
  <2> HIDE DEF S
  <2> QED BY <1>1, <1>2, NatSetInduction
<1> QED BY <1>3

LEMMA FillsNat ==
    ASSUME NEW s \in Seq(Snapshots), NEW base \in Nat
    PROVE  FillsIn(base, s) \in Nat /\ (Len(s) = 0 => FillsIn(base, s) = base)
<1>1. PICK F : Adds(F, base, s)
  BY FillsAdd
<1>2. Len(s) \in Nat
  OBVIOUS
<1> QED BY <1>1, <1>2 DEF Adds

\* The first n snapshots and the rest.
LEMMA FillsSplit ==
    ASSUME NEW s \in Seq(Snapshots), NEW base \in Nat, NEW n \in 0 .. Len(s),
           NEW a \in Seq(Snapshots), Len(a) = n, \A k \in 1 .. n : a[k] = s[k],
           NEW b \in Seq(Snapshots), Len(b) = Len(s) - n, \A k \in 1 .. Len(s) - n : b[k] = s[n + k]
    PROVE  FillsIn(base, a) + FillsIn(0, b) = base + FillsIn(0, s)
<1> DEFINE l == Len(s)
<1>1. PICK F : Adds(F, 0, s)
  BY FillsAdd
<1>2. PICK G : Adds(G, base, a)
  BY FillsAdd
<1>3. PICK H : Adds(H, 0, b)
  BY FillsAdd
<1>4. l \in Nat /\ n \in Nat /\ n <= l /\ l - n \in Nat
  OBVIOUS
<1>5. /\ F \in [0 .. l -> Nat] /\ F[0] = 0 /\ F[l] = FillsIn(0, s)
      /\ \A k \in 1 .. l : F[k] = F[k - 1] + s[k].fill_count /\ s[k].fill_count \in Nat
  <2>1. \A k \in 1 .. l : s[k] \in Snapshots
    OBVIOUS
  <2> QED BY <1>1, <2>1 DEF Adds, Snapshots
<1>6. /\ G \in [0 .. n -> Nat] /\ G[0] = base /\ G[n] = FillsIn(base, a)
      /\ \A k \in 1 .. n : G[k] = G[k - 1] + s[k].fill_count
  BY <1>2 DEF Adds
<1>7. /\ H \in [0 .. l - n -> Nat] /\ H[0] = 0 /\ H[l - n] = FillsIn(0, b)
      /\ \A k \in 1 .. l - n : H[k] = H[k - 1] + s[n + k].fill_count
  BY <1>3 DEF Adds
<1> HIDE DEF l
<1>8. G[n] = F[n] + base
  <2>1. \A k \in 0 .. n : F[k] \in Int /\ G[k] \in Int
    <3>1. \A k \in 0 .. n : k \in 0 .. l
      BY <1>4
    <3>2. \A k \in 0 .. n : F[k] \in Nat /\ G[k] \in Nat
      BY ONLY <1>5, <1>6, <3>1
    <3> QED BY <3>2
  <2>2. ASSUME NEW k \in 1 .. n PROVE G[k] - G[k - 1] = F[k] - F[k - 1]
    <3>1. k \in 1 .. l /\ k \in 0 .. n /\ k - 1 \in 0 .. n
      BY <1>4
    <3>2. /\ F[k] \in Int /\ F[k - 1] \in Int /\ G[k] \in Int /\ G[k - 1] \in Int /\ s[k].fill_count \in Nat
          /\ F[k] = F[k - 1] + s[k].fill_count /\ G[k] = G[k - 1] + s[k].fill_count
      BY <1>5, <1>6, <2>1, <3>1
    <3> QED BY ONLY <3>2
  <2>3. G[0] = F[0] + base
    BY <1>5, <1>6
  <2>4. base \in Int /\ \A k \in 0 .. n : G[k] \in Int /\ F[k] \in Int
    BY <2>1
  <2>5. \A k \in 1 .. n : G[k] - G[k - 1] = F[k] - F[k - 1]
    BY <2>2
  <2> QED BY ONLY n \in Nat, <1>4, <2>3, <2>4, <2>5, SameTerms
<1> DEFINE E == [k \in 0 .. l - n |-> F[n + k]]
<1>9. E[l - n] = H[l - n] + F[n]
  <2>0. F[n] \in Nat
    BY <1>4, <1>5
  <2>1. \A k \in 0 .. l - n : E[k] \in Int /\ H[k] \in Int
    <3>1. \A k \in 0 .. l - n : n + k \in 0 .. l
      BY <1>4
    <3>2. \A k \in 0 .. l - n : H[k] \in Int
      BY <1>7
    <3>3. \A k \in 0 .. l : F[k] \in Int
      BY <1>5
    <3>4. \A k \in 0 .. l - n : E[k] = F[n + k]
      OBVIOUS
    <3> HIDE DEF E
    <3> QED BY ONLY <3>1, <3>2, <3>3, <3>4
  <2>2. ASSUME NEW k \in 1 .. l - n PROVE E[k] - E[k - 1] = H[k] - H[k - 1]
    <3>1. /\ n + k \in 1 .. l /\ k \in 0 .. l - n /\ k - 1 \in 0 .. l - n /\ n + (k - 1) = (n + k) - 1
      BY <1>4
    <3>2. E[k] = F[n + k] /\ E[k - 1] = F[(n + k) - 1]
      BY <3>1
    <3>3. /\ E[k] \in Int /\ E[k - 1] \in Int /\ H[k] \in Int /\ H[k - 1] \in Int /\ s[n + k].fill_count \in Nat
      BY <1>5, <2>1, <3>1
    <3>4. E[k] = E[k - 1] + s[n + k].fill_count /\ H[k] = H[k - 1] + s[n + k].fill_count
      BY <1>5, <1>7, <3>1, <3>2
    <3> DEFINE ek == E[k]
               ej == E[k - 1]
               hk == H[k]
               hj == H[k - 1]
               f == s[n + k].fill_count
    <3>5. ek \in Int /\ ej \in Int /\ hk \in Int /\ hj \in Int /\ f \in Int /\ ek = ej + f /\ hk = hj + f
      BY <3>3, <3>4
    <3> HIDE DEF E, ek, ej, hk, hj, f
    <3>6. ek - ej = hk - hj
      BY ONLY <3>5
    <3> QED BY <3>6 DEF ek, ej, hk, hj
  <2>3. E[0] = H[0] + F[n]
    BY <1>4, <1>5, <1>7, <2>0
  <2> HIDE DEF E
  <2>4. F[n] \in Int /\ \A k \in 1 .. l - n : E[k] - E[k - 1] = H[k] - H[k - 1]
    BY <2>0, <2>2
  <2> DEFINE m == l - n
             d == F[n]
  <2>5. /\ m \in Nat /\ d \in Int /\ (\A k \in 0 .. m : E[k] \in Int /\ H[k] \in Int)
        /\ E[0] = H[0] + d /\ \A k \in 1 .. m : E[k] - E[k - 1] = H[k] - H[k - 1]
    BY <1>4, <2>1, <2>3, <2>4
  <2> HIDE DEF m, d
  <2>6. E[m] = H[m] + d
    BY ONLY <2>5, SameTerms
  <2> QED BY <2>6 DEF m, d
<1>10. E[l - n] = F[l] /\ F[l] \in Nat /\ F[n] \in Nat /\ H[l - n] \in Nat /\ G[n] \in Nat
  <2>1. n + (l - n) = l /\ l - n \in 0 .. l - n /\ l \in 0 .. l /\ n \in 0 .. l /\ n \in 0 .. n
    BY <1>4
  <2> QED BY <1>5, <1>6, <1>7, <2>1
<1> HIDE DEF E
<1>11. G[n] + H[l - n] = base + F[l]
  BY ONLY <1>8, <1>9, <1>10, base \in Nat
<1> QED BY <1>5, <1>6, <1>7, <1>11

LEMMA FillsNext ==
    ASSUME NEW s \in Seq(Snapshots), NEW x \in Snapshots
    PROVE  FillsIn(0, Append(s, x)) = FillsIn(0, s) + x.fill_count
<1> DEFINE t == Append(s, x)
           n == Len(s)
           b == <<x>>
<1>1. /\ t \in Seq(Snapshots) /\ Len(t) = n + 1 /\ n \in Nat /\ t[n + 1] = x
      /\ \A k \in 1 .. n : t[k] = s[k]
  OBVIOUS
<1>2. b \in Seq(Snapshots) /\ Len(b) = 1 /\ b[1] = x
  OBVIOUS
<1>3. PICK H : Adds(H, 0, b)
  BY <1>2, FillsAdd
<1>4. FillsIn(0, b) = x.fill_count
  <2>1. 1 \in 1 .. 1 /\ 1 - 1 = 0 /\ x.fill_count \in Nat
    BY DEF Snapshots
  <2>2. H[1] = FillsIn(0, b) /\ H[0] = 0 /\ H[1] = H[1 - 1] + b[1].fill_count
    BY <1>2, <1>3, <2>1 DEF Adds
  <2> QED BY <1>2, <2>1, <2>2
<1> HIDE DEF t, b
<1>5. FillsIn(0, s) + FillsIn(0, b) = 0 + FillsIn(0, t)
  <2>1. n \in 0 .. Len(t) /\ Len(b) = Len(t) - n /\ \A k \in 1 .. Len(t) - n : b[k] = t[n + k]
    BY <1>1, <1>2
  <2>2. Len(s) = n /\ \A k \in 1 .. n : s[k] = t[k]
    BY <1>1
  <2> HIDE DEF n
  <2> QED BY <1>1, <1>2, <2>1, <2>2, FillsSplit
<1>6. FillsIn(0, t) \in Nat
  BY <1>1, FillsNat
<1> QED BY <1>4, <1>5, <1>6 DEF t

BatchNow == [filled : Nat, latencies : Seq(Latencies)]
BatchType == [now : BatchNow, total : Nat]
SinkType == [kind : {"http", "bridge"}, pc : {"stopped", "poll", "done", "pump"}, running : BOOLEAN,
             snapshot : Snapshots, sequence : Nat, sent : Nat, errors : Nat, pumped : Nat]
AnswerType == [status : Nat, total : Nat]

\* The totals of snapshots t lie in order between a and z.
Mounts(a, t, z) ==
    /\ a <= z
    /\ \A i \in 1 .. Len(t) : a <= t[i].fills_total /\ t[i].fills_total <= z
    /\ \A i, j \in 1 .. Len(t) : i < j => t[i].fills_total <= t[j].fills_total

\* What was recorded is in the batch, in the ring or with the sink, and the totals
\* mount from the last answer to the batch.
Accounted == source = "collector" => batch.total = batch.now.filled + delivered + FillsIn(0, telem)
Mounting ==
    source # "heartbeat" => /\ answer.total <= sink.snapshot.fills_total
                            /\ Mounts(sink.snapshot.fills_total, telem, batch.total)

TelemetryTypes ==
    /\ telem \in Seq(Snapshots) /\ batch \in BatchType /\ sink \in SinkType
    /\ answer \in AnswerType /\ delivered \in Nat

TelemetryInv ==
    TelemetryTypes /\ Accounted /\ sink.sequence = sink.sent + sink.errors /\ Mounting

LEMMA TelemetryFields ==
    ASSUME TelemetryTypes
    PROVE  /\ batch.now \in BatchNow /\ batch.now.filled \in Nat /\ batch.now.latencies \in Seq(Latencies)
           /\ batch.total \in Nat /\ sink.snapshot \in Snapshots /\ sink.snapshot.fills_total \in Nat
           /\ sink.sequence \in Nat /\ sink.sent \in Nat /\ sink.errors \in Nat /\ sink.pumped \in Nat
           /\ answer.status \in Nat /\ answer.total \in Nat /\ Len(telem) \in Nat
           /\ \A i \in 1 .. Len(telem) : telem[i] \in Snapshots /\ telem[i].fills_total \in Nat
<1>1. batch.now \in BatchNow /\ batch.total \in Nat
  BY DEF TelemetryTypes, BatchType
<1>2. batch.now.filled \in Nat /\ batch.now.latencies \in Seq(Latencies)
  BY <1>1 DEF BatchNow
<1>3. /\ sink.snapshot \in Snapshots /\ sink.sequence \in Nat /\ sink.sent \in Nat /\ sink.errors \in Nat
      /\ sink.pumped \in Nat
  BY DEF TelemetryTypes, SinkType
<1>4. sink.snapshot.fills_total \in Nat
  BY <1>3 DEF Snapshots
<1>5. answer.status \in Nat /\ answer.total \in Nat
  BY DEF TelemetryTypes, AnswerType
<1>6. Len(telem) \in Nat /\ \A i \in 1 .. Len(telem) : telem[i] \in Snapshots
  BY DEF TelemetryTypes
<1>7. \A i \in 1 .. Len(telem) : telem[i].fills_total \in Nat
  BY <1>6 DEF Snapshots
<1> QED BY <1>1, <1>2, <1>3, <1>4, <1>5, <1>6, <1>7

\* A larger upper end.
LEMMA MountsTo ==
    ASSUME NEW a \in Nat, NEW t \in Seq(Snapshots), NEW y \in Nat, NEW z \in Nat, Mounts(a, t, y), y <= z
    PROVE  Mounts(a, t, z)
<1>1. Len(t) \in Nat /\ \A i \in 1 .. Len(t) : t[i] \in Snapshots
  OBVIOUS
<1>2. \A i \in 1 .. Len(t) : t[i].fills_total \in Nat
  BY <1>1 DEF Snapshots
<1> QED BY <1>2 DEF Mounts

LEMMA MountsNext ==
    ASSUME NEW a \in Nat, NEW t \in Seq(Snapshots), NEW z \in Nat, Mounts(a, t, z),
           NEW x \in Snapshots, x.fills_total = z
    PROVE  Mounts(a, Append(t, x), z)
<1> DEFINE n == Len(t)
           u == Append(t, x)
<1>1. /\ n \in Nat /\ Len(u) = n + 1 /\ u[n + 1] = x /\ \A i \in 1 .. n : u[i] = t[i]
  OBVIOUS
<1>2. \A i \in 1 .. n + 1 : i \in 1 .. n \/ i = n + 1
  BY <1>1
<1>3. /\ a <= z /\ \A i \in 1 .. n : a <= t[i].fills_total /\ t[i].fills_total <= z
      /\ \A i, j \in 1 .. n : i < j => t[i].fills_total <= t[j].fills_total
  BY DEF Mounts
<1> HIDE DEF n, u
<1>4. \A i \in 1 .. n + 1 : a <= u[i].fills_total /\ u[i].fills_total <= z
  <2> TAKE i \in 1 .. n + 1
  <2>1. CASE i \in 1 .. n
    BY <1>1, <1>3, <2>1
  <2>2. CASE i = n + 1
    BY <1>1, <1>3, <2>2
  <2> QED BY <1>2, <2>1, <2>2
<1>5. ASSUME NEW i \in 1 .. n + 1, NEW j \in 1 .. n + 1, i < j
      PROVE  u[i].fills_total <= u[j].fills_total
  <2>1. i \in 1 .. n
    BY <1>1, <1>5
  <2>2. CASE j \in 1 .. n
    BY <1>1, <1>3, <1>5, <2>1, <2>2
  <2>3. CASE j = n + 1
    BY <1>1, <1>3, <2>1, <2>3
  <2> QED BY <1>2, <2>2, <2>3
<1> QED BY <1>1, <1>3, <1>4, <1>5 DEF Mounts, u

\* Without its first n snapshots the ring mounts from the last of them.
LEMMA MountsRest ==
    ASSUME NEW a \in Nat, NEW t \in Seq(Snapshots), NEW z \in Nat, Mounts(a, t, z), NEW n \in 1 .. Len(t),
           NEW u, Len(u) = Len(t) - n, \A k \in 1 .. Len(t) - n : u[k] = t[n + k]
    PROVE  Mounts(t[n].fills_total, u, z) /\ a <= t[n].fills_total
<1> DEFINE l == Len(t)
<1>1. l \in Nat /\ n \in Nat /\ n <= l
  OBVIOUS
<1>2. /\ \A i \in 1 .. l : a <= t[i].fills_total /\ t[i].fills_total <= z
      /\ \A i, j \in 1 .. l : i < j => t[i].fills_total <= t[j].fills_total
  BY DEF Mounts
<1> HIDE DEF l
<1>3. \A k \in 1 .. l - n : n + k \in 1 .. l /\ n < n + k /\ u[k] = t[n + k]
  BY <1>1 DEF l
<1>4. n \in 1 .. l
  BY <1>1
<1>5. \A k \in 1 .. l - n : t[n].fills_total <= u[k].fills_total /\ u[k].fills_total <= z
  BY <1>2, <1>3, <1>4
<1>6. ASSUME NEW i \in 1 .. l - n, NEW j \in 1 .. l - n, i < j PROVE u[i].fills_total <= u[j].fills_total
  <2>1. n + i < n + j
    BY <1>1, <1>6
  <2> QED BY <1>2, <1>3, <2>1
<1>7. Len(u) = l - n
  BY DEF l
<1> QED BY <1>2, <1>4, <1>5, <1>6, <1>7 DEF Mounts

-----------------------------------------------------------------------------
LEMMA TelemetrySteps == [Next]_vars => [TelemetryNext]_telemetryVars
BY DEF vars, allVars, Next, Alone, Encodings, Tables, Limits, Trails_, Metrics, Conditional, Venues, Sessions,
       telemetryVars

LEMMA TelemetryStarts == TelemetryInit => TelemetryInv
<1> SUFFICES ASSUME TelemetryInit PROVE TelemetryInv
  OBVIOUS
<1>1. /\ telem = << >> /\ batch = [now |-> EmptyBatch, total |-> 0] /\ answer = [status |-> 0, total |-> 0]
      /\ delivered = 0
  BY DEF TelemetryInit
<1>2. PICK kind \in {"http", "bridge"} :
         sink = [kind |-> kind, pc |-> "stopped", running |-> FALSE, snapshot |-> Snapshot(0, 0),
                 sequence |-> 0, sent |-> 0, errors |-> 0, pumped |-> 0]
  BY DEF TelemetryInit
<1>3. Snapshot(0, 0) \in Snapshots /\ Snapshot(0, 0).fills_total = 0
  BY DEF Snapshot, Snapshots
<1>4. EmptyBatch \in BatchNow /\ EmptyBatch.filled = 0
  BY DEF EmptyBatch, BatchNow
<1>5. telem \in Seq(Snapshots) /\ Len(telem) = 0
  BY <1>1
<1>6. sink \in SinkType /\ sink.snapshot = Snapshot(0, 0) /\ sink.sequence = 0 /\ sink.sent = 0 /\ sink.errors = 0
  BY <1>2, <1>3 DEF SinkType
<1>7. TelemetryTypes
  BY <1>1, <1>4, <1>5, <1>6 DEF TelemetryTypes, BatchType, AnswerType
<1>8. Accounted
  <2>1. FillsIn(0, telem) = 0
    <3>1. 0 \in Nat
      OBVIOUS
    <3> QED BY ONLY <1>5, <3>1, FillsNat
  <2>2. batch.total = 0 /\ batch.now.filled = 0
    BY <1>1, <1>4
  <2> QED BY <1>1, <2>1, <2>2 DEF Accounted
<1>9. Mounting
  BY <1>1, <1>3, <1>5, <1>6 DEF Mounting, Mounts
<1> QED BY <1>6, <1>7, <1>8, <1>9 DEF TelemetryInv

\* A publication.
Publishes(x) ==
    /\ telem' \in Seq(Snapshots)
    /\ \/ telem' = telem
       \/ telem' # telem /\ FillsIn(0, telem') = FillsIn(0, telem) + x.fill_count
    /\ source # "heartbeat" => Mounts(sink.snapshot.fills_total, telem', batch.total)

LEMMA PublishedDoes ==
    ASSUME TelemetryInv, NEW x \in Snapshots, Published(x),
           source # "heartbeat" => x.fills_total = batch.total
    PROVE  Publishes(x)
<1>1. /\ telem \in Seq(Snapshots) /\ sink.snapshot.fills_total \in Nat /\ batch.total \in Nat
      /\ source # "heartbeat" => Mounts(sink.snapshot.fills_total, telem, batch.total)
  BY TelemetryFields DEF TelemetryInv, TelemetryTypes, Mounting
<1>2. CASE Len(telem) < TelemCap
  <2>1. telem' = Append(telem, x)
    BY <1>2 DEF Published
  <2>2. telem' \in Seq(Snapshots) /\ telem' # telem
    <3>1. Append(telem, x) \in Seq(Snapshots) /\ Len(Append(telem, x)) = Len(telem) + 1 /\ Len(telem) \in Nat
      BY <1>1
    <3> QED BY <2>1, <3>1
  <2>3. FillsIn(0, telem') = FillsIn(0, telem) + x.fill_count
    BY <1>1, <2>1, FillsNext
  <2>4. source # "heartbeat" => Mounts(sink.snapshot.fills_total, telem', batch.total)
    BY <1>1, <2>1, MountsNext
  <2> QED BY <2>2, <2>3, <2>4 DEF Publishes
<1>3. CASE ~(Len(telem) < TelemCap)
  <2>1. telem' = telem
    BY <1>3 DEF Published
  <2> QED BY <1>1, <2>1 DEF Publishes
<1> QED BY <1>2, <1>3

\* A consumption of n snapshots.
Consumes(n) ==
    /\ telem' \in Seq(Snapshots) /\ delivered' \in Nat
    /\ source = "collector" => delivered' + FillsIn(0, telem') = delivered + FillsIn(0, telem)
    /\ n = 0 => telem' = telem
    /\ n # 0 /\ source # "heartbeat" =>
          /\ Mounts(telem[n].fills_total, telem', batch.total)
          /\ sink.snapshot.fills_total <= telem[n].fills_total

LEMMA ConsumedDoes ==
    ASSUME TelemetryInv, NEW n \in 0 .. Len(telem), Consumed(n)
    PROVE  Consumes(n)
<1> DEFINE l == Len(telem)
           a == SubSeq(telem, 1, n)
           b == SubSeq(telem, n + 1, l)
<1>1. /\ telem \in Seq(Snapshots) /\ l \in Nat /\ delivered \in Nat /\ batch.total \in Nat
      /\ sink.snapshot.fills_total \in Nat
      /\ source # "heartbeat" => Mounts(sink.snapshot.fills_total, telem, batch.total)
  BY TelemetryFields DEF TelemetryInv, TelemetryTypes, Mounting
<1>2. telem' = b /\ delivered' = IF source = "collector" THEN FillsIn(delivered, a) ELSE delivered
  BY DEF Consumed
<1>3. a \in Seq(Snapshots) /\ Len(a) = n /\ \A k \in 1 .. n : a[k] = telem[k]
  <2>1. /\ 1 \in 1 .. l + 1 /\ n \in 0 .. l
    BY <1>1
  <2> QED BY <1>1, <2>1, SubSeqProperties
<1>4. b \in Seq(Snapshots) /\ Len(b) = l - n /\ \A k \in 1 .. l - n : b[k] = telem[n + k]
  <2>0. n + 1 \in 1 .. l + 1 /\ n \in Nat /\ n <= l
    BY <1>1
  <2>1. \A k \in 1 .. l - n : k \in 1 .. (l - (n + 1) + 1) /\ (n + 1) + k - 1 = n + k
    BY <1>1, <2>0
  <2> QED BY <1>1, <2>0, <2>1, SubSeqProperties
<1> HIDE DEF a, b
<1>5. FillsIn(delivered, a) + FillsIn(0, b) = delivered + FillsIn(0, telem) /\ FillsIn(delivered, a) \in Nat
  <2>1. /\ telem \in Seq(Snapshots) /\ delivered \in Nat /\ n \in 0 .. Len(telem)
        /\ a \in Seq(Snapshots) /\ Len(a) = n /\ (\A k \in 1 .. n : a[k] = telem[k])
        /\ b \in Seq(Snapshots) /\ Len(b) = Len(telem) - n /\ \A k \in 1 .. Len(telem) - n : b[k] = telem[n + k]
    BY <1>1, <1>3, <1>4
  <2>2. FillsIn(delivered, a) \in Nat
    BY <1>1, <1>3, FillsNat
  <2>3. FillsIn(delivered, a) + FillsIn(0, b) = delivered + FillsIn(0, telem)
    BY ONLY <2>1, FillsSplit
  <2> QED BY <2>2, <2>3
<1>6. n = 0 => b = telem
  <2> SUFFICES ASSUME n = 0 PROVE b = telem
    OBVIOUS
  <2>1. b \in [1 .. l -> Snapshots] /\ telem \in [1 .. l -> Snapshots]
    BY <1>1, <1>4
  <2>2. \A k \in 1 .. l : b[k] = telem[k]
    BY <1>1, <1>4
  <2> HIDE DEF l
  <2>3. b = [k \in 1 .. l |-> b[k]] /\ telem = [k \in 1 .. l |-> telem[k]]
    BY ONLY <2>1
  <2>4. [k \in 1 .. l |-> b[k]] = [k \in 1 .. l |-> telem[k]]
    BY ONLY <2>2
  <2> QED BY ONLY <2>3, <2>4
<1>7. ASSUME n # 0, source # "heartbeat"
      PROVE  /\ Mounts(telem[n].fills_total, b, batch.total)
             /\ sink.snapshot.fills_total <= telem[n].fills_total
  <2>1. n \in 1 .. Len(telem)
    BY <1>1, <1>7
  <2>2. Mounts(sink.snapshot.fills_total, telem, batch.total)
    BY <1>1, <1>7
  <2> QED BY <1>1, <1>4, <2>1, <2>2, MountsRest
<1> QED BY <1>1, <1>2, <1>4, <1>5, <1>6, <1>7 DEF Consumes

\* Steps of the producers.
LEMMA ProducersKeep ==
    ASSUME TelemetryInv,
           \/ record_fill \/ flush_batch \/ publish_metrics_snapshot
           \/ \E slots \in 0 .. batch.total : publish_heartbeat(slots)
           \/ \E ns \in Latencies : record_latency(ns)
    PROVE  TelemetryInv'
<1> DEFINE b == batch.now
<1>1. /\ TelemetryTypes /\ Accounted /\ sink.sequence = sink.sent + sink.errors /\ Mounting
      /\ telem \in Seq(Snapshots) /\ batch \in BatchType /\ delivered \in Nat
  BY DEF TelemetryInv, TelemetryTypes
<1>2. /\ b \in BatchNow /\ b.filled \in Nat /\ b.latencies \in Seq(Latencies) /\ batch.total \in Nat
      /\ sink.snapshot.fills_total \in Nat /\ FillsIn(0, telem) \in Nat
  <2>1. 0 \in Nat
    OBVIOUS
  <2>2. FillsIn(0, telem) \in Nat
    BY ONLY <1>1, <2>1, FillsNat
  <2> QED BY <1>1, <2>2, TelemetryFields
<1>3. CASE record_fill
  <2> DEFINE f == b.filled + 1
             e == batch.total + 1
             c == [b EXCEPT !.filled = f]
  <2>1. /\ batch' = [batch EXCEPT !.now.filled = f, !.total = e] /\ f \in Nat /\ e \in Nat
        /\ UNCHANGED <<source, telem, drops, sink, answer, delivered>>
    BY <1>2, <1>3 DEF record_fill
  <2>2. c \in BatchNow /\ c.filled = f
    BY <1>2, <2>1 DEF BatchNow
  <2>3. batch' = [now |-> c, total |-> e]
    BY <1>1, <2>1 DEF BatchType
  <2>0. f = b.filled + 1 /\ e = batch.total + 1 /\ e \in Nat
    BY <2>1
  <2> HIDE DEF c, e, f
  <2>4. batch' \in BatchType /\ batch'.now = c /\ batch'.total = e
    BY ONLY <2>0, <2>2, <2>3 DEF BatchType
  <2>5. TelemetryTypes'
    BY <1>1, <2>1, <2>4 DEF TelemetryTypes
  <2>6. Accounted'
    <3> SUFFICES ASSUME source = "collector" PROVE e = f + delivered + FillsIn(0, telem)
      BY <2>1, <2>2, <2>4 DEF Accounted
    <3>1. batch.total = b.filled + delivered + FillsIn(0, telem)
      BY <1>1 DEF Accounted
    <3>2. b.filled \in Nat /\ delivered \in Nat /\ FillsIn(0, telem) \in Nat
      BY <1>1, <1>2
    <3> QED BY ONLY <2>0, <3>1, <3>2
  <2>7. Mounting'
    <3>1. batch.total <= e
      BY <1>2, <2>0
    <3> QED BY <1>1, <1>2, <2>1, <2>4, <3>1, MountsTo DEF Mounting
  <2> QED BY <1>1, <2>1, <2>5, <2>6, <2>7 DEF TelemetryInv
<1>4. ASSUME NEW ns \in Latencies, record_latency(ns) PROVE TelemetryInv'
  <2> DEFINE c == [b EXCEPT !.latencies = Append(b.latencies, ns)]
  <2>1. /\ batch' = [batch EXCEPT !.now.latencies = Append(b.latencies, ns)]
        /\ UNCHANGED <<source, telem, drops, sink, answer, delivered>>
    BY <1>4 DEF record_latency
  <2>2. c \in BatchNow /\ c.filled = b.filled
    <3>1. Append(b.latencies, ns) \in Seq(Latencies)
      BY <1>2
    <3> QED BY <1>2, <3>1 DEF BatchNow
  <2>3. batch' = [now |-> c, total |-> batch.total]
    BY <1>1, <2>1 DEF BatchType
  <2> HIDE DEF c
  <2>4. batch' \in BatchType /\ batch'.now = c /\ batch'.total = batch.total
    BY <1>2, <2>2, <2>3 DEF BatchType
  <2> QED BY <1>1, <2>1, <2>2, <2>4 DEF TelemetryInv, TelemetryTypes, Accounted, Mounting
<1>5. CASE flush_batch
  <2> DEFINE x == Snapshot(b.filled, batch.total)
  <2>1. x \in Snapshots /\ x.fills_total = batch.total /\ x.fill_count = b.filled
    BY <1>2 DEF Snapshot, Snapshots
  <2>2. /\ Published(x) /\ source = "collector"
        /\ batch' = IF telem' = telem THEN batch ELSE [batch EXCEPT !.now = EmptyBatch]
        /\ UNCHANGED <<source, sink, answer, delivered>>
    BY <1>5 DEF flush_batch, FlushRefused
  <2> HIDE DEF x
  <2>3. Publishes(x)
    BY <2>1, <2>2, PublishedDoes
  <2>4. Mounts(sink.snapshot.fills_total, telem', batch.total)
    BY <2>2, <2>3 DEF Publishes
  <2>5. CASE telem' = telem
    BY <1>1, <2>2, <2>5 DEF TelemetryInv, TelemetryTypes, Accounted, Mounting
  <2>6. CASE telem' # telem
    <3>1. telem' \in Seq(Snapshots) /\ FillsIn(0, telem') = FillsIn(0, telem) + b.filled
      BY <2>1, <2>3, <2>6 DEF Publishes
    <3>2. EmptyBatch \in BatchNow /\ EmptyBatch.filled = 0
      BY DEF EmptyBatch, BatchNow
    <3>3. batch' \in BatchType /\ batch'.now = EmptyBatch /\ batch'.total = batch.total
      BY <1>1, <2>2, <2>6, <3>2 DEF BatchType
    <3>4. TelemetryTypes'
      BY <1>1, <2>2, <3>1, <3>3 DEF TelemetryTypes
    <3>5. Accounted'
      BY <1>1, <1>2, <2>2, <3>1, <3>2, <3>3 DEF Accounted
    <3>6. Mounting'
      BY <1>1, <2>2, <2>4, <3>3 DEF Mounting
    <3> QED BY <1>1, <2>2, <3>4, <3>5, <3>6 DEF TelemetryInv
  <2> QED BY <2>5, <2>6
<1>6. CASE publish_metrics_snapshot
  <2> DEFINE x == Snapshot(batch.total, batch.total)
  <2>1. x \in Snapshots /\ x.fills_total = batch.total
    BY <1>2 DEF Snapshot, Snapshots
  <2>2. Published(x) /\ source = "engine" /\ UNCHANGED <<source, batch, sink, answer, delivered>>
    BY <1>6 DEF publish_metrics_snapshot
  <2> HIDE DEF x
  <2>3. Publishes(x)
    BY <2>1, <2>2, PublishedDoes
  <2> QED BY <1>1, <2>2, <2>3 DEF Publishes, TelemetryInv, TelemetryTypes, Accounted, Mounting
<1>7. ASSUME NEW slots \in 0 .. batch.total, publish_heartbeat(slots) PROVE TelemetryInv'
  <2> DEFINE x == Snapshot(slots, 0)
  <2>1. x \in Snapshots
    BY <1>2 DEF Snapshot, Snapshots
  <2>2. Published(x) /\ source = "heartbeat" /\ UNCHANGED <<source, batch, sink, answer, delivered>>
    BY <1>7 DEF publish_heartbeat
  <2> HIDE DEF x
  <2>3. Publishes(x)
    BY <2>1, <2>2, PublishedDoes
  <2> QED BY <1>1, <2>2, <2>3 DEF Publishes, TelemetryInv, TelemetryTypes, Accounted, Mounting
<1> QED BY <1>3, <1>4, <1>5, <1>6, <1>7

\* Steps of the sink that leave the ring alone.
LEMMA SinkMovesOn ==
    ASSUME TelemetryInv, sink' \in SinkType, sink'.snapshot = sink.snapshot, sink'.sequence = sink.sequence,
           sink'.sent = sink.sent, sink'.errors = sink.errors,
           UNCHANGED <<source, telem, drops, batch, delivered>>, answer' \in AnswerType, answer'.total = answer.total
    PROVE  TelemetryInv'
BY DEF TelemetryInv, TelemetryTypes, Accounted, Mounting

LEMMA ControlKeeps ==
    ASSUME TelemetryInv, stop \/ join \/ bridge_start \/ run_loop \/ bridge_stop
    PROVE  TelemetryInv'
<1>1. sink \in SinkType /\ answer \in AnswerType
  BY DEF TelemetryInv, TelemetryTypes
<1>2. /\ sink' \in SinkType /\ sink'.snapshot = sink.snapshot /\ sink'.sequence = sink.sequence
      /\ sink'.sent = sink.sent /\ sink'.errors = sink.errors
      /\ UNCHANGED <<source, telem, drops, batch, answer, delivered>>
  <2>1. CASE stop
    BY <1>1, <2>1 DEF stop, SinkType
  <2>2. CASE join
    BY <1>1, <2>2 DEF join, SinkType
  <2>3. CASE bridge_start
    <3> DEFINE y == [sink EXCEPT !.pc = "pump"]
               z == [y EXCEPT !.running = TRUE]
    <3>1. y \in SinkType /\ y.snapshot = sink.snapshot /\ y.sequence = sink.sequence
          /\ y.sent = sink.sent /\ y.errors = sink.errors
      BY <1>1 DEF SinkType
    <3>2. sink' = [z EXCEPT !.pumped = 0] /\ UNCHANGED <<source, telem, drops, batch, answer, delivered>>
      BY <1>1, <2>3 DEF bridge_start, SinkType
    <3> HIDE DEF y
    <3>3. z \in SinkType /\ z.snapshot = sink.snapshot /\ z.sequence = sink.sequence
          /\ z.sent = sink.sent /\ z.errors = sink.errors
      BY <3>1 DEF SinkType
    <3> HIDE DEF z
    <3> QED BY <3>2, <3>3 DEF SinkType
  <2>4. CASE run_loop
    <3> DEFINE pc == IF ~sink.running /\ sink.pumped = 0 THEN "done" ELSE "pump"
               y == [sink EXCEPT !.pumped = 0]
    <3>1. y \in SinkType /\ y.snapshot = sink.snapshot /\ y.sequence = sink.sequence
          /\ y.sent = sink.sent /\ y.errors = sink.errors
      BY <1>1 DEF SinkType
    <3>2. sink' = [y EXCEPT !.pc = pc] /\ UNCHANGED <<source, telem, drops, batch, answer, delivered>>
      BY <1>1, <2>4 DEF run_loop, SinkType
    <3>3. pc \in {"done", "pump"}
      OBVIOUS
    <3> HIDE DEF y, pc
    <3> QED BY <3>1, <3>2, <3>3 DEF SinkType
  <2>5. CASE bridge_stop
    BY <1>1, <2>5 DEF bridge_stop, SinkType
  <2> QED BY <2>1, <2>2, <2>3, <2>4, <2>5
<1> QED BY <1>1, <1>2, SinkMovesOn

LEMMA StartKeeps == TelemetryInv /\ start => TelemetryInv'
<1> SUFFICES ASSUME TelemetryInv, start PROVE TelemetryInv'
  OBVIOUS
<1> DEFINE o == Snapshot(0, 0)
           y == [sink EXCEPT !.pc = "poll"]
           z == [y EXCEPT !.running = TRUE]
<1>0. o \in Snapshots /\ o.fills_total = 0
  BY DEF Snapshot, Snapshots
<1>1. sink \in SinkType /\ TelemetryTypes /\ Accounted /\ sink.sequence = sink.sent + sink.errors /\ Mounting
  BY DEF TelemetryInv, TelemetryTypes
<1>2. /\ sink' = [z EXCEPT !.snapshot = o] /\ answer' = [status |-> 0, total |-> 0]
      /\ UNCHANGED <<source, telem, drops, batch, delivered>>
  BY <1>1 DEF start, SinkType
<1>3. y \in SinkType /\ y.sequence = sink.sequence /\ y.sent = sink.sent /\ y.errors = sink.errors
  BY <1>1 DEF SinkType
<1> HIDE DEF y
<1>4. z \in SinkType /\ z.sequence = sink.sequence /\ z.sent = sink.sent /\ z.errors = sink.errors
  BY <1>3 DEF SinkType
<1> HIDE DEF z, o
<1>5. /\ sink' \in SinkType /\ sink'.sequence = sink.sequence /\ sink'.sent = sink.sent
      /\ sink'.errors = sink.errors /\ sink'.snapshot = o
  BY <1>0, <1>2, <1>4 DEF SinkType
<1>6. TelemetryTypes'
  BY <1>1, <1>2, <1>5 DEF TelemetryTypes, AnswerType
<1>7. Mounting'
  <2> SUFFICES ASSUME source # "heartbeat" PROVE answer'.total <= 0 /\ Mounts(0, telem, batch.total)
    BY <1>0, <1>2, <1>5 DEF Mounting
  <2>1. /\ Mounts(sink.snapshot.fills_total, telem, batch.total) /\ batch.total \in Nat
        /\ \A i \in 1 .. Len(telem) : telem[i].fills_total \in Nat
    BY <1>1, TelemetryFields DEF Mounting
  <2> QED BY <1>2, <2>1 DEF Mounts
<1> QED BY <1>1, <1>2, <1>5, <1>6, <1>7 DEF TelemetryInv, Accounted

\* Steps of the sink that take n snapshots and keep the last of them.
LEMMA SinkTakes ==
    ASSUME TelemetryInv, NEW n \in 0 .. Len(telem), Consumes(n), sink' \in SinkType,
           sink'.sequence = sink'.sent + sink'.errors,
           sink'.snapshot = IF n = 0 THEN sink.snapshot ELSE telem[n],
           UNCHANGED <<source, drops, batch>>, answer' \in AnswerType,
           answer'.total = answer.total \/ answer'.total = sink'.snapshot.fills_total
    PROVE  TelemetryInv'
<1>1. /\ TelemetryTypes /\ Accounted /\ Mounting /\ answer.total \in Nat /\ sink.snapshot.fills_total \in Nat
      /\ \A i \in 1 .. Len(telem) : telem[i].fills_total \in Nat
  BY TelemetryFields DEF TelemetryInv
<1>2. TelemetryTypes'
  BY <1>1 DEF TelemetryTypes, Consumes
<1>3. Accounted'
  <2> SUFFICES ASSUME source = "collector"
               PROVE  batch.total = batch.now.filled + delivered' + FillsIn(0, telem')
    BY DEF Accounted
  <2>1. delivered' + FillsIn(0, telem') = delivered + FillsIn(0, telem)
    BY DEF Consumes
  <2>2. batch.total = batch.now.filled + delivered + FillsIn(0, telem)
    BY <1>1 DEF Accounted
  <2>3. /\ batch.now.filled \in Nat /\ delivered \in Nat /\ delivered' \in Nat
        /\ FillsIn(0, telem) \in Nat /\ FillsIn(0, telem') \in Nat
    <3>1. 0 \in Nat /\ telem \in Seq(Snapshots) /\ telem' \in Seq(Snapshots)
      BY <1>1 DEF TelemetryTypes, Consumes
    <3>2. FillsIn(0, telem) \in Nat /\ FillsIn(0, telem') \in Nat
      BY ONLY <3>1, FillsNat
    <3> QED BY <1>1, <3>2, TelemetryFields DEF TelemetryTypes, Consumes
  <2> DEFINE kept == batch.now.filled
             told == delivered
             telling == delivered'
             waits == FillsIn(0, telem)
             waiting == FillsIn(0, telem')
             whole == batch.total
  <2>4. telling + waiting = told + waits
    BY ONLY <2>1
  <2>5. whole = kept + told + waits
    BY ONLY <2>2
  <2>6. kept \in Nat /\ told \in Nat /\ telling \in Nat /\ waits \in Nat /\ waiting \in Nat
    BY ONLY <2>3
  <2>7. whole = kept + telling + waiting
    <3> HIDE DEF kept, told, telling, waits, waiting, whole
    <3> QED BY ONLY <2>4, <2>5, <2>6
  <2> QED BY ONLY <2>7
<1>4. Mounting'
  <2> SUFFICES ASSUME source # "heartbeat"
               PROVE  /\ answer'.total <= sink'.snapshot.fills_total
                      /\ Mounts(sink'.snapshot.fills_total, telem', batch.total)
    BY DEF Mounting
  <2>1. /\ answer.total <= sink.snapshot.fills_total
        /\ Mounts(sink.snapshot.fills_total, telem, batch.total)
    BY <1>1 DEF Mounting
  <2>2. CASE n = 0
    BY <1>1, <2>1, <2>2 DEF Consumes
  <2>3. CASE n # 0
    <3>1. telem[n].fills_total \in Nat
      BY <1>1, <2>3
    <3>2. sink.snapshot.fills_total <= telem[n].fills_total /\ Mounts(telem[n].fills_total, telem', batch.total)
      BY <2>3 DEF Consumes
    <3>3. answer.total <= telem[n].fills_total
      BY <1>1, <2>1, <3>1, <3>2
    <3> QED BY <1>1, <2>3, <3>1, <3>2, <3>3
  <2> QED BY <2>2, <2>3
<1> QED BY <1>2, <1>3, <1>4 DEF TelemetryInv

LEMMA DrainIs ==
    ASSUME TelemetryInv
    PROVE  /\ Drainable \in 0 .. Len(telem)
           /\ Drained(sink) \in SinkType
           /\ Drained(sink).sequence = Drained(sink).sent + Drained(sink).errors
           /\ Drained(sink).snapshot = IF Drainable = 0 THEN sink.snapshot ELSE telem[Drainable]
<1>1. /\ sink \in SinkType /\ sink.sequence = sink.sent + sink.errors /\ Len(telem) \in Nat
      /\ \A i \in 1 .. Len(telem) : telem[i] \in Snapshots
  BY TelemetryFields DEF TelemetryInv, TelemetryTypes
<1>2. Drainable \in 0 .. Len(telem)
  BY <1>1, TelemetryAssumption DEF Drainable
<1>3. CASE Drainable = 0
  BY <1>1, <1>2, <1>3 DEF Drained
<1>4. CASE Drainable # 0
  <2> DEFINE v == telem[Drainable]
  <2>1. v \in Snapshots /\ Drained(sink) = [sink EXCEPT !.snapshot = v]
    BY <1>1, <1>2, <1>4 DEF Drained
  <2> HIDE DEF v
  <2>2. /\ Drained(sink) \in SinkType /\ Drained(sink).snapshot = v
        /\ Drained(sink).sequence = sink.sequence /\ Drained(sink).sent = sink.sent
        /\ Drained(sink).errors = sink.errors
    BY <1>1, <2>1 DEF SinkType
  <2> QED BY <1>1, <1>2, <1>4, <2>2 DEF v
<1> QED BY <1>3, <1>4

LEMMA ServeKeeps == TelemetryInv /\ serve => TelemetryInv'
<1> SUFFICES ASSUME TelemetryInv, serve PROVE TelemetryInv'
  OBVIOUS
<1> DEFINE n == Drainable
           d == Drained(sink)
           pc == IF sink.running THEN "poll" ELSE "done"
<1>1. /\ Consumed(n) /\ sink' = [d EXCEPT !.pc = pc] /\ UNCHANGED <<source, drops, batch, answer>>
  BY DEF serve
<1>2. /\ n \in 0 .. Len(telem) /\ d \in SinkType /\ d.sequence = d.sent + d.errors
      /\ d.snapshot = IF n = 0 THEN sink.snapshot ELSE telem[n]
  BY DrainIs
<1>3. pc \in {"poll", "done"} /\ answer \in AnswerType
  BY DEF TelemetryInv, TelemetryTypes
<1> HIDE DEF n, d, pc
<1>4. Consumes(n)
  BY <1>1, <1>2, ConsumedDoes
<1>5. /\ sink' \in SinkType /\ sink'.sequence = d.sequence /\ sink'.sent = d.sent /\ sink'.errors = d.errors
      /\ sink'.snapshot = d.snapshot
  BY <1>1, <1>2, <1>3 DEF SinkType
<1> QED BY <1>1, <1>2, <1>3, <1>4, <1>5, SinkTakes

LEMMA ServiceKeeps ==
    ASSUME TelemetryInv, NEW request, service_client(request)
    PROVE  TelemetryInv'
<1>1. /\ sink \in SinkType /\ answer \in AnswerType /\ sink.sequence = sink.sent + sink.errors
      /\ UNCHANGED <<source, drops, batch>>
  BY DEF TelemetryInv, TelemetryTypes, service_client
<1>2. CASE Scrapes(request)
  <2> DEFINE n == Drainable
             d == Drained(sink)
  <2>1. /\ Consumed(n) /\ sink' = d /\ answer' = [status |-> 200, total |-> d.snapshot.fills_total]
    BY <1>2 DEF service_client
  <2>2. /\ n \in 0 .. Len(telem) /\ d \in SinkType /\ d.sequence = d.sent + d.errors
        /\ d.snapshot = IF n = 0 THEN sink.snapshot ELSE telem[n]
    BY DrainIs
  <2> HIDE DEF n, d
  <2>3. Consumes(n)
    BY <2>1, <2>2, ConsumedDoes
  <2>4. answer' \in AnswerType /\ answer'.total = sink'.snapshot.fills_total
    <3>1. d.snapshot.fills_total \in Nat
      <4>1. d.snapshot \in Snapshots
        BY <2>2 DEF SinkType
      <4> QED BY <4>1 DEF Snapshots
    <3> QED BY <2>1, <3>1 DEF AnswerType
  <2> QED BY <1>1, <2>1, <2>2, <2>3, <2>4, SinkTakes
<1>3. CASE ~Scrapes(request)
  <2> DEFINE s == Status(request)
  <2>1. UNCHANGED <<telem, delivered, sink>> /\ answer' = [answer EXCEPT !.status = s]
    BY <1>3 DEF service_client
  <2>2. s \in Nat
    BY DEF Status
  <2> HIDE DEF s
  <2>3. answer' \in AnswerType /\ answer'.total = answer.total
    BY <1>1, <2>1, <2>2 DEF AnswerType
  <2> QED BY <1>1, <2>1, <2>3, SinkMovesOn
<1> QED BY <1>2, <1>3

LEMMA PumpKeeps ==
    ASSUME TelemetryInv, NEW ok \in BOOLEAN, pump_once(ok)
    PROVE  TelemetryInv'
<1> DEFINE v == telem[1]
           more(k) == IF ok THEN k + 1 ELSE k
           a == sink.sequence + 1
           b == more(sink.sent)
           c == more(sink.pumped)
           e == IF ok THEN sink.errors ELSE sink.errors + 1
           y1 == [sink EXCEPT !.sequence = a]
           y2 == [y1 EXCEPT !.snapshot = v]
           y3 == [y2 EXCEPT !.sent = b]
           y4 == [y3 EXCEPT !.pumped = c]
<1>1. /\ sink \in SinkType /\ answer \in AnswerType /\ sink.sequence = sink.sent + sink.errors
      /\ sink.sequence \in Nat /\ sink.sent \in Nat /\ sink.errors \in Nat /\ sink.pumped \in Nat
      /\ telem \in Seq(Snapshots)
  BY TelemetryFields DEF TelemetryInv, TelemetryTypes
<1>2. 1 \in 0 .. Len(telem) /\ v \in Snapshots
  <2>1. telem # << >>
    BY DEF pump_once
  <2>2. Len(telem) \in Nat /\ Len(telem) # 0
    BY <1>1, <2>1, EmptySeq
  <2>3. 1 \in 1 .. Len(telem)
    BY <2>2
  <2> QED BY <1>1, <2>3
<1>3. Consumes(1) /\ UNCHANGED <<source, drops, batch, answer>>
  BY <1>2, ConsumedDoes DEF pump_once
<1>4. /\ a \in Nat /\ b \in Nat /\ c \in Nat /\ e \in Nat /\ a = b + e
  BY <1>1
<1>5. sink' = [sink EXCEPT !.sequence = a, !.snapshot = v, !.sent = b, !.pumped = c, !.errors = e]
  BY DEF pump_once
<1> HIDE DEF a, b, c, e, v
<1>6. sink' = [y4 EXCEPT !.errors = e]
  BY <1>1, <1>5 DEF SinkType
<1>7. y1 \in SinkType /\ y1.sequence = a
  BY <1>1, <1>4 DEF SinkType
<1> HIDE DEF y1
<1>8. y2 \in SinkType /\ y2.sequence = a /\ y2.snapshot = v
  BY <1>2, <1>7 DEF SinkType
<1> HIDE DEF y2
<1>9. y3 \in SinkType /\ y3.sequence = a /\ y3.snapshot = v /\ y3.sent = b
  BY <1>4, <1>8 DEF SinkType
<1> HIDE DEF y3
<1>10. y4 \in SinkType /\ y4.sequence = a /\ y4.snapshot = v /\ y4.sent = b
  BY <1>4, <1>9 DEF SinkType
<1> HIDE DEF y4
<1>11. sink' \in SinkType /\ sink'.sequence = a /\ sink'.snapshot = v /\ sink'.sent = b /\ sink'.errors = e
  BY <1>4, <1>6, <1>10 DEF SinkType
<1>12. sink'.sequence = sink'.sent + sink'.errors
  BY <1>4, <1>11
<1>13. sink'.snapshot = IF 1 = 0 THEN sink.snapshot ELSE telem[1]
  BY <1>11 DEF v
<1> QED BY <1>1, <1>2, <1>3, <1>11, <1>12, <1>13, SinkTakes

LEMMA TelemetryKeeps == TelemetryInv /\ [TelemetryNext]_telemetryVars => TelemetryInv'
<1> SUFFICES ASSUME TelemetryInv, [TelemetryNext]_telemetryVars PROVE TelemetryInv'
  OBVIOUS
<1>1. CASE UNCHANGED telemetryVars
  BY <1>1 DEF telemetryVars, TelemetryInv, TelemetryTypes, Accounted, Mounting
<1>2. CASE \/ record_fill \/ flush_batch \/ publish_metrics_snapshot
           \/ \E slots \in 0 .. batch.total : publish_heartbeat(slots)
           \/ \E ns \in Latencies : record_latency(ns)
  BY <1>2, ProducersKeep
<1>3. CASE stop \/ join \/ bridge_start \/ run_loop \/ bridge_stop
  BY <1>3, ControlKeeps
<1>4. CASE start
  BY <1>4, StartKeeps
<1>5. CASE serve
  BY <1>5, ServeKeeps
<1>6. ASSUME NEW request \in ScrapeRequests, service_client(request) PROVE TelemetryInv'
  BY <1>6, ServiceKeeps
<1>7. ASSUME NEW ok \in BOOLEAN, pump_once(ok) PROVE TelemetryInv'
  BY <1>7, PumpKeeps
<1> QED BY <1>1, <1>2, <1>3, <1>4, <1>5, <1>6, <1>7 DEF TelemetryNext

LEMMA MountingSuffices == TelemetryInv => CountersMonotone
<1> SUFFICES ASSUME TelemetryInv, source # "heartbeat" PROVE CountersMonotone
  BY DEF CountersMonotone
<1> DEFINE l == Len(telem)
           a == answer.total
           c == sink.snapshot.fills_total
           z == batch.total
           head == <<a, c>>
           mid == [i \in DOMAIN telem |-> telem[i].fills_total]
           last == <<z>>
           shown == head \o mid \o last
<1>1. /\ a \in Nat /\ c \in Nat /\ z \in Nat /\ l \in Nat /\ telem \in Seq(Snapshots) /\ DOMAIN telem = 1 .. l
      /\ (\A i \in 1 .. l : telem[i].fills_total \in Nat) /\ a <= c /\ Mounts(c, telem, z)
  BY TelemetryFields DEF TelemetryInv, TelemetryTypes, Mounting
<1>2. /\ mid \in Seq(Nat) /\ Len(mid) = l /\ \A i \in 1 .. l : mid[i] = telem[i].fills_total
  <2>1. mid \in [1 .. l -> Nat] /\ \A i \in 1 .. l : mid[i] = telem[i].fills_total
    BY <1>1
  <2> HIDE DEF mid, l
  <2> QED BY <1>1, <2>1 DEF Seq
<1>3. head \in Seq(Nat) /\ Len(head) = 2 /\ head[1] = a /\ head[2] = c
  <2> HIDE DEF a, c
  <2> QED BY <1>1
<1>4. last \in Seq(Nat) /\ Len(last) = 1 /\ last[1] = z
  <2> HIDE DEF z
  <2> QED BY <1>1
<1>5. /\ c <= z /\ \A i \in 1 .. l : c <= mid[i] /\ mid[i] <= z
      /\ \A i, j \in 1 .. l : i < j => mid[i] <= mid[j]
  BY <1>1, <1>2 DEF Mounts
<1> HIDE DEF head, mid, last, l, a, c, z
<1> DEFINE front == head \o mid
<1>6. /\ front \in Seq(Nat) /\ Len(front) = 2 + l
      /\ \A i \in 1 .. 2 + l : front[i] = IF i <= 2 THEN head[i] ELSE mid[i - 2]
  <2>1. head \in Seq(Nat) /\ mid \in Seq(Nat) /\ Len(head) = 2 /\ Len(mid) = l
    BY <1>2, <1>3
  <2>2. /\ head \o mid \in Seq(Nat) /\ Len(head \o mid) = Len(head) + Len(mid)
        /\ \A i \in 1 .. Len(head) + Len(mid) :
              (head \o mid)[i] = IF i <= Len(head) THEN head[i] ELSE mid[i - Len(head)]
    BY ONLY <2>1, ConcatProperties
  <2>3. front = head \o mid
    OBVIOUS
  <2> HIDE DEF front
  <2> QED BY ONLY <2>1, <2>2, <2>3
<1> HIDE DEF front
<1>7. /\ Len(front \o last) = 3 + l
      /\ \A i \in 1 .. 3 + l : (front \o last)[i] = IF i <= 2 + l THEN front[i] ELSE last[i - (2 + l)]
  <2>1. /\ Len(front \o last) = Len(front) + Len(last)
        /\ \A i \in 1 .. Len(front) + Len(last) :
              (front \o last)[i] = IF i <= Len(front) THEN front[i] ELSE last[i - Len(front)]
    BY ONLY <1>4, <1>6, ConcatProperties
  <2>2. Len(front) + Len(last) = 3 + l
    BY <1>1, <1>4, <1>6
  <2> QED BY <1>6, <2>1, <2>2
<1>8. shown = front \o last
  BY DEF front
<1> HIDE DEF shown
<1>9. /\ Len(shown) = 3 + l /\ shown[1] = a /\ shown[2] = c /\ shown[3 + l] = z
      /\ \A i \in 1 .. l : shown[2 + i] = mid[i]
  <2>1. shown[1] = a /\ shown[2] = c
    <3>1. 1 \in 1 .. 3 + l /\ 2 \in 1 .. 3 + l /\ 1 \in 1 .. 2 + l /\ 2 \in 1 .. 2 + l /\ 1 <= 2 + l /\ 2 <= 2 + l
      BY <1>1
    <3> QED BY <1>3, <1>6, <1>7, <1>8, <3>1
  <2>2. shown[3 + l] = z
    <3>1. 3 + l \in 1 .. 3 + l /\ ~(3 + l <= 2 + l) /\ (3 + l) - (2 + l) = 1
      BY <1>1
    <3>2. shown[3 + l] = last[(3 + l) - (2 + l)]
      BY <1>7, <1>8, <3>1
    <3> QED BY <1>4, <3>1, <3>2
  <2>3. ASSUME NEW i \in 1 .. l PROVE shown[2 + i] = mid[i]
    <3>1. /\ 2 + i \in 1 .. 3 + l /\ 2 + i \in 1 .. 2 + l /\ 2 + i <= 2 + l /\ ~(2 + i <= 2) /\ (2 + i) - 2 = i
      BY <1>1
    <3>2. shown[2 + i] = front[2 + i] /\ front[2 + i] = mid[(2 + i) - 2]
      BY <1>6, <1>7, <1>8, <3>1
    <3> QED BY <3>1, <3>2
  <2> QED BY <1>7, <1>8, <2>1, <2>2, <2>3
<1>10. ASSUME NEW i \in 1 .. Len(shown) - 1 PROVE shown[i] <= shown[i + 1]
  <2>0. i \in 1 .. 2 + l
    BY <1>1, <1>9
  <2>1. CASE i = 1
    BY <1>1, <1>9, <2>1
  <2>2. CASE i = 2
    <3>1. CASE l = 0
      BY <1>5, <1>9, <2>2, <3>1
    <3>2. CASE l # 0
      <4>1. 1 \in 1 .. l
        BY <1>1, <3>2
      <4>2. shown[2 + 1] = mid[1] /\ c <= mid[1]
        BY <1>5, <1>9, <4>1
      <4> QED BY <1>9, <2>2, <4>2
    <3> QED BY <3>1, <3>2
  <2>3. CASE i > 2
    <3> DEFINE k == i - 2
    <3>1. k \in 1 .. l /\ i = 2 + k /\ i + 1 = 2 + (k + 1)
      BY <1>1, <2>0, <2>3
    <3> HIDE DEF k
    <3>2. shown[i] = mid[k]
      BY <1>9, <3>1
    <3>3. CASE k = l
      <4>1. i + 1 = 3 + l
        BY <1>1, <3>1, <3>3
      <4> QED BY <1>5, <1>9, <3>1, <3>2, <4>1
    <3>4. CASE k # l
      <4>1. k + 1 \in 1 .. l /\ k < k + 1
        BY <1>1, <3>1, <3>4
      <4>2. shown[i + 1] = mid[k + 1] /\ mid[k] <= mid[k + 1]
        BY <1>5, <1>9, <3>1, <4>1
      <4> QED BY <3>2, <4>2
    <3> QED BY <3>3, <3>4
  <2> QED BY <2>0, <2>1, <2>2, <2>3
<1>11. \A i \in 1 .. Len(shown) - 1 : shown[i] <= shown[i + 1]
  BY <1>10
<1> QED BY <1>11 DEF CountersMonotone, shown, head, mid, last, a, c, z

\* TelemetrySound, for every ring, drain bound and batch of luv_telemetry.hpp, however
\* publishers, sinks and scrapes interleave: no fill is lost or counted twice between
\* the collector and the sink, no scraped total goes back while the server runs, and
\* the percentiles are the nearest-rank ones.
THEOREM TelemetryHolds == Spec => []TelemetrySound
<1>1. Init => TelemetryInv
  BY TelemetryStarts DEF Init
<1>2. TelemetryInv /\ [Next]_vars => TelemetryInv'
  BY TelemetrySteps, TelemetryKeeps
<1>3. TelemetryInv => TelemetrySound
  <2> SUFFICES ASSUME TelemetryInv PROVE TelemetrySound
    OBVIOUS
  <2>1. batch.now.latencies \in Seq(Nat)
    <3>1. batch.now.latencies \in Seq(Latencies) /\ Latencies \subseteq Nat
      BY TelemetryFields, TelemetryAssumption DEF TelemetryInv
    <3> DEFINE s == batch.now.latencies
    <3>2. s \in Seq(Latencies)
      BY <3>1
    <3> HIDE DEF s
    <3>3. Len(s) \in Nat /\ s \in [1 .. Len(s) -> Latencies]
      BY ONLY <3>2
    <3>4. s \in [1 .. Len(s) -> Nat]
      BY ONLY <3>1, <3>3
    <3>5. s \in Seq(Nat)
      BY ONLY <3>3, <3>4 DEF Seq
    <3> QED BY <3>5 DEF s
  <2>2. PercentilesNearestRank
    BY <2>1, PercentileIsNearest
  <2>3. CountersMonotone
    BY MountingSuffices
  <2>4. FillsAccounted
    BY DEF TelemetryInv, Accounted, FillsAccounted
  <2> QED BY <2>2, <2>3, <2>4 DEF TelemetrySound
<1> QED BY <1>1, <1>2, <1>3, PTL DEF Spec

-----------------------------------------------------------------------------
(***************************************************************************)
(* Sums of sequences of numbers.                                           *)
(***************************************************************************)
Total(s) == FoldLeft(+, 0, s)

Mounted(F, s) ==
    /\ F \in [0 .. Len(s) -> Nat] /\ F[0] = 0 /\ F[Len(s)] = Total(s)
    /\ \A n \in 1 .. Len(s) : F[n] = F[n - 1] + s[n]

\* A sum is made term by term.
LEMMA TotalMounts ==
    ASSUME NEW s \in Seq(Nat)
    PROVE  \E F : Mounted(F, s)
<1> DEFINE N == Len(s)
           V(w, i) == w + s[i]
           step == [i \in 1 .. N |-> [w \in Nat |-> V(w, i)]]
           body(g) == [t \in SUBSET (1 .. N) |-> IF t = {} THEN 0 ELSE V(g[t \ {Max(t)}], Max(t))]
           fold == CHOOSE g : g = body(g)
<1>0. N \in Nat /\ DOMAIN s = 1 .. N /\ \A i \in 1 .. N : s[i] \in Nat
  OBVIOUS
<1>1. \A t \in SUBSET (1 .. N) : t # {} => Max(t) \in t
  <2> TAKE t \in SUBSET (1 .. N)
  <2>1. t \subseteq 0 .. N
    BY <1>0
  <2> QED BY <1>0, <2>1, MaxIn
<1>3. \A w \in Nat, i \in 1 .. N : V(w, i) \in Nat /\ V(w, i) = w + s[i]
  BY <1>0
<1>4. Total(s) = fold[1 .. N]
  BY <1>0 DEF Total, FoldLeft, MapThenFoldSet
<1> HIDE DEF V
<1>5. step \in [1 .. N -> [Nat -> Nat]] /\ 0 \in Nat
  BY <1>3
<1>6. PICK f : Folds(f, step, 0, Nat, N)
  <2> HIDE DEF step
  <2> QED BY ONLY <1>0, <1>5, FoldsExist
<1>7. f = body(f)
  <2>1. ASSUME NEW t \in SUBSET (1 .. N) PROVE f[t] = body(f)[t]
    <3>1. CASE t = {}
      BY <1>6, <3>1 DEF Folds
    <3>2. CASE t # {}
      <4>1. Max(t) \in 1 .. N /\ t \ {Max(t)} \in SUBSET (1 .. N)
        BY <1>1, <3>2
      <4>2. f[t \ {Max(t)}] \in Nat /\ f[t] = step[Max(t)][f[t \ {Max(t)}]]
        BY <1>6, <3>2, <4>1 DEF Folds
      <4>3. step[Max(t)][f[t \ {Max(t)}]] = V(f[t \ {Max(t)}], Max(t))
        BY <4>1, <4>2
      <4> QED BY <3>2, <4>2, <4>3
    <3> QED BY <3>1, <3>2
  <2> QED BY <1>6, <2>1 DEF Folds
<1>8. fold = body(fold)
  <2> HIDE DEF body
  <2> QED BY <1>7
<1> HIDE DEF fold
<1>9. fold[{}] = 0 /\ fold[1 .. 0] = 0
  <2>1. 1 .. 0 = {}
    OBVIOUS
  <2> QED BY <1>8, <2>1
<1>10. ASSUME NEW n \in 1 .. N PROVE fold[1 .. n] = V(fold[1 .. (n - 1)], n)
  <2>1. \A i \in 1 .. n : i \in 1 .. N
    BY <1>0
  <2>2. n \in 1 .. n /\ n \in Nat \ {0}
    BY <1>0
  <2>3. fold[1 .. n] = V(fold[(1 .. n) \ {Max(1 .. n)}], Max(1 .. n))
    BY <1>8, <2>1, <2>2
  <2> QED BY <2>2, <2>3, MaxPrefix
<1> DEFINE F == [n \in 0 .. N |-> fold[1 .. n]]
           S == {n \in Nat : n <= N => fold[1 .. n] \in Nat}
<1>11. 0 \in S
  BY <1>9
<1>12. \A n \in Nat : n \in S => n + 1 \in S
  <2> HIDE DEF N
  <2> SUFFICES ASSUME NEW n \in Nat, n \in S, n + 1 <= N PROVE fold[1 .. (n + 1)] \in Nat
    OBVIOUS
  <2>1. n + 1 \in 1 .. N /\ (n + 1) - 1 = n /\ n <= N
    BY <1>0
  <2>2. fold[1 .. (n + 1)] = V(fold[1 .. n], n + 1)
    BY <1>10, <2>1
  <2> QED BY <1>3, <2>1, <2>2
<1>13. \A n \in Nat : n \in S
  <2> HIDE DEF S
  <2> QED BY <1>11, <1>12, NatSetInduction
<1>14. F \in [0 .. N -> Nat]
  BY <1>0, <1>13
<1>15. F[0] = 0 /\ F[N] = fold[1 .. N]
  BY <1>0, <1>9
<1>16. ASSUME NEW n \in 1 .. N PROVE F[n] = V(F[n - 1], n) /\ F[n - 1] \in Nat
  <2>1. n \in 0 .. N /\ n - 1 \in 0 .. N
    BY <1>0
  <2>2. F[n] = fold[1 .. n] /\ F[n - 1] = fold[1 .. (n - 1)]
    BY <2>1
  <2> QED BY <1>10, <1>14, <2>1, <2>2
<1> HIDE DEF F
<1>17. Mounted(F, s)
  BY <1>3, <1>4, <1>14, <1>15, <1>16 DEF Mounted
<1> QED BY <1>17

\* Larger terms, larger sum; one more term counts.
LEMMA TotalCompares ==
    ASSUME NEW s \in Seq(Nat), NEW u \in Seq(Nat), Len(s) <= Len(u),
           \A i \in 1 .. Len(s) : s[i] <= u[i]
    PROVE  Total(s) <= Total(u)
<1>1. PICK F : Mounted(F, s)
  BY TotalMounts
<1>2. PICK G : Mounted(G, u)
  BY TotalMounts
<1> DEFINE a == Len(s)
           b == Len(u)
<1>3. a \in Nat /\ b \in Nat /\ a <= b /\ (\A i \in 1 .. a : s[i] \in Nat) /\ \A i \in 1 .. b : u[i] \in Nat
  OBVIOUS
<1>4. /\ F \in [0 .. a -> Nat] /\ F[0] = 0 /\ F[a] = Total(s) /\ \A n \in 1 .. a : F[n] = F[n - 1] + s[n]
      /\ G \in [0 .. b -> Nat] /\ G[0] = 0 /\ G[b] = Total(u) /\ \A n \in 1 .. b : G[n] = G[n - 1] + u[n]
  BY <1>1, <1>2 DEF Mounted
<1>5. \A i \in 1 .. a : s[i] <= u[i]
  OBVIOUS
<1> HIDE DEF a, b
<1> DEFINE least(n) == IF n <= a THEN F[n] ELSE F[a]
           S == {n \in Nat : n <= b => least(n) <= G[n]}
<1>6. 0 \in S
  BY <1>3, <1>4
<1>7. ASSUME NEW n \in Nat, n \in S PROVE n + 1 \in S
  <2> SUFFICES ASSUME n + 1 <= b PROVE least(n + 1) <= G[n + 1]
    OBVIOUS
  <2>1. /\ n + 1 \in 1 .. b /\ (n + 1) - 1 = n /\ n \in 0 .. b /\ n + 1 \in 0 .. b
        /\ a \in 0 .. a /\ n <= b
    BY <1>3
  <2>2. G[n + 1] = G[n] + u[n + 1] /\ G[n] \in Nat /\ u[n + 1] \in Nat /\ G[n + 1] \in Nat /\ F[a] \in Nat
    BY <1>3, <1>4, <2>1
  <2>3. least(n) <= G[n]
    BY <1>7, <2>1
  <2>4. CASE n + 1 <= a
    <3>1. n + 1 \in 1 .. a /\ n \in 0 .. a /\ n + 1 \in 0 .. a /\ n <= a
      BY <1>3, <2>4
    <3>2. F[n + 1] = F[n] + s[n + 1] /\ F[n] \in Nat /\ s[n + 1] \in Nat /\ s[n + 1] <= u[n + 1]
      BY <1>3, <1>4, <1>5, <2>1, <3>1
    <3>3. F[n] <= G[n]
      BY <2>3, <3>1
    <3>4. least(n + 1) = F[n + 1]
      BY <2>4
    <3>5. F[n] + s[n + 1] <= G[n] + u[n + 1]
      <4> DEFINE p == F[n]
                 q == s[n + 1]
                 v == G[n]
                 w == u[n + 1]
      <4>1. p \in Nat /\ q \in Nat /\ v \in Nat /\ w \in Nat /\ p <= v /\ q <= w
        BY <2>2, <3>2, <3>3
      <4>2. p + q <= v + w
        <5> HIDE DEF p, q, v, w
        <5> QED BY <4>1
      <4> QED BY <4>2
    <3> HIDE DEF least
    <3> QED BY <2>2, <3>2, <3>4, <3>5
  <2>5. CASE ~(n + 1 <= a)
    <3>1. least(n) = F[a] /\ least(n + 1) = F[a]
      <4>1. ~(n <= a) \/ n = a
        BY <1>3, <2>5
      <4> QED BY <2>5, <4>1
    <3> HIDE DEF least
    <3> QED BY <2>2, <2>3, <3>1
  <2> QED BY <2>4, <2>5
<1>8. \A n \in Nat : n \in S
  <2> HIDE DEF S
  <2> QED BY <1>6, <1>7, NatSetInduction
<1>9. least(b) <= G[b]
  BY <1>3, <1>8
<1>10. least(b) = F[a]
  BY <1>3
<1> HIDE DEF least
<1> QED BY <1>4, <1>9, <1>10

LEMMA TotalNat ==
    ASSUME NEW s \in Seq(Nat)
    PROVE  Total(s) \in Nat
<1>1. PICK F : Mounted(F, s)
  BY TotalMounts
<1>2. Len(s) \in 0 .. Len(s)
  OBVIOUS
<1> QED BY <1>1, <1>2 DEF Mounted

LEMMA TotalNone == Total(<< >>) = 0
<1>1. << >> \in Seq(Nat) /\ Len(<< >>) = 0
  OBVIOUS
<1>2. PICK F : Mounted(F, << >>)
  BY <1>1, TotalMounts
<1> QED BY <1>1, <1>2 DEF Mounted

\* Terms that are nothing come to nothing.
LEMMA TotalZero ==
    ASSUME NEW s \in Seq(Nat), \A i \in 1 .. Len(s) : s[i] = 0
    PROVE  Total(s) = 0
<1>1. PICK F : Mounted(F, s)
  BY TotalMounts
<1> DEFINE N == Len(s)
           S == {n \in Nat : n <= N => F[n] = 0}
<1>2. N \in Nat
  OBVIOUS
<1>3. F[0] = 0 /\ F[N] = Total(s) /\ \A n \in 1 .. N : F[n] = F[n - 1] + s[n] /\ s[n] = 0
  BY <1>1 DEF Mounted
<1> HIDE DEF N
<1>4. 0 \in S
  BY <1>3
<1>5. ASSUME NEW n \in Nat, n \in S PROVE n + 1 \in S
  <2> SUFFICES ASSUME n + 1 <= N PROVE F[n + 1] = 0
    OBVIOUS
  <2>1. n + 1 \in 1 .. N /\ (n + 1) - 1 = n /\ n <= N
    BY <1>2
  <2>2. F[n] = 0
    BY <1>5, <2>1
  <2>3. F[n + 1] = F[n] + s[n + 1] /\ s[n + 1] = 0
    BY <1>3, <2>1
  <2> QED BY <2>2, <2>3
<1>6. \A n \in Nat : n \in S
  <2> HIDE DEF S
  <2> QED BY <1>4, <1>5, NatSetInduction
<1>7. F[N] = 0
  BY <1>2, <1>6
<1> QED BY <1>3, <1>7

\* Sums that agree up to one more term.
LEMMA TotalNext ==
    ASSUME NEW n \in Nat, NEW s \in [1 .. n -> Nat], NEW u \in [1 .. n + 1 -> Nat],
           \A i \in 1 .. n : u[i] = s[i]
    PROVE  Total(u) = Total(s) + u[n + 1]
<1>0. s \in Seq(Nat) /\ Len(s) = n /\ u \in Seq(Nat) /\ Len(u) = n + 1
  BY DEF Seq
<1>1. PICK F : Mounted(F, s)
  BY <1>0, TotalMounts
<1>2. PICK G : Mounted(G, u)
  BY <1>0, TotalMounts
<1>4. /\ F \in [0 .. n -> Nat] /\ F[0] = 0 /\ F[n] = Total(s) /\ \A k \in 1 .. n : F[k] = F[k - 1] + s[k]
      /\ G \in [0 .. n + 1 -> Nat] /\ G[0] = 0 /\ G[n + 1] = Total(u)
      /\ \A k \in 1 .. n + 1 : G[k] = G[k - 1] + u[k]
  BY <1>0, <1>1, <1>2 DEF Mounted
<1> DEFINE S == {k \in Nat : k <= n => F[k] = G[k]}
<1>6. 0 \in S
  BY <1>4
<1>7. ASSUME NEW k \in Nat, k \in S PROVE k + 1 \in S
  <2> SUFFICES ASSUME k + 1 <= n PROVE F[k + 1] = G[k + 1]
    OBVIOUS
  <2>1. k + 1 \in 1 .. n /\ k + 1 \in 1 .. n + 1 /\ (k + 1) - 1 = k /\ k <= n
    OBVIOUS
  <2> QED BY <1>4, <1>7, <2>1
<1>8. \A k \in Nat : k \in S
  <2> HIDE DEF S
  <2> QED BY <1>6, <1>7, NatSetInduction
<1>9. F[n] = G[n]
  BY <1>8
<1>10. n + 1 \in 1 .. n + 1 /\ (n + 1) - 1 = n
  OBVIOUS
<1> QED BY <1>4, <1>9, <1>10

-----------------------------------------------------------------------------
(***************************************************************************)
(* A finite set in a strict order.                                         *)
(***************************************************************************)
StrictOn(S, R) ==
    /\ \A a \in S : <<a, a>> \notin R
    /\ \A a, b \in S : a # b => <<a, b>> \in R \/ <<b, a>> \in R
    /\ \A a, b, c \in S : <<a, b>> \in R /\ <<b, c>> \in R => <<a, c>> \in R

Follows(s, n, R) == \A i, j \in 1 .. n : i < j => <<s[i], s[j]>> \in R

\* Elements in a strict order are numbered by it.
LEMMA OrderExists ==
    ASSUME NEW S, IsFiniteSet(S), NEW R, StrictOn(S, R)
    PROVE  \E s \in [1 .. Cardinality(S) -> S] : Follows(s, Cardinality(S), R)
<1> DEFINE n == Cardinality(S)
           below == [a \in S |-> {b \in S : <<b, a>> \in R}]
           g == [a \in S |-> Cardinality(below[a])]
<1>1. n \in Nat /\ ExistsBijection(1 .. n, S)
  BY FS_CardinalityType
<1>2. PICK e : e \in Bijection(1 .. n, S)
  BY <1>1 DEF ExistsBijection
<1>3. e \in [1 .. n -> S] /\ (\A i, j \in 1 .. n : e[i] = e[j] => i = j)
  BY <1>2 DEF Bijection, Injection, IsInjective
<1>4. \A a \in S : below[a] \in SUBSET S /\ IsFiniteSet(below[a]) /\ g[a] = Cardinality(below[a]) /\ g[a] \in Nat
  <2> TAKE a \in S
  <2>1. below[a] \in SUBSET S /\ g[a] = Cardinality(below[a])
    OBVIOUS
  <2>2. IsFiniteSet(below[a])
    <3> HIDE DEF below
    <3> QED BY <2>1, FS_Subset
  <2>3. Cardinality(below[a]) \in Nat
    <3> HIDE DEF below
    <3> QED BY <2>2, FS_CardinalityType
  <2> QED BY <2>1, <2>2, <2>3
<1>5. ASSUME NEW a \in S, NEW b \in S, <<a, b>> \in R PROVE g[a] < g[b]
  <2>1. below[a] \in SUBSET below[b] /\ below[a] # below[b]
    <3>1. \A x \in below[a] : x \in below[b]
      BY <1>5 DEF StrictOn
    <3>2. a \in below[b] /\ a \notin below[a]
      BY <1>5 DEF StrictOn
    <3> QED BY <3>1, <3>2
  <2>2. IsFiniteSet(below[b]) /\ g[a] = Cardinality(below[a]) /\ g[b] = Cardinality(below[b])
        /\ g[a] \in Nat /\ g[b] \in Nat
    BY <1>4
  <2>3. Cardinality(below[a]) <= Cardinality(below[b]) /\ Cardinality(below[a]) # Cardinality(below[b])
    <3> HIDE DEF below, g
    <3> QED BY ONLY <2>1, <2>2, FS_Subset
  <2> HIDE DEF below, g
  <2> QED BY ONLY <2>2, <2>3
<1> HIDE DEF n, g
<1> DEFINE w == [i \in 1 .. n |-> g[e[i]]]
<1>6. \A i \in 1 .. n : w[i] = g[e[i]] /\ w[i] \in Nat /\ e[i] \in S
  BY <1>3, <1>4
<1> HIDE DEF w
<1>7. PICK p : SortedBy(w, n, p)
  BY <1>1, <1>6, SortExists
<1>8. /\ p \in [1 .. n -> 1 .. n] /\ \A i, j \in 1 .. n : i < j => w[p[i]] <= w[p[j]]
      /\ \A v \in 1 .. n : \E i \in 1 .. n : p[i] = v
  BY <1>7 DEF SortedBy
<1>9. \A i, j \in 1 .. n : p[i] = p[j] => i = j
  <2>1. p \in Surjection(1 .. n, 1 .. n)
    BY <1>8 DEF Surjection
  <2>2. IsFiniteSet(1 .. n)
    BY <1>1, FS_Interval
  <2>3. p \in Injection(1 .. n, 1 .. n)
    BY <2>1, <2>2, FS_SurjSameCardinalityImpliesInj
  <2> QED BY <2>3 DEF Injection, IsInjective
<1> DEFINE s == [i \in 1 .. n |-> e[p[i]]]
<1>10. s \in [1 .. n -> S] /\ \A i \in 1 .. n : s[i] = e[p[i]] /\ p[i] \in 1 .. n
  BY <1>3, <1>8
<1> HIDE DEF s
<1>11. ASSUME NEW i \in 1 .. n, NEW j \in 1 .. n, i < j PROVE <<s[i], s[j]>> \in R
  <2>1. s[i] \in S /\ s[j] \in S /\ s[i] = e[p[i]] /\ s[j] = e[p[j]] /\ p[i] \in 1 .. n /\ p[j] \in 1 .. n
    BY <1>10
  <2>2. p[i] # p[j]
    BY <1>1, <1>9, <1>11
  <2>3. s[i] # s[j]
    BY <1>3, <2>1, <2>2
  <2>4. w[p[i]] <= w[p[j]] /\ w[p[i]] = g[s[i]] /\ w[p[j]] = g[s[j]] /\ g[s[i]] \in Nat /\ g[s[j]] \in Nat
    <3>1. w[p[i]] <= w[p[j]]
      BY ONLY <1>8, <1>11, i \in 1 .. n, j \in 1 .. n
    <3>2. w[p[i]] = g[s[i]] /\ w[p[j]] = g[s[j]] /\ w[p[i]] \in Nat /\ w[p[j]] \in Nat
      BY ONLY <1>6, <2>1
    <3> QED BY ONLY <3>1, <3>2
  <2>5. ~(g[s[j]] < g[s[i]])
    BY <2>4
  <2>6. <<s[j], s[i]>> \notin R
    BY <1>5, <2>1, <2>5
  <2> QED BY <2>1, <2>3, <2>6 DEF StrictOn
<1> QED BY <1>10, <1>11 DEF Follows, n

\* Such a numbering misses nothing.
LEMMA OrderCovers ==
    ASSUME NEW S, IsFiniteSet(S), NEW R, StrictOn(S, R), NEW n, n = Cardinality(S),
           NEW s \in [1 .. n -> S], Follows(s, n, R)
    PROVE  /\ n \in Nat
           /\ \A i, j \in 1 .. n : s[i] = s[j] => i = j
           /\ \A a \in S : \E i \in 1 .. n : s[i] = a
           /\ \A i, j \in 1 .. n : <<s[i], s[j]>> \in R => i < j
<1>1. n \in Nat
  BY FS_CardinalityType
<1>2. ASSUME NEW i \in 1 .. n, NEW j \in 1 .. n, s[i] = s[j] PROVE i = j
  <2>1. s[i] \in S /\ <<s[i], s[i]>> \notin R
    BY DEF StrictOn
  <2>2. ~(i < j) /\ ~(j < i)
    BY <1>2, <2>1 DEF Follows
  <2> QED BY <1>1, <2>2
<1>3. \A a \in S : \E i \in 1 .. n : s[i] = a
  <2>1. s \in Injection(1 .. n, S)
    BY <1>2 DEF Injection, IsInjective
  <2>2. Cardinality(1 .. n) = Cardinality(S)
    <3>1. Cardinality(1 .. n) = n
      BY <1>1, FS_Interval
    <3> QED BY <3>1
  <2>3. s \in Surjection(1 .. n, S)
    BY <2>1, <2>2, FS_Injection
  <2> QED BY <2>3 DEF Surjection
<1>4. ASSUME NEW i \in 1 .. n, NEW j \in 1 .. n, <<s[i], s[j]>> \in R PROVE i < j
  <2>1. s[i] \in S /\ s[j] \in S
    OBVIOUS
  <2>2. i # j
    BY <1>4, <2>1 DEF StrictOn
  <2>3. ~(j < i)
    <3> SUFFICES ASSUME j < i PROVE FALSE
      OBVIOUS
    <3>1. <<s[j], s[i]>> \in R
      BY DEF Follows
    <3> QED BY <1>4, <2>1, <3>1 DEF StrictOn
  <2> QED BY <1>1, <2>2, <2>3
<1> QED BY <1>1, <1>2, <1>3, <1>4

-----------------------------------------------------------------------------
(***************************************************************************)
(* The dark pool: its sort.                                                *)
(***************************************************************************)
DarkOrder == [active : {TRUE}, ts : Nat, size : Nat, firm : Nat, side : Sides,
              mode : {"displayed", "hidden", "midpoint"}, price : Int, qty : Nat \ {0}, min_qty : Nat]
DarkTaker == [firm : Nat, side : Sides, price : Int, qty : Nat, bid : Nat, ask : Nat]

LEMMA CrossingNumbers ==
    /\ MaxResting \in Nat \ {0} /\ MaxFills \in Nat \ {0} /\ MaxAdded \in Nat
    /\ DarkSlots = 1 .. MaxResting /\ IsFiniteSet(DarkSlots) /\ Takers \subseteq DarkTaker
    /\ DarkOrders \subseteq [firm : Nat, side : Sides, mode : {"displayed", "hidden", "midpoint"},
                             price : Int, qty : Nat \ {0}, min_qty : Nat]
<1>1. MaxResting \in Nat \ {0} /\ MaxFills \in Nat \ {0} /\ MaxAdded \in Nat /\ DarkSlots = 1 .. MaxResting
  BY CrossingAssumption DEF DarkSlots
<1>2. IsFiniteSet(1 .. MaxResting)
  BY <1>1, FS_Interval
<1> QED BY <1>1, <1>2, CrossingAssumption DEF DarkTaker

\* An order is one of the engine's; no two have their time.
BookOK(b) ==
    /\ b \in [DarkSlots -> DarkOrder \cup {Free}]
    /\ \A i, j \in DarkSlots : b[i].active /\ b[j].active /\ b[i].ts = b[j].ts => i = j

LEMMA BookIs ==
    ASSUME NEW b, BookOK(b), NEW i \in DarkSlots
    PROVE  /\ b[i].active \in BOOLEAN /\ (~b[i].active => b[i] = Free) /\ (b[i].active => b[i] \in DarkOrder)
           /\ (b[i].active => /\ b[i].ts \in Nat /\ b[i].qty \in Nat \ {0} /\ b[i].min_qty \in Nat
                              /\ b[i].price \in Int)
<1>1. CASE b[i] = Free
  BY <1>1 DEF Free
<1>2. CASE b[i] \in DarkOrder
  BY <1>2 DEF DarkOrder
<1> QED BY <1>1, <1>2 DEF BookOK

LEMMA PriceIs ==
    ASSUME NEW o \in DarkOrder, NEW t \in DarkTaker
    PROVE  EffectivePrice(o, t) \in Int
<1>1. o.price \in Int /\ t.bid \in Nat /\ t.ask \in Nat
  BY DEF DarkOrder, DarkTaker
<1>2. (t.bid + t.ask) \div 2 \in Int
  BY <1>1
<1> QED BY <1>1, <1>2 DEF EffectivePrice, Midpoint

\* The comparison of the sort is the priority the pool promises.
LEMMA BeforeIsBetter ==
    ASSUME NEW a \in DarkOrder, NEW b \in DarkOrder, NEW t \in DarkTaker
    PROVE  Before(a, b, t) <=> Better(a, b, t)
<1> DEFINE p == EffectivePrice(a, t)
           q == EffectivePrice(b, t)
<1>1. p \in Int /\ q \in Int /\ t.side \in {"buy", "sell"}
  BY PriceIs DEF DarkTaker, Sides
<1> HIDE DEF p, q
<1>2. CASE p # q
  <2>1. Before(a, b, t) <=> ((t.side = "buy") <=> p < q)
    BY <1>2 DEF Before, p, q
  <2>2. Better(a, b, t) <=> ((t.side = "buy" /\ p < q) \/ (t.side = "sell" /\ p > q))
    BY <1>2 DEF Better, p, q
  <2>3. p < q \/ p > q
    BY <1>1, <1>2
  <2>4. ~(p < q /\ p > q)
    BY <1>1
  <2> QED BY <1>1, <2>1, <2>2, <2>3, <2>4
<1>3. CASE p = q
  <2>1. ~(p < q) /\ ~(p > q)
    BY <1>1, <1>3
  <2>2. Before(a, b, t) <=> IF (a.mode = "displayed") # (b.mode = "displayed") THEN a.mode = "displayed"
                            ELSE a.ts < b.ts
    BY <1>3 DEF Before, p, q
  <2>3. Better(a, b, t) <=> \/ a.mode = "displayed" /\ b.mode # "displayed"
                            \/ ((a.mode = "displayed") = (b.mode = "displayed")) /\ a.ts < b.ts
    BY <1>3, <2>1 DEF Better, p, q
  <2> QED BY <2>2, <2>3
<1> QED BY <1>2, <1>3

LEMMA BetterIsStrict ==
    ASSUME NEW t \in DarkTaker
    PROVE  /\ \A a \in DarkOrder : ~Better(a, a, t)
           /\ \A a, b \in DarkOrder : a.ts # b.ts => Better(a, b, t) \/ Better(b, a, t)
           /\ \A a, b, c \in DarkOrder : Better(a, b, t) /\ Better(b, c, t) => Better(a, c, t)
<1>0. /\ t.side \in {"buy", "sell"}
      /\ \A a \in DarkOrder : EffectivePrice(a, t) \in Int /\ a.ts \in Nat
  BY PriceIs DEF DarkTaker, DarkOrder, Sides
<1>1. ASSUME NEW a \in DarkOrder PROVE ~Better(a, a, t)
  BY <1>0 DEF Better
<1>2. ASSUME NEW a \in DarkOrder, NEW b \in DarkOrder, a.ts # b.ts PROVE Better(a, b, t) \/ Better(b, a, t)
  BY <1>0, <1>2 DEF Better
<1>3. ASSUME NEW a \in DarkOrder, NEW b \in DarkOrder, NEW c \in DarkOrder, Better(a, b, t), Better(b, c, t)
      PROVE  Better(a, c, t)
  <2> DEFINE p == EffectivePrice(a, t)
             q == EffectivePrice(b, t)
             r == EffectivePrice(c, t)
  <2>1. p \in Int /\ q \in Int /\ r \in Int /\ a.ts \in Nat /\ b.ts \in Nat /\ c.ts \in Nat
    BY <1>0
  <2> HIDE DEF p, q, r
  <2>2. CASE p = q /\ q = r
    BY <1>0, <1>3, <2>1, <2>2 DEF Better, p, q, r
  <2>3. CASE t.side = "buy" /\ ~(p = q /\ q = r)
    <3>1. p <= q /\ q <= r
      BY <1>3, <2>1, <2>3 DEF Better, p, q, r
    <3>2. p < r
      BY <2>1, <2>3, <3>1
    <3> QED BY <2>3, <3>2 DEF Better, p, r
  <2>4. CASE t.side = "sell" /\ ~(p = q /\ q = r)
    <3>1. p >= q /\ q >= r
      BY <1>3, <2>1, <2>4 DEF Better, p, q, r
    <3>2. p > r
      BY <2>1, <2>4, <3>1
    <3> QED BY <2>4, <3>2 DEF Better, p, r
  <2> QED BY <1>0, <2>2, <2>3, <2>4
<1> QED BY <1>1, <1>2, <1>3

Makers(b, t) == {i \in DarkSlots : Candidate(b[i], t)}
Sequenced(b, t, s, n) ==
    /\ n \in Nat /\ s \in [1 .. n -> Makers(b, t)]
    /\ \A i, j \in 1 .. n : s[i] = s[j] => i = j
    /\ \A a \in Makers(b, t) : \E i \in 1 .. n : s[i] = a
    /\ \A i, j \in 1 .. n : Better(b[s[i]], b[s[j]], t) => i < j

LEMMA MakersSorted ==
    ASSUME NEW b, BookOK(b), NEW t \in DarkTaker
    PROVE  Sequenced(b, t, SortedMakers(b, t), Cardinality(Makers(b, t)))
<1> DEFINE C == Makers(b, t)
           n == Cardinality(C)
           R == {e \in C \X C : Better(b[e[1]], b[e[2]], t)}
<1>1. IsFiniteSet(C)
  <2>1. C \in SUBSET DarkSlots
    BY DEF Makers
  <2> QED BY <2>1, CrossingNumbers, FS_Subset
<1>2. \A i \in C : i \in DarkSlots /\ b[i].active /\ b[i] \in DarkOrder
  BY BookIs DEF Makers, Candidate
<1>3. \A i, j \in C : <<i, j>> \in R <=> Better(b[i], b[j], t)
  OBVIOUS
<1>4. \A i, j \in C : i # j => b[i].ts # b[j].ts
  BY <1>2 DEF BookOK
<1>5. StrictOn(C, R)
  <2> HIDE DEF C, R
  <2>1. \A i \in C : <<i, i>> \notin R
    BY <1>2, <1>3, BetterIsStrict
  <2>2. \A i, j \in C : i # j => <<i, j>> \in R \/ <<j, i>> \in R
    BY <1>2, <1>3, <1>4, BetterIsStrict
  <2>3. \A i, j, k \in C : <<i, j>> \in R /\ <<j, k>> \in R => <<i, k>> \in R
    BY <1>2, <1>3, BetterIsStrict
  <2> QED BY <2>1, <2>2, <2>3 DEF StrictOn
<1> DEFINE P(s) == \A i, j \in DOMAIN s : i < j => Before(b[s[i]], b[s[j]], t)
<1>6. SortedMakers(b, t) = CHOOSE s \in [1 .. n -> C] : P(s)
  BY DEF SortedMakers, Makers
<1> HIDE DEF C, n, R
<1>7. \A s \in [1 .. n -> C] : P(s) <=> Follows(s, n, R)
  <2> SUFFICES ASSUME NEW s \in [1 .. n -> C] PROVE P(s) <=> Follows(s, n, R)
    OBVIOUS
  <2>1. ASSUME NEW i \in 1 .. n, NEW j \in 1 .. n
        PROVE  Before(b[s[i]], b[s[j]], t) <=> <<s[i], s[j]>> \in R
    <3>1. s[i] \in C /\ s[j] \in C
      OBVIOUS
    <3>2. b[s[i]] \in DarkOrder /\ b[s[j]] \in DarkOrder
      BY <1>2, <3>1
    <3> QED BY <1>3, <3>1, <3>2, BeforeIsBetter
  <2>2. DOMAIN s = 1 .. n
    OBVIOUS
  <2> QED BY <2>1, <2>2 DEF Follows
<1> HIDE DEF P
<1>8. \E s \in [1 .. n -> C] : P(s)
  <2>1. \E s \in [1 .. n -> C] : Follows(s, n, R)
    BY <1>1, <1>5, OrderExists DEF n
  <2> QED BY <1>7, <2>1
<1> DEFINE s == SortedMakers(b, t)
<1>9. s \in [1 .. n -> C] /\ P(s)
  BY <1>6, <1>8
<1> HIDE DEF s
<1>10. Follows(s, n, R)
  BY <1>7, <1>9
<1>11. n = Cardinality(C)
  BY DEF n
<1>12. /\ n \in Nat
       /\ \A i, j \in 1 .. n : s[i] = s[j] => i = j
       /\ \A a \in C : \E i \in 1 .. n : s[i] = a
       /\ \A i, j \in 1 .. n : <<s[i], s[j]>> \in R => i < j
  BY ONLY <1>1, <1>5, <1>9, <1>10, <1>11, OrderCovers
<1>13. \A i, j \in 1 .. n : Better(b[s[i]], b[s[j]], t) => i < j
  BY <1>3, <1>9, <1>12
<1>14. Sequenced(b, t, s, n)
  BY <1>9, <1>12, <1>13 DEF Sequenced, C
<1> QED BY <1>14 DEF s, n, C

-----------------------------------------------------------------------------
(***************************************************************************)
(* The dark pool: the fills of one cross.                                  *)
(***************************************************************************)
LEMMA MinOfTwo ==
    ASSUME NEW a \in Int, NEW b \in Int
    PROVE  Min({a, b}) = IF a <= b THEN a ELSE b
<1> DEFINE m == IF a <= b THEN a ELSE b
<1>1. m \in {a, b} /\ \A y \in {a, b} : m <= y
  OBVIOUS
<1>2. \A x \in {a, b} : (\A y \in {a, b} : x <= y) => x = m
  OBVIOUS
<1> HIDE DEF m
<1>3. Min({a, b}) = m
  BY <1>1, <1>2 DEF Min
<1> QED BY <1>3 DEF m

FillList == Seq(DarkSlots \X Nat)
Filling == [left : Nat, fills : FillList]

LEMMA FillIs ==
    ASSUME NEW f \in FillList
    PROVE  /\ Len(f) \in Nat /\ DOMAIN f = 1 .. Len(f)
           /\ \A k \in 1 .. Len(f) : f[k] \in DarkSlots \X Nat /\ f[k][1] \in DarkSlots /\ f[k][2] \in Nat
<1>1. Len(f) \in Nat /\ DOMAIN f = 1 .. Len(f) /\ \A k \in 1 .. Len(f) : f[k] \in DarkSlots \X Nat
  BY DEF FillList
<1> QED BY <1>1

\* What one more fill adds.
Appended(f, i, q, u) ==
    /\ u \in FillList /\ Len(u) = Len(f) + 1 /\ u[Len(f) + 1] = <<i, q>>
    /\ \A k \in 1 .. Len(f) : u[k] = f[k]
    /\ \A k \in 0 .. Len(f) : TakenBy(u, k) = TakenBy(f, k)
    /\ TakenBy(u, Len(f) + 1) = TakenBy(f, Len(f)) + q
    /\ \A x \in DarkSlots : FilledAt(u, x) = FilledAt(f, x) + (IF i = x THEN q ELSE 0)

LEMMA TakenNat ==
    ASSUME NEW f \in FillList, NEW k \in 0 .. Len(f)
    PROVE  TakenBy(f, k) \in Nat
<1> DEFINE s == [m \in 1 .. k |-> f[m][2]]
<1>1. Len(f) \in Nat /\ k \in Nat /\ \A m \in 1 .. k : f[m][2] \in Nat
  BY FillIs
<1>2. s \in [1 .. k -> Nat]
  BY <1>1
<1>3. TakenBy(f, k) = Total(s)
  BY DEF TakenBy, Total
<1> HIDE DEF s
<1>4. s \in Seq(Nat)
  BY <1>1, <1>2 DEF Seq
<1> QED BY <1>3, <1>4, TotalNat

SharesAt(f, x) == [k \in 1 .. Len(f) |-> IF f[k][1] = x THEN f[k][2] ELSE 0]

LEMMA AtIs ==
    ASSUME NEW f \in FillList, NEW x
    PROVE  /\ SharesAt(f, x) \in [1 .. Len(f) -> Nat] /\ SharesAt(f, x) \in Seq(Nat) /\ Len(SharesAt(f, x)) = Len(f)
           /\ FilledAt(f, x) = Total(SharesAt(f, x)) /\ FilledAt(f, x) \in Nat
<1>1. Len(f) \in Nat /\ DOMAIN f = 1 .. Len(f) /\ \A k \in 1 .. Len(f) : f[k][2] \in Nat
  BY FillIs
<1>2. SharesAt(f, x) \in [1 .. Len(f) -> Nat]
  BY <1>1 DEF SharesAt
<1>3. SharesAt(f, x) \in Seq(Nat) /\ Len(SharesAt(f, x)) = Len(f)
  BY <1>1, <1>2 DEF Seq
<1>4. FilledAt(f, x) = Total(SharesAt(f, x))
  BY <1>1 DEF FilledAt, Total, SharesAt
<1> QED BY <1>2, <1>3, <1>4, TotalNat

LEMMA FillAppends ==
    ASSUME NEW f \in FillList, NEW i \in DarkSlots, NEW q \in Nat
    PROVE  Appended(f, i, q, Append(f, <<i, q>>))
<1> DEFINE u == Append(f, <<i, q>>)
           l == Len(f)
<1>0. l \in Nat /\ DOMAIN f = 1 .. l /\ \A k \in 1 .. l : f[k][1] \in DarkSlots /\ f[k][2] \in Nat
  BY FillIs
<1>1. /\ u \in FillList /\ Len(u) = l + 1 /\ u[l + 1] = <<i, q>> /\ \A k \in 1 .. l : u[k] = f[k]
  <2>1. <<i, q>> \in DarkSlots \X Nat
    OBVIOUS
  <2> QED BY <2>1 DEF FillList
<1> HIDE DEF u, l
<1>11. DOMAIN u = 1 .. l + 1 /\ \A k \in 1 .. l + 1 : u[k][2] \in Nat
  BY <1>1, FillIs
<1>2. ASSUME NEW k \in 0 .. l PROVE TakenBy(u, k) = TakenBy(f, k)
  <2>1. \A m \in 1 .. k : u[m][2] = f[m][2]
    BY <1>0, <1>1
  <2>2. [m \in 1 .. k |-> u[m][2]] = [m \in 1 .. k |-> f[m][2]]
    BY <2>1
  <2> QED BY <2>2 DEF TakenBy
<1>3. TakenBy(u, l + 1) = TakenBy(f, l) + q
  <2> DEFINE s == [m \in 1 .. l |-> f[m][2]]
             v == [m \in 1 .. l + 1 |-> u[m][2]]
  <2>1. s \in [1 .. l -> Nat] /\ v \in [1 .. l + 1 -> Nat]
    BY <1>0, <1>11
  <2>2. \A m \in 1 .. l : v[m] = s[m]
    BY <1>0, <1>1
  <2>3. v[l + 1] = q
    BY <1>0, <1>1
  <2>4. TakenBy(u, l + 1) = Total(v) /\ TakenBy(f, l) = Total(s)
    BY DEF TakenBy, Total
  <2> HIDE DEF s, v
  <2>5. Total(v) = Total(s) + v[l + 1]
    BY ONLY <1>0, <2>1, <2>2, TotalNext
  <2> QED BY <2>3, <2>4, <2>5
<1>4. ASSUME NEW x \in DarkSlots PROVE FilledAt(u, x) = FilledAt(f, x) + (IF i = x THEN q ELSE 0)
  <2> DEFINE s == SharesAt(f, x)
             v == SharesAt(u, x)
  <2>1. s \in [1 .. l -> Nat] /\ v \in [1 .. l + 1 -> Nat] /\ FilledAt(f, x) = Total(s) /\ FilledAt(u, x) = Total(v)
    BY <1>1, AtIs DEF l
  <2>2. \A m \in 1 .. l : v[m] = s[m]
    <3>1. \A m \in 1 .. l : m \in 1 .. l + 1 /\ u[m] = f[m]
      BY <1>0, <1>1
    <3>2. Len(f) = l
      BY DEF l
    <3> QED BY <1>1, <3>1, <3>2 DEF SharesAt
  <2>3. v[l + 1] = IF i = x THEN q ELSE 0
    <3>1. l + 1 \in 1 .. l + 1 /\ u[l + 1][1] = i /\ u[l + 1][2] = q
      BY <1>0, <1>1
    <3> QED BY <1>1, <3>1 DEF SharesAt
  <2> HIDE DEF s, v
  <2>4. Total(v) = Total(s) + v[l + 1]
    BY ONLY <1>0, <2>1, <2>2, TotalNext
  <2> QED BY <2>1, <2>3, <2>4
<1> QED BY <1>1, <1>2, <1>3, <1>4 DEF Appended, u, l

\* Before the m-th fill the order in slot i was used up or could not be filled.
Spent(b, t, f, m, i) ==
    \/ \E l \in 1 .. m - 1 : f[l] = <<i, b[i].qty>>
    \/ Min({t.qty - TakenBy(f, m - 1), b[i].qty}) < b[i].min_qty

\* After k visits.
FillsOK(b, t, s, k, w) ==
    /\ w \in Filling /\ w.left + TakenBy(w.fills, Len(w.fills)) = t.qty
    /\ \A m \in 1 .. Len(w.fills) :
          \E p \in 1 .. k : w.fills[m][1] = s[p] /\ \A j \in 1 .. p - 1 : Spent(b, t, w.fills, m, s[j])
    /\ w.left # 0 /\ Len(w.fills) # MaxFills =>
          \A j \in 1 .. k : Spent(b, t, w.fills, Len(w.fills) + 1, s[j])
    /\ \A x \in DarkSlots : (\A p \in 1 .. k : s[p] # x) => FilledAt(w.fills, x) = 0
    /\ \A x \in DarkSlots : b[x].active => FilledAt(w.fills, x) <= b[x].qty

\* An order that was spent before one fill is spent before the next.
LEMMA SpentKeeps ==
    ASSUME NEW b, NEW t \in DarkTaker, NEW f \in FillList, NEW i \in DarkSlots, NEW q \in Nat,
           NEW u, Appended(f, i, q, u), NEW x, b[x].qty \in Nat, b[x].min_qty \in Nat
    PROVE  /\ \A m \in 1 .. Len(f) + 1 : Spent(b, t, f, m, x) => Spent(b, t, u, m, x)
           /\ Spent(b, t, f, Len(f) + 1, x) => Spent(b, t, u, Len(f) + 2, x)
<1> DEFINE l == Len(f)
<1>1. l \in Nat /\ t.qty \in Nat
  BY FillIs DEF DarkTaker
<1>2. /\ \A k \in 1 .. l : u[k] = f[k]
      /\ \A k \in 0 .. l : TakenBy(u, k) = TakenBy(f, k)
      /\ TakenBy(u, l + 1) = TakenBy(f, l) + q /\ TakenBy(f, l) \in Nat
  <2>1. l \in 0 .. Len(f)
    BY <1>1
  <2>2. TakenBy(f, l) \in Nat
    BY <2>1, TakenNat
  <2> QED BY <2>2 DEF Appended
<1> HIDE DEF l
<1>3. ASSUME NEW m \in 1 .. l + 1, Spent(b, t, f, m, x) PROVE Spent(b, t, u, m, x)
  <2>1. m - 1 \in 0 .. l /\ \A k \in 1 .. m - 1 : k \in 1 .. l
    BY <1>1
  <2> QED BY <1>2, <1>3, <2>1 DEF Spent
<1>4. ASSUME Spent(b, t, f, l + 1, x) PROVE Spent(b, t, u, l + 2, x)
  <2>1. (l + 1) - 1 = l /\ (l + 2) - 1 = l + 1 /\ \A k \in 1 .. l : k \in 1 .. l + 1
    BY <1>1
  <2>2. CASE \E k \in 1 .. l : f[k] = <<x, b[x].qty>>
    <3>1. PICK k \in 1 .. l : f[k] = <<x, b[x].qty>>
      BY <2>2
    <3>2. k \in 1 .. l + 1 /\ u[k] = <<x, b[x].qty>>
      BY <1>2, <2>1, <3>1
    <3> QED BY <2>1, <3>2 DEF Spent
  <2>3. CASE Min({t.qty - TakenBy(f, l), b[x].qty}) < b[x].min_qty
    <3> DEFINE a == t.qty - TakenBy(f, l)
               c == t.qty - TakenBy(u, l + 1)
               y == b[x].qty
               z == b[x].min_qty
    <3>1. a \in Int /\ c \in Int /\ c <= a /\ y \in Nat /\ z \in Nat
      BY <1>1, <1>2
    <3>2. Min({a, y}) < z
      BY <2>3
    <3> HIDE DEF a, c, y, z
    <3>3. Min({c, y}) < z
      BY <3>1, <3>2, MinOfTwo
    <3> QED BY <2>1, <3>3 DEF Spent, c, y, z
  <2> QED BY <1>4, <2>1, <2>2, <2>3 DEF Spent
<1> QED BY <1>3, <1>4 DEF l

\* One maker visited.
LEMMA MakerVisited ==
    ASSUME NEW b, BookOK(b), NEW t \in DarkTaker, NEW s, NEW n, Sequenced(b, t, s, n),
           NEW k \in 0 .. n - 1, NEW w, FillsOK(b, t, s, k, w), NEW v, v = Visit(b, w, s[k + 1])
    PROVE  FillsOK(b, t, s, k + 1, v)
<1> DEFINE i == s[k + 1]
           f == w.fills
           l == Len(f)
           left == w.left
           mine == b[i].qty
           least == b[i].min_qty
           q == Min({left, mine})
<1>0. n \in Nat /\ k \in Nat /\ k + 1 \in 1 .. n /\ k + 1 \in 1 .. k + 1 /\ s \in [1 .. n -> Makers(b, t)]
  BY DEF Sequenced
<1>1. f \in FillList /\ left \in Nat /\ l \in Nat /\ left + TakenBy(f, l) = t.qty /\ TakenBy(f, l) \in Nat
  <2>1. f \in FillList /\ left \in Nat /\ left + TakenBy(f, l) = t.qty
    BY DEF FillsOK, Filling
  <2>2. l \in Nat /\ l \in 0 .. Len(f)
    BY <2>1, FillIs
  <2> QED BY <2>1, <2>2, TakenNat
<1>2. /\ i \in DarkSlots /\ b[i].active /\ mine \in Nat \ {0} /\ least \in Nat
      /\ \A j \in 1 .. n : s[j] \in DarkSlots /\ b[s[j]].active /\ b[s[j]].qty \in Nat /\ b[s[j]].min_qty \in Nat
  <2>1. \A j \in 1 .. n : s[j] \in DarkSlots /\ b[s[j]].active
    BY <1>0 DEF Makers, Candidate
  <2>2. \A j \in 1 .. n : b[s[j]].qty \in Nat \ {0} /\ b[s[j]].min_qty \in Nat
    BY <2>1, BookIs
  <2> QED BY <1>0, <2>1, <2>2
<1>3. q = (IF left <= mine THEN left ELSE mine) /\ q \in Nat /\ q <= left /\ q <= mine
  <2> HIDE DEF left, mine, i
  <2>1. q = IF left <= mine THEN left ELSE mine
    BY <1>1, <1>2, MinOfTwo
  <2> HIDE DEF q
  <2> QED BY <1>1, <1>2, <2>1
<1>4. /\ \A m \in 1 .. l : \E p \in 1 .. k : f[m][1] = s[p] /\ \A j \in 1 .. p - 1 : Spent(b, t, f, m, s[j])
      /\ left # 0 /\ l # MaxFills => \A j \in 1 .. k : Spent(b, t, f, l + 1, s[j])
      /\ \A x \in DarkSlots : (\A p \in 1 .. k : s[p] # x) => FilledAt(f, x) = 0
      /\ \A x \in DarkSlots : b[x].active => FilledAt(f, x) <= b[x].qty
  BY DEF FillsOK
<1>5. v = IF left = 0 \/ l = MaxFills \/ q < least THEN w ELSE [left |-> left - q, fills |-> Append(f, <<i, q>>)]
  BY DEF Visit
<1>6. w \in Filling /\ \A p \in 1 .. k : p \in 1 .. k + 1
  BY <1>0 DEF FillsOK
<1> HIDE DEF i, f, l, left, mine, least, q
<1>7. CASE left = 0 \/ l = MaxFills \/ q < least
  <2>1. v = w
    BY <1>5, <1>7
  <2>2. \A m \in 1 .. l : \E p \in 1 .. k + 1 : f[m][1] = s[p] /\ \A j \in 1 .. p - 1 : Spent(b, t, f, m, s[j])
    BY <1>4, <1>6
  <2>3. ASSUME left # 0, l # MaxFills, NEW j \in 1 .. k + 1 PROVE Spent(b, t, f, l + 1, s[j])
    <3>1. CASE j \in 1 .. k
      BY <1>4, <2>3, <3>1
    <3>2. CASE j \notin 1 .. k
      <4>1. j = k + 1
        BY <1>0, <3>2
      <4>2. s[j] = i /\ q < least
        BY <1>7, <2>3, <4>1 DEF i
      <4>3. (l + 1) - 1 = l /\ t.qty - TakenBy(f, l) = left
        BY <1>1
      <4> QED BY <4>2, <4>3 DEF Spent, q, mine, least
    <3> QED BY <3>1, <3>2
  <2>4. \A x \in DarkSlots : (\A p \in 1 .. k + 1 : s[p] # x) => FilledAt(f, x) = 0
    BY <1>4, <1>6
  <2>5. left + TakenBy(f, l) = t.qty /\ w.left = left /\ w.fills = f /\ Len(w.fills) = l
    BY <1>1 DEF left, f, l
  <2> QED BY <1>4, <1>6, <2>1, <2>2, <2>3, <2>4, <2>5 DEF FillsOK
<1>8. CASE ~(left = 0 \/ l = MaxFills \/ q < least)
  <2> DEFINE u == Append(f, <<i, q>>)
  <2>1. v = [left |-> left - q, fills |-> u] /\ left - q \in Nat
    BY <1>1, <1>3, <1>5, <1>8
  <2>2. Appended(f, i, q, u)
    BY <1>1, <1>2, <1>3, FillAppends
  <2> HIDE DEF u
  <2>3. /\ u \in FillList /\ Len(u) = l + 1 /\ u[l + 1] = <<i, q>> /\ \A m \in 1 .. l : u[m] = f[m]
        /\ TakenBy(u, l + 1) = TakenBy(f, l) + q
        /\ \A x \in DarkSlots : FilledAt(u, x) = FilledAt(f, x) + (IF i = x THEN q ELSE 0)
    BY <2>2 DEF Appended, l
  <2>4. v \in Filling /\ v.left = left - q /\ v.fills = u
    BY <2>1, <2>3 DEF Filling
  <2>5. (left - q) + TakenBy(u, l + 1) = t.qty
    <3> DEFINE T == TakenBy(f, l)
               T2 == TakenBy(u, l + 1)
               Q == t.qty
    <3>1. left + T = Q /\ T2 = T + q /\ T \in Nat
      BY <1>1, <2>3
    <3> HIDE DEF T, T2, Q
    <3>2. (left - q) + T2 = Q
      BY <1>1, <1>3, <3>1
    <3> QED BY <3>2 DEF T2, Q
  <2>6. /\ \A m \in 1 .. l + 1 : \A j \in 1 .. n : Spent(b, t, f, m, s[j]) => Spent(b, t, u, m, s[j])
        /\ \A j \in 1 .. n : Spent(b, t, f, l + 1, s[j]) => Spent(b, t, u, l + 2, s[j])
    <3> SUFFICES ASSUME NEW j \in 1 .. n
                 PROVE  /\ \A m \in 1 .. l + 1 : Spent(b, t, f, m, s[j]) => Spent(b, t, u, m, s[j])
                        /\ Spent(b, t, f, l + 1, s[j]) => Spent(b, t, u, l + 2, s[j])
      OBVIOUS
    <3>1. b[s[j]].qty \in Nat /\ b[s[j]].min_qty \in Nat
      BY <1>2
    <3> DEFINE x == s[j]
    <3>2. b[x].qty \in Nat /\ b[x].min_qty \in Nat
      BY <3>1
    <3> HIDE DEF x
    <3>3. /\ \A m \in 1 .. Len(f) + 1 : Spent(b, t, f, m, x) => Spent(b, t, u, m, x)
          /\ Spent(b, t, f, Len(f) + 1, x) => Spent(b, t, u, Len(f) + 2, x)
      BY ONLY <1>1, <1>2, <1>3, <2>2, <3>2, t \in DarkTaker, SpentKeeps
    <3> QED BY <3>3 DEF x, l
  <2>7. ASSUME NEW m \in 1 .. l + 1
        PROVE  \E p \in 1 .. k + 1 : u[m][1] = s[p] /\ \A j \in 1 .. p - 1 : Spent(b, t, u, m, s[j])
    <3>1. CASE m \in 1 .. l
      <4>1. PICK p \in 1 .. k : f[m][1] = s[p] /\ \A j \in 1 .. p - 1 : Spent(b, t, f, m, s[j])
        BY <1>4, <3>1
      <4>2. p \in 1 .. k + 1 /\ \A j \in 1 .. p - 1 : j \in 1 .. n
        BY <1>0
      <4>3. u[m][1] = s[p]
        BY <2>3, <3>1, <4>1
      <4>4. \A j \in 1 .. p - 1 : Spent(b, t, u, m, s[j])
        BY <2>6, <4>1, <4>2
      <4> QED BY <4>2, <4>3, <4>4
    <3>2. CASE m \notin 1 .. l
      <4>1. m = l + 1
        BY <1>1, <3>2
      <4>2. u[m][1] = i /\ i = s[k + 1] /\ (k + 1) - 1 = k /\ \A j \in 1 .. k : j \in 1 .. n
        BY <1>0, <2>3, <4>1 DEF i
      <4>3. \A j \in 1 .. k : Spent(b, t, f, m, s[j])
        BY <1>4, <1>8, <4>1
      <4>4. \A j \in 1 .. (k + 1) - 1 : Spent(b, t, u, m, s[j])
        BY <2>6, <4>2, <4>3
      <4> QED BY <1>0, <4>2, <4>4
    <3> QED BY <3>1, <3>2
  <2>8. ASSUME left - q # 0, NEW j \in 1 .. k + 1 PROVE Spent(b, t, u, (l + 1) + 1, s[j])
    <3>0. (l + 1) + 1 = l + 2 /\ j \in 1 .. n
      BY <1>0, <1>1
    <3>1. CASE j \in 1 .. k
      <4>1. Spent(b, t, f, l + 1, s[j])
        BY <1>4, <1>8, <3>1
      <4> QED BY <2>6, <3>0, <4>1
    <3>2. CASE j \notin 1 .. k
      <4>1. j = k + 1
        BY <1>0, <3>2
      <4>2. q = mine
        BY <1>1, <1>2, <1>3, <2>8
      <4>3. s[j] = i /\ u[l + 1] = <<i, b[i].qty>> /\ l + 1 \in 1 .. ((l + 1) + 1) - 1
        BY <1>1, <2>3, <4>1, <4>2 DEF i, mine
      <4> QED BY <4>3 DEF Spent
    <3> QED BY <3>1, <3>2
  <2>9. ASSUME NEW x \in DarkSlots
        PROVE  /\ (\A p \in 1 .. k + 1 : s[p] # x) => FilledAt(u, x) = 0
               /\ b[x].active => FilledAt(u, x) <= b[x].qty
    <3>1. CASE x = i
      <4>1. s[k + 1] = x
        BY <3>1 DEF i
      <4>2. \A p \in 1 .. k : s[p] # x
        <5> SUFFICES ASSUME NEW p \in 1 .. k, s[p] = x PROVE FALSE
          OBVIOUS
        <5>1. p \in 1 .. n /\ p # k + 1
          BY <1>0
        <5> QED BY <1>0, <4>1, <5>1 DEF Sequenced
      <4>3. FilledAt(f, x) = 0
        BY <1>4, <4>2
      <4>4. FilledAt(u, x) = q
        BY <1>3, <2>3, <3>1, <4>3
      <4> QED BY <1>0, <1>3, <3>1, <4>1, <4>4 DEF mine
    <3>2. CASE x # i
      <4>1. FilledAt(u, x) = FilledAt(f, x)
        <5>1. FilledAt(f, x) \in Nat
          BY <1>1, AtIs
        <5>2. FilledAt(u, x) = FilledAt(f, x) + 0
          BY <2>3, <3>2
        <5> QED BY <5>1, <5>2
      <4> QED BY <1>4, <1>6, <4>1
    <3> QED BY <3>1, <3>2
  <2> QED BY <2>3, <2>4, <2>5, <2>7, <2>8, <2>9 DEF FillsOK
<1> QED BY <1>7, <1>8

\* match_cross goes through the makers one by one.
LEMMA FillsEnd ==
    ASSUME NEW b, BookOK(b), NEW t \in DarkTaker
    PROVE  \E w : /\ FillsOK(b, t, SortedMakers(b, t), Cardinality(Makers(b, t)), w)
                  /\ w.fills = Fills(b, t)
<1> DEFINE s == SortedMakers(b, t)
           N == Cardinality(Makers(b, t))
           unfilled == [left |-> t.qty, fills |-> << >>]
           V(w, i) == Visit(b, w, s[i])
           step == [i \in 1 .. N |-> [w \in Filling |-> V(w, i)]]
           body(g) == [r \in SUBSET (1 .. N) |-> IF r = {} THEN unfilled ELSE V(g[r \ {Max(r)}], Max(r))]
           fold == CHOOSE g : g = body(g)
<1>0. Sequenced(b, t, s, N)
  BY MakersSorted
<1> HIDE DEF N
<1>01. N \in Nat /\ DOMAIN s = 1 .. N /\ \A i \in 1 .. N : s[i] \in DarkSlots /\ b[s[i]].qty \in Nat
  <2>1. N \in Nat /\ s \in [1 .. N -> Makers(b, t)]
    BY <1>0 DEF Sequenced
  <2>2. \A i \in 1 .. N : s[i] \in DarkSlots /\ b[s[i]].active
    BY <2>1 DEF Makers, Candidate
  <2> QED BY <2>1, <2>2, BookIs
<1>1. \A r \in SUBSET (1 .. N) : r # {} => Max(r) \in r
  <2> TAKE r \in SUBSET (1 .. N)
  <2>1. r \subseteq 0 .. N
    BY <1>01
  <2> QED BY <1>01, <2>1, MaxIn
<1>3. \A w \in Filling, i \in 1 .. N : V(w, i) \in Filling
  <2> TAKE w \in Filling, i \in 1 .. N
  <2> DEFINE x == s[i]
             q == Min({w.left, b[x].qty})
             u == Append(w.fills, <<x, q>>)
  <2>1. x \in DarkSlots /\ b[x].qty \in Nat /\ w.left \in Nat /\ w.fills \in FillList
    BY <1>01 DEF Filling
  <2>2. q \in Nat /\ w.left - q \in Nat
    <3> DEFINE a == w.left
               c == b[x].qty
    <3>1. a \in Nat /\ c \in Nat
      BY <2>1
    <3> HIDE DEF a, c
    <3>2. Min({a, c}) = IF a <= c THEN a ELSE c
      BY <3>1, MinOfTwo
    <3>3. Min({a, c}) \in Nat /\ a - Min({a, c}) \in Nat
      BY <3>1, <3>2
    <3> QED BY <3>3 DEF a, c
  <2>3. V(w, i) = w \/ V(w, i) = [left |-> w.left - q, fills |-> u]
    BY DEF Visit
  <2> HIDE DEF x, q
  <2>4. u \in FillList
    <3>1. <<x, q>> \in DarkSlots \X Nat
      BY <2>1, <2>2
    <3> QED BY <2>1, <3>1 DEF FillList
  <2> HIDE DEF u, V
  <2> QED BY <2>2, <2>3, <2>4 DEF Filling
<1>4. Fills(b, t) = fold[1 .. N].fills
  BY <1>01 DEF Fills, FoldLeft, MapThenFoldSet
<1>40. unfilled \in Filling /\ unfilled.left = t.qty /\ unfilled.fills = << >>
  <2>1. t.qty \in Nat /\ << >> \in FillList
    BY DEF DarkTaker, FillList
  <2> QED BY <2>1 DEF Filling
<1> HIDE DEF V, s, unfilled
<1>5. step \in [1 .. N -> [Filling -> Filling]]
  BY <1>3
<1>6. PICK f : Folds(f, step, unfilled, Filling, N)
  <2> HIDE DEF step
  <2> QED BY ONLY <1>01, <1>5, <1>40, FoldsExist
<1>7. f = body(f)
  <2>1. ASSUME NEW r \in SUBSET (1 .. N) PROVE f[r] = body(f)[r]
    <3>1. CASE r = {}
      BY <1>6, <3>1 DEF Folds
    <3>2. CASE r # {}
      <4>1. Max(r) \in 1 .. N /\ r \ {Max(r)} \in SUBSET (1 .. N)
        BY <1>1, <3>2
      <4>2. f[r \ {Max(r)}] \in Filling /\ f[r] = step[Max(r)][f[r \ {Max(r)}]]
        BY <1>6, <3>2, <4>1 DEF Folds
      <4>3. step[Max(r)][f[r \ {Max(r)}]] = V(f[r \ {Max(r)}], Max(r))
        BY <4>1, <4>2
      <4> QED BY <3>2, <4>2, <4>3
    <3> QED BY <3>1, <3>2
  <2> QED BY <1>6, <2>1 DEF Folds
<1>8. fold = body(fold)
  <2> HIDE DEF body
  <2> QED BY <1>7
<1> HIDE DEF fold
<1>9. fold[1 .. 0] = unfilled
  <2>1. 1 .. 0 = {}
    OBVIOUS
  <2> QED BY <1>8, <2>1
<1>10. ASSUME NEW n \in 1 .. N PROVE fold[1 .. n] = V(fold[1 .. (n - 1)], n)
  <2>1. \A i \in 1 .. n : i \in 1 .. N
    BY <1>01
  <2>2. n \in 1 .. n /\ n \in Nat \ {0}
    BY <1>01
  <2>3. fold[1 .. n] = V(fold[(1 .. n) \ {Max(1 .. n)}], Max(1 .. n))
    BY <1>8, <2>1, <2>2
  <2> QED BY <2>2, <2>3, MaxPrefix
<1> DEFINE S == {n \in Nat : n <= N => FillsOK(b, t, s, n, fold[1 .. n])}
<1>11. 0 \in S
  <2> SUFFICES FillsOK(b, t, s, 0, unfilled)
    BY <1>9
  <2>1. unfilled.fills \in FillList /\ Len(unfilled.fills) = 0 /\ unfilled.left = t.qty /\ t.qty \in Nat
    <3>1. Len(<< >>) = 0 /\ << >> \in FillList
      BY DEF FillList
    <3>2. t.qty \in Nat
      BY DEF DarkTaker
    <3> QED BY <1>40, <3>1, <3>2
  <2>2. TakenBy(unfilled.fills, 0) = 0
    <3>1. [m \in 1 .. 0 |-> unfilled.fills[m][2]] = << >>
      OBVIOUS
    <3> QED BY <3>1, TotalNone DEF TakenBy, Total
  <2>3. \A x : FilledAt(unfilled.fills, x) = 0
    <3> TAKE x
    <3>1. SharesAt(unfilled.fills, x) = << >>
      BY <2>1 DEF SharesAt
    <3> QED BY <2>1, <3>1, AtIs, TotalNone
  <2>4. \A x \in DarkSlots : b[x].active => 0 <= b[x].qty
    BY BookIs
  <2>5. unfilled.left + TakenBy(unfilled.fills, Len(unfilled.fills)) = t.qty
    BY <2>1, <2>2
  <2> QED BY <1>40, <2>1, <2>3, <2>4, <2>5 DEF FillsOK
<1>12. \A n \in Nat : n \in S => n + 1 \in S
  <2> SUFFICES ASSUME NEW n \in Nat, n \in S, n + 1 <= N PROVE FillsOK(b, t, s, n + 1, fold[1 .. (n + 1)])
    OBVIOUS
  <2>1. n + 1 \in 1 .. N /\ (n + 1) - 1 = n /\ n \in 0 .. N - 1 /\ n <= N
    BY <1>01
  <2>2. fold[1 .. (n + 1)] = Visit(b, fold[1 .. n], s[n + 1])
    BY <1>10, <2>1 DEF V
  <2>3. FillsOK(b, t, s, n, fold[1 .. n])
    BY <2>1
  <2> QED BY <1>0, <2>1, <2>2, <2>3, MakerVisited
<1>13. \A n \in Nat : n \in S
  <2> HIDE DEF S
  <2> QED BY <1>11, <1>12, NatSetInduction
<1>14. FillsOK(b, t, s, N, fold[1 .. N])
  BY <1>01, <1>13
<1> QED BY <1>4, <1>14 DEF s, N

PriorityIn(b, t, f) ==
    /\ TakenBy(f, Len(f)) <= t.qty
    /\ \A k \in DOMAIN f : \A i \in DarkSlots :
          Candidate(b[i], t) /\ Better(b[i], b[f[k][1]], t) => Spent(b, t, f, k, i)

TimesAt(b, f, n) == [k \in 1 .. Len(f) |-> IF b[f[k][1]].ts = n THEN f[k][2] ELSE 0]
Stayed(b, f, x) == b[x].qty - FilledAt(f, x)

\* What a cross does to the book.
CrossOK(b, t, f) ==
    /\ f \in FillList /\ PriorityIn(b, t, f)
    /\ \A k \in 1 .. Len(f) : f[k][1] \in Makers(b, t)
    /\ \A x \in DarkSlots : b[x].active => Stayed(b, f, x) \in Nat /\ FilledAt(f, x) \in Nat
    /\ \A x \in DarkSlots : b[x].active /\ Stayed(b, f, x) = 0 => \E k \in 1 .. Len(f) : f[k][1] = x
    /\ \A n : Total(TimesAt(b, f, n)) \in Nat
    /\ \A x \in DarkSlots : b[x].active => Total(TimesAt(b, f, b[x].ts)) = FilledAt(f, x)
    /\ \A n : (\A x \in DarkSlots : b[x].active => b[x].ts # n) => Total(TimesAt(b, f, n)) = 0

LEMMA CrossedOK ==
    ASSUME NEW b, BookOK(b), NEW t \in DarkTaker
    PROVE  CrossOK(b, t, Fills(b, t))
<1> DEFINE f == Fills(b, t)
           l == Len(f)
           s == SortedMakers(b, t)
           N == Cardinality(Makers(b, t))
<1>1. PICK w : FillsOK(b, t, s, N, w) /\ w.fills = f
  BY FillsEnd
<1>2. Sequenced(b, t, s, N)
  BY MakersSorted
<1> HIDE DEF s, N, f, l
<1>3. /\ f \in FillList /\ w.left \in Nat /\ w.left + TakenBy(f, l) = t.qty
      /\ \A m \in 1 .. l : \E p \in 1 .. N : f[m][1] = s[p] /\ \A j \in 1 .. p - 1 : Spent(b, t, f, m, s[j])
      /\ \A x \in DarkSlots : b[x].active => FilledAt(f, x) <= b[x].qty
  BY <1>1 DEF FillsOK, Filling, l
<1>4. /\ l \in Nat /\ DOMAIN f = 1 .. l
      /\ \A k \in 1 .. l : f[k][1] \in DarkSlots /\ f[k][2] \in Nat
  BY <1>3, FillIs DEF l
<1>5. N \in Nat /\ s \in [1 .. N -> Makers(b, t)]
  BY <1>2 DEF Sequenced
<1>6. \A k \in 1 .. l : f[k][1] \in Makers(b, t) /\ f[k][1] \in DarkSlots /\ b[f[k][1]].active
  <2> TAKE k \in 1 .. l
  <2>1. PICK p \in 1 .. N : f[k][1] = s[p]
    BY <1>3
  <2>2. s[p] \in Makers(b, t)
    BY <1>5
  <2> QED BY <2>1, <2>2 DEF Makers, Candidate
<1>7. PriorityIn(b, t, f)
  <2>1. TakenBy(f, Len(f)) <= t.qty
    <3>1. TakenBy(f, l) \in Nat
      <4>1. l \in 0 .. Len(f)
        BY <1>4 DEF l
      <4> QED BY <1>3, <4>1, TakenNat
    <3>2. t.qty \in Nat
      BY DEF DarkTaker
    <3> QED BY <1>3, <3>1, <3>2 DEF l
  <2>2. ASSUME NEW k \in 1 .. l, NEW i \in DarkSlots, Candidate(b[i], t), Better(b[i], b[f[k][1]], t)
        PROVE  Spent(b, t, f, k, i)
    <3>1. PICK p \in 1 .. N : f[k][1] = s[p] /\ \A j \in 1 .. p - 1 : Spent(b, t, f, k, s[j])
      BY <1>3
    <3>2. i \in Makers(b, t)
      BY <2>2 DEF Makers
    <3>3. PICK j \in 1 .. N : s[j] = i
      BY <1>2, <3>2 DEF Sequenced
    <3>4. j < p
      BY <1>2, <2>2, <3>1, <3>3 DEF Sequenced
    <3>5. j \in 1 .. p - 1
      BY <1>5, <3>4
    <3> QED BY <3>1, <3>3, <3>5
  <2> QED BY <1>4, <2>1, <2>2 DEF PriorityIn
<1>8. ASSUME NEW x \in DarkSlots, b[x].active
      PROVE  /\ Stayed(b, f, x) \in Nat /\ FilledAt(f, x) \in Nat
             /\ Stayed(b, f, x) = 0 => \E k \in 1 .. l : f[k][1] = x
  <2>1. FilledAt(f, x) \in Nat /\ FilledAt(f, x) <= b[x].qty /\ b[x].qty \in Nat \ {0}
    BY <1>3, <1>8, AtIs, BookIs
  <2>2. ASSUME \A k \in 1 .. l : f[k][1] # x PROVE FilledAt(f, x) = 0
    <3>1. SharesAt(f, x) \in Seq(Nat) /\ Len(SharesAt(f, x)) = l /\ FilledAt(f, x) = Total(SharesAt(f, x))
      BY <1>3, AtIs DEF l
    <3>2. \A k \in 1 .. l : SharesAt(f, x)[k] = 0
      BY <2>2 DEF SharesAt, l
    <3> QED BY <3>1, <3>2, TotalZero
  <2> QED BY <2>1, <2>2 DEF Stayed
<1>9. ASSUME NEW n
      PROVE  /\ Total(TimesAt(b, f, n)) \in Nat
             /\ (\A x \in DarkSlots : b[x].active => b[x].ts # n) => Total(TimesAt(b, f, n)) = 0
  <2> DEFINE u == TimesAt(b, f, n)
  <2>1. u \in [1 .. l -> Nat]
    BY <1>4 DEF TimesAt, l
  <2>2. u \in Seq(Nat) /\ Len(u) = l
    <3> HIDE DEF u
    <3> QED BY <1>4, <2>1 DEF Seq
  <2>3. ASSUME \A x \in DarkSlots : b[x].active => b[x].ts # n PROVE \A k \in 1 .. l : u[k] = 0
    BY <1>6, <2>3 DEF TimesAt, l
  <2> HIDE DEF u
  <2>4. Total(u) \in Nat
    BY <2>2, TotalNat
  <2>5. (\A x \in DarkSlots : b[x].active => b[x].ts # n) => Total(u) = 0
    BY <2>2, <2>3, TotalZero
  <2> QED BY <2>4, <2>5 DEF u
<1>10. ASSUME NEW x \in DarkSlots, b[x].active PROVE Total(TimesAt(b, f, b[x].ts)) = FilledAt(f, x)
  <2>1. \A k \in 1 .. l : b[f[k][1]].ts = b[x].ts <=> f[k][1] = x
    BY <1>6, <1>10 DEF BookOK
  <2>2. TimesAt(b, f, b[x].ts) = SharesAt(f, x)
    BY <2>1 DEF TimesAt, SharesAt, l
  <2> QED BY <1>3, <2>2, AtIs
<1>11. CrossOK(b, t, f)
  BY <1>3, <1>6, <1>7, <1>8, <1>9, <1>10 DEF CrossOK, l
<1> QED BY <1>11 DEF f

-----------------------------------------------------------------------------
(***************************************************************************)
(* The dark pool: its orders.                                              *)
(***************************************************************************)
LiveIn(b) == {i \in DarkSlots : b[i].active}

DarkTypes ==
    /\ BookOK(resting) /\ added \in 0 .. MaxAdded
    /\ filled \in [1 .. MaxAdded -> Nat] /\ gone \in [1 .. MaxAdded -> Nat]
    /\ \A i \in DarkSlots : resting[i].active => resting[i].ts \in 1 .. added
    /\ \A n \in 1 .. MaxAdded : n > added => filled[n] = 0 /\ gone[n] = 0

Conserved(b) ==
    \A i \in DarkSlots : b[i].active => /\ b[i].qty + filled[b[i].ts] = b[i].size
                                        /\ gone[b[i].ts] = 0

DarkInv ==
    /\ DarkTypes /\ order_count = Cardinality(LiveIn(resting)) /\ Conserved(resting)
    /\ PriorityIn(cross.before, cross.taker, cross.fills)

LEMMA LiveFinite == \A b : IsFiniteSet(LiveIn(b)) /\ Cardinality(LiveIn(b)) \in Nat
<1> TAKE b
<1>1. LiveIn(b) \in SUBSET DarkSlots
  BY DEF LiveIn
<1> QED BY <1>1, CrossingNumbers, FS_Subset, FS_CardinalityType

LEMMA DarkStarts == DarkInit => DarkInv
<1> SUFFICES ASSUME DarkInit PROVE DarkInv
  OBVIOUS
<1>1. /\ resting = [i \in DarkSlots |-> Free] /\ order_count = 0 /\ added = 0
      /\ filled = [n \in 1 .. MaxAdded |-> 0] /\ gone = [n \in 1 .. MaxAdded |-> 0]
      /\ cross = [taker |-> [qty |-> 0], before |-> << >>, fills |-> << >>]
  BY DEF DarkInit
<1>2. \A i \in DarkSlots : resting[i] = Free /\ ~resting[i].active
  BY <1>1 DEF Free
<1>3. DarkTypes
  <2>1. resting \in [DarkSlots -> DarkOrder \cup {Free}]
    BY <1>1
  <2>2. BookOK(resting)
    BY <1>2, <2>1 DEF BookOK
  <2> QED BY <1>1, <1>2, <2>2, CrossingNumbers DEF DarkTypes
<1>4. order_count = Cardinality(LiveIn(resting))
  <2>1. LiveIn(resting) = {}
    BY <1>2 DEF LiveIn
  <2> QED BY <1>1, <2>1, FS_EmptySet
<1>5. PriorityIn(cross.before, cross.taker, cross.fills)
  <2>1. cross.fills = << >> /\ cross.taker.qty = 0 /\ Len(<< >>) = 0 /\ DOMAIN << >> = {}
    BY <1>1
  <2>2. TakenBy(<< >>, 0) = 0
    <3>1. [m \in 1 .. 0 |-> << >>[m][2]] = << >>
      OBVIOUS
    <3> QED BY <3>1, TotalNone DEF TakenBy, Total
  <2> QED BY <2>1, <2>2 DEF PriorityIn
<1> QED BY <1>2, <1>3, <1>4, <1>5 DEF DarkInv, Conserved

LEMMA DarkSuffices == DarkInv => SharesConserved /\ PriorityKept
<1> SUFFICES ASSUME DarkInv PROVE SharesConserved /\ PriorityKept
  OBVIOUS
<1>1. SharesConserved
  <2>1. \A i \in DarkSlots : resting[i].active => resting[i].qty > 0
    BY BookIs DEF DarkInv, DarkTypes
  <2> QED BY <2>1 DEF DarkInv, Conserved, SharesConserved, LiveIn
<1>2. PriorityKept
  BY DEF DarkInv, PriorityIn, PriorityKept, Spent
<1> QED BY <1>1, <1>2

\* An order is offered: it takes the first free slot and the next time.
LEMMA DarkAdds ==
    ASSUME DarkInv, NEW o \in DarkOrders, add_order(o)
    PROVE  DarkInv'
<1> DEFINE free == {i \in DarkSlots : ~resting[i].active}
           z == Min(free)
           new == [active |-> TRUE, ts |-> added + 1, size |-> o.qty, firm |-> o.firm,
                   side |-> o.side, mode |-> o.mode, price |-> o.price, qty |-> o.qty,
                   min_qty |-> o.min_qty]
<1>1. /\ free # {} /\ added < MaxAdded /\ resting' = [resting EXCEPT ![z] = new]
      /\ order_count' = order_count + 1 /\ added' = added + 1
      /\ filled' = filled /\ gone' = gone /\ cross' = cross
  BY DEF add_order
<1>2. /\ BookOK(resting) /\ added \in 0 .. MaxAdded /\ filled \in [1 .. MaxAdded -> Nat]
      /\ gone \in [1 .. MaxAdded -> Nat]
      /\ \A i \in DarkSlots : resting[i].active => resting[i].ts \in 1 .. added
      /\ \A n \in 1 .. MaxAdded : n > added => filled[n] = 0 /\ gone[n] = 0
  BY DEF DarkInv, DarkTypes
<1>3. z \in free
  <2>1. free \subseteq Nat
    BY CrossingNumbers
  <2> HIDE DEF free
  <2> QED BY <1>1, <2>1, MinIn
<1>4. z \in DarkSlots /\ ~resting[z].active
  BY <1>3
<1>5. /\ new \in DarkOrder /\ new.active /\ new.ts = added + 1 /\ new.qty = new.size /\ new.qty \in Nat
      /\ added + 1 \in 1 .. MaxAdded /\ added + 1 \in 0 .. MaxAdded /\ added + 1 > added /\ added \in Nat
  <2>1. added + 1 \in Nat /\ added + 1 \in 1 .. MaxAdded /\ added + 1 > added /\ added \in Nat
    BY <1>1, <1>2, CrossingNumbers
  <2>2. o \in [firm : Nat, side : Sides, mode : {"displayed", "hidden", "midpoint"},
               price : Int, qty : Nat \ {0}, min_qty : Nat]
    BY CrossingNumbers
  <2>3. /\ o.firm \in Nat /\ o.side \in Sides /\ o.mode \in {"displayed", "hidden", "midpoint"}
        /\ o.price \in Int /\ o.qty \in Nat \ {0} /\ o.min_qty \in Nat
    BY <2>2
  <2> QED BY <2>1, <2>3 DEF DarkOrder
<1> HIDE DEF z, free, new
<1>6. resting \in [DarkSlots -> DarkOrder \cup {Free}]
  BY <1>2 DEF BookOK
<1>7. /\ resting' \in [DarkSlots -> DarkOrder \cup {Free}] /\ resting'[z] = new
      /\ \A i \in DarkSlots : i # z => resting'[i] = resting[i]
  BY <1>1, <1>4, <1>5, <1>6
<1>8. ASSUME NEW i \in DarkSlots, resting'[i].active
      PROVE  i = z \/ (i # z /\ resting'[i] = resting[i] /\ resting[i].active /\ resting[i].ts \in 1 .. added)
  BY <1>2, <1>7, <1>8
<1>9. BookOK(resting')
  <2>1. ASSUME NEW i \in DarkSlots, NEW j \in DarkSlots, resting'[i].active, resting'[j].active,
               resting'[i].ts = resting'[j].ts
        PROVE  i = j
    <3>1. CASE i = z /\ j # z
      <4>1. resting'[i].ts = added + 1 /\ resting'[j].ts \in 1 .. added
        BY <1>5, <1>7, <1>8, <2>1, <3>1
      <4> QED BY <1>5, <2>1, <4>1
    <3>2. CASE i # z /\ j = z
      <4>1. resting'[j].ts = added + 1 /\ resting'[i].ts \in 1 .. added
        BY <1>5, <1>7, <1>8, <2>1, <3>2
      <4> QED BY <1>5, <2>1, <4>1
    <3>3. CASE i # z /\ j # z
      BY <1>2, <1>7, <2>1, <3>3 DEF BookOK
    <3> QED BY <3>1, <3>2, <3>3
  <2> QED BY <1>7, <2>1 DEF BookOK
<1>10. \A i \in DarkSlots : resting'[i].active => resting'[i].ts \in 1 .. (added + 1)
  <2> SUFFICES ASSUME NEW i \in DarkSlots, resting'[i].active PROVE resting'[i].ts \in 1 .. (added + 1)
    OBVIOUS
  <2>1. resting'[i].ts = added + 1 \/ resting'[i].ts \in 1 .. added
    BY <1>5, <1>7, <1>8
  <2> QED BY <1>5, <2>1
<1>11. \A n \in 1 .. MaxAdded : n > added + 1 => filled[n] = 0 /\ gone[n] = 0
  BY <1>2, <1>5
<1>12. DarkTypes'
  BY <1>1, <1>2, <1>5, <1>9, <1>10, <1>11 DEF DarkTypes
<1>13. order_count' = Cardinality(LiveIn(resting'))
  <2>1. LiveIn(resting') = LiveIn(resting) \cup {z} /\ z \notin LiveIn(resting)
    BY <1>4, <1>5, <1>7 DEF LiveIn
  <2>2. order_count = Cardinality(LiveIn(resting))
    BY DEF DarkInv
  <2> QED BY <1>1, <2>1, <2>2, LiveFinite, FS_AddElement
<1>14. Conserved(resting)'
  <2> SUFFICES ASSUME NEW i \in DarkSlots, resting'[i].active
               PROVE  /\ resting'[i].qty + filled[resting'[i].ts] = resting'[i].size
                      /\ gone[resting'[i].ts] = 0
    BY <1>1 DEF Conserved
  <2>1. CASE i = z
    <3>1. resting'[i] = new /\ filled[added + 1] = 0 /\ gone[added + 1] = 0
      BY <1>2, <1>5, <1>7, <2>1
    <3> QED BY <1>5, <3>1
  <2>2. CASE i # z
    BY <1>8, <2>2 DEF DarkInv, Conserved
  <2> QED BY <2>1, <2>2
<1>15. PriorityIn(cross.before, cross.taker, cross.fills)'
  BY <1>1 DEF DarkInv
<1> QED BY <1>12, <1>13, <1>14, <1>15 DEF DarkInv

\* An order is cancelled: what was left of it is gone.
LEMMA DarkCancels ==
    ASSUME DarkInv, NEW z \in DarkSlots, cancel_order(z)
    PROVE  DarkInv'
<1>1. /\ resting[z].active /\ resting' = [resting EXCEPT ![z] = Free]
      /\ order_count' = order_count - 1 /\ added' = added /\ filled' = filled /\ cross' = cross
      /\ gone' = [gone EXCEPT ![resting[z].ts] = resting[z].qty]
  BY DEF cancel_order
<1>2. /\ BookOK(resting) /\ added \in 0 .. MaxAdded /\ filled \in [1 .. MaxAdded -> Nat]
      /\ gone \in [1 .. MaxAdded -> Nat]
      /\ \A i \in DarkSlots : resting[i].active => resting[i].ts \in 1 .. added
      /\ \A n \in 1 .. MaxAdded : n > added => filled[n] = 0 /\ gone[n] = 0
  BY DEF DarkInv, DarkTypes
<1>3. resting[z].ts \in 1 .. added /\ resting[z].qty \in Nat /\ resting[z].ts \in 1 .. MaxAdded
  <2>1. resting[z].ts \in 1 .. added /\ resting[z].qty \in Nat
    BY <1>1, <1>2, BookIs
  <2> QED BY <1>2, <2>1, CrossingNumbers
<1>4. resting \in [DarkSlots -> DarkOrder \cup {Free}]
  BY <1>2 DEF BookOK
<1>5. /\ resting' \in [DarkSlots -> DarkOrder \cup {Free}] /\ ~resting'[z].active
      /\ \A i \in DarkSlots : i # z => resting'[i] = resting[i]
  BY <1>1, <1>4 DEF Free
<1>6. \A i \in DarkSlots : resting'[i].active => i # z /\ resting'[i] = resting[i] /\ resting[i].active
  BY <1>5
<1>7. BookOK(resting')
  BY <1>2, <1>5, <1>6 DEF BookOK
<1>8. gone' \in [1 .. MaxAdded -> Nat] /\ \A n \in 1 .. MaxAdded : n # resting[z].ts => gone'[n] = gone[n]
  BY <1>1, <1>2, <1>3
<1>9. \A n \in 1 .. MaxAdded : n > added => filled[n] = 0 /\ gone'[n] = 0
  <2> SUFFICES ASSUME NEW n \in 1 .. MaxAdded, n > added PROVE filled[n] = 0 /\ gone'[n] = 0
    OBVIOUS
  <2>1. n # resting[z].ts
    BY <1>2, <1>3
  <2> QED BY <1>2, <1>8, <2>1
<1>10. DarkTypes'
  <2>1. \A i \in DarkSlots : resting'[i].active => resting'[i].ts \in 1 .. added
    BY <1>2, <1>6
  <2> QED BY <1>1, <1>2, <1>7, <1>8, <1>9, <2>1 DEF DarkTypes
<1>11. order_count' = Cardinality(LiveIn(resting'))
  <2>1. LiveIn(resting') = LiveIn(resting) \ {z} /\ z \in LiveIn(resting)
    BY <1>1, <1>5 DEF LiveIn
  <2>2. order_count = Cardinality(LiveIn(resting))
    BY DEF DarkInv
  <2> QED BY <1>1, <2>1, <2>2, LiveFinite, FS_RemoveElement
<1>12. Conserved(resting)'
  <2> SUFFICES ASSUME NEW i \in DarkSlots, resting'[i].active
               PROVE  /\ resting'[i].qty + filled[resting'[i].ts] = resting'[i].size
                      /\ gone'[resting'[i].ts] = 0
    BY <1>1 DEF Conserved
  <2>1. i # z /\ resting'[i] = resting[i] /\ resting[i].active
    BY <1>6
  <2>2. resting[i].ts # resting[z].ts
    BY <1>1, <1>2, <2>1 DEF BookOK
  <2>3. resting[i].ts \in 1 .. MaxAdded
    BY <1>2, <2>1, CrossingNumbers
  <2>4. gone'[resting[i].ts] = gone[resting[i].ts]
    BY <1>8, <2>2, <2>3
  <2> QED BY <2>1, <2>4 DEF DarkInv, Conserved
<1>13. PriorityIn(cross.before, cross.taker, cross.fills)'
  BY <1>1 DEF DarkInv
<1> QED BY <1>10, <1>11, <1>12, <1>13 DEF DarkInv

\* An incoming order crosses: what the fills took is filled, and the emptied slots are free.
LEMMA DarkCrosses ==
    ASSUME DarkInv, NEW t \in Takers, match_cross(t)
    PROVE  DarkInv'
<1> DEFINE f == Fills(resting, t)
           l == Len(f)
           emptied == {i \in {g[1] : g \in ToSet(f)} : Stayed(resting, f, i) = 0}
<1>1. /\ resting' = [i \in DarkSlots |->
              CASE i \in emptied -> Free
                [] ~resting[i].active -> Free
                [] OTHER -> [resting[i] EXCEPT !.qty = Stayed(resting, f, i)]]
      /\ order_count' = order_count - Cardinality(emptied)
      /\ filled' = [n \in 1 .. MaxAdded |->
              filled[n] + FoldLeft(+, 0, [k \in DOMAIN f |->
                              IF resting[f[k][1]].ts = n THEN f[k][2] ELSE 0])]
      /\ cross' = [taker |-> t, before |-> resting, fills |-> f]
      /\ added' = added /\ gone' = gone
  BY DEF match_cross, Stayed
<1>2. /\ BookOK(resting) /\ added \in 0 .. MaxAdded /\ filled \in [1 .. MaxAdded -> Nat]
      /\ gone \in [1 .. MaxAdded -> Nat]
      /\ \A i \in DarkSlots : resting[i].active => resting[i].ts \in 1 .. added
      /\ \A n \in 1 .. MaxAdded : n > added => filled[n] = 0 /\ gone[n] = 0
  BY DEF DarkInv, DarkTypes
<1>3. CrossOK(resting, t, f)
  BY <1>2, CrossingNumbers, CrossedOK
<1>4. f \in FillList /\ l \in Nat /\ DOMAIN f = 1 .. l
  BY <1>3, FillIs DEF CrossOK
<1>5. filled' = [n \in 1 .. MaxAdded |-> filled[n] + Total(TimesAt(resting, f, n))]
  BY <1>1, <1>4 DEF Total, TimesAt
<1> HIDE DEF f, l
<1>6. emptied = {i \in LiveIn(resting) : Stayed(resting, f, i) = 0}
  <2>1. {g[1] : g \in ToSet(f)} = {f[k][1] : k \in 1 .. l}
    BY <1>4 DEF ToSet
  <2>2. \A k \in 1 .. l : f[k][1] \in LiveIn(resting)
    BY <1>3 DEF CrossOK, l, Makers, Candidate, LiveIn
  <2>3. \A i \in LiveIn(resting) : Stayed(resting, f, i) = 0 => \E k \in 1 .. l : f[k][1] = i
    BY <1>3 DEF CrossOK, l, LiveIn
  <2> QED BY <2>1, <2>2, <2>3
<1> HIDE DEF emptied
<1>7. ASSUME NEW i \in DarkSlots
      PROVE  \/ resting'[i] = Free /\ ~resting'[i].active /\ (~resting[i].active \/ i \in emptied)
             \/ /\ resting[i].active /\ i \notin emptied /\ resting'[i] \in DarkOrder /\ resting'[i].active
                /\ resting'[i].ts = resting[i].ts /\ resting'[i].size = resting[i].size
                /\ resting'[i].qty = Stayed(resting, f, i)
  <2>1. CASE i \in emptied \/ ~resting[i].active
    BY <1>1, <2>1 DEF Free
  <2>2. CASE i \notin emptied /\ resting[i].active
    <3>1. resting'[i] = [resting[i] EXCEPT !.qty = Stayed(resting, f, i)]
      BY <1>1, <2>2
    <3>2. resting[i] \in DarkOrder
      BY <1>2, <2>2, BookIs
    <3>3. Stayed(resting, f, i) \in Nat \ {0}
      BY <1>3, <1>6, <2>2 DEF CrossOK, LiveIn
    <3> DEFINE q == Stayed(resting, f, i)
               r == resting[i]
    <3>4. [r EXCEPT !.qty = q] \in DarkOrder /\ [r EXCEPT !.qty = q].active /\ [r EXCEPT !.qty = q].qty = q
          /\ [r EXCEPT !.qty = q].ts = r.ts /\ [r EXCEPT !.qty = q].size = r.size
      <4>1. r \in DarkOrder /\ q \in Nat \ {0}
        BY <3>2, <3>3
      <4> HIDE DEF r, q
      <4> QED BY ONLY <4>1 DEF DarkOrder
    <3> QED BY <2>2, <3>1, <3>4
  <2> QED BY <2>1, <2>2
<1>8. resting' \in [DarkSlots -> DarkOrder \cup {Free}]
  <2>1. resting' = [i \in DarkSlots |-> resting'[i]]
    BY <1>1
  <2> QED BY <1>7, <2>1
<1>9. \A i \in DarkSlots : resting'[i].active => /\ resting[i].active /\ i \notin emptied
                                                 /\ resting'[i].ts = resting[i].ts
                                                 /\ resting'[i].size = resting[i].size
                                                 /\ resting'[i].qty = Stayed(resting, f, i)
  BY <1>7
<1>10. BookOK(resting')
  BY <1>2, <1>8, <1>9 DEF BookOK
<1>11. filled' \in [1 .. MaxAdded -> Nat] /\ \A n \in 1 .. MaxAdded : filled'[n] = filled[n] + Total(TimesAt(resting, f, n))
  <2>1. \A n : Total(TimesAt(resting, f, n)) \in Nat
    BY <1>3 DEF CrossOK
  <2> QED BY <1>2, <1>5, <2>1
<1>12. \A n \in 1 .. MaxAdded : n > added => filled'[n] = 0 /\ gone[n] = 0
  <2> SUFFICES ASSUME NEW n \in 1 .. MaxAdded, n > added PROVE filled'[n] = 0 /\ gone[n] = 0
    OBVIOUS
  <2>1. \A i \in DarkSlots : resting[i].active => resting[i].ts # n
    BY <1>2
  <2>2. Total(TimesAt(resting, f, n)) = 0
    BY <1>3, <2>1 DEF CrossOK
  <2>3. filled[n] = 0 /\ gone[n] = 0
    BY <1>2
  <2> QED BY <1>11, <2>2, <2>3
<1>13. DarkTypes'
  <2>1. \A i \in DarkSlots : resting'[i].active => resting'[i].ts \in 1 .. added
    BY <1>2, <1>9
  <2> QED BY <1>1, <1>2, <1>10, <1>11, <1>12, <2>1 DEF DarkTypes
<1>14. order_count' = Cardinality(LiveIn(resting'))
  <2>1. LiveIn(resting') = LiveIn(resting) \ emptied /\ LiveIn(resting) \cap emptied = emptied
    BY <1>6, <1>7 DEF LiveIn
  <2>2. order_count = Cardinality(LiveIn(resting))
    BY DEF DarkInv
  <2>3. Cardinality(LiveIn(resting) \ emptied)
          = Cardinality(LiveIn(resting)) - Cardinality(LiveIn(resting) \cap emptied)
    BY LiveFinite, FS_Difference
  <2> QED BY <1>1, <2>1, <2>2, <2>3
<1>15. Conserved(resting)'
  <2> SUFFICES ASSUME NEW i \in DarkSlots, resting'[i].active
               PROVE  /\ resting'[i].qty + filled'[resting'[i].ts] = resting'[i].size
                      /\ gone[resting'[i].ts] = 0
    BY <1>1 DEF Conserved
  <2>1. /\ resting[i].active /\ resting'[i].ts = resting[i].ts /\ resting'[i].size = resting[i].size
        /\ resting'[i].qty = Stayed(resting, f, i)
    BY <1>9
  <2> DEFINE n == resting[i].ts
             q == resting[i].qty
             e == FilledAt(f, i)
             h == filled[n]
  <2>2. n \in 1 .. MaxAdded
    BY <1>2, <2>1, CrossingNumbers
  <2>3. Total(TimesAt(resting, f, n)) = e /\ e \in Nat
    BY <1>3, <2>1 DEF CrossOK
  <2>4. filled'[n] = h + e /\ h \in Nat
    BY <1>2, <1>11, <2>2, <2>3
  <2>5. q + h = resting[i].size /\ gone[n] = 0
    BY <2>1 DEF DarkInv, Conserved
  <2>6. Stayed(resting, f, i) = q - e
    BY DEF Stayed
  <2>7. q \in Nat
    BY <1>2, <2>1, BookIs
  <2>8. (q - e) + (h + e) = q + h
    <3> HIDE DEF q, e, h
    <3> QED BY <2>3, <2>4, <2>7
  <2> HIDE DEF q, e, h, n
  <2>9. resting'[i].ts = n
    BY <2>1 DEF n
  <2> QED BY <2>1, <2>4, <2>5, <2>6, <2>8, <2>9
<1>16. PriorityIn(cross.before, cross.taker, cross.fills)'
  <2>1. cross'.before = resting /\ cross'.taker = t /\ cross'.fills = f
    BY <1>1
  <2> QED BY <1>3, <2>1 DEF CrossOK
<1> QED BY <1>13, <1>14, <1>15, <1>16 DEF DarkInv

LEMMA DarkKeeps ==
    ASSUME DarkInv, [DarkNext \/ AuctionNext]_crossingVars
    PROVE  DarkInv'
<1>1. CASE UNCHANGED darkVars
  BY <1>1 DEF darkVars, DarkInv, DarkTypes, BookOK, Conserved, LiveIn, PriorityIn, Spent
<1>2. AuctionNext => UNCHANGED darkVars
  BY DEF AuctionNext, auction_reset, add_auction_order
<1>3. crossingVars' = crossingVars => UNCHANGED darkVars
  BY DEF crossingVars
<1> QED BY <1>1, <1>2, <1>3, DarkAdds, DarkCancels, DarkCrosses DEF DarkNext

-----------------------------------------------------------------------------
(***************************************************************************)
(* The auction.                                                            *)
(***************************************************************************)
AuctionInv == auction \in Seq(AuctionOrders)

Terms(side, p) ==
    [k \in 1 .. Len(auction) |-> IF Meets(auction[k], side, p) THEN auction[k].qty ELSE 0]

LEMMA AuctionIs ==
    ASSUME AuctionInv
    PROVE  /\ Len(auction) \in Nat /\ DOMAIN auction = 1 .. Len(auction)
           /\ \A k \in 1 .. Len(auction) : /\ auction[k].side \in Sides /\ auction[k].price \in Int
                                           /\ auction[k].qty \in Nat /\ auction[k].is_market \in BOOLEAN
<1>1. /\ Len(auction) \in Nat /\ DOMAIN auction = 1 .. Len(auction)
      /\ \A k \in 1 .. Len(auction) : auction[k] \in AuctionOrders
  BY DEF AuctionInv
<1>2. \A o \in AuctionOrders : o.side \in Sides /\ o.price \in Int /\ o.qty \in Nat /\ o.is_market \in BOOLEAN
  BY CrossingAssumption
<1> QED BY <1>1, <1>2

LEMMA VolumeIs ==
    ASSUME AuctionInv
    PROVE  \A side, p : /\ Terms(side, p) \in Seq(Nat) /\ Len(Terms(side, p)) = Len(auction)
                        /\ Volume(side, p) = Total(Terms(side, p)) /\ Volume(side, p) \in Nat
<1> TAKE side, p
<1>1. Terms(side, p) \in [1 .. Len(auction) -> Nat]
  BY AuctionIs DEF Terms
<1>2. Terms(side, p) \in Seq(Nat) /\ Len(Terms(side, p)) = Len(auction)
  BY <1>1, AuctionIs DEF Seq
<1>3. Volume(side, p) = Total(Terms(side, p))
  BY AuctionIs DEF Volume, Total, Terms
<1> QED BY <1>2, <1>3, TotalNat

\* Whoever meets a price meets every better one: a higher price has fewer buyers
\* and more sellers.
LEMMA VolumeMoves ==
    ASSUME AuctionInv, NEW p \in Int, NEW q \in Int, p <= q
    PROVE  Volume("buy", q) <= Volume("buy", p) /\ Volume("sell", p) <= Volume("sell", q)
<1>1. ASSUME NEW k \in 1 .. Len(auction)
      PROVE  Terms("buy", q)[k] <= Terms("buy", p)[k] /\ Terms("sell", p)[k] <= Terms("sell", q)[k]
  <2>1. auction[k].price \in Int /\ auction[k].qty \in Nat
    BY AuctionIs
  <2>2. /\ Meets(auction[k], "buy", q) => Meets(auction[k], "buy", p)
        /\ Meets(auction[k], "sell", p) => Meets(auction[k], "sell", q)
    BY <2>1 DEF Meets
  <2> HIDE DEF AuctionInv
  <2> QED BY <2>1, <2>2 DEF Terms
<1>2. ASSUME NEW side PROVE /\ Terms(side, p) \in Seq(Nat) /\ Len(Terms(side, p)) = Len(auction)
                          /\ Terms(side, q) \in Seq(Nat) /\ Len(Terms(side, q)) = Len(auction)
                          /\ Volume(side, p) = Total(Terms(side, p)) /\ Volume(side, q) = Total(Terms(side, q))
  BY VolumeIs
<1>3. Len(auction) <= Len(auction)
  BY AuctionIs
<1>4. Total(Terms("buy", q)) <= Total(Terms("buy", p))
  BY ONLY <1>1, <1>2, <1>3, TotalCompares
<1>5. Total(Terms("sell", p)) <= Total(Terms("sell", q))
  BY ONLY <1>1, <1>2, <1>3, TotalCompares
<1> QED BY <1>2, <1>4, <1>5

LEMMA LevelIs ==
    ASSUME AuctionInv
    PROVE  /\ PriceLevels \subseteq Int /\ IsFiniteSet(PriceLevels)
           /\ \A k \in 1 .. Len(auction) : ~auction[k].is_market => auction[k].price \in PriceLevels
<1> DEFINE n == Len(auction)
           f == [k \in 1 .. n |-> auction[k].price]
           I == {f[k] : k \in 1 .. n}
<1>0. n \in Nat /\ IsFiniteSet(1 .. n)
  BY AuctionIs, FS_Interval
<1>1. IsFiniteSet(I)
  <2> DEFINE D == 1 .. n
  <2>1. IsFiniteSet(D) /\ f \in Surjection(D, I)
    BY <1>0 DEF Surjection
  <2> HIDE DEF D, f, I
  <2> QED BY <2>1, FS_Surjection
<1>2. ToSet(auction) = {auction[k] : k \in 1 .. n}
  BY AuctionIs DEF ToSet
<1>3. PriceLevels \in SUBSET I
  BY <1>2 DEF PriceLevels
<1>4. IsFiniteSet(PriceLevels)
  <2> HIDE DEF I
  <2> QED BY <1>1, <1>3, FS_Subset
<1>5. I \subseteq Int
  BY AuctionIs
<1>6. \A k \in 1 .. n : ~auction[k].is_market => auction[k].price \in PriceLevels
  BY <1>2 DEF PriceLevels
<1> HIDE DEF I
<1> QED BY <1>3, <1>4, <1>5, <1>6

\* Between two levels nobody joins or leaves.
LEMMA VolumeFlat ==
    ASSUME AuctionInv, NEW p \in Int, NEW q \in Int
    PROVE  /\ (\A v \in PriceLevels : v <= p <=> v <= q) => Volume("sell", p) = Volume("sell", q)
           /\ (\A v \in PriceLevels : v >= p <=> v >= q) => Volume("buy", p) = Volume("buy", q)
<1>1. ASSUME \A v \in PriceLevels : v <= p <=> v <= q PROVE Volume("sell", p) = Volume("sell", q)
  <2>1. \A k \in 1 .. Len(auction) : Meets(auction[k], "sell", p) <=> Meets(auction[k], "sell", q)
    BY <1>1, AuctionIs, LevelIs DEF Meets
  <2>2. Terms("sell", p) = Terms("sell", q)
    BY <2>1 DEF Terms
  <2> QED BY <2>2, VolumeIs
<1>2. ASSUME \A v \in PriceLevels : v >= p <=> v >= q PROVE Volume("buy", p) = Volume("buy", q)
  <2>1. \A k \in 1 .. Len(auction) : Meets(auction[k], "buy", p) <=> Meets(auction[k], "buy", q)
    BY <1>2, AuctionIs, LevelIs DEF Meets
  <2>2. Terms("buy", p) = Terms("buy", q)
    BY <2>1 DEF Terms
  <2> QED BY <2>2, VolumeIs
<1> QED BY <1>1, <1>2

LEMMA PairedIs ==
    ASSUME AuctionInv
    PROVE  \A p : /\ Paired(p) = IF Volume("buy", p) <= Volume("sell", p) THEN Volume("buy", p)
                                 ELSE Volume("sell", p)
                  /\ Paired(p) \in Nat /\ Imbalance(p) \in Int
<1> TAKE p
<1> DEFINE a == Volume("buy", p)
           b == Volume("sell", p)
<1>1. a \in Nat /\ b \in Nat
  BY VolumeIs
<1> HIDE DEF a, b
<1>2. Min({a, b}) = IF a <= b THEN a ELSE b
  BY <1>1, MinOfTwo
<1>3. Max({a, b}) \in {a, b}
  <2>1. a + b \in Nat /\ {a, b} \subseteq 0 .. a + b /\ {a, b} # {}
    BY <1>1
  <2> QED BY ONLY <2>1, MaxIn
<1>4. Min({a, b}) \in Nat /\ Max({a, b}) \in Nat /\ Max({a, b}) - Min({a, b}) \in Int
  BY <1>1, <1>2, <1>3
<1> QED BY <1>2, <1>4 DEF Paired, Imbalance, a, b

Scanned(s, n) ==
    /\ n \in Nat /\ s \in [1 .. n -> PriceLevels]
    /\ \A i, j \in 1 .. n : i < j => s[i] < s[j]
    /\ \A v \in PriceLevels : \E i \in 1 .. n : s[i] = v

\* std::sort leaves every level, the lowest first.
LEMMA LevelsSorted ==
    ASSUME AuctionInv
    PROVE  Scanned(Ascending, Cardinality(PriceLevels))
<1> DEFINE S == PriceLevels
           n == Cardinality(S)
           R == {r \in S \X S : r[1] < r[2]}
<1>1. S \subseteq Int /\ IsFiniteSet(S)
  BY LevelIs
<1> HIDE DEF S
<1>2. \A a, b \in S : <<a, b>> \in R <=> a < b
  OBVIOUS
<1> HIDE DEF R
<1>3. StrictOn(S, R)
  BY <1>1, <1>2 DEF StrictOn
<1>4. PICK u \in [1 .. n -> S] : Follows(u, n, R)
  BY <1>1, <1>3, OrderExists
<1> HIDE DEF n
<1>5. \A i, j \in DOMAIN u : i < j => u[i] < u[j]
  BY <1>2, <1>4 DEF Follows
<1>6. Ascending \in [1 .. n -> S] /\ \A i, j \in DOMAIN Ascending : i < j => Ascending[i] < Ascending[j]
  BY <1>4, <1>5 DEF Ascending, S, n
<1>7. Follows(Ascending, n, R)
  BY <1>2, <1>6 DEF Follows
<1>8. n = Cardinality(S)
  BY DEF n
<1>9. n \in Nat /\ \A a \in S : \E i \in 1 .. n : Ascending[i] = a
  BY <1>1, <1>3, <1>6, <1>7, <1>8, OrderCovers
<1>10. Scanned(Ascending, n)
  BY <1>6, <1>9 DEF Scanned, S
<1> QED BY <1>10 DEF n, S

\* Every price pairs no more than some level does.
LEMMA LevelPairsMore ==
    ASSUME AuctionInv, PriceLevels # {}, NEW p \in Int
    PROVE  \E v \in PriceLevels : Paired(p) <= Paired(v)
<1> DEFINE s == Ascending
           n == Cardinality(PriceLevels)
           low == {i \in 1 .. n : s[i] <= p}
<1>1. Scanned(s, n)
  BY LevelsSorted
<1> HIDE DEF s, n
<1>2. /\ n \in Nat /\ PriceLevels \subseteq Int /\ \A i \in 1 .. n : s[i] \in PriceLevels /\ s[i] \in Int
      /\ \A i, j \in 1 .. n : i < j => s[i] < s[j]
      /\ \A v \in PriceLevels : \E i \in 1 .. n : s[i] = v
  BY <1>1, LevelIs DEF Scanned
<1>3. ASSUME NEW v \in PriceLevels, Volume("buy", p) <= Volume("buy", v), Volume("sell", p) <= Volume("sell", v)
      PROVE  Paired(p) <= Paired(v)
  <2> DEFINE a == Volume("buy", p)
             b == Volume("sell", p)
             c == Volume("buy", v)
             d == Volume("sell", v)
  <2>1. a \in Nat /\ b \in Nat /\ c \in Nat /\ d \in Nat /\ a <= c /\ b <= d
    BY <1>3, VolumeIs
  <2>2. Paired(p) = (IF a <= b THEN a ELSE b) /\ Paired(v) = (IF c <= d THEN c ELSE d)
    BY PairedIs
  <2> HIDE DEF a, b, c, d
  <2> QED BY ONLY <2>1, <2>2
<1>4. CASE low # {}
  <2> DEFINE m == Max(low)
             v == s[m]
  <2>1. low \subseteq 0 .. n
    BY <1>2
  <2>2. m \in low /\ \A i \in low : i <= m
    <3> HIDE DEF low
    <3> QED BY <1>2, <1>4, <2>1, MaxIn
  <2> HIDE DEF m
  <2>3. m \in 1 .. n /\ v <= p /\ v \in PriceLevels /\ v \in Int
    BY <1>2, <2>2
  <2>4. ASSUME NEW x \in PriceLevels PROVE x <= p <=> x <= v
    <3>1. PICK i \in 1 .. n : s[i] = x
      BY <1>2
    <3>2. x \in Int
      BY <1>2
    <3>3. ASSUME x <= p PROVE x <= v
      <4>1. i \in low
        BY <3>1, <3>3
      <4>2. i = m \/ i < m
        BY <1>2, <2>2, <2>3, <4>1
      <4>3. i < m => s[i] < s[m]
        BY <1>2, <2>3
      <4> HIDE DEF low
      <4> QED BY <2>3, <3>1, <3>2, <4>2, <4>3
    <3> HIDE DEF v
    <3>4. ASSUME x <= v PROVE x <= p
      BY ONLY <2>3, <3>2, <3>4, p \in Int
    <3> QED BY <3>3, <3>4
  <2> HIDE DEF v
  <2>5. Volume("sell", p) = Volume("sell", v)
    BY <2>3, <2>4, VolumeFlat
  <2>6. Volume("buy", p) <= Volume("buy", v)
    BY <2>3, VolumeMoves
  <2>7. Volume("sell", p) <= Volume("sell", v)
    BY <2>5, VolumeIs
  <2> QED BY <1>3, <2>3, <2>6, <2>7
<1>5. CASE low = {}
  <2> DEFINE v == s[1]
  <2>1. 1 \in 1 .. n
    <3>1. PICK x \in PriceLevels : TRUE
      OBVIOUS
    <3>2. PICK i \in 1 .. n : s[i] = x
      BY <1>2
    <3> QED BY <1>2, <3>2
  <2>2. v \in PriceLevels /\ v \in Int /\ p <= v
    BY <1>2, <1>5, <2>1
  <2>3. ASSUME NEW x \in PriceLevels PROVE x >= p <=> x >= v
    <3>1. PICK i \in 1 .. n : s[i] = x
      BY <1>2
    <3>2. x \in Int /\ ~(x <= p)
      BY <1>2, <1>5, <3>1
    <3>3. 1 < i => s[1] < s[i]
      BY <1>2, <2>1
    <3>4. i = 1 \/ 1 < i
      BY <1>2
    <3>5. x = v \/ v < x
      BY <3>1, <3>3, <3>4
    <3> HIDE DEF v
    <3> QED BY ONLY <2>2, <3>2, <3>5, p \in Int
  <2> HIDE DEF v
  <2>4. Volume("buy", p) = Volume("buy", v)
    BY <2>2, <2>3, VolumeFlat
  <2>5. Volume("sell", p) <= Volume("sell", v)
    BY <2>2, VolumeMoves
  <2>6. Volume("buy", p) <= Volume("buy", v)
    BY <2>4, VolumeIs
  <2> QED BY <1>3, <2>2, <2>5, <2>6
<1> QED BY <1>4, <1>5

\* No level seen so far improves on the one kept.
LEMMA BestImproves ==
    ASSUME AuctionInv, PriceLevels # {}
    PROVE  Best \in PriceLevels /\ \A v \in PriceLevels : ~Improves(v, Best)
<1> DEFINE s == Ascending
           N == Cardinality(PriceLevels)
           S == PriceLevels
           V(b, i) == IF Improves(s[i], b) THEN s[i] ELSE b
           step == [i \in 1 .. N |-> [b \in S |-> V(b, i)]]
           body(g) == [r \in SUBSET (1 .. N) |-> IF r = {} THEN s[1] ELSE V(g[r \ {Max(r)}], Max(r))]
           fold == CHOOSE g : g = body(g)
<1>0. Scanned(s, N)
  BY LevelsSorted
<1>00. \A p : Paired(p) \in Int /\ Imbalance(p) \in Int
  BY PairedIs
<1> HIDE DEF N
<1>01. /\ N \in Nat /\ DOMAIN s = 1 .. N /\ (\A i \in 1 .. N : s[i] \in S)
       /\ \A v \in S : \E i \in 1 .. N : s[i] = v
  BY <1>0 DEF Scanned
<1>02. 1 \in 1 .. N /\ s[1] \in S
  <2>1. PICK v \in S : TRUE
    OBVIOUS
  <2>2. PICK i \in 1 .. N : s[i] = v
    BY <1>01
  <2> QED BY <1>01, <2>2
<1>1. \A r \in SUBSET (1 .. N) : r # {} => Max(r) \in r
  <2> TAKE r \in SUBSET (1 .. N)
  <2>1. r \subseteq 0 .. N
    BY <1>01
  <2> QED BY <1>01, <2>1, MaxIn
<1>3. \A b \in S, i \in 1 .. N : V(b, i) \in S
  BY <1>01
<1>4. Best = fold[1 .. N]
  BY <1>01 DEF Best, FoldLeft, MapThenFoldSet
<1> HIDE DEF V, s, S
<1>5. step \in [1 .. N -> [S -> S]]
  BY <1>3
<1>6. PICK f : Folds(f, step, s[1], S, N)
  <2> HIDE DEF step
  <2> QED BY ONLY <1>01, <1>02, <1>5, FoldsExist
<1>7. f = body(f)
  <2>1. ASSUME NEW r \in SUBSET (1 .. N) PROVE f[r] = body(f)[r]
    <3>1. CASE r = {}
      BY <1>6, <3>1 DEF Folds
    <3>2. CASE r # {}
      <4>1. Max(r) \in 1 .. N /\ r \ {Max(r)} \in SUBSET (1 .. N)
        BY <1>1, <3>2
      <4>2. f[r \ {Max(r)}] \in S /\ f[r] = step[Max(r)][f[r \ {Max(r)}]]
        BY <1>6, <3>2, <4>1 DEF Folds
      <4>3. step[Max(r)][f[r \ {Max(r)}]] = V(f[r \ {Max(r)}], Max(r))
        BY <4>1, <4>2
      <4> QED BY <3>2, <4>2, <4>3
    <3> QED BY <3>1, <3>2
  <2> QED BY <1>6, <2>1 DEF Folds
<1>8. fold = body(fold)
  <2> HIDE DEF body
  <2> QED BY <1>7
<1> HIDE DEF fold
<1>9. fold[1 .. 0] = s[1]
  <2>1. 1 .. 0 = {}
    OBVIOUS
  <2> QED BY <1>8, <2>1
<1>10. ASSUME NEW n \in 1 .. N PROVE fold[1 .. n] = V(fold[1 .. (n - 1)], n)
  <2>1. \A i \in 1 .. n : i \in 1 .. N
    BY <1>01
  <2>2. n \in 1 .. n /\ n \in Nat \ {0}
    BY <1>01
  <2>3. fold[1 .. n] = V(fold[(1 .. n) \ {Max(1 .. n)}], Max(1 .. n))
    BY <1>8, <2>1, <2>2
  <2> QED BY <2>2, <2>3, MaxPrefix
<1> DEFINE Kept(n, b) == b \in S /\ \A i \in 1 .. n : ~Improves(s[i], b)
           T == {n \in Nat : n <= N => Kept(n, fold[1 .. n])}
<1>11. 0 \in T
  BY <1>9, <1>02
<1>12. ASSUME NEW n \in Nat, n \in T PROVE n + 1 \in T
  <2> SUFFICES ASSUME n + 1 <= N PROVE Kept(n + 1, fold[1 .. (n + 1)])
    OBVIOUS
  <2>1. n + 1 \in 1 .. N /\ (n + 1) - 1 = n /\ n <= N
    BY <1>01
  <2> DEFINE b == fold[1 .. n]
             x == s[n + 1]
             y == fold[1 .. (n + 1)]
  <2>2. y = IF Improves(x, b) THEN x ELSE b
    BY <1>10, <2>1 DEF V
  <2>3. Kept(n, b)
    BY <1>12, <2>1
  <2>4. x \in S
    BY <1>01, <2>1
  <2> HIDE DEF b, x, y
  <2>5. y \in S
    BY <2>2, <2>3, <2>4
  <2>6. ~Improves(x, y)
    <3>1. ~Improves(x, x)
      BY <1>00 DEF Improves
    <3> QED BY <2>2, <3>1
  <2>7. ASSUME NEW i \in 1 .. n PROVE ~Improves(s[i], y)
    <3>1. ~Improves(s[i], b)
      BY <2>3
    <3>2. Improves(x, b) => ~Improves(s[i], x)
      BY <1>00, <3>1 DEF Improves
    <3> QED BY <2>2, <3>1, <3>2
  <2>8. \A i \in 1 .. (n + 1) : i \in 1 .. n \/ s[i] = x
    BY DEF x
  <2>9. Kept(n + 1, y)
    BY <2>5, <2>6, <2>7, <2>8
  <2> QED BY <2>9 DEF y
<1>13. \A n \in Nat : n \in T
  <2> HIDE DEF T
  <2> QED BY <1>11, <1>12, NatSetInduction
<1>14. Kept(N, fold[1 .. N])
  BY <1>01, <1>13
<1> QED BY <1>01, <1>4, <1>14 DEF S

\* compute_noii's scan of the orders' own prices finds the best price there is.
LEMMA AuctionSuffices == AuctionInv => AuctionPairsMost
<1> SUFFICES ASSUME AuctionInv, PriceLevels # {}
             PROVE  /\ \A p \in AuctionPrices : Paired(p) <= compute_noii.paired
                    /\ \A p \in PriceLevels : Paired(p) = compute_noii.paired =>
                                                  compute_noii.imbalance <= Imbalance(p)
  BY DEF AuctionPairsMost
<1>1. compute_noii.paired = Paired(Best) /\ compute_noii.imbalance = Imbalance(Best)
  BY DEF compute_noii
<1>2. Best \in PriceLevels /\ \A v \in PriceLevels : ~Improves(v, Best)
  BY BestImproves
<1>3. \A p : Paired(p) \in Int /\ Imbalance(p) \in Int
  BY PairedIs
<1>4. \A v \in PriceLevels : /\ Paired(v) <= Paired(Best)
                             /\ Paired(v) = Paired(Best) => Imbalance(Best) <= Imbalance(v)
  BY <1>2, <1>3 DEF Improves
<1>5. ASSUME NEW p \in AuctionPrices PROVE Paired(p) <= Paired(Best)
  <2>1. p \in Int
    BY CrossingAssumption
  <2>2. PICK v \in PriceLevels : Paired(p) <= Paired(v)
    BY <2>1, LevelPairsMore
  <2>3. Paired(v) <= Paired(Best) /\ Paired(p) \in Int /\ Paired(v) \in Int /\ Paired(Best) \in Int
    BY <1>3, <1>4
  <2> QED BY ONLY <2>2, <2>3
<1> QED BY <1>1, <1>4, <1>5

LEMMA AuctionKeeps ==
    ASSUME AuctionInv, [DarkNext \/ AuctionNext]_crossingVars
    PROVE  AuctionInv'
<1>1. CASE auction' = auction
  BY <1>1 DEF AuctionInv
<1>2. DarkNext => auction' = auction
  BY DEF DarkNext, add_order, cancel_order, match_cross
<1>3. AuctionNext => AuctionInv'
  <2>1. << >> \in Seq(AuctionOrders) /\ \A o \in AuctionOrders : Append(auction, o) \in Seq(AuctionOrders)
    BY DEF AuctionInv
  <2>2. AuctionNext => auction' = << >> \/ \E o \in AuctionOrders : auction' = Append(auction, o)
    BY DEF AuctionNext, auction_reset, add_auction_order
  <2> QED BY <2>1, <2>2 DEF AuctionInv
<1>4. crossingVars' = crossingVars => auction' = auction
  BY DEF crossingVars
<1> QED BY <1>1, <1>2, <1>3, <1>4

LEMMA CrossingSteps == [Next]_vars => [DarkNext \/ AuctionNext]_crossingVars
BY DEF vars, allVars, Next, Alone, Encodings, Tables, Limits, Trails_, Metrics, Conditional,
       Venues, Sessions, crossingVars

\* CrossingSound, for every pool size, fill bound, taker and auction of luv_dark_pool.hpp
\* and luv_auction.hpp: after every sequence of orders, cancels and crosses no share is
\* lost or made, every fill kept price, display and time, and the indicative price
\* pairs as much as any price could.
THEOREM CrossingHolds == Spec => []CrossingSound
<1>1. Init => DarkInv /\ AuctionInv
  <2>1. CrossingInit => DarkInv /\ AuctionInv
    BY DarkStarts DEF CrossingInit, AuctionInv
  <2> QED BY <2>1 DEF Init
<1>2. (DarkInv /\ AuctionInv) /\ [Next]_vars => (DarkInv /\ AuctionInv)'
  BY CrossingSteps, DarkKeeps, AuctionKeeps
<1>3. DarkInv /\ AuctionInv => CrossingSound
  BY DarkSuffices, AuctionSuffices DEF CrossingSound
<1> QED BY <1>1, <1>2, <1>3, PTL DEF Spec
=============================================================================
