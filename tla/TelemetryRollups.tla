-------------------------- MODULE TelemetryRollups --------------------------
(***************************************************************************)
(* The telemetry store of the portal: raw events that any API replica      *)
(* inserts, and the aggregation loop of the elected replica, which counts  *)
(* them into long-lived daily rollups and prunes the old ones, in one      *)
(* READ COMMITTED transaction per pass.                                    *)
(*                                                                         *)
(* Each statement of a pass sees what was committed when it starts: events *)
(* arrive, and the clock moves on, between two statements.  A row carries  *)
(* the client's timestamp, which nothing bounds.                           *)
(***************************************************************************)
EXTENDS Integers, FiniteSets

CONSTANTS
  ComponentKeys, \* (event, kind, namespace, name) of agg_component_daily
  StepKeys,      \* onboarding steps, the keys of agg_funnel_daily
  UnitsPerDay,   \* the grain of a timestamp
  Retention,     \* age beyond which events are pruned; 0 keeps them all
  MaxPass,       \* bound: time between the begin and the commit of a pass
  MaxTime,       \* bound: the clock, and the timestamps clients send
  MaxEvents,     \* bound: events
  MaxFaults      \* bound: failed passes, crashes, boots without a database

Keys  == ComponentKeys \union StepKeys
Times == 0..MaxTime
DayOf(t) == t \div UnitsPerDay
Days  == 0..DayOf(MaxTime)

ASSUME KeysAssumption == ComponentKeys \cap StepKeys = {}
ASSUME TimeAssumption ==
  /\ UnitsPerDay \in Nat \ {0} /\ Retention \in Nat
  /\ MaxPass \in Nat /\ MaxTime \in Nat
ASSUME CountAssumption == MaxEvents \in Nat /\ MaxFaults \in Nat

VARIABLES
  clock,     \* time.Now()
  received,  \* every row ever inserted, with the time it arrived
  events,    \* the rows of table events, as committed
  rollup,    \* rollup[k][d]: the count of k on day d; 0 when there is no row
  mode,      \* the aggregating process: live, without a store, or down
  pass,      \* the statement the pass executes next
  began,     \* when the pass began
  written,   \* the rollups as the transaction sees them
  deleted,   \* the rows the transaction has deleted
  faults     \* number of faults so far

txVars == <<pass, began, written, deleted>>
vars == <<clock, received, events, rollup, mode, txVars, faults>>

Row == [id : 1..MaxEvents, key : Keys, ts : Times, at : Times]
Counts == [Keys -> [Days -> 0..MaxEvents]]
NoCounts == [k \in Keys |-> [d \in Days |-> 0]]

TypeOK ==
  /\ clock \in Times
  /\ received \in SUBSET Row /\ events \subseteq received
  /\ rollup \in Counts
  /\ mode \in {"live", "degraded", "down"}
  /\ pass \in {"idle", "components", "funnel", "prune", "commit"}
  /\ began \in 0..clock
  /\ written \in Counts
  /\ deleted \subseteq events
  /\ faults \in 0..MaxFaults
  /\ pass = "idle" => written = rollup /\ deleted = {}

Init ==
  /\ clock = 0
  /\ received = {} /\ events = {}
  /\ rollup = NoCounts
  /\ mode = "down"
  /\ pass = "idle" /\ began = 0 /\ written = NoCounts /\ deleted = {}
  /\ faults = 0

Rows(E, k, d) == {e \in E : e.key = k /\ DayOf(e.ts) = d}
Count(E, k, d) == Cardinality(Rows(E, k, d))

\* Mutant: the cutoff is not floored to the start of its day.
CutoffExact(now) == now - Retention

\* The start of the UTC day that holds now - retention.
Cutoff(now) == DayOf(now - Retention) * UnitsPerDay

(***************************************************************************)
(* Ingest and time.                                                        *)
(***************************************************************************)
\* An event accepted by some replica whose store is up.  The others drop it.
Insert(k, t) ==
  /\ Cardinality(received) < MaxEvents
  /\ LET row == [id |-> Cardinality(received) + 1, key |-> k, ts |-> t, at |-> clock] IN
     /\ received' = received \union {row}
     /\ events' = events \union {row}
  /\ UNCHANGED <<clock, rollup, mode, txVars, faults>>

Tick ==
  /\ clock < MaxTime
  /\ pass # "idle" => clock < began + MaxPass
  /\ clock' = clock + 1
  /\ UNCHANGED <<received, events, rollup, mode, txVars, faults>>

(***************************************************************************)
(* A pass of the loop: Aggregate.                                          *)
(***************************************************************************)
\* The loop runs a pass when it starts and at every tick of its ticker.
Begin ==
  /\ mode = "live" /\ pass = "idle"
  /\ pass' = "components" /\ began' = clock
  /\ UNCHANGED <<clock, received, events, rollup, mode, written, deleted, faults>>

\* Mutant: the new count is added to the old one.
UpsertAdds(k, d) == written[k][d] + Count(events, k, d)

\* GROUP BY has a group only for the days that still have events; on a conflict
\* the new count replaces the old one, and the other rows stay.
Upsert(k, d) == IF Count(events, k, d) = 0 THEN written[k][d] ELSE Count(events, k, d)

Recount(K) ==
  written' = [k \in Keys |-> IF k \in K THEN [d \in Days |-> Upsert(k, d)] ELSE written[k]]

AggComponents ==
  /\ pass = "components"
  /\ Recount(ComponentKeys)
  /\ pass' = "funnel"
  /\ UNCHANGED <<clock, received, events, rollup, mode, began, deleted, faults>>

\* Mutant: the components again.
AggFunnelCopied ==
  /\ pass = "funnel"
  /\ Recount(ComponentKeys)
  /\ pass' = "prune"
  /\ UNCHANGED <<clock, received, events, rollup, mode, began, deleted, faults>>

AggFunnel ==
  /\ pass = "funnel"
  /\ Recount(StepKeys)
  /\ pass' = "prune"
  /\ UNCHANGED <<clock, received, events, rollup, mode, began, deleted, faults>>

\* The cutoff is computed now, not when the events were counted.
Prune ==
  /\ pass = "prune"
  /\ deleted' = IF Retention > 0 THEN {e \in events : e.ts < Cutoff(clock)} ELSE {}
  /\ pass' = "commit"
  /\ UNCHANGED <<clock, received, events, rollup, mode, began, written, faults>>

Commit ==
  /\ pass = "commit"
  /\ rollup' = written
  /\ events' = events \ deleted
  /\ pass' = "idle" /\ began' = 0 /\ deleted' = {}
  /\ UNCHANGED <<clock, received, mode, written, faults>>

Rollback == pass' = "idle" /\ began' = 0 /\ written' = rollup /\ deleted' = {}

Fault == faults < MaxFaults /\ faults' = faults + 1

\* A statement or the commit fails; the next tick retries.
PassFails ==
  /\ pass # "idle"
  /\ Fault /\ Rollback
  /\ UNCHANGED <<clock, received, events, rollup, mode>>

\* The process dies, or is told to stop and cancels the pass.
Crash ==
  /\ mode # "down"
  /\ Fault /\ Rollback
  /\ mode' = "down"
  /\ UNCHANGED <<clock, received, events, rollup>>

\* The store is opened once, at boot: without a database the loop never starts.
Boot ==
  /\ mode = "down"
  /\ \/ mode' = "live" /\ UNCHANGED faults
     \/ mode' = "degraded" /\ Fault
  /\ UNCHANGED <<clock, received, events, rollup, txVars>>

Aggregate == Begin \/ AggComponents \/ AggFunnel \/ Prune \/ Commit

Next ==
  \/ \E k \in Keys, t \in Times : Insert(k, t)
  \/ Tick
  \/ Aggregate \/ PassFails
  \/ Crash \/ Boot

Spec == Init /\ [][Next]_vars

\* The ticker fires again and again, and Kubernetes restarts the process.
FairSpec == Spec /\ WF_vars(Aggregate) /\ WF_vars(Boot)

(***************************************************************************)
(* Properties.                                                             *)
(***************************************************************************)
\* A pass that repeats, fails, overlaps the arrival of events or follows a crash
\* never counts an event twice: a rollup is at most what was received.
NothingCountedTwice ==
  \A k \in Keys, d \in Days : rollup[k][d] <= Count(received, k, d)

\* An event is tardy when its day can leave the retention before a pass that is
\* under way as it arrives has committed.
Tardy(e) == Retention > 0 /\ e.ts < Cutoff(e.at + MaxPass)
OnTime(k, d) == \A e \in Rows(received, k, d) : ~Tardy(e)

\* A day whose events were on time is retained in full, or pruned in full and
\* then counted in full: the comment on flooring the cutoff, pgx_store.go 169-174.
DayIsWhole ==
  \A k \in Keys, d \in Days :
    OnTime(k, d) =>
      \/ Rows(events, k, d) = Rows(received, k, d)
      \/ Rows(events, k, d) = {} /\ rollup[k][d] = Count(received, k, d)

\* Every event that is on time is counted in the end, unless the process that
\* aggregates came up without its database, which it never tries again.
EventuallyCounted ==
  \A k \in Keys, d \in Days :
    \/ <>[](OnTime(k, d) => rollup[k][d] = Count(received, k, d))
    \/ <>[](mode = "degraded")
=============================================================================
