------------------------------ MODULE JobQueue ------------------------------
(***************************************************************************)
(* The durable job queue of app/jobs.py: rows of the SQLite table `jobs`,  *)
(* the thread pool that executes them, the sweeper thread that re-offers   *)
(* due rows, the request threads that stage, retry and dispatch, and the   *)
(* start, stop and death of the one process that holds all the volatile    *)
(* parts (pool, _inflight, _futures).                                      *)
(*                                                                         *)
(* Every database statement is one step (SQLite serialises writers and     *)
(* each statement here is its own transaction); everything between two     *)
(* statements can be interleaved or cut off by a crash.                    *)
(***************************************************************************)
EXTENDS Naturals, FiniteSets

CONSTANTS
  Jobs,         \* rows of the jobs table
  Primary,      \* the rows whose kind is in PRIMARY_ASSET_JOB_KINDS
  Workers,      \* threads of the ThreadPoolExecutor
  Callers,      \* request threads that stage, retry and dispatch
  Sweeper,      \* the mise-job-sweep thread
  Main,         \* the thread that runs start() and stop()
  NoJob,        \* "no job": a null value
  MaxAttempts,  \* jobs.MAX_ATTEMPTS
  MaxCrashes,   \* bound: how often the process is killed
  MaxStops,     \* bound: how often the process is stopped cleanly
  MaxRetries,   \* bound: how often the operator presses retry
  MaxFaults,    \* bound: how often a database write raises
  MaxSpoilt     \* bound: how often a job's handler raises with its effect done

ASSUME JobsAssumption == NoJob \notin Jobs /\ Primary \subseteq Jobs
ASSUME ThreadsAssumption ==
  Sweeper \notin Callers /\ Main \notin Callers /\ Sweeper # Main
ASSUME BoundsAssumption ==
  /\ MaxAttempts \in Nat \ {0}
  /\ MaxCrashes \in Nat /\ MaxStops \in Nat
  /\ MaxRetries \in Nat /\ MaxFaults \in Nat /\ MaxSpoilt \in Nat

Threads == Callers \cup {Sweeper, Main}

-----------------------------------------------------------------------------
VARIABLES
  \* durable: the jobs and assets tables
  status,       \* jobs.status; "absent" before the insert, "pruned" after the delete
  attempts,     \* jobs.attempts
  wait,         \* jobs.next_attempt_at: NULL, still in the future, or reached
  asset,        \* assets.status of the asset a primary job ingests
  \* volatile: lost with the process
  proc,         \* life of the process
  pool,         \* the module global _pool
  inflight,     \* the module global _inflight
  offers,       \* submissions of each job waiting in the executor
  pc, job, tries,    \* each worker: its place in _execute, its job, job["attempts"]
  tpc, todo, cur,    \* each dispatching thread: its place, the ids left, the id in hand
  \* history and budgets
  effects,      \* how often the job's side effect has happened
  spoilt,       \* in how many of its attempts the handler raised after the effect
  crashes, stops, retries, faults

table  == <<status, attempts, wait>>
exec   == <<pc, job, tries>>
disp   == <<tpc, todo, cur>>
budget == <<crashes, stops, retries, faults>>
performed == <<effects, spoilt>>
vars   == <<table, asset, proc, pool, inflight, offers, exec, disp, performed, budget>>

Init ==
  /\ status = [j \in Jobs |-> "absent"]
  /\ attempts = [j \in Jobs |-> 0]
  /\ wait = [j \in Jobs |-> "null"]
  /\ asset = [j \in Primary |-> "processing"]
  /\ proc = "down"
  /\ pool = "none"
  /\ inflight = {}
  /\ offers = [j \in Jobs |-> 0]
  /\ pc = [w \in Workers |-> "idle"]
  /\ job = [w \in Workers |-> NoJob]
  /\ tries = [w \in Workers |-> 0]
  /\ tpc = [t \in Threads |-> "idle"]
  /\ todo = [t \in Threads |-> {}]
  /\ cur = [t \in Threads |-> NoJob]
  /\ effects = [j \in Jobs |-> 0] /\ spoilt = [j \in Jobs |-> 0]
  /\ crashes = 0 /\ stops = 0 /\ retries = 0 /\ faults = 0

\* Mutants of Due: a claim that takes a running row; a clock that never runs.
DueOrRunning == {j \in Jobs : status[j] \in {"queued", "running"} /\ wait[j] # "future"}
DueFreshOnly == {j \in Jobs : status[j] = "queued" /\ wait[j] = "null"}

\* The rows _due_job_ids returns, and the rows _claim accepts.
Due == {j \in Jobs : status[j] = "queued" /\ wait[j] # "future"}

\* A worker between its claim and the write that records the outcome.
Executing(w) == pc[w] \in {"run", "ok", "bad"}

\* Spend one of the bounded database failures.
Fault == faults < MaxFaults /\ faults' = faults + 1

-----------------------------------------------------------------------------
(* dispatch(): mark the id in flight, then submit it, one id after another *)

BeginDispatch(t, ids) ==
  /\ tpc' = [tpc EXCEPT ![t] = "enter"]
  /\ todo' = [todo EXCEPT ![t] = ids]
  /\ UNCHANGED cur

\* No pool to offer to, or nothing left to offer.
DispatchEnd(t) ==
  /\ \/ tpc[t] = "enter" /\ (pool = "none" \/ todo[t] = {})
     \/ tpc[t] = "more" /\ todo[t] = {}
  /\ tpc' = [tpc EXCEPT ![t] = "idle"]
  /\ todo' = [todo EXCEPT ![t] = {}]
  /\ UNCHANGED <<cur, table, asset, proc, pool, inflight, offers, exec, performed, budget>>

\* The pool is read once, on entry: a later id is marked whatever became of it.
DispatchMark(t) ==
  /\ \/ tpc[t] = "enter" /\ pool = "live"
     \/ tpc[t] = "more"
  /\ \E j \in todo[t] :
       /\ inflight' = inflight \cup {j}
       /\ cur' = [cur EXCEPT ![t] = j]
       /\ todo' = [todo EXCEPT ![t] = @ \ {j}]
  /\ tpc' = [tpc EXCEPT ![t] = "submit"]
  /\ UNCHANGED <<table, asset, proc, pool, offers, exec, performed, budget>>

DispatchSubmit(t) ==
  /\ tpc[t] = "submit"
  /\ pool = "live"
  /\ offers' = [offers EXCEPT ![cur[t]] = @ + 1]
  /\ tpc' = [tpc EXCEPT ![t] = "more"]
  /\ cur' = [cur EXCEPT ![t] = NoJob]
  /\ UNCHANGED <<todo, table, asset, proc, pool, inflight, exec, performed, budget>>

\* pool.submit raises RuntimeError after shutdown: release the id and give up.
DispatchRefused(t) ==
  /\ tpc[t] = "submit"
  /\ pool = "none"
  /\ inflight' = inflight \ {cur[t]}
  /\ tpc' = [tpc EXCEPT ![t] = "idle"]
  /\ todo' = [todo EXCEPT ![t] = {}]
  /\ cur' = [cur EXCEPT ![t] = NoJob]
  /\ UNCHANGED <<table, asset, proc, pool, offers, exec, performed, budget>>

Dispatch(t) ==
  DispatchEnd(t) \/ DispatchMark(t) \/ DispatchSubmit(t) \/ DispatchRefused(t)

-----------------------------------------------------------------------------
(* Request threads *)

\* Requests are served once the lifespan startup is over.
Serving(c) == proc # "down" /\ tpc[Main] = "idle" /\ tpc[c] = "idle"

\* One transaction inserts the rows (and, for uploads, their assets).
StageCommit(c) ==
  /\ Serving(c)
  /\ \E S \in (SUBSET {j \in Jobs : status[j] = "absent"}) \ {{}} :
       /\ status' = [j \in Jobs |-> IF j \in S THEN "queued" ELSE status[j]]
       /\ BeginDispatch(c, S)
  /\ UNCHANGED <<attempts, wait, asset, proc, pool, inflight, offers, exec, performed, budget>>

\* Mutant of Retryable: retry() takes a finished row too.
RetryableAlsoDone(j) == status[j] \in {"failed", "done"}

\* A failed row, or one parked behind its backoff.
Retryable(j) ==
  \/ status[j] = "failed"
  \/ status[j] = "queued" /\ wait[j] # "null"

\* The operator's "run now".
Retry(c) ==
  /\ Serving(c)
  /\ retries < MaxRetries
  /\ \E j \in Jobs :
       /\ Retryable(j)
       /\ status' = [status EXCEPT ![j] = "queued"]
       /\ attempts' = [attempts EXCEPT ![j] = 0]
       /\ wait' = [wait EXCEPT ![j] = "null"]
       /\ BeginDispatch(c, {j})
  /\ retries' = retries + 1
  /\ UNCHANGED <<asset, proc, pool, inflight, offers, exec, performed, crashes, stops, faults>>

\* Mutant of Prunable: every terminal row ages out.
PrunableTerminal == {j \in Jobs : status[j] \in {"done", "failed"}}

Prunable == {j \in Jobs : status[j] = "done"}

\* The hourly prune drops finished rows past their retention, and only those.
PruneDone ==
  /\ proc = "up" /\ tpc[Main] = "idle"
  /\ \E S \in (SUBSET Prunable) \ {{}} :
       status' = [j \in Jobs |-> IF j \in S THEN "pruned" ELSE status[j]]
  /\ UNCHANGED <<attempts, wait, asset, proc, pool, inflight, offers, exec, disp,
                 performed, budget>>

-----------------------------------------------------------------------------
(* The sweeper: read the due rows, drop those in flight, dispatch the rest *)

\* A scan that finds nothing due changes nothing.
SweepScan ==
  /\ pool = "live" /\ tpc[Main] = "idle" /\ tpc[Sweeper] = "idle"
  /\ Due # {}
  /\ tpc' = [tpc EXCEPT ![Sweeper] = "filter"]
  /\ todo' = [todo EXCEPT ![Sweeper] = Due]
  /\ UNCHANGED <<cur, table, asset, proc, pool, inflight, offers, exec, performed, budget>>

SweepFilter ==
  /\ tpc[Sweeper] = "filter"
  /\ BeginDispatch(Sweeper, todo[Sweeper] \ inflight)
  /\ UNCHANGED <<table, asset, proc, pool, inflight, offers, exec, performed, budget>>

\* datetime('now') passes next_attempt_at.
BackoffElapses(j) ==
  /\ status[j] = "queued" /\ wait[j] = "future"
  /\ wait' = [wait EXCEPT ![j] = "past"]
  /\ UNCHANGED <<status, attempts, asset, proc, pool, inflight, offers, exec, disp,
                 performed, budget>>

-----------------------------------------------------------------------------
(* Workers: _claim and _execute *)

Goto(w, place) == pc' = [pc EXCEPT ![w] = place]

Take(w, j) ==
  /\ pc[w] = "idle" /\ offers[j] > 0
  /\ offers' = [offers EXCEPT ![j] = @ - 1]
  /\ Goto(w, "claim")
  /\ job' = [job EXCEPT ![w] = j]
  /\ UNCHANGED <<tries, table, asset, proc, pool, inflight, disp, performed, budget>>

\* The single queued -> running gate.
Claim(w) ==
  LET j == job[w] IN
  /\ pc[w] = "claim" /\ j \in Due
  /\ status' = [status EXCEPT ![j] = "running"]
  /\ attempts' = [attempts EXCEPT ![j] = @ + 1]
  /\ tries' = [tries EXCEPT ![w] = attempts[j] + 1]
  /\ Goto(w, "run")
  /\ UNCHANGED <<wait, job, asset, proc, pool, inflight, offers, disp, performed, budget>>

\* Nothing to claim, or the claiming statement itself raised.
ClaimNothing(w) ==
  /\ pc[w] = "claim"
  /\ \/ job[w] \notin Due /\ UNCHANGED faults
     \/ job[w] \in Due /\ Fault
  /\ Goto(w, "release")
  /\ UNCHANGED <<job, tries, table, asset, proc, pool, inflight, offers, disp,
                 performed, crashes, stops, retries>>

\* Mutant of Readied: the handler forgets its last statement.
ReadiedNone(j) == asset

Readied(j) == [i \in Primary |-> IF i = j THEN "ready" ELSE asset[i]]

\* The handler returns; a primary handler's last statement readies the asset.
HandlerReturns(w) ==
  LET j == job[w] IN
  /\ pc[w] = "run"
  /\ effects' = [effects EXCEPT ![j] = @ + 1]
  /\ asset' = Readied(j)
  /\ Goto(w, "ok")
  /\ UNCHANGED <<spoilt, job, tries, table, proc, pool, inflight, offers, disp, budget>>

\* The handler raises, before its effect or after it (a relay that takes a mail
\* and then times out, a stamp that fails).
HandlerRaises(w) ==
  LET j == job[w] IN
  /\ pc[w] = "run"
  /\ \/ UNCHANGED performed
     \/ /\ spoilt[j] < MaxSpoilt
        /\ effects' = [effects EXCEPT ![j] = @ + 1]
        /\ spoilt' = [spoilt EXCEPT ![j] = @ + 1]
  /\ Goto(w, "bad")
  /\ UNCHANGED <<job, tries, table, asset, proc, pool, inflight, offers, disp, budget>>

RecordDone(w) ==
  LET j == job[w] IN
  /\ pc[w] = "ok"
  /\ status' = [status EXCEPT ![j] = "done"]
  /\ wait' = [wait EXCEPT ![j] = "null"]
  /\ Goto(w, "release")
  /\ UNCHANGED <<attempts, job, tries, asset, proc, pool, inflight, offers, disp,
                 performed, budget>>

\* The "done" write raises inside the try, so the attempt counts as failed.
RecordDoneFault(w) ==
  /\ pc[w] = "ok" /\ Fault
  /\ Goto(w, "bad")
  /\ UNCHANGED <<job, tries, table, asset, proc, pool, inflight, offers, disp,
                 performed, crashes, stops, retries>>

\* Mutant of LastTry: one attempt too many.
LastTryLate(w) == tries[w] > MaxAttempts

LastTry(w) == tries[w] >= MaxAttempts

\* Park behind the backoff, or give up on the last attempt.
RecordFailure(w) ==
  LET j == job[w]  last == LastTry(w) IN
  /\ pc[w] = "bad"
  /\ status' = [status EXCEPT ![j] = IF last THEN "failed" ELSE "queued"]
  /\ wait' = [wait EXCEPT ![j] = IF last THEN "null" ELSE "future"]
  /\ Goto(w, IF last /\ j \in Primary THEN "mark" ELSE "release")
  /\ UNCHANGED <<attempts, job, tries, asset, proc, pool, inflight, offers, disp,
                 performed, budget>>

\* The recording write raises: the row stays 'running' with nobody running it.
RecordFailureFault(w) ==
  /\ pc[w] = "bad" /\ Fault
  /\ Goto(w, "release")
  /\ UNCHANGED <<job, tries, table, asset, proc, pool, inflight, offers, disp,
                 performed, crashes, stops, retries>>

\* A second transaction marks the asset of a primary job that gave up; if it
\* raises, the asset keeps its status beside a failed job.
MarkAsset(w) ==
  /\ pc[w] = "mark"
  /\ \/ asset' = [asset EXCEPT ![job[w]] = "failed"] /\ UNCHANGED faults
     \/ Fault /\ UNCHANGED asset
  /\ Goto(w, "release")
  /\ UNCHANGED <<job, tries, table, proc, pool, inflight, offers, disp, performed,
                 crashes, stops, retries>>

\* Mutant of Freed: the id is released only by a worker that claimed the row.
FreedIfClaimed(w) == IF tries[w] > 0 THEN inflight \ {job[w]} ELSE inflight

Freed(w) == inflight \ {job[w]}

\* The finally clause.
Release(w) ==
  /\ pc[w] = "release"
  /\ inflight' = Freed(w)
  /\ Goto(w, "idle")
  /\ job' = [job EXCEPT ![w] = NoJob]
  /\ tries' = [tries EXCEPT ![w] = 0]
  /\ UNCHANGED <<table, asset, proc, pool, offers, disp, performed, budget>>

Execute(w) ==
  \/ Claim(w) \/ ClaimNothing(w) \/ HandlerReturns(w) \/ HandlerRaises(w)
  \/ RecordDone(w) \/ RecordDoneFault(w) \/ RecordFailure(w) \/ RecordFailureFault(w)
  \/ MarkAsset(w) \/ Release(w)

-----------------------------------------------------------------------------
(* The life of the process *)

\* start(): rows left running go back to queued, and the due backlog is offered.
Start ==
  /\ proc = "down"
  /\ proc' = "up" /\ pool' = "live"
  /\ status' = [j \in Jobs |-> IF status[j] = "running" THEN "queued" ELSE status[j]]
  /\ BeginDispatch(Main, {j \in Jobs : status'[j] = "queued" /\ wait[j] # "future"})
  /\ UNCHANGED <<attempts, wait, asset, inflight, offers, exec, performed, budget>>

\* stop(): first the pool goes and its waiting submissions are cancelled ...
StopPool ==
  /\ proc = "up" /\ tpc[Main] = "idle" /\ stops < MaxStops
  /\ proc' = "stopping" /\ pool' = "none"
  /\ offers' = [j \in Jobs |-> 0]
  /\ stops' = stops + 1
  /\ UNCHANGED <<table, asset, inflight, exec, disp, performed, crashes, retries, faults>>

\* ... then the ids of the cancelled submissions are released.
StopClear ==
  /\ proc = "stopping"
  /\ proc' = "stopped" /\ inflight' = {}
  /\ UNCHANGED <<table, asset, pool, offers, exec, disp, performed, budget>>

Die ==
  /\ proc' = "down" /\ pool' = "none"
  /\ inflight' = {}
  /\ offers' = [j \in Jobs |-> 0]
  /\ pc' = [w \in Workers |-> "idle"]
  /\ job' = [w \in Workers |-> NoJob]
  /\ tries' = [w \in Workers |-> 0]
  /\ tpc' = [t \in Threads |-> "idle"]
  /\ todo' = [t \in Threads |-> {}]
  /\ cur' = [t \in Threads |-> NoJob]
  /\ UNCHANGED <<table, asset, performed>>

\* The interpreter joins the executor's threads before it exits.
Exit ==
  /\ proc = "stopped"
  /\ \A w \in Workers : pc[w] = "idle"
  /\ Die
  /\ UNCHANGED budget

\* A kill, at any point.
Crash ==
  /\ proc # "down" /\ crashes < MaxCrashes
  /\ Die
  /\ crashes' = crashes + 1
  /\ UNCHANGED <<stops, retries, faults>>

Next ==
  \/ \E t \in Threads : Dispatch(t)
  \/ \E c \in Callers : StageCommit(c) \/ Retry(c)
  \/ PruneDone
  \/ SweepScan \/ SweepFilter
  \/ \E j \in Jobs : BackoffElapses(j)
  \/ \E w \in Workers : (\E j \in Jobs : Take(w, j)) \/ Execute(w)
  \/ Start \/ StopPool \/ StopClear \/ Exit \/ Crash

Spec == Init /\ [][Next]_vars

-----------------------------------------------------------------------------
(* Safety *)

\* Every variable stays in its type.
TypeOK ==
  /\ status \in [Jobs -> {"absent", "queued", "running", "done", "failed", "pruned"}]
  /\ attempts \in [Jobs -> Nat]
  /\ wait \in [Jobs -> {"null", "future", "past"}]
  /\ asset \in [Primary -> {"processing", "ready", "failed"}]
  /\ proc \in {"down", "up", "stopping", "stopped"}
  /\ pool \in {"none", "live"}
  /\ inflight \subseteq Jobs
  /\ offers \in [Jobs -> Nat]
  /\ pc \in [Workers -> {"idle", "claim", "run", "ok", "bad", "mark", "release"}]
  /\ job \in [Workers -> Jobs \cup {NoJob}]
  /\ tries \in [Workers -> Nat]
  /\ tpc \in [Threads -> {"idle", "filter", "enter", "submit", "more"}]
  /\ todo \in [Threads -> SUBSET Jobs]
  /\ cur \in [Threads -> Jobs \cup {NoJob}]
  /\ effects \in [Jobs -> Nat] /\ spoilt \in [Jobs -> Nat]
  /\ crashes \in Nat /\ stops \in Nat /\ retries \in Nat /\ faults \in Nat

\* No two workers are ever inside the same job, whatever the pool, the sweeper,
\* a retry and a restart have offered: the claim in _claim is the only gate.
ExclusiveExecution ==
  \A v, w \in Workers : Executing(v) /\ Executing(w) /\ job[v] = job[w] => v = w

\* The outcome writes of _execute carry no status guard, so they are right only
\* because the row is still 'running', with the attempt number the worker read
\* at its claim: nobody else requeued, retried or pruned it meanwhile.
ExecutorOwnsRow ==
  \A w \in Workers : Executing(w) =>
    status[job[w]] = "running" /\ attempts[job[w]] = tries[w]

\* An id in _inflight is on its way to a worker or with one, so the sweeper
\* never skips a due row for good. (stop() cancels submissions one statement
\* before it clears the set.)
InflightNeverLeaks ==
  proc # "stopping" =>
    \A j \in inflight :
      \/ offers[j] > 0
      \/ \E t \in Threads : tpc[t] = "submit" /\ cur[t] = j
      \/ \E w \in Workers : pc[w] # "idle" /\ job[w] = j

\* Delivery is at least once, and each repeat has a cause: a side effect happens
\* again only after an attempt whose handler raised with the effect done
\* (ops/AT-LEAST-ONCE.md:26, jobs.py:436), a crash, or a failed database write.
\* A job whose handler returned and was recorded is never performed again.
RepeatsHaveACause == \A j \in Jobs : effects[j] <= 1 + spoilt[j] + crashes + faults

\* The attempt budget: past MAX_ATTEMPTS only by way of a crash or a lost
\* outcome write, which the restart requeues without looking at attempts.
AttemptsBounded == \A j \in Jobs : attempts[j] <= MaxAttempts + crashes + faults

\* A row waiting for its backoff has failed at least once and has an attempt
\* left; terminal and running rows never carry a future next_attempt_at.
ParkedHasAttemptLeft ==
  \A j \in Jobs : wait[j] = "future" =>
    status[j] = "queued" /\ 0 < attempts[j] /\ attempts[j] < MaxAttempts
\* A primary job that is done leaves its asset ready.  With a retry this can
\* fail: an operator's retry may finish before the giving-up worker's second
\* transaction marks the asset failed.
DoneAssetIsReady ==
  retries = 0 => \A j \in Primary : status[j] \in {"done", "pruned"} => asset[j] = "ready"

-----------------------------------------------------------------------------
(* The inductive invariant *)

\* What a thread's place says about the ids it holds, and that nothing volatile
\* outlives the process.
Holding ==
  /\ \A w \in Workers : pc[w] = "idle" \/ job[w] \in Jobs
  /\ \A w \in Workers : pc[w] = "mark" => job[w] \in Primary
  /\ \A w \in Workers : Executing(w) => tries[w] > 0
  /\ \A w \in Workers : pc[w] = "ok" => effects[job[w]] > 0
  /\ \A t \in Threads : tpc[t] = "submit" => cur[t] \in Jobs
  /\ pool = "live" <=> proc = "up"
  /\ pool = "none" => \A j \in Jobs : offers[j] = 0
  /\ proc = "down" =>
       /\ \A w \in Workers : pc[w] = "idle"
       /\ \A t \in Threads : tpc[t] = "idle"
       /\ inflight = {}

\* An effect is unaccounted for only while its job is done or about to be.
EffectsAccounted ==
  \A j \in Jobs :
    \/ effects[j] <= spoilt[j] + crashes + faults
    \/ /\ effects[j] = 1 + spoilt[j] + crashes + faults
       /\ \/ status[j] \in {"done", "pruned"}
          \/ \E w \in Workers : pc[w] = "ok" /\ job[w] = j

\* A row that will be claimed again still has an attempt, counting one more for
\* every crash and fault.
AttemptsAccounted ==
  \A j \in Jobs :
    /\ attempts[j] <= MaxAttempts + crashes + faults
    /\ \/ status[j] \in {"absent", "queued"}
       \/ status[j] = "running" /\ ~ \E w \in Workers : Executing(w) /\ job[w] = j
       => attempts[j] < MaxAttempts + crashes + faults

\* While no operator retries, a worker about to record 'done' has readied its asset,
\* and one about to mark an asset failed has a row that stays failed.
ReadyInv ==
  retries = 0 =>
    /\ \A j \in Primary : status[j] \in {"done", "pruned"} => asset[j] = "ready"
    /\ \A w \in Workers : pc[w] = "ok" /\ job[w] \in Primary => asset[job[w]] = "ready"
    /\ \A w \in Workers : pc[w] = "mark" => status[job[w]] = "failed"

IInv ==
  /\ TypeOK
  /\ Holding
  /\ ExclusiveExecution
  /\ ExecutorOwnsRow
  /\ InflightNeverLeaks
  /\ EffectsAccounted
  /\ AttemptsAccounted
  /\ ParkedHasAttemptLeft
  /\ ReadyInv

-----------------------------------------------------------------------------
(* Refinement *)

DebtOf(s) ==
  CASE s = "absent" -> "none"
    [] s \in {"queued", "running"} -> "owed"
    [] s \in {"done", "pruned"} -> "kept"
    [] s = "failed" -> "given_up"

Debt == [j \in Jobs |-> DebtOf(status[j])]

Promise == INSTANCE AtLeastOnce WITH debt <- Debt, effects <- effects

\* The queue keeps the at-least-once contract: no step of any thread, and no
\* crash, forgets an owed job, calls one kept before its effect, or performs one
\* that is no longer owed.
KeepsPromise == Promise!Spec

-----------------------------------------------------------------------------
(* Fairness and progress *)

(***************************************************************************)
(* Every thread that can take a step eventually does; the clock passes a   *)
(* backoff; the service manager starts the process again.  A waiting       *)
(* submission is eventually taken by some worker because the executor's    *)
(* queue is first in, first out: strong fairness stands for that order,    *)
(* which the bag `offers` does not keep.  Nothing is assumed of the bounded*)
(* faults, retries, stops and crashes.                                     *)
(***************************************************************************)
Fairness ==
  /\ \A t \in Threads : WF_vars(Dispatch(t))
  /\ WF_vars(SweepScan) /\ WF_vars(SweepFilter)
  /\ \A j \in Jobs : WF_vars(BackoffElapses(j))
  /\ \A w \in Workers : WF_vars(Execute(w))
  /\ \A j \in Jobs : SF_vars(\E w \in Workers : Take(w, j))
  /\ WF_vars(Start) /\ WF_vars(StopClear) /\ WF_vars(Exit)

FairSpec == Spec /\ Fairness

\* Every committed row is eventually settled, whatever request died before it
\* could dispatch, however often the process is killed or stopped, and with a
\* sweep and a backoff in the way.
EveryJobSettles ==
  \A j \in Jobs :
    status[j] = "queued" ~> status[j] \in {"done", "failed", "pruned"}

\* _inflight drains: no id keeps the sweeper away from its row for ever.
InflightDrains == \A j \in Jobs : j \in inflight ~> j \notin inflight

=============================================================================
