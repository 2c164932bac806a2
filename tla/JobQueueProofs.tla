--------------------------- MODULE JobQueueProofs ---------------------------
(***************************************************************************)
(* Safety of the job queue for any sets of jobs, workers and callers, any  *)
(* MAX_ATTEMPTS and any number of crashes, stops, retries and failed       *)
(* writes: the inductive invariant IInv, what follows from it, and the     *)
(* refinement of the at-least-once promise.                                *)
(***************************************************************************)
EXTENDS JobQueue, TLAPS

\* Every step keeps the types.
LEMMA TypeStep ==
  TypeOK /\ Holding /\ [Next]_vars => TypeOK'
<1>. SUFFICES ASSUME TypeOK, Holding, [Next]_vars
              PROVE  TypeOK'
  OBVIOUS
<1>. USE JobsAssumption, ThreadsAssumption, BoundsAssumption DEF TypeOK, Holding,
       Threads, table, exec, disp, budget, performed
<1>1. CASE \E t \in Threads : Dispatch(t)
BY <1>1 DEF Dispatch, DispatchEnd, DispatchMark, DispatchSubmit, DispatchRefused
<1>2. CASE \E c \in Callers : StageCommit(c) \/ Retry(c)
BY <1>2 DEF StageCommit, Serving, BeginDispatch, Retry, Retryable
<1>3. CASE PruneDone \/ SweepScan \/ SweepFilter \/ \E j \in Jobs : BackoffElapses(j)
BY <1>3 DEF PruneDone, Prunable, SweepScan, Due, SweepFilter, BeginDispatch,
     BackoffElapses
<1>4. ASSUME NEW w \in Workers, \E j \in Jobs : Take(w, j)
      PROVE  TypeOK'
BY <1>4 DEF Take, Goto
<1>5. ASSUME NEW w \in Workers, Claim(w) \/ ClaimNothing(w)
      PROVE  TypeOK'
BY <1>5 DEF Claim, Goto, ClaimNothing, Fault
<1>6. ASSUME NEW w \in Workers, HandlerReturns(w) \/ HandlerRaises(w)
      PROVE  TypeOK'
BY <1>6 DEF HandlerReturns, Goto, Readied, HandlerRaises
<1>7. ASSUME NEW w \in Workers, RecordDone(w) \/ RecordDoneFault(w)
      PROVE  TypeOK'
BY <1>7 DEF RecordDone, Goto, RecordDoneFault, Fault
<1>8. ASSUME NEW w \in Workers, RecordFailure(w) \/ RecordFailureFault(w)
      PROVE  TypeOK'
BY <1>8 DEF RecordFailure, Goto, LastTry, RecordFailureFault, Fault
<1>9. ASSUME NEW w \in Workers, MarkAsset(w) \/ Release(w)
      PROVE  TypeOK'
BY <1>9 DEF MarkAsset, Goto, Release, Freed, Fault
<1>10. CASE Start \/ StopPool \/ StopClear
BY <1>10 DEF Start, BeginDispatch, StopPool, StopClear
<1>11. CASE Exit \/ Crash
BY <1>11 DEF Exit, Die, Crash
<1>12. CASE UNCHANGED vars BY <1>12 DEF vars
<1>. QED BY <1>1, <1>2, <1>3, <1>4, <1>5, <1>6, <1>7, <1>8, <1>9, <1>10, <1>11,
     <1>12 DEF Next, Execute

\* Every step keeps what a thread's place says of what it holds.
LEMMA HoldingStep ==
  TypeOK /\ Holding /\ [Next]_vars => Holding'
<1>. SUFFICES ASSUME TypeOK, Holding, [Next]_vars
              PROVE  Holding'
  OBVIOUS
<1>. USE JobsAssumption, ThreadsAssumption, BoundsAssumption DEF TypeOK, Holding,
       Executing, Threads, table, exec, disp, budget, performed
<1>1. CASE \E t \in Threads : Dispatch(t)
BY <1>1 DEF Dispatch, DispatchEnd, DispatchMark, DispatchSubmit, DispatchRefused
<1>2. CASE \E c \in Callers : StageCommit(c) \/ Retry(c)
BY <1>2 DEF StageCommit, Serving, BeginDispatch, Retry, Retryable
<1>3. CASE PruneDone \/ SweepScan \/ SweepFilter \/ \E j \in Jobs : BackoffElapses(j)
BY <1>3 DEF PruneDone, Prunable, SweepScan, Due, SweepFilter, BeginDispatch,
     BackoffElapses
<1>4. ASSUME NEW w \in Workers, \E j \in Jobs : Take(w, j)
      PROVE  Holding'
BY <1>4 DEF Take, Goto
<1>5. ASSUME NEW w \in Workers, Claim(w) \/ ClaimNothing(w)
      PROVE  Holding'
BY <1>5 DEF Claim, Goto, ClaimNothing, Fault
<1>6. ASSUME NEW w \in Workers, HandlerReturns(w) \/ HandlerRaises(w)
      PROVE  Holding'
BY <1>6 DEF HandlerReturns, Goto, Readied, HandlerRaises
<1>7. ASSUME NEW w \in Workers, RecordDone(w) \/ RecordDoneFault(w)
      PROVE  Holding'
BY <1>7 DEF RecordDone, Goto, RecordDoneFault, Fault
<1>8. ASSUME NEW w \in Workers, RecordFailure(w) \/ RecordFailureFault(w)
      PROVE  Holding'
BY <1>8 DEF RecordFailure, Goto, LastTry, RecordFailureFault, Fault
<1>9. ASSUME NEW w \in Workers, MarkAsset(w) \/ Release(w)
      PROVE  Holding'
BY <1>9 DEF MarkAsset, Goto, Release, Freed, Fault
<1>10. CASE Start \/ StopPool \/ StopClear
BY <1>10 DEF Start, BeginDispatch, StopPool, StopClear
<1>11. CASE Exit \/ Crash
BY <1>11 DEF Exit, Die, Crash
<1>12. CASE UNCHANGED vars BY <1>12 DEF vars
<1>. QED BY <1>1, <1>2, <1>3, <1>4, <1>5, <1>6, <1>7, <1>8, <1>9, <1>10, <1>11,
     <1>12 DEF Next, Execute

\* Only a claim makes a worker an executor, and it finds the row queued, which
\* no other executor's row is.
LEMMA ExclusiveStep ==
  TypeOK /\ Holding /\ ExclusiveExecution /\ ExecutorOwnsRow /\ [Next]_vars => ExclusiveExecution'
<1>. SUFFICES ASSUME TypeOK, Holding, ExclusiveExecution, ExecutorOwnsRow, [Next]_vars
              PROVE  ExclusiveExecution'
  OBVIOUS
<1>. USE JobsAssumption, ThreadsAssumption, BoundsAssumption DEF TypeOK, Holding,
       ExclusiveExecution, ExecutorOwnsRow, Executing, Due, Threads, table, exec,
       disp, budget, performed
<1>1. CASE \E t \in Threads : Dispatch(t)
BY <1>1 DEF Dispatch, DispatchEnd, DispatchMark, DispatchSubmit, DispatchRefused
<1>2. CASE \E c \in Callers : StageCommit(c) \/ Retry(c)
BY <1>2 DEF StageCommit, Serving, BeginDispatch, Retry, Retryable
<1>3. CASE PruneDone \/ SweepScan \/ SweepFilter \/ \E j \in Jobs : BackoffElapses(j)
BY <1>3 DEF PruneDone, Prunable, SweepScan, SweepFilter, BeginDispatch,
     BackoffElapses
<1>4. ASSUME NEW w \in Workers, \E j \in Jobs : Take(w, j)
      PROVE  ExclusiveExecution'
BY <1>4 DEF Take, Goto
<1>5. ASSUME NEW w \in Workers, Claim(w) \/ ClaimNothing(w)
      PROVE  ExclusiveExecution'
BY <1>5 DEF Claim, Goto, ClaimNothing, Fault
<1>6. ASSUME NEW w \in Workers, HandlerReturns(w) \/ HandlerRaises(w)
      PROVE  ExclusiveExecution'
BY <1>6 DEF HandlerReturns, Goto, Readied, HandlerRaises
<1>7. ASSUME NEW w \in Workers, RecordDone(w) \/ RecordDoneFault(w)
      PROVE  ExclusiveExecution'
BY <1>7 DEF RecordDone, Goto, RecordDoneFault, Fault
<1>8. ASSUME NEW w \in Workers, RecordFailure(w) \/ RecordFailureFault(w)
      PROVE  ExclusiveExecution'
BY <1>8 DEF RecordFailure, Goto, LastTry, RecordFailureFault, Fault
<1>9. ASSUME NEW w \in Workers, MarkAsset(w) \/ Release(w)
      PROVE  ExclusiveExecution'
BY <1>9 DEF MarkAsset, Goto, Release, Freed, Fault
<1>10. CASE Start \/ StopPool \/ StopClear
BY <1>10 DEF Start, BeginDispatch, StopPool, StopClear
<1>11. CASE Exit \/ Crash
BY <1>11 DEF Exit, Die, Crash
<1>12. CASE UNCHANGED vars BY <1>12 DEF vars
<1>. QED BY <1>1, <1>2, <1>3, <1>4, <1>5, <1>6, <1>7, <1>8, <1>9, <1>10, <1>11,
     <1>12 DEF Next, Execute

\* No thread but its executor changes a running row while the process lives.
LEMMA OwnsStep ==
  TypeOK /\ Holding /\ ExclusiveExecution /\ ExecutorOwnsRow /\ [Next]_vars => ExecutorOwnsRow'
<1>. SUFFICES ASSUME TypeOK, Holding, ExclusiveExecution, ExecutorOwnsRow, [Next]_vars
              PROVE  ExecutorOwnsRow'
  OBVIOUS
<1>. USE JobsAssumption, ThreadsAssumption, BoundsAssumption DEF TypeOK, Holding,
       ExclusiveExecution, ExecutorOwnsRow, Executing, Due, Threads, table, exec,
       disp, budget, performed
<1>1. CASE \E t \in Threads : Dispatch(t)
BY <1>1 DEF Dispatch, DispatchEnd, DispatchMark, DispatchSubmit, DispatchRefused
<1>2. CASE \E c \in Callers : StageCommit(c) \/ Retry(c)
BY <1>2 DEF StageCommit, Serving, BeginDispatch, Retry, Retryable
<1>3. CASE PruneDone \/ SweepScan \/ SweepFilter \/ \E j \in Jobs : BackoffElapses(j)
BY <1>3 DEF PruneDone, Prunable, SweepScan, SweepFilter, BeginDispatch,
     BackoffElapses
<1>4. ASSUME NEW w \in Workers, \E j \in Jobs : Take(w, j)
      PROVE  ExecutorOwnsRow'
BY <1>4 DEF Take, Goto
<1>5. ASSUME NEW w \in Workers, Claim(w) \/ ClaimNothing(w)
      PROVE  ExecutorOwnsRow'
BY <1>5 DEF Claim, Goto, ClaimNothing, Fault
<1>6. ASSUME NEW w \in Workers, HandlerReturns(w) \/ HandlerRaises(w)
      PROVE  ExecutorOwnsRow'
BY <1>6 DEF HandlerReturns, Goto, Readied, HandlerRaises
<1>7. ASSUME NEW w \in Workers, RecordDone(w) \/ RecordDoneFault(w)
      PROVE  ExecutorOwnsRow'
BY <1>7 DEF RecordDone, Goto, RecordDoneFault, Fault
<1>8. ASSUME NEW w \in Workers, RecordFailure(w) \/ RecordFailureFault(w)
      PROVE  ExecutorOwnsRow'
BY <1>8 DEF RecordFailure, Goto, LastTry, RecordFailureFault, Fault
<1>9. ASSUME NEW w \in Workers, MarkAsset(w) \/ Release(w)
      PROVE  ExecutorOwnsRow'
BY <1>9 DEF MarkAsset, Goto, Release, Freed, Fault
<1>10. CASE Start \/ StopPool \/ StopClear
BY <1>10 DEF Start, BeginDispatch, StopPool, StopClear
<1>11. CASE Exit \/ Crash
BY <1>11 DEF Exit, Die, Crash
<1>12. CASE UNCHANGED vars BY <1>12 DEF vars
<1>. QED BY <1>1, <1>2, <1>3, <1>4, <1>5, <1>6, <1>7, <1>8, <1>9, <1>10, <1>11,
     <1>12 DEF Next, Execute

\* An id enters _inflight before its submission and leaves after its worker.
LEMMA LeakStep ==
  TypeOK /\ Holding /\ InflightNeverLeaks /\ [Next]_vars => InflightNeverLeaks'
<1>. SUFFICES ASSUME TypeOK, Holding, InflightNeverLeaks, [Next]_vars
              PROVE  InflightNeverLeaks'
  OBVIOUS
<1>. USE JobsAssumption, ThreadsAssumption, BoundsAssumption DEF TypeOK, Holding,
       InflightNeverLeaks, Threads, table, exec, disp, budget, performed
<1>1. CASE \E t \in Threads : Dispatch(t)
BY <1>1 DEF Dispatch, DispatchEnd, DispatchMark, DispatchSubmit, DispatchRefused
<1>2. CASE \E c \in Callers : StageCommit(c) \/ Retry(c)
BY <1>2 DEF StageCommit, Serving, BeginDispatch, Retry, Retryable
<1>3. CASE PruneDone \/ SweepScan \/ SweepFilter \/ \E j \in Jobs : BackoffElapses(j)
BY <1>3 DEF PruneDone, Prunable, SweepScan, Due, SweepFilter, BeginDispatch,
     BackoffElapses
<1>4. ASSUME NEW w \in Workers, \E j \in Jobs : Take(w, j)
      PROVE  InflightNeverLeaks'
BY <1>4 DEF Take, Goto
<1>5. ASSUME NEW w \in Workers, Claim(w) \/ ClaimNothing(w)
      PROVE  InflightNeverLeaks'
BY <1>5 DEF Claim, Goto, ClaimNothing, Fault
<1>6. ASSUME NEW w \in Workers, HandlerReturns(w) \/ HandlerRaises(w)
      PROVE  InflightNeverLeaks'
BY <1>6 DEF HandlerReturns, Goto, Readied, HandlerRaises
<1>7. ASSUME NEW w \in Workers, RecordDone(w) \/ RecordDoneFault(w)
      PROVE  InflightNeverLeaks'
BY <1>7 DEF RecordDone, Goto, RecordDoneFault, Fault
<1>8. ASSUME NEW w \in Workers, RecordFailure(w) \/ RecordFailureFault(w)
      PROVE  InflightNeverLeaks'
BY <1>8 DEF RecordFailure, Goto, LastTry, RecordFailureFault, Fault
<1>9. ASSUME NEW w \in Workers, MarkAsset(w) \/ Release(w)
      PROVE  InflightNeverLeaks'
BY <1>9 DEF MarkAsset, Goto, Release, Freed, Fault
<1>10. CASE Start \/ StopPool \/ StopClear
BY <1>10 DEF Start, BeginDispatch, StopPool, StopClear
<1>11. CASE Exit \/ Crash
BY <1>11 DEF Exit, Die, Crash
<1>12. CASE UNCHANGED vars BY <1>12 DEF vars
<1>. QED BY <1>1, <1>2, <1>3, <1>4, <1>5, <1>6, <1>7, <1>8, <1>9, <1>10, <1>11,
     <1>12 DEF Next, Execute

\* A second effect of the same job is paid for by a raise, a crash or a fault.
LEMMA EffectsStep ==
  TypeOK /\ Holding /\ ExclusiveExecution /\ ExecutorOwnsRow /\ EffectsAccounted /\ [Next]_vars => EffectsAccounted'
<1>. SUFFICES ASSUME TypeOK, Holding, ExclusiveExecution, ExecutorOwnsRow, EffectsAccounted, [Next]_vars
              PROVE  EffectsAccounted'
  OBVIOUS
<1>. USE JobsAssumption, ThreadsAssumption, BoundsAssumption DEF TypeOK, Holding,
       ExclusiveExecution, ExecutorOwnsRow, Executing, Due, EffectsAccounted,
       Threads, table, exec, disp, budget, performed
<1>1. CASE \E t \in Threads : Dispatch(t)
BY <1>1 DEF Dispatch, DispatchEnd, DispatchMark, DispatchSubmit, DispatchRefused
<1>2. CASE \E c \in Callers : StageCommit(c) \/ Retry(c)
BY <1>2 DEF StageCommit, Serving, BeginDispatch, Retry, Retryable
<1>3. CASE PruneDone \/ SweepScan \/ SweepFilter \/ \E j \in Jobs : BackoffElapses(j)
BY <1>3 DEF PruneDone, Prunable, SweepScan, SweepFilter, BeginDispatch,
     BackoffElapses
<1>4. ASSUME NEW w \in Workers, \E j \in Jobs : Take(w, j)
      PROVE  EffectsAccounted'
BY <1>4 DEF Take, Goto
<1>5. ASSUME NEW w \in Workers, Claim(w) \/ ClaimNothing(w)
      PROVE  EffectsAccounted'
  <2>1. effects' = effects /\ spoilt' = spoilt /\ crashes' = crashes /\ faults' >= faults
        /\ crashes \in Nat /\ faults \in Nat /\ faults' \in Nat
        /\ \A j \in Jobs : effects[j] \in Nat /\ spoilt[j] \in Nat BY <1>5 DEF Claim, ClaimNothing, Fault
  <2>2. \A v \in Workers : pc[v] = "ok" => pc'[v] = "ok" /\ job'[v] = job[v] BY <1>5 DEF Claim, ClaimNothing, Goto
  <2>3. \A j \in Jobs : status[j] \in {"done", "pruned"} => status'[j] = status[j] BY <1>5 DEF Claim, ClaimNothing
  <2>. QED BY <2>1, <2>2, <2>3
<1>6. ASSUME NEW w \in Workers, HandlerReturns(w) \/ HandlerRaises(w)
      PROVE  EffectsAccounted'
  <2>. DEFINE j == job[w]
  <2>1. j \in Jobs /\ status[j] = "running" /\ status' = status
        /\ job' = job /\ crashes' = crashes /\ effects' \in [Jobs -> Nat]
    BY <1>6 DEF HandlerReturns, HandlerRaises, Goto
  <2>2. effects[j] <= spoilt[j] + crashes + faults BY <1>6, <2>1 DEF HandlerReturns, HandlerRaises
  <2>3. \A i \in Jobs \ {j} : effects'[i] = effects[i] /\ spoilt'[i] = spoilt[i]
    BY <1>6 DEF HandlerReturns, HandlerRaises
  <2>4. \A v \in Workers \ {w} : pc'[v] = pc[v] BY <1>6 DEF HandlerReturns, HandlerRaises, Goto
  <2>5. faults \in Nat /\ crashes \in Nat /\ faults' = faults /\ \A i \in Jobs : spoilt[i] \in Nat
    BY <1>6 DEF HandlerReturns, HandlerRaises
  <2>6. CASE HandlerReturns(w)
    <3>1. effects'[j] = effects[j] + 1 /\ spoilt' = spoilt /\ pc'[w] = "ok" BY <2>1, <2>6 DEF HandlerReturns, Goto
    <3>2. ASSUME NEW i \in Jobs
          PROVE  \/ effects'[i] <= spoilt[i] + crashes + faults
                 \/ /\ effects'[i] = 1 + spoilt[i] + crashes + faults
                    /\ \/ status[i] \in {"done", "pruned"}
                       \/ \E v \in Workers : pc'[v] = "ok" /\ job[v] = i
      <4>1. CASE i = j BY <2>1, <2>2, <2>5, <3>1, <4>1
      <4>2. CASE i # j
        <5>1. effects'[i] = effects[i] BY <2>3, <4>2
        <5>2. \A v \in Workers : pc[v] = "ok" => pc'[v] = "ok" BY <2>4, <3>1
        <5>. QED BY <5>1, <5>2
      <4>. QED BY <4>1, <4>2
    <3>. QED BY <2>1, <2>5, <3>1, <3>2
  <2>7. CASE HandlerRaises(w)
    <3>1. effects'[j] <= spoilt'[j] + crashes + faults BY <2>1, <2>2, <2>5, <2>7 DEF HandlerRaises
    <3>2. \A v \in Workers : pc[v] = "ok" => pc'[v] = "ok" BY <2>4, <2>7 DEF HandlerRaises
    <3>. QED BY <2>1, <2>3, <2>5, <3>1, <3>2
  <2>. QED BY <1>6, <2>6, <2>7
<1>7. ASSUME NEW w \in Workers, RecordDone(w) \/ RecordDoneFault(w)
      PROVE  EffectsAccounted'
BY <1>7 DEF RecordDone, Goto, RecordDoneFault, Fault
<1>8. ASSUME NEW w \in Workers, RecordFailure(w) \/ RecordFailureFault(w)
      PROVE  EffectsAccounted'
BY <1>8 DEF RecordFailure, Goto, LastTry, RecordFailureFault, Fault
<1>9. ASSUME NEW w \in Workers, MarkAsset(w) \/ Release(w)
      PROVE  EffectsAccounted'
BY <1>9 DEF MarkAsset, Goto, Release, Freed, Fault
<1>10. CASE Start \/ StopPool \/ StopClear
BY <1>10 DEF Start, BeginDispatch, StopPool, StopClear
<1>11. CASE Exit \/ Crash
BY <1>11 DEF Exit, Die, Crash
<1>12. CASE UNCHANGED vars BY <1>12 DEF vars
<1>. QED BY <1>1, <1>2, <1>3, <1>4, <1>5, <1>6, <1>7, <1>8, <1>9, <1>10, <1>11,
     <1>12 DEF Next, Execute

\* An attempt past the limit is paid for by a crash or a fault.
LEMMA AttemptsStep ==
  TypeOK /\ Holding /\ ExclusiveExecution /\ ExecutorOwnsRow /\ AttemptsAccounted /\ [Next]_vars => AttemptsAccounted'
<1>. SUFFICES ASSUME TypeOK, Holding, ExclusiveExecution, ExecutorOwnsRow, AttemptsAccounted, [Next]_vars
              PROVE  AttemptsAccounted'
  OBVIOUS
<1>. USE JobsAssumption, ThreadsAssumption, BoundsAssumption DEF TypeOK, Holding,
       ExclusiveExecution, ExecutorOwnsRow, Executing, Due, AttemptsAccounted,
       Threads, table, exec, disp, budget, performed
<1>1. CASE \E t \in Threads : Dispatch(t)
BY <1>1 DEF Dispatch, DispatchEnd, DispatchMark, DispatchSubmit, DispatchRefused
<1>2. CASE \E c \in Callers : StageCommit(c) \/ Retry(c)
BY <1>2 DEF StageCommit, Serving, BeginDispatch, Retry, Retryable
<1>3. CASE PruneDone \/ SweepScan \/ SweepFilter \/ \E j \in Jobs : BackoffElapses(j)
BY <1>3 DEF PruneDone, Prunable, SweepScan, SweepFilter, BeginDispatch,
     BackoffElapses
<1>4. ASSUME NEW w \in Workers, \E j \in Jobs : Take(w, j)
      PROVE  AttemptsAccounted'
BY <1>4 DEF Take, Goto
<1>5. ASSUME NEW w \in Workers, Claim(w) \/ ClaimNothing(w)
      PROVE  AttemptsAccounted'
BY <1>5 DEF Claim, Goto, ClaimNothing, Fault
<1>6. ASSUME NEW w \in Workers, HandlerReturns(w) \/ HandlerRaises(w)
      PROVE  AttemptsAccounted'
BY <1>6 DEF HandlerReturns, Goto, Readied, HandlerRaises
<1>7. ASSUME NEW w \in Workers, RecordDone(w) \/ RecordDoneFault(w)
      PROVE  AttemptsAccounted'
BY <1>7 DEF RecordDone, Goto, RecordDoneFault, Fault
<1>8. ASSUME NEW w \in Workers, RecordFailure(w) \/ RecordFailureFault(w)
      PROVE  AttemptsAccounted'
BY <1>8 DEF RecordFailure, Goto, LastTry, RecordFailureFault, Fault
<1>9. ASSUME NEW w \in Workers, MarkAsset(w) \/ Release(w)
      PROVE  AttemptsAccounted'
BY <1>9 DEF MarkAsset, Goto, Release, Freed, Fault
<1>10. CASE Start \/ StopPool \/ StopClear
BY <1>10 DEF Start, BeginDispatch, StopPool, StopClear
<1>11. CASE Exit \/ Crash
BY <1>11 DEF Exit, Die, Crash
<1>12. CASE UNCHANGED vars BY <1>12 DEF vars
<1>. QED BY <1>1, <1>2, <1>3, <1>4, <1>5, <1>6, <1>7, <1>8, <1>9, <1>10, <1>11,
     <1>12 DEF Next, Execute

\* Only a failed attempt that was not the last one parks a row.
LEMMA ParkedStep ==
  TypeOK /\ Holding /\ ExecutorOwnsRow /\ ParkedHasAttemptLeft /\ [Next]_vars => ParkedHasAttemptLeft'
<1>. SUFFICES ASSUME TypeOK, Holding, ExecutorOwnsRow, ParkedHasAttemptLeft, [Next]_vars
              PROVE  ParkedHasAttemptLeft'
  OBVIOUS
<1>. USE JobsAssumption, ThreadsAssumption, BoundsAssumption DEF TypeOK, Holding,
       ExecutorOwnsRow, Executing, Due, ParkedHasAttemptLeft, Threads, table, exec,
       disp, budget, performed
<1>1. CASE \E t \in Threads : Dispatch(t)
BY <1>1 DEF Dispatch, DispatchEnd, DispatchMark, DispatchSubmit, DispatchRefused
<1>2. CASE \E c \in Callers : StageCommit(c) \/ Retry(c)
BY <1>2 DEF StageCommit, Serving, BeginDispatch, Retry, Retryable
<1>3. CASE PruneDone \/ SweepScan \/ SweepFilter \/ \E j \in Jobs : BackoffElapses(j)
BY <1>3 DEF PruneDone, Prunable, SweepScan, SweepFilter, BeginDispatch,
     BackoffElapses
<1>4. ASSUME NEW w \in Workers, \E j \in Jobs : Take(w, j)
      PROVE  ParkedHasAttemptLeft'
BY <1>4 DEF Take, Goto
<1>5. ASSUME NEW w \in Workers, Claim(w) \/ ClaimNothing(w)
      PROVE  ParkedHasAttemptLeft'
BY <1>5 DEF Claim, Goto, ClaimNothing, Fault
<1>6. ASSUME NEW w \in Workers, HandlerReturns(w) \/ HandlerRaises(w)
      PROVE  ParkedHasAttemptLeft'
BY <1>6 DEF HandlerReturns, Goto, Readied, HandlerRaises
<1>7. ASSUME NEW w \in Workers, RecordDone(w) \/ RecordDoneFault(w)
      PROVE  ParkedHasAttemptLeft'
BY <1>7 DEF RecordDone, Goto, RecordDoneFault, Fault
<1>8. ASSUME NEW w \in Workers, RecordFailure(w) \/ RecordFailureFault(w)
      PROVE  ParkedHasAttemptLeft'
BY <1>8 DEF RecordFailure, Goto, LastTry, RecordFailureFault, Fault
<1>9. ASSUME NEW w \in Workers, MarkAsset(w) \/ Release(w)
      PROVE  ParkedHasAttemptLeft'
BY <1>9 DEF MarkAsset, Goto, Release, Freed, Fault
<1>10. CASE Start \/ StopPool \/ StopClear
BY <1>10 DEF Start, BeginDispatch, StopPool, StopClear
<1>11. CASE Exit \/ Crash
BY <1>11 DEF Exit, Die, Crash
<1>12. CASE UNCHANGED vars BY <1>12 DEF vars
<1>. QED BY <1>1, <1>2, <1>3, <1>4, <1>5, <1>6, <1>7, <1>8, <1>9, <1>10, <1>11,
     <1>12 DEF Next, Execute

\* While nothing is retried, whoever is done has a ready asset.
LEMMA ReadyStep ==
  TypeOK /\ Holding /\ ExecutorOwnsRow /\ ReadyInv /\ [Next]_vars => ReadyInv'
<1>. SUFFICES ASSUME TypeOK, Holding, ExecutorOwnsRow, ReadyInv, [Next]_vars
              PROVE  ReadyInv'
  OBVIOUS
<1>. USE JobsAssumption, ThreadsAssumption, BoundsAssumption DEF TypeOK, Holding,
       ExecutorOwnsRow, Executing, Due, ReadyInv, Threads, table, exec,
       disp, budget, performed
<1>1. CASE \E t \in Threads : Dispatch(t)
BY <1>1 DEF Dispatch, DispatchEnd, DispatchMark, DispatchSubmit, DispatchRefused
<1>2. CASE \E c \in Callers : StageCommit(c) \/ Retry(c)
BY <1>2 DEF StageCommit, Serving, BeginDispatch, Retry, Retryable
<1>3. CASE PruneDone \/ SweepScan \/ SweepFilter \/ \E j \in Jobs : BackoffElapses(j)
BY <1>3 DEF PruneDone, Prunable, SweepScan, SweepFilter, BeginDispatch,
     BackoffElapses
<1>4. ASSUME NEW w \in Workers, \E j \in Jobs : Take(w, j)
      PROVE  ReadyInv'
BY <1>4 DEF Take, Goto
<1>5. ASSUME NEW w \in Workers, Claim(w) \/ ClaimNothing(w)
      PROVE  ReadyInv'
BY <1>5 DEF Claim, Goto, ClaimNothing, Fault
<1>6. ASSUME NEW w \in Workers, HandlerReturns(w) \/ HandlerRaises(w)
      PROVE  ReadyInv'
BY <1>6 DEF HandlerReturns, Goto, Readied, HandlerRaises
<1>7. ASSUME NEW w \in Workers, RecordDone(w) \/ RecordDoneFault(w)
      PROVE  ReadyInv'
BY <1>7 DEF RecordDone, Goto, RecordDoneFault, Fault
<1>8. ASSUME NEW w \in Workers, RecordFailure(w) \/ RecordFailureFault(w)
      PROVE  ReadyInv'
BY <1>8 DEF RecordFailure, Goto, LastTry, RecordFailureFault, Fault
<1>9. ASSUME NEW w \in Workers, MarkAsset(w) \/ Release(w)
      PROVE  ReadyInv'
BY <1>9 DEF MarkAsset, Goto, Release, Freed, Fault
<1>10. CASE Start \/ StopPool \/ StopClear
BY <1>10 DEF Start, BeginDispatch, StopPool, StopClear
<1>11. CASE Exit \/ Crash
BY <1>11 DEF Exit, Die, Crash
<1>12. CASE UNCHANGED vars BY <1>12 DEF vars
<1>. QED BY <1>1, <1>2, <1>3, <1>4, <1>5, <1>6, <1>7, <1>8, <1>9, <1>10, <1>11,
     <1>12 DEF Next, Execute

(* The invariant and its consequences *)

LEMMA InitIInv == Init => IInv
BY JobsAssumption, ThreadsAssumption, BoundsAssumption
   DEF Init, IInv, TypeOK, Holding, ExclusiveExecution, ExecutorOwnsRow,
       InflightNeverLeaks, EffectsAccounted, AttemptsAccounted, ParkedHasAttemptLeft,
       ReadyInv, Executing, Threads

LEMMA StepIInv == IInv /\ [Next]_vars => IInv'
BY TypeStep, HoldingStep, ExclusiveStep, OwnsStep, LeakStep, EffectsStep, AttemptsStep,
   ParkedStep, ReadyStep DEF IInv

\* IInv holds in every reachable state of the queue (jobs.py), with any number of rows, workers and kills.
THEOREM Inductive == Spec => []IInv
BY InitIInv, StepIInv, PTL DEF Spec

\* The variables of the queue keep their types (app/jobs.py, migrations/001, 070).
THEOREM TypeCorrect == Spec => []TypeOK
<1>1. IInv => TypeOK BY DEF IInv
<1>. QED BY <1>1, Inductive, PTL

\* _claim is a mutual exclusion: whatever offers a job and however often, one
\* worker at most is inside it.
THEOREM Exclusive == Spec => []ExclusiveExecution
<1>1. IInv => ExclusiveExecution BY DEF IInv
<1>. QED BY <1>1, Inductive, PTL

\* The unguarded outcome writes of _execute always hit the worker's own attempt.
THEOREM OwnsRow == Spec => []ExecutorOwnsRow
<1>1. IInv => ExecutorOwnsRow BY DEF IInv
<1>. QED BY <1>1, Inductive, PTL

\* No id is left behind in _inflight, so the sweeper's filter never hides a row.
THEOREM NoLeak == Spec => []InflightNeverLeaks
<1>1. IInv => InflightNeverLeaks BY DEF IInv
<1>. QED BY <1>1, Inductive, PTL

\* A side effect is repeated at most once for each attempt whose handler raised with
\* the effect done, each crash and each failed database write.
THEOREM RepeatsBounded == Spec => []RepeatsHaveACause
<1>1. IInv => RepeatsHaveACause BY DEF IInv, TypeOK, EffectsAccounted, RepeatsHaveACause
<1>. QED BY <1>1, Inductive, PTL

\* A job is attempted at most MAX_ATTEMPTS times since its last retry, plus once
\* for every crash or failed database write.
THEOREM AttemptsLimited == Spec => []AttemptsBounded
<1>1. IInv => AttemptsBounded BY DEF IInv, AttemptsAccounted, AttemptsBounded
<1>. QED BY <1>1, Inductive, PTL

\* A parked row is one that failed and still has an attempt left.
THEOREM ParkedRetryable == Spec => []ParkedHasAttemptLeft
<1>1. IInv => ParkedHasAttemptLeft BY DEF IInv
<1>. QED BY <1>1, Inductive, PTL

\* Unless an operator retries, a primary job that is done left its asset ready, though
\* the asset is marked failed in a transaction of its own (app/jobs.py).
THEOREM DoneIsReady == Spec => []DoneAssetIsReady
<1>1. IInv => DoneAssetIsReady BY DEF IInv, ReadyInv, DoneAssetIsReady
<1>. QED BY <1>1, Inductive, PTL

(* Refinement *)

\* Initially nothing is owed and nothing has happened.
LEMMA InitPromise == Init => Promise!Init
BY JobsAssumption DEF Init, Promise!Init, Debt, DebtOf

\* Steps that touch neither a status nor an effect.
LEMMA StutterPromise ==
  ASSUME status' = status, effects' = effects
  PROVE  UNCHANGED <<Debt, effects>>
BY DEF Debt

\* Every step of the queue is a step of the promise or leaves it alone.
LEMMA StepPromise ==
  IInv /\ [Next]_vars => [Promise!Next]_<<Debt, effects>>
<1>. SUFFICES ASSUME IInv, [Next]_vars
              PROVE  [Promise!Next]_<<Debt, effects>>
  OBVIOUS
<1>. USE JobsAssumption DEF IInv, TypeOK, Holding, table, exec, disp, budget, performed
<1>1. CASE \E t \in Threads : Dispatch(t) BY <1>1, StutterPromise
     DEF Dispatch, DispatchEnd, DispatchMark, DispatchSubmit, DispatchRefused
<1>2. ASSUME NEW c \in Callers, StageCommit(c)
      PROVE  [Promise!Next]_<<Debt, effects>>
  <2>1. PICK S \in SUBSET {j \in Jobs : status[j] = "absent"} :
          status' = [j \in Jobs |-> IF j \in S THEN "queued" ELSE status[j]] BY <1>2 DEF StageCommit
  <2>2. S \in SUBSET {j \in Jobs : Debt[j] \in {"none", "given_up"}} BY <2>1 DEF Debt, DebtOf
  <2>3. Debt' = [j \in Jobs |-> IF j \in S THEN "owed" ELSE Debt[j]]
    <3>1. ASSUME NEW j \in Jobs
          PROVE  DebtOf(status'[j]) = IF j \in S THEN "owed" ELSE DebtOf(status[j])
      <4>1. status'[j] = IF j \in S THEN "queued" ELSE status[j] BY <2>1
      <4>. QED BY <4>1 DEF DebtOf
    <3>. QED BY <3>1 DEF Debt
  <2>4. Promise!Owe BY <1>2, <2>2, <2>3 DEF StageCommit, Promise!Owe
  <2>. QED BY <2>4 DEF Promise!Next
<1>3. ASSUME NEW c \in Callers, Retry(c)
      PROVE  [Promise!Next]_<<Debt, effects>>
  <2>1. PICK j \in Jobs :
          /\ status[j] \in {"failed", "queued"}
          /\ status' = [status EXCEPT ![j] = "queued"] BY <1>3 DEF Retry, Retryable
  <2>2. CASE status[j] = "failed"
    <3>1. {j} \in SUBSET {i \in Jobs : Debt[i] \in {"none", "given_up"}} BY <2>2 DEF Debt, DebtOf
    <3>2. Debt' = [i \in Jobs |-> IF i \in {j} THEN "owed" ELSE Debt[i]] BY <2>1 DEF Debt, DebtOf
    <3>3. Promise!Owe BY <1>3, <3>1, <3>2 DEF Retry, Promise!Owe
    <3>. QED BY <3>3 DEF Promise!Next
  <2>3. CASE status[j] = "queued"
    <3>1. status' = status /\ effects' = effects BY <1>3, <2>1, <2>3 DEF Retry
    <3>. QED BY <3>1, StutterPromise
  <2>. QED BY <2>1, <2>2, <2>3
<1>4. CASE PruneDone BY <1>4 DEF PruneDone, Prunable, Debt, DebtOf
<1>5. CASE SweepScan \/ SweepFilter \/ \E j \in Jobs : BackoffElapses(j)
  BY <1>5, StutterPromise DEF SweepScan, SweepFilter, BackoffElapses
<1>6. ASSUME NEW w \in Workers,
             \/ \E j \in Jobs : Take(w, j)
             \/ ClaimNothing(w) \/ RecordDoneFault(w) \/ RecordFailureFault(w)
             \/ MarkAsset(w) \/ Release(w)
      PROVE  [Promise!Next]_<<Debt, effects>> BY <1>6, StutterPromise
     DEF Take, ClaimNothing, RecordDoneFault, RecordFailureFault, MarkAsset, Release
<1>7. ASSUME NEW w \in Workers, Claim(w)
      PROVE  [Promise!Next]_<<Debt, effects>> BY <1>7 DEF Claim, Due, Debt, DebtOf
<1>8. ASSUME NEW w \in Workers, HandlerReturns(w) \/ HandlerRaises(w)
      PROVE  [Promise!Next]_<<Debt, effects>>
  <2>1. job[w] \in Jobs /\ status[job[w]] = "running"
    BY <1>8 DEF HandlerReturns, HandlerRaises, ExecutorOwnsRow, Executing
  <2>2. Debt[job[w]] = "owed" /\ Debt' = Debt BY <1>8, <2>1 DEF HandlerReturns, HandlerRaises, Debt, DebtOf
  <2>3. effects' = effects \/ effects' = [effects EXCEPT ![job[w]] = @ + 1] BY <1>8 DEF HandlerReturns, HandlerRaises
  <2>4. UNCHANGED <<Debt, effects>> \/ Promise!Perform(job[w]) BY <2>2, <2>3 DEF Promise!Perform
  <2>. QED BY <2>1, <2>4 DEF Promise!Next
<1>9. ASSUME NEW w \in Workers, RecordDone(w)
      PROVE  [Promise!Next]_<<Debt, effects>>
  <2>1. job[w] \in Jobs /\ status[job[w]] = "running" /\ effects[job[w]] > 0
    BY <1>9 DEF RecordDone, ExecutorOwnsRow, Executing
  <2>2. Debt[job[w]] = "owed" /\ Debt' = [Debt EXCEPT ![job[w]] = "kept"]
    <3>0. DOMAIN status = Jobs
      OBVIOUS
    <3>1. status' = [status EXCEPT ![job[w]] = "done"] BY <1>9 DEF RecordDone
    <3>2. DebtOf("running") = "owed" /\ DebtOf("done") = "kept" BY DEF DebtOf
    <3>. HIDE DEF IInv, TypeOK, DebtOf
    <3>3. ASSUME NEW j \in Jobs
          PROVE  DebtOf(status'[j]) = IF j = job[w] THEN "kept" ELSE DebtOf(status[j]) BY <2>1, <3>1, <3>2, <3>0
    <3>. QED BY <2>1, <3>2, <3>3 DEF Debt
  <2>3. Promise!Keep(job[w]) BY <1>9, <2>1, <2>2 DEF RecordDone, Promise!Keep
  <2>. QED BY <2>1, <2>3 DEF Promise!Next
<1>10. ASSUME NEW w \in Workers, RecordFailure(w)
       PROVE  [Promise!Next]_<<Debt, effects>>
  <2>1. job[w] \in Jobs /\ status[job[w]] = "running" BY <1>10 DEF RecordFailure, ExecutorOwnsRow, Executing
  <2>2. CASE status' = [status EXCEPT ![job[w]] = "failed"]
    <3>1. DebtOf("running") = "owed" /\ DebtOf("failed") = "given_up" BY DEF DebtOf
    <3>2. Debt[job[w]] = "owed" /\ Debt' = [Debt EXCEPT ![job[w]] = "given_up"] BY <2>1, <2>2, <3>1 DEF Debt
    <3>3. Promise!GiveUp(job[w]) BY <1>10, <3>2 DEF RecordFailure, Promise!GiveUp
    <3>. QED BY <2>1, <3>3 DEF Promise!Next
  <2>3. CASE status' = [status EXCEPT ![job[w]] = "queued"] BY <1>10, <2>1, <2>3 DEF RecordFailure, Debt, DebtOf
  <2>. QED BY <1>10, <2>2, <2>3 DEF RecordFailure
<1>11. CASE Start BY <1>11 DEF Start, Debt, DebtOf
<1>12. CASE StopPool \/ StopClear \/ Exit \/ Crash BY <1>12, StutterPromise DEF StopPool, StopClear, Exit, Crash, Die
<1>13. CASE UNCHANGED vars BY <1>13, StutterPromise DEF vars
<1>. QED BY <1>1, <1>2, <1>3, <1>4, <1>5, <1>6, <1>7, <1>8, <1>9, <1>10, <1>11, <1>12, <1>13
     DEF Next, Execute

\* The queue of app/jobs.py implements the contract of ops/AT-LEAST-ONCE.md: an
\* owed job is never forgotten, and called done only after its effect.
THEOREM ImplementsPromise == Spec => KeepsPromise
<1>1. Spec => []IInv BY Inductive
<1>. QED BY <1>1, InitPromise, StepPromise, PTL DEF Spec, KeepsPromise, Promise!Spec

=============================================================================
