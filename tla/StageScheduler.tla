-------------------------- MODULE StageScheduler ---------------------------
(***************************************************************************)
(* scheduler.Scheduler.Run (internal/scheduler/scheduler.go): the stages   *)
(* of a validated pipeline run on a pool of goroutines.                    *)
(*                                                                         *)
(* The goroutines are the coordinator (the body of schedule), the feeder,  *)
(* and one per unit of Parallelism.  They share the buffered channels      *)
(* dispatchable and outcomes and the unbuffered channel work, modelled as  *)
(* a rendezvous of the feeder with an idle worker.  The caller may cancel  *)
(* its context, and the budget may elapse, at any moment.                  *)
(*                                                                         *)
(* A stage is a number, ordered as the identifiers it stands for.  The     *)
(* default branch of the coordinator's loop, which marks unreached stages, *)
(* has no action: NeverStarved shows that it is never reached.             *)
(***************************************************************************)
EXTENDS Integers, FiniteSets, Sequences, SequencesExt

CONSTANTS Stages,        \* the stages of the pipeline
          Graphs,        \* the dependency relations it may have
          Workers,       \* one for each unit of Parallelism
          Budgeted       \* whether Scheduler.Budget is positive

ASSUME StagesAssumption == Stages \subseteq Nat \ {0} /\ IsFiniteSet(Stages)

VARIABLES deps,          \* DependsOn of each stage
          pc,            \* where Run is
          results,       \* the terminal state of each stage, "none" before
          indegree,      \* dependencies not processed yet
          resolved,      \* blocked stages whose dependents are to be told
          pending,       \* stages not processed yet
          inFlight,      \* stages handed out and not reported back
          dispatchable,  \* channel from the coordinator to the feeder
          held,          \* what the feeder offers on the channel work
          worker,        \* what each worker is doing
          outcomes,      \* channel from the workers to the coordinator
          canceled,      \* the caller's context is done
          expired,       \* the budget has elapsed
          exceeded,      \* Run's budgetExceeded
          answer,        \* the error Run returns
          runs           \* history: calls of Runner.Run for each stage

schedVars == <<deps, pc, results, indegree, resolved, pending, inFlight, dispatchable,
               held, worker, outcomes, canceled, expired, exceeded, answer, runs>>

None == "none"
NoStage == 0
Terminal == {"succeeded", "failed", "blocked", "canceled", "budget_exceeded"}
Idle == [stage |-> NoStage, step |-> "idle"]

(* ctx.Err() # nil in schedule, where the context carries the budget too *)
Done == canceled \/ expired

InOrder(ids) == SetToSortSeq(ids, <)

Dependents(s) == {t \in Stages : s \in deps[t]}

(* blockedBy *)
Blocked(s, res) == \E d \in deps[s] : res[d] # "succeeded"

(***************************************************************************)
(* admit, for every stage of ids in sorted order: blocked ones resolve     *)
(* without running, the others go to the feeder.                           *)
(***************************************************************************)
AdmitUnblocked(ids, res, queue) ==
  /\ results' = res
  /\ resolved' = queue
  /\ dispatchable' = dispatchable \o InOrder(ids)

AdmitUnqueued(ids, res, queue) ==
  LET blocked == {s \in ids : Blocked(s, res)}
  IN  /\ results' = [s \in Stages |-> IF s \in blocked THEN "blocked" ELSE res[s]]
      /\ resolved' = queue
      /\ dispatchable' = dispatchable \o InOrder(ids \ blocked)

Admit(ids, res, queue) ==
  LET blocked == {s \in ids : Blocked(s, res)}
  IN  /\ results' = [s \in Stages |-> IF s \in blocked THEN "blocked" ELSE res[s]]
      /\ resolved' = queue \o InOrder(blocked)
      /\ dispatchable' = dispatchable \o InOrder(ids \ blocked)

(* How many stages of ids admit counts as in flight *)
Launched(ids, res) == Cardinality({s \in ids : ~Blocked(s, res)})

----------------------------------------------------------------------------
SchedInit ==
  /\ deps \in Graphs
  /\ pc = "seed"
  /\ results = [s \in Stages |-> None]
  /\ indegree = [s \in Stages |-> Cardinality(deps[s])]
  /\ resolved = <<>>
  /\ pending = Cardinality(Stages)
  /\ inFlight = 0
  /\ dispatchable = <<>>
  /\ held = NoStage
  /\ worker = [w \in Workers |-> Idle]
  /\ outcomes = <<>>
  /\ canceled = FALSE
  /\ expired = FALSE
  /\ exceeded = FALSE
  /\ answer = None
  /\ runs = [s \in Stages |-> 0]

SeedFirst ==
  /\ pc = "seed"
  /\ LET root == {CHOOSE s \in Stages : indegree[s] = 0}
     IN  /\ Admit(root, results, resolved)
         /\ inFlight' = inFlight + Launched(root, results)
  /\ pc' = "loop"
  /\ UNCHANGED <<deps, indegree, pending, held, worker, outcomes, canceled, expired,
                 exceeded, answer, runs>>

(* The stages without dependencies are admitted before the loop. *)
Seed ==
  /\ pc = "seed"
  /\ LET roots == {s \in Stages : indegree[s] = 0}
     IN  /\ Admit(roots, results, resolved)
         /\ inFlight' = inFlight + Launched(roots, results)
  /\ pc' = "loop"
  /\ UNCHANGED <<deps, indegree, pending, held, worker, outcomes, canceled, expired,
                 exceeded, answer, runs>>

(* The end of an iteration of the loop: the dependents of a stage learn of *)
(* it, and those that waited for nothing else are admitted.                *)
Process(s, res, queue) ==
  LET next == {t \in Dependents(s) : indegree[t] = 1 /\ res[t] = None}
  IN  /\ indegree' = [t \in Stages |-> indegree[t] - (IF t \in Dependents(s) THEN 1 ELSE 0)]
      /\ pending' = pending - 1
      /\ Admit(next, res, queue)

Admitted(s, res) == Launched({t \in Dependents(s) : indegree[t] = 1 /\ res[t] = None}, res)

(* The loop takes a stage that resolved without running. *)
Resolve ==
  /\ pc = "loop"
  /\ pending > 0
  /\ resolved # <<>>
  /\ Process(Head(resolved), results, Tail(resolved))
  /\ inFlight' = inFlight + Admitted(Head(resolved), results)
  /\ UNCHANGED <<deps, pc, held, worker, outcomes, canceled, expired, exceeded, answer, runs>>

(* The loop receives the outcome of a stage that ran. *)
Receive ==
  /\ pc = "loop"
  /\ pending > 0
  /\ resolved = <<>>
  /\ inFlight > 0
  /\ outcomes # <<>>
  /\ LET outcome == Head(outcomes)
         res == [results EXCEPT ![outcome.stage] = outcome.state]
     IN  /\ Process(outcome.stage, res, resolved)
         /\ inFlight' = inFlight - 1 + Admitted(outcome.stage, res)
  /\ outcomes' = Tail(outcomes)
  /\ UNCHANGED <<deps, pc, held, worker, canceled, expired, exceeded, answer, runs>>

(* The feeder takes a stage from dispatchable ... *)
Feed ==
  /\ held = NoStage
  /\ dispatchable # <<>>
  /\ held' = Head(dispatchable)
  /\ dispatchable' = Tail(dispatchable)
  /\ UNCHANGED <<deps, pc, results, indegree, resolved, pending, inFlight, worker, outcomes,
                 canceled, expired, exceeded, answer, runs>>

(* ... and hands it to a worker that is waiting for work. *)
Take(w) ==
  /\ held # NoStage
  /\ worker[w] = Idle
  /\ worker' = [worker EXCEPT ![w] = [stage |-> held, step |-> "check"]]
  /\ held' = NoStage
  /\ UNCHANGED <<deps, pc, results, indegree, resolved, pending, inFlight, dispatchable,
                 outcomes, canceled, expired, exceeded, answer, runs>>

ReportKeeping(w, state) ==
  /\ outcomes' = Append(outcomes, [stage |-> worker[w].stage, state |-> state])
  /\ UNCHANGED worker

(* The worker reports and waits again. *)
Report(w, state) ==
  /\ outcomes' = Append(outcomes, [stage |-> worker[w].stage, state |-> state])
  /\ worker' = [worker EXCEPT ![w] = Idle]

RunStageRequeue(w) ==
  /\ worker[w].step = "check"
  /\ IF Done
       THEN /\ worker' = [worker EXCEPT ![w] = Idle]
            /\ dispatchable' = Append(dispatchable, worker[w].stage)
            /\ UNCHANGED runs
       ELSE /\ worker' = [worker EXCEPT ![w].step = "run"]
            /\ runs' = [runs EXCEPT ![worker[w].stage] = @ + 1]
            /\ UNCHANGED dispatchable
  /\ UNCHANGED <<deps, pc, results, indegree, resolved, pending, inFlight, held,
                 outcomes, canceled, expired, exceeded, answer>>

(* runStage: a stage taken after the context ended does not run. *)
RunStage(w) ==
  /\ worker[w].step = "check"
  /\ IF Done
       THEN Report(w, "canceled") /\ UNCHANGED runs
       ELSE /\ worker' = [worker EXCEPT ![w].step = "run"]
            /\ runs' = [runs EXCEPT ![worker[w].stage] = @ + 1]
            /\ UNCHANGED outcomes
  /\ UNCHANGED <<deps, pc, results, indegree, resolved, pending, inFlight, dispatchable, held,
                 canceled, expired, exceeded, answer>>

(* Runner.Run returns, and the context is looked at before its error. *)
RunnerReturns(w, ok) ==
  /\ worker[w].step = "run"
  /\ Report(w, IF Done THEN "canceled" ELSE IF ok THEN "succeeded" ELSE "failed")
  /\ UNCHANGED <<deps, pc, results, indegree, resolved, pending, inFlight, dispatchable, held,
                 canceled, expired, exceeded, answer, runs>>

(* Every stage is processed: the channels are closed and the pool joined. *)
Join ==
  /\ pc = "loop"
  /\ pending = 0
  /\ dispatchable = <<>> /\ held = NoStage
  /\ \A w \in Workers : worker[w] = Idle
  /\ pc' = "joined"
  /\ UNCHANGED <<deps, results, indegree, resolved, pending, inFlight, dispatchable, held,
                 worker, outcomes, canceled, expired, exceeded, answer, runs>>

(* Run decides whether its own budget ended the run. *)
Classify ==
  /\ pc = "joined"
  /\ exceeded' = (Budgeted /\ Done /\ ~canceled)
  /\ results' = [s \in Stages |->
       IF exceeded' /\ results[s] = "canceled" THEN "budget_exceeded" ELSE results[s]]
  /\ pc' = "classified"
  /\ UNCHANGED <<deps, indegree, resolved, pending, inFlight, dispatchable, held, worker,
                 outcomes, canceled, expired, answer, runs>>

(* The return statements of Run, in their order. *)
AnswerFailuresOnly ==
  /\ pc = "classified"
  /\ answer' = IF \E s \in Stages : results[s] = "failed" THEN "failures" ELSE "nil"
  /\ pc' = "returned"
  /\ UNCHANGED <<deps, results, indegree, resolved, pending, inFlight, dispatchable, held,
                 worker, outcomes, canceled, expired, exceeded, runs>>

Answer ==
  /\ pc = "classified"
  /\ answer' = IF exceeded THEN "budget"
               ELSE IF canceled THEN "canceled"
               ELSE IF \E s \in Stages : results[s] = "failed" THEN "failures" ELSE "nil"
  /\ pc' = "returned"
  /\ UNCHANGED <<deps, results, indegree, resolved, pending, inFlight, dispatchable, held,
                 worker, outcomes, canceled, expired, exceeded, runs>>

(* The caller cancels, or its own deadline passes. *)
Cancel ==
  /\ pc # "returned"
  /\ ~canceled
  /\ canceled' = TRUE
  /\ UNCHANGED <<deps, pc, results, indegree, resolved, pending, inFlight, dispatchable, held,
                 worker, outcomes, expired, exceeded, answer, runs>>

(* The budget elapses. *)
Expire ==
  /\ pc # "returned"
  /\ Budgeted /\ ~expired
  /\ expired' = TRUE
  /\ UNCHANGED <<deps, pc, results, indegree, resolved, pending, inFlight, dispatchable, held,
                 worker, outcomes, canceled, exceeded, answer, runs>>

Returned == pc = "returned" /\ UNCHANGED schedVars

SchedNext ==
  \/ Seed \/ Resolve \/ Receive \/ Feed \/ Join \/ Classify \/ Answer
  \/ Cancel \/ Expire \/ Returned
  \/ \E w \in Workers :
       Take(w) \/ RunStage(w) \/ \E ok \in BOOLEAN : RunnerReturns(w, ok)

(***************************************************************************)
(* Goroutines that can run do run, and a runner returns ("must honor       *)
(* context cancellation"); nobody is obliged to cancel.                    *)
(***************************************************************************)
SchedFairness ==
  /\ WF_schedVars(Seed) /\ WF_schedVars(Resolve) /\ WF_schedVars(Receive)
  /\ WF_schedVars(Feed) /\ WF_schedVars(Join) /\ WF_schedVars(Classify) /\ WF_schedVars(Answer)
  /\ WF_schedVars(\E w \in Workers : Take(w))
  /\ \A w \in Workers : WF_schedVars(RunStage(w) \/ \E ok \in BOOLEAN : RunnerReturns(w, ok))

SchedSpec == SchedInit /\ [][SchedNext]_schedVars /\ SchedFairness

----------------------------------------------------------------------------
(* The stages that are somewhere between admit and the coordinator *)
Underway ==
  Range(dispatchable) \cup ({held} \ {NoStage}) \cup {o.stage : o \in Range(outcomes)}
    \cup ({worker[w].stage : w \in Workers} \ {NoStage})

(* Type invariant: channels never exceed their buffers either. *)
SchedTypeOK ==
  /\ pc \in {"seed", "loop", "joined", "classified", "returned"}
  /\ results \in [Stages -> Terminal \cup {None}]
  /\ indegree \in [Stages -> 0 .. Cardinality(Stages)]
  /\ resolved \in Seq(Stages)
  /\ pending \in 0 .. Cardinality(Stages) /\ inFlight \in 0 .. Cardinality(Stages)
  /\ dispatchable \in Seq(Stages) /\ Len(dispatchable) <= Cardinality(Stages)
  /\ held \in Stages \cup {NoStage}
  /\ worker \in [Workers -> [stage : Stages \cup {NoStage}, step : {"idle", "check", "run"}]]
  /\ outcomes \in Seq([stage : Stages, state : Terminal]) /\ Len(outcomes) <= Cardinality(Stages)
  /\ canceled \in BOOLEAN /\ expired \in BOOLEAN /\ exceeded \in BOOLEAN
  /\ answer \in {None, "nil", "budget", "canceled", "failures"}

(***************************************************************************)
(* Run "never invokes the runner for a stage whose dependency failed, was  *)
(* blocked, or was canceled", and invokes it at most once for a stage.     *)
(***************************************************************************)
RunsAreSafe ==
  \A s \in Stages :
    /\ runs[s] <= 1
    /\ runs[s] = 1 => \A d \in deps[s] : results[d] = "succeeded"

(***************************************************************************)
(* The coordinator's counters agree with the channels, and while stages    *)
(* are pending there is always one to process or to wait for: the default  *)
(* branch of its loop, which gives up on the rest, is never taken.         *)
(***************************************************************************)
NeverStarved ==
  pc = "loop" =>
    /\ inFlight = Cardinality(Underway)
    /\ pending > 0 /\ resolved = <<>> => inFlight > 0

(***************************************************************************)
(* "A stage runs as soon as all its dependencies have succeeded, without   *)
(* waiting for a topological-level barrier": when the coordinator waits,   *)
(* every stage whose dependencies are known to have succeeded is underway  *)
(* or reported.                                                            *)
(***************************************************************************)
NoLevelBarrier ==
  pc = "loop" /\ resolved = <<>> =>
    \A s \in Stages :
      (\A d \in deps[s] : results[d] = "succeeded") => s \in Underway \/ results[s] # None

(***************************************************************************)
(* What Run returns is true: every stage has a terminal state, blocked     *)
(* exactly when some dependency did not succeed, failed exactly when the   *)
(* error lists failures or something cut the run short, and no error means *)
(* that every stage succeeded.                                             *)
(***************************************************************************)
ReportIsTrue ==
  pc = "returned" =>
    /\ \A s \in Stages :
         /\ results[s] # None
         /\ results[s] = "blocked" <=> \E d \in deps[s] : results[d] # "succeeded"
         /\ results[s] = "budget_exceeded" => answer = "budget"
         /\ results[s] = "canceled" => answer = "canceled"
         /\ results[s] = "failed" => answer # "nil"
    /\ answer = "nil" => \A s \in Stages : results[s] = "succeeded"
    /\ answer = "failures" => \E s \in Stages : results[s] = "failed"

(* Once it has begun, Run returns, whatever the stages do and whenever it  *)
(* is canceled.                                                            *)
RunReturns == pc = "loop" ~> pc = "returned"
=============================================================================
