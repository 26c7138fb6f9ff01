-------------------------- MODULE WorkflowProperties --------------------------
(***************************************************************************)
(* What the workflow engine promises, as invariants, action properties and *)
(* a liveness property of module Workflow.                                 *)
(***************************************************************************)
EXTENDS Workflow

Completed(r, i) ==
  \E k \in DOMAIN task[r].snap.completed :
    task[r].snap.completed[k] = StepAt(r, i).name

Compensated(r) == {compensations[r][k] : k \in DOMAIN compensations[r]}

\* No other run writes the snapshot of r.
PrivateId(r) == \A q \in Run : IdOf[q] = IdOf[r] => q = r

Stored(r) == store[IdOf[r]]

\* Retry only repeats an effect that has not succeeded: once a step is
\* complete, whatever save, audit or timer fails later, its execute is never
\* invoked again (runStep; the comment above Object.assign).
NoRepeatAfterSuccess ==
  [][\A r \in Run : \A i \in DOMAIN Steps(r) :
       Completed(r, i) => calls'[r][i] = calls[r][i]]_vars

\* A step is executed at most as often as its retry policy grants, and a run
\* that gives up on a failing step has used every attempt of that step.
RetryBudget ==
  \A r \in Run : \A i \in DOMAIN Steps(r) :
    /\ calls[r][i] <= MaxAttempts(StepAt(r, i))
    /\ task[r].cause = "step" /\ task[r].snap.failed = StepAt(r, i).name
         => calls[r][i] = MaxAttempts(StepAt(r, i))

\* compensate undoes, in reverse order and at most once each, only steps whose
\* effect took place and that were recorded complete.
CompensationSound ==
  \A r \in Run : \A k \in DOMAIN compensations[r] :
    /\ compensations[r][k] \in landed[r] /\ Completed(r, compensations[r][k])
    /\ k > 1 => compensations[r][k] < compensations[r][k - 1]

\* A run that ends failed has attempted the compensation of every completed
\* step that has a handler: a failing handler never stops the others.
FailedIsCompensated ==
  \A r \in Run : task[r].snap.status = "failed" =>
    Compensated(r) = ToCompensate(r, task[r])

\* What a caller is told is what happened: a resolved run executed all its
\* steps and undid none, and the store says completed; with a failure path
\* that ran to its end the caller gets the error that started it.
HonestOutcome ==
  \A r \in Run :
    /\ task[r].pc = "resolved" =>
         /\ DOMAIN Steps(r) \subseteq landed[r]
         /\ compensations[r] = <<>>
         /\ PrivateId(r) => Stored(r).status = "completed"
    /\ task[r].pc = "rejected" /\ task[r].thrown = "step" =>
         /\ task[r].snap.status = "failed"
         /\ PrivateId(r) => Stored(r).status = "failed"

\* Write-ahead of attempts: an effect that took place, or may still take
\* place, belongs to a step whose attempts the store has counted, and no call
\* of execute escapes the count, whatever save failed or process crashed.
StoreCountsCalls ==
  \A r \in Run : PrivateId(r) => \A i \in DOMAIN Steps(r) :
    calls[r][i] > 0 => /\ Stored(r) # NoSnapshot
                       /\ Stored(r).attempts[StepAt(r, i).name] >= calls[r][i]

\* Until the store says failed, it names every step whose effect took place:
\* as completed, as the current step or as the failed one.
StoreLocatesEffects ==
  \A r \in Run : PrivateId(r) /\ landed[r] # {} =>
    Stored(r).status = "failed" \/
    \A i \in landed[r] :
      \/ StepAt(r, i).name \in {Stored(r).current, Stored(r).failed}
      \/ \E k \in DOMAIN Stored(r).completed :
           Stored(r).completed[k] = StepAt(r, i).name

\* Nothing is undone behind a snapshot that still says running or completed.
StoreAdmitsCompensation ==
  \A r \in Run : PrivateId(r) /\ compensations[r] # <<>> =>
    Stored(r).status \in {"compensating", "failed"}

\* Whoever repairs a run after a crash has only the store: it counts every call,
\* locates every effect, admits every compensation and agrees with the outcome
\* the caller was told, and attempts end where the policy says.
StoreIsTruthful ==
  StoreCountsCalls /\ StoreLocatesEffects /\ StoreAdmitsCompensation /\ RetryBudget /\ HonestOutcome

\* A run that settled, or died with its process, does nothing any more; only
\* an execution that was abandoned half-way, by its timer or by the crash,
\* can still take effect.
NothingAfterSettlement ==
  [][\A r \in Run : task[r].pc \in Settled \cup {"crashed"} =>
       /\ calls'[r] = calls[r]
       /\ compensations'[r] = compensations[r]
       /\ task'[r] = task[r]
       /\ landed'[r] \ landed[r] \subseteq inflight[r]]_vars

\* Final audit record: docs/production-hardening.md says that when it fails
\* the completed steps are compensated and the workflow ends failed.
FinalAuditFailureEndsFailed ==
  \A r \in Run :
    task[r].pc = "rejected" /\ task[r].snap.finished =>
      /\ task[r].snap.status = "failed"
      /\ Compensated(r) = ToCompensate(r, task[r])

\* In the end a run that is not over waits for somebody else: its own timers
\* never hold it up, however often steps fail and are retried.  And provided
\* that all it awaits of the user answers - the store, the audit trail, the
\* compensations, and the steps without a timeout - it settles or dies with its
\* process, also when every answer is a failure.  A step with a timeout needs no
\* such proviso, though it may be silent for ever.
Timed(r) == StepAt(r, task[r].at).timed
AwaitsTimer(r) == task[r].pc = "retryDelay" \/ (task[r].pc = "execute" /\ Timed(r))
UserAnswers(r) ==
  \/ EngineStep(r) /\ ~AwaitsTimer(r)
  \/ (ExecuteResolves(r) \/ ExecuteRejects(r)) /\ ~Timed(r)
Settles ==
  \A r \in Run :
    /\ <>[]~AwaitsTimer(r)
    /\ WF_vars(UserAnswers(r)) => (Active(r) ~> ~Active(r))
-----------------------------------------------------------------------------
(* The engine as an implementation of WorkflowContract.                    *)

\* "failed" is reached when the compensation is over, before that is saved;
\* a settled or dead run that is neither completed nor failed was given up.
ContractPhase(t) ==
  CASE t.pc = "idle" -> "idle"
    [] t.pc = "resolved" -> "completed"
    [] t.pc \notin {"idle", "resolved"} /\ t.snap.status = "failed" -> "failed"
    [] t.pc \in {"rejected", "crashed"} /\ t.snap.status # "failed" -> "aborted"
    [] t.pc \in Awaits /\ t.snap.status = "compensating" -> "undoing"
    [] OTHER -> "running"

ContractPhases == [r \in Run |-> ContractPhase(task[r])]
DoneCounts == [r \in Run |-> Len(task[r].snap.completed)]
UndoneSteps == [r \in Run |-> Compensated(r)]

Contract == INSTANCE WorkflowContract WITH
  Length <- [r \in Run |-> Len(Steps(r))],
  Undoable <- [r \in Run |-> {i \in DOMAIN Steps(r) : StepAt(r, i).compensable}],
  phase <- ContractPhases, done <- DoneCounts, undone <- UndoneSteps,
  effects <- landed

\* The engine, with its retries, timeouts, snapshots and audits, under every
\* fault and crash, keeps the contract of a run: all steps in order and none
\* undone, or what was done undone from the last step to the first.
ImplementsContract == Contract!Spec

===============================================================================
