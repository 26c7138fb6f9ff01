------------------------------- MODULE Workflow -------------------------------
(***************************************************************************)
(* The in-process workflow engine (src/kernel/workflow/Saga.ts).           *)
(*                                                                         *)
(* A workflow definition is a list of steps.  A run executes them in       *)
(* order, persists a snapshot around every step, retries a failing step,   *)
(* and on any failure compensates the completed steps in reverse order.    *)
(* Every `await` of the engine is one atomic step of this specification:   *)
(* the code between two awaits runs without interruption, the awaited call *)
(* (snapshot store, audit trail, step effect, compensation, timer) may     *)
(* fail, and other runs, late effects and a crash interleave in between.   *)
(***************************************************************************)
EXTENDS Integers, Sequences, FiniteSets

CONSTANTS
  Name,       \* workflow names
  StepName,   \* step names
  StepsOf,    \* StepsOf[w]: the step list of the definition named w
  Triggered,  \* definitions that carry a startOn trigger
  Run,        \* calls of WorkflowEngine.start
  WorkflowOf, \* WorkflowOf[r]: the workflow that run r starts
  ByEvent,    \* runs started by a bus event, the others by a caller
  Id,         \* snapshot identifiers
  IdOf,       \* IdOf[r]: the identifier of run r (options.id, or a fresh one)
  Faults,     \* what may fail: a subset of FaultKinds
  MaxCrashes, \* bound on process crashes
  NoStep,     \* an absent currentStep or failedStep
  NoSnapshot  \* an identifier the store has no snapshot for

FaultKinds == {"step", "timeout", "compensate", "save", "audit", "subscribe"}

StepDef == [name : StepName, attempts : Int, timed : BOOLEAN,
            delayed : BOOLEAN, compensable : BOOLEAN]

ASSUME WorkflowAssumption ==
  /\ StepsOf \in [Name -> Seq(StepDef)]
  /\ Triggered \subseteq Name
  /\ WorkflowOf \in [Run -> Name]
  /\ ByEvent \subseteq Run
  /\ IdOf \in [Run -> Id]
  /\ Faults \subseteq FaultKinds
  /\ MaxCrashes \in Nat
  /\ NoStep \notin StepName

VARIABLES
  registered,    \* definitions the engine holds
  subscribed,    \* definitions whose trigger is subscribed on the bus
  task,          \* task[r]: the stack frame of run r and its live snapshot
  store,         \* store[id]: the snapshot last written for id
  crashes,       \* how often the process crashed
  calls,         \* calls[r][i]: invocations of execute of step i (history)
  inflight,      \* inflight[r]: steps with a timed-out execution still going on
  landed,        \* landed[r]: steps whose effect took place (history)
  compensations  \* compensations[r]: steps compensated, in order (history)

engineVars == <<registered, subscribed, crashes>>
effectVars == <<calls, inflight, landed>>
vars == <<engineVars, task, store, effectVars, compensations>>

-----------------------------------------------------------------------------
(* Definitions, snapshots and stack frames.                                *)

Position == UNION {DOMAIN StepsOf[w] : w \in Name}
Steps(r) == StepsOf[WorkflowOf[r]]
StepAt(r, i) == Steps(r)[i]

Status == {"running", "compensating", "completed", "failed"}

Snapshot == [status : Status, current : StepName \cup {NoStep},
             failed : StepName \cup {NoStep}, completed : Seq(StepName),
             attempts : [StepName -> Nat], finished : BOOLEAN, error : BOOLEAN]

ASSUME StoreAssumption == NoSnapshot \notin Snapshot

\* The snapshot a new run starts from.
NewSnapshot ==
  [status |-> "running", current |-> NoStep, failed |-> NoStep,
   completed |-> <<>>, attempts |-> [n \in StepName |-> 0],
   finished |-> FALSE, error |-> FALSE]

Awaits == {"startSave", "startAudit", "stepSave", "attemptSave", "execute",
           "retryDelay", "stepFailSave", "stepFailAudit", "stepDoneSave",
           "stepDoneAudit", "completedSave", "completedAudit",
           "compensatingSave", "compensate", "compDoneAudit",
           "compFailAudit", "failedSave", "failedAudit"}

Settled == {"resolved", "rejected"}

\* cause: the error caught by start; thrown: the error its caller receives.
Error == {"none", "unknown", "step", "save", "audit"}

Task == [pc : Awaits \cup Settled \cup {"idle", "crashed"},
         at : Nat, attempt : Nat, snap : Snapshot,
         cause : Error, thrown : Error]

Active(r) == task[r].pc \in Awaits

\* Mutant: register without the duplicate-name check.
UniqueNamesUnchecked(steps) == TRUE

\* Two steps of one definition never share a name.
UniqueNames(steps) ==
  \A i, j \in DOMAIN steps : steps[i].name = steps[j].name => i = j

\* Attempts granted to a step: Math.max(1, retry.attempts).
MaxAttempts(step) == IF step.attempts > 1 THEN step.attempts ELSE 1

-----------------------------------------------------------------------------
(* What the code does between two awaits, as functions of the frame.       *)

Goto(t, l) == [t EXCEPT !.pc = l]

Throw(t, e) == [t EXCEPT !.pc = "rejected", !.thrown = e]

\* catch (err) of start, then compensate up to its first save.
Fail(t, e) ==
  [t EXCEPT !.pc = "compensatingSave", !.cause = e,
            !.snap.status = "compensating"]

BeginStep(r, t, i) ==
  IF i <= Len(Steps(r))
    THEN [t EXCEPT !.pc = "stepSave", !.at = i,
                   !.snap.current = StepAt(r, i).name]
    ELSE [t EXCEPT !.pc = "completedSave", !.snap.status = "completed",
                   !.snap.current = NoStep, !.snap.finished = TRUE]

BeginAttempt(r, t, n) ==
  [t EXCEPT !.pc = "attemptSave", !.attempt = n,
            !.snap.attempts[StepAt(r, t.at).name] = n]

\* execute rejected or timed out: retry, or give up on the step.
AttemptFailed(r, t) ==
  LET step == StepAt(r, t.at)
  IN  CASE t.attempt >= MaxAttempts(step) ->
             [t EXCEPT !.pc = "stepFailSave", !.snap.failed = step.name]
        [] t.attempt < MaxAttempts(step) /\ step.delayed ->
             [t EXCEPT !.pc = "retryDelay"]
        [] OTHER -> BeginAttempt(r, t, t.attempt + 1)

\* execute resolved: the step is complete before anything is persisted.
StepDone(r, t) ==
  [t EXCEPT !.pc = "stepDoneSave", !.snap.current = NoStep,
            !.snap.completed = Append(@, StepAt(r, t.at).name)]

\* The steps compensate works through: completed ones that have a handler.
ToCompensate(r, t) ==
  {i \in DOMAIN Steps(r) :
     /\ \E k \in DOMAIN t.snap.completed :
          t.snap.completed[k] = StepAt(r, i).name
     /\ StepAt(r, i).compensable}

\* The next compensation below position i, or the end of the failure path.
CompensateBelow(r, t, i) ==
  LET below == {j \in ToCompensate(r, t) : j < i}
  IN  IF below # {}
        THEN [t EXCEPT !.pc = "compensate",
                       !.at = CHOOSE j \in below : \A k \in below : k <= j]
        ELSE [t EXCEPT !.pc = "failedSave", !.snap.status = "failed",
                       !.snap.current = NoStep, !.snap.error = TRUE]

-----------------------------------------------------------------------------
(* The awaited calls.                                                      *)

\* store.save of an injected store: a rejected save may or may not have
\* reached it.
Save(r, ok) ==
  LET written == [store EXCEPT ![IdOf[r]] = task[r].snap]
  IN  IF ok THEN store' = written
            ELSE "save" \in Faults /\ store' \in {store, written}

Audit(ok) == ok \/ "audit" \in Faults

\* A save of run r at await l: continue with onOk, or with onError.
SaveAt(r, l, onOk, onError) ==
  /\ task[r].pc = l
  /\ \E ok \in BOOLEAN :
       /\ Save(r, ok)
       /\ task' = [task EXCEPT ![r] = IF ok THEN onOk ELSE onError]
  /\ UNCHANGED <<engineVars, effectVars, compensations>>

\* An audit record of run r at await l.
AuditAt(r, l, onOk, onError) ==
  /\ task[r].pc = l
  /\ \E ok \in BOOLEAN :
       /\ Audit(ok)
       /\ task' = [task EXCEPT ![r] = IF ok THEN onOk ELSE onError]
  /\ UNCHANGED <<engineVars, store, effectVars, compensations>>

-----------------------------------------------------------------------------
(* Registration.                                                           *)

\* The definition is stored before its trigger is subscribed: a bus that
\* refuses the subscription leaves a registered, never triggered workflow.
Register(w) ==
  /\ w \notin registered
  /\ UniqueNames(StepsOf[w])
  /\ registered' = registered \cup {w}
  /\ \E ok \in BOOLEAN :
       /\ ok \/ "subscribe" \in Faults
       /\ subscribed' = IF ok /\ w \in Triggered THEN subscribed \cup {w}
                                                 ELSE subscribed
  /\ UNCHANGED <<crashes, task, store, effectVars, compensations>>

(* start, up to its first await; outside the try block until "stepSave".   *)

Start(r) ==
  /\ task[r].pc = "idle"
  /\ WorkflowOf[r] \in (IF r \in ByEvent THEN subscribed ELSE registered)
  /\ task' = [task EXCEPT ![r].pc = "startSave"]
  /\ UNCHANGED <<engineVars, store, effectVars, compensations>>

StartUnknown(r) ==
  /\ task[r].pc = "idle"
  /\ r \notin ByEvent
  /\ WorkflowOf[r] \notin registered
  /\ task' = [task EXCEPT ![r] = Throw(@, "unknown")]
  /\ UNCHANGED <<engineVars, store, effectVars, compensations>>

StartSave(r) ==
  SaveAt(r, "startSave", Goto(task[r], "startAudit"), Throw(task[r], "save"))

StartAudit(r) ==
  AuditAt(r, "startAudit", BeginStep(r, task[r], 1), Throw(task[r], "audit"))

(* runStep.                                                                *)

StepSave(r) ==
  SaveAt(r, "stepSave", BeginAttempt(r, task[r], 1), Fail(task[r], "save"))

\* Mutant: the attempt is persisted on a best-effort basis.
AttemptSaveBestEffort(r) ==
  /\ task[r].pc = "attemptSave"
  /\ \E ok \in BOOLEAN : Save(r, ok)
  /\ task' = [task EXCEPT ![r].pc = "execute"]
  /\ calls' = [calls EXCEPT ![r][task[r].at] = @ + 1]
  /\ UNCHANGED <<engineVars, inflight, landed, compensations>>

\* execute is invoked in the same turn the save of the attempt resolves.
AttemptSave(r) ==
  LET t == task[r]
  IN  /\ t.pc = "attemptSave"
      /\ \E ok \in BOOLEAN :
           /\ Save(r, ok)
           /\ task' = [task EXCEPT ![r] = IF ok THEN [t EXCEPT !.pc = "execute"]
                                                ELSE Fail(t, "save")]
           /\ calls' = IF ok THEN [calls EXCEPT ![r][t.at] = @ + 1] ELSE calls
      /\ UNCHANGED <<engineVars, inflight, landed, compensations>>

ExecuteResolves(r) ==
  /\ task[r].pc = "execute"
  /\ task' = [task EXCEPT ![r] = StepDone(r, @)]
  /\ landed' = [landed EXCEPT ![r] = @ \cup {task[r].at}]
  /\ UNCHANGED <<engineVars, store, calls, inflight, compensations>>

\* A rejected execute may have had its effect, in whole or in part.
ExecuteRejects(r) ==
  /\ task[r].pc = "execute"
  /\ "step" \in Faults
  /\ task' = [task EXCEPT ![r] = AttemptFailed(r, @)]
  /\ \E effect \in SUBSET {task[r].at} :
       landed' = [landed EXCEPT ![r] = @ \cup effect]
  /\ UNCHANGED <<engineVars, store, calls, inflight, compensations>>

\* Mutant: the timer is armed for the first attempt only.
ExecuteTimesOutOnce(r) ==
  /\ task[r].pc = "execute"
  /\ StepAt(r, task[r].at).timed /\ task[r].attempt = 1
  /\ "timeout" \in Faults
  /\ task' = [task EXCEPT ![r] = AttemptFailed(r, @)]
  /\ inflight' = [inflight EXCEPT ![r] = @ \cup {task[r].at}]
  /\ UNCHANGED <<engineVars, store, calls, landed, compensations>>

\* The timer wins the race of withTimeout; the operation itself goes on.
ExecuteTimesOut(r) ==
  /\ task[r].pc = "execute"
  /\ StepAt(r, task[r].at).timed
  /\ "timeout" \in Faults
  /\ task' = [task EXCEPT ![r] = AttemptFailed(r, @)]
  /\ inflight' = [inflight EXCEPT ![r] = @ \cup {task[r].at}]
  /\ UNCHANGED <<engineVars, store, calls, landed, compensations>>

\* Mutant: the result of an abandoned execution is still applied.
LateEffectApplied(r) ==
  /\ \E i \in inflight[r] :
       /\ landed' = [landed EXCEPT ![r] = @ \cup {i}]
       /\ inflight' = [inflight EXCEPT ![r] = @ \ {i}]
       /\ task' = [task EXCEPT ![r].snap.completed =
                                  Append(@, StepAt(r, i).name)]
  /\ UNCHANGED <<engineVars, store, calls, compensations>>

\* An abandoned operation takes effect after its timeout, result discarded.
LateEffect(r) ==
  /\ \E i \in inflight[r] :
       /\ landed' = [landed EXCEPT ![r] = @ \cup {i}]
       /\ inflight' = [inflight EXCEPT ![r] = @ \ {i}]
  /\ UNCHANGED <<engineVars, task, store, calls, compensations>>

RetryDelay(r) ==
  /\ task[r].pc = "retryDelay"
  /\ task' = [task EXCEPT ![r] = BeginAttempt(r, @, @.attempt + 1)]
  /\ UNCHANGED <<engineVars, store, effectVars, compensations>>

StepFailSave(r) ==
  SaveAt(r, "stepFailSave", Goto(task[r], "stepFailAudit"),
         Fail(task[r], "save"))

\* Mutant: a step that failed for good does not end the run.
StepFailAuditGoesOn(r) ==
  AuditAt(r, "stepFailAudit", BeginStep(r, task[r], task[r].at + 1),
         Fail(task[r], "audit"))

StepFailAudit(r) ==
  AuditAt(r, "stepFailAudit", Fail(task[r], "step"), Fail(task[r], "audit"))

StepDoneSave(r) ==
  SaveAt(r, "stepDoneSave", Goto(task[r], "stepDoneAudit"),
         Fail(task[r], "save"))

\* Mutant: the retry loop also covers the audit of the completed step.
StepDoneAuditRetried(r) ==
  AuditAt(r, "stepDoneAudit", BeginStep(r, task[r], task[r].at + 1),
         AttemptFailed(r, task[r]))

StepDoneAudit(r) ==
  AuditAt(r, "stepDoneAudit", BeginStep(r, task[r], task[r].at + 1),
         Fail(task[r], "audit"))

(* The end of start's try block.                                           *)

CompletedSave(r) ==
  SaveAt(r, "completedSave", Goto(task[r], "completedAudit"),
         Fail(task[r], "save"))

CompletedAudit(r) ==
  AuditAt(r, "completedAudit", Goto(task[r], "resolved"),
         Fail(task[r], "audit"))

(* compensate, and the rest of start's catch block.                        *)

CompensatingSave(r) ==
  SaveAt(r, "compensatingSave", CompensateBelow(r, task[r], Len(Steps(r)) + 1),
         Throw(task[r], "save"))

Compensate(r) ==
  LET t == task[r]
  IN  /\ t.pc = "compensate"
      /\ compensations' = [compensations EXCEPT ![r] = Append(@, t.at)]
      /\ \/ task' = [task EXCEPT ![r].pc = "compDoneAudit"]
         \/ /\ "compensate" \in Faults
            /\ task' = [task EXCEPT ![r].pc = "compFailAudit"]
      /\ UNCHANGED <<engineVars, store, effectVars>>

\* A failed audit of a successful compensation lands in the same catch as a
\* failed compensation.
CompDoneAudit(r) ==
  AuditAt(r, "compDoneAudit", CompensateBelow(r, task[r], task[r].at),
         Goto(task[r], "compFailAudit"))

\* Mutant: a failed compensation ends the loop.
CompFailAuditStops(r) ==
  AuditAt(r, "compFailAudit", CompensateBelow(r, task[r], 0),
         Throw(task[r], "audit"))

\* This audit is outside any try: its failure leaves compensate and start.
CompFailAudit(r) ==
  AuditAt(r, "compFailAudit", CompensateBelow(r, task[r], task[r].at),
         Throw(task[r], "audit"))

FailedSave(r) ==
  SaveAt(r, "failedSave", Goto(task[r], "failedAudit"), Throw(task[r], "save"))

FailedAudit(r) ==
  AuditAt(r, "failedAudit", Throw(task[r], task[r].cause),
         Throw(task[r], "audit"))

\* Mutant: the subscriptions of the dead process are kept.
CrashKeepsTriggers ==
  /\ crashes < MaxCrashes
  /\ crashes' = crashes + 1
  /\ registered' = {}
  /\ task' = [r \in Run |-> IF Active(r) THEN [task[r] EXCEPT !.pc = "crashed"]
                                         ELSE task[r]]
  /\ UNCHANGED <<subscribed, inflight, store, calls, landed, compensations>>

(* The process dies: every frame and registration is gone, the store and   *)
(* the effects are not; an operation already under way may still land.     *)

Crash ==
  /\ crashes < MaxCrashes
  /\ crashes' = crashes + 1
  /\ registered' = {}
  /\ subscribed' = {}
  /\ inflight' = [r \in Run |-> inflight[r] \cup
                    (IF task[r].pc = "execute" THEN {task[r].at} ELSE {})]
  /\ task' = [r \in Run |-> IF Active(r) THEN [task[r] EXCEPT !.pc = "crashed"]
                                         ELSE task[r]]
  /\ UNCHANGED <<store, calls, landed, compensations>>

-----------------------------------------------------------------------------

Init ==
  /\ registered = {}
  /\ subscribed = {}
  /\ crashes = 0
  /\ task = [r \in Run |-> [pc |-> "idle", at |-> 0, attempt |-> 0,
                            snap |-> NewSnapshot, cause |-> "none",
                            thrown |-> "none"]]
  /\ store = [id \in Id |-> NoSnapshot]
  /\ calls = [r \in Run |-> [i \in Position |-> 0]]
  /\ inflight = [r \in Run |-> {}]
  /\ landed = [r \in Run |-> {}]
  /\ compensations = [r \in Run |-> <<>>]

\* What the engine does when a promise it awaits settles: of the store, the
\* audit trail, a timer or a compensation handler.
EngineStep(r) ==
  \/ StartSave(r) \/ StartAudit(r) \/ StepSave(r) \/ AttemptSave(r)
  \/ ExecuteTimesOut(r) \/ RetryDelay(r)
  \/ StepFailSave(r) \/ StepFailAudit(r) \/ StepDoneSave(r) \/ StepDoneAudit(r)
  \/ CompletedSave(r) \/ CompletedAudit(r) \/ CompensatingSave(r)
  \/ Compensate(r) \/ CompDoneAudit(r) \/ CompFailAudit(r)
  \/ FailedSave(r) \/ FailedAudit(r)

RunStep(r) ==
  \/ Start(r) \/ StartUnknown(r)
  \/ ExecuteResolves(r) \/ ExecuteRejects(r) \/ LateEffect(r)
  \/ EngineStep(r)

Next ==
  \/ \E w \in Name : Register(w)
  \/ \E r \in Run : RunStep(r)
  \/ Crash

Spec == Init /\ [][Next]_vars

\* The only promises the engine settles by itself: its timers fire.  Steps,
\* compensations, the store and the audit trail are the user's, and nothing
\* makes them answer.
TimerStep(r) == ExecuteTimesOut(r) \/ RetryDelay(r)
FairSpec == Spec /\ \A r \in Run : WF_vars(TimerStep(r))
-----------------------------------------------------------------------------
\* Every variable keeps its type: frames, snapshots, store and history.
TypeOK ==
  /\ registered \subseteq Name
  /\ subscribed \subseteq registered
  /\ crashes \in 0 .. MaxCrashes
  /\ task \in [Run -> Task]
  /\ store \in [Id -> Snapshot \cup {NoSnapshot}]
  /\ calls \in [Run -> [Position -> Nat]]
  /\ inflight \in [Run -> SUBSET Position]
  /\ landed \in [Run -> SUBSET Position]
  /\ compensations \in [Run -> Seq(Position)]
===============================================================================
