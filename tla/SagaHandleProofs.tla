--------------------------- MODULE SagaHandleProofs ---------------------------
(***************************************************************************)
(* What a saga handle shows between two calls of run() is what the store   *)
(* has and what a run did, for every set of handles, workflows and faults. *)
(***************************************************************************)
EXTENDS SagaHandle, WorkflowProofs

-----------------------------------------------------------------------------
(* The inductive invariant.                                                *)

\* Where the call of a run and the frame of the run stand together.
CallPlace(c, pc) ==
  /\ c = "idle" <=> pc = "idle"
  /\ c = "start" => pc \in Awaits \cup Settled
  /\ c = "done" => pc \in Settled
  /\ c \in {"get", "got", "lost"} => pc = "rejected"

CallsOK == \A r \in Run : CallPlace(caller[r], task[r].pc)

OverlapsAreSeen ==
  \A r, q \in Run :
    q # r /\ IdOf[q] = IdOf[r] /\ UnderWay(r) /\ UnderWay(q) => IdOf[r] \in overlap

Agrees(s, t) ==
  s # NoSnapshot /\ s.status = t.snap.status /\ s.completed = t.snap.completed

\* A call alone on its handle that got to the final audit finds its own end in
\* the store, and one whose get was answered still finds what get answered.
EndIsStored ==
  \A r \in Run : caller[r] = "start" /\ IdOf[r] \notin overlap
                   /\ task[r].pc \in {"completedAudit", "resolved"} =>
    Agrees(store[IdOf[r]], task[r])

FoundIsStored ==
  \A r \in Run : caller[r] = "got" /\ IdOf[r] \notin overlap =>
    found[r] = store[IdOf[r]]

\* The awaits at which the snapshot "completed" of a run may be the last one.
Ends == {"completedAudit", "resolved", "compensatingSave", "rejected"}

Finished(r, t, L, C) ==
  t.pc \in Ends /\ DOMAIN Steps(r) \subseteq L /\ C = <<>>

HasStatus(s, status) == s # NoSnapshot /\ s.status = status

CompletedIsReal ==
  \A id \in Id : HasStatus(store[id], "completed") =>
    \E r \in Run : IdOf[r] = id /\ Finished(r, task[r], landed[r], compensations[r])

FailedIsReal ==
  \A id \in Id : HasStatus(store[id], "failed") =>
    \E r \in Run : IdOf[r] = id /\ task[r].snap.status = "failed"

EngineInv == IInv /\ PhaseInv
CallInv == HandleTypeOK /\ CallsOK /\ OverlapsAreSeen
CopyInv == EndIsStored /\ FoundIsStored /\ HandleFollowsStore
OutcomeInv == CompletedIsReal /\ FailedIsReal
HandleInv == EngineInv /\ CallInv /\ CopyInv /\ OutcomeInv

-----------------------------------------------------------------------------
(* What a step of the engine for run r does to the rest of the state.      *)

\* The step leaves the store alone.
Keeps(r) ==
  /\ store' = store
  /\ task'[r].pc = "completedAudit" => task'[r] = task[r]
  /\ task'[r].pc = "resolved" => /\ task[r].pc \in {"completedAudit", "resolved"}
                                 /\ task'[r].snap = task[r].snap
  /\ task[r].pc \in Ends =>
       task'[r].pc \in Ends /\ compensations'[r] = compensations[r]

\* The step writes the snapshot of the run.
Writes(r) ==
  /\ store' = [store EXCEPT ![IdOf[r]] = task[r].snap]
  /\ task[r].pc \in Awaits
  /\ task'[r].pc # "resolved"
  /\ task'[r].pc = "completedAudit" => task'[r].snap = task[r].snap
  /\ task[r].snap.status = "completed" =>
       Finished(r, task'[r], landed'[r], compensations'[r])

EngineEffect(r) ==
  /\ \A q \in Run \ {r} : task'[q] = task[q] /\ compensations'[q] = compensations[q]
  /\ \A q \in Run : landed[q] \subseteq landed'[q]
  /\ task[r].pc \in Awaits => task'[r].pc \in Awaits \cup Settled
  /\ task[r].pc \notin Awaits => task'[r] = task[r] /\ Keeps(r)
  /\ task[r].snap.status = "failed" => task'[r].snap.status = "failed"
  /\ Keeps(r) \/ Writes(r)

LEMMA FrameIs ==
  ASSUME EngineInv, NEW r \in Run
  PROVE  /\ task[r] \in Task /\ StatusOK(task[r]) /\ task[r].snap \in Snapshot
         /\ FrameOK(r, task[r], landed[r], compensations[r])
         /\ IdOf[r] \in Id
<1>1. task[r] \in Task /\ FrameOK(r, task[r], landed[r], compensations[r])
  BY FrameAt DEF EngineInv
<1>2. StatusOK(task[r])
  BY DEF EngineInv, PhaseInv
<1>3. QED
  BY <1>1, <1>2, StepTypes DEF Task

\* Only a run whose failure path is over is failed, and only at its last save
\* or audit is a run completed: all its steps took effect then.
LEMMA StatusIs ==
  ASSUME EngineInv, NEW r \in Run, task[r].pc \in Awaits
  PROVE  /\ task[r].snap.status = "failed" => task[r].pc \in Ending
         /\ task[r].snap.status = "completed" =>
              /\ task[r].pc \in Finishing /\ DOMAIN Steps(r) \subseteq landed[r]
              /\ compensations[r] = <<>>
<1>1. /\ task[r] \in Task /\ StatusOK(task[r])
      /\ FrameOK(r, task[r], landed[r], compensations[r])
  BY FrameIs
<1>2. ASSUME task[r].snap.status = "failed" PROVE task[r].pc \in Ending
  BY <1>1, <1>2 DEF StatusOK, Awaits, Starting, BeforeDone, AfterDone,
     Finishing, Undoing, Ending, AfterCompensation
<1>3. ASSUME task[r].snap.status = "completed" PROVE task[r].pc \in Finishing
  BY <1>1, <1>3 DEF StatusOK, Awaits, Starting, BeforeDone, AfterDone,
     Finishing, Undoing, Ending, AfterCompensation
<1>4. ASSUME task[r].pc \in Finishing
      PROVE  DOMAIN Steps(r) \subseteq landed[r] /\ compensations[r] = <<>>
  <2>1. Len(task[r].snap.completed) = Len(Steps(r))
    BY <1>1, <1>4 DEF FrameOK, PlaceOK
  <2>2. \A k \in 1 .. Len(Steps(r)) : k \in landed[r]
    BY <1>1, <2>1 DEF FrameOK, PrefixOK
  <2>3. DOMAIN Steps(r) = 1 .. Len(Steps(r))
    BY StepTypes
  <2>4. compensations[r] = <<>>
    BY <1>1, <1>4 DEF FrameOK, UndoOK, Forward
  <2>5. QED
    BY <2>2, <2>3, <2>4
<1>5. QED
  BY <1>2, <1>3, <1>4

LEMMA SaveEffect ==
  ASSUME EngineInv, NEW r \in Run, NEW l \in Awaits \ {"completedAudit"},
         NEW onOk, NEW onError,
         SaveAt(r, l, onOk, onError),
         onOk.pc \in (Awaits \cup Settled) \ {"resolved"},
         onError.pc \in {"compensatingSave", "rejected"},
         onOk.pc = "completedAudit" => onOk.snap = task[r].snap,
         l \in Ending => onOk.snap = task[r].snap /\ onError.snap = task[r].snap,
         l = "completedSave" => onOk.pc \in Ends
  PROVE  EngineEffect(r)
<1>1. PICK ok \in BOOLEAN :
        /\ Save(r, ok)
        /\ task' = [task EXCEPT ![r] = IF ok THEN onOk ELSE onError]
  BY DEF SaveAt
<1>2. /\ task[r].pc = l
      /\ UNCHANGED <<calls, inflight, landed, compensations>>
  BY DEF SaveAt, effectVars
<1>3. task \in [Run -> Task]
  BY DEF EngineInv, IInv, TypeOK
<1>4. /\ task'[r] = IF ok THEN onOk ELSE onError
      /\ \A q \in Run \ {r} : task'[q] = task[q]
  BY <1>1, <1>3
<1>5. task'[r].pc \in Awaits \cup Settled
  BY <1>4 DEF Awaits, Settled
<1>6. task[r].snap.status = "failed" => task'[r].snap.status = "failed"
  BY <1>2, <1>4, StatusIs
<1>7. task[r].snap.status = "completed" =>
        Finished(r, task'[r], landed'[r], compensations'[r])
  <2>1. SUFFICES ASSUME task[r].snap.status = "completed"
                 PROVE  Finished(r, task'[r], landed'[r], compensations'[r])
    OBVIOUS
  <2>2. /\ l = "completedSave" /\ DOMAIN Steps(r) \subseteq landed[r]
        /\ compensations[r] = <<>>
    BY <1>2, <2>1, StatusIs DEF Finishing
  <2>3. task'[r].pc \in Ends
    BY <1>4, <2>2 DEF Ends
  <2>4. QED
    BY <1>2, <2>2, <2>3 DEF Finished
<1>8. task'[r].pc # "resolved"
      /\ (task'[r].pc = "completedAudit" => task'[r].snap = task[r].snap)
  BY <1>4 DEF Awaits
<1>9. CASE store' = [store EXCEPT ![IdOf[r]] = task[r].snap]
  <2>1. Writes(r)
    BY <1>2, <1>7, <1>8, <1>9 DEF Writes
  <2>2. QED
    BY <1>2, <1>4, <1>5, <1>6, <2>1 DEF EngineEffect
<1>10. CASE store' # [store EXCEPT ![IdOf[r]] = task[r].snap]
  <2>1. store' = store /\ ok = FALSE
    BY <1>1, <1>10 DEF Save
  <2>2. task'[r].pc \in {"compensatingSave", "rejected"}
    BY <1>4, <2>1
  <2>3. Keeps(r)
    BY <1>2, <2>1, <2>2 DEF Keeps, Ends
  <2>4. QED
    BY <1>2, <1>4, <1>5, <1>6, <2>3 DEF EngineEffect
<1>11. QED
  BY <1>9, <1>10

\* A step of run r that leaves the store alone.
LEMMA QuietEffect ==
  ASSUME EngineInv, NEW r \in Run, task[r].pc \in Awaits,
         \A q \in Run \ {r} : task'[q] = task[q] /\ compensations'[q] = compensations[q],
         \A q \in Run : landed[q] \subseteq landed'[q],
         store' = store,
         task'[r].pc \in (Awaits \cup Settled) \ {"completedAudit"},
         task'[r].pc = "resolved" =>
           task[r].pc = "completedAudit" /\ task'[r].snap = task[r].snap,
         task[r].pc \in Ending => task'[r].snap = task[r].snap,
         task[r].pc \in Ends =>
           task'[r].pc \in Ends /\ compensations'[r] = compensations[r]
  PROVE  EngineEffect(r)
<1>1. Keeps(r)
  BY DEF Keeps
<1>2. task[r].snap.status = "failed" => task'[r].snap.status = "failed"
  BY StatusIs
<1>3. QED
  BY <1>1, <1>2 DEF EngineEffect

LEMMA AuditEffect ==
  ASSUME EngineInv, NEW r \in Run, NEW l \in Awaits \ {"compensatingSave"},
         NEW onOk, NEW onError,
         AuditAt(r, l, onOk, onError),
         onOk.pc \in (Awaits \cup Settled) \ {"completedAudit"},
         onError.pc \in (Awaits \cup {"rejected"}) \ {"completedAudit"},
         onOk.pc = "resolved" => l = "completedAudit" /\ onOk.snap = task[r].snap,
         l \in Ending => onOk.snap = task[r].snap /\ onError.snap = task[r].snap,
         l = "completedAudit" => onOk.pc \in Ends /\ onError.pc \in Ends
  PROVE  EngineEffect(r)
<1>1. PICK ok \in BOOLEAN :
        task' = [task EXCEPT ![r] = IF ok THEN onOk ELSE onError]
  BY DEF AuditAt
<1>2. /\ task[r].pc = l
      /\ UNCHANGED <<store, calls, inflight, landed, compensations>>
  BY DEF AuditAt, effectVars
<1>3. task \in [Run -> Task]
  BY DEF EngineInv, IInv, TypeOK
<1>4. /\ task'[r] = IF ok THEN onOk ELSE onError
      /\ \A q \in Run \ {r} : task'[q] = task[q]
  BY <1>1, <1>3
<1>5. task'[r].pc \in (Awaits \cup Settled) \ {"completedAudit"}
  BY <1>4 DEF Settled
<1>6. task'[r].pc = "resolved" =>
        task[r].pc = "completedAudit" /\ task'[r].snap = task[r].snap
  BY <1>2, <1>4 DEF Awaits
<1>7. l \in Ends => l = "completedAudit"
  BY DEF Ends, Awaits
<1>8. QED
  BY <1>2, <1>4, <1>5, <1>6, <1>7, QuietEffect

\* A frame of run r after a transformer: what the two lemmas above ask of it.
LEMMA FrameMoves ==
  ASSUME NEW r \in Run, NEW t \in Task
  PROVE  /\ \A l : Goto(t, l).pc = l /\ Goto(t, l).snap = t.snap
         /\ \A e : Throw(t, e).pc = "rejected" /\ Throw(t, e).snap = t.snap
         /\ \A e : Fail(t, e).pc = "compensatingSave"
         /\ \A i : BeginStep(r, t, i).pc \in {"stepSave", "completedSave"}
         /\ \A n : BeginAttempt(r, t, n).pc = "attemptSave"
         /\ \A i : CompensateBelow(r, t, i).pc \in {"compensate", "failedSave"}
BY DEF Goto, Throw, Fail, BeginStep, BeginAttempt, CompensateBelow, Task

LEMMA SavesEffect ==
  ASSUME EngineInv, NEW r \in Run,
         \/ StartSave(r) \/ StepSave(r) \/ StepFailSave(r) \/ StepDoneSave(r)
         \/ CompletedSave(r) \/ CompensatingSave(r) \/ FailedSave(r)
  PROVE  EngineEffect(r)
<1>1. task[r] \in Task
  BY FrameIs
<1> USE DEF Awaits, Settled, Ending, Ends
<1>2. CASE StartSave(r)
  <2>1. PICK u, v : u = Goto(task[r], "startAudit") /\ v = Throw(task[r], "save")
    OBVIOUS
  <2>2. /\ u.pc = "startAudit" /\ u.snap = task[r].snap
        /\ v.pc = "rejected" /\ v.snap = task[r].snap
    BY <1>1, <2>1, FrameMoves
  <2>3. SaveAt(r, "startSave", u, v)
    BY <1>2, <2>1 DEF StartSave
  <2>4. QED
    BY <2>2, <2>3, SaveEffect
<1>3. CASE StepSave(r)
  <2>1. PICK u, v : u = BeginAttempt(r, task[r], 1) /\ v = Fail(task[r], "save")
    OBVIOUS
  <2>2. /\ u.pc = "attemptSave"
        /\ v.pc = "compensatingSave"
    BY <1>1, <2>1, FrameMoves
  <2>3. SaveAt(r, "stepSave", u, v)
    BY <1>3, <2>1 DEF StepSave
  <2>4. QED
    BY <2>2, <2>3, SaveEffect
<1>4. CASE StepFailSave(r)
  <2>1. PICK u, v : u = Goto(task[r], "stepFailAudit") /\ v = Fail(task[r], "save")
    OBVIOUS
  <2>2. /\ u.pc = "stepFailAudit" /\ u.snap = task[r].snap
        /\ v.pc = "compensatingSave"
    BY <1>1, <2>1, FrameMoves
  <2>3. SaveAt(r, "stepFailSave", u, v)
    BY <1>4, <2>1 DEF StepFailSave
  <2>4. QED
    BY <2>2, <2>3, SaveEffect
<1>5. CASE StepDoneSave(r)
  <2>1. PICK u, v : u = Goto(task[r], "stepDoneAudit") /\ v = Fail(task[r], "save")
    OBVIOUS
  <2>2. /\ u.pc = "stepDoneAudit" /\ u.snap = task[r].snap
        /\ v.pc = "compensatingSave"
    BY <1>1, <2>1, FrameMoves
  <2>3. SaveAt(r, "stepDoneSave", u, v)
    BY <1>5, <2>1 DEF StepDoneSave
  <2>4. QED
    BY <2>2, <2>3, SaveEffect
<1>6. CASE CompletedSave(r)
  <2>1. PICK u, v : u = Goto(task[r], "completedAudit") /\ v = Fail(task[r], "save")
    OBVIOUS
  <2>2. /\ u.pc = "completedAudit" /\ u.snap = task[r].snap
        /\ v.pc = "compensatingSave"
    BY <1>1, <2>1, FrameMoves
  <2>3. SaveAt(r, "completedSave", u, v)
    BY <1>6, <2>1 DEF CompletedSave
  <2>4. QED
    BY <2>2, <2>3, SaveEffect
<1>7. CASE CompensatingSave(r)
  <2>1. PICK u, v : u = CompensateBelow(r, task[r], Len(Steps(r)) + 1) /\ v = Throw(task[r], "save")
    OBVIOUS
  <2>2. /\ u.pc \in {"compensate", "failedSave"}
        /\ v.pc = "rejected" /\ v.snap = task[r].snap
    BY <1>1, <2>1, FrameMoves
  <2>3. SaveAt(r, "compensatingSave", u, v)
    BY <1>7, <2>1 DEF CompensatingSave
  <2>4. QED
    BY <2>2, <2>3, SaveEffect
<1>8. CASE FailedSave(r)
  <2>1. PICK u, v : u = Goto(task[r], "failedAudit") /\ v = Throw(task[r], "save")
    OBVIOUS
  <2>2. /\ u.pc = "failedAudit" /\ u.snap = task[r].snap
        /\ v.pc = "rejected" /\ v.snap = task[r].snap
    BY <1>1, <2>1, FrameMoves
  <2>3. SaveAt(r, "failedSave", u, v)
    BY <1>8, <2>1 DEF FailedSave
  <2>4. QED
    BY <2>2, <2>3, SaveEffect
<1>9. QED
  BY <1>2, <1>3, <1>4, <1>5, <1>6, <1>7, <1>8

LEMMA AuditsEffect ==
  ASSUME EngineInv, NEW r \in Run,
         \/ StartAudit(r) \/ StepFailAudit(r) \/ StepDoneAudit(r)
         \/ CompletedAudit(r) \/ CompDoneAudit(r) \/ CompFailAudit(r)
         \/ FailedAudit(r)
  PROVE  EngineEffect(r)
<1>1. task[r] \in Task
  BY FrameIs
<1> USE DEF Awaits, Settled, Ending, Ends
<1>2. CASE StartAudit(r)
  <2>1. PICK u, v : u = BeginStep(r, task[r], 1) /\ v = Throw(task[r], "audit")
    OBVIOUS
  <2>2. /\ u.pc \in {"stepSave", "completedSave"}
        /\ v.pc = "rejected" /\ v.snap = task[r].snap
    BY <1>1, <2>1, FrameMoves
  <2>3. AuditAt(r, "startAudit", u, v)
    BY <1>2, <2>1 DEF StartAudit
  <2>4. QED
    BY <2>2, <2>3, AuditEffect
<1>3. CASE StepFailAudit(r)
  <2>1. PICK u, v : u = Fail(task[r], "step") /\ v = Fail(task[r], "audit")
    OBVIOUS
  <2>2. /\ u.pc = "compensatingSave"
        /\ v.pc = "compensatingSave"
    BY <1>1, <2>1, FrameMoves
  <2>3. AuditAt(r, "stepFailAudit", u, v)
    BY <1>3, <2>1 DEF StepFailAudit
  <2>4. QED
    BY <2>2, <2>3, AuditEffect
<1>4. CASE StepDoneAudit(r)
  <2>1. PICK u, v : u = BeginStep(r, task[r], task[r].at + 1) /\ v = Fail(task[r], "audit")
    OBVIOUS
  <2>2. /\ u.pc \in {"stepSave", "completedSave"}
        /\ v.pc = "compensatingSave"
    BY <1>1, <2>1, FrameMoves
  <2>3. AuditAt(r, "stepDoneAudit", u, v)
    BY <1>4, <2>1 DEF StepDoneAudit
  <2>4. QED
    BY <2>2, <2>3, AuditEffect
<1>5. CASE CompletedAudit(r)
  <2>1. PICK u, v : u = Goto(task[r], "resolved") /\ v = Fail(task[r], "audit")
    OBVIOUS
  <2>2. /\ u.pc = "resolved" /\ u.snap = task[r].snap
        /\ v.pc = "compensatingSave"
    BY <1>1, <2>1, FrameMoves
  <2>3. AuditAt(r, "completedAudit", u, v)
    BY <1>5, <2>1 DEF CompletedAudit
  <2>4. QED
    BY <2>2, <2>3, AuditEffect
<1>6. CASE CompDoneAudit(r)
  <2>1. PICK u, v : u = CompensateBelow(r, task[r], task[r].at) /\ v = Goto(task[r], "compFailAudit")
    OBVIOUS
  <2>2. /\ u.pc \in {"compensate", "failedSave"}
        /\ v.pc = "compFailAudit" /\ v.snap = task[r].snap
    BY <1>1, <2>1, FrameMoves
  <2>3. AuditAt(r, "compDoneAudit", u, v)
    BY <1>6, <2>1 DEF CompDoneAudit
  <2>4. QED
    BY <2>2, <2>3, AuditEffect
<1>7. CASE CompFailAudit(r)
  <2>1. PICK u, v : u = CompensateBelow(r, task[r], task[r].at) /\ v = Throw(task[r], "audit")
    OBVIOUS
  <2>2. /\ u.pc \in {"compensate", "failedSave"}
        /\ v.pc = "rejected" /\ v.snap = task[r].snap
    BY <1>1, <2>1, FrameMoves
  <2>3. AuditAt(r, "compFailAudit", u, v)
    BY <1>7, <2>1 DEF CompFailAudit
  <2>4. QED
    BY <2>2, <2>3, AuditEffect
<1>8. CASE FailedAudit(r)
  <2>1. PICK u, v : u = Throw(task[r], task[r].cause) /\ v = Throw(task[r], "audit")
    OBVIOUS
  <2>2. /\ u.pc = "rejected" /\ u.snap = task[r].snap
        /\ v.pc = "rejected" /\ v.snap = task[r].snap
    BY <1>1, <2>1, FrameMoves
  <2>3. AuditAt(r, "failedAudit", u, v)
    BY <1>8, <2>1 DEF FailedAudit
  <2>4. QED
    BY <2>2, <2>3, AuditEffect
<1>9. QED
  BY <1>2, <1>3, <1>4, <1>5, <1>6, <1>7, <1>8

\* The steps of an attempt, between the saves: nothing reaches the store.
LEMMA AttemptEffect ==
  ASSUME EngineInv, NEW r \in Run,
         \/ ExecuteResolves(r) \/ ExecuteRejects(r) \/ ExecuteTimesOut(r)
         \/ RetryDelay(r) \/ Compensate(r)
  PROVE  EngineEffect(r)
<1>1. task[r] \in Task /\ task \in [Run -> Task]
      /\ landed \in [Run -> SUBSET Position]
      /\ compensations \in [Run -> Seq(Position)]
  BY FrameIs DEF EngineInv, IInv, TypeOK
<1>2. task[r].pc \in {"execute", "retryDelay", "compensate"} /\ store' = store
  BY DEF ExecuteResolves, ExecuteRejects, ExecuteTimesOut, RetryDelay,
         Compensate
<1>3. \A q \in Run \ {r} : task'[q] = task[q] /\ compensations'[q] = compensations[q]
  BY <1>1 DEF ExecuteResolves, ExecuteRejects, ExecuteTimesOut, RetryDelay,
              Compensate
<1>4. \A q \in Run : landed[q] \subseteq landed'[q]
  BY <1>1 DEF ExecuteResolves, ExecuteRejects, ExecuteTimesOut, RetryDelay,
              Compensate, effectVars
<1>5. AttemptFailed(r, task[r]).pc \in {"stepFailSave", "retryDelay", "attemptSave"}
  BY <1>1, FrameMoves DEF AttemptFailed, Task
<1>6. StepDone(r, task[r]).pc = "stepDoneSave"
  BY <1>1 DEF StepDone, Task
<1>7. task'[r].pc \in {"stepDoneSave", "stepFailSave", "retryDelay",
                       "attemptSave", "compDoneAudit", "compFailAudit"}
  <2>1. CASE ExecuteResolves(r)
    BY <1>1, <1>6, <2>1 DEF ExecuteResolves
  <2>2. CASE ExecuteRejects(r) \/ ExecuteTimesOut(r)
    BY <1>1, <1>5, <2>2 DEF ExecuteRejects, ExecuteTimesOut
  <2>3. CASE RetryDelay(r)
    BY <1>1, <2>3, FrameMoves DEF RetryDelay
  <2>4. CASE Compensate(r)
    BY <1>1, <2>4 DEF Compensate, Task
  <2>5. QED
    BY <2>1, <2>2, <2>3, <2>4
<1>8. QED
  BY <1>2, <1>3, <1>4, <1>7, QuietEffect DEF Awaits, Settled, Ending, Ends

LEMMA AttemptSaveEffect ==
  ASSUME EngineInv, NEW r \in Run, AttemptSave(r)
  PROVE  EngineEffect(r)
<1>1. task[r] \in Task /\ task \in [Run -> Task]
  BY FrameIs DEF EngineInv, IInv, TypeOK
<1>2. task[r].pc = "attemptSave" /\ UNCHANGED <<landed, compensations>>
  BY DEF AttemptSave
<1>3. store' = store \/ store' = [store EXCEPT ![IdOf[r]] = task[r].snap]
  BY DEF AttemptSave, Save
<1>4. /\ task'[r].pc \in {"execute", "compensatingSave"}
      /\ \A q \in Run \ {r} : task'[q] = task[q]
  BY <1>1, FrameMoves DEF AttemptSave, Task
<1>5. task[r].snap.status \notin {"failed", "completed"}
  BY <1>2, StatusIs DEF Awaits, Ending, Finishing
<1>6. Keeps(r) \/ Writes(r)
  BY <1>2, <1>3, <1>4, <1>5 DEF Keeps, Writes, Awaits, Ends
<1>7. QED
  BY <1>2, <1>4, <1>5, <1>6 DEF EngineEffect, Awaits, Settled

\* An abandoned execution that takes effect may find its run at rest.
LEMMA LateEffectEffect ==
  ASSUME EngineInv, NEW r \in Run, LateEffect(r)
  PROVE  EngineEffect(r)
<1>1. landed \in [Run -> SUBSET Position]
  BY DEF EngineInv, IInv, TypeOK
<1>2. UNCHANGED <<task, store, compensations>>
  BY DEF LateEffect
<1>3. \A q \in Run : landed[q] \subseteq landed'[q]
  BY <1>1 DEF LateEffect
<1>4. Keeps(r)
  BY <1>2 DEF Keeps
<1>5. QED
  BY <1>2, <1>3, <1>4 DEF EngineEffect

LEMMA GoesOnEffect ==
  ASSUME EngineInv, NEW r \in Run, EngineGoesOn(r)
  PROVE  EngineEffect(r) /\ UNCHANGED handleVars
BY SavesEffect, AuditsEffect, AttemptEffect, AttemptSaveEffect, LateEffectEffect
   DEF EngineGoesOn, EngineStep

-----------------------------------------------------------------------------
(* A step of the engine keeps what relates the handles to it.              *)

\* Only a call that waits for start has a run under way.
LEMMA ActiveCall ==
  ASSUME CallInv, NEW r \in Run, task[r].pc \in Awaits
  PROVE  caller[r] = "start" /\ UnderWay(r)
<1>1. caller[r] \in Call /\ CallPlace(caller[r], task[r].pc)
  BY DEF CallInv, HandleTypeOK, CallsOK
<1>2. task[r].pc \notin Settled \cup {"idle"}
  BY DEF Awaits, Settled
<1>3. caller[r] = "start"
  BY <1>1, <1>2 DEF CallPlace, Call, Settled
<1>4. QED
  BY <1>3 DEF UnderWay

\* While no calls have overlapped on a handle, a call under way on it is the
\* only one, and no other run of the handle is going on.
LEMMA Alone ==
  ASSUME CallInv, NEW r \in Run, UnderWay(r), IdOf[r] \notin overlap,
         NEW q \in Run, q # r, IdOf[q] = IdOf[r]
  PROVE  task[q].pc \notin Awaits
<1>1. ~UnderWay(q)
  BY DEF CallInv, OverlapsAreSeen
<1>2. QED
  BY <1>1, ActiveCall

LEMMA WritesStore ==
  ASSUME EngineInv, NEW r \in Run, Writes(r)
  PROVE  /\ store'[IdOf[r]] = task[r].snap /\ store'[IdOf[r]] # NoSnapshot
         /\ \A id \in Id \ {IdOf[r]} : store'[id] = store[id]
<1>1. store \in [Id -> Snapshot \cup {NoSnapshot}]
  BY DEF EngineInv, IInv, TypeOK
<1>2. IdOf[r] \in Id /\ task[r].snap \in Snapshot
  BY FrameIs
<1>3. QED
  BY <1>1, <1>2, StoreAssumption DEF Writes

LEMMA GoesOnCalls ==
  ASSUME HandleInv, NEW r \in Run, EngineEffect(r), UNCHANGED handleVars
  PROVE  CallInv'
<1>1. UNCHANGED <<handle, caller, found, overlap>>
  BY DEF handleVars
<1>2. HandleTypeOK'
  BY <1>1 DEF HandleInv, CallInv, HandleTypeOK
<1>3. OverlapsAreSeen'
  BY <1>1 DEF HandleInv, CallInv, OverlapsAreSeen, UnderWay
<1>4. ASSUME NEW q \in Run PROVE CallPlace(caller[q], task'[q].pc)
  <2>1. CallPlace(caller[q], task[q].pc)
    BY DEF HandleInv, CallInv, CallsOK
  <2>2. CASE q # r \/ task[r].pc \notin Awaits
    BY <2>1, <2>2 DEF EngineEffect
  <2>3. CASE q = r /\ task[r].pc \in Awaits
    <3>1. caller[r] = "start"
      BY <2>3, ActiveCall DEF HandleInv
    <3>2. task'[r].pc \in Awaits \cup Settled
      BY <2>3 DEF EngineEffect
    <3>3. QED
      BY <2>3, <3>1, <3>2 DEF CallPlace, Awaits, Settled
  <2>4. QED
    BY <2>2, <2>3
<1>5. CallsOK'
  BY <1>1, <1>4 DEF CallsOK
<1>6. QED
  BY <1>2, <1>3, <1>5 DEF CallInv

LEMMA GoesOnEnd ==
  ASSUME HandleInv, NEW r \in Run, EngineEffect(r), UNCHANGED handleVars
  PROVE  EndIsStored'
<1>1. UNCHANGED <<handle, caller, found, overlap>>
  BY DEF handleVars
<1>2. SUFFICES ASSUME NEW q \in Run, caller[q] = "start",
                      IdOf[q] \notin overlap,
                      task'[q].pc \in {"completedAudit", "resolved"}
               PROVE  Agrees(store'[IdOf[q]], task'[q])
  BY <1>1 DEF EndIsStored
<1>3. task[q].pc \in {"completedAudit", "resolved"} =>
        Agrees(store[IdOf[q]], task[q])
  BY <1>2 DEF HandleInv, CopyInv, EndIsStored
<1>4. CASE q = r
  <2>1. CASE Keeps(r)
    BY <1>2, <1>3, <1>4, <2>1 DEF Keeps, Agrees
  <2>2. CASE Writes(r)
    <3>1. task'[r].snap = task[r].snap
      BY <1>2, <1>4, <2>2 DEF Writes
    <3>2. store'[IdOf[r]] = task[r].snap /\ store'[IdOf[r]] # NoSnapshot
      BY <2>2, WritesStore DEF HandleInv
    <3>3. QED
      BY <1>4, <3>1, <3>2 DEF Agrees
  <2>3. QED
    BY <2>1, <2>2 DEF EngineEffect
<1>5. CASE q # r
  <2>1. task'[q] = task[q]
    BY <1>5 DEF EngineEffect
  <2>2. CASE Keeps(r)
    BY <1>2, <1>3, <2>1, <2>2 DEF Keeps
  <2>3. CASE Writes(r)
    <3>1. IdOf[r] # IdOf[q]
      BY <1>2, <1>5, <2>3, Alone DEF Writes, HandleInv, UnderWay
    <3>2. IdOf[q] \in Id
      BY StepTypes
    <3>3. store'[IdOf[q]] = store[IdOf[q]]
      BY <2>3, <3>1, <3>2, WritesStore DEF HandleInv
    <3>4. QED
      BY <1>2, <1>3, <2>1, <3>3
  <2>4. QED
    BY <2>2, <2>3 DEF EngineEffect
<1>6. QED
  BY <1>4, <1>5

LEMMA GoesOnFound ==
  ASSUME HandleInv, NEW r \in Run, EngineEffect(r), UNCHANGED handleVars
  PROVE  FoundIsStored'
<1>1. UNCHANGED <<handle, caller, found, overlap>>
  BY DEF handleVars
<1>2. SUFFICES ASSUME NEW q \in Run, caller[q] = "got", IdOf[q] \notin overlap
               PROVE  found[q] = store'[IdOf[q]]
  BY <1>1 DEF FoundIsStored
<1>3. found[q] = store[IdOf[q]]
  BY <1>2 DEF HandleInv, CopyInv, FoundIsStored
<1>4. CASE Keeps(r)
  BY <1>3, <1>4 DEF Keeps
<1>5. CASE Writes(r)
  <2>1. caller[r] = "start"
    BY <1>5, ActiveCall DEF Writes, HandleInv
  <2>2. IdOf[r] # IdOf[q]
    BY <1>2, <1>5, <2>1, Alone DEF Writes, HandleInv, UnderWay
  <2>3. IdOf[q] \in Id
    BY StepTypes
  <2>4. QED
    BY <1>3, <1>5, <2>2, <2>3, WritesStore DEF HandleInv
<1>6. QED
  BY <1>4, <1>5 DEF EngineEffect

LEMMA GoesOnFollows ==
  ASSUME HandleInv, NEW r \in Run, EngineEffect(r), UNCHANGED handleVars
  PROVE  HandleFollowsStore'
<1>1. UNCHANGED <<handle, caller, found, overlap>>
  BY DEF handleVars
<1>2. ASSUME NEW id \in Id, AtRest(id) PROVE store'[id] = store[id]
  <2>1. CASE Keeps(r)
    BY <2>1 DEF Keeps
  <2>2. CASE Writes(r)
    <3>1. caller[r] = "start"
      BY <2>2, ActiveCall DEF Writes, HandleInv
    <3>2. IdOf[r] # id
      BY <1>2, <3>1 DEF AtRest, Calls
    <3>3. QED
      BY <2>2, <3>2, WritesStore DEF HandleInv
  <2>3. QED
    BY <2>1, <2>2 DEF EngineEffect
<1>3. \A id \in Id : AtRest(id)' => AtRest(id)
  BY <1>1 DEF AtRest, Calls
<1>4. QED
  BY <1>1, <1>2, <1>3 DEF HandleInv, CopyInv, HandleFollowsStore

LEMMA GoesOnOutcome ==
  ASSUME HandleInv, NEW r \in Run, EngineEffect(r)
  PROVE  OutcomeInv'
<1>1. ASSUME NEW id \in Id, HasStatus(store'[id], "completed")
      PROVE  \E q \in Run : /\ IdOf[q] = id
                            /\ Finished(q, task'[q], landed'[q], compensations'[q])
  <2>1. CASE Writes(r) /\ IdOf[r] = id
    <3>1. task[r].snap.status = "completed"
      BY <1>1, <2>1, WritesStore DEF HandleInv, HasStatus
    <3>2. QED
      BY <2>1, <3>1 DEF Writes
  <2>2. CASE Keeps(r) \/ IdOf[r] # id
    <3>1. store'[id] = store[id]
      BY <2>2, WritesStore DEF Keeps, HandleInv, EngineEffect
    <3>2. PICK q \in Run : /\ IdOf[q] = id
                           /\ Finished(q, task[q], landed[q], compensations[q])
      BY <1>1, <3>1 DEF HandleInv, OutcomeInv, CompletedIsReal
    <3>3. landed[q] \subseteq landed'[q]
      BY DEF EngineEffect
    <3>4. task'[q].pc \in Ends /\ compensations'[q] = compensations[q]
      BY <2>2, <3>2 DEF EngineEffect, Finished, Keeps
    <3>5. QED
      BY <3>2, <3>3, <3>4 DEF Finished
  <2>3. QED
    BY <2>1, <2>2 DEF EngineEffect
<1>2. ASSUME NEW id \in Id, HasStatus(store'[id], "failed")
      PROVE  \E q \in Run : IdOf[q] = id /\ task'[q].snap.status = "failed"
  <2>1. CASE Writes(r) /\ IdOf[r] = id
    <3>1. task[r].snap.status = "failed"
      BY <1>2, <2>1, WritesStore DEF HandleInv, HasStatus
    <3>2. QED
      BY <2>1, <3>1 DEF EngineEffect
  <2>2. CASE Keeps(r) \/ IdOf[r] # id
    <3>1. store'[id] = store[id]
      BY <2>2, WritesStore DEF Keeps, HandleInv, EngineEffect
    <3>2. PICK q \in Run : IdOf[q] = id /\ task[q].snap.status = "failed"
      BY <1>2, <3>1 DEF HandleInv, OutcomeInv, FailedIsReal
    <3>3. task'[q].snap.status = "failed"
      BY <3>2 DEF EngineEffect
    <3>4. QED
      BY <3>2, <3>3
  <2>3. QED
    BY <2>1, <2>2 DEF EngineEffect
<1>3. QED
  BY <1>1, <1>2 DEF OutcomeInv, CompletedIsReal, FailedIsReal

-----------------------------------------------------------------------------
(* A call of run(), and the ends of the call.                              *)

\* What a call and its ends share: one call moves, and at most the handle of
\* its run is shown anew.
CallMoves(r, c) ==
  /\ caller' = [caller EXCEPT ![r] = c]
  /\ \A id \in Id \ {IdOf[r]} : handle'[id] = handle[id]
  /\ overlap \subseteq overlap'

LEMMA RestFollows ==
  ASSUME CallInv, HandleFollowsStore, NEW r \in Run, NEW c \in Call,
         CallMoves(r, c), store' = store, NEW id \in Id \ {IdOf[r]},
         AtRest(id)'
  PROVE  IF store[id] = NoSnapshot
           THEN handle'[id] = [status |-> "failed", completed |-> <<>>]
           ELSE /\ handle'[id].status = store[id].status
                /\ handle'[id].completed = store[id].completed
<1>1. caller \in [Run -> Call]
  BY DEF CallInv, HandleTypeOK
<1>2. \A q \in Run : IdOf[q] = id => caller'[q] = caller[q]
  BY <1>1 DEF CallMoves
<1>3. AtRest(id)
  BY <1>2 DEF AtRest, Calls, CallMoves
<1>4. QED
  BY <1>3 DEF HandleFollowsStore, CallMoves

\* The frame of run r, called by the step, and the others.
LEMMA RunCalledFrame ==
  ASSUME HandleInv, NEW r \in Run, RunCalled(r)
  PROVE  /\ task[r].pc = "idle" /\ task'[r].pc = "startSave"
         /\ task'[r].snap = task[r].snap /\ caller'[r] = "start"
         /\ \A q \in Run \ {r} : task'[q] = task[q] /\ caller'[q] = caller[q]
         /\ UNCHANGED <<store, landed, compensations, found>>
         /\ CallMoves(r, "start")
<1>1. /\ task[r] \in Task /\ task \in [Run -> Task]
      /\ caller \in [Run -> Call] /\ handle \in [Id -> Shown]
  BY FrameIs DEF HandleInv, EngineInv, IInv, TypeOK, CallInv, HandleTypeOK
<1>2. /\ task[r].pc = "idle" /\ task'[r].pc = "startSave"
      /\ task'[r].snap = task[r].snap
      /\ \A q \in Run \ {r} : task'[q] = task[q]
  BY <1>1 DEF RunCalled, Start, Task
<1>3. UNCHANGED <<store, landed, compensations, found>>
  BY DEF RunCalled, Start, effectVars
<1>4. caller'[r] = "start" /\ \A q \in Run \ {r} : caller'[q] = caller[q]
  BY <1>1 DEF RunCalled
<1>5. CallMoves(r, "start")
  BY <1>1 DEF CallMoves, RunCalled, Show
<1>6. QED
  BY <1>2, <1>3, <1>4, <1>5

LEMMA RunCalledCalls ==
  ASSUME HandleInv, NEW r \in Run, RunCalled(r)
  PROVE  CallInv'
<1>1. HandleTypeOK'
  <2>1. HandleTypeOK /\ IdOf[r] \in Id
    BY FrameIs DEF HandleInv, CallInv
  <2>2. [status |-> "running", completed |-> <<>>] \in Shown
    BY DEF Shown, Status
  <2>3. handle' \in [Id -> Shown]
    BY <2>1, <2>2 DEF HandleTypeOK, RunCalled, Show
  <2>4. caller' \in [Run -> Call] /\ found' \in [Run -> Snapshot \cup {NoSnapshot}]
    BY <2>1 DEF HandleTypeOK, RunCalled, Call
  <2>5. overlap' \subseteq Id
    BY <2>1, StepTypes DEF HandleTypeOK, RunCalled
  <2>6. QED
    BY <2>3, <2>4, <2>5 DEF HandleTypeOK
<1>2. CallsOK'
  <2>1. ASSUME NEW q \in Run PROVE CallPlace(caller'[q], task'[q].pc)
    <3>1. CASE q = r
      BY <3>1, RunCalledFrame DEF CallPlace, Awaits
    <3>2. CASE q # r
      BY <3>2, RunCalledFrame DEF HandleInv, CallInv, CallsOK
    <3>3. QED
      BY <3>1, <3>2
  <2>2. QED
    BY <2>1 DEF CallsOK
<1>3. OverlapsAreSeen'
  <2>1. ASSUME NEW a \in Run, NEW b \in Run, b # a, IdOf[b] = IdOf[a],
               UnderWay(a)', UnderWay(b)'
        PROVE  IdOf[a] \in overlap'
    <3>1. ASSUME NEW q \in Run, q # r, IdOf[q] = IdOf[r], UnderWay(q)'
          PROVE  IdOf[r] \in overlap'
      <4>1. UnderWay(q)
        BY <3>1, RunCalledFrame DEF UnderWay
      <4>2. QED
        BY <3>1, <4>1 DEF RunCalled
    <3>2. CASE a = r \/ b = r
      BY <2>1, <3>1, <3>2
    <3>3. CASE a # r /\ b # r
      <4>1. UnderWay(a) /\ UnderWay(b)
        BY <2>1, <3>3, RunCalledFrame DEF UnderWay
      <4>2. QED
        BY <2>1, <4>1, RunCalledFrame DEF HandleInv, CallInv, OverlapsAreSeen, CallMoves
    <3>4. QED
      BY <3>2, <3>3
  <2>2. QED
    BY <2>1 DEF OverlapsAreSeen
<1>4. QED
  BY <1>1, <1>2, <1>3 DEF CallInv

LEMMA RunCalledCopies ==
  ASSUME HandleInv, NEW r \in Run, RunCalled(r)
  PROVE  CopyInv'
<1>1. EndIsStored'
  <2>1. ASSUME NEW q \in Run, caller'[q] = "start", IdOf[q] \notin overlap',
               task'[q].pc \in {"completedAudit", "resolved"}
        PROVE  Agrees(store'[IdOf[q]], task'[q])
    <3>1. q # r
      BY <2>1, RunCalledFrame
    <3>2. QED
      BY <2>1, <3>1, RunCalledFrame DEF HandleInv, CopyInv, EndIsStored, CallMoves
  <2>2. QED
    BY <2>1 DEF EndIsStored
<1>2. FoundIsStored'
  <2>1. ASSUME NEW q \in Run, caller'[q] = "got", IdOf[q] \notin overlap'
        PROVE  found'[q] = store'[IdOf[q]]
    <3>1. q # r
      BY <2>1, RunCalledFrame
    <3>2. QED
      BY <2>1, <3>1, RunCalledFrame DEF HandleInv, CopyInv, FoundIsStored, CallMoves
  <2>2. QED
    BY <2>1 DEF FoundIsStored
<1>3. HandleFollowsStore'
  <2>1. ASSUME NEW id \in Id, AtRest(id)' PROVE id # IdOf[r]
    BY <2>1, RunCalledFrame DEF AtRest, Calls
  <2>2. CallMoves(r, "start") /\ store' = store /\ "start" \in Call
    BY RunCalledFrame DEF Call
  <2>3. CallInv /\ HandleFollowsStore
    BY DEF HandleInv, CopyInv
  <2>4. QED
    BY <2>1, <2>2, <2>3, RestFollows DEF HandleFollowsStore
<1>4. QED
  BY <1>1, <1>2, <1>3 DEF CopyInv

LEMMA RunCalledOutcome ==
  ASSUME HandleInv, NEW r \in Run, RunCalled(r)
  PROVE  OutcomeInv'
<1>1. ASSUME NEW id \in Id, HasStatus(store'[id], "completed")
      PROVE  \E q \in Run : /\ IdOf[q] = id
                            /\ Finished(q, task'[q], landed'[q], compensations'[q])
  <2>1. PICK q \in Run : /\ IdOf[q] = id
                         /\ Finished(q, task[q], landed[q], compensations[q])
    BY <1>1, RunCalledFrame DEF HandleInv, OutcomeInv, CompletedIsReal
  <2>2. q # r
    BY <2>1, RunCalledFrame DEF Finished, Ends
  <2>3. QED
    BY <2>1, <2>2, RunCalledFrame
<1>2. ASSUME NEW id \in Id, HasStatus(store'[id], "failed")
      PROVE  \E q \in Run : IdOf[q] = id /\ task'[q].snap.status = "failed"
  <2>1. PICK q \in Run : IdOf[q] = id /\ task[q].snap.status = "failed"
    BY <1>2, RunCalledFrame DEF HandleInv, OutcomeInv, FailedIsReal
  <2>2. task'[q].snap = task[q].snap
    BY RunCalledFrame
  <2>3. QED
    BY <2>1, <2>2
<1>3. QED
  BY <1>1, <1>2 DEF OutcomeInv, CompletedIsReal, FailedIsReal

\* The call of run r moves on to c, the engine stands still.
CallEnds(r, c) ==
  /\ UnderWay(r) /\ c \in Call \ {"idle", "start"}
  /\ UNCHANGED <<vars, overlap>>
  /\ caller' = [caller EXCEPT ![r] = c]

\* What the store has of id is what the handle shows after the step.
Follows(id) ==
  IF store[id] = NoSnapshot
    THEN handle'[id] = [status |-> "failed", completed |-> <<>>]
    ELSE /\ handle'[id].status = store[id].status
         /\ handle'[id].completed = store[id].completed

LEMMA CallEndsCalls ==
  ASSUME HandleInv, NEW r \in Run, NEW c, CallEnds(r, c),
         CallPlace(c, task[r].pc),
         handle' \in [Id -> Shown], found' \in [Run -> Snapshot \cup {NoSnapshot}]
  PROVE  CallInv'
<1>1. UNCHANGED <<task, overlap>>
  BY DEF CallEnds, vars
<1>2. HandleTypeOK
  BY DEF HandleInv, CallInv
<1>3. caller' \in [Run -> Call] /\ caller'[r] = c
      /\ \A q \in Run \ {r} : caller'[q] = caller[q]
  BY <1>2 DEF CallEnds, HandleTypeOK
<1>4. HandleTypeOK'
  BY <1>1, <1>2, <1>3 DEF HandleTypeOK
<1>5. CallsOK'
  <2>1. ASSUME NEW q \in Run PROVE CallPlace(caller'[q], task[q].pc)
    <3>1. CASE q = r
      BY <1>3, <3>1
    <3>2. CASE q # r
      BY <1>3, <3>2 DEF HandleInv, CallInv, CallsOK
    <3>3. QED
      BY <3>1, <3>2
  <2>2. QED
    BY <1>1, <2>1 DEF CallsOK
<1>6. \A q \in Run : UnderWay(q)' => UnderWay(q)
  BY <1>3 DEF CallEnds, UnderWay
<1>7. OverlapsAreSeen'
  BY <1>1, <1>6 DEF HandleInv, CallInv, OverlapsAreSeen
<1>8. QED
  BY <1>4, <1>5, <1>7 DEF CallInv

LEMMA CallEndsCopies ==
  ASSUME HandleInv, NEW r \in Run, NEW c, CallEnds(r, c),
         \A id \in Id \ {IdOf[r]} : handle'[id] = handle[id],
         \A q \in Run \ {r} : found'[q] = found[q],
         c = "got" => found'[r] = store[IdOf[r]],
         c = "done" /\ IdOf[r] \notin overlap => Follows(IdOf[r])
  PROVE  CopyInv'
<1>1. UNCHANGED <<task, store, overlap>>
  BY DEF CallEnds, vars
<1>2. caller \in [Run -> Call]
  BY DEF HandleInv, CallInv, HandleTypeOK
<1>3. caller'[r] = c /\ \A q \in Run \ {r} : caller'[q] = caller[q]
  BY <1>2 DEF CallEnds
<1>4. EndIsStored'
  <2>1. ASSUME NEW q \in Run, caller'[q] = "start", IdOf[q] \notin overlap,
               task[q].pc \in {"completedAudit", "resolved"}
        PROVE  Agrees(store[IdOf[q]], task[q])
    <3>1. caller[q] = "start"
      BY <1>3, <2>1 DEF CallEnds
    <3>2. QED
      BY <2>1, <3>1 DEF HandleInv, CopyInv, EndIsStored
  <2>2. QED
    BY <1>1, <2>1 DEF EndIsStored
<1>5. FoundIsStored'
  <2>1. ASSUME NEW q \in Run, caller'[q] = "got", IdOf[q] \notin overlap
        PROVE  found'[q] = store[IdOf[q]]
    <3>1. CASE q = r
      BY <1>3, <2>1, <3>1
    <3>2. CASE q # r
      BY <1>3, <2>1, <3>2 DEF HandleInv, CopyInv, FoundIsStored
    <3>3. QED
      BY <3>1, <3>2
  <2>2. QED
    BY <1>1, <2>1 DEF FoundIsStored
<1>6. HandleFollowsStore'
  <2>1. ASSUME NEW id \in Id, AtRest(id)' PROVE Follows(id)
    <3>1. CASE id = IdOf[r]
      <4>1. c # "idle"
        BY DEF CallEnds
      <4>2. c = "done" /\ id \notin overlap
        BY <1>1, <1>3, <2>1, <3>1, <4>1 DEF AtRest, Calls
      <4>3. QED
        BY <3>1, <4>2
    <3>2. CASE id # IdOf[r]
      <4>1. CallMoves(r, c) /\ c \in Call /\ store' = store
        BY <1>1 DEF CallMoves, CallEnds
      <4>2. CallInv /\ HandleFollowsStore
        BY DEF HandleInv, CopyInv
      <4>3. QED
        BY <2>1, <3>2, <4>1, <4>2, RestFollows DEF Follows
    <3>3. QED
      BY <3>1, <3>2
  <2>2. QED
    BY <1>1, <2>1 DEF HandleFollowsStore, Follows
<1>7. QED
  BY <1>4, <1>5, <1>6 DEF CopyInv

\* A handle shown anew keeps the type of all handles.
LEMMA ShowType ==
  ASSUME HandleInv, NEW r \in Run, NEW x, NEW y,
         [status |-> x, completed |-> y] \in Shown, Show(r, x, y)
  PROVE  /\ handle' \in [Id -> Shown]
         /\ handle'[IdOf[r]] = [status |-> x, completed |-> y]
         /\ \A id \in Id \ {IdOf[r]} : handle'[id] = handle[id]
<1>1. handle \in [Id -> Shown] /\ IdOf[r] \in Id
  BY FrameIs DEF HandleInv, CallInv, HandleTypeOK
<1>2. QED
  BY <1>1 DEF Show

LEMMA StartResolvedKeeps ==
  ASSUME HandleInv, NEW r \in Run, StartResolved(r)
  PROVE  CallInv' /\ CopyInv'
<1>1. CallEnds(r, "done")
  BY DEF StartResolved, CallEnds, UnderWay, Call
<1>2. CallPlace("done", task[r].pc)
  BY DEF StartResolved, CallPlace, Settled
<1>3. found' \in [Run -> Snapshot \cup {NoSnapshot}] /\ found' = found
  BY DEF StartResolved, HandleInv, CallInv, HandleTypeOK
<1>4. PICK x, y : x = task[r].snap.status /\ y = task[r].snap.completed
  OBVIOUS
<1>5. [status |-> x, completed |-> y] \in Shown
  <2>1. task[r].snap \in Snapshot
    BY FrameIs DEF HandleInv
  <2>2. QED
    BY <1>4, <2>1 DEF Snapshot, Shown
<1>6. Show(r, x, y)
  BY <1>4 DEF StartResolved
<1>7. /\ handle' \in [Id -> Shown]
      /\ handle'[IdOf[r]] = [status |-> x, completed |-> y]
      /\ \A id \in Id \ {IdOf[r]} : handle'[id] = handle[id]
  BY <1>5, <1>6, ShowType
<1>8. IdOf[r] \notin overlap => Follows(IdOf[r])
  <2>1. IdOf[r] \notin overlap => Agrees(store[IdOf[r]], task[r])
    BY DEF StartResolved, HandleInv, CopyInv, EndIsStored
  <2>2. QED
    BY <1>4, <1>7, <2>1 DEF Agrees, Follows
<1>9. CallInv'
  BY <1>1, <1>2, <1>3, <1>7, CallEndsCalls
<1>10. CopyInv'
  BY <1>1, <1>3, <1>7, <1>8, CallEndsCopies
<1>11. QED
  BY <1>9, <1>10

LEMMA GetResolvesKeeps ==
  ASSUME HandleInv, NEW r \in Run, GetResolves(r)
  PROVE  CallInv' /\ CopyInv'
<1>1. CallEnds(r, "done")
  BY DEF GetResolves, CallEnds, UnderWay, Call
<1>2. CallPlace("done", task[r].pc)
  <2>1. CallPlace(caller[r], task[r].pc) /\ caller[r] = "got"
    BY DEF GetResolves, HandleInv, CallInv, CallsOK
  <2>2. QED
    BY <2>1 DEF CallPlace, Settled
<1>3. found' \in [Run -> Snapshot \cup {NoSnapshot}] /\ found' = found
  BY DEF GetResolves, HandleInv, CallInv, HandleTypeOK
<1>4. PICK x : x = IF found[r] = NoSnapshot THEN "failed" ELSE found[r].status
  OBVIOUS
<1>5. PICK y : y = IF found[r] = NoSnapshot THEN <<>> ELSE found[r].completed
  OBVIOUS
<1>6. [status |-> x, completed |-> y] \in Shown
  <2>1. found[r] \in Snapshot \cup {NoSnapshot}
    BY DEF HandleInv, CallInv, HandleTypeOK
  <2>2. x \in Status \cup {"idle"}
    BY <1>4, <2>1 DEF Snapshot, Status
  <2>3. y \in Seq(StepName)
    BY <1>5, <2>1 DEF Snapshot
  <2>4. QED
    BY <2>2, <2>3 DEF Shown
<1>7. Show(r, x, y)
  BY <1>4, <1>5 DEF GetResolves
<1>8. /\ handle' \in [Id -> Shown]
      /\ handle'[IdOf[r]] = [status |-> x, completed |-> y]
      /\ \A id \in Id \ {IdOf[r]} : handle'[id] = handle[id]
  BY <1>6, <1>7, ShowType
<1>9. IdOf[r] \notin overlap => Follows(IdOf[r])
  <2>1. IdOf[r] \notin overlap => found[r] = store[IdOf[r]]
    BY DEF GetResolves, HandleInv, CopyInv, FoundIsStored
  <2>2. QED
    BY <1>4, <1>5, <1>8, <2>1 DEF Follows
<1>10. CallInv'
  BY <1>1, <1>2, <1>3, <1>8, CallEndsCalls
<1>11. CopyInv'
  BY <1>1, <1>3, <1>8, <1>9, CallEndsCopies
<1>12. QED
  BY <1>10, <1>11

LEMMA RejectedKeeps ==
  ASSUME HandleInv, NEW r \in Run,
         StartRejected(r) \/ GetReads(r) \/ GetRejects(r)
  PROVE  CallInv' /\ CopyInv'
<1>1. PICK c \in {"get", "got", "lost"} :
        /\ CallEnds(r, c) /\ handle' = handle
        /\ c # "got" => found' = found
        /\ c = "got" => found' = [found EXCEPT ![r] = store[IdOf[r]]]
  BY DEF StartRejected, GetReads, GetRejects, CallEnds, UnderWay, Call
<1>2. /\ handle \in [Id -> Shown]
      /\ found \in [Run -> Snapshot \cup {NoSnapshot}]
      /\ store \in [Id -> Snapshot \cup {NoSnapshot}] /\ IdOf[r] \in Id
  BY FrameIs DEF HandleInv, CallInv, HandleTypeOK, EngineInv, IInv, TypeOK
<1>3. /\ found' \in [Run -> Snapshot \cup {NoSnapshot}]
      /\ \A q \in Run \ {r} : found'[q] = found[q]
      /\ c = "got" => found'[r] = store[IdOf[r]]
  BY <1>1, <1>2
<1>4. CallPlace(c, task[r].pc)
  <2>1. task[r].pc = "rejected"
    <3>1. CallPlace(caller[r], task[r].pc)
      BY DEF HandleInv, CallInv, CallsOK
    <3>2. QED
      BY <3>1 DEF CallPlace, StartRejected, GetReads, GetRejects
  <2>2. QED
    BY <1>1, <2>1 DEF CallPlace
<1>5. CallInv'
  BY <1>1, <1>2, <1>3, <1>4, CallEndsCalls
<1>6. CopyInv'
  BY <1>1, <1>2, <1>3, CallEndsCopies
<1>7. QED
  BY <1>5, <1>6

-----------------------------------------------------------------------------
(* The invariant is inductive.                                             *)

LEMMA HandleInitInv == HandleInit => HandleInv
<1> SUFFICES ASSUME HandleInit PROVE HandleInv
  OBVIOUS
<1>1. EngineInv
  BY InitIInv, InitSimulated DEF HandleInit, EngineInv
<1>2. \A r \in Run : caller[r] = "idle" /\ found[r] = NoSnapshot
                       /\ task[r].pc = "idle"
  BY DEF HandleInit, Init
<1>3. \A id \in Id : store[id] = NoSnapshot
  BY DEF HandleInit, Init
<1>4. HandleTypeOK
  <2>1. [status |-> "idle", completed |-> <<>>] \in Shown
    BY DEF Shown
  <2>2. QED
    BY <2>1 DEF HandleInit, HandleTypeOK, Call
<1>5. CallsOK /\ OverlapsAreSeen
  BY <1>2 DEF CallsOK, CallPlace, OverlapsAreSeen, UnderWay
<1>6. EndIsStored /\ FoundIsStored
  BY <1>2 DEF EndIsStored, FoundIsStored
<1>7. HandleFollowsStore
  BY <1>2 DEF HandleFollowsStore, AtRest, Calls
<1>8. OutcomeInv
  BY <1>3 DEF OutcomeInv, CompletedIsReal, FailedIsReal, HasStatus
<1>9. QED
  BY <1>1, <1>4, <1>5, <1>6, <1>7, <1>8 DEF HandleInv, CallInv, CopyInv

\* A step that moves neither runs nor calls nor the store.
LEMMA StillKeeps ==
  ASSUME HandleInv, UNCHANGED <<task, store, landed, compensations, handleVars>>
  PROVE  CallInv' /\ CopyInv' /\ OutcomeInv'
<1>1. UNCHANGED <<task, store, landed, compensations, handle, caller, found, overlap>>
  BY DEF handleVars
<1>2. CallInv'
  BY <1>1 DEF HandleInv, CallInv, HandleTypeOK, CallsOK, OverlapsAreSeen, UnderWay
<1>3. CopyInv'
  BY <1>1 DEF HandleInv, CopyInv, EndIsStored, FoundIsStored, HandleFollowsStore,
              AtRest, Calls
<1>4. OutcomeInv'
  BY <1>1 DEF HandleInv, OutcomeInv, CompletedIsReal, FailedIsReal
<1>5. QED
  BY <1>2, <1>3, <1>4

LEMMA HandleNextInv ==
  ASSUME HandleInv, [HandleNext]_<<vars, handleVars>>
  PROVE  HandleInv'
<1>1. [Next]_vars
  BY DEF HandleNext, RunCalled, EngineGoesOn, StartResolved, StartRejected,
         GetReads, GetRejects, GetResolves, Next, RunStep
<1>2. EngineInv'
  BY <1>1, NextIInv, NextSimulated DEF HandleInv, EngineInv, Simulated
<1> SUFFICES CallInv' /\ CopyInv' /\ OutcomeInv'
  BY <1>2 DEF HandleInv
<1>3. CASE \E w \in Name : Register(w) /\ UNCHANGED handleVars
  BY <1>3, StillKeeps DEF Register, effectVars
<1>4. CASE UNCHANGED <<vars, handleVars>>
  BY <1>4, StillKeeps DEF vars, effectVars
<1>5. CASE \E r \in Run : RunCalled(r)
  BY <1>5, RunCalledCalls, RunCalledCopies, RunCalledOutcome
<1>6. CASE \E r \in Run : EngineGoesOn(r)
  <2>1. PICK r \in Run : EngineEffect(r) /\ UNCHANGED handleVars
    BY <1>6, GoesOnEffect DEF HandleInv
  <2>2. QED
    BY <2>1, GoesOnCalls, GoesOnEnd, GoesOnFound, GoesOnFollows, GoesOnOutcome
       DEF CopyInv
<1>7. CASE \E r \in Run :
             \/ StartResolved(r) \/ StartRejected(r)
             \/ GetReads(r) \/ GetRejects(r) \/ GetResolves(r)
  <2>1. PICK r \in Run :
             \/ StartResolved(r) \/ StartRejected(r)
             \/ GetReads(r) \/ GetRejects(r) \/ GetResolves(r)
    BY <1>7
  <2>2. CallInv' /\ CopyInv'
    BY <2>1, StartResolvedKeeps, RejectedKeeps, GetResolvesKeeps
  <2>3. UNCHANGED <<task, store, landed, compensations>>
    BY <2>1 DEF StartResolved, StartRejected, GetReads, GetRejects, GetResolves,
                vars, effectVars
  <2>4. OutcomeInv'
    BY <2>3 DEF HandleInv, OutcomeInv, CompletedIsReal, FailedIsReal
  <2>5. QED
    BY <2>2, <2>4
<1>8. QED
  BY <1>3, <1>4, <1>5, <1>6, <1>7 DEF HandleNext

\* However the runs of a handle end, and whenever run() is called again, a call
\* that waits finds its own end in the store, one that asked the store finds
\* what it was told, and the store names no end that no run had.
THEOREM HandleInductive == HandleSpec => []HandleInv
<1>1. HandleInit => HandleInv
  BY HandleInitInv
<1>2. HandleInv /\ [HandleNext]_<<vars, handleVars>> => HandleInv'
  BY HandleNextInv
<1>3. QED
  BY <1>1, <1>2, PTL DEF HandleSpec

-----------------------------------------------------------------------------
(* What follows from the invariant.                                        *)

LEMMA ShownIsReal ==
  ASSUME HandleInv
  PROVE  ShownOutcomeIsReal
<1> SUFFICES ASSUME NEW id \in Id, AtRest(id)
             PROVE  /\ handle[id].status = "completed" =>
                         \E r \in Calls(id) : /\ DOMAIN Steps(r) \subseteq landed[r]
                                              /\ compensations[r] = <<>>
                    /\ handle[id].status = "failed" /\ store[id] # NoSnapshot =>
                         \E r \in Calls(id) : /\ task[r].snap.status = "failed"
                                              /\ Compensated(r) = ToCompensate(r, task[r])
  BY DEF ShownOutcomeIsReal
<1>1. IF store[id] = NoSnapshot
        THEN handle[id] = [status |-> "failed", completed |-> <<>>]
        ELSE handle[id].status = store[id].status
  BY DEF HandleInv, CopyInv, HandleFollowsStore
<1>2. \A r \in Run : IdOf[r] = id /\ task[r].pc # "idle" => r \in Calls(id)
  BY DEF HandleInv, CallInv, CallsOK, CallPlace, Calls
<1>3. ASSUME handle[id].status = "completed"
      PROVE  \E r \in Calls(id) : DOMAIN Steps(r) \subseteq landed[r]
                                    /\ compensations[r] = <<>>
  <2>1. HasStatus(store[id], "completed")
    BY <1>1, <1>3 DEF HasStatus
  <2>2. PICK r \in Run : /\ IdOf[r] = id
                         /\ Finished(r, task[r], landed[r], compensations[r])
    BY <2>1 DEF HandleInv, OutcomeInv, CompletedIsReal
  <2>3. r \in Calls(id)
    BY <1>2, <2>2 DEF Finished, Ends
  <2>4. QED
    BY <2>2, <2>3 DEF Finished
<1>4. ASSUME handle[id].status = "failed", store[id] # NoSnapshot
      PROVE  \E r \in Calls(id) : task[r].snap.status = "failed"
                                    /\ Compensated(r) = ToCompensate(r, task[r])
  <2>1. HasStatus(store[id], "failed")
    BY <1>1, <1>4 DEF HasStatus
  <2>2. PICK r \in Run : IdOf[r] = id /\ task[r].snap.status = "failed"
    BY <2>1 DEF HandleInv, OutcomeInv, FailedIsReal
  <2>3. /\ StatusOK(task[r])
        /\ FrameOK(r, task[r], landed[r], compensations[r])
    BY FrameIs DEF HandleInv
  <2>4. task[r].pc # "idle"
    BY <2>2, <2>3 DEF StatusOK, Starting
  <2>5. Compensated(r) = ToCompensate(r, task[r])
    BY <2>2, <2>3 DEF FrameOK, UndoOK, Compensated, SeqRange
  <2>6. QED
    BY <1>2, <2>2, <2>4, <2>5
<1>5. QED
  BY <1>3, <1>4

\* For all handles, workflows, runs and faults: a handle whose calls are over,
\* and did not overlap, shows the status and the steps the store has, and an
\* end that one of its runs had.
THEOREM HandleIsTruthfulAlways == HandleSpec => []HandleIsTruthful
<1>1. HandleInv => HandleIsTruthful
  BY ShownIsReal DEF HandleInv, CallInv, CopyInv, HandleIsTruthful
<1>2. QED
  BY <1>1, HandleInductive, PTL
===============================================================================
