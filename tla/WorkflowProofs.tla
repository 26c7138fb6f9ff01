---------------------------- MODULE WorkflowProofs ----------------------------
(***************************************************************************)
(* Theorems about the workflow engine for every set of workflows, runs and *)
(* faults: what it undoes, what it never does twice, that it implements    *)
(* WorkflowContract, and what the snapshot store tells.                    *)
(***************************************************************************)
EXTENDS WorkflowProperties, WellFoundedInduction, TLAPS

-----------------------------------------------------------------------------
(* The inductive invariant: what holds of one run's frame t, given the set *)
(* L of its steps whose effect took place and the sequence C of steps it   *)
(* has compensated.                                                        *)

BeforeDone == {"stepSave", "attemptSave", "execute", "retryDelay",
               "stepFailSave", "stepFailAudit"}
AfterDone == {"stepDoneSave", "stepDoneAudit"}
Finishing == {"completedSave", "completedAudit"}
AfterCompensation == {"compDoneAudit", "compFailAudit"}
Forward == {"idle", "startSave", "startAudit", "compensatingSave", "resolved"}
             \cup BeforeDone \cup AfterDone \cup Finishing

SeqRange(C) == {C[k] : k \in DOMAIN C}

\* completed is a prefix of the definition whose effects took place.
PrefixOK(r, t, L) ==
  /\ Len(t.snap.completed) <= Len(Steps(r))
  /\ \A k \in 1 .. Len(t.snap.completed) :
       t.snap.completed[k] = StepAt(r, k).name /\ k \in L

\* Where the frame stands in the definition.
PlaceOK(r, t) ==
  /\ t.pc \in {"idle", "startSave", "startAudit"} => t.snap.completed = <<>>
  /\ t.pc \in BeforeDone =>
       t.at \in DOMAIN Steps(r) /\ Len(t.snap.completed) = t.at - 1
  /\ t.pc \in AfterDone =>
       t.at \in DOMAIN Steps(r) /\ Len(t.snap.completed) = t.at
  /\ t.pc \in Finishing \cup {"resolved"} =>
       Len(t.snap.completed) = Len(Steps(r))

\* C works down the completed steps that have a handler.
UndoOK(r, t, C) ==
  /\ SeqRange(C) \subseteq ToCompensate(r, t)
  /\ \A k \in DOMAIN C : k > 1 => C[k] < C[k - 1]
  /\ t.pc \in Forward => C = <<>> /\ t.snap.status # "failed"
  /\ t.pc = "compensate" =>
       /\ t.at \in ToCompensate(r, t)
       /\ \A j \in ToCompensate(r, t) : j \in SeqRange(C) <=> j > t.at
  /\ t.pc \in AfterCompensation =>
       /\ t.at \in ToCompensate(r, t)
       /\ \A j \in ToCompensate(r, t) : j \in SeqRange(C) <=> j >= t.at
  /\ t.pc \in {"compensate"} \cup AfterCompensation => t.snap.status # "failed"
  /\ t.snap.status = "failed" => SeqRange(C) = ToCompensate(r, t)

FrameOK(r, t, L, C) ==
  /\ \/ t.pc \in {"idle", "rejected"} /\ t.snap.completed = <<>>
     \/ UniqueNames(Steps(r))
  /\ PrefixOK(r, t, L)
  /\ PlaceOK(r, t)
  /\ UndoOK(r, t, C)

FrameInv ==
  /\ \A w \in registered : UniqueNames(StepsOf[w])
  /\ \A r \in Run : FrameOK(r, task[r], landed[r], compensations[r])

-----------------------------------------------------------------------------
(* The constants.                                                          *)

LEMMA StepTypes ==
  ASSUME NEW r \in Run
  PROVE  /\ Steps(r) \in Seq(StepDef)
         /\ IdOf[r] \in Id
         /\ \A i \in DOMAIN Steps(r) :
              /\ i \in Position /\ i \in Nat /\ i >= 1 /\ i <= Len(Steps(r))
              /\ StepAt(r, i) \in StepDef
              /\ StepAt(r, i).name \in StepName
         /\ \A i \in 1 .. Len(Steps(r)) : i \in DOMAIN Steps(r)
<1>1. WorkflowOf[r] \in Name /\ IdOf[r] \in Id
  BY WorkflowAssumption
<1>2. Steps(r) \in Seq(StepDef)
  BY <1>1, WorkflowAssumption DEF Steps
<1>3. ASSUME NEW i \in DOMAIN Steps(r)
      PROVE  /\ i \in Position /\ i \in Nat /\ i >= 1 /\ i <= Len(Steps(r))
             /\ StepAt(r, i) \in StepDef
  BY <1>1, <1>2, <1>3 DEF Steps, Position, StepAt
<1>4. QED
  BY <1>1, <1>2, <1>3 DEF StepDef

LEMMA MaxAttemptsType ==
  ASSUME NEW step \in StepDef
  PROVE  MaxAttempts(step) \in Nat /\ MaxAttempts(step) >= 1
BY DEF MaxAttempts, StepDef

-----------------------------------------------------------------------------
(* The transformers of a frame keep its type.                              *)

LEMMA GotoType ==
  ASSUME NEW t \in Task, NEW l \in Awaits \cup Settled
  PROVE  Goto(t, l) \in Task
BY DEF Goto, Task

LEMMA ThrowType ==
  ASSUME NEW t \in Task, NEW e \in Error
  PROVE  Throw(t, e) \in Task
BY DEF Throw, Task, Settled

LEMMA FailType ==
  ASSUME NEW t \in Task, NEW e \in Error
  PROVE  Fail(t, e) \in Task
BY DEF Fail, Task, Awaits, Snapshot, Status

LEMMA BeginStepType ==
  ASSUME NEW r \in Run, NEW t \in Task, NEW i \in Nat \ {0}
  PROVE  BeginStep(r, t, i) \in Task
<1>1. CASE i <= Len(Steps(r))
  <2>1. StepAt(r, i).name \in StepName
    BY <1>1, StepTypes
  <2>2. QED
    BY <1>1, <2>1 DEF BeginStep, Task, Awaits, Snapshot, Status
<1>2. CASE ~(i <= Len(Steps(r)))
  BY <1>2 DEF BeginStep, Task, Awaits, Snapshot, Status
<1>3. QED
  BY <1>1, <1>2

LEMMA BeginAttemptType ==
  ASSUME NEW r \in Run, NEW t \in Task, NEW n \in Nat
  PROVE  BeginAttempt(r, t, n) \in Task
BY DEF BeginAttempt, Task, Awaits, Snapshot

LEMMA AttemptFailedType ==
  ASSUME NEW r \in Run, NEW t \in Task, t.at \in DOMAIN Steps(r)
  PROVE  AttemptFailed(r, t) \in Task
<1> DEFINE step == StepAt(r, t.at)
<1>1. step.name \in StepName
  BY StepTypes
<1>2. t.attempt + 1 \in Nat
  BY DEF Task
<1>3. BeginAttempt(r, t, t.attempt + 1) \in Task
  BY <1>2, BeginAttemptType
<1>4. [t EXCEPT !.pc = "stepFailSave", !.snap.failed = step.name] \in Task
  BY <1>1 DEF Task, Awaits, Snapshot
<1>5. [t EXCEPT !.pc = "retryDelay"] \in Task
  BY DEF Task, Awaits
<1>6. QED
  BY <1>3, <1>4, <1>5 DEF AttemptFailed

LEMMA StepDoneType ==
  ASSUME NEW r \in Run, NEW t \in Task, t.at \in DOMAIN Steps(r)
  PROVE  StepDone(r, t) \in Task
<1> DEFINE done == Append(t.snap.completed, StepAt(r, t.at).name)
<1>1. StepAt(r, t.at).name \in StepName
  BY StepTypes
<1>2. t.snap \in Snapshot /\ t.snap.completed \in Seq(StepName)
  BY DEF Task, Snapshot
<1>3. done \in Seq(StepName)
  BY <1>1, <1>2
<1> HIDE DEF done
<1>4. [t.snap EXCEPT !.current = NoStep, !.completed = done] \in Snapshot
  BY <1>2, <1>3 DEF Snapshot
<1>5. StepDone(r, t) = [t EXCEPT !.pc = "stepDoneSave",
         !.snap = [t.snap EXCEPT !.current = NoStep, !.completed = done]]
  BY DEF StepDone, Task, done
<1>6. QED
  BY <1>4, <1>5 DEF Task, Awaits

LEMMA ToCompensateType ==
  ASSUME NEW r \in Run, NEW t \in Task
  PROVE  ToCompensate(r, t) \subseteq DOMAIN Steps(r)
BY DEF ToCompensate

\* A non-empty set of positions has a last element: what CHOOSE returns.
LEMMA LastPosition ==
  ASSUME NEW r \in Run, NEW S \in SUBSET DOMAIN Steps(r), S # {}
  PROVE  \E j \in S : \A k \in S : k <= j
<1> DEFINE n == Len(Steps(r))
           D == {n - j : j \in S}
<1>1. n \in Nat /\ DOMAIN Steps(r) = 1 .. n
  BY StepTypes
<1>2. D \in SUBSET Nat /\ D # {}
  BY <1>1
<1>3. PICK d \in D : \A e \in D : d <= e
  <2> DEFINE R == {p \in Nat \X Nat : p[1] < p[2]}
  <2>1. IsWellFoundedOn(R, Nat)
    BY NatLessThanWellFounded DEF OpToRel
  <2> HIDE DEF R
  <2>2. \E d \in D : \A e \in D : ~(<<e, d>> \in R)
    BY <2>1, <1>2, WFMin
  <2>3. PICK d \in D : \A e \in D : ~(<<e, d>> \in R)
    BY <2>2
  <2>4. ASSUME NEW e \in D PROVE d <= e
    <3>1. d \in Nat /\ e \in Nat
      BY <1>2
    <3>2. SUFFICES ASSUME e < d PROVE FALSE
      BY <3>1
    <3>3. <<e, d>> \in R
      BY <3>1, <3>2 DEF R
    <3>4. QED
      BY <2>3, <3>3
  <2>5. QED
    BY <2>4
<1>4. PICK j \in S : d = n - j
  BY <1>3
<1>5. ASSUME NEW k \in S PROVE k <= j
  <2>1. n - j <= n - k
    BY <1>3, <1>4
  <2>2. QED
    BY <2>1, <1>1
<1>6. QED
  BY <1>5

LEMMA CompensateBelowType ==
  ASSUME NEW r \in Run, NEW t \in Task, NEW i \in Nat
  PROVE  /\ CompensateBelow(r, t, i) \in Task
         /\ LET c == CompensateBelow(r, t, i)
            IN  \/ /\ c.pc = "compensate" /\ c.at \in ToCompensate(r, t)
                   /\ c.at < i /\ c.snap = t.snap
                   /\ \A k \in ToCompensate(r, t) : k < i => k <= c.at
                \/ /\ c.pc = "failedSave" /\ c.snap.status = "failed"
                   /\ c.snap = [t.snap EXCEPT !.status = "failed",
                                   !.current = NoStep, !.error = TRUE]
                   /\ \A k \in ToCompensate(r, t) : ~(k < i)
<1> DEFINE below == {j \in ToCompensate(r, t) : j < i}
           last == CHOOSE j \in below : \A k \in below : k <= j
<1>1. below \subseteq DOMAIN Steps(r)
  BY DEF ToCompensate
<1>2. CASE below # {}
  <2>1. last \in below /\ \A k \in below : k <= last
    BY <1>1, <1>2, LastPosition
  <2>2. last \in Nat
    BY <2>1, <1>1, StepTypes
  <2>3. CompensateBelow(r, t, i) = [t EXCEPT !.pc = "compensate", !.at = last]
    BY <1>2 DEF CompensateBelow
  <2> HIDE DEF last
  <2>4. QED
    BY <2>1, <2>2, <2>3 DEF Task, Awaits
<1>3. CASE below = {}
  <2>1. CompensateBelow(r, t, i) = [t EXCEPT !.pc = "failedSave",
           !.snap.status = "failed", !.snap.current = NoStep,
           !.snap.error = TRUE]
    BY <1>3 DEF CompensateBelow
  <2>2. t.snap \in Snapshot
    BY DEF Task
  <2>3. [t.snap EXCEPT !.status = "failed", !.current = NoStep,
                       !.error = TRUE] \in Snapshot
    BY <2>2 DEF Snapshot, Status
  <2>4. CompensateBelow(r, t, i) = [t EXCEPT !.pc = "failedSave",
           !.snap = [t.snap EXCEPT !.status = "failed", !.current = NoStep,
                                   !.error = TRUE]]
    BY <2>1 DEF Task
  <2>5. \A k \in ToCompensate(r, t) : ~(k < i)
    BY <1>3
  <2>6. QED
    BY <2>2, <2>3, <2>4, <2>5 DEF Task, Awaits, Snapshot
<1>4. QED
  BY <1>2, <1>3

-----------------------------------------------------------------------------
(* The transformers of a frame keep FrameOK.                               *)

LEMMA SameToCompensate ==
  ASSUME NEW r, NEW t, NEW u, t.snap.completed = u.snap.completed
  PROVE  ToCompensate(r, t) = ToCompensate(r, u)
BY DEF ToCompensate

LEMMA GotoFrame ==
  ASSUME NEW r \in Run, NEW t \in Task, NEW l \in Awaits \cup Settled,
         NEW L, NEW C, FrameOK(r, t, L, C),
         \/ t.pc = "startSave" /\ l = "startAudit"
         \/ t.pc = "attemptSave" /\ l = "execute"
         \/ t.pc \in BeforeDone /\ l \in {"retryDelay", "stepFailSave", "stepFailAudit"}
         \/ t.pc = "stepDoneSave" /\ l = "stepDoneAudit"
         \/ t.pc = "completedSave" /\ l = "completedAudit"
         \/ t.pc = "completedAudit" /\ l = "resolved"
         \/ t.pc = "compDoneAudit" /\ l = "compFailAudit"
         \/ t.pc = "failedSave" /\ l = "failedAudit"
  PROVE  FrameOK(r, Goto(t, l), L, C)
<1> DEFINE u == Goto(t, l)
<1>1. /\ u.pc = l /\ u.at = t.at
      /\ u.snap = t.snap
  BY DEF Goto, Task
<1>2. ToCompensate(r, u) = ToCompensate(r, t)
  BY <1>1, SameToCompensate
<1> HIDE DEF u
<1>3. t.pc \notin {"idle", "rejected"}
  BY DEF BeforeDone
<1>4. UniqueNames(Steps(r)) /\ PrefixOK(r, u, L)
  BY <1>1, <1>3 DEF FrameOK, PrefixOK
<1>5. PlaceOK(r, u)
  BY <1>1 DEF FrameOK, PlaceOK, BeforeDone, AfterDone, Finishing
<1>6. UndoOK(r, u, C)
  BY <1>1, <1>2 DEF FrameOK, UndoOK, Forward, BeforeDone, AfterDone, Finishing,
     AfterCompensation
<1>7. QED
  BY <1>4, <1>5, <1>6 DEF FrameOK, u

LEMMA ThrowFrame ==
  ASSUME NEW r \in Run, NEW t \in Task, NEW e, NEW L, NEW C,
         FrameOK(r, t, L, C)
  PROVE  FrameOK(r, Throw(t, e), L, C)
<1> DEFINE u == Throw(t, e)
<1>1. /\ u.pc = "rejected" /\ u.at = t.at
      /\ u.snap = t.snap
  BY DEF Throw, Task
<1>2. ToCompensate(r, u) = ToCompensate(r, t)
  BY <1>1, SameToCompensate
<1> HIDE DEF u
<1>3. PrefixOK(r, u, L)
  BY <1>1 DEF FrameOK, PrefixOK
<1>4. PlaceOK(r, u)
  BY <1>1 DEF PlaceOK, BeforeDone, AfterDone, Finishing
<1>4a. t.snap.completed = <<>> \/ UniqueNames(Steps(r))
  BY DEF FrameOK
<1>5. UndoOK(r, u, C)
  BY <1>1, <1>2 DEF FrameOK, UndoOK, Forward, BeforeDone, AfterDone, Finishing,
     AfterCompensation
<1>6. QED
  BY <1>1, <1>3, <1>4, <1>4a, <1>5 DEF FrameOK, u

LEMMA CrashFrame ==
  ASSUME NEW r \in Run, NEW t \in Task, NEW L, NEW C,
         FrameOK(r, t, L, C), t.pc \in Awaits
  PROVE  LET u == [t EXCEPT !.pc = "crashed"]
         IN  u \in Task /\ FrameOK(r, u, L, C)
<1> DEFINE u == [t EXCEPT !.pc = "crashed"]
<1>1. /\ u.pc = "crashed" /\ u.at = t.at
      /\ u.snap = t.snap /\ u \in Task
  BY DEF Task
<1>2. ToCompensate(r, u) = ToCompensate(r, t)
  BY <1>1, SameToCompensate
<1> HIDE DEF u
<1>3. PrefixOK(r, u, L)
  BY <1>1 DEF FrameOK, PrefixOK
<1>4. PlaceOK(r, u) /\ UniqueNames(Steps(r))
  BY <1>1 DEF FrameOK, PlaceOK, BeforeDone, AfterDone, Finishing, Awaits
<1>5. UndoOK(r, u, C)
  BY <1>1, <1>2 DEF FrameOK, UndoOK, Forward, BeforeDone, AfterDone, Finishing,
     AfterCompensation
<1>6. FrameOK(r, u, L, C)
  BY <1>3, <1>4, <1>5 DEF FrameOK
<1>7. QED
  BY <1>1, <1>6 DEF u

LEMMA FailFrame ==
  ASSUME NEW r \in Run, NEW t \in Task, NEW e, NEW L, NEW C,
         FrameOK(r, t, L, C), t.pc \in BeforeDone \cup AfterDone \cup Finishing
  PROVE  FrameOK(r, Fail(t, e), L, C)
<1> DEFINE u == Fail(t, e)
<1>1. /\ u.pc = "compensatingSave" /\ u.at = t.at
      /\ u.snap.completed = t.snap.completed
      /\ u.snap.status = "compensating"
  BY DEF Fail, Task, Snapshot
<1>2. ToCompensate(r, u) = ToCompensate(r, t)
  BY <1>1, SameToCompensate
<1> HIDE DEF u
<1>3. PrefixOK(r, u, L)
  BY <1>1 DEF FrameOK, PrefixOK
<1>4. PlaceOK(r, u) /\ UniqueNames(Steps(r))
  BY <1>1 DEF FrameOK, PlaceOK, BeforeDone, AfterDone, Finishing
<1>5. UndoOK(r, u, C)
  BY <1>1, <1>2 DEF FrameOK, UndoOK, Forward, BeforeDone, AfterDone, Finishing,
     AfterCompensation
<1>6. QED
  BY <1>3, <1>4, <1>5 DEF FrameOK, u

LEMMA BeginStepFrame ==
  ASSUME NEW r \in Run, NEW t \in Task, NEW i \in Nat \ {0}, NEW L, NEW C,
         FrameOK(r, t, L, C), t.pc \in {"startAudit"} \cup AfterDone,
         i = Len(t.snap.completed) + 1
  PROVE  FrameOK(r, BeginStep(r, t, i), L, C)
<1> DEFINE u == BeginStep(r, t, i)
<1>1.
      /\ u.snap.completed = t.snap.completed
      /\ \/ /\ i <= Len(Steps(r)) /\ u.pc = "stepSave" /\ u.at = i
            /\ u.snap.status = t.snap.status
         \/ /\ ~(i <= Len(Steps(r))) /\ u.pc = "completedSave"
            /\ u.snap.status = "completed"
  BY DEF BeginStep, Task, Snapshot
<1>2. ToCompensate(r, u) = ToCompensate(r, t)
  BY <1>1, SameToCompensate
<1> HIDE DEF u
<1>3. PrefixOK(r, u, L)
  BY <1>1 DEF FrameOK, PrefixOK
<1>4. t.snap.completed \in Seq(StepName) /\ Steps(r) \in Seq(StepDef)
  BY StepTypes DEF Task, Snapshot
<1>5. Len(t.snap.completed) \in Nat /\ Len(t.snap.completed) <= Len(Steps(r))
  BY <1>4 DEF FrameOK, PrefixOK
<1>5a. u.pc = "stepSave" => u.at \in DOMAIN Steps(r)
  BY <1>1, <1>4
<1>5b. u.pc = "completedSave" => Len(t.snap.completed) = Len(Steps(r))
  BY <1>1, <1>4, <1>5
<1>6. PlaceOK(r, u) /\ UniqueNames(Steps(r))
  BY <1>1, <1>4, <1>5, <1>5a, <1>5b DEF FrameOK, PlaceOK, BeforeDone, AfterDone, Finishing
<1>7. UndoOK(r, u, C)
  BY <1>1, <1>2 DEF FrameOK, UndoOK, Forward, BeforeDone, AfterDone, Finishing,
     AfterCompensation
<1>8. QED
  BY <1>3, <1>6, <1>7 DEF FrameOK, u

LEMMA BeginAttemptFrame ==
  ASSUME NEW r \in Run, NEW t \in Task, NEW n, NEW L, NEW C,
         FrameOK(r, t, L, C), t.pc \in BeforeDone
  PROVE  FrameOK(r, BeginAttempt(r, t, n), L, C)
<1> DEFINE u == BeginAttempt(r, t, n)
<1>1. /\ u.pc = "attemptSave" /\ u.at = t.at
      /\ u.snap.completed = t.snap.completed
      /\ u.snap.status = t.snap.status
  BY DEF BeginAttempt, Task, Snapshot
<1>2. ToCompensate(r, u) = ToCompensate(r, t)
  BY <1>1, SameToCompensate
<1> HIDE DEF u
<1>3. PrefixOK(r, u, L)
  BY <1>1 DEF FrameOK, PrefixOK
<1>4. PlaceOK(r, u) /\ UniqueNames(Steps(r))
  BY <1>1 DEF FrameOK, PlaceOK, BeforeDone, AfterDone, Finishing
<1>5. UndoOK(r, u, C)
  BY <1>1, <1>2 DEF FrameOK, UndoOK, Forward, BeforeDone, AfterDone, Finishing,
     AfterCompensation
<1>6. QED
  BY <1>3, <1>4, <1>5 DEF FrameOK, u

LEMMA AttemptFailedFrame ==
  ASSUME NEW r \in Run, NEW t \in Task, NEW L, NEW C,
         FrameOK(r, t, L, C), t.pc = "execute"
  PROVE  FrameOK(r, AttemptFailed(r, t), L, C)
<1> DEFINE step == StepAt(r, t.at)
           u == [t EXCEPT !.pc = "stepFailSave", !.snap.failed = step.name]
<1>1. FrameOK(r, [t EXCEPT !.pc = "retryDelay"], L, C)
  <2>1. FrameOK(r, Goto(t, "retryDelay"), L, C)
    BY GotoFrame DEF BeforeDone, Awaits
  <2>2. QED
    BY <2>1 DEF Goto
<1>2. FrameOK(r, BeginAttempt(r, t, t.attempt + 1), L, C)
  BY BeginAttemptFrame DEF BeforeDone
<1>3. FrameOK(r, u, L, C)
  <2>1. /\ u.pc = "stepFailSave" /\ u.at = t.at
        /\ u.snap.completed = t.snap.completed
        /\ u.snap.status = t.snap.status
    BY DEF Task, Snapshot
  <2>2. ToCompensate(r, u) = ToCompensate(r, t)
    BY <2>1, SameToCompensate
  <2> HIDE DEF u
  <2>3. PrefixOK(r, u, L)
    BY <2>1 DEF FrameOK, PrefixOK
  <2>4. PlaceOK(r, u) /\ UniqueNames(Steps(r))
    BY <2>1 DEF FrameOK, PlaceOK, BeforeDone, AfterDone, Finishing
  <2>5. UndoOK(r, u, C)
    BY <2>1, <2>2 DEF FrameOK, UndoOK, Forward, BeforeDone, AfterDone,
       Finishing, AfterCompensation
  <2>6. QED
    BY <2>3, <2>4, <2>5 DEF FrameOK
<1>4. AttemptFailed(r, t) \in {u, [t EXCEPT !.pc = "retryDelay"],
                               BeginAttempt(r, t, t.attempt + 1)}
  BY DEF AttemptFailed
<1>5. QED
  BY <1>1, <1>2, <1>3, <1>4

\* More effects never hurt a frame.
LEMMA MoreEffectsFrame ==
  ASSUME NEW r \in Run, NEW t \in Task, NEW L, NEW M, NEW C,
         FrameOK(r, t, L, C), L \subseteq M
  PROVE  FrameOK(r, t, M, C)
BY DEF FrameOK, PrefixOK

LEMMA StepDoneFrame ==
  ASSUME NEW r \in Run, NEW t \in Task, NEW L, NEW C,
         FrameOK(r, t, L, C), t.pc = "execute"
  PROVE  FrameOK(r, StepDone(r, t), L \cup {t.at}, C)
<1> DEFINE u == StepDone(r, t)
           M == L \cup {t.at}
           done == t.snap.completed
<1>1. /\ u.pc = "stepDoneSave" /\ u.at = t.at
      /\ u.snap.completed = Append(done, StepAt(r, t.at).name)
      /\ u.snap.status = t.snap.status
  BY DEF StepDone, Task, Snapshot
<1>2. done \in Seq(StepName)
  BY DEF Task, Snapshot
<1>3. /\ t.at \in DOMAIN Steps(r) /\ Len(done) = t.at - 1 /\ t.at \in Nat
      /\ t.at <= Len(Steps(r)) /\ StepAt(r, t.at).name \in StepName
  BY StepTypes DEF FrameOK, PlaceOK, BeforeDone, Task
<1>4. /\ Len(u.snap.completed) = t.at
      /\ \A k \in 1 .. t.at : u.snap.completed[k] =
           IF k = t.at THEN StepAt(r, t.at).name ELSE done[k]
  BY <1>1, <1>2, <1>3
<1> HIDE DEF u
<1>5. PrefixOK(r, u, M)
  BY <1>3, <1>4 DEF FrameOK, PrefixOK
<1>6. PlaceOK(r, u) /\ UniqueNames(Steps(r))
  BY <1>1, <1>3, <1>4 DEF FrameOK, PlaceOK, BeforeDone, AfterDone, Finishing
<1>7. UndoOK(r, u, C)
  <2>1. C = <<>> /\ u.snap.status # "failed"
    BY <1>1 DEF FrameOK, UndoOK, Forward, BeforeDone
  <2>2. SeqRange(C) = {} /\ DOMAIN C = {}
    BY <2>1 DEF SeqRange
  <2>3. QED
    BY <1>1, <2>1, <2>2 DEF UndoOK, AfterCompensation
<1>8. QED
  BY <1>5, <1>6, <1>7 DEF FrameOK, u

LEMMA CompensateBelowFrame ==
  ASSUME NEW r \in Run, NEW t \in Task, NEW L, NEW C, NEW i \in Nat,
         FrameOK(r, t, L, C),
         \/ t.pc = "compensatingSave" /\ i = Len(Steps(r)) + 1
         \/ t.pc \in AfterCompensation /\ i = t.at
  PROVE  FrameOK(r, CompensateBelow(r, t, i), L, C)
<1> DEFINE u == CompensateBelow(r, t, i)
           undo == ToCompensate(r, t)
<1>1. \A j \in undo : j \in Nat /\ (j \in SeqRange(C) <=> j >= i)
  <2>1. undo \subseteq DOMAIN Steps(r)
    BY ToCompensateType
  <2>2. CASE t.pc = "compensatingSave" /\ i = Len(Steps(r)) + 1
    <3>1. SeqRange(C) = {}
      BY <2>2 DEF FrameOK, UndoOK, Forward, SeqRange
    <3>2. QED
      BY <2>1, <2>2, <3>1, StepTypes
  <2>3. CASE t.pc \in AfterCompensation /\ i = t.at
    BY <2>1, <2>3, StepTypes DEF FrameOK, UndoOK
  <2>4. QED
    BY <2>2, <2>3
<1>2. /\ t.pc # "idle" /\ t.pc # "rejected" /\ t.snap.status # "failed"
      /\ SeqRange(C) \subseteq undo
      /\ \A k \in DOMAIN C : k > 1 => C[k] < C[k - 1]
  BY DEF FrameOK, UndoOK, AfterCompensation, Forward
<1>3. u.snap.completed = t.snap.completed
  BY DEF CompensateBelow, Task, Snapshot
<1>4. ToCompensate(r, u) = undo
  BY <1>3, SameToCompensate
<1>5. PrefixOK(r, u, L) /\ UniqueNames(Steps(r))
  BY <1>2, <1>3 DEF FrameOK, PrefixOK, PlaceOK
<1>6. CASE /\ u.pc = "compensate" /\ u.at \in undo
           /\ u.at < i /\ u.snap = t.snap
           /\ \A k \in undo : k < i => k <= u.at
  <2> HIDE DEF u, undo
  <2>1. u.at \in Nat /\ \A j \in undo : j \in SeqRange(C) <=> j > u.at
    BY <1>1, <1>6
  <2>2. UndoOK(r, u, C)
    BY <1>2, <1>4, <1>6, <2>1 DEF UndoOK, Forward, BeforeDone, AfterDone,
       Finishing, AfterCompensation
  <2>3. PlaceOK(r, u)
    BY <1>3, <1>5, <1>6 DEF PlaceOK, BeforeDone, AfterDone, Finishing
  <2>4. QED
    BY <1>5, <2>2, <2>3 DEF FrameOK, u
<1>7. CASE /\ u.pc = "failedSave" /\ u.snap.status = "failed"
           /\ \A k \in undo : ~(k < i)
  <2> HIDE DEF u, undo
  <2>1. SeqRange(C) = undo
    <3>1. ASSUME NEW j \in undo PROVE j \in SeqRange(C)
      BY <1>1, <1>7
    <3>2. QED
      BY <1>2, <3>1
  <2>2. UndoOK(r, u, C)
    BY <1>2, <1>4, <1>7, <2>1 DEF UndoOK, Forward, BeforeDone, AfterDone,
       Finishing, AfterCompensation
  <2>3. PlaceOK(r, u)
    BY <1>3, <1>5, <1>7 DEF PlaceOK, BeforeDone, AfterDone, Finishing
  <2>4. QED
    BY <1>5, <2>2, <2>3 DEF FrameOK, u
<1>8. \/ /\ u.pc = "compensate" /\ u.at \in undo
         /\ u.at < i /\ u.snap = t.snap
         /\ \A k \in undo : k < i => k <= u.at
      \/ /\ u.pc = "failedSave" /\ u.snap.status = "failed"
         /\ \A k \in undo : ~(k < i)
  BY CompensateBelowType
<1> HIDE DEF u, undo
<1>9. FrameOK(r, u, L, C)
  BY <1>6, <1>7, <1>8 DEF u, undo
<1>10. QED
  BY <1>9 DEF u

LEMMA CompensateFrame ==
  ASSUME NEW r \in Run, NEW t \in Task, NEW l \in AfterCompensation,
         NEW L, NEW C \in Seq(Position), FrameOK(r, t, L, C),
         t.pc = "compensate"
  PROVE  /\ [t EXCEPT !.pc = l] \in Task
         /\ Append(C, t.at) \in Seq(Position)
         /\ FrameOK(r, [t EXCEPT !.pc = l], L, Append(C, t.at))
<1> DEFINE u == [t EXCEPT !.pc = l]
           undo == ToCompensate(r, t)
           D == Append(C, t.at)
<1>1. /\ u.pc = l /\ u.at = t.at /\ u.snap = t.snap
      /\ u \in Task
  BY DEF Task, Awaits, AfterCompensation
<1>2. ToCompensate(r, u) = undo
  BY <1>1, SameToCompensate
<1>3. undo \subseteq DOMAIN Steps(r) /\ t.at \in undo /\ t.at \in Position
  BY ToCompensateType, StepTypes DEF FrameOK, UndoOK
<1>4. \A j \in undo : j \in Nat /\ (j \in SeqRange(C) <=> j > t.at)
  BY <1>3, StepTypes DEF FrameOK, UndoOK
<1>5. D \in Seq(Position) /\ Len(D) = Len(C) + 1 /\ Len(C) \in Nat
  BY <1>3
<1>6. /\ \A k \in DOMAIN D : D[k] = IF k = Len(C) + 1 THEN t.at ELSE C[k]
      /\ DOMAIN D = 1 .. Len(C) + 1 /\ DOMAIN C = 1 .. Len(C)
  BY <1>3, <1>5
<1> HIDE DEF u, undo, D
<1>7. SeqRange(D) = SeqRange(C) \cup {t.at}
  <2>1. ASSUME NEW x \in SeqRange(D) PROVE x \in SeqRange(C) \cup {t.at}
    <3>1. PICK k \in DOMAIN D : x = D[k]
      BY DEF SeqRange
    <3>2. k = Len(C) + 1 \/ k \in DOMAIN C
      BY <3>1, <1>5, <1>6
    <3>3. QED
      BY <3>1, <3>2, <1>6 DEF SeqRange
  <2>2. ASSUME NEW x \in SeqRange(C) \cup {t.at} PROVE x \in SeqRange(D)
    <3>1. CASE x = t.at
      <4>1. Len(C) + 1 \in DOMAIN D /\ D[Len(C) + 1] = t.at
        BY <1>5, <1>6
      <4>2. QED
        BY <3>1, <4>1 DEF SeqRange
    <3>2. CASE x \in SeqRange(C)
      <4>1. PICK k \in DOMAIN C : x = C[k]
        BY <3>2 DEF SeqRange
      <4>2. k \in DOMAIN D /\ D[k] = C[k]
        BY <1>5, <1>6
      <4>3. QED
        BY <4>1, <4>2 DEF SeqRange
    <3>3. QED
      BY <2>2, <3>1, <3>2
  <2>3. QED
    BY <2>1, <2>2
<1>8. SeqRange(C) \subseteq undo /\ \A k \in DOMAIN C : k > 1 => C[k] < C[k - 1]
  BY DEF FrameOK, UndoOK, undo
<1>9. \A k \in DOMAIN D : k > 1 => D[k] < D[k - 1]
  <2>1. SUFFICES ASSUME NEW k \in DOMAIN D, k > 1 PROVE D[k] < D[k - 1]
    OBVIOUS
  <2>2. k - 1 \in DOMAIN C /\ D[k - 1] = C[k - 1]
    BY <2>1, <1>5, <1>6
  <2>3. C[k - 1] \in SeqRange(C)
    BY <2>2 DEF SeqRange
  <2>4. CASE k = Len(C) + 1
    BY <2>2, <2>3, <2>4, <1>4, <1>6, <1>8
  <2>5. CASE k # Len(C) + 1
    BY <2>1, <2>2, <2>5, <1>5, <1>6, <1>8
  <2>6. QED
    BY <2>4, <2>5
<1>10. \A j \in undo : j \in SeqRange(D) <=> j >= t.at
  BY <1>3, <1>4, <1>7
<1>11. t.snap.status # "failed"
  BY DEF FrameOK, UndoOK
<1>12. UndoOK(r, u, D)
  <2>1. SeqRange(D) \subseteq undo
    BY <1>3, <1>7, <1>8
  <2>2. QED
    BY <1>1, <1>2, <1>3, <1>9, <1>10, <1>11, <2>1 DEF UndoOK, AfterCompensation,
       Forward, BeforeDone, AfterDone, Finishing
<1>13. PrefixOK(r, u, L)
  BY <1>1 DEF FrameOK, PrefixOK
<1>14. PlaceOK(r, u) /\ UniqueNames(Steps(r))
  BY <1>1 DEF FrameOK, PlaceOK, BeforeDone, AfterDone, Finishing,
     AfterCompensation
<1>15. FrameOK(r, u, L, D)
  BY <1>12, <1>13, <1>14 DEF FrameOK
<1>16. QED
  BY <1>1, <1>5, <1>15 DEF u, D

-----------------------------------------------------------------------------
(* The invariant is inductive.                                             *)

IInv == TypeOK /\ FrameInv

StoreType == [Id -> Snapshot \cup {NoSnapshot}]

LEMMA SaveType ==
  ASSUME TypeOK, NEW r \in Run, NEW ok \in BOOLEAN, Save(r, ok)
  PROVE  store' \in StoreType
<1>1. task[r].snap \in Snapshot /\ IdOf[r] \in Id /\ store \in StoreType
  BY StepTypes DEF TypeOK, Task, StoreType
<1>2. [store EXCEPT ![IdOf[r]] = task[r].snap] \in StoreType
  BY <1>1 DEF StoreType
<1>3. QED
  BY <1>1, <1>2 DEF Save

\* A step that moves one run, its effects and its compensations only.
LEMMA OneRunMoves ==
  ASSUME IInv, NEW r \in Run,
         UNCHANGED engineVars,
         task' \in [Run -> Task],
         store' \in StoreType,
         calls' \in [Run -> [Position -> Nat]],
         inflight' \in [Run -> SUBSET Position],
         landed' \in [Run -> SUBSET Position],
         compensations' \in [Run -> Seq(Position)],
         \A q \in Run \ {r} : /\ task'[q] = task[q]
                              /\ landed'[q] = landed[q]
                              /\ compensations'[q] = compensations[q],
         FrameOK(r, task'[r], landed'[r], compensations'[r])
  PROVE  IInv'
<1>1. TypeOK'
  BY DEF IInv, TypeOK, engineVars, StoreType
<1>2. \A w \in registered' : UniqueNames(StepsOf[w])
  BY DEF IInv, FrameInv, engineVars
<1>3. ASSUME NEW q \in Run
      PROVE  FrameOK(q, task'[q], landed'[q], compensations'[q])
  BY DEF IInv, FrameInv
<1>4. QED
  BY <1>1, <1>2, <1>3 DEF IInv, FrameInv

\* A save or audit step: the run goes on with one of two frames.
LEMMA SaveAtStep ==
  ASSUME IInv, NEW r \in Run, NEW l, NEW onOk \in Task, NEW onError \in Task,
         FrameOK(r, onOk, landed[r], compensations[r]),
         FrameOK(r, onError, landed[r], compensations[r]),
         SaveAt(r, l, onOk, onError)
  PROVE  IInv'
<1>1. PICK ok \in BOOLEAN :
        /\ Save(r, ok)
        /\ task' = [task EXCEPT ![r] = IF ok THEN onOk ELSE onError]
  BY DEF SaveAt
<1>2. store' \in StoreType
  BY <1>1, SaveType DEF IInv
<1>3. task' \in [Run -> Task] /\ task'[r] \in {onOk, onError}
  BY <1>1 DEF IInv, TypeOK
<1>4. UNCHANGED <<engineVars, calls, inflight, landed, compensations>>
  BY DEF SaveAt, effectVars
<1>5. \A q \in Run \ {r} : task'[q] = task[q]
  BY <1>1 DEF IInv, TypeOK
<1>6. FrameOK(r, task'[r], landed'[r], compensations'[r])
  BY <1>3, <1>4
<1>7. QED
  BY <1>2, <1>3, <1>4, <1>5, <1>6, OneRunMoves DEF IInv, TypeOK

LEMMA AuditAtStep ==
  ASSUME IInv, NEW r \in Run, NEW l, NEW onOk \in Task, NEW onError \in Task,
         FrameOK(r, onOk, landed[r], compensations[r]),
         FrameOK(r, onError, landed[r], compensations[r]),
         AuditAt(r, l, onOk, onError)
  PROVE  IInv'
<1>1. PICK ok \in BOOLEAN :
        task' = [task EXCEPT ![r] = IF ok THEN onOk ELSE onError]
  BY DEF AuditAt
<1>2. task' \in [Run -> Task] /\ task'[r] \in {onOk, onError}
  BY <1>1 DEF IInv, TypeOK
<1>3. UNCHANGED <<engineVars, store, calls, inflight, landed, compensations>>
  BY DEF AuditAt, effectVars
<1>4. \A q \in Run \ {r} : task'[q] = task[q]
  BY <1>1 DEF IInv, TypeOK
<1>5. FrameOK(r, task'[r], landed'[r], compensations'[r])
  BY <1>2, <1>3
<1>6. store' \in StoreType
  BY <1>3 DEF IInv, TypeOK, StoreType
<1>7. QED
  BY <1>2, <1>3, <1>4, <1>5, <1>6, OneRunMoves DEF IInv, TypeOK

LEMMA FrameAt ==
  ASSUME IInv, NEW r \in Run
  PROVE  task[r] \in Task /\ FrameOK(r, task[r], landed[r], compensations[r])
BY DEF IInv, TypeOK, FrameInv

\* The failure paths share their frames: fail and compensate, or throw.
LEMMA FailAt ==
  ASSUME IInv, NEW r \in Run, NEW e \in Error,
         task[r].pc \in BeforeDone \cup AfterDone \cup Finishing
  PROVE  /\ Fail(task[r], e) \in Task
         /\ FrameOK(r, Fail(task[r], e), landed[r], compensations[r])
BY FrameAt, FailType, FailFrame

LEMMA ThrowAt ==
  ASSUME IInv, NEW r \in Run, NEW e \in Error, task[r].pc \in Awaits
  PROVE  /\ Throw(task[r], e) \in Task
         /\ FrameOK(r, Throw(task[r], e), landed[r], compensations[r])
BY FrameAt, ThrowType, ThrowFrame DEF Awaits

LEMMA GotoAt ==
  ASSUME IInv, NEW r \in Run, NEW l \in Awaits \cup Settled,
         \/ task[r].pc = "startSave" /\ l = "startAudit"
         \/ task[r].pc = "attemptSave" /\ l = "execute"
         \/ task[r].pc = "stepFailSave" /\ l = "stepFailAudit"
         \/ task[r].pc = "stepDoneSave" /\ l = "stepDoneAudit"
         \/ task[r].pc = "completedSave" /\ l = "completedAudit"
         \/ task[r].pc = "completedAudit" /\ l = "resolved"
         \/ task[r].pc = "compDoneAudit" /\ l = "compFailAudit"
         \/ task[r].pc = "failedSave" /\ l = "failedAudit"
  PROVE  /\ Goto(task[r], l) \in Task
         /\ FrameOK(r, Goto(task[r], l), landed[r], compensations[r])
<1>1. task[r] \in Task /\ FrameOK(r, task[r], landed[r], compensations[r])
  BY FrameAt
<1>2. Goto(task[r], l) \in Task
  BY <1>1, GotoType
<1>3. FrameOK(r, Goto(task[r], l), landed[r], compensations[r])
  BY <1>1, GotoFrame DEF BeforeDone
<1>4. QED
  BY <1>2, <1>3

LEMMA CompensateBelowAt ==
  ASSUME IInv, NEW r \in Run, NEW i \in Nat,
         \/ task[r].pc = "compensatingSave" /\ i = Len(Steps(r)) + 1
         \/ task[r].pc \in AfterCompensation /\ i = task[r].at
  PROVE  /\ CompensateBelow(r, task[r], i) \in Task
         /\ FrameOK(r, CompensateBelow(r, task[r], i), landed[r],
                    compensations[r])
BY FrameAt, CompensateBelowType, CompensateBelowFrame

LEMMA StartKeeps ==
  ASSUME IInv, NEW r \in Run, Start(r)
  PROVE  IInv'
<1> DEFINE u == [task[r] EXCEPT !.pc = "startSave"]
<1>1. /\ task[r] \in Task /\ task[r].pc = "idle"
      /\ FrameOK(r, task[r], landed[r], compensations[r])
      /\ UniqueNames(Steps(r))
  BY FrameAt DEF Start, IInv, FrameInv, TypeOK, Steps
<1>2. /\ u.pc = "startSave" /\ u.at = task[r].at
      /\ u.snap = task[r].snap /\ u \in Task
  BY <1>1 DEF Task, Awaits
<1>3. ToCompensate(r, u) = ToCompensate(r, task[r])
  BY <1>2, SameToCompensate
<1>4. task' = [task EXCEPT ![r] = u]
  BY DEF Start
<1> HIDE DEF u
<1>5. PrefixOK(r, u, landed[r]) /\ PlaceOK(r, u)
  BY <1>1, <1>2 DEF FrameOK, PrefixOK, PlaceOK, BeforeDone, AfterDone, Finishing
<1>6. UndoOK(r, u, compensations[r])
  BY <1>1, <1>2, <1>3 DEF FrameOK, UndoOK, Forward, AfterCompensation
<1>7. FrameOK(r, u, landed[r], compensations[r])
  BY <1>1, <1>5, <1>6 DEF FrameOK
<1>8. UNCHANGED <<engineVars, store, calls, inflight, landed, compensations>>
  BY DEF Start, effectVars
<1>9. task' \in [Run -> Task] /\ task'[r] = u
      /\ \A q \in Run \ {r} : task'[q] = task[q]
  BY <1>2, <1>4 DEF IInv, TypeOK
<1>10. QED
  BY <1>7, <1>8, <1>9, OneRunMoves DEF IInv, TypeOK, StoreType

LEMMA StartUnknownKeeps ==
  ASSUME IInv, NEW r \in Run, StartUnknown(r)
  PROVE  IInv'
<1> DEFINE u == Throw(task[r], "unknown")
<1>1. u \in Task /\ FrameOK(r, u, landed[r], compensations[r])
  BY FrameAt, ThrowType, ThrowFrame DEF Error
<1>2. task' = [task EXCEPT ![r] = u]
  BY DEF StartUnknown
<1> HIDE DEF u
<1>3. UNCHANGED <<engineVars, store, calls, inflight, landed, compensations>>
  BY DEF StartUnknown, effectVars
<1>4. task' \in [Run -> Task] /\ task'[r] = u
      /\ \A q \in Run \ {r} : task'[q] = task[q]
  BY <1>1, <1>2 DEF IInv, TypeOK
<1>5. QED
  BY <1>1, <1>3, <1>4, OneRunMoves DEF IInv, TypeOK, StoreType

LEMMA StartSaveKeeps ==
  ASSUME IInv, NEW r \in Run, StartSave(r)
  PROVE  IInv'
<1>1. task[r].pc = "startSave"
  BY DEF StartSave, SaveAt
<1>2. /\ Goto(task[r], "startAudit") \in Task
      /\ FrameOK(r, Goto(task[r], "startAudit"), landed[r], compensations[r])
  BY <1>1, GotoAt DEF Awaits
<1>3. /\ Throw(task[r], "save") \in Task
      /\ FrameOK(r, Throw(task[r], "save"), landed[r], compensations[r])
  BY <1>1, ThrowAt DEF Awaits, Error
<1>4. QED
  BY <1>2, <1>3, SaveAtStep DEF StartSave

LEMMA StartAuditKeeps ==
  ASSUME IInv, NEW r \in Run, StartAudit(r)
  PROVE  IInv'
<1>1. /\ task[r].pc = "startAudit" /\ task[r] \in Task
      /\ FrameOK(r, task[r], landed[r], compensations[r])
  BY FrameAt DEF StartAudit, AuditAt
<1>2. Len(task[r].snap.completed) + 1 = 1
  BY <1>1 DEF FrameOK, PlaceOK
<1>3. /\ BeginStep(r, task[r], 1) \in Task
      /\ FrameOK(r, BeginStep(r, task[r], 1), landed[r], compensations[r])
  BY <1>1, <1>2, BeginStepType, BeginStepFrame
<1>4. /\ Throw(task[r], "audit") \in Task
      /\ FrameOK(r, Throw(task[r], "audit"), landed[r], compensations[r])
  BY <1>1, ThrowAt DEF Awaits, Error
<1>5. QED
  BY <1>3, <1>4, AuditAtStep DEF StartAudit

LEMMA StepSaveKeeps ==
  ASSUME IInv, NEW r \in Run, StepSave(r)
  PROVE  IInv'
<1>1. /\ task[r].pc = "stepSave" /\ task[r] \in Task
      /\ FrameOK(r, task[r], landed[r], compensations[r])
  BY FrameAt DEF StepSave, SaveAt
<1>2. /\ BeginAttempt(r, task[r], 1) \in Task
      /\ FrameOK(r, BeginAttempt(r, task[r], 1), landed[r], compensations[r])
  BY <1>1, BeginAttemptType, BeginAttemptFrame DEF BeforeDone
<1>3. /\ Fail(task[r], "save") \in Task
      /\ FrameOK(r, Fail(task[r], "save"), landed[r], compensations[r])
  BY <1>1, FailAt DEF BeforeDone, Error
<1>4. QED
  BY <1>2, <1>3, SaveAtStep DEF StepSave

LEMMA AttemptSaveKeeps ==
  ASSUME IInv, NEW r \in Run, AttemptSave(r)
  PROVE  IInv'
<1>1. task[r].pc = "attemptSave"
  BY DEF AttemptSave
<1>2. /\ Goto(task[r], "execute") \in Task
      /\ FrameOK(r, Goto(task[r], "execute"), landed[r], compensations[r])
  BY <1>1, GotoAt DEF Awaits
<1>3. /\ Fail(task[r], "save") \in Task
      /\ FrameOK(r, Fail(task[r], "save"), landed[r], compensations[r])
  BY <1>1, FailAt DEF BeforeDone, Error
<1>4. PICK ok \in BOOLEAN :
        /\ Save(r, ok)
        /\ task' = [task EXCEPT ![r] = IF ok THEN Goto(task[r], "execute")
                                             ELSE Fail(task[r], "save")]
        /\ calls' = IF ok THEN [calls EXCEPT ![r][task[r].at] = @ + 1] ELSE calls
  BY DEF AttemptSave, Goto
<1>5. task[r].at \in Position
  BY <1>1, FrameAt, StepTypes DEF FrameOK, PlaceOK, BeforeDone
<1>6. calls' \in [Run -> [Position -> Nat]]
  BY <1>4, <1>5 DEF IInv, TypeOK
<1>7. store' \in StoreType
  BY <1>4, SaveType DEF IInv
<1>8. UNCHANGED <<engineVars, inflight, landed, compensations>>
  BY DEF AttemptSave
<1>9. /\ task' \in [Run -> Task]
      /\ task'[r] \in {Goto(task[r], "execute"), Fail(task[r], "save")}
      /\ \A q \in Run \ {r} : task'[q] = task[q]
  BY <1>2, <1>3, <1>4 DEF IInv, TypeOK
<1>10. FrameOK(r, task'[r], landed'[r], compensations'[r])
  BY <1>2, <1>3, <1>8, <1>9
<1>11. QED
  BY <1>6, <1>7, <1>8, <1>9, <1>10, OneRunMoves DEF IInv, TypeOK

LEMMA ExecuteResolvesKeeps ==
  ASSUME IInv, NEW r \in Run, ExecuteResolves(r)
  PROVE  IInv'
<1> DEFINE u == StepDone(r, task[r])
           at == task[r].at
<1>1. /\ task[r].pc = "execute" /\ task[r] \in Task
      /\ FrameOK(r, task[r], landed[r], compensations[r])
  BY FrameAt DEF ExecuteResolves
<1>2. at \in DOMAIN Steps(r) /\ at \in Position
  BY <1>1, StepTypes DEF FrameOK, PlaceOK, BeforeDone
<1>3. u \in Task /\ FrameOK(r, u, landed[r] \cup {at}, compensations[r])
  BY <1>1, <1>2, StepDoneType, StepDoneFrame
<1>4. /\ task' = [task EXCEPT ![r] = u]
      /\ landed' = [landed EXCEPT ![r] = @ \cup {at}]
      /\ UNCHANGED <<engineVars, store, calls, inflight, compensations>>
  BY DEF ExecuteResolves
<1> HIDE DEF u, at
<1>5. /\ task' \in [Run -> Task] /\ task'[r] = u
      /\ landed' \in [Run -> SUBSET Position] /\ landed'[r] = landed[r] \cup {at}
      /\ \A q \in Run \ {r} : task'[q] = task[q] /\ landed'[q] = landed[q]
  BY <1>2, <1>3, <1>4 DEF IInv, TypeOK
<1>6. FrameOK(r, task'[r], landed'[r], compensations'[r])
  BY <1>3, <1>4, <1>5
<1>7. QED
  BY <1>4, <1>5, <1>6, OneRunMoves DEF IInv, TypeOK, StoreType

LEMMA ExecuteRejectsKeeps ==
  ASSUME IInv, NEW r \in Run, ExecuteRejects(r)
  PROVE  IInv'
<1> DEFINE u == AttemptFailed(r, task[r])
           at == task[r].at
<1>1. /\ task[r].pc = "execute" /\ task[r] \in Task
      /\ FrameOK(r, task[r], landed[r], compensations[r])
  BY FrameAt DEF ExecuteRejects
<1>2. at \in DOMAIN Steps(r) /\ at \in Position
  BY <1>1, StepTypes DEF FrameOK, PlaceOK, BeforeDone
<1>3. u \in Task /\ FrameOK(r, u, landed[r], compensations[r])
  BY <1>1, <1>2, AttemptFailedType, AttemptFailedFrame
<1>4. PICK effect \in SUBSET {at} : landed' = [landed EXCEPT ![r] = @ \cup effect]
  BY DEF ExecuteRejects
<1>5. FrameOK(r, u, landed[r] \cup effect, compensations[r])
  BY <1>1, <1>3, MoreEffectsFrame
<1>6. /\ task' = [task EXCEPT ![r] = u]
      /\ UNCHANGED <<engineVars, store, calls, inflight, compensations>>
  BY DEF ExecuteRejects
<1> HIDE DEF u, at
<1>7. /\ task' \in [Run -> Task] /\ task'[r] = u
      /\ landed' \in [Run -> SUBSET Position]
      /\ landed'[r] = landed[r] \cup effect
      /\ \A q \in Run \ {r} : task'[q] = task[q] /\ landed'[q] = landed[q]
  BY <1>2, <1>3, <1>4, <1>6 DEF IInv, TypeOK
<1>8. FrameOK(r, task'[r], landed'[r], compensations'[r])
  BY <1>5, <1>6, <1>7
<1>9. QED
  BY <1>6, <1>7, <1>8, OneRunMoves DEF IInv, TypeOK, StoreType

LEMMA ExecuteTimesOutKeeps ==
  ASSUME IInv, NEW r \in Run, ExecuteTimesOut(r)
  PROVE  IInv'
<1> DEFINE u == AttemptFailed(r, task[r])
           at == task[r].at
<1>1. /\ task[r].pc = "execute" /\ task[r] \in Task
      /\ FrameOK(r, task[r], landed[r], compensations[r])
  BY FrameAt DEF ExecuteTimesOut
<1>2. at \in DOMAIN Steps(r) /\ at \in Position
  BY <1>1, StepTypes DEF FrameOK, PlaceOK, BeforeDone
<1>3. u \in Task /\ FrameOK(r, u, landed[r], compensations[r])
  BY <1>1, <1>2, AttemptFailedType, AttemptFailedFrame
<1>4. /\ task' = [task EXCEPT ![r] = u]
      /\ inflight' = [inflight EXCEPT ![r] = @ \cup {at}]
      /\ UNCHANGED <<engineVars, store, calls, landed, compensations>>
  BY DEF ExecuteTimesOut
<1> HIDE DEF u, at
<1>5. /\ task' \in [Run -> Task] /\ task'[r] = u
      /\ inflight' \in [Run -> SUBSET Position]
      /\ \A q \in Run \ {r} : task'[q] = task[q]
  BY <1>2, <1>3, <1>4 DEF IInv, TypeOK
<1>6. QED
  BY <1>3, <1>4, <1>5, OneRunMoves DEF IInv, TypeOK, StoreType

LEMMA LateEffectKeeps ==
  ASSUME IInv, NEW r \in Run, LateEffect(r)
  PROVE  IInv'
<1>1. PICK i \in inflight[r] :
        /\ landed' = [landed EXCEPT ![r] = @ \cup {i}]
        /\ inflight' = [inflight EXCEPT ![r] = @ \ {i}]
  BY DEF LateEffect
<1>2. i \in Position
  BY DEF IInv, TypeOK
<1>3. UNCHANGED <<engineVars, task, store, calls, compensations>>
  BY DEF LateEffect
<1>4. /\ landed' \in [Run -> SUBSET Position] /\ landed'[r] = landed[r] \cup {i}
      /\ inflight' \in [Run -> SUBSET Position]
      /\ \A q \in Run \ {r} : landed'[q] = landed[q]
  BY <1>1, <1>2 DEF IInv, TypeOK
<1>5. FrameOK(r, task[r], landed[r] \cup {i}, compensations[r])
  BY FrameAt, MoreEffectsFrame
<1>6. FrameOK(r, task'[r], landed'[r], compensations'[r])
  BY <1>3, <1>4, <1>5
<1>7. QED
  BY <1>3, <1>4, <1>6, OneRunMoves DEF IInv, TypeOK, StoreType

LEMMA RetryDelayKeeps ==
  ASSUME IInv, NEW r \in Run, RetryDelay(r)
  PROVE  IInv'
<1> DEFINE u == BeginAttempt(r, task[r], task[r].attempt + 1)
<1>1. /\ task[r].pc = "retryDelay" /\ task[r] \in Task
      /\ FrameOK(r, task[r], landed[r], compensations[r])
      /\ task[r].attempt + 1 \in Nat
  BY FrameAt DEF RetryDelay, Task
<1>2. u \in Task /\ FrameOK(r, u, landed[r], compensations[r])
  BY <1>1, BeginAttemptType, BeginAttemptFrame DEF BeforeDone
<1>3. /\ task' = [task EXCEPT ![r] = u]
      /\ UNCHANGED <<engineVars, store, calls, inflight, landed, compensations>>
  BY DEF RetryDelay, effectVars
<1> HIDE DEF u
<1>4. /\ task' \in [Run -> Task] /\ task'[r] = u
      /\ \A q \in Run \ {r} : task'[q] = task[q]
  BY <1>2, <1>3 DEF IInv, TypeOK
<1>5. QED
  BY <1>2, <1>3, <1>4, OneRunMoves DEF IInv, TypeOK, StoreType

LEMMA StepFailSaveKeeps ==
  ASSUME IInv, NEW r \in Run, StepFailSave(r)
  PROVE  IInv'
<1>1. task[r].pc = "stepFailSave"
  BY DEF StepFailSave, SaveAt
<1>2. /\ Goto(task[r], "stepFailAudit") \in Task
      /\ FrameOK(r, Goto(task[r], "stepFailAudit"), landed[r], compensations[r])
  BY <1>1, GotoAt DEF Awaits, Settled, AfterCompensation
<1>3. /\ Fail(task[r], "save") \in Task
      /\ FrameOK(r, Fail(task[r], "save"), landed[r], compensations[r])
  BY <1>1, FailAt DEF BeforeDone, AfterDone, Finishing, Error
<1>4. QED
  BY <1>2, <1>3, SaveAtStep DEF StepFailSave

LEMMA StepFailAuditKeeps ==
  ASSUME IInv, NEW r \in Run, StepFailAudit(r)
  PROVE  IInv'
<1>1. task[r].pc = "stepFailAudit"
  BY DEF StepFailAudit, AuditAt
<1>2. /\ Fail(task[r], "step") \in Task
      /\ FrameOK(r, Fail(task[r], "step"), landed[r], compensations[r])
  BY <1>1, FailAt DEF BeforeDone, AfterDone, Finishing, Error
<1>3. /\ Fail(task[r], "audit") \in Task
      /\ FrameOK(r, Fail(task[r], "audit"), landed[r], compensations[r])
  BY <1>1, FailAt DEF BeforeDone, AfterDone, Finishing, Error
<1>4. QED
  BY <1>2, <1>3, AuditAtStep DEF StepFailAudit

LEMMA StepDoneSaveKeeps ==
  ASSUME IInv, NEW r \in Run, StepDoneSave(r)
  PROVE  IInv'
<1>1. task[r].pc = "stepDoneSave"
  BY DEF StepDoneSave, SaveAt
<1>2. /\ Goto(task[r], "stepDoneAudit") \in Task
      /\ FrameOK(r, Goto(task[r], "stepDoneAudit"), landed[r], compensations[r])
  BY <1>1, GotoAt DEF Awaits, Settled, AfterCompensation
<1>3. /\ Fail(task[r], "save") \in Task
      /\ FrameOK(r, Fail(task[r], "save"), landed[r], compensations[r])
  BY <1>1, FailAt DEF BeforeDone, AfterDone, Finishing, Error
<1>4. QED
  BY <1>2, <1>3, SaveAtStep DEF StepDoneSave

LEMMA StepDoneAuditKeeps ==
  ASSUME IInv, NEW r \in Run, StepDoneAudit(r)
  PROVE  IInv'
<1> DEFINE i == task[r].at + 1
<1>1. /\ task[r].pc = "stepDoneAudit" /\ task[r] \in Task
      /\ FrameOK(r, task[r], landed[r], compensations[r])
  BY FrameAt DEF StepDoneAudit, AuditAt
<1>2. i \in Nat \ {0} /\ i = Len(task[r].snap.completed) + 1
  BY <1>1 DEF FrameOK, PlaceOK, AfterDone, Task
<1> HIDE DEF i
<1>3. /\ BeginStep(r, task[r], i) \in Task
      /\ FrameOK(r, BeginStep(r, task[r], i), landed[r], compensations[r])
  BY <1>1, <1>2, BeginStepType, BeginStepFrame DEF AfterDone
<1>4. /\ Fail(task[r], "audit") \in Task
      /\ FrameOK(r, Fail(task[r], "audit"), landed[r], compensations[r])
  BY <1>1, FailAt DEF AfterDone, Error
<1>5. AuditAt(r, "stepDoneAudit", BeginStep(r, task[r], i), Fail(task[r], "audit"))
  BY DEF StepDoneAudit, i
<1>6. QED
  BY <1>3, <1>4, <1>5, AuditAtStep

LEMMA CompletedSaveKeeps ==
  ASSUME IInv, NEW r \in Run, CompletedSave(r)
  PROVE  IInv'
<1>1. task[r].pc = "completedSave"
  BY DEF CompletedSave, SaveAt
<1>2. /\ Goto(task[r], "completedAudit") \in Task
      /\ FrameOK(r, Goto(task[r], "completedAudit"), landed[r], compensations[r])
  BY <1>1, GotoAt DEF Awaits, Settled, AfterCompensation
<1>3. /\ Fail(task[r], "save") \in Task
      /\ FrameOK(r, Fail(task[r], "save"), landed[r], compensations[r])
  BY <1>1, FailAt DEF BeforeDone, AfterDone, Finishing, Error
<1>4. QED
  BY <1>2, <1>3, SaveAtStep DEF CompletedSave

LEMMA CompletedAuditKeeps ==
  ASSUME IInv, NEW r \in Run, CompletedAudit(r)
  PROVE  IInv'
<1>1. task[r].pc = "completedAudit"
  BY DEF CompletedAudit, AuditAt
<1>2. /\ Goto(task[r], "resolved") \in Task
      /\ FrameOK(r, Goto(task[r], "resolved"), landed[r], compensations[r])
  BY <1>1, GotoAt DEF Awaits, Settled, AfterCompensation
<1>3. /\ Fail(task[r], "audit") \in Task
      /\ FrameOK(r, Fail(task[r], "audit"), landed[r], compensations[r])
  BY <1>1, FailAt DEF BeforeDone, AfterDone, Finishing, Error
<1>4. QED
  BY <1>2, <1>3, AuditAtStep DEF CompletedAudit

LEMMA CompensatingSaveKeeps ==
  ASSUME IInv, NEW r \in Run, CompensatingSave(r)
  PROVE  IInv'
<1> DEFINE i == Len(Steps(r)) + 1
<1>1. task[r].pc = "compensatingSave" /\ i \in Nat
  BY StepTypes DEF CompensatingSave, SaveAt
<1>2. /\ CompensateBelow(r, task[r], i) \in Task
      /\ FrameOK(r, CompensateBelow(r, task[r], i), landed[r], compensations[r])
  BY <1>1, CompensateBelowAt
<1>3. /\ Throw(task[r], "save") \in Task
      /\ FrameOK(r, Throw(task[r], "save"), landed[r], compensations[r])
  BY <1>1, ThrowAt DEF Awaits, Error
<1>4. QED
  BY <1>2, <1>3, SaveAtStep DEF CompensatingSave

LEMMA CompensateKeeps ==
  ASSUME IInv, NEW r \in Run, Compensate(r)
  PROVE  IInv'
<1> DEFINE t == task[r]
           D == Append(compensations[r], t.at)
<1>1. /\ t.pc = "compensate" /\ t \in Task
      /\ FrameOK(r, t, landed[r], compensations[r])
      /\ compensations[r] \in Seq(Position)
  BY FrameAt DEF Compensate, IInv, TypeOK
<1>2. PICK l \in AfterCompensation : task' = [task EXCEPT ![r].pc = l]
  BY DEF Compensate, AfterCompensation
<1>3. /\ [t EXCEPT !.pc = l] \in Task /\ D \in Seq(Position)
      /\ FrameOK(r, [t EXCEPT !.pc = l], landed[r], D)
  BY <1>1, CompensateFrame
<1>4. /\ compensations' = [compensations EXCEPT ![r] = D]
      /\ UNCHANGED <<engineVars, store, calls, inflight, landed>>
  BY DEF Compensate, effectVars
<1> HIDE DEF D
<1>5. /\ task' \in [Run -> Task] /\ task'[r] = [t EXCEPT !.pc = l]
      /\ compensations' \in [Run -> Seq(Position)] /\ compensations'[r] = D
      /\ \A q \in Run \ {r} : /\ task'[q] = task[q]
                              /\ compensations'[q] = compensations[q]
  BY <1>2, <1>3, <1>4 DEF IInv, TypeOK
<1>6. FrameOK(r, task'[r], landed'[r], compensations'[r])
  BY <1>3, <1>4, <1>5
<1>7. QED
  BY <1>4, <1>5, <1>6, OneRunMoves DEF IInv, TypeOK, StoreType

LEMMA CompDoneAuditKeeps ==
  ASSUME IInv, NEW r \in Run, CompDoneAudit(r)
  PROVE  IInv'
<1>1. task[r].pc = "compDoneAudit" /\ task[r].at \in Nat
  BY FrameAt DEF CompDoneAudit, AuditAt, Task
<1>2. /\ CompensateBelow(r, task[r], task[r].at) \in Task
      /\ FrameOK(r, CompensateBelow(r, task[r], task[r].at), landed[r],
                 compensations[r])
  BY <1>1, CompensateBelowAt DEF AfterCompensation
<1>3. /\ Goto(task[r], "compFailAudit") \in Task
      /\ FrameOK(r, Goto(task[r], "compFailAudit"), landed[r], compensations[r])
  BY <1>1, GotoAt DEF Awaits, Settled, AfterCompensation
<1>4. QED
  BY <1>2, <1>3, AuditAtStep DEF CompDoneAudit

LEMMA CompFailAuditKeeps ==
  ASSUME IInv, NEW r \in Run, CompFailAudit(r)
  PROVE  IInv'
<1>1. task[r].pc = "compFailAudit" /\ task[r].at \in Nat
  BY FrameAt DEF CompFailAudit, AuditAt, Task
<1>2. /\ CompensateBelow(r, task[r], task[r].at) \in Task
      /\ FrameOK(r, CompensateBelow(r, task[r], task[r].at), landed[r],
                 compensations[r])
  BY <1>1, CompensateBelowAt DEF AfterCompensation
<1>3. /\ Throw(task[r], "audit") \in Task
      /\ FrameOK(r, Throw(task[r], "audit"), landed[r], compensations[r])
  BY <1>1, ThrowAt DEF Awaits, Error
<1>4. QED
  BY <1>2, <1>3, AuditAtStep DEF CompFailAudit

LEMMA FailedSaveKeeps ==
  ASSUME IInv, NEW r \in Run, FailedSave(r)
  PROVE  IInv'
<1>1. task[r].pc = "failedSave"
  BY DEF FailedSave, SaveAt
<1>2. /\ Goto(task[r], "failedAudit") \in Task
      /\ FrameOK(r, Goto(task[r], "failedAudit"), landed[r], compensations[r])
  BY <1>1, GotoAt DEF Awaits, Settled, AfterCompensation
<1>3. /\ Throw(task[r], "save") \in Task
      /\ FrameOK(r, Throw(task[r], "save"), landed[r], compensations[r])
  BY <1>1, ThrowAt DEF Awaits, Error
<1>4. QED
  BY <1>2, <1>3, SaveAtStep DEF FailedSave

LEMMA FailedAuditKeeps ==
  ASSUME IInv, NEW r \in Run, FailedAudit(r)
  PROVE  IInv'
<1>1. task[r].pc = "failedAudit" /\ task[r].cause \in Error
  BY FrameAt DEF FailedAudit, AuditAt, Task
<1>2. /\ Throw(task[r], task[r].cause) \in Task
      /\ FrameOK(r, Throw(task[r], task[r].cause), landed[r], compensations[r])
  BY <1>1, ThrowAt DEF Awaits
<1>3. /\ Throw(task[r], "audit") \in Task
      /\ FrameOK(r, Throw(task[r], "audit"), landed[r], compensations[r])
  BY <1>1, ThrowAt DEF Awaits, Error
<1>4. QED
  BY <1>2, <1>3, AuditAtStep DEF FailedAudit

LEMMA RegisterKeeps ==
  ASSUME IInv, NEW w \in Name, Register(w)
  PROVE  IInv'
<1>1. TypeOK'
  BY DEF IInv, TypeOK, Register, effectVars
<1>2. FrameInv'
  BY DEF IInv, FrameInv, Register, effectVars
<1>3. QED
  BY <1>1, <1>2 DEF IInv

LEMMA CrashKeeps ==
  ASSUME IInv, Crash
  PROVE  IInv'
<1>1. ASSUME NEW r \in Run
      PROVE  task'[r] \in Task
             /\ FrameOK(r, task'[r], landed'[r], compensations'[r])
  <2>1. landed'[r] = landed[r] /\ compensations'[r] = compensations[r]
    BY DEF Crash
  <2>2. CASE Active(r)
    <3>1. task'[r] = [task[r] EXCEPT !.pc = "crashed"]
      BY <2>2 DEF Crash
    <3>2. QED
      BY <2>1, <2>2, <3>1, FrameAt, CrashFrame DEF Active
  <2>3. CASE ~Active(r)
    BY <2>1, <2>3, FrameAt DEF Crash
  <2>4. QED
    BY <2>2, <2>3
<1>2. task' \in [Run -> Task]
  BY <1>1 DEF Crash
<1>3. ASSUME NEW r \in Run, task[r].pc = "execute" PROVE task[r].at \in Position
  BY <1>3, FrameAt, StepTypes DEF FrameOK, PlaceOK, BeforeDone
<1>4. inflight' \in [Run -> SUBSET Position]
  BY <1>3 DEF Crash, IInv, TypeOK
<1>5. TypeOK'
  BY <1>2, <1>4, WorkflowAssumption DEF IInv, TypeOK, Crash
<1>6. FrameInv'
  BY <1>1 DEF FrameInv, Crash
<1>7. QED
  BY <1>5, <1>6 DEF IInv

LEMMA RunStepKeeps ==
  ASSUME IInv, NEW r \in Run, RunStep(r)
  PROVE  IInv'
<1>1. CASE Start(r)
  BY <1>1, StartKeeps
<1>2. CASE StartUnknown(r)
  BY <1>2, StartUnknownKeeps
<1>3. CASE ExecuteResolves(r)
  BY <1>3, ExecuteResolvesKeeps
<1>4. CASE ExecuteRejects(r)
  BY <1>4, ExecuteRejectsKeeps
<1>5. CASE LateEffect(r)
  BY <1>5, LateEffectKeeps
<1>6. CASE EngineStep(r)
  BY <1>6, StartSaveKeeps, StartAuditKeeps, StepSaveKeeps, AttemptSaveKeeps,
     ExecuteTimesOutKeeps, RetryDelayKeeps, StepFailSaveKeeps,
     StepFailAuditKeeps, StepDoneSaveKeeps, StepDoneAuditKeeps,
     CompletedSaveKeeps, CompletedAuditKeeps, CompensatingSaveKeeps,
     CompensateKeeps, CompDoneAuditKeeps, CompFailAuditKeeps,
     FailedSaveKeeps, FailedAuditKeeps
     DEF EngineStep
<1>7. QED
  BY <1>1, <1>2, <1>3, <1>4, <1>5, <1>6 DEF RunStep

LEMMA InitIInv == Init => IInv
<1> SUFFICES ASSUME Init PROVE IInv
  OBVIOUS
<1>1. NewSnapshot \in Snapshot
  BY DEF NewSnapshot, Snapshot, Status
<1>2. ASSUME NEW r \in Run
      PROVE  /\ task[r] \in Task /\ task[r].pc = "idle"
             /\ task[r].snap = NewSnapshot
             /\ landed[r] = {} /\ compensations[r] = <<>>
  BY <1>1 DEF Init, Task, Error
<1>3. ASSUME NEW r \in Run
      PROVE  FrameOK(r, task[r], landed[r], compensations[r])
  <2> DEFINE t == task[r]
             C == compensations[r]
  <2>1. /\ t.pc = "idle" /\ t.snap.completed = <<>>
        /\ t.snap.status = "running" /\ C = <<>>
    BY <1>2 DEF NewSnapshot
  <2>2. Len(Steps(r)) \in Nat
    BY StepTypes
  <2> HIDE DEF t, C
  <2>3. PrefixOK(r, t, landed[r])
    BY <2>1, <2>2 DEF PrefixOK
  <2>4. PlaceOK(r, t)
    BY <2>1 DEF PlaceOK, BeforeDone, AfterDone, Finishing
  <2>5. SeqRange(C) = {} /\ DOMAIN C = {}
    BY <2>1 DEF SeqRange
  <2>6. UndoOK(r, t, C)
    BY <2>1, <2>5 DEF UndoOK, AfterCompensation
  <2>7. QED
    BY <2>1, <2>3, <2>4, <2>6 DEF FrameOK, t, C
<1>4. FrameInv
  BY <1>3 DEF Init, FrameInv
<1>5. task \in [Run -> Task]
  BY <1>2 DEF Init
<1>6. TypeOK
  BY <1>5, WorkflowAssumption DEF Init, TypeOK
<1>7. QED
  BY <1>4, <1>6 DEF IInv

LEMMA NextIInv ==
  ASSUME IInv, [Next]_vars
  PROVE  IInv'
<1>1. CASE \E w \in Name : Register(w)
  BY <1>1, RegisterKeeps
<1>2. CASE \E r \in Run : RunStep(r)
  BY <1>2, RunStepKeeps
<1>3. CASE Crash
  BY <1>3, CrashKeeps
<1>4. CASE UNCHANGED vars
  BY <1>4 DEF IInv, TypeOK, FrameInv, vars, engineVars, effectVars
<1>5. QED
  BY <1>1, <1>2, <1>3, <1>4 DEF Next

\* The inductive invariant holds throughout every behaviour of the engine:
\* completed is a prefix of the definition whose effects took place, and the
\* compensations work down its compensable part.
THEOREM Inductive == Spec => []IInv
<1>1. Init => IInv
  BY InitIInv
<1>2. IInv /\ [Next]_vars => IInv'
  BY NextIInv
<1>3. QED
  BY <1>1, <1>2, PTL DEF Spec

-----------------------------------------------------------------------------
(* What follows from the invariant.                                        *)

\* Frames, snapshots, the store and the history keep their types, whatever
\* the workflows, runs, identifiers and faults are.
THEOREM TypeCorrect == Spec => []TypeOK
<1>1. IInv => TypeOK
  BY DEF IInv
<1>2. QED
  BY <1>1, Inductive, PTL

\* A step recorded complete is the one at its position, and has happened.
LEMMA CompletedPlace ==
  ASSUME IInv, NEW r \in Run, NEW i \in DOMAIN Steps(r), Completed(r, i)
  PROVE  i \in 1 .. Len(task[r].snap.completed) /\ i \in landed[r]
<1> DEFINE done == task[r].snap.completed
<1>1. task[r] \in Task /\ FrameOK(r, task[r], landed[r], compensations[r])
  BY FrameAt
<1>2. done \in Seq(StepName)
  BY <1>1 DEF Task, Snapshot
<1>3. PICK k \in DOMAIN done : done[k] = StepAt(r, i).name
  BY DEF Completed
<1>4. k \in 1 .. Len(done) /\ Len(done) <= Len(Steps(r)) /\ Len(done) \in Nat
  BY <1>1, <1>2 DEF FrameOK, PrefixOK
<1>5. k \in DOMAIN Steps(r) /\ done[k] = StepAt(r, k).name /\ k \in landed[r]
  BY <1>1, <1>4, StepTypes DEF FrameOK, PrefixOK
<1>6. UniqueNames(Steps(r))
  BY <1>1, <1>3 DEF FrameOK
<1>7. i = k
  BY <1>3, <1>5, <1>6 DEF UniqueNames, StepAt
<1>8. QED
  BY <1>4, <1>5, <1>7

\* compensate undoes, newest first and once each, only completed steps whose
\* effect took place.
THEOREM OnlyEffectsAreUndone == Spec => []CompensationSound
<1>1. IInv => CompensationSound
  <2>1. SUFFICES ASSUME IInv, NEW r \in Run, NEW k \in DOMAIN compensations[r]
                 PROVE  /\ compensations[r][k] \in landed[r]
                        /\ Completed(r, compensations[r][k])
                        /\ k > 1 => compensations[r][k] < compensations[r][k - 1]
    BY DEF CompensationSound
  <2>2. FrameOK(r, task[r], landed[r], compensations[r])
    BY <2>1, FrameAt
  <2>3. compensations[r][k] \in ToCompensate(r, task[r])
    BY <2>2 DEF FrameOK, UndoOK, SeqRange
  <2>4. /\ compensations[r][k] \in DOMAIN Steps(r)
        /\ Completed(r, compensations[r][k])
    BY <2>3 DEF ToCompensate, Completed
  <2>5. compensations[r][k] \in landed[r]
    BY <2>1, <2>4, CompletedPlace
  <2>6. QED
    BY <2>2, <2>4, <2>5 DEF FrameOK, UndoOK
<1>2. QED
  BY <1>1, Inductive, PTL

\* A run whose snapshot says failed has attempted to undo every completed
\* step that can be undone.
THEOREM FailureIsCompensated == Spec => []FailedIsCompensated
<1>1. IInv => FailedIsCompensated
  <2>1. SUFFICES ASSUME IInv, NEW r \in Run, task[r].snap.status = "failed"
                 PROVE  Compensated(r) = ToCompensate(r, task[r])
    BY DEF FailedIsCompensated
  <2>2. SeqRange(compensations[r]) = ToCompensate(r, task[r])
    BY <2>1, FrameAt DEF FrameOK, UndoOK
  <2>3. QED
    BY <2>2 DEF SeqRange, Compensated
<1>2. QED
  BY <1>1, Inductive, PTL

\* execute of a completed step is never invoked again.
THEOREM CompletedIsNotRepeated == Spec => NoRepeatAfterSuccess
<1> DEFINE Once == \A r \in Run : \A i \in DOMAIN Steps(r) :
                     Completed(r, i) => calls'[r][i] = calls[r][i]
<1>1. IInv /\ Next => Once
  <2> SUFFICES ASSUME IInv, Next, NEW r \in Run, NEW i \in DOMAIN Steps(r),
                      Completed(r, i)
               PROVE  calls'[r][i] = calls[r][i]
    OBVIOUS
  <2>1. CASE \E q \in Run : AttemptSave(q)
    <3>1. PICK q \in Run : AttemptSave(q)
      BY <2>1
    <3>2. calls' \in {calls, [calls EXCEPT ![q][task[q].at] = @ + 1]}
      BY <3>1 DEF AttemptSave
    <3>3. q = r => task[q].at # i
      <4>1. SUFFICES ASSUME q = r PROVE task[r].at # i
        OBVIOUS
      <4>2. i <= Len(task[r].snap.completed) /\ i \in Nat
        BY CompletedPlace, StepTypes
      <4>3. /\ task[r].at \in Nat
            /\ Len(task[r].snap.completed) = task[r].at - 1
        BY <3>1, <4>1, FrameAt DEF AttemptSave, FrameOK, PlaceOK, BeforeDone, Task
      <4>4. QED
        BY <4>2, <4>3
    <3>4. calls \in [Run -> [Position -> Nat]] /\ i \in Position
      BY StepTypes DEF IInv, TypeOK
    <3> DEFINE p == task[q].at
    <3>5. p # i \/ q # r
      BY <3>3
    <3> HIDE DEF p
    <3>6. [calls EXCEPT ![q][p] = @ + 1][r][i] = calls[r][i]
      BY <3>4, <3>5
    <3>7. QED
      BY <3>2, <3>6 DEF p
  <2>2. CASE calls' = calls
    BY <2>2
  <2>3. QED
    BY <2>1, <2>2 DEF Next, Register, Crash, RunStep, Start, StartUnknown,
       ExecuteResolves, ExecuteRejects, LateEffect, EngineStep, StartSave,
       StartAudit, StepSave, ExecuteTimesOut, RetryDelay, StepFailSave,
       StepFailAudit, StepDoneSave, StepDoneAudit, CompletedSave,
       CompletedAudit, CompensatingSave, Compensate, CompDoneAudit,
       CompFailAudit, FailedSave, FailedAudit, SaveAt, AuditAt, effectVars
<1>2. IInv /\ [Next]_vars => [Once]_vars
  BY <1>1
<1>3. Spec => [][Once]_vars
  BY <1>2, Inductive, PTL DEF Spec
<1>4. QED
  BY <1>3 DEF NoRepeatAfterSuccess

-----------------------------------------------------------------------------
(* What the contract needs beyond the invariant of the engine: the         *)
(* status goes with the await, and only steps that were tried can still    *)
(* take effect.                                                            *)

Starting == {"idle", "startSave", "startAudit"}
Undoing == {"compensatingSave", "compensate"} \cup AfterCompensation
Ending == {"failedSave", "failedAudit"}

StatusOK(t) ==
  /\ t.pc \in Starting \cup BeforeDone \cup AfterDone => t.snap.status = "running"
  /\ t.pc \in Finishing => t.snap.status = "completed"
  /\ t.pc \in Undoing => t.snap.status = "compensating"
  /\ t.pc \in Ending => t.snap.status = "failed"

InFlightOK(r, t, F) ==
  /\ F \subseteq DOMAIN Steps(r)
  /\ \A i \in F : i <= Len(t.snap.completed) + 1
  /\ t.pc = "idle" => F = {}

PhaseInv ==
  \A r \in Run : StatusOK(task[r]) /\ InFlightOK(r, task[r], inflight[r])

LEMMA PhaseIs ==
  ASSUME NEW t \in Task, StatusOK(t)
  PROVE  /\ t.pc = "idle" => ContractPhase(t) = "idle"
         /\ t.pc \in {"startSave", "startAudit"} \cup BeforeDone \cup AfterDone
                       \cup Finishing => ContractPhase(t) = "running"
         /\ t.pc \in Undoing => ContractPhase(t) = "undoing"
         /\ t.pc \in Ending => ContractPhase(t) = "failed"
         /\ t.pc = "resolved" => ContractPhase(t) = "completed"
         /\ t.pc \in {"rejected", "crashed"} =>
              ContractPhase(t) = IF t.snap.status = "failed" THEN "failed"
                                                             ELSE "aborted"
<1>1. CASE t.pc \in Starting \cup BeforeDone \cup AfterDone
  BY <1>1 DEF StatusOK, ContractPhase, Starting, BeforeDone, AfterDone,
              Finishing, Undoing, Ending, AfterCompensation
<1>2. CASE t.pc \in Finishing \cup Undoing \cup Ending
  BY <1>2 DEF StatusOK, ContractPhase, BeforeDone, AfterDone, Awaits,
              Finishing, Undoing, Ending, AfterCompensation
<1>3. CASE t.pc \in Settled \cup {"crashed"}
  BY <1>3 DEF ContractPhase, BeforeDone, AfterDone, Awaits, Settled,
              Finishing, Undoing, Ending, AfterCompensation
<1>4. QED
  BY <1>1, <1>2, <1>3 DEF Task, Awaits, Settled, Starting, BeforeDone,
     AfterDone, Finishing, Undoing, Ending, AfterCompensation

-----------------------------------------------------------------------------
(* Moves of one frame, as the contract sees them.                          *)

\* From frame t, with compensations C, to frame u: no step done or undone.
PhaseStep(r, t, u, C) ==
  /\ StatusOK(u)
  /\ u.pc # "idle"
  /\ u.snap.completed = t.snap.completed
  /\ \/ ContractPhase(u) = ContractPhase(t)
     \/ ContractPhase(t) = "idle" /\ ContractPhase(u) = "running"
     \/ ContractPhase(t) = "running" /\ ContractPhase(u) = "undoing"
     \/ /\ ContractPhase(t) = "running" /\ ContractPhase(u) = "completed"
        /\ Len(t.snap.completed) = Len(Steps(r))
     \/ /\ ContractPhase(t) = "undoing" /\ ContractPhase(u) = "failed"
        /\ ToCompensate(r, t) \subseteq SeqRange(C)
     \/ /\ ContractPhase(t) \in {"idle", "running", "undoing"}
        /\ ContractPhase(u) = "aborted"

LEMMA GotoPhase ==
  ASSUME NEW r \in Run, NEW t \in Task, NEW L, NEW C, NEW l,
         StatusOK(t), FrameOK(r, t, L, C),
         \/ t.pc = "startSave" /\ l = "startAudit"
         \/ t.pc = "attemptSave" /\ l = "execute"
         \/ t.pc = "stepFailSave" /\ l = "stepFailAudit"
         \/ t.pc = "stepDoneSave" /\ l = "stepDoneAudit"
         \/ t.pc = "completedSave" /\ l = "completedAudit"
         \/ t.pc = "completedAudit" /\ l = "resolved"
         \/ t.pc = "compDoneAudit" /\ l = "compFailAudit"
         \/ t.pc = "failedSave" /\ l = "failedAudit"
  PROVE  PhaseStep(r, t, Goto(t, l), C)
<1> DEFINE u == Goto(t, l)
<1>1. /\ u.pc = l /\ u.snap = t.snap
      /\ u \in Task
  BY DEF Goto, Task, Awaits, Settled
<1>2. StatusOK(u)
  BY <1>1 DEF StatusOK, Starting, BeforeDone, AfterDone, Finishing, Undoing,
              Ending, AfterCompensation
<1>3. CASE l = "resolved"
  BY <1>1, <1>2, <1>3, PhaseIs DEF PhaseStep, FrameOK, PlaceOK, Finishing
<1>4. CASE l # "resolved"
  <2>1. ContractPhase(u) = ContractPhase(t)
    BY <1>1, <1>2, <1>4, PhaseIs DEF BeforeDone, AfterDone, Finishing, Undoing,
                                     Ending, AfterCompensation
  <2>2. QED
    BY <1>1, <1>2, <2>1 DEF PhaseStep
<1>5. QED
  BY <1>3, <1>4

LEMMA FailPhase ==
  ASSUME NEW r \in Run, NEW t \in Task, NEW C, NEW e \in Error, StatusOK(t),
         t.pc \in BeforeDone \cup AfterDone \cup Finishing
  PROVE  PhaseStep(r, t, Fail(t, e), C)
<1> DEFINE u == Fail(t, e)
<1>1. /\ u.pc = "compensatingSave" /\ u.snap.status = "compensating"
      /\ u.snap.completed = t.snap.completed
  BY DEF Fail, Task, Snapshot
<1>2. u \in Task
  BY FailType
<1>3. StatusOK(u)
  BY <1>1 DEF StatusOK, Starting, BeforeDone, AfterDone, Finishing, Undoing,
              Ending, AfterCompensation
<1>4. ContractPhase(t) = "running" /\ ContractPhase(u) = "undoing"
  BY <1>1, <1>2, <1>3, PhaseIs DEF Undoing
<1>5. QED
  BY <1>1, <1>3, <1>4 DEF PhaseStep

\* A frame that is thrown away, with its caller or with the process.
LEMMA GonePhase ==
  ASSUME NEW r \in Run, NEW t \in Task, NEW u \in Task, NEW C, StatusOK(t),
         t.pc \in Awaits \cup {"idle"}, u.pc \in {"rejected", "crashed"},
         u.snap = t.snap
  PROVE  PhaseStep(r, t, u, C)
<1>1. StatusOK(u) /\ u.pc # "idle"
  BY DEF StatusOK, Starting, BeforeDone, AfterDone, Finishing, Undoing,
         Ending, AfterCompensation
<1>2. CASE t.pc \in Ending
  BY <1>1, <1>2, PhaseIs DEF PhaseStep, StatusOK
<1>3. CASE t.pc \notin Ending
  <2>1. /\ ContractPhase(t) \in {"idle", "running", "undoing"}
        /\ t.snap.status # "failed"
    BY <1>3, PhaseIs DEF StatusOK, Awaits, Starting, BeforeDone, AfterDone,
                         Finishing, Undoing, Ending, AfterCompensation
  <2>2. ContractPhase(u) = "aborted"
    BY <1>1, <2>1, PhaseIs
  <2>3. QED
    BY <1>1, <2>1, <2>2 DEF PhaseStep
<1>4. QED
  BY <1>2, <1>3

LEMMA ThrowPhase ==
  ASSUME NEW r \in Run, NEW t \in Task, NEW C, NEW e \in Error, StatusOK(t),
         t.pc \in Awaits \cup {"idle"}
  PROVE  PhaseStep(r, t, Throw(t, e), C)
<1>1. Throw(t, e).pc = "rejected" /\ Throw(t, e).snap = t.snap
  BY DEF Throw, Task
<1>2. QED
  BY <1>1, ThrowType, GonePhase

\* Moves while the steps run.
LEMMA ForwardPhase ==
  ASSUME NEW r \in Run, NEW t \in Task, NEW u \in Task, NEW C, StatusOK(t),
         t.pc \in {"startAudit", "execute", "retryDelay", "stepSave",
                   "stepDoneAudit"},
         \/ u.pc \in BeforeDone /\ u.snap.status = t.snap.status
         \/ u.pc = "completedSave" /\ u.snap.status = "completed",
         u.snap.completed = t.snap.completed
  PROVE  PhaseStep(r, t, u, C) /\ ContractPhase(u) = ContractPhase(t)
<1>1. StatusOK(u) /\ u.pc # "idle"
  BY DEF StatusOK, Starting, BeforeDone, AfterDone, Finishing, Undoing,
         Ending, AfterCompensation
<1>2. ContractPhase(t) = "running" /\ ContractPhase(u) = "running"
  BY <1>1, PhaseIs DEF BeforeDone, AfterDone, Finishing
<1>3. QED
  BY <1>1, <1>2 DEF PhaseStep
LEMMA BeginStepPhase ==
  ASSUME NEW r \in Run, NEW t \in Task, NEW C, NEW i \in Nat \ {0},
         StatusOK(t), t.pc \in {"startAudit", "stepDoneAudit"}
  PROVE  PhaseStep(r, t, BeginStep(r, t, i), C)
<1> DEFINE u == BeginStep(r, t, i)
<1>1. u \in Task /\ u.snap.completed = t.snap.completed
  BY BeginStepType DEF BeginStep, Task, Snapshot
<1>2. \/ u.pc = "stepSave" /\ u.snap.status = t.snap.status
      \/ u.pc = "completedSave" /\ u.snap.status = "completed"
  BY DEF BeginStep, Task, Snapshot
<1>3. QED
  BY <1>1, <1>2, ForwardPhase DEF BeforeDone

LEMMA BeginAttemptPhase ==
  ASSUME NEW r \in Run, NEW t \in Task, NEW C, NEW n \in Nat,
         StatusOK(t), t.pc \in {"stepSave", "execute", "retryDelay"}
  PROVE  /\ PhaseStep(r, t, BeginAttempt(r, t, n), C)
         /\ ContractPhase(BeginAttempt(r, t, n)) = ContractPhase(t)
<1> DEFINE u == BeginAttempt(r, t, n)
<1>1. /\ u.pc = "attemptSave" /\ u.snap.status = t.snap.status
      /\ u.snap.completed = t.snap.completed
  BY DEF BeginAttempt, Task, Snapshot
<1>2. u \in Task
  BY BeginAttemptType
<1>3. QED
  BY <1>1, <1>2, ForwardPhase DEF BeforeDone

LEMMA AttemptFailedPhase ==
  ASSUME NEW r \in Run, NEW t \in Task, NEW C,
         StatusOK(t), t.pc = "execute", t.at \in DOMAIN Steps(r)
  PROVE  /\ PhaseStep(r, t, AttemptFailed(r, t), C)
         /\ ContractPhase(AttemptFailed(r, t)) = ContractPhase(t)
<1> DEFINE gaveUp == [t EXCEPT !.pc = "stepFailSave",
                               !.snap.failed = StepAt(r, t.at).name]
           waits == [t EXCEPT !.pc = "retryDelay"]
           again == BeginAttempt(r, t, t.attempt + 1)
<1>1. AttemptFailed(r, t) \in {gaveUp, waits, again}
  BY DEF AttemptFailed
<1>2. PhaseStep(r, t, again, C) /\ ContractPhase(again) = ContractPhase(t)
  BY BeginAttemptPhase DEF Task
<1>3. AttemptFailed(r, t) = waits =>
        PhaseStep(r, t, waits, C) /\ ContractPhase(waits) = ContractPhase(t)
  <2>1. waits.pc = "retryDelay" /\ waits.snap = t.snap
    BY DEF Task
  <2> HIDE DEF waits
  <2>2. QED
    BY <2>1, AttemptFailedType, ForwardPhase DEF BeforeDone
<1>4. AttemptFailed(r, t) = gaveUp =>
        PhaseStep(r, t, gaveUp, C) /\ ContractPhase(gaveUp) = ContractPhase(t)
  <2>1. /\ gaveUp.pc = "stepFailSave" /\ gaveUp.snap.status = t.snap.status
        /\ gaveUp.snap.completed = t.snap.completed
    BY DEF Task, Snapshot
  <2> HIDE DEF gaveUp
  <2>2. QED
    BY <2>1, AttemptFailedType, ForwardPhase DEF BeforeDone
<1>5. QED
  BY <1>1, <1>2, <1>3, <1>4

LEMMA CompensateBelowPhase ==
  ASSUME NEW r \in Run, NEW t \in Task, NEW L, NEW C, NEW i \in Nat,
         StatusOK(t), FrameOK(r, t, L, C),
         \/ t.pc = "compensatingSave" /\ i = Len(Steps(r)) + 1
         \/ t.pc \in AfterCompensation /\ i = t.at
  PROVE  PhaseStep(r, t, CompensateBelow(r, t, i), C)
<1> DEFINE u == CompensateBelow(r, t, i)
<1>1. u \in Task /\ FrameOK(r, u, L, C)
  BY CompensateBelowType, CompensateBelowFrame
<1>2. \/ u.pc = "compensate" /\ u.snap = t.snap
      \/ /\ u.pc = "failedSave" /\ u.snap.status = "failed"
         /\ u.snap.completed = t.snap.completed
  <2>1. u.snap.completed = t.snap.completed
    BY DEF CompensateBelow, Task, Snapshot
  <2>2. \/ u.pc = "compensate" /\ u.snap = t.snap
        \/ u.pc = "failedSave" /\ u.snap.status = "failed"
    BY DEF CompensateBelow, Task, Snapshot
  <2>3. QED
    BY <2>1, <2>2
<1>3. StatusOK(u) /\ u.pc # "idle" /\ u.snap.completed = t.snap.completed
  BY <1>2 DEF StatusOK, Starting, BeforeDone, AfterDone, Finishing, Undoing,
              Ending, AfterCompensation
<1>4. ContractPhase(t) = "undoing"
  BY PhaseIs DEF Undoing
<1>5. CASE u.pc = "compensate"
  <2>1. ContractPhase(u) = "undoing"
    BY <1>1, <1>3, <1>5, PhaseIs DEF Undoing
  <2>2. QED
    BY <1>3, <1>4, <2>1 DEF PhaseStep
<1>6. CASE u.pc = "failedSave" /\ u.snap.status = "failed"
  <2>1. ContractPhase(u) = "failed"
    BY <1>1, <1>3, <1>6, PhaseIs DEF Ending
  <2>2. SeqRange(C) = ToCompensate(r, u)
    BY <1>1, <1>6 DEF FrameOK, UndoOK
  <2>3. ToCompensate(r, u) = ToCompensate(r, t)
    BY <1>3 DEF ToCompensate
  <2>4. QED
    BY <1>3, <1>4, <2>1, <2>2, <2>3 DEF PhaseStep
<1>7. QED
  BY <1>2, <1>5, <1>6

-----------------------------------------------------------------------------
(* From one frame to the state.                                            *)

\* What every step of run r shares: it moves no other run.
OnlyMoves(r) ==
  /\ TypeOK /\ TypeOK'
  /\ \A q \in Run \ {r} : /\ task'[q] = task[q]
                          /\ landed'[q] = landed[q]
                          /\ compensations'[q] = compensations[q]
                          /\ inflight'[q] = inflight[q]

LEMMA MappedMoves ==
  ASSUME NEW r \in Run, OnlyMoves(r)
  PROVE  /\ ContractPhases' =
              [ContractPhases EXCEPT ![r] = ContractPhase(task'[r])]
         /\ DoneCounts' =
              [DoneCounts EXCEPT ![r] = Len(task'[r].snap.completed)]
         /\ UndoneSteps' =
              [UndoneSteps EXCEPT ![r] = SeqRange(compensations'[r])]
         /\ landed' = [landed EXCEPT ![r] = landed'[r]]
<1>1. ASSUME NEW q \in Run \ {r}
      PROVE  task'[q] = task[q] /\ compensations'[q] = compensations[q]
  BY DEF OnlyMoves
<1>2. ContractPhases' = [ContractPhases EXCEPT ![r] = ContractPhase(task'[r])]
  <2>1. ASSUME NEW q \in Run
        PROVE  ContractPhase(task'[q]) =
                 IF q = r THEN ContractPhase(task'[r]) ELSE ContractPhase(task[q])
    BY <1>1
  <2>2. QED
    BY <2>1 DEF ContractPhases
<1>3. DoneCounts' = [DoneCounts EXCEPT ![r] = Len(task'[r].snap.completed)]
  BY <1>1 DEF DoneCounts
<1>4. UndoneSteps' = [UndoneSteps EXCEPT ![r] = SeqRange(compensations'[r])]
  BY <1>1 DEF UndoneSteps, Compensated, SeqRange
<1>5. landed' = [landed EXCEPT ![r] = landed'[r]]
  BY DEF OnlyMoves, TypeOK
<1>6. QED
  BY <1>2, <1>3, <1>4, <1>5

\* The steps still to be undone are the contract's.
LEMMA SameToUndo ==
  ASSUME IInv, NEW r \in Run
  PROVE  Contract!ToUndo(r) =
           ToCompensate(r, task[r]) \ SeqRange(compensations[r])
<1> DEFINE done == task[r].snap.completed
<1>1. task[r] \in Task /\ FrameOK(r, task[r], landed[r], compensations[r])
  BY FrameAt
<1>2. done \in Seq(StepName) /\ Len(done) \in Nat /\ Len(done) <= Len(Steps(r))
  BY <1>1 DEF Task, Snapshot, FrameOK, PrefixOK
<1>3. ASSUME NEW i \in DOMAIN Steps(r)
      PROVE  Completed(r, i) <=> i <= Len(done)
  <2>1. CASE Completed(r, i)
    BY <2>1, CompletedPlace
  <2>2. CASE i <= Len(done)
    BY <1>1, <1>2, <2>2, StepTypes DEF Completed, FrameOK, PrefixOK
  <2>3. QED
    BY <1>2, <2>1, <2>2
<1>4. ToCompensate(r, task[r]) =
        {i \in DOMAIN Steps(r) : StepAt(r, i).compensable /\ i <= Len(done)}
  BY <1>3 DEF ToCompensate, Completed
<1>5. QED
  BY <1>4 DEF Contract!ToUndo, DoneCounts, UndoneSteps, Compensated, SeqRange

ContractStep == [Contract!Next]_(Contract!vars)

\* A step that only moves a frame is a move of the contract or none.
LEMMA PhaseMoves ==
  ASSUME IInv, NEW r \in Run, OnlyMoves(r),
         landed' = landed, compensations' = compensations,
         PhaseStep(r, task[r], task'[r], compensations[r])
  PROVE  ContractStep
<1> DEFINE p == ContractPhase(task[r])
           q == ContractPhase(task'[r])
<1>1. /\ ContractPhases[r] = p /\ ContractPhases \in [Run -> {ContractPhase(task[x]) : x \in Run}]
      /\ ContractPhases' = [ContractPhases EXCEPT ![r] = q]
  BY MappedMoves DEF ContractPhases
<1>2. DoneCounts' = DoneCounts /\ UndoneSteps' = UndoneSteps
  <2>1. /\ DoneCounts[r] = Len(task'[r].snap.completed)
        /\ UndoneSteps[r] = SeqRange(compensations'[r])
    BY DEF DoneCounts, UndoneSteps, Compensated, SeqRange, PhaseStep
  <2>2. QED
    BY <2>1, MappedMoves DEF DoneCounts, UndoneSteps
<1> HIDE DEF p, q
<1>3. CASE q = p
  BY <1>1, <1>2, <1>3 DEF ContractStep, Contract!vars
<1>4. CASE p = "idle" /\ q = "running"
  <2>1. Contract!Begin(r)
    BY <1>1, <1>2, <1>4 DEF Contract!Begin, Contract!Move
  <2>2. QED
    BY <2>1 DEF ContractStep, Contract!Next
<1>5. CASE p = "running" /\ q = "undoing"
  <2>1. Contract!Falter(r)
    BY <1>1, <1>2, <1>5 DEF Contract!Falter, Contract!Move
  <2>2. QED
    BY <2>1 DEF ContractStep, Contract!Next
<1>6. CASE /\ p = "running" /\ q = "completed"
           /\ Len(task[r].snap.completed) = Len(Steps(r))
  <2>1. Contract!Complete(r)
    BY <1>1, <1>2, <1>6 DEF Contract!Complete, Contract!Move, DoneCounts
  <2>2. QED
    BY <2>1 DEF ContractStep, Contract!Next
<1>7. CASE /\ p = "undoing" /\ q = "failed"
           /\ ToCompensate(r, task[r]) \subseteq SeqRange(compensations[r])
  <2>1. Contract!ToUndo(r) = {}
    BY <1>7, SameToUndo
  <2>2. Contract!Fail(r)
    BY <1>1, <1>2, <1>7, <2>1 DEF Contract!Fail, Contract!Move
  <2>3. QED
    BY <2>2 DEF ContractStep, Contract!Next
<1>8. CASE p \in {"idle", "running", "undoing"} /\ q = "aborted"
  <2>1. /\ {r} \in SUBSET {x \in Run : ContractPhases[x] \in
                                         {"idle", "running", "undoing"}}
        /\ ContractPhases' = [x \in Run |-> IF x \in {r} THEN "aborted"
                                                         ELSE ContractPhases[x]]
    BY <1>1, <1>8
  <2>2. Contract!Abort
    BY <1>2, <2>1 DEF Contract!Abort
  <2>3. QED
    BY <2>2 DEF ContractStep, Contract!Next
<1>9. QED
  BY <1>3, <1>4, <1>5, <1>6, <1>7, <1>8 DEF PhaseStep, p, q

-----------------------------------------------------------------------------
(* Every step of the engine is a step of the contract, and keeps PhaseInv. *)

Simulated == ContractStep /\ PhaseInv'

LEMMA KeepsPhaseInv ==
  ASSUME PhaseInv, NEW r \in Run, OnlyMoves(r), StatusOK(task'[r]),
         InFlightOK(r, task'[r], inflight'[r])
  PROVE  PhaseInv'
<1>1. ASSUME NEW q \in Run
      PROVE  StatusOK(task'[q]) /\ InFlightOK(q, task'[q], inflight'[q])
  BY DEF PhaseInv, OnlyMoves
<1>2. QED
  BY <1>1 DEF PhaseInv

LEMMA PhaseStepSimulated ==
  ASSUME IInv, PhaseInv, NEW r \in Run, OnlyMoves(r),
         UNCHANGED <<inflight, landed, compensations>>,
         PhaseStep(r, task[r], task'[r], compensations[r])
  PROVE  Simulated
<1>1. ContractStep
  BY PhaseMoves
<1>2. StatusOK(task'[r]) /\ InFlightOK(r, task'[r], inflight'[r])
  BY DEF PhaseStep, PhaseInv, InFlightOK
<1>3. QED
  BY <1>1, <1>2, KeepsPhaseInv DEF Simulated

\* A run that goes on with frame u and leaves everything else alone.
LEMMA FrameSimulated ==
  ASSUME IInv, IInv', PhaseInv, NEW r \in Run, NEW u,
         task' = [task EXCEPT ![r] = u],
         UNCHANGED <<inflight, landed, compensations>>,
         PhaseStep(r, task[r], u, compensations[r])
  PROVE  Simulated
<1>1. task'[r] = u /\ OnlyMoves(r)
  BY DEF OnlyMoves, IInv, TypeOK
<1>2. QED
  BY <1>1, PhaseStepSimulated

LEMMA SaveSimulated ==
  ASSUME IInv, IInv', PhaseInv, NEW r \in Run, NEW l, NEW onOk, NEW onError,
         PhaseStep(r, task[r], onOk, compensations[r]),
         PhaseStep(r, task[r], onError, compensations[r]),
         SaveAt(r, l, onOk, onError)
  PROVE  Simulated
<1>1. PICK u \in {onOk, onError} : task' = [task EXCEPT ![r] = u]
  BY DEF SaveAt
<1>2. UNCHANGED <<inflight, landed, compensations>>
  BY DEF SaveAt, effectVars
<1>3. QED
  BY <1>1, <1>2, FrameSimulated

LEMMA AuditSimulated ==
  ASSUME IInv, IInv', PhaseInv, NEW r \in Run, NEW l, NEW onOk, NEW onError,
         PhaseStep(r, task[r], onOk, compensations[r]),
         PhaseStep(r, task[r], onError, compensations[r]),
         AuditAt(r, l, onOk, onError)
  PROVE  Simulated
<1>1. PICK u \in {onOk, onError} : task' = [task EXCEPT ![r] = u]
  BY DEF AuditAt
<1>2. UNCHANGED <<inflight, landed, compensations>>
  BY DEF AuditAt, effectVars
<1>3. QED
  BY <1>1, <1>2, FrameSimulated

LEMMA FrameFacts ==
  ASSUME IInv, PhaseInv, NEW r \in Run
  PROVE  /\ task[r] \in Task /\ StatusOK(task[r])
         /\ FrameOK(r, task[r], landed[r], compensations[r])
         /\ InFlightOK(r, task[r], inflight[r])
         /\ Len(Steps(r)) \in Nat /\ Len(Steps(r)) + 1 \in Nat \ {0}
         /\ task[r].at \in Nat /\ task[r].at + 1 \in Nat \ {0}
         /\ task[r].attempt \in Nat /\ task[r].attempt + 1 \in Nat
BY FrameAt, StepTypes DEF PhaseInv, Task

LEMMA SavesSimulated ==
  ASSUME IInv, IInv', PhaseInv, NEW r \in Run,
         \/ StartSave(r) \/ StepSave(r) \/ StepFailSave(r) \/ StepDoneSave(r)
         \/ CompletedSave(r) \/ CompensatingSave(r) \/ FailedSave(r)
  PROVE  Simulated
<1> DEFINE t == task[r]
           C == compensations[r]
<1>1. CASE StartSave(r)
  <2>1. t.pc = "startSave"
    BY <1>1 DEF StartSave, SaveAt
  <2>2. PhaseStep(r, t, Goto(t, "startAudit"), C) /\ PhaseStep(r, t, Throw(t, "save"), C)
    BY <2>1, FrameFacts, GotoPhase, ThrowPhase DEF Awaits, Error
  <2>3. QED
    BY <1>1, <2>2, SaveSimulated DEF StartSave
<1>2. CASE StepSave(r)
  <2>1. t.pc = "stepSave"
    BY <1>2 DEF StepSave, SaveAt
  <2>2. PhaseStep(r, t, BeginAttempt(r, t, 1), C) /\ PhaseStep(r, t, Fail(t, "save"), C)
    BY <2>1, FrameFacts, BeginAttemptPhase, FailPhase DEF BeforeDone, Error
  <2>3. QED
    BY <1>2, <2>2, SaveSimulated DEF StepSave
<1>3. CASE StepFailSave(r)
  <2>1. t.pc = "stepFailSave"
    BY <1>3 DEF StepFailSave, SaveAt
  <2>2. /\ PhaseStep(r, t, Goto(t, "stepFailAudit"), C)
        /\ PhaseStep(r, t, Fail(t, "save"), C)
    BY <2>1, FrameFacts, GotoPhase, FailPhase DEF BeforeDone, Error
  <2>3. QED
    BY <1>3, <2>2, SaveSimulated DEF StepFailSave
<1>4. CASE StepDoneSave(r)
  <2>1. t.pc = "stepDoneSave"
    BY <1>4 DEF StepDoneSave, SaveAt
  <2>2. /\ PhaseStep(r, t, Goto(t, "stepDoneAudit"), C)
        /\ PhaseStep(r, t, Fail(t, "save"), C)
    BY <2>1, FrameFacts, GotoPhase, FailPhase DEF AfterDone, Error
  <2>3. QED
    BY <1>4, <2>2, SaveSimulated DEF StepDoneSave
<1>5. CASE CompletedSave(r)
  <2>1. t.pc = "completedSave"
    BY <1>5 DEF CompletedSave, SaveAt
  <2>2. /\ PhaseStep(r, t, Goto(t, "completedAudit"), C)
        /\ PhaseStep(r, t, Fail(t, "save"), C)
    BY <2>1, FrameFacts, GotoPhase, FailPhase DEF Finishing, Error
  <2>3. QED
    BY <1>5, <2>2, SaveSimulated DEF CompletedSave
<1>6. CASE CompensatingSave(r)
  <2>1. t.pc = "compensatingSave"
    BY <1>6 DEF CompensatingSave, SaveAt
  <2>2. /\ PhaseStep(r, t, CompensateBelow(r, t, Len(Steps(r)) + 1), C)
        /\ PhaseStep(r, t, Throw(t, "save"), C)
    BY <2>1, FrameFacts, CompensateBelowPhase, ThrowPhase DEF Awaits, Error
  <2>3. QED
    BY <1>6, <2>2, SaveSimulated DEF CompensatingSave
<1>7. CASE FailedSave(r)
  <2>1. t.pc = "failedSave"
    BY <1>7 DEF FailedSave, SaveAt
  <2>2. PhaseStep(r, t, Goto(t, "failedAudit"), C) /\ PhaseStep(r, t, Throw(t, "save"), C)
    BY <2>1, FrameFacts, GotoPhase, ThrowPhase DEF Awaits, Error
  <2>3. QED
    BY <1>7, <2>2, SaveSimulated DEF FailedSave
<1>8. QED
  BY <1>1, <1>2, <1>3, <1>4, <1>5, <1>6, <1>7

LEMMA AuditsSimulated ==
  ASSUME IInv, IInv', PhaseInv, NEW r \in Run,
         \/ StartAudit(r) \/ StepFailAudit(r) \/ StepDoneAudit(r)
         \/ CompletedAudit(r) \/ CompDoneAudit(r) \/ CompFailAudit(r)
         \/ FailedAudit(r)
  PROVE  Simulated
<1> DEFINE t == task[r]
           C == compensations[r]
<1>1. CASE StartAudit(r)
  <2>1. t.pc = "startAudit"
    BY <1>1 DEF StartAudit, AuditAt
  <2>2. PhaseStep(r, t, BeginStep(r, t, 1), C) /\ PhaseStep(r, t, Throw(t, "audit"), C)
    BY <2>1, FrameFacts, BeginStepPhase, ThrowPhase DEF Awaits, Error
  <2>3. QED
    BY <1>1, <2>2, AuditSimulated DEF StartAudit
<1>2. CASE StepFailAudit(r)
  <2>1. t.pc = "stepFailAudit"
    BY <1>2 DEF StepFailAudit, AuditAt
  <2>2. PhaseStep(r, t, Fail(t, "step"), C) /\ PhaseStep(r, t, Fail(t, "audit"), C)
    BY <2>1, FrameFacts, FailPhase DEF BeforeDone, Error
  <2>3. QED
    BY <1>2, <2>2, AuditSimulated DEF StepFailAudit
<1>3. CASE StepDoneAudit(r)
  <2>1. t.pc = "stepDoneAudit"
    BY <1>3 DEF StepDoneAudit, AuditAt
  <2>2. /\ PhaseStep(r, t, BeginStep(r, t, t.at + 1), C)
        /\ PhaseStep(r, t, Fail(t, "audit"), C)
    BY <2>1, FrameFacts, BeginStepPhase, FailPhase DEF AfterDone, Error
  <2>3. QED
    BY <1>3, <2>2, AuditSimulated DEF StepDoneAudit
<1>4. CASE CompletedAudit(r)
  <2>1. t.pc = "completedAudit"
    BY <1>4 DEF CompletedAudit, AuditAt
  <2>2. PhaseStep(r, t, Goto(t, "resolved"), C) /\ PhaseStep(r, t, Fail(t, "audit"), C)
    BY <2>1, FrameFacts, GotoPhase, FailPhase DEF Finishing, Error
  <2>3. QED
    BY <1>4, <2>2, AuditSimulated DEF CompletedAudit
<1>5. CASE CompDoneAudit(r)
  <2>1. t.pc = "compDoneAudit"
    BY <1>5 DEF CompDoneAudit, AuditAt
  <2>2. /\ PhaseStep(r, t, CompensateBelow(r, t, t.at), C)
        /\ PhaseStep(r, t, Goto(t, "compFailAudit"), C)
    BY <2>1, FrameFacts, CompensateBelowPhase, GotoPhase DEF AfterCompensation
  <2>3. QED
    BY <1>5, <2>2, AuditSimulated DEF CompDoneAudit
<1>6. CASE CompFailAudit(r)
  <2>1. t.pc = "compFailAudit"
    BY <1>6 DEF CompFailAudit, AuditAt
  <2>2. /\ PhaseStep(r, t, CompensateBelow(r, t, t.at), C)
        /\ PhaseStep(r, t, Throw(t, "audit"), C)
    BY <2>1, FrameFacts, CompensateBelowPhase, ThrowPhase
       DEF AfterCompensation, Awaits, Error
  <2>3. QED
    BY <1>6, <2>2, AuditSimulated DEF CompFailAudit
<1>7. CASE FailedAudit(r)
  <2>1. t.pc = "failedAudit" /\ t.cause \in Error
    BY <1>7, FrameFacts DEF FailedAudit, AuditAt, Task
  <2>2. PhaseStep(r, t, Throw(t, t.cause), C) /\ PhaseStep(r, t, Throw(t, "audit"), C)
    BY <2>1, FrameFacts, ThrowPhase DEF Awaits, Error
  <2>3. QED
    BY <1>7, <2>2, AuditSimulated DEF FailedAudit
<1>8. QED
  BY <1>1, <1>2, <1>3, <1>4, <1>5, <1>6, <1>7

LEMMA StartsSimulated ==
  ASSUME IInv, IInv', PhaseInv, NEW r \in Run,
         \/ Start(r) \/ StartUnknown(r) \/ RetryDelay(r) \/ AttemptSave(r)
         \/ ExecuteTimesOut(r)
  PROVE  Simulated
<1> DEFINE t == task[r]
           C == compensations[r]
<1>1. CASE Start(r)
  <2> DEFINE u == [t EXCEPT !.pc = "startSave"]
  <2>1. t.pc = "idle" /\ u.pc = "startSave" /\ u.snap = t.snap
    BY <1>1, FrameFacts DEF Start, Task
  <2>2. u \in Task
    BY FrameFacts DEF Task, Awaits
  <2> HIDE DEF u
  <2>3. StatusOK(u)
    BY <2>1, FrameFacts DEF StatusOK, Starting, BeforeDone, AfterDone,
       Finishing, Undoing, Ending, AfterCompensation
  <2>4. PhaseStep(r, t, u, C)
    BY <2>1, <2>2, <2>3, FrameFacts, PhaseIs DEF PhaseStep
  <2>5. task' = [task EXCEPT ![r] = u]
    BY <1>1 DEF Start, u
  <2>6. UNCHANGED <<inflight, landed, compensations>>
    BY <1>1 DEF Start, effectVars
  <2>7. QED
    BY <2>4, <2>5, <2>6, FrameSimulated
<1>2. CASE StartUnknown(r)
  <2>1. t.pc = "idle" /\ task' = [task EXCEPT ![r] = Throw(t, "unknown")]
    BY <1>2 DEF StartUnknown
  <2>2. PhaseStep(r, t, Throw(t, "unknown"), C)
    BY <2>1, FrameFacts, ThrowPhase DEF Error
  <2>3. UNCHANGED <<inflight, landed, compensations>>
    BY <1>2 DEF StartUnknown, effectVars
  <2>4. QED
    BY <2>1, <2>2, <2>3, FrameSimulated
<1>3. CASE RetryDelay(r)
  <2> DEFINE u == BeginAttempt(r, t, t.attempt + 1)
  <2>1. t.pc = "retryDelay" /\ task' = [task EXCEPT ![r] = u]
    BY <1>3 DEF RetryDelay
  <2>2. PhaseStep(r, t, u, C)
    BY <2>1, FrameFacts, BeginAttemptPhase
  <2>3. UNCHANGED <<inflight, landed, compensations>>
    BY <1>3 DEF RetryDelay, effectVars
  <2> HIDE DEF u
  <2>4. QED
    BY <2>1, <2>2, <2>3, FrameSimulated
<1>4. CASE AttemptSave(r)
  <2> DEFINE u == Goto(t, "execute")
             v == Fail(t, "save")
  <2>1. t.pc = "attemptSave"
    BY <1>4 DEF AttemptSave
  <2>2. PhaseStep(r, t, u, C) /\ PhaseStep(r, t, v, C)
    BY <2>1, FrameFacts, GotoPhase, FailPhase DEF BeforeDone, Error
  <2>3. \/ task' = [task EXCEPT ![r] = u]
        \/ task' = [task EXCEPT ![r] = v]
    BY <1>4 DEF AttemptSave, Goto
  <2>4. UNCHANGED <<inflight, landed, compensations>>
    BY <1>4 DEF AttemptSave
  <2> HIDE DEF u, v
  <2>5. QED
    BY <2>2, <2>3, <2>4, FrameSimulated
<1>5. CASE ExecuteTimesOut(r)
  <2> DEFINE u == AttemptFailed(r, t)
  <2>1. t.pc = "execute" /\ task' = [task EXCEPT ![r] = u]
    BY <1>5 DEF ExecuteTimesOut
  <2>2. t.at \in DOMAIN Steps(r) /\ Len(t.snap.completed) = t.at - 1
    BY <2>1, FrameFacts DEF FrameOK, PlaceOK, BeforeDone
  <2>3. PhaseStep(r, t, u, C)
    BY <2>1, <2>2, FrameFacts, AttemptFailedPhase
  <2>4. /\ inflight' = [inflight EXCEPT ![r] = @ \cup {t.at}]
        /\ UNCHANGED <<landed, compensations>>
    BY <1>5 DEF ExecuteTimesOut
  <2> HIDE DEF u
  <2>5. OnlyMoves(r) /\ task'[r] = u /\ inflight'[r] = inflight[r] \cup {t.at}
    BY <2>1, <2>4 DEF OnlyMoves, IInv, TypeOK
  <2>6. ContractStep
    BY <2>3, <2>4, <2>5, PhaseMoves
  <2>7. StatusOK(u) /\ InFlightOK(r, u, inflight'[r])
    BY <2>2, <2>3, <2>5, FrameFacts DEF PhaseStep, InFlightOK
  <2>8. QED
    BY <2>5, <2>6, <2>7, KeepsPhaseInv DEF Simulated
<1>6. QED
  BY <1>1, <1>2, <1>3, <1>4, <1>5

\* The effects of a run are those of steps it tried.
LEMMA EffectSimulated ==
  ASSUME IInv, PhaseInv, NEW r \in Run, OnlyMoves(r),
         NEW i \in DOMAIN Steps(r), i <= Len(task[r].snap.completed) + 1,
         task[r].pc # "idle",
         landed' = [landed EXCEPT ![r] = @ \cup {i}],
         compensations' = compensations,
         task'[r].snap.completed = task[r].snap.completed,
         ContractPhase(task'[r]) = ContractPhase(task[r])
  PROVE  ContractStep
<1> DEFINE N == Len(Steps(r))
           p == ContractPhase(task[r])
<1>1. i \in 1 .. N /\ N \in Nat
  BY StepTypes
<1>2. Len(task[r].snap.completed) \in Nat
  BY FrameFacts DEF Task, Snapshot
<1>3. p # "idle"
  BY DEF ContractPhase
<1> HIDE DEF p
<1>4. ContractPhases' = ContractPhases /\ ContractPhases[r] = p
  BY MappedMoves DEF ContractPhases, p
<1>5. DoneCounts' = DoneCounts /\ DoneCounts[r] = Len(task[r].snap.completed)
  BY MappedMoves DEF DoneCounts
<1>6. UndoneSteps' = UndoneSteps
  BY DEF UndoneSteps, Compensated
<1>7. i \in 1 .. DoneCounts[r] + 1 /\ i <= N
  BY <1>1, <1>2, <1>5
<1>8. Contract!TakeEffect(r)
  BY <1>3, <1>4, <1>5, <1>6, <1>7 DEF Contract!TakeEffect
<1>9. QED
  BY <1>8 DEF ContractStep, Contract!Next

LEMMA EffectsSimulated ==
  ASSUME IInv, IInv', PhaseInv, NEW r \in Run,
         ExecuteRejects(r) \/ LateEffect(r)
  PROVE  Simulated
<1> DEFINE t == task[r]
           C == compensations[r]
<1>1. CASE ExecuteRejects(r)
  <2> DEFINE u == AttemptFailed(r, t)
  <2>1. t.pc = "execute" /\ task' = [task EXCEPT ![r] = u]
    BY <1>1 DEF ExecuteRejects
  <2>2. t.at \in DOMAIN Steps(r) /\ Len(t.snap.completed) = t.at - 1
    BY <2>1, FrameFacts DEF FrameOK, PlaceOK, BeforeDone
  <2>3. PhaseStep(r, t, u, C) /\ ContractPhase(u) = ContractPhase(t)
    BY <2>1, <2>2, FrameFacts, AttemptFailedPhase
  <2>4. /\ \/ landed' = [landed EXCEPT ![r] = @ \cup {}]
           \/ landed' = [landed EXCEPT ![r] = @ \cup {t.at}]
        /\ UNCHANGED <<inflight, compensations>>
    BY <1>1 DEF ExecuteRejects
  <2> HIDE DEF u
  <2>5. OnlyMoves(r) /\ task'[r] = u
    BY <2>1, <2>4 DEF OnlyMoves, IInv, TypeOK
  <2>6. CASE landed' = [landed EXCEPT ![r] = @ \cup {}]
    <3>1. landed' = landed
      BY <2>6 DEF IInv, TypeOK
    <3>2. QED
      BY <2>3, <2>4, <2>5, <3>1, PhaseStepSimulated
  <2>7. CASE landed' = [landed EXCEPT ![r] = @ \cup {t.at}]
    <3>1. t.at <= Len(t.snap.completed) + 1
      BY <2>2, StepTypes
    <3>2. ContractStep
      BY <2>1, <2>2, <2>3, <2>4, <2>5, <2>7, <3>1, EffectSimulated DEF PhaseStep
    <3>3. StatusOK(u) /\ InFlightOK(r, u, inflight'[r])
      BY <2>3, <2>4, FrameFacts DEF PhaseStep, InFlightOK
    <3>4. QED
      BY <2>5, <3>2, <3>3, KeepsPhaseInv DEF Simulated
  <2>8. QED
    BY <2>4, <2>6, <2>7
<1>2. CASE LateEffect(r)
  <2>1. PICK i \in inflight[r] :
          /\ landed' = [landed EXCEPT ![r] = @ \cup {i}]
          /\ inflight' = [inflight EXCEPT ![r] = @ \ {i}]
    BY <1>2 DEF LateEffect
  <2>2. task' = task /\ compensations' = compensations
    BY <1>2 DEF LateEffect
  <2>3. /\ OnlyMoves(r) /\ task'[r] = t
        /\ inflight'[r] = inflight[r] \ {i}
    BY <2>1, <2>2 DEF OnlyMoves, IInv, TypeOK
  <2>4. /\ i \in DOMAIN Steps(r) /\ i <= Len(t.snap.completed) + 1
        /\ t.pc # "idle"
    BY FrameFacts DEF InFlightOK
  <2>5. ContractStep
    BY <2>1, <2>2, <2>3, <2>4, EffectSimulated
  <2>6. StatusOK(t) /\ InFlightOK(r, t, inflight'[r])
    BY <2>3, FrameFacts DEF InFlightOK
  <2>7. QED
    BY <2>3, <2>5, <2>6, KeepsPhaseInv DEF Simulated
<1>3. QED
  BY <1>1, <1>2

LEMMA ExecuteResolvesSimulated ==
  ASSUME IInv, IInv', PhaseInv, NEW r \in Run, ExecuteResolves(r)
  PROVE  Simulated
<1> DEFINE t == task[r]
           u == StepDone(r, t)
           done == t.snap.completed
<1>1. t.pc = "execute" /\ task' = [task EXCEPT ![r] = u]
  BY DEF ExecuteResolves
<1>2. /\ landed' = [landed EXCEPT ![r] = @ \cup {t.at}]
      /\ UNCHANGED <<inflight, compensations>>
  BY DEF ExecuteResolves
<1>3. t.at \in DOMAIN Steps(r) /\ Len(done) = t.at - 1
  BY <1>1, FrameFacts DEF FrameOK, PlaceOK, BeforeDone
<1>4. t.at \in Nat /\ t.at <= Len(Steps(r)) /\ Len(Steps(r)) \in Nat
      /\ Len(done) \in Nat /\ t.at = Len(done) + 1
  BY <1>3, StepTypes, FrameFacts DEF Task, Snapshot
<1>5. /\ u.pc = "stepDoneSave" /\ u.snap.status = t.snap.status
      /\ u.snap.completed = Append(done, StepAt(r, t.at).name)
  BY FrameFacts DEF StepDone, Task, Snapshot
<1>6. Len(u.snap.completed) = Len(done) + 1
  BY <1>5, FrameFacts DEF Task, Snapshot
<1> HIDE DEF u
<1>7. OnlyMoves(r) /\ task'[r] = u
  BY <1>1, <1>2 DEF OnlyMoves, IInv, TypeOK
<1>8. StatusOK(u) /\ u \in Task
  <2>1. u \in Task
    BY <1>7 DEF OnlyMoves, TypeOK
  <2>2. t.snap.status = "running"
    BY <1>1, FrameFacts DEF StatusOK, BeforeDone
  <2>3. QED
    BY <1>5, <2>1, <2>2 DEF StatusOK, Starting, BeforeDone, AfterDone,
       Finishing, Undoing, Ending, AfterCompensation
<1>9. ContractPhase(t) = "running" /\ ContractPhase(u) = "running"
  BY <1>1, <1>5, <1>8, FrameFacts, PhaseIs DEF BeforeDone, AfterDone
<1>10. ContractPhases' = ContractPhases /\ ContractPhases[r] = "running"
  BY <1>7, <1>9, MappedMoves DEF ContractPhases
<1>11. DoneCounts[r] = Len(done) /\ DoneCounts' = [DoneCounts EXCEPT ![r] = @ + 1]
  BY <1>6, <1>7, MappedMoves DEF DoneCounts
<1>12. UndoneSteps' = UndoneSteps
  BY <1>2 DEF UndoneSteps, Compensated
<1>13. Contract!Do(r)
  BY <1>2, <1>4, <1>10, <1>11, <1>12 DEF Contract!Do
<1>14. InFlightOK(r, u, inflight'[r])
  <2>1. InFlightOK(r, t, inflight[r]) /\ \A i \in DOMAIN Steps(r) : i \in Nat
    BY FrameFacts, StepTypes
  <2>2. QED
    BY <1>2, <1>4, <1>5, <1>6, <2>1 DEF InFlightOK
<1>15. QED
  BY <1>7, <1>8, <1>13, <1>14, KeepsPhaseInv
     DEF Simulated, ContractStep, Contract!Next

\* The step compensated next is the last one still to be undone.
LEMMA CompensateSimulated ==
  ASSUME IInv, IInv', PhaseInv, NEW r \in Run, Compensate(r)
  PROVE  Simulated
<1> DEFINE t == task[r]
           C == compensations[r]
<1>1. t.pc = "compensate"
  BY DEF Compensate
<1>2. PICK l \in AfterCompensation : task' = [task EXCEPT ![r].pc = l]
  BY DEF Compensate, AfterCompensation
<1>3. compensations' = [compensations EXCEPT ![r] = Append(@, t.at)]
      /\ UNCHANGED <<inflight, landed>>
  BY DEF Compensate, effectVars
<1> DEFINE u == [t EXCEPT !.pc = l]
<1>4. OnlyMoves(r) /\ task'[r] = u /\ compensations'[r] = Append(C, t.at)
  BY <1>2, <1>3 DEF OnlyMoves, IInv, TypeOK
<1>5. u.pc = l /\ u.snap = t.snap /\ u \in Task
  BY <1>2, FrameFacts DEF Task, Awaits, AfterCompensation
<1> HIDE DEF u
<1>6. StatusOK(u)
  BY <1>1, <1>5, FrameFacts DEF StatusOK, Starting, BeforeDone, AfterDone,
     Finishing, Undoing, Ending, AfterCompensation
<1>7. ContractPhase(t) = "undoing" /\ ContractPhase(u) = "undoing"
  BY <1>1, <1>5, <1>6, FrameFacts, PhaseIs DEF Undoing
<1>8. ContractPhases' = ContractPhases /\ ContractPhases[r] = "undoing"
  BY <1>4, <1>7, MappedMoves DEF ContractPhases
<1>9. DoneCounts' = DoneCounts
  BY <1>4, <1>5, MappedMoves DEF DoneCounts
<1>10. SeqRange(compensations'[r]) = SeqRange(C) \cup {t.at}
  <2>1. C \in Seq(Position) /\ Len(C) \in Nat
    BY DEF IInv, TypeOK
  <2>2. /\ DOMAIN Append(C, t.at) = 1 .. Len(C) + 1
        /\ \A k \in 1 .. Len(C) : Append(C, t.at)[k] = C[k]
        /\ Append(C, t.at)[Len(C) + 1] = t.at
        /\ DOMAIN C = 1 .. Len(C)
    BY <2>1
  <2>3. QED
    BY <1>4, <2>1, <2>2 DEF SeqRange
<1>11. UndoneSteps' = [UndoneSteps EXCEPT ![r] = @ \cup {t.at}]
  <2>1. UndoneSteps[r] = SeqRange(C)
    BY DEF UndoneSteps, Compensated, SeqRange
  <2>2. QED
    BY <1>4, <1>10, <2>1, MappedMoves DEF UndoneSteps
<1>12. /\ t.at \in Contract!ToUndo(r)
       /\ \A j \in Contract!ToUndo(r) : j <= t.at
  <2>1. /\ t.at \in ToCompensate(r, t)
        /\ \A j \in ToCompensate(r, t) : j \in SeqRange(C) <=> j > t.at
    BY <1>1, FrameFacts DEF FrameOK, UndoOK
  <2>2. \A j \in ToCompensate(r, t) : j \in Nat
    BY ToCompensateType, StepTypes, FrameFacts
  <2>3. QED
    BY <2>1, <2>2, SameToUndo
<1>13. Contract!Undo(r)
  BY <1>3, <1>8, <1>9, <1>11, <1>12 DEF Contract!Undo
<1>14. InFlightOK(r, u, inflight'[r])
  BY <1>2, <1>3, <1>5, FrameFacts DEF InFlightOK, AfterCompensation
<1>15. QED
  BY <1>4, <1>6, <1>13, <1>14, KeepsPhaseInv
     DEF Simulated, ContractStep, Contract!Next

LEMMA RegisterSimulated ==
  ASSUME PhaseInv, NEW w \in Name, Register(w)
  PROVE  Simulated
<1>1. UNCHANGED <<task, inflight, landed, compensations>>
  BY DEF Register, effectVars
<1>2. UNCHANGED Contract!vars
  BY <1>1 DEF Contract!vars, ContractPhases, DoneCounts, UndoneSteps,
              Compensated
<1>3. QED
  BY <1>1, <1>2 DEF Simulated, ContractStep, PhaseInv

\* A crash aborts the runs that were neither completed nor failed.
LEMMA CrashSimulated ==
  ASSUME IInv, IInv', PhaseInv, Crash
  PROVE  Simulated
<1>1. ASSUME NEW r \in Run
      PROVE  /\ IF task[r].pc \in Awaits
                  THEN /\ task'[r].pc = "crashed"
                       /\ task'[r].snap = task[r].snap /\ task'[r] \in Task
                  ELSE task'[r] = task[r]
             /\ inflight'[r] = inflight[r] \cup
                  (IF task[r].pc = "execute" THEN {task[r].at} ELSE {})
  BY FrameFacts DEF Crash, Active, IInv, TypeOK, Task
<1>2. UNCHANGED <<landed, compensations>>
  BY DEF Crash
<1> DEFINE live == {r \in Run : ContractPhases[r] \in {"idle", "running", "undoing"}}
           gone == {r \in live : task[r].pc \in Awaits}
<1>3. ASSUME NEW r \in Run
      PROVE  /\ StatusOK(task'[r])
             /\ task'[r].snap.completed = task[r].snap.completed
             /\ task'[r].pc = "idle" => task[r].pc = "idle"
             /\ ContractPhase(task'[r]) =
                  IF r \in gone THEN "aborted" ELSE ContractPhase(task[r])
  <2>1. CASE task[r].pc \in Awaits
    <3>1. PhaseStep(r, task[r], task'[r], compensations[r])
      BY <1>1, <2>1, FrameFacts, GonePhase
    <3>2. ContractPhase(task'[r]) =
            IF task[r].snap.status = "failed" THEN "failed" ELSE "aborted"
      BY <1>1, <2>1, <3>1, PhaseIs DEF PhaseStep
    <3>3. r \in gone <=> task[r].snap.status # "failed"
      <4>1. CASE task[r].pc \in Ending
        BY <4>1, FrameFacts, PhaseIs DEF StatusOK, ContractPhases
      <4>2. CASE task[r].pc \notin Ending
        <5>1. /\ ContractPhase(task[r]) \in {"running", "undoing"}
              /\ task[r].snap.status # "failed"
          BY <2>1, <4>2, FrameFacts, PhaseIs DEF StatusOK, Awaits, Starting,
             BeforeDone, AfterDone, Finishing, Undoing, Ending,
             AfterCompensation
        <5>2. QED
          BY <2>1, <5>1 DEF ContractPhases
      <4>3. QED
        BY <4>1, <4>2
    <3>4. task[r].snap.status = "failed" => ContractPhase(task[r]) = "failed"
      BY <2>1 DEF ContractPhase, Awaits
    <3>5. QED
      BY <3>1, <3>2, <3>3, <3>4 DEF PhaseStep
  <2>2. CASE task[r].pc \notin Awaits
    BY <1>1, <2>2, FrameFacts
  <2>3. QED
    BY <2>1, <2>2
<1>4. Contract!Abort
  <2>1. gone \in SUBSET live
    OBVIOUS
  <2>2. ContractPhases' =
          [r \in Run |-> IF r \in gone THEN "aborted" ELSE ContractPhases[r]]
    <3> HIDE DEF gone
    <3>1. QED
      BY <1>3 DEF ContractPhases
  <2>3. DoneCounts' = DoneCounts /\ UndoneSteps' = UndoneSteps
    BY <1>2, <1>3 DEF DoneCounts, UndoneSteps, Compensated
  <2>4. QED
    BY <1>2, <2>1, <2>2, <2>3 DEF Contract!Abort
<1>5. ASSUME NEW r \in Run
      PROVE  InFlightOK(r, task'[r], inflight'[r])
  <2>1. task[r].pc = "execute" =>
          /\ task[r].at \in DOMAIN Steps(r)
          /\ task[r].at <= Len(task[r].snap.completed) + 1
    BY FrameFacts, StepTypes DEF FrameOK, PlaceOK, BeforeDone
  <2> DEFINE done == task[r].snap.completed
             F == inflight[r]
  <2>2. /\ task'[r].snap.completed = done
        /\ task'[r].pc = "idle" => task[r].pc = "idle"
    BY <1>3
  <2>3. /\ F \subseteq DOMAIN Steps(r)
        /\ \A i \in F : i <= Len(done) + 1
        /\ task[r].pc = "idle" => F = {}
    BY FrameFacts DEF InFlightOK
  <2>4. \/ inflight'[r] = F
        \/ /\ inflight'[r] = F \cup {task[r].at}
           /\ task[r].pc = "execute"
    BY <1>1
  <2> HIDE DEF done, F
  <2>5. QED
    BY <2>1, <2>2, <2>3, <2>4 DEF InFlightOK, done
<1>6. QED
  BY <1>3, <1>4, <1>5 DEF Simulated, ContractStep, Contract!Next, PhaseInv

-----------------------------------------------------------------------------

LEMMA InitSimulated ==
  ASSUME Init
  PROVE  PhaseInv /\ Contract!Init
<1>1. ASSUME NEW r \in Run
      PROVE  /\ task[r].pc = "idle" /\ task[r].snap.status = "running"
             /\ task[r].snap.completed = <<>> /\ inflight[r] = {}
             /\ landed[r] = {} /\ compensations[r] = <<>>
  BY DEF Init, NewSnapshot
<1>2. PhaseInv
  BY <1>1 DEF PhaseInv, StatusOK, InFlightOK, Starting, BeforeDone, AfterDone,
              Finishing, Undoing, Ending, AfterCompensation
<1>3. ASSUME NEW r \in Run
      PROVE  /\ ContractPhase(task[r]) = "idle"
             /\ Len(task[r].snap.completed) = 0
             /\ Compensated(r) = {}
  BY <1>1 DEF ContractPhase, Compensated
<1>4. Contract!Init
  BY <1>3 DEF Contract!Init, ContractPhases, DoneCounts, UndoneSteps, Init
<1>5. QED
  BY <1>2, <1>4

LEMMA NextSimulated ==
  ASSUME IInv, IInv', PhaseInv, [Next]_vars
  PROVE  Simulated
<1>1. CASE \E w \in Name : Register(w)
  BY <1>1, RegisterSimulated
<1>2. CASE \E r \in Run : RunStep(r)
  BY <1>2, StartsSimulated, SavesSimulated, AuditsSimulated, EffectsSimulated,
     ExecuteResolvesSimulated, CompensateSimulated DEF RunStep, EngineStep
<1>3. CASE Crash
  BY <1>3, CrashSimulated
<1>4. CASE UNCHANGED vars
  <2>1. UNCHANGED <<task, inflight, landed, compensations>>
    BY <1>4 DEF vars, effectVars
  <2>2. UNCHANGED Contract!vars
    BY <2>1 DEF Contract!vars, ContractPhases, DoneCounts, UndoneSteps,
                Compensated
  <2>3. QED
    BY <2>1, <2>2 DEF Simulated, ContractStep, PhaseInv
<1>5. QED
  BY <1>1, <1>2, <1>3, <1>4 DEF Next

\* Whatever the steps, retries, timeouts, faults and crashes, the engine does
\* the steps of a run in order and either completes them all and undoes none,
\* or undoes what it did from the last step to the first, or gives up.
THEOREM EngineKeepsContract == Spec => ImplementsContract
<1>1. Init => PhaseInv /\ Contract!Init
  BY InitSimulated
<1>2. IInv /\ IInv' /\ PhaseInv /\ [Next]_vars => PhaseInv' /\ ContractStep
  BY NextSimulated DEF Simulated
<1>3. Spec => []PhaseInv
  BY <1>1, <1>2, Inductive, PTL DEF Spec
<1>4. Spec => Contract!Init /\ [][Contract!Next]_(Contract!vars)
  BY <1>1, <1>2, <1>3, Inductive, PTL DEF Spec, ContractStep
<1>5. QED
  BY <1>4 DEF ImplementsContract, Contract!Spec

-----------------------------------------------------------------------------
(***************************************************************************)
(* What the snapshot store and the caller are told: the store counts every *)
(* call of execute, locates every effect and admits every compensation.    *)
(***************************************************************************)

(* The invariant: what holds of a run with frame t, calls c, landed        *)
(* effects L, effects under way F, compensations C and stored snapshot S.  *)

\* Snapshot s names the step at position i.
Names(r, s, i) ==
  \/ StepAt(r, i).name \in {s.current, s.failed}
  \/ \E k \in DOMAIN s.completed : s.completed[k] = StepAt(r, i).name

\* Snapshot s accounts for the calls c.
Tells(r, s, c) ==
  /\ \A i \in DOMAIN Steps(r) : c[i] <= s.attempts[StepAt(r, i).name]
  /\ s.status = "failed" \/ \A i \in DOMAIN Steps(r) : c[i] > 0 => Names(r, s, i)

\* How many calls of execute each await leaves behind it.
CountOK(r, t, c) ==
  /\ t.pc \in {"idle", "startSave", "startAudit"} =>
       \A i \in DOMAIN Steps(r) : c[i] = 0
  /\ t.pc \in BeforeDone \cup AfterDone =>
       \A i \in DOMAIN Steps(r) : i > t.at => c[i] = 0
  /\ t.pc \in BeforeDone => t.snap.current = StepAt(r, t.at).name
  /\ t.pc = "stepSave" => c[t.at] = 0
  /\ t.pc = "attemptSave" =>
       /\ t.attempt = c[t.at] + 1
       /\ t.attempt <= MaxAttempts(StepAt(r, t.at))
       /\ t.snap.attempts[StepAt(r, t.at).name] = t.attempt
  /\ t.pc \in {"execute", "retryDelay"} => t.attempt = c[t.at] /\ t.attempt >= 1
  /\ t.pc = "retryDelay" => t.attempt < MaxAttempts(StepAt(r, t.at))

\* The retry policy bounds the calls, and a failed step has used it up.
BudgetOK(r, t, c) ==
  \A i \in DOMAIN Steps(r) :
    /\ c[i] <= MaxAttempts(StepAt(r, i))
    /\ t.snap.failed = StepAt(r, i).name => c[i] = MaxAttempts(StepAt(r, i))

\* The status of the live snapshot follows the await.
StatusAdmits(t) ==
  /\ t.pc \in {"compensatingSave", "compensate"} \cup AfterCompensation =>
       t.snap.status = "compensating"
  /\ t.pc \in {"failedSave", "failedAudit"} => t.snap.status = "failed"
  /\ t.pc \in Finishing => t.snap.status = "completed"
  /\ t.pc = "rejected" /\ t.thrown = "step" => t.snap.status = "failed"

\* Only steps that were called have effects, landed or under way.
EffectsOK(r, c, L, F) ==
  \A i \in L \cup F : i \in DOMAIN Steps(r) /\ c[i] > 0

\* The stored snapshot accounts for the calls, once there are any.
StoredTells(r, c, S) ==
  \/ \A i \in DOMAIN Steps(r) : c[i] = 0
  \/ S # NoSnapshot /\ Tells(r, S, c)

\* The stored status admits what is undone and agrees with the outcome.
StoredStatus(t, C, S) ==
  /\ \/ C # <<>>
     \/ t.pc \in {"compensate", "failedSave", "failedAudit"} \cup AfterCompensation
     => S.status \in {"compensating", "failed"}
  /\ t.pc \in {"completedAudit", "resolved"} => S.status = "completed"
  /\ \/ t.pc = "failedAudit"
     \/ t.pc = "rejected" /\ t.thrown = "step"
     => S.status = "failed"

LedgerOK(r, t, c, L, F) ==
  /\ Tells(r, t.snap, c)
  /\ CountOK(r, t, c)
  /\ BudgetOK(r, t, c)
  /\ StatusAdmits(t)
  /\ EffectsOK(r, c, L, F)

LedgerInv ==
  \A r \in Run :
    /\ LedgerOK(r, task[r], calls[r], landed[r], inflight[r])
    /\ PrivateId(r) => /\ StoredTells(r, calls[r], Stored(r))
                       /\ StoredStatus(task[r], compensations[r], Stored(r))

-----------------------------------------------------------------------------
(* The transformers of a frame keep LedgerOK.                              *)

Counts == [Position -> Nat]

\* The steps of the completed prefix are named by the snapshot.
LEMMA DoneNamed ==
  ASSUME NEW r \in Run, NEW t \in Task, NEW L, PrefixOK(r, t, L),
         NEW i \in DOMAIN Steps(r), i <= Len(t.snap.completed)
  PROVE  Names(r, t.snap, i)
<1>1. t.snap.completed \in Seq(StepName)
  BY DEF Task, Snapshot
<1>2. i \in 1 .. Len(t.snap.completed) /\ i \in DOMAIN t.snap.completed
  BY <1>1, StepTypes
<1>3. QED
  BY <1>2 DEF PrefixOK, Names

LEMMA GotoLedger ==
  ASSUME NEW r \in Run, NEW t \in Task, NEW l \in Awaits \cup Settled,
         NEW c, NEW L, NEW F, LedgerOK(r, t, c, L, F),
         \/ t.pc = "startSave" /\ l = "startAudit"
         \/ t.pc = "stepFailSave" /\ l = "stepFailAudit"
         \/ t.pc = "stepDoneSave" /\ l = "stepDoneAudit"
         \/ t.pc = "completedSave" /\ l = "completedAudit"
         \/ t.pc = "completedAudit" /\ l = "resolved"
         \/ t.pc = "compDoneAudit" /\ l = "compFailAudit"
         \/ t.pc = "failedSave" /\ l = "failedAudit"
  PROVE  LedgerOK(r, Goto(t, l), c, L, F)
<1> DEFINE u == Goto(t, l)
<1>1. u.pc = l /\ u.at = t.at /\ u.attempt = t.attempt /\ u.snap = t.snap
  BY DEF Goto, Task
<1> HIDE DEF u
<1>2. CountOK(r, u, c)
  BY <1>1 DEF LedgerOK, CountOK, BeforeDone, AfterDone
<1>3. StatusAdmits(u)
  BY <1>1 DEF LedgerOK, StatusAdmits, AfterCompensation, Finishing
<1>4. BudgetOK(r, u, c)
  BY <1>1 DEF LedgerOK, BudgetOK
<1>5. QED
  BY <1>1, <1>2, <1>3, <1>4 DEF LedgerOK, u

LEMMA ThrowLedger ==
  ASSUME NEW r \in Run, NEW t \in Task, NEW e, NEW c, NEW L, NEW F,
         LedgerOK(r, t, c, L, F), e = "step" => t.snap.status = "failed"
  PROVE  LedgerOK(r, Throw(t, e), c, L, F)
<1> DEFINE u == Throw(t, e)
<1>1. u.pc = "rejected" /\ u.thrown = e /\ u.snap = t.snap
  BY DEF Throw, Task
<1> HIDE DEF u
<1>2. CountOK(r, u, c)
  BY <1>1 DEF CountOK, BeforeDone, AfterDone
<1>3. StatusAdmits(u)
  BY <1>1 DEF StatusAdmits, AfterCompensation, Finishing
<1>4. BudgetOK(r, u, c)
  BY <1>1 DEF LedgerOK, BudgetOK
<1>5. QED
  BY <1>1, <1>2, <1>3, <1>4 DEF LedgerOK, u

LEMMA CrashLedger ==
  ASSUME NEW r \in Run, NEW t \in Task, NEW c, NEW L, NEW F, NEW G,
         LedgerOK(r, t, c, L, F), EffectsOK(r, c, L, G)
  PROVE  LedgerOK(r, [t EXCEPT !.pc = "crashed"], c, L, G)
<1> DEFINE u == [t EXCEPT !.pc = "crashed"]
<1>1. u.pc = "crashed" /\ u.snap = t.snap
  BY DEF Task
<1> HIDE DEF u
<1>2. CountOK(r, u, c)
  BY <1>1 DEF CountOK, BeforeDone, AfterDone
<1>3. StatusAdmits(u)
  BY <1>1 DEF StatusAdmits, AfterCompensation, Finishing
<1>4. BudgetOK(r, u, c)
  BY <1>1 DEF LedgerOK, BudgetOK
<1>5. LedgerOK(r, u, c, L, G)
  BY <1>1, <1>2, <1>3, <1>4 DEF LedgerOK
<1>6. QED
  BY <1>5 DEF u

LEMMA FailLedger ==
  ASSUME NEW r \in Run, NEW t \in Task, NEW e, NEW c, NEW L, NEW F, NEW C,
         FrameOK(r, t, L, C), LedgerOK(r, t, c, L, F),
         t.pc \in BeforeDone \cup AfterDone \cup Finishing
  PROVE  LedgerOK(r, Fail(t, e), c, L, F)
<1> DEFINE u == Fail(t, e)
<1>1. /\ u.pc = "compensatingSave" /\ u.snap.status = "compensating"
      /\ u.snap.completed = t.snap.completed
      /\ u.snap.current = t.snap.current /\ u.snap.failed = t.snap.failed
      /\ u.snap.attempts = t.snap.attempts
  BY DEF Fail, Task, Snapshot
<1>2. t.snap.status # "failed"
  BY DEF FrameOK, UndoOK, Forward
<1> HIDE DEF u
<1>3. CountOK(r, u, c)
  BY <1>1 DEF CountOK, BeforeDone, AfterDone
<1>4. StatusAdmits(u)
  BY <1>1 DEF StatusAdmits, AfterCompensation, Finishing
<1>5. BudgetOK(r, u, c)
  BY <1>1 DEF LedgerOK, BudgetOK
<1>6. Tells(r, u.snap, c)
  BY <1>1, <1>2 DEF LedgerOK, Tells, Names
<1>7. QED
  BY <1>1, <1>3, <1>4, <1>5, <1>6 DEF LedgerOK, u

LEMMA BeginStepLedger ==
  ASSUME NEW r \in Run, NEW t \in Task, NEW i \in Nat \ {0},
         NEW c \in Counts, NEW L, NEW F, NEW C,
         FrameOK(r, t, L, C), LedgerOK(r, t, c, L, F),
         t.pc \in {"startAudit", "stepDoneAudit"},
         i = Len(t.snap.completed) + 1
  PROVE  LedgerOK(r, BeginStep(r, t, i), c, L, F)
<1> DEFINE u == BeginStep(r, t, i)
<1>1. /\ u.snap.completed = t.snap.completed
      /\ u.snap.failed = t.snap.failed /\ u.snap.attempts = t.snap.attempts
      /\ \/ /\ i <= Len(Steps(r)) /\ u.pc = "stepSave" /\ u.at = i
            /\ u.snap.current = StepAt(r, i).name
         \/ u.pc = "completedSave" /\ u.snap.status = "completed"
  BY DEF BeginStep, Task, Snapshot
<1>1a. u \in Task
  BY BeginStepType
<1>2. \A j \in DOMAIN Steps(r) : j >= i => c[j] = 0
  BY StepTypes DEF FrameOK, PlaceOK, LedgerOK, CountOK, AfterDone, Task, Snapshot
<1>3. PrefixOK(r, u, L)
  BY <1>1 DEF FrameOK, PrefixOK
<1> HIDE DEF u
<1>4. CountOK(r, u, c)
  BY <1>1, <1>2, StepTypes DEF CountOK, BeforeDone, AfterDone
<1>5. StatusAdmits(u)
  BY <1>1 DEF StatusAdmits, AfterCompensation, Finishing
<1>6. BudgetOK(r, u, c)
  BY <1>1 DEF LedgerOK, BudgetOK
<1>7. Tells(r, u.snap, c)
  <2>1. ASSUME NEW j \in DOMAIN Steps(r), c[j] > 0 PROVE Names(r, u.snap, j)
    <3>1. j <= Len(u.snap.completed)
      BY <1>1, <1>2, <2>1, StepTypes DEF Task, Snapshot
    <3>2. QED
      BY <1>1a, <1>3, <3>1, DoneNamed
  <2>2. QED
    BY <1>1, <2>1 DEF LedgerOK, Tells
<1>8. QED
  BY <1>4, <1>5, <1>6, <1>7 DEF LedgerOK, u

\* Another attempt of the step at hand, within the retry policy.
LEMMA BeginAttemptLedger ==
  ASSUME NEW r \in Run, NEW t \in Task, NEW n \in Nat,
         NEW c \in Counts, NEW L, NEW F, NEW C,
         FrameOK(r, t, L, C), LedgerOK(r, t, c, L, F), t.pc \in BeforeDone,
         n = c[t.at] + 1, n <= MaxAttempts(StepAt(r, t.at))
  PROVE  LedgerOK(r, BeginAttempt(r, t, n), c, L, F)
<1> DEFINE u == BeginAttempt(r, t, n)
           name == StepAt(r, t.at).name
<1>1. /\ u.pc = "attemptSave" /\ u.at = t.at /\ u.attempt = n
      /\ u.snap.completed = t.snap.completed
      /\ u.snap.failed = t.snap.failed /\ u.snap.current = t.snap.current
      /\ u.snap.status = t.snap.status
      /\ u.snap.attempts = [t.snap.attempts EXCEPT ![name] = n]
  BY DEF BeginAttempt, Task, Snapshot
<1>2. /\ t.at \in DOMAIN Steps(r) /\ name \in StepName
      /\ t.snap.attempts \in [StepName -> Nat]
  BY StepTypes DEF FrameOK, PlaceOK, Task, Snapshot
<1>3. UniqueNames(Steps(r))
  BY DEF FrameOK, BeforeDone
<1>4. \A j \in DOMAIN Steps(r) : j # t.at => StepAt(r, j).name # name
  BY <1>2, <1>3 DEF UniqueNames, StepAt
<1> HIDE DEF u, name
<1>5. ASSUME NEW j \in DOMAIN Steps(r)
      PROVE  c[j] <= u.snap.attempts[StepAt(r, j).name]
  <2>1. StepAt(r, j).name \in StepName /\ c[j] \in Nat
    BY StepTypes DEF Counts
  <2>2. CASE j = t.at
    BY <1>1, <1>2, <2>1, <2>2 DEF name
  <2>3. CASE j # t.at
    BY <1>1, <1>4, <2>1, <2>3 DEF LedgerOK, Tells
  <2>4. QED
    BY <2>2, <2>3
<1>6. Tells(r, u.snap, c)
  BY <1>1, <1>5 DEF LedgerOK, Tells, Names
<1>7. CountOK(r, u, c)
  BY <1>1, <1>2 DEF LedgerOK, CountOK, BeforeDone, AfterDone, name
<1>8. StatusAdmits(u)
  BY <1>1 DEF StatusAdmits, AfterCompensation, Finishing
<1>9. BudgetOK(r, u, c)
  BY <1>1 DEF LedgerOK, BudgetOK
<1>10. QED
  BY <1>6, <1>7, <1>8, <1>9 DEF LedgerOK, u

\* A failed attempt is retried within the policy, or has used it up.
LEMMA AttemptFailedLedger ==
  ASSUME NEW r \in Run, NEW t \in Task, NEW c \in Counts, NEW L, NEW F, NEW C,
         FrameOK(r, t, L, C), LedgerOK(r, t, c, L, F), t.pc = "execute"
  PROVE  LedgerOK(r, AttemptFailed(r, t), c, L, F)
<1> DEFINE step == StepAt(r, t.at)
           u == [t EXCEPT !.pc = "stepFailSave", !.snap.failed = step.name]
           v == [t EXCEPT !.pc = "retryDelay"]
<1>1. /\ t.at \in DOMAIN Steps(r) /\ t.at \in Position /\ step \in StepDef
      /\ c[t.at] \in Nat /\ t.attempt = c[t.at]
      /\ c[t.at] <= MaxAttempts(step) /\ MaxAttempts(step) \in Nat
  BY StepTypes, MaxAttemptsType
     DEF FrameOK, PlaceOK, LedgerOK, CountOK, BudgetOK, BeforeDone, Counts
<1>2. UniqueNames(Steps(r)) /\ t.snap.status # "failed"
  BY DEF FrameOK, UndoOK, Forward, BeforeDone
<1>3. CASE t.attempt >= MaxAttempts(step)
  <2>1. /\ u.pc = "stepFailSave" /\ u.at = t.at /\ u.snap.failed = step.name
        /\ u.snap.completed = t.snap.completed
        /\ u.snap.current = t.snap.current /\ u.snap.status = t.snap.status
        /\ u.snap.attempts = t.snap.attempts
    BY DEF Task, Snapshot
  <2>2. c[t.at] = MaxAttempts(step)
    BY <1>1, <1>3
  <2> HIDE DEF u
  <2>3. \A j \in DOMAIN Steps(r) : StepAt(r, j).name = step.name => j = t.at
    BY <1>1, <1>2 DEF UniqueNames, StepAt
  <2>4. BudgetOK(r, u, c)
    BY <2>1, <2>2, <2>3 DEF LedgerOK, BudgetOK
  <2>5. CountOK(r, u, c)
    BY <2>1 DEF LedgerOK, CountOK, BeforeDone, AfterDone
  <2>6. ASSUME NEW j \in DOMAIN Steps(r), c[j] > 0 PROVE Names(r, u.snap, j)
    <3>1. j \in Nat /\ j <= t.at
      BY <1>1, <2>6, StepTypes DEF LedgerOK, CountOK, BeforeDone
    <3>2. CASE j = t.at
      BY <2>1, <3>2 DEF Names
    <3>3. CASE j # t.at
      <4>1. j <= Len(t.snap.completed) /\ PrefixOK(r, t, L)
        BY <1>1, <3>1, <3>3, StepTypes DEF FrameOK, PlaceOK, BeforeDone
      <4>2. PrefixOK(r, t, L) /\ t.snap.completed \in Seq(StepName)
        BY <4>1 DEF Task, Snapshot
      <4>3. j \in DOMAIN t.snap.completed
            /\ t.snap.completed[j] = StepAt(r, j).name
        BY <4>1, <4>2, StepTypes DEF PrefixOK
      <4>4. QED
        BY <2>1, <4>3 DEF Names
    <3>4. QED
      BY <3>2, <3>3
  <2>7. Tells(r, u.snap, c)
    BY <2>1, <2>6 DEF LedgerOK, Tells
  <2>8. StatusAdmits(u)
    BY <2>1 DEF StatusAdmits, AfterCompensation, Finishing
  <2>9. AttemptFailed(r, t) = u
    BY <1>1, <1>3 DEF AttemptFailed, u
  <2>10. QED
    BY <2>4, <2>5, <2>7, <2>8, <2>9 DEF LedgerOK
<1>4. CASE ~(t.attempt >= MaxAttempts(step)) /\ step.delayed
  <2>1. v.pc = "retryDelay" /\ v.at = t.at /\ v.attempt = t.attempt
        /\ v.snap = t.snap
    BY DEF Task
  <2> HIDE DEF v
  <2>2. CountOK(r, v, c)
    BY <1>1, <1>4, <2>1 DEF LedgerOK, CountOK, BeforeDone, AfterDone
  <2>3. StatusAdmits(v)
    BY <2>1 DEF StatusAdmits, AfterCompensation, Finishing
  <2>4. BudgetOK(r, v, c)
    BY <2>1 DEF LedgerOK, BudgetOK
  <2>5. t.attempt < MaxAttempts(step)
    BY <1>1, <1>4
  <2>6. AttemptFailed(r, t) = v
    BY <1>4, <2>5 DEF AttemptFailed, v
  <2>7. QED
    BY <2>1, <2>2, <2>3, <2>4, <2>6 DEF LedgerOK
<1>5. CASE ~(t.attempt >= MaxAttempts(step)) /\ ~step.delayed
  <2>1. t.attempt + 1 \in Nat /\ t.attempt + 1 <= MaxAttempts(step)
    BY <1>1, <1>5
  <2>2. LedgerOK(r, BeginAttempt(r, t, t.attempt + 1), c, L, F)
    BY <1>1, <2>1, BeginAttemptLedger DEF BeforeDone
  <2>3. AttemptFailed(r, t) = BeginAttempt(r, t, t.attempt + 1)
    BY <1>5 DEF AttemptFailed
  <2>4. QED
    BY <2>2, <2>3
<1>6. QED
  BY <1>3, <1>4, <1>5

LEMMA StepDoneLedger ==
  ASSUME NEW r \in Run, NEW t \in Task, NEW c \in Counts, NEW L, NEW F, NEW C,
         FrameOK(r, t, L, C), LedgerOK(r, t, c, L, F), t.pc = "execute"
  PROVE  LedgerOK(r, StepDone(r, t), c, L \cup {t.at}, F)
<1> DEFINE u == StepDone(r, t)
           M == L \cup {t.at}
<1>1. /\ u.pc = "stepDoneSave" /\ u.at = t.at /\ u.attempt = t.attempt
      /\ u.snap.status = t.snap.status
      /\ u.snap.failed = t.snap.failed /\ u.snap.attempts = t.snap.attempts
  BY DEF StepDone, Task, Snapshot
<1>2. t.at \in DOMAIN Steps(r) /\ c[t.at] > 0
  <2>1. t.at \in DOMAIN Steps(r) /\ t.attempt \in Nat
    BY DEF FrameOK, PlaceOK, BeforeDone, Task
  <2>2. t.attempt = c[t.at] /\ t.attempt >= 1
    BY DEF LedgerOK, CountOK
  <2>3. QED
    BY <2>1, <2>2
<1>3. u \in Task /\ FrameOK(r, u, M, C)
  BY <1>2, StepDoneType, StepDoneFrame
<1>4. PrefixOK(r, u, M) /\ Len(u.snap.completed) = t.at
  BY <1>1, <1>3 DEF FrameOK, PlaceOK, AfterDone
<1> HIDE DEF u
<1>5. CountOK(r, u, c)
  BY <1>1 DEF LedgerOK, CountOK, BeforeDone, AfterDone
<1>6. StatusAdmits(u)
  BY <1>1 DEF StatusAdmits, AfterCompensation, Finishing
<1>7. BudgetOK(r, u, c)
  BY <1>1 DEF LedgerOK, BudgetOK
<1>8. ASSUME NEW j \in DOMAIN Steps(r), c[j] > 0 PROVE Names(r, u.snap, j)
  <2>1. j <= t.at
    BY <1>2, <1>8, StepTypes DEF LedgerOK, CountOK, BeforeDone
  <2>2. QED
    BY <1>3, <1>4, <2>1, DoneNamed
<1>9. Tells(r, u.snap, c)
  BY <1>1, <1>8 DEF LedgerOK, Tells
<1>10. EffectsOK(r, c, M, F)
  BY <1>2 DEF LedgerOK, EffectsOK
<1>11. QED
  BY <1>5, <1>6, <1>7, <1>9, <1>10 DEF LedgerOK, u, M

LEMMA CompensateBelowLedger ==
  ASSUME NEW r \in Run, NEW t \in Task, NEW i \in Nat, NEW c, NEW L, NEW F,
         LedgerOK(r, t, c, L, F), t.snap.status = "compensating"
  PROVE  LedgerOK(r, CompensateBelow(r, t, i), c, L, F)
<1> DEFINE u == CompensateBelow(r, t, i)
<1>1. /\ u.snap.failed = t.snap.failed /\ u.snap.attempts = t.snap.attempts
      /\ \/ u.pc = "compensate" /\ u.snap = t.snap
         \/ u.pc = "failedSave" /\ u.snap.status = "failed"
  <2>1. u.snap.failed = t.snap.failed /\ u.snap.attempts = t.snap.attempts
    BY DEF CompensateBelow, Task, Snapshot
  <2>2. \/ /\ u.pc = "compensate" /\ u.at \in ToCompensate(r, t)
           /\ u.at < i /\ u.snap = t.snap
           /\ \A k \in ToCompensate(r, t) : k < i => k <= u.at
        \/ /\ u.pc = "failedSave" /\ u.snap.status = "failed"
           /\ \A k \in ToCompensate(r, t) : ~(k < i)
    BY CompensateBelowType
  <2> HIDE DEF u
  <2>3. QED
    BY <2>1, <2>2
<1> HIDE DEF u
<1>2. CountOK(r, u, c)
  BY <1>1 DEF CountOK, BeforeDone, AfterDone
<1>3. StatusAdmits(u)
  BY <1>1 DEF StatusAdmits, AfterCompensation, Finishing
<1>4. BudgetOK(r, u, c)
  BY <1>1 DEF LedgerOK, BudgetOK
<1>5. Tells(r, u.snap, c)
  BY <1>1 DEF LedgerOK, Tells
<1>6. QED
  BY <1>2, <1>3, <1>4, <1>5 DEF LedgerOK, u

LEMMA CompensatedLedger ==
  ASSUME NEW r \in Run, NEW t \in Task, NEW l \in AfterCompensation,
         NEW c, NEW L, NEW F, LedgerOK(r, t, c, L, F), t.pc = "compensate"
  PROVE  LedgerOK(r, [t EXCEPT !.pc = l], c, L, F)
<1> DEFINE u == [t EXCEPT !.pc = l]
<1>1. u.pc = l /\ u.snap = t.snap
  BY DEF Task
<1> HIDE DEF u
<1>2. CountOK(r, u, c)
  BY <1>1 DEF CountOK, BeforeDone, AfterDone, AfterCompensation
<1>3. StatusAdmits(u)
  BY <1>1 DEF LedgerOK, StatusAdmits, AfterCompensation, Finishing
<1>4. BudgetOK(r, u, c)
  BY <1>1 DEF LedgerOK, BudgetOK
<1>5. LedgerOK(r, u, c, L, F)
  BY <1>1, <1>2, <1>3, <1>4 DEF LedgerOK
<1>6. QED
  BY <1>5 DEF u

\* The attempt was saved: execute is called.
LEMMA CalledLedger ==
  ASSUME NEW r \in Run, NEW t \in Task, NEW c \in Counts, NEW L, NEW F, NEW C,
         FrameOK(r, t, L, C), LedgerOK(r, t, c, L, F), t.pc = "attemptSave"
  PROVE  LET d == [c EXCEPT ![t.at] = @ + 1]
         IN  /\ d \in Counts
             /\ Tells(r, t.snap, d)
             /\ LedgerOK(r, [t EXCEPT !.pc = "execute"], d, L, F)
<1> DEFINE u == [t EXCEPT !.pc = "execute"]
           d == [c EXCEPT ![t.at] = @ + 1]
<1>1. /\ u.pc = "execute" /\ u.at = t.at /\ u.attempt = t.attempt
      /\ u.snap = t.snap
  BY DEF Task
<1>2. t.at \in DOMAIN Steps(r) /\ t.at \in Position /\ c[t.at] \in Nat
  BY StepTypes DEF FrameOK, PlaceOK, BeforeDone, Counts
<1>3. /\ d \in Counts /\ d[t.at] = c[t.at] + 1
      /\ \A j \in DOMAIN Steps(r) : j # t.at => d[j] = c[j]
  BY <1>2, StepTypes DEF Counts
<1>4. UniqueNames(Steps(r))
  BY DEF FrameOK
<1> HIDE DEF u, d
<1>5. /\ t.attempt = d[t.at] /\ t.attempt >= 1
      /\ t.attempt <= MaxAttempts(StepAt(r, t.at))
      /\ t.snap.attempts[StepAt(r, t.at).name] = t.attempt
      /\ t.snap.current = StepAt(r, t.at).name
  BY <1>2, <1>3 DEF LedgerOK, CountOK, BeforeDone
<1>6. Tells(r, t.snap, d)
  <2>1. ASSUME NEW j \in DOMAIN Steps(r)
        PROVE  d[j] <= t.snap.attempts[StepAt(r, j).name]
    <3>1. CASE j = t.at
      BY <1>2, <1>3, <1>5, <3>1
    <3>2. CASE j # t.at
      BY <1>3, <3>2 DEF LedgerOK, Tells
    <3>3. QED
      BY <3>1, <3>2
  <2>2. ASSUME NEW j \in DOMAIN Steps(r), d[j] > 0,
               t.snap.status # "failed"
        PROVE  Names(r, t.snap, j)
    <3>1. CASE j = t.at
      BY <1>5, <3>1 DEF Names
    <3>2. CASE j # t.at
      BY <1>3, <2>2, <3>2 DEF LedgerOK, Tells
    <3>3. QED
      BY <3>1, <3>2
  <2>3. QED
    BY <2>1, <2>2 DEF Tells
<1>7. BudgetOK(r, u, d)
  <2>1. SUFFICES ASSUME NEW j \in DOMAIN Steps(r)
        PROVE  /\ d[j] <= MaxAttempts(StepAt(r, j))
               /\ u.snap.failed = StepAt(r, j).name
                    => d[j] = MaxAttempts(StepAt(r, j))
    BY DEF BudgetOK
  <2>2. CASE j = t.at
    <3>1. MaxAttempts(StepAt(r, j)) \in Nat
      BY StepTypes, MaxAttemptsType
    <3>2. c[j] # MaxAttempts(StepAt(r, j))
      BY <1>2, <1>3, <1>5, <2>2, <3>1
    <3>3. QED
      BY <1>1, <1>5, <2>2, <3>2 DEF LedgerOK, BudgetOK
  <2>3. CASE j # t.at
    BY <1>1, <1>3, <2>3 DEF LedgerOK, BudgetOK
  <2>4. QED
    BY <2>2, <2>3
<1>8. CountOK(r, u, d)
  <2>1. \A j \in DOMAIN Steps(r) : j > t.at => d[j] = 0
    BY <1>2, <1>3, StepTypes DEF LedgerOK, CountOK, BeforeDone
  <2>2. QED
    BY <1>1, <1>5, <2>1 DEF CountOK, BeforeDone, AfterDone
<1>9. StatusAdmits(u)
  BY <1>1 DEF StatusAdmits, AfterCompensation, Finishing
<1>10. EffectsOK(r, d, L, F)
  <2>1. ASSUME NEW j \in L \cup F PROVE j \in DOMAIN Steps(r) /\ d[j] > 0
    BY <1>2, <1>3, <2>1 DEF LedgerOK, EffectsOK
  <2>2. QED
    BY <2>1 DEF EffectsOK
<1>11. LedgerOK(r, u, d, L, F)
  BY <1>1, <1>6, <1>7, <1>8, <1>9, <1>10 DEF LedgerOK
<1>12. QED
  BY <1>3, <1>6, <1>11 DEF u, d

-----------------------------------------------------------------------------
(* The invariant is inductive.                                             *)

SInv == IInv /\ LedgerInv

LEMMA LedgerAt ==
  ASSUME SInv, NEW r \in Run
  PROVE  /\ task[r] \in Task /\ calls[r] \in Counts
         /\ FrameOK(r, task[r], landed[r], compensations[r])
         /\ LedgerOK(r, task[r], calls[r], landed[r], inflight[r])
         /\ PrivateId(r) => /\ StoredTells(r, calls[r], Stored(r))
                            /\ StoredStatus(task[r], compensations[r], Stored(r))
BY FrameAt DEF SInv, IInv, TypeOK, LedgerInv, Counts

\* Until its compensation begins, a run has undone nothing.
LEMMA NothingUndone ==
  ASSUME SInv, NEW r \in Run, task[r].pc \in Forward
  PROVE  compensations[r] = <<>>
BY LedgerAt DEF FrameOK, UndoOK

\* While nothing is undone, most frames ask nothing of the stored status.
LEMMA QuietStatus ==
  ASSUME NEW u, NEW S,
         u.pc \notin {"compensate", "failedSave", "failedAudit",
                      "completedAudit", "resolved"} \cup AfterCompensation,
         u.pc = "rejected" => u.thrown # "step"
  PROVE  StoredStatus(u, <<>>, S)
BY DEF StoredStatus

\* The snapshot a save writes is the live one: it accounts for the calls.
LEMMA SavedTells ==
  ASSUME NEW r \in Run, NEW t \in Task, NEW c, Tells(r, t.snap, c)
  PROVE  StoredTells(r, c, t.snap)
BY StoreAssumption DEF Task, StoredTells

\* A step of run r that moves no other run and writes to its own identifier.
LEMMA OneRunBooks ==
  ASSUME SInv, NEW r \in Run, IInv',
         store' \in {store, [store EXCEPT ![IdOf[r]] = task[r].snap]},
         \A q \in Run \ {r} : /\ task'[q] = task[q]
                              /\ calls'[q] = calls[q]
                              /\ landed'[q] = landed[q]
                              /\ inflight'[q] = inflight[q]
                              /\ compensations'[q] = compensations[q],
         LedgerOK(r, task'[r], calls'[r], landed'[r], inflight'[r]),
         PrivateId(r) =>
           /\ StoredTells(r, calls'[r], store'[IdOf[r]])
           /\ StoredStatus(task'[r], compensations'[r], store'[IdOf[r]])
  PROVE  SInv'
<1>1. ASSUME NEW q \in Run
      PROVE  /\ LedgerOK(q, task'[q], calls'[q], landed'[q], inflight'[q])
             /\ PrivateId(q) =>
                  /\ StoredTells(q, calls'[q], store'[IdOf[q]])
                  /\ StoredStatus(task'[q], compensations'[q], store'[IdOf[q]])
  <2>1. CASE q = r
    BY <2>1
  <2>2. CASE q # r
    <3>1. PrivateId(q) => store'[IdOf[q]] = store[IdOf[q]]
      <4>1. PrivateId(q) => IdOf[r] # IdOf[q]
        BY <2>2 DEF PrivateId
      <4>2. store \in [Id -> Snapshot \cup {NoSnapshot}] /\ IdOf[q] \in Id
        BY StepTypes DEF SInv, IInv, TypeOK
      <4>3. QED
        BY <4>1, <4>2
    <3>2. QED
      BY <2>2, <3>1, LedgerAt DEF Stored
  <2>3. QED
    BY <2>1, <2>2
<1>2. LedgerInv'
  BY <1>1 DEF LedgerInv, Stored, PrivateId
<1>3. QED
  BY <1>2 DEF SInv

LEMMA SaveOutcome ==
  ASSUME SInv, NEW r \in Run, NEW ok \in BOOLEAN, Save(r, ok)
  PROVE  /\ store' \in {store, [store EXCEPT ![IdOf[r]] = task[r].snap]}
         /\ \/ store'[IdOf[r]] = task[r].snap
            \/ ~ok /\ store'[IdOf[r]] = Stored(r)
<1>1. store \in [Id -> Snapshot \cup {NoSnapshot}] /\ IdOf[r] \in Id
  BY StepTypes DEF SInv, IInv, TypeOK
<1>2. QED
  BY <1>1 DEF Save, Stored

LEMMA SaveAtBooks ==
  ASSUME SInv, IInv', NEW r \in Run, NEW l,
         NEW onOk, NEW onError,
         SaveAt(r, l, onOk, onError),
         LedgerOK(r, onOk, calls[r], landed[r], inflight[r]),
         LedgerOK(r, onError, calls[r], landed[r], inflight[r]),
         StoredStatus(onOk, compensations[r], task[r].snap),
         StoredStatus(onError, compensations[r], task[r].snap),
         PrivateId(r) => StoredStatus(onError, compensations[r], Stored(r))
  PROVE  SInv'
<1>1. PICK ok \in BOOLEAN :
        /\ Save(r, ok)
        /\ task' = [task EXCEPT ![r] = IF ok THEN onOk ELSE onError]
  BY DEF SaveAt
<1>2. /\ store' \in {store, [store EXCEPT ![IdOf[r]] = task[r].snap]}
      /\ \/ store'[IdOf[r]] = task[r].snap
         \/ ~ok /\ store'[IdOf[r]] = Stored(r)
  BY <1>1, SaveOutcome
<1>3. /\ task'[r] = IF ok THEN onOk ELSE onError
      /\ \A q \in Run \ {r} : task'[q] = task[q]
  BY <1>1 DEF SInv, IInv, TypeOK
<1>4. UNCHANGED <<calls, inflight, landed, compensations>>
  BY DEF SaveAt, effectVars
<1>5. StoredTells(r, calls[r], task[r].snap)
  BY LedgerAt, SavedTells DEF LedgerOK
<1>6. LedgerOK(r, task'[r], calls'[r], landed'[r], inflight'[r])
  BY <1>3, <1>4
<1>7. PrivateId(r) =>
        /\ StoredTells(r, calls'[r], store'[IdOf[r]])
        /\ StoredStatus(task'[r], compensations'[r], store'[IdOf[r]])
  BY <1>2, <1>3, <1>4, <1>5, LedgerAt
<1>8. QED
  BY <1>2, <1>3, <1>4, <1>6, <1>7, OneRunBooks

LEMMA AuditAtBooks ==
  ASSUME SInv, IInv', NEW r \in Run, NEW l,
         NEW onOk, NEW onError,
         AuditAt(r, l, onOk, onError),
         LedgerOK(r, onOk, calls[r], landed[r], inflight[r]),
         LedgerOK(r, onError, calls[r], landed[r], inflight[r]),
         PrivateId(r) => /\ StoredStatus(onOk, compensations[r], Stored(r))
                         /\ StoredStatus(onError, compensations[r], Stored(r))
  PROVE  SInv'
<1>1. PICK ok \in BOOLEAN :
        task' = [task EXCEPT ![r] = IF ok THEN onOk ELSE onError]
  BY DEF AuditAt
<1>2. /\ task'[r] = IF ok THEN onOk ELSE onError
      /\ \A q \in Run \ {r} : task'[q] = task[q]
  BY <1>1 DEF SInv, IInv, TypeOK
<1>3. UNCHANGED <<store, calls, inflight, landed, compensations>>
  BY DEF AuditAt, effectVars
<1>4. LedgerOK(r, task'[r], calls'[r], landed'[r], inflight'[r])
  BY <1>2, <1>3
<1>5. PrivateId(r) =>
        /\ StoredTells(r, calls'[r], store'[IdOf[r]])
        /\ StoredStatus(task'[r], compensations'[r], store'[IdOf[r]])
  BY <1>2, <1>3, LedgerAt DEF Stored
<1>6. QED
  BY <1>2, <1>3, <1>4, <1>5, OneRunBooks

\* The frames of the failure paths: fail and compensate, or throw.
LEMMA FailBooks ==
  ASSUME SInv, NEW r \in Run, NEW e \in Error, NEW S,
         task[r].pc \in BeforeDone \cup AfterDone \cup Finishing
  PROVE  /\ LedgerOK(r, Fail(task[r], e), calls[r], landed[r], inflight[r])
         /\ StoredStatus(Fail(task[r], e), compensations[r], S)
<1>1. Fail(task[r], e).pc = "compensatingSave"
  BY LedgerAt DEF Fail, Task
<1>2. compensations[r] = <<>>
  BY NothingUndone DEF Forward
<1>3. QED
  BY <1>1, <1>2, LedgerAt, FailLedger, QuietStatus DEF AfterCompensation

LEMMA ThrowBooks ==
  ASSUME SInv, NEW r \in Run, NEW e \in {"save", "audit", "unknown"}, NEW S
  PROVE  /\ LedgerOK(r, Throw(task[r], e), calls[r], landed[r], inflight[r])
         /\ \/ compensations[r] = <<>>
            \/ S.status \in {"compensating", "failed"}
            => StoredStatus(Throw(task[r], e), compensations[r], S)
<1>1. Throw(task[r], e).pc = "rejected" /\ Throw(task[r], e).thrown = e
  BY LedgerAt DEF Throw, Task
<1>2. QED
  BY <1>1, LedgerAt, ThrowLedger DEF StoredStatus, AfterCompensation

\* Start, its refusal and the delay of a retry: nothing is saved.
LEMMA QuietBooks ==
  ASSUME SInv, IInv', NEW r \in Run, NEW u,
         task' = [task EXCEPT ![r] = u],
         UNCHANGED <<store, calls, inflight, landed, compensations>>,
         LedgerOK(r, u, calls[r], landed[r], inflight[r]),
         \A S : StoredStatus(u, compensations[r], S)
  PROVE  SInv'
<1>1. task'[r] = u /\ \A q \in Run \ {r} : task'[q] = task[q]
  BY DEF SInv, IInv, TypeOK
<1>2. PrivateId(r) => /\ StoredTells(r, calls'[r], store'[IdOf[r]])
                      /\ StoredStatus(task'[r], compensations'[r], store'[IdOf[r]])
  BY <1>1, LedgerAt DEF Stored
<1>3. QED
  BY <1>1, <1>2, OneRunBooks

LEMMA StartBooks ==
  ASSUME SInv, IInv', NEW r \in Run, Start(r)
  PROVE  SInv'
<1> DEFINE u == [task[r] EXCEPT !.pc = "startSave"]
<1>1. /\ task[r].pc = "idle" /\ task' = [task EXCEPT ![r] = u]
      /\ UNCHANGED <<store, calls, inflight, landed, compensations>>
  BY DEF Start, effectVars, SInv, IInv, TypeOK
<1>2. u.pc = "startSave" /\ u.snap = task[r].snap
  BY LedgerAt DEF Task
<1> HIDE DEF u
<1>3. LedgerOK(r, u, calls[r], landed[r], inflight[r])
  <2>1. CountOK(r, u, calls[r])
    BY <1>1, <1>2, LedgerAt DEF LedgerOK, CountOK, BeforeDone, AfterDone
  <2>2. StatusAdmits(u)
    BY <1>2 DEF StatusAdmits, AfterCompensation, Finishing
  <2>3. BudgetOK(r, u, calls[r])
    BY <1>2, LedgerAt DEF LedgerOK, BudgetOK
  <2>4. QED
    BY <1>2, <2>1, <2>2, <2>3, LedgerAt DEF LedgerOK
<1>4. compensations[r] = <<>>
  BY <1>1, NothingUndone DEF Forward
<1>5. QED
  BY <1>1, <1>2, <1>3, <1>4, QuietStatus, QuietBooks DEF AfterCompensation

LEMMA StartUnknownBooks ==
  ASSUME SInv, IInv', NEW r \in Run, StartUnknown(r)
  PROVE  SInv'
<1>1. /\ task[r].pc = "idle"
      /\ task' = [task EXCEPT ![r] = Throw(task[r], "unknown")]
      /\ UNCHANGED <<store, calls, inflight, landed, compensations>>
  BY DEF StartUnknown, effectVars
<1>2. compensations[r] = <<>>
  BY <1>1, NothingUndone DEF Forward
<1>3. QED
  BY <1>1, <1>2, ThrowBooks, QuietBooks

LEMMA StartSaveBooks ==
  ASSUME SInv, IInv', NEW r \in Run, StartSave(r)
  PROVE  SInv'
<1>1. task[r].pc = "startSave"
  BY DEF StartSave, SaveAt
<1>2. Goto(task[r], "startAudit").pc = "startAudit"
  BY LedgerAt DEF Goto, Task
<1>3. LedgerOK(r, Goto(task[r], "startAudit"), calls[r], landed[r], inflight[r])
  BY <1>1, LedgerAt, GotoLedger DEF Awaits, Settled
<1>4. compensations[r] = <<>>
  BY <1>1, NothingUndone DEF Forward, BeforeDone, AfterDone
<1>5. QED
  BY <1>1, <1>2, <1>3, <1>4, ThrowBooks, QuietStatus, SaveAtBooks
     DEF StartSave, Error, BeforeDone, AfterDone, AfterCompensation

LEMMA StartAuditBooks ==
  ASSUME SInv, IInv', NEW r \in Run, StartAudit(r)
  PROVE  SInv'
<1> DEFINE u == BeginStep(r, task[r], 1)
<1>1. task[r].pc = "startAudit"
  BY DEF StartAudit, AuditAt
<1>2. task[r].snap.completed = <<>>
  BY <1>1, LedgerAt DEF FrameOK, PlaceOK
<1>3. u.pc \in {"stepSave", "completedSave"}
  BY LedgerAt DEF BeginStep, Task
<1>4. LedgerOK(r, u, calls[r], landed[r], inflight[r])
  <2>1. 1 \in Nat \ {0} /\ 1 = Len(task[r].snap.completed) + 1
    BY <1>2
  <2>2. QED
    BY <1>1, <2>1, LedgerAt, BeginStepLedger
<1>5. compensations[r] = <<>>
  BY <1>1, NothingUndone DEF Forward
<1> HIDE DEF u
<1>6. \A S : StoredStatus(u, compensations[r], S)
  BY <1>3, <1>5, QuietStatus DEF AfterCompensation
<1>7. QED
  BY <1>4, <1>5, <1>6, ThrowBooks, AuditAtBooks DEF StartAudit, u

LEMMA StepSaveBooks ==
  ASSUME SInv, IInv', NEW r \in Run, StepSave(r)
  PROVE  SInv'
<1> DEFINE u == BeginAttempt(r, task[r], 1)
<1>1. task[r].pc = "stepSave"
  BY DEF StepSave, SaveAt
<1>2. u.pc = "attemptSave"
  BY LedgerAt DEF BeginAttempt, Task
<1>3. LedgerOK(r, u, calls[r], landed[r], inflight[r])
  <2>1. /\ task[r].at \in DOMAIN Steps(r)
        /\ 1 = calls[r][task[r].at] + 1
    BY <1>1, LedgerAt DEF FrameOK, PlaceOK, LedgerOK, CountOK, BeforeDone
  <2>2. 1 \in Nat /\ 1 <= MaxAttempts(StepAt(r, task[r].at))
    BY <2>1, StepTypes, MaxAttemptsType
  <2>3. QED
    BY <1>1, <2>1, <2>2, LedgerAt, BeginAttemptLedger DEF BeforeDone
<1>4. compensations[r] = <<>>
  BY <1>1, NothingUndone DEF Forward, BeforeDone
<1> HIDE DEF u
<1>5. \A S : StoredStatus(u, compensations[r], S)
  BY <1>2, <1>4, QuietStatus DEF AfterCompensation
<1>6. QED
  BY <1>1, <1>3, <1>5, FailBooks, SaveAtBooks DEF StepSave, u, BeforeDone, Error

LEMMA AttemptSaveBooks ==
  ASSUME SInv, IInv', NEW r \in Run, AttemptSave(r)
  PROVE  SInv'
<1> DEFINE t == task[r]
           u == [t EXCEPT !.pc = "execute"]
           d == [calls[r] EXCEPT ![t.at] = @ + 1]
<1>1. PICK ok \in BOOLEAN :
        /\ Save(r, ok)
        /\ task' = [task EXCEPT ![r] = IF ok THEN u ELSE Fail(t, "save")]
        /\ calls' = IF ok THEN [calls EXCEPT ![r][t.at] = @ + 1] ELSE calls
  BY DEF AttemptSave
<1>2. /\ t.pc = "attemptSave"
      /\ UNCHANGED <<inflight, landed, compensations>>
  BY DEF AttemptSave
<1>3. /\ store' \in {store, [store EXCEPT ![IdOf[r]] = t.snap]}
      /\ \/ store'[IdOf[r]] = t.snap
         \/ ~ok /\ store'[IdOf[r]] = Stored(r)
  BY <1>1, SaveOutcome
<1>4. /\ task'[r] = (IF ok THEN u ELSE Fail(t, "save"))
      /\ \A q \in Run \ {r} : task'[q] = task[q]
  BY <1>1 DEF SInv, IInv, TypeOK
<1>5. /\ calls'[r] = (IF ok THEN d ELSE calls[r])
      /\ \A q \in Run \ {r} : calls'[q] = calls[q]
  BY <1>1 DEF SInv, IInv, TypeOK
<1>6. compensations[r] = <<>> /\ u.pc = "execute"
  BY <1>2, NothingUndone, LedgerAt DEF Forward, BeforeDone, Task
<1>7. Tells(r, t.snap, d) /\ LedgerOK(r, u, d, landed[r], inflight[r])
  BY <1>2, LedgerAt, CalledLedger
<1>8. /\ LedgerOK(r, Fail(t, "save"), calls[r], landed[r], inflight[r])
      /\ \A S : StoredStatus(Fail(t, "save"), compensations[r], S)
  BY <1>2, FailBooks DEF BeforeDone, Error
<1>9. StoredTells(r, d, t.snap) /\ StoredTells(r, calls[r], t.snap)
  BY <1>7, LedgerAt, SavedTells DEF LedgerOK
<1> HIDE DEF u, d
<1>10. \A S : StoredStatus(u, compensations[r], S)
  BY <1>6, QuietStatus DEF AfterCompensation
<1>11. LedgerOK(r, task'[r], calls'[r], landed'[r], inflight'[r])
  BY <1>2, <1>4, <1>5, <1>7, <1>8
<1>12. PrivateId(r) =>
         /\ StoredTells(r, calls'[r], store'[IdOf[r]])
         /\ StoredStatus(task'[r], compensations'[r], store'[IdOf[r]])
  BY <1>2, <1>3, <1>4, <1>5, <1>8, <1>9, <1>10, LedgerAt
<1>13. QED
  BY <1>2, <1>3, <1>4, <1>5, <1>11, <1>12, OneRunBooks

\* An execution that ends: its frame u and the effects it leaves.
LEMMA ExecuteBooks ==
  ASSUME SInv, IInv', NEW r \in Run, NEW u, NEW L, NEW F,
         task[r].pc = "execute",
         task' = [task EXCEPT ![r] = u],
         landed' = [landed EXCEPT ![r] = L],
         inflight' = [inflight EXCEPT ![r] = F],
         UNCHANGED <<store, calls, compensations>>,
         LedgerOK(r, u, calls[r], L, F),
         u.pc \in BeforeDone \cup AfterDone
  PROVE  SInv'
<1>1. /\ task'[r] = u /\ landed'[r] = L /\ inflight'[r] = F
      /\ \A q \in Run \ {r} : /\ task'[q] = task[q]
                              /\ landed'[q] = landed[q]
                              /\ inflight'[q] = inflight[q]
  BY DEF SInv, IInv, TypeOK
<1>2. compensations[r] = <<>>
  BY NothingUndone DEF Forward, BeforeDone
<1>3. \A S : StoredStatus(u, compensations[r], S)
  BY <1>2, QuietStatus DEF BeforeDone, AfterDone, AfterCompensation
<1>4. PrivateId(r) => /\ StoredTells(r, calls'[r], store'[IdOf[r]])
                      /\ StoredStatus(task'[r], compensations'[r], store'[IdOf[r]])
  BY <1>1, <1>3, LedgerAt DEF Stored
<1>5. QED
  BY <1>1, <1>4, OneRunBooks

\* While execute runs, its step has been called.
LEMMA ExecutingIsCalled ==
  ASSUME NEW r \in Run, NEW t \in Task, NEW c, NEW L, NEW F, NEW C,
         FrameOK(r, t, L, C), LedgerOK(r, t, c, L, F), t.pc = "execute"
  PROVE  t.at \in DOMAIN Steps(r) /\ c[t.at] > 0
<1>1. t.at \in DOMAIN Steps(r) /\ t.attempt \in Nat
  BY DEF FrameOK, PlaceOK, BeforeDone, Task
<1>2. t.attempt = c[t.at] /\ t.attempt >= 1
  BY DEF LedgerOK, CountOK
<1>3. QED
  BY <1>1, <1>2

\* Effects of a called step may land or stay under way.
LEMMA MoreEffectsLedger ==
  ASSUME NEW r, NEW t, NEW c, NEW L, NEW F, NEW M, NEW G,
         LedgerOK(r, t, c, L, F), EffectsOK(r, c, M, G)
  PROVE  LedgerOK(r, t, c, M, G)
BY DEF LedgerOK

LEMMA AttemptFailedPlace ==
  ASSUME NEW r \in Run, NEW t \in Task
  PROVE  AttemptFailed(r, t).pc \in BeforeDone
BY DEF AttemptFailed, BeginAttempt, Task, BeforeDone

LEMMA ExecuteResolvesBooks ==
  ASSUME SInv, IInv', NEW r \in Run, ExecuteResolves(r)
  PROVE  SInv'
<1> DEFINE t == task[r]
           u == StepDone(r, t)
           L == landed[r] \cup {t.at}
<1>1. /\ t.pc = "execute" /\ task' = [task EXCEPT ![r] = u]
      /\ landed' = [landed EXCEPT ![r] = L]
      /\ UNCHANGED <<store, calls, inflight, compensations>>
  BY DEF ExecuteResolves
<1>2. LedgerOK(r, u, calls[r], L, inflight[r])
  BY <1>1, LedgerAt, StepDoneLedger
<1>3. u.pc \in AfterDone
  BY LedgerAt DEF StepDone, Task, AfterDone
<1>4. inflight' = [inflight EXCEPT ![r] = inflight[r]]
  BY <1>1 DEF SInv, IInv, TypeOK
<1> HIDE DEF u, L
<1>5. QED
  BY <1>1, <1>2, <1>3, <1>4, ExecuteBooks

LEMMA ExecuteRejectsBooks ==
  ASSUME SInv, IInv', NEW r \in Run, ExecuteRejects(r)
  PROVE  SInv'
<1> DEFINE t == task[r]
           u == AttemptFailed(r, t)
<1>1. PICK e \in SUBSET {t.at} : landed' = [landed EXCEPT ![r] = @ \cup e]
  BY DEF ExecuteRejects
<1> DEFINE L == landed[r] \cup e
<1>2. /\ t.pc = "execute" /\ task' = [task EXCEPT ![r] = u]
      /\ landed' = [landed EXCEPT ![r] = L]
      /\ UNCHANGED <<store, calls, inflight, compensations>>
  BY <1>1 DEF ExecuteRejects
<1>3. LedgerOK(r, u, calls[r], landed[r], inflight[r])
  BY <1>2, LedgerAt, AttemptFailedLedger
<1>4. EffectsOK(r, calls[r], L, inflight[r])
  BY <1>2, LedgerAt, ExecutingIsCalled DEF LedgerOK, EffectsOK
<1>5. u.pc \in BeforeDone
  BY LedgerAt, AttemptFailedPlace
<1>6. inflight' = [inflight EXCEPT ![r] = inflight[r]]
  BY <1>2 DEF SInv, IInv, TypeOK
<1> HIDE DEF u, L
<1>7. QED
  BY <1>2, <1>3, <1>4, <1>5, <1>6, MoreEffectsLedger, ExecuteBooks

LEMMA ExecuteTimesOutBooks ==
  ASSUME SInv, IInv', NEW r \in Run, ExecuteTimesOut(r)
  PROVE  SInv'
<1> DEFINE t == task[r]
           u == AttemptFailed(r, t)
           F == inflight[r] \cup {t.at}
<1>1. /\ t.pc = "execute" /\ task' = [task EXCEPT ![r] = u]
      /\ inflight' = [inflight EXCEPT ![r] = F]
      /\ UNCHANGED <<store, calls, landed, compensations>>
  BY DEF ExecuteTimesOut
<1>2. LedgerOK(r, u, calls[r], landed[r], inflight[r])
  BY <1>1, LedgerAt, AttemptFailedLedger
<1>3. EffectsOK(r, calls[r], landed[r], F)
  BY <1>1, LedgerAt, ExecutingIsCalled DEF LedgerOK, EffectsOK
<1>4. u.pc \in BeforeDone
  BY LedgerAt, AttemptFailedPlace
<1>5. landed' = [landed EXCEPT ![r] = landed[r]]
  BY <1>1 DEF SInv, IInv, TypeOK
<1> HIDE DEF u, F
<1>6. QED
  BY <1>1, <1>2, <1>3, <1>4, <1>5, MoreEffectsLedger, ExecuteBooks

LEMMA LateEffectBooks ==
  ASSUME SInv, IInv', NEW r \in Run, LateEffect(r)
  PROVE  SInv'
<1>1. PICK i \in inflight[r] :
        /\ landed' = [landed EXCEPT ![r] = @ \cup {i}]
        /\ inflight' = [inflight EXCEPT ![r] = @ \ {i}]
  BY DEF LateEffect
<1>2. UNCHANGED <<task, store, calls, compensations>>
  BY DEF LateEffect
<1>3. /\ landed'[r] = landed[r] \cup {i}
      /\ inflight'[r] = inflight[r] \ {i}
      /\ \A q \in Run \ {r} : /\ landed'[q] = landed[q]
                              /\ inflight'[q] = inflight[q]
  BY <1>1 DEF SInv, IInv, TypeOK
<1>4. EffectsOK(r, calls[r], landed'[r], inflight'[r])
  BY <1>3, LedgerAt DEF LedgerOK, EffectsOK
<1>5. LedgerOK(r, task[r], calls[r], landed'[r], inflight'[r])
  BY <1>4, LedgerAt DEF LedgerOK
<1>6. QED
  BY <1>2, <1>3, <1>5, LedgerAt, OneRunBooks DEF Stored

LEMMA RetryDelayBooks ==
  ASSUME SInv, IInv', NEW r \in Run, RetryDelay(r)
  PROVE  SInv'
<1> DEFINE t == task[r]
           n == t.attempt + 1
           u == BeginAttempt(r, t, n)
<1>1. /\ t.pc = "retryDelay" /\ task' = [task EXCEPT ![r] = u]
      /\ UNCHANGED <<store, calls, inflight, landed, compensations>>
  BY DEF RetryDelay, effectVars
<1>2. /\ t.at \in DOMAIN Steps(r) /\ t.attempt \in Nat
      /\ t.attempt = calls[r][t.at] /\ t.attempt < MaxAttempts(StepAt(r, t.at))
  BY <1>1, LedgerAt DEF FrameOK, PlaceOK, LedgerOK, CountOK, BeforeDone, Task
<1>3. n \in Nat /\ n = calls[r][t.at] + 1 /\ n <= MaxAttempts(StepAt(r, t.at))
  BY <1>2, StepTypes, MaxAttemptsType
<1>4. u.pc = "attemptSave"
  BY LedgerAt DEF BeginAttempt, Task
<1> HIDE DEF n
<1>5. LedgerOK(r, u, calls[r], landed[r], inflight[r])
  BY <1>1, <1>3, LedgerAt, BeginAttemptLedger DEF BeforeDone
<1>6. compensations[r] = <<>>
  BY <1>1, NothingUndone DEF Forward, BeforeDone
<1> HIDE DEF u
<1>7. QED
  BY <1>1, <1>4, <1>5, <1>6, QuietStatus, QuietBooks DEF AfterCompensation

LEMMA StepFailSaveBooks ==
  ASSUME SInv, IInv', NEW r \in Run, StepFailSave(r)
  PROVE  SInv'
<1> DEFINE u == Goto(task[r], "stepFailAudit")
<1>1. task[r].pc = "stepFailSave"
  BY DEF StepFailSave, SaveAt
<1>2. u.pc = "stepFailAudit"
  BY LedgerAt DEF Goto, Task
<1>3. LedgerOK(r, u, calls[r], landed[r], inflight[r])
  BY <1>1, LedgerAt, GotoLedger DEF Awaits
<1>4. compensations[r] = <<>>
  BY <1>1, NothingUndone DEF Forward, BeforeDone, AfterDone
<1> HIDE DEF u
<1>5. \A S : StoredStatus(u, compensations[r], S)
  BY <1>2, <1>4, QuietStatus DEF AfterCompensation
<1>6. QED
  BY <1>1, <1>3, <1>5, FailBooks, SaveAtBooks
     DEF StepFailSave, u, BeforeDone, AfterDone, Error

LEMMA StepDoneSaveBooks ==
  ASSUME SInv, IInv', NEW r \in Run, StepDoneSave(r)
  PROVE  SInv'
<1> DEFINE u == Goto(task[r], "stepDoneAudit")
<1>1. task[r].pc = "stepDoneSave"
  BY DEF StepDoneSave, SaveAt
<1>2. u.pc = "stepDoneAudit"
  BY LedgerAt DEF Goto, Task
<1>3. LedgerOK(r, u, calls[r], landed[r], inflight[r])
  BY <1>1, LedgerAt, GotoLedger DEF Awaits
<1>4. compensations[r] = <<>>
  BY <1>1, NothingUndone DEF Forward, BeforeDone, AfterDone
<1> HIDE DEF u
<1>5. \A S : StoredStatus(u, compensations[r], S)
  BY <1>2, <1>4, QuietStatus DEF AfterCompensation
<1>6. QED
  BY <1>1, <1>3, <1>5, FailBooks, SaveAtBooks
     DEF StepDoneSave, u, BeforeDone, AfterDone, Error

LEMMA StepFailAuditBooks ==
  ASSUME SInv, IInv', NEW r \in Run, StepFailAudit(r)
  PROVE  SInv'
<1>1. task[r].pc = "stepFailAudit"
  BY DEF StepFailAudit, AuditAt
<1>2. \A e \in Error :
        /\ LedgerOK(r, Fail(task[r], e), calls[r], landed[r], inflight[r])
        /\ \A S : StoredStatus(Fail(task[r], e), compensations[r], S)
  BY <1>1, FailBooks DEF BeforeDone
<1>3. QED
  BY <1>2, AuditAtBooks DEF StepFailAudit, Error

LEMMA StepDoneAuditBooks ==
  ASSUME SInv, IInv', NEW r \in Run, StepDoneAudit(r)
  PROVE  SInv'
<1> DEFINE i == task[r].at + 1
           u == BeginStep(r, task[r], i)
<1>1. task[r].pc = "stepDoneAudit"
  BY DEF StepDoneAudit, AuditAt
<1>2. /\ task[r].at \in Nat /\ i \in Nat \ {0}
      /\ i = Len(task[r].snap.completed) + 1
  BY <1>1, LedgerAt DEF FrameOK, PlaceOK, AfterDone, Task
<1>3. u.pc \in {"stepSave", "completedSave"}
  BY LedgerAt DEF BeginStep, Task
<1> HIDE DEF i
<1>4. LedgerOK(r, u, calls[r], landed[r], inflight[r])
  BY <1>1, <1>2, LedgerAt, BeginStepLedger
<1>5. compensations[r] = <<>>
  BY <1>1, NothingUndone DEF Forward, AfterDone
<1> HIDE DEF u
<1>6. \A S : StoredStatus(u, compensations[r], S)
  BY <1>3, <1>5, QuietStatus DEF AfterCompensation
<1>7. QED
  BY <1>1, <1>4, <1>6, FailBooks, AuditAtBooks
     DEF StepDoneAudit, u, i, AfterDone, Error

LEMMA CompletedSaveBooks ==
  ASSUME SInv, IInv', NEW r \in Run, CompletedSave(r)
  PROVE  SInv'
<1> DEFINE u == Goto(task[r], "completedAudit")
<1>1. task[r].pc = "completedSave"
  BY DEF CompletedSave, SaveAt
<1>2. u.pc = "completedAudit"
  BY LedgerAt DEF Goto, Task
<1>3. LedgerOK(r, u, calls[r], landed[r], inflight[r])
  BY <1>1, LedgerAt, GotoLedger DEF Awaits
<1>4. compensations[r] = <<>>
  BY <1>1, NothingUndone DEF Forward, Finishing
<1>5. task[r].snap.status = "completed"
  BY <1>1, LedgerAt DEF LedgerOK, StatusAdmits, Finishing
<1> HIDE DEF u
<1>6. StoredStatus(u, compensations[r], task[r].snap)
  BY <1>2, <1>4, <1>5 DEF StoredStatus, AfterCompensation
<1>7. QED
  BY <1>1, <1>3, <1>6, FailBooks, SaveAtBooks DEF CompletedSave, u, Finishing, Error

LEMMA CompletedAuditBooks ==
  ASSUME SInv, IInv', NEW r \in Run, CompletedAudit(r)
  PROVE  SInv'
<1> DEFINE u == Goto(task[r], "resolved")
<1>1. task[r].pc = "completedAudit"
  BY DEF CompletedAudit, AuditAt
<1>2. u.pc = "resolved"
  BY LedgerAt DEF Goto, Task
<1>3. LedgerOK(r, u, calls[r], landed[r], inflight[r])
  BY <1>1, LedgerAt, GotoLedger DEF Settled
<1>4. compensations[r] = <<>>
  BY <1>1, NothingUndone DEF Forward, Finishing
<1> HIDE DEF u
<1>5. PrivateId(r) => StoredStatus(u, compensations[r], Stored(r))
  BY <1>1, <1>2, <1>4, LedgerAt DEF StoredStatus, AfterCompensation
<1>6. QED
  BY <1>1, <1>3, <1>5, FailBooks, AuditAtBooks DEF CompletedAudit, u, Finishing, Error

\* What the compensation goes on with, once the store admits it.
LEMMA CompensateBelowBooks ==
  ASSUME SInv, NEW r \in Run, NEW i \in Nat,
         task[r].snap.status = "compensating"
  PROVE  LET u == CompensateBelow(r, task[r], i)
         IN  /\ LedgerOK(r, u, calls[r], landed[r], inflight[r])
             /\ \A S : S.status \in {"compensating", "failed"} =>
                   StoredStatus(u, compensations[r], S)
<1> DEFINE u == CompensateBelow(r, task[r], i)
<1>1. LedgerOK(r, u, calls[r], landed[r], inflight[r])
  BY LedgerAt, CompensateBelowLedger
<1>2. u.pc \in {"compensate", "failedSave"}
  BY LedgerAt DEF CompensateBelow, Task
<1> HIDE DEF u
<1>3. \A S : S.status \in {"compensating", "failed"} =>
        StoredStatus(u, compensations[r], S)
  BY <1>2 DEF StoredStatus
<1>4. QED
  BY <1>1, <1>3 DEF u

LEMMA CompensatingSaveBooks ==
  ASSUME SInv, IInv', NEW r \in Run, CompensatingSave(r)
  PROVE  SInv'
<1> DEFINE i == Len(Steps(r)) + 1
           u == CompensateBelow(r, task[r], i)
<1>1. task[r].pc = "compensatingSave" /\ i \in Nat
  BY StepTypes DEF CompensatingSave, SaveAt
<1>2. task[r].snap.status = "compensating"
  BY <1>1, LedgerAt DEF LedgerOK, StatusAdmits
<1>3. compensations[r] = <<>>
  BY <1>1, NothingUndone DEF Forward
<1> HIDE DEF i
<1>4. /\ LedgerOK(r, u, calls[r], landed[r], inflight[r])
      /\ StoredStatus(u, compensations[r], task[r].snap)
  BY <1>1, <1>2, CompensateBelowBooks
<1> HIDE DEF u
<1>5. QED
  BY <1>3, <1>4, ThrowBooks, SaveAtBooks DEF CompensatingSave, u, i

LEMMA CompensateBooks ==
  ASSUME SInv, IInv', NEW r \in Run, Compensate(r)
  PROVE  SInv'
<1> DEFINE t == task[r]
<1>1. /\ t.pc = "compensate"
      /\ UNCHANGED <<store, calls, inflight, landed>>
      /\ \A q \in Run \ {r} : compensations'[q] = compensations[q]
  BY DEF Compensate, effectVars, SInv, IInv, TypeOK
<1>2. PICK l \in AfterCompensation : task' = [task EXCEPT ![r].pc = l]
  BY DEF Compensate, AfterCompensation
<1> DEFINE u == [t EXCEPT !.pc = l]
<1>3. task'[r] = u /\ \A q \in Run \ {r} : task'[q] = task[q]
  BY <1>2 DEF SInv, IInv, TypeOK
<1>4. LedgerOK(r, u, calls[r], landed[r], inflight[r])
  BY <1>1, LedgerAt, CompensatedLedger
<1>5. u.pc = l
  BY LedgerAt DEF Task
<1> HIDE DEF u
<1>6. PrivateId(r) => StoredStatus(u, compensations'[r], Stored(r))
  BY <1>1, <1>5, LedgerAt DEF StoredStatus, AfterCompensation
<1>7. PrivateId(r) => /\ StoredTells(r, calls'[r], store'[IdOf[r]])
                      /\ StoredStatus(task'[r], compensations'[r], store'[IdOf[r]])
  BY <1>1, <1>3, <1>6, LedgerAt DEF Stored
<1>8. LedgerOK(r, task'[r], calls'[r], landed'[r], inflight'[r])
  BY <1>1, <1>3, <1>4
<1>9. QED
  BY <1>1, <1>3, <1>7, <1>8, OneRunBooks

LEMMA CompDoneAuditBooks ==
  ASSUME SInv, IInv', NEW r \in Run, CompDoneAudit(r)
  PROVE  SInv'
<1> DEFINE u == CompensateBelow(r, task[r], task[r].at)
           v == Goto(task[r], "compFailAudit")
<1>1. task[r].pc = "compDoneAudit" /\ task[r].at \in Nat
  BY LedgerAt DEF CompDoneAudit, AuditAt, Task
<1>2. task[r].snap.status = "compensating"
  BY <1>1, LedgerAt DEF LedgerOK, StatusAdmits, AfterCompensation
<1>3. PrivateId(r) => Stored(r).status \in {"compensating", "failed"}
  BY <1>1, LedgerAt DEF StoredStatus, AfterCompensation
<1>4. /\ LedgerOK(r, u, calls[r], landed[r], inflight[r])
      /\ PrivateId(r) => StoredStatus(u, compensations[r], Stored(r))
  BY <1>1, <1>2, <1>3, CompensateBelowBooks
<1>5. v.pc = "compFailAudit"
  BY LedgerAt DEF Goto, Task
<1>6. LedgerOK(r, v, calls[r], landed[r], inflight[r])
  BY <1>1, LedgerAt, GotoLedger DEF Awaits
<1> HIDE DEF u, v
<1>7. PrivateId(r) => StoredStatus(v, compensations[r], Stored(r))
  BY <1>3, <1>5 DEF StoredStatus
<1>8. QED
  BY <1>4, <1>6, <1>7, AuditAtBooks DEF CompDoneAudit, u, v

LEMMA CompFailAuditBooks ==
  ASSUME SInv, IInv', NEW r \in Run, CompFailAudit(r)
  PROVE  SInv'
<1> DEFINE u == CompensateBelow(r, task[r], task[r].at)
<1>1. task[r].pc = "compFailAudit" /\ task[r].at \in Nat
  BY LedgerAt DEF CompFailAudit, AuditAt, Task
<1>2. task[r].snap.status = "compensating"
  BY <1>1, LedgerAt DEF LedgerOK, StatusAdmits, AfterCompensation
<1>3. PrivateId(r) => Stored(r).status \in {"compensating", "failed"}
  BY <1>1, LedgerAt DEF StoredStatus, AfterCompensation
<1>4. /\ LedgerOK(r, u, calls[r], landed[r], inflight[r])
      /\ PrivateId(r) => StoredStatus(u, compensations[r], Stored(r))
  BY <1>1, <1>2, <1>3, CompensateBelowBooks
<1> HIDE DEF u
<1>5. QED
  BY <1>3, <1>4, ThrowBooks, AuditAtBooks DEF CompFailAudit, u

LEMMA FailedSaveBooks ==
  ASSUME SInv, IInv', NEW r \in Run, FailedSave(r)
  PROVE  SInv'
<1> DEFINE u == Goto(task[r], "failedAudit")
<1>1. task[r].pc = "failedSave"
  BY DEF FailedSave, SaveAt
<1>2. u.pc = "failedAudit"
  BY LedgerAt DEF Goto, Task
<1>3. LedgerOK(r, u, calls[r], landed[r], inflight[r])
  BY <1>1, LedgerAt, GotoLedger DEF Awaits
<1>4. task[r].snap.status = "failed"
  BY <1>1, LedgerAt DEF LedgerOK, StatusAdmits
<1>5. PrivateId(r) => Stored(r).status \in {"compensating", "failed"}
  BY <1>1, LedgerAt DEF StoredStatus
<1> HIDE DEF u
<1>6. StoredStatus(u, compensations[r], task[r].snap)
  BY <1>2, <1>4 DEF StoredStatus
<1>7. QED
  BY <1>3, <1>4, <1>5, <1>6, ThrowBooks, SaveAtBooks DEF FailedSave, u

LEMMA FailedAuditBooks ==
  ASSUME SInv, IInv', NEW r \in Run, FailedAudit(r)
  PROVE  SInv'
<1> DEFINE u == Throw(task[r], task[r].cause)
<1>1. task[r].pc = "failedAudit"
  BY DEF FailedAudit, AuditAt
<1>2. u.pc = "rejected"
  BY LedgerAt DEF Throw, Task
<1>3. task[r].snap.status = "failed"
  BY <1>1, LedgerAt DEF LedgerOK, StatusAdmits
<1>4. LedgerOK(r, u, calls[r], landed[r], inflight[r])
  BY <1>3, LedgerAt, ThrowLedger
<1>5. PrivateId(r) => Stored(r).status = "failed"
  BY <1>1, LedgerAt DEF StoredStatus
<1> HIDE DEF u
<1>6. PrivateId(r) => StoredStatus(u, compensations[r], Stored(r))
  BY <1>2, <1>5 DEF StoredStatus
<1>7. QED
  BY <1>4, <1>5, <1>6, ThrowBooks, AuditAtBooks DEF FailedAudit, u

LEMMA RegisterBooks ==
  ASSUME SInv, IInv', NEW w \in Name, Register(w)
  PROVE  SInv'
<1>1. UNCHANGED <<task, store, calls, inflight, landed, compensations>>
  BY DEF Register, effectVars
<1>2. LedgerInv'
  BY <1>1 DEF SInv, LedgerInv, Stored, PrivateId
<1>3. QED
  BY <1>2 DEF SInv

LEMMA CrashBooks ==
  ASSUME SInv, IInv', Crash
  PROVE  SInv'
<1>1. UNCHANGED <<store, calls, landed, compensations>>
  BY DEF Crash
<1>2. ASSUME NEW r \in Run
      PROVE  /\ LedgerOK(r, task'[r], calls[r], landed[r], inflight'[r])
             /\ PrivateId(r) =>
                  StoredStatus(task'[r], compensations[r], Stored(r))
  <2> DEFINE G == inflight[r] \cup
                    (IF task[r].pc = "execute" THEN {task[r].at} ELSE {})
             u == [task[r] EXCEPT !.pc = "crashed"]
  <2>1. inflight'[r] = G /\ task'[r] = IF Active(r) THEN u ELSE task[r]
    BY DEF Crash
  <2>2. EffectsOK(r, calls[r], landed[r], G)
    BY LedgerAt, ExecutingIsCalled DEF LedgerOK, EffectsOK
  <2>3. u.pc = "crashed" /\ LedgerOK(r, u, calls[r], landed[r], G)
    BY <2>2, LedgerAt, CrashLedger DEF Task
  <2>4. LedgerOK(r, task[r], calls[r], landed[r], G)
    BY <2>2, LedgerAt, MoreEffectsLedger
  <2> HIDE DEF u, G
  <2>5. PrivateId(r) => StoredStatus(u, compensations[r], Stored(r))
    BY <2>3, LedgerAt DEF StoredStatus, AfterCompensation
  <2>6. QED
    BY <2>1, <2>3, <2>4, <2>5, LedgerAt
<1>3. LedgerInv'
  BY <1>1, <1>2, LedgerAt DEF LedgerInv, Stored, PrivateId
<1>4. QED
  BY <1>3 DEF SInv

LEMMA RunStepBooks ==
  ASSUME SInv, IInv', NEW r \in Run, RunStep(r)
  PROVE  SInv'
<1>1. CASE Start(r)
  BY <1>1, StartBooks
<1>2. CASE StartUnknown(r)
  BY <1>2, StartUnknownBooks
<1>3. CASE ExecuteResolves(r)
  BY <1>3, ExecuteResolvesBooks
<1>4. CASE ExecuteRejects(r)
  BY <1>4, ExecuteRejectsBooks
<1>5. CASE LateEffect(r)
  BY <1>5, LateEffectBooks
<1>6. CASE EngineStep(r)
  BY <1>6, StartSaveBooks, StartAuditBooks, StepSaveBooks, AttemptSaveBooks,
     ExecuteTimesOutBooks, RetryDelayBooks, StepFailSaveBooks,
     StepFailAuditBooks, StepDoneSaveBooks, StepDoneAuditBooks,
     CompletedSaveBooks, CompletedAuditBooks, CompensatingSaveBooks,
     CompensateBooks, CompDoneAuditBooks, CompFailAuditBooks,
     FailedSaveBooks, FailedAuditBooks
     DEF EngineStep
<1>7. QED
  BY <1>1, <1>2, <1>3, <1>4, <1>5, <1>6 DEF RunStep

LEMMA InitBooks == Init => SInv
<1> SUFFICES ASSUME Init PROVE SInv
  OBVIOUS
<1>1. ASSUME NEW r \in Run
      PROVE  /\ task[r].pc = "idle" /\ task[r].snap = NewSnapshot
             /\ landed[r] = {} /\ inflight[r] = {} /\ compensations[r] = <<>>
             /\ \A i \in DOMAIN Steps(r) : calls[r][i] = 0
  BY StepTypes DEF Init
<1>2. ASSUME NEW r \in Run
      PROVE  /\ LedgerOK(r, task[r], calls[r], landed[r], inflight[r])
             /\ StoredTells(r, calls[r], Stored(r))
             /\ StoredStatus(task[r], compensations[r], Stored(r))
  <2>1. Tells(r, task[r].snap, calls[r])
    BY <1>1, StepTypes DEF Tells, NewSnapshot
  <2>2. CountOK(r, task[r], calls[r])
    BY <1>1 DEF CountOK, BeforeDone, AfterDone
  <2>3. StatusAdmits(task[r])
    BY <1>1 DEF StatusAdmits, AfterCompensation, Finishing
  <2>4. BudgetOK(r, task[r], calls[r])
    <3>1. \A i \in DOMAIN Steps(r) :
            /\ MaxAttempts(StepAt(r, i)) \in Nat
            /\ StepAt(r, i).name # NoStep
      BY StepTypes, MaxAttemptsType, WorkflowAssumption
    <3>2. task[r].snap.failed = NoStep
      BY <1>1 DEF NewSnapshot
    <3>3. QED
      BY <1>1, <3>1, <3>2 DEF BudgetOK
  <2>5. EffectsOK(r, calls[r], landed[r], inflight[r])
    BY <1>1 DEF EffectsOK
  <2>6. StoredTells(r, calls[r], Stored(r))
    BY <1>1 DEF StoredTells
  <2>7. StoredStatus(task[r], compensations[r], Stored(r))
    BY <1>1 DEF StoredStatus, AfterCompensation
  <2>8. QED
    BY <2>1, <2>2, <2>3, <2>4, <2>5, <2>6, <2>7 DEF LedgerOK
<1>3. QED
  BY <1>2, InitIInv DEF SInv, LedgerInv

LEMMA NextBooks ==
  ASSUME SInv, [Next]_vars
  PROVE  SInv'
<1>1. IInv'
  BY NextIInv DEF SInv
<1>2. CASE \E w \in Name : Register(w)
  BY <1>1, <1>2, RegisterBooks
<1>3. CASE \E r \in Run : RunStep(r)
  BY <1>1, <1>3, RunStepBooks
<1>4. CASE Crash
  BY <1>1, <1>4, CrashBooks
<1>5. CASE UNCHANGED vars
  BY <1>1, <1>5 DEF SInv, LedgerInv, Stored, PrivateId, vars, engineVars, effectVars
<1>6. QED
  BY <1>2, <1>3, <1>4, <1>5 DEF Next

\* The invariant of the calls, the effects and the store holds throughout
\* every behaviour of the engine.
THEOREM StoreInductive == Spec => []SInv
<1>1. Init => SInv
  BY InitBooks
<1>2. SInv /\ [Next]_vars => SInv'
  BY NextBooks
<1>3. QED
  BY <1>1, <1>2, PTL DEF Spec

-----------------------------------------------------------------------------
(* What follows from the invariant.                                        *)

\* What repairs a crashed run needs is in the store, and what the caller was
\* told is true, whatever the workflows, runs, identifiers and faults are.
THEOREM StoreTellsTheTruth == Spec => []StoreIsTruthful
<1>1. SInv => StoreCountsCalls
  <2>1. SUFFICES ASSUME SInv, NEW r \in Run, PrivateId(r),
                        NEW i \in DOMAIN Steps(r), calls[r][i] > 0
                 PROVE  /\ Stored(r) # NoSnapshot
                        /\ Stored(r).attempts[StepAt(r, i).name] >= calls[r][i]
    BY DEF StoreCountsCalls
  <2>2. calls[r][i] \in Nat
    BY <2>1, LedgerAt, StepTypes DEF Counts
  <2>3. Stored(r) # NoSnapshot /\ Tells(r, Stored(r), calls[r])
    BY <2>1, <2>2, LedgerAt DEF StoredTells
  <2>4. Stored(r) \in Snapshot
    BY <2>1, <2>3, StepTypes DEF SInv, IInv, TypeOK, Stored
  <2>5. Stored(r).attempts[StepAt(r, i).name] \in Nat
    BY <2>1, <2>4, StepTypes DEF Snapshot
  <2>6. QED
    BY <2>1, <2>2, <2>3, <2>5 DEF Tells
<1>2. SInv => StoreLocatesEffects
  <2>1. SUFFICES ASSUME SInv, NEW r \in Run, PrivateId(r),
                        Stored(r).status # "failed", NEW i \in landed[r]
                 PROVE  Names(r, Stored(r), i)
    BY DEF StoreLocatesEffects, Names
  <2>2. i \in DOMAIN Steps(r) /\ calls[r][i] > 0
    BY <2>1, LedgerAt DEF LedgerOK, EffectsOK
  <2>3. calls[r][i] \in Nat
    BY <2>1, <2>2, LedgerAt, StepTypes DEF Counts
  <2>4. Tells(r, Stored(r), calls[r])
    BY <2>1, <2>2, <2>3, LedgerAt DEF StoredTells
  <2>5. QED
    BY <2>1, <2>2, <2>4 DEF Tells
<1>3. SInv => StoreAdmitsCompensation
  BY LedgerAt DEF StoreAdmitsCompensation, StoredStatus
<1>4. SInv => RetryBudget
  BY LedgerAt DEF RetryBudget, LedgerOK, BudgetOK
<1>5. SInv => HonestOutcome
  <2>1. SUFFICES ASSUME SInv, NEW r \in Run
                 PROVE  /\ task[r].pc = "resolved" =>
                             /\ DOMAIN Steps(r) \subseteq landed[r]
                             /\ compensations[r] = <<>>
                             /\ PrivateId(r) => Stored(r).status = "completed"
                        /\ task[r].pc = "rejected" /\ task[r].thrown = "step" =>
                             /\ task[r].snap.status = "failed"
                             /\ PrivateId(r) => Stored(r).status = "failed"
    BY DEF HonestOutcome
  <2>2. task[r].pc = "resolved" => DOMAIN Steps(r) \subseteq landed[r]
    BY <2>1, LedgerAt, StepTypes DEF FrameOK, PlaceOK, PrefixOK
  <2>3. task[r].pc = "resolved" => compensations[r] = <<>>
    BY <2>1, NothingUndone DEF Forward
  <2>4. QED
    BY <2>1, <2>2, <2>3, LedgerAt DEF LedgerOK, StatusAdmits, StoredStatus
<1>6. SInv => StoreIsTruthful
  BY <1>1, <1>2, <1>3, <1>4, <1>5 DEF StoreIsTruthful
<1>7. QED
  BY <1>6, StoreInductive, PTL

\* Every step but a late effect changes one run only.
LEMMA OnlyThatRunMoves ==
  ASSUME TypeOK, NEW q \in Run, NEW r \in Run, q # r, RunStep(q)
  PROVE  /\ task'[r] = task[r] /\ calls'[r] = calls[r]
         /\ compensations'[r] = compensations[r] /\ landed'[r] = landed[r]
<1>1. \/ task' = task
      \/ \E u : task' = [task EXCEPT ![q] = u]
  BY DEF RunStep, Start, StartUnknown, ExecuteResolves,
     ExecuteRejects, LateEffect, EngineStep, StartSave, StartAudit, StepSave,
     AttemptSave, ExecuteTimesOut, RetryDelay, StepFailSave,
     StepFailAudit, StepDoneSave, StepDoneAudit, CompletedSave,
     CompletedAudit, CompensatingSave, Compensate, CompDoneAudit,
     CompFailAudit, FailedSave, FailedAudit, SaveAt, AuditAt
<1>2. calls' = calls \/ \E u : calls' = [calls EXCEPT ![q] = u]
  BY DEF RunStep, Start, StartUnknown, ExecuteResolves,
     ExecuteRejects, LateEffect, EngineStep, StartSave, StartAudit, StepSave,
     AttemptSave, ExecuteTimesOut, RetryDelay, StepFailSave,
     StepFailAudit, StepDoneSave, StepDoneAudit, CompletedSave,
     CompletedAudit, CompensatingSave, Compensate, CompDoneAudit,
     CompFailAudit, FailedSave, FailedAudit, SaveAt, AuditAt, effectVars
<1>3. /\ \/ compensations' = compensations
         \/ \E u : compensations' = [compensations EXCEPT ![q] = u]
      /\ landed' = landed \/ \E u : landed' = [landed EXCEPT ![q] = u]
  BY DEF RunStep, Start, StartUnknown, ExecuteResolves,
     ExecuteRejects, LateEffect, EngineStep, StartSave, StartAudit, StepSave,
     AttemptSave, ExecuteTimesOut, RetryDelay, StepFailSave,
     StepFailAudit, StepDoneSave, StepDoneAudit, CompletedSave,
     CompletedAudit, CompensatingSave, Compensate, CompDoneAudit,
     CompFailAudit, FailedSave, FailedAudit, SaveAt, AuditAt, effectVars
<1>4. QED
  BY <1>1, <1>2, <1>3 DEF TypeOK

\* A run that settled or died is not touched again: no call, no compensation,
\* no frame; only an execution abandoned half-way may still take effect.
THEOREM SettlementIsFinal == Spec => NothingAfterSettlement
<1> DEFINE Still == \A r \in Run : task[r].pc \in Settled \cup {"crashed"} =>
                      /\ calls'[r] = calls[r]
                      /\ compensations'[r] = compensations[r]
                      /\ task'[r] = task[r]
                      /\ landed'[r] \ landed[r] \subseteq inflight[r]
<1>1. TypeOK /\ Next => Still
  <2> SUFFICES ASSUME TypeOK, Next, NEW r \in Run,
                      task[r].pc \in Settled \cup {"crashed"}
               PROVE  /\ calls'[r] = calls[r]
                      /\ compensations'[r] = compensations[r]
                      /\ task'[r] = task[r]
                      /\ landed'[r] \ landed[r] \subseteq inflight[r]
    OBVIOUS
  <2>1. CASE \E w \in Name : Register(w)
    BY <2>1 DEF Register, effectVars
  <2>2. CASE \E q \in Run : LateEffect(q)
    <3>1. PICK q \in Run : LateEffect(q)
      BY <2>2
    <3>1a. PICK i \in inflight[q] : landed' = [landed EXCEPT ![q] = @ \cup {i}]
      BY <3>1 DEF LateEffect
    <3>1b. UNCHANGED <<task, calls, compensations>>
      BY <3>1 DEF LateEffect
    <3>2. landed'[r] = IF q = r THEN landed[r] \cup {i} ELSE landed[r]
      BY <3>1a DEF TypeOK
    <3>3. QED
      BY <3>1a, <3>1b, <3>2
  <2>3. CASE \E q \in Run : RunStep(q) /\ ~LateEffect(q)
    <3>1. PICK q \in Run : RunStep(q) /\ ~LateEffect(q)
      BY <2>3
    <3>2. task[q].pc \in Awaits \cup {"idle"}
      BY <3>1 DEF RunStep, Start, StartUnknown, ExecuteResolves,
         ExecuteRejects, EngineStep, StartSave, StartAudit, StepSave,
         AttemptSave, ExecuteTimesOut, RetryDelay, StepFailSave,
         StepFailAudit, StepDoneSave, StepDoneAudit, CompletedSave,
         CompletedAudit, CompensatingSave, Compensate, CompDoneAudit,
         CompFailAudit, FailedSave, FailedAudit, SaveAt, AuditAt, Awaits
    <3>3. q # r
      BY <3>2 DEF Awaits, Settled
    <3>4. /\ task'[r] = task[r] /\ calls'[r] = calls[r]
          /\ compensations'[r] = compensations[r] /\ landed'[r] = landed[r]
      BY <3>1, <3>3, OnlyThatRunMoves
    <3>5. QED
      BY <3>4
  <2>4. CASE Crash
    BY <2>4 DEF Crash, Active, Awaits, Settled
  <2>5. QED
    BY <2>1, <2>2, <2>3, <2>4 DEF Next
<1>2. TypeOK /\ [Next]_vars => [Still]_vars
  BY <1>1
<1>3. Spec => [][Still]_vars
  BY <1>2, TypeCorrect, PTL DEF Spec
<1>4. QED
  BY <1>3 DEF NothingAfterSettlement
===============================================================================
