------------------------------ MODULE MCWorkflow ------------------------------
(***************************************************************************)
(* Instances of the workflow engine for TLC: two runs of the engine alone, *)
(* with a crash, or a saga handle whose run() is called twice.             *)
(***************************************************************************)
EXTENDS SagaHandle, TLC

CONSTANTS r1, r2, r3, r4, pay, ship, mail, none, absent

MCStep(n, a, timed, delayed, comp) ==
  [name |-> n, attempts |-> a, timed |-> timed, delayed |-> delayed,
   compensable |-> comp]

\* A retried step with a timeout, one without a handler, one without a limit
\* on its run time; "twice" repeats a step name and must not be registered.
MCOrder == <<MCStep(pay, 2, TRUE, TRUE, TRUE),
             MCStep(ship, 0, TRUE, FALSE, FALSE),
             MCStep(mail, 2, FALSE, FALSE, TRUE)>>
MCTwice == <<MCStep(pay, 1, FALSE, FALSE, TRUE),
             MCStep(pay, 1, FALSE, FALSE, TRUE)>>
MCSolo == <<MCStep(mail, 1, FALSE, FALSE, TRUE)>>
MCBrief == <<MCStep(pay, 1, TRUE, FALSE, TRUE),
             MCStep(ship, 2, TRUE, TRUE, TRUE)>>

\* What the handle runs.
MCSingle == <<MCStep(pay, 1, FALSE, FALSE, TRUE)>>

MCName == {"order", "twice", "brief", "solo", "single"}
MCStepsOf == [w \in MCName |-> CASE w = "order" -> MCOrder
                                 [] w = "twice" -> MCTwice
                                 [] w = "brief" -> MCBrief
                                 [] w = "solo" -> MCSolo
                                 [] w = "single" -> MCSingle]
MCIdOf == (r1 :> "a") @@ (r2 :> "b") @@ (r3 :> "c") @@ (r4 :> "c")
MCSingles == (r3 :> "single") @@ (r4 :> "single")
MCOrderAndTwice == (r1 :> "order") @@ (r2 :> "twice") @@ MCSingles
MCBriefAndSolo == (r1 :> "brief") @@ (r2 :> "solo") @@ MCSingles

VARIABLE scenario
mcVars == <<scenario, vars, handleVars>>

\* The runs of a scenario: only they start, and only their workflows register.
Mine == IF scenario = "engine" THEN {r1, r2} ELSE {r3, r4}
OnlyMine ==
  /\ \A r \in Run \ Mine : task'[r] = task[r]
  /\ registered' \subseteq {WorkflowOf[r] : r \in Mine}

\* Bounds of the second scenario.  The second call is made when start is over
\* for the first, whose catch block may still wait for the store; and the audit
\* trail does not fail these runs, as the store, the step and its handler may.
OneStart == caller[r4] # "idle" => caller[r3] # "idle" /\ ~Active(r3)
Audited == \A r \in {r3, r4} : "audit" \notin {task[r].cause, task[r].thrown}

MCInit == HandleInit /\ scenario \in {"engine", "handle"}
MCNext ==
  /\ UNCHANGED scenario
  /\ \/ scenario = "engine" /\ Next /\ UNCHANGED handleVars
     \/ scenario = "handle" /\ HandleNext /\ OneStart' /\ Audited'
  /\ OnlyMine

MCSpec == MCInit /\ [][MCNext]_mcVars
MCFairSpec == MCSpec /\ \A r \in Run : WF_vars(TimerStep(r))
===============================================================================
