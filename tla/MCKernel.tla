------------------------------- MODULE MCKernel -------------------------------
(***************************************************************************)
(* The parts of the kernel that share no state, in one run: the projection *)
(* registry (the constants of the cfg), the saga handle, the dependency    *)
(* graph's cycle search, and the composed kernel.  Only the scenario's     *)
(* part moves.                                                             *)
(***************************************************************************)
EXTENDS Projections, TLC

CONSTANTS e1, e2, e3, orders, totals,
          r1, r2, pay, mail, none, absent, n1, n2, n3, bare

MCDefinitions == <<orders, totals>>
MCListens == [p \in {orders, totals} |-> IF p = orders THEN {e1, e2, e3} ELSE {e1, e2}]

VARIABLES scenario,
  workflows, subscribed, task, store, crashes, calls, inflight, landed, compensations,
  handle, caller, found, overlap,
  nodes, edges,
  intents, relations, drawn, contracts, history, flows, dropped, call, defined

projectionVars == <<registered, state, applied, apply, clears, clearing, overlapped, saved, torn>>
engineVars == <<workflows, subscribed, task, store, crashes, calls, inflight, landed, compensations>>
handleVars == <<handle, caller, found, overlap>>
graphVars == <<nodes, edges>>
kernelVars == <<intents, relations, drawn, contracts, history, flows, dropped, call, defined>>
mcVars == <<scenario, projectionVars, engineVars, handleVars, graphVars, kernelVars>>

\* One handle, run twice: a compensable step, then one without a handler.
SagaStep(n, comp) ==
  [name |-> n, attempts |-> 1, timed |-> FALSE, delayed |-> FALSE, compensable |-> comp]
SagaSteps == [w \in {"order"} |-> <<SagaStep(pay, TRUE), SagaStep(mail, FALSE)>>]
Handle == INSTANCE SagaHandle WITH
  Name <- {"order"}, StepName <- {pay, mail}, StepsOf <- SagaSteps, Triggered <- {},
  Run <- {r1, r2}, WorkflowOf <- (r1 :> "order") @@ (r2 :> "order"), ByEvent <- {},
  Id <- {"a"}, IdOf <- (r1 :> "a") @@ (r2 :> "a"),
  Faults <- {"step", "compensate", "save"}, MaxCrashes <- 0,
  NoStep <- none, NoSnapshot <- absent, registered <- workflows

Graph == INSTANCE FlowGraph WITH
  Node <- {n1, n2, n3}, Kind <- {"declared", "observed"}, MaxEdges <- 4

\* Two layers, one of them with peer isolation; "bare" has a prefix and no layer.
Layers == (n1 :> "Domain") @@ (n2 :> "Adapter") @@ (bare :> "none")
Prefixes == (n1 :> "Domain") @@ (n2 :> "Adapter") @@ (bare :> "Adapter")
Rel(from, kind, to) == [from |-> from, to |-> to, kind |-> kind]
\* Each kind of relationship: forbidden, forbidden for a name by its prefix, and allowed.
Relations == {Rel(n1, "dependsOn", n2), Rel(bare, "dependsOn", n2), Rel(n2, "dependsOn", n1),
              Rel(n1, "produces", n2), Rel(n2, "produces", bare), Rel(bare, "produces", n1)}
Composed == INSTANCE Kernel WITH
  Name <- {n1, n2, bare}, NamePrefix <- Prefixes, LayerOf <- Layers, NoLayer <- "none", Unknown <- n3,
  Rules <- {[from |-> "Domain", to |-> "Adapter", allowed |-> FALSE, peer |-> FALSE],
            [from |-> "Adapter", to |-> "Adapter", allowed |-> FALSE, peer |-> TRUE]},
  Strict <- TRUE, MaxHistory <- 2, Publisher <- {1}, Declarable <- Relations, MaxRelations <- 1,
  MaxContracts <- 1, MaxEdges <- 2, edges <- drawn

MCInit ==
  /\ Init /\ Handle!HandleInit /\ Graph!Init /\ Composed!Init
  /\ scenario \in {"projections", "handle", "graph", "kernel"}
MCNext ==
  /\ UNCHANGED scenario
  /\ \/ /\ scenario = "projections" /\ Next
        /\ UNCHANGED <<engineVars, handleVars, graphVars, kernelVars>>
     \/ /\ scenario = "handle" /\ Handle!HandleNext
        /\ UNCHANGED <<projectionVars, graphVars, kernelVars>>
     \/ /\ scenario = "graph" /\ Graph!Next
        /\ UNCHANGED <<projectionVars, engineVars, handleVars, kernelVars>>
     \/ /\ scenario = "kernel" /\ Composed!Next
        /\ UNCHANGED <<projectionVars, engineVars, handleVars, graphVars>>
MCSpec == MCInit /\ [][MCNext]_mcVars

\* Records and drift report of the composed kernel (createArkKernel.ts), what a
\* forbidden dependency stops, but for one that comes between the judgement of a
\* publish and its record, and the graph's own violations: every tangle is
\* named, and nothing else (DependencyGraph.ts:148).  A handle of two steps that
\* is run twice, at any two moments, is truthful (Saga.ts:303).
KernelRecordsAreSound ==
  [](scenario = "graph" => Graph!CyclesAreNamed)
    /\ [](scenario = "handle" => Handle!HandleIsTruthful)
    /\ [](scenario = "kernel" => Composed!TypeOK /\ Composed!RecordsAreLawful /\ Composed!ReportIsHonest)
    /\ [][scenario = "kernel" => Composed!LawfulStep]_mcVars
=============================================================================
