-------------------------------- MODULE Kernel --------------------------------
(***************************************************************************)
(* createArkKernel (src/src/kernel/runtime): the intent registry, the      *)
(* dependency graph, the event contracts, the layer policy and the drift   *)
(* report of one kernel, wired to one event bus.  A publish takes a turn   *)
(* for its guards, one for the last contract check, one in which it is     *)
(* judged and leaves its edge, and one in which it is recorded: anything   *)
(* may be called between two.  Its other awaits are the subject of         *)
(* EventBus.                                                               *)
(***************************************************************************)
EXTENDS Naturals, FiniteSets, SequencesExt, TLC

CONSTANTS
  Name,            \* intent names
  NamePrefix,      \* NamePrefix[n]: the text before the first dot
  LayerOf,         \* LayerOf[n]: profile.resolveLayer, or NoLayer
  NoLayer,
  Unknown,         \* the source of an event nobody signed
  Rules,           \* of the profile: records [from, to, allowed, peer]
  Strict,          \* strictEventContracts and a hard observed flow
  MaxHistory,      \* maxHistorySize
  Publisher,       \* bound: publishes under way at one time
  Declarable,      \* bound: the relationships the program may declare
  MaxRelations,    \* bound: relationships declared at one time
  MaxContracts,    \* bound: contracts registered at one time
  MaxEdges         \* bound: edges of the graph

VARIABLES
  intents,     \* the registered names
  relations,   \* declared relationships: records [from, to, kind]
  edges,       \* of the dependency graph
  contracts,   \* contracts[n]: "none", "valid" or "deprecated"
  history,     \* the recorded publishes, oldest first
  call,        \* call[p]: the publish p has under way
  defined,     \* every name ever defined (history variable)
  flows,       \* every flow ever recorded (history variable)
  dropped      \* a record was dropped by the cap or a clear (history variable)
registry == <<intents, relations, defined>>
records == <<history, flows, dropped>>
vars == <<registry, edges, contracts, records, call>>

\* late: what forbids the flow and came between judgement and record (history).
Idle == [pc |-> "idle"]
Under(pc, from, to, late) == [pc |-> pc, from |-> from, to |-> to, late |-> late]

Init ==
  /\ intents = {} /\ relations = {} /\ edges = {} /\ defined = {}
  /\ contracts = [n \in Name |-> "none"]
  /\ call = [p \in Publisher |-> Idle]
  /\ history = <<>> /\ flows = {} /\ dropped = FALSE

Flow(from, to) == [from |-> from, to |-> to]
EdgeKind(rel) == IF rel.kind = "dependsOn" THEN "declared" ELSE "produces"
EdgeOf(rel) == [from |-> rel.from, to |-> rel.to, kind |-> EdgeKind(rel)]

\* defineLayerPolicy: the profile's rules on what is declared, a name without a
\* layer counting as its prefix, and without an exception for one layer.
PolicyLayer(n) == IF LayerOf[n] = NoLayer THEN NamePrefix[n] ELSE LayerOf[n]
RelationDenied(r) ==
  \E rule \in Rules : rule.from = PolicyLayer(r.from) /\ rule.to = PolicyLayer(r.to) /\ ~rule.allowed

\* The forbidden dependencies there are: declared, synced or not, or left in the
\* graph by a registry that was cleared.  What arrives while a judged publish
\* waits to be recorded is noted with it.
Forbidden ==
  {d \in {r \in relations : r.kind = "dependsOn"} \cup {e \in edges : e.kind # "observed"} :
     RelationDenied(d)}
Overtake ==
  call' = [p \in Publisher |->
             IF call[p].pc = "judged" THEN [call[p] EXCEPT !.late = @ \cup (Forbidden' \ Forbidden)]
                                      ELSE call[p]]

(***************************************************************************)
(* The registry: a name is defined once, with its relationships; others    *)
(* are declared later, about any name.                                     *)
(***************************************************************************)
Relation == [from : Name, to : Name, kind : {"dependsOn", "produces"}]

Define(n, declared) ==
  /\ n \notin intents
  /\ \A r \in declared : r.from = n
  /\ intents' = intents \cup {n}
  /\ relations' = relations \cup declared
  /\ defined' = defined \cup {n}
  /\ UNCHANGED <<edges, contracts, records>>
  /\ Overtake

Declare(rel) ==
  /\ relations' = relations \cup {rel}
  /\ UNCHANGED <<intents, defined, edges, contracts, records>>
  /\ Overtake

\* registry.clear: the graph is not told.
ClearRegistry ==
  /\ intents' = {} /\ relations' = {}
  /\ UNCHANGED <<defined, edges, contracts, records, call>>

RegisterContract(n, state) ==
  /\ contracts[n] = "none"
  /\ contracts' = [contracts EXCEPT ![n] = state]
  /\ UNCHANGED <<registry, edges, records, call>>

\* syncRegistryToGraph, also the first thing manifest() does.
SyncGraph ==
  /\ edges' = edges \cup {EdgeOf(r) : r \in {r \in relations : r.to \in intents}}
  /\ UNCHANGED <<registry, contracts, records>>
  /\ Overtake

(***************************************************************************)
(* What a publish is checked against.                                      *)
(***************************************************************************)
IntentAllowed(n) == n \in intents
SourceAllowed(s) == s # Unknown /\ s \in intents
ContractAllowed(n) == contracts[n] = "valid" \/ (contracts[n] = "none" /\ ~Strict)

\* findDeniedEdgeRule, asked without paths: peer isolation denies.
RuleDenies(rule, from, to) ==
  /\ rule.from = from /\ rule.to = to /\ ~rule.allowed
  /\ rule.peer \/ from # to
FlowDenied(source, n) ==
  /\ LayerOf[source] # NoLayer /\ LayerOf[n] # NoLayer
  /\ \E rule \in Rules : RuleDenies(rule, LayerOf[source], LayerOf[n])

\* Mutant: the policy looks at the graph alone, which lags behind the registry.
JudgedInGraph(graph) == {e \in graph : e.kind \in {"declared", "produces"}}
Judged(graph) ==
  {e \in graph : e.kind \in {"declared", "produces"}} \cup {r \in relations : r.kind = "dependsOn"}
PolicyRejects(graph) == \E r \in Judged(graph) : RelationDenied(r)

Capped(records_) == IF Len(records_) > MaxHistory THEN Tail(records_) ELSE records_

Guarded(source, n) == IntentAllowed(n) /\ SourceAllowed(source) /\ ContractAllowed(n)

\* A publish goes from one turn to the next, or ends.
Turn(p, next) == call' = [call EXCEPT ![p] = next]

\* The guards, up to the interceptors.
Publish(p, source, n) ==
  /\ call[p] = Idle /\ Guarded(source, n)
  /\ Turn(p, Under("interceptors", source, n, {}))
  /\ UNCHANGED <<registry, edges, contracts, records>>

\* The contract once more, then the layers: a flow refused here leaves nothing.
Recheck(p) ==
  LET c == call[p]
  IN  /\ c.pc = "interceptors"
      /\ Turn(p, IF ContractAllowed(c.to) /\ ~(Strict /\ FlowDenied(c.from, c.to))
                   THEN [c EXCEPT !.pc = "flow"] ELSE Idle)
      /\ UNCHANGED <<registry, edges, contracts, records>>

\* The edge is left, also when a policy then rejects the publish.
Judge(p) ==
  LET c == call[p]
  IN  /\ c.pc = "flow"
      /\ edges' = edges \cup {Flow(c.from, c.to) @@ [kind |-> "observed"]}
      /\ Turn(p, IF PolicyRejects(edges') THEN Idle ELSE [c EXCEPT !.pc = "judged"])
      /\ UNCHANGED <<registry, contracts, records>>

\* Nothing is asked again before the record.
Record(p) ==
  LET flow == Flow(call[p].from, call[p].to)
  IN  /\ call[p].pc = "judged"
      /\ history' = Capped(Append(history, flow))
      /\ flows' = flows \cup {flow}
      /\ dropped' = (dropped \/ Len(history) = MaxHistory)
      /\ Turn(p, Idle)
      /\ UNCHANGED <<registry, edges, contracts>>

\* The test harness, and clearHistory of the bus.
ClearHistory ==
  /\ history' = <<>>
  /\ dropped' = (dropped \/ history # <<>>)
  /\ UNCHANGED <<registry, edges, contracts, flows, call>>

Bounded ==
  /\ Cardinality(relations') <= MaxRelations /\ Cardinality(edges') <= MaxEdges
  /\ Cardinality({n \in Name : contracts'[n] # "none"}) <= MaxContracts

Next ==
  /\ \/ \E n \in Name : \E declared \in {{}} \cup {{r} : r \in Declarable} :
          Define(n, declared)
     \/ \E rel \in Declarable : Declare(rel)
     \/ ClearRegistry
     \/ \E n \in Name, state \in {"valid", "deprecated"} : RegisterContract(n, state)
     \/ SyncGraph
     \/ \E p \in Publisher, s \in Name \cup {Unknown}, n \in Name : Publish(p, s, n)
     \/ \E p \in Publisher : Recheck(p) \/ Judge(p) \/ Record(p)
     \/ ClearHistory
  /\ Bounded
Spec == Init /\ [][Next]_vars

(***************************************************************************)
(* createObservabilityReporter: history first, the graph when it is empty. *)
(***************************************************************************)
DeclaredProductions ==
  LET fromRegistry == {Flow(r.from, r.to) : r \in {r \in relations : r.kind = "produces"}}
  IN IF fromRegistry # {} THEN fromRegistry
     ELSE {Flow(e.from, e.to) : e \in {e \in edges : e.kind = "produces"}}
ObservedProductions ==
  IF history # <<>> THEN ToSet(history)
  ELSE {Flow(e.from, e.to) : e \in {e \in edges : e.kind = "observed"}}
DeclaredButUnobserved == DeclaredProductions \ ObservedProductions
ObservedButUndeclared == {f \in ObservedProductions : f.from # Unknown} \ DeclaredProductions
NeverObserved == intents \ UNION {{f.from, f.to} : f \in ObservedProductions}

-----------------------------------------------------------------------------
\* Records, edges and relationships keep their shape (type invariant).
TypeOK ==
  /\ intents \subseteq Name /\ relations \subseteq Relation
  /\ edges \subseteq [from : Name, to : Name, kind : {"declared", "produces", "observed"}]
  /\ contracts \in [Name -> {"none", "valid", "deprecated"}]
  /\ \A p \in Publisher :
       call[p] = Idle \/ /\ call[p].pc \in {"interceptors", "flow", "judged"}
                         /\ {call[p].from, call[p].to} \subseteq Name
  /\ history \in BoundedSeq([from : Name, to : Name], MaxHistory)

\* What is recorded was seen by the graph, was allowed by the layer rules, and
\* its signer and its intent are names that were defined once: through clears of
\* the registry, also under a publish, caps and clears of the history.
RecordsAreLawful ==
  \A f \in flows :
    /\ [from |-> f.from, to |-> f.to, kind |-> "observed"] \in edges
    /\ {f.from, f.to} \subseteq defined
    /\ Strict => ~FlowDenied(f.from, f.to)

\* The drift report never calls a flow unobserved that the history still has,
\* and as long as nothing was dropped from the history it calls unobserved
\* exactly what was never recorded.
ReportIsHonest ==
  /\ DeclaredButUnobserved \cap ToSet(history) = {}
  /\ ~dropped /\ history # <<>> =>
       /\ ObservedProductions = flows
       /\ NeverObserved \cap UNION {{f.from, f.to} : f \in flows} = {}

\* A publish is recorded only when each forbidden dependency there is came after
\* it was judged, while it waited for the audit of a soft violation or a hook
\* (EventBus.ts:234): declared before, synced or not, or left in the graph by a
\* registry that was cleared, it stops every publish.
LawfulStep ==
  history' \notin {history, <<>>} \/ flows' # flows =>
    \E p \in Publisher :
      /\ call[p].pc # "idle" /\ call'[p] = Idle
      /\ Last(history') = Flow(call[p].from, call[p].to)
      /\ Forbidden \subseteq call[p].late
=============================================================================
