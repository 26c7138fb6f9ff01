------------------------------- MODULE EventBus -------------------------------
(***************************************************************************)
(* The event bus and its publish pipeline (src/kernel/event-bus):          *)
(* guards, interceptors, contract re-check, observed layer flow, policy,   *)
(* history and event buffer, handlers, onPublish hook.                     *)
(*                                                                         *)
(* Publishes overlap.  Each is a frame that moves from await to await;     *)
(* between two awaits the code runs without interruption, and at every     *)
(* await the other publishes, the handlers and whoever (un)subscribes,     *)
(* (un)registers interceptors or registers contracts may run.  Audit       *)
(* records and hooks never fail a publish (recordAudit, safeHook), so they *)
(* appear here as awaits without an outcome; the trace is left out.        *)
(***************************************************************************)
EXTENDS Integers, Sequences, FiniteSets, SequencesExt

CONSTANTS
  Call,              \* calls of publish
  Intent,            \* intent names
  Unknown,           \* the source of an event that names none
  Handler,           \* subscriptions
  Interceptor,       \* interceptor registrations
  Key,               \* payload keys
  IntentOf,          \* the intent of a call, handler or interceptor
  SourceOf,          \* SourceOf[c]: metadata.source of call c
  PayloadOf,         \* PayloadOf[c]: the keys of the payload c is called with
  Raw,               \* calls that pass an event object, not a creator
  Sealed,            \* calls with allowInterception = false
  Registered,        \* intents of the intent registry
  Contracts,         \* Contracts[i]: the versions of i's contract, each as the
                     \* set of payloads it accepts, in order of registration
  Patches,           \* what an interceptor may pass to intercept, in order
  StrictContracts,   \* strictEventContracts
  RequireKnownSource,
  DeniedFlow,        \* <<source, intent>> pairs the layer rules deny
  FlowMode,          \* enforceObservedLayerFlow
  HardEdges,         \* graph edges a hard publish policy forbids
  SoftIntents,       \* intents a soft publish policy objects to
  Rethrow,           \* rethrowHandlerErrors
  MaxHistory,        \* maxHistorySize
  Faults             \* what may fail: a subset of FaultKinds

FaultKinds == {"interceptor", "enqueue", "handler"}

ASSUME EventBusAssumption ==
  /\ Unknown \notin Intent
  /\ IntentOf \in [Call \cup Handler \cup Interceptor -> Intent]
  /\ SourceOf \in [Call -> Intent \cup {Unknown}]
  /\ PayloadOf \in [Call -> SUBSET Key]
  /\ Raw \subseteq Call /\ Sealed \subseteq Call /\ Registered \subseteq Intent
  /\ Contracts \in [Intent -> Seq(SUBSET SUBSET Key)]
  /\ Patches \subseteq Seq(SUBSET Key)
  /\ {StrictContracts, RequireKnownSource, Rethrow} \subseteq BOOLEAN
  /\ FlowMode \in {"off", "soft", "hard"}
  /\ MaxHistory \in Nat
  /\ Faults \subseteq FaultKinds

VARIABLES
  subscriptions,  \* the subscribed handlers
  interceptors,   \* interceptors[i]: those registered for intent i, in order
  contracts,      \* contracts[i]: how many versions of i's contract are registered
  graph,          \* observed edges of the dependency graph
  history,        \* the capped publish history
  buffer,         \* calls handed to the event buffer, in order
  frame,          \* frame[c]: the stack frame of publish call c
  delivery,       \* delivery[c][h]: how far handler h is with the event of c
  hooked,         \* calls whose onPublish hook was invoked (history)
  offered,        \* offered[c][i]: keys interceptor i offered to c (history)
  recorded        \* calls put in the history since it was cleared (history)

registries == <<subscriptions, interceptors, contracts>>
records == <<graph, history, buffer, recorded>>
vars == <<registries, records, frame, delivery, hooked, offered>>

-----------------------------------------------------------------------------

Awaits == {"rawAudit", "interceptor", "interceptorAudit", "flow", "hardAudit",
           "softAudit", "softHook", "policy", "enqueue", "enqueueFails",
           "publishedAudit", "handlers", "onPublish"}

Reasons == {"none", "intent", "source", "contract", "lateContract", "flow",
            "policy", "enqueue", "handler"}

\* chain: interceptors still to settle; applied: metadata.interceptions;
\* matching: the handlers to notify; entered: the contract version in force
\* when the event passed the guards (history).
Frame == [pc : Awaits \cup {"idle", "resolved", "rejected"},
          payload : SUBSET Key, chain : Seq(Interceptor),
          applied : Seq(Interceptor), matching : SUBSET Handler,
          entered : Nat, why : Reasons]

Progress == {"none", "running", "failing", "done", "thrown"}

Edge(c) == <<SourceOf[c], IntentOf[c]>>

\* assertContractAllowed on a payload of call c.
ContractAllows(c, payload) ==
  LET i == IntentOf[c]
  IN  IF contracts[i] = 0 THEN ~StrictContracts
                          ELSE payload \in Contracts[i][contracts[i]]

\* applyPayloadPatch: patches fill missing keys and never overwrite.
Overwrites(payload, ps) ==
  \E k \in DOMAIN ps :
    ps[k] \cap (payload \cup UNION {ps[j] : j \in 1 .. k - 1}) # {}

Keys(ps) == UNION Range(ps)

\* assertObservedLayerFlowAllowed throws.
FlowRejected(c) ==
  FlowMode = "hard" /\ SourceOf[c] # Unknown /\ Edge(c) \in DeniedFlow

Goto(f, l) == [f EXCEPT !.pc = l]
Reject(f, e) == [f EXCEPT !.pc = "rejected", !.why = e]

\* The frame after the guards: intent, source, contract; then interceptors.
Guarded(c, f) ==
  CASE IntentOf[c] \notin Registered -> Reject(f, "intent")
    [] /\ IntentOf[c] \in Registered /\ RequireKnownSource
       /\ SourceOf[c] \notin Registered -> Reject(f, "source")
    [] OTHER ->
         IF ContractAllows(c, f.payload)
           THEN [f EXCEPT !.pc = "interceptor", !.entered = contracts[IntentOf[c]],
                          !.chain = IF c \in Sealed THEN <<>> ELSE interceptors[IntentOf[c]]]
           ELSE Reject(f, "contract")

Move(c, f) == frame' = [frame EXCEPT ![c] = f]

-----------------------------------------------------------------------------
(* publish, up to the handlers.                                            *)

Publish(c) ==
  /\ frame[c].pc = "idle"
  /\ Move(c, IF c \in Raw THEN Goto(frame[c], "rawAudit")
                          ELSE Guarded(c, frame[c]))
  /\ UNCHANGED <<registries, records, delivery, hooked, offered>>

RawAudit(c) ==
  /\ frame[c].pc = "rawAudit"
  /\ Move(c, Guarded(c, frame[c]))
  /\ UNCHANGED <<registries, records, delivery, hooked, offered>>

\* Mutant: patches are applied to the event one by one, so that those before
\* an overwriting one stay.
InterceptorSettlesPiecemeal(c) ==
  LET f == frame[c]
      i == Head(f.chain)
  IN  /\ f.pc = "interceptor" /\ f.chain # <<>>
      /\ \E ps \in Patches :
           /\ offered' = [offered EXCEPT ![c][i] = Keys(ps)]
           /\ Move(c, CASE ps = <<>> -> [f EXCEPT !.chain = Tail(@)]
                        [] Overwrites(f.payload, ps) ->
                             [f EXCEPT !.pc = "interceptorAudit",
                                       !.payload = @ \cup ps[1]]
                        [] OTHER ->
                             [f EXCEPT !.pc = "interceptorAudit",
                                       !.payload = @ \cup Keys(ps),
                                       !.applied = Append(@, i)])
      /\ UNCHANGED <<registries, records, delivery, hooked>>

\* The interceptor resolved: its patches are applied all together, or, when
\* one overwrites a key or the result breaks the contract, not at all.
InterceptorSettles(c) ==
  LET f == frame[c]
      i == Head(f.chain)
  IN  /\ f.pc = "interceptor" /\ f.chain # <<>>
      /\ \E ps \in Patches :
           /\ offered' = [offered EXCEPT ![c][i] = Keys(ps)]
           /\ Move(c, CASE ps = <<>> -> [f EXCEPT !.chain = Tail(@)]
                        [] /\ ps # <<>>
                           /\ \/ Overwrites(f.payload, ps)
                              \/ ~ContractAllows(c, f.payload \cup Keys(ps)) ->
                             Goto(f, "interceptorAudit")
                        [] OTHER ->
                             [f EXCEPT !.pc = "interceptorAudit",
                                       !.payload = @ \cup Keys(ps),
                                       !.applied = Append(@, i)])
      /\ UNCHANGED <<registries, records, delivery, hooked>>

\* The interceptor threw: the event goes on as it was.
InterceptorThrows(c) ==
  /\ frame[c].pc = "interceptor" /\ frame[c].chain # <<>>
  /\ "interceptor" \in Faults
  /\ Move(c, Goto(frame[c], "interceptorAudit"))
  /\ UNCHANGED <<registries, records, delivery, hooked, offered>>

InterceptorAudit(c) ==
  /\ frame[c].pc = "interceptorAudit"
  /\ Move(c, [frame[c] EXCEPT !.pc = "interceptor", !.chain = Tail(@)])
  /\ UNCHANGED <<registries, records, delivery, hooked, offered>>

\* After the last interceptor the contract in force by now is checked again.
EndInterception(c) ==
  LET f == frame[c]
  IN  /\ f.pc = "interceptor" /\ f.chain = <<>>
      /\ Move(c, IF ContractAllows(c, f.payload) THEN Goto(f, "flow")
                                                 ELSE Reject(f, "lateContract"))
      /\ UNCHANGED <<registries, records, delivery, hooked, offered>>

\* Layer flow, graph edge, snapshot of the subscribers and evaluation of the
\* policies, which see the edge just recorded: one turn.
Flow(c) ==
  LET f == frame[c]
      edges == graph \cup {Edge(c)}
      matching == {h \in subscriptions : IntentOf[h] = IntentOf[c]}
  IN  /\ f.pc = "flow"
      /\ IF FlowRejected(c)
           THEN Move(c, Reject(f, "flow")) /\ UNCHANGED graph
           ELSE /\ graph' = edges
                /\ Move(c, [f EXCEPT !.matching = matching,
                              !.pc = CASE edges \cap HardEdges # {} -> "hardAudit"
                                       [] /\ edges \cap HardEdges = {}
                                          /\ IntentOf[c] \in SoftIntents -> "softAudit"
                                       [] OTHER -> "policy"])
      /\ UNCHANGED <<registries, history, buffer, recorded, delivery, hooked,
                     offered>>

HardAudit(c) ==
  /\ frame[c].pc = "hardAudit"
  /\ Move(c, Reject(frame[c], "policy"))
  /\ UNCHANGED <<registries, records, delivery, hooked, offered>>

SoftAudit(c) ==
  /\ frame[c].pc = "softAudit"
  /\ Move(c, Goto(frame[c], "softHook"))
  /\ UNCHANGED <<registries, records, delivery, hooked, offered>>

\* appendHistory: the newest MaxHistory records are kept.
Capped(log) ==
  IF Len(log) > MaxHistory THEN SubSeq(log, Len(log) - MaxHistory + 1, Len(log))
                           ELSE log

\* History first, then the event buffer, in one turn; an injected buffer may
\* refuse the event, before or after it stored it.
Record(c) ==
  LET f == frame[c]
      entry == [call |-> c, notified |-> Cardinality(f.matching)]
  IN  /\ f.pc \in {"policy", "softHook"}
      /\ history' = Capped(Append(history, entry))
      /\ recorded' = Append(recorded, c)
      /\ \/ /\ buffer' = Append(buffer, c)
            /\ Move(c, Goto(f, "enqueue"))
         \/ /\ "enqueue" \in Faults
            /\ buffer' \in {buffer, Append(buffer, c)}
            /\ Move(c, Goto(f, "enqueueFails"))
      /\ UNCHANGED <<registries, graph, delivery, hooked, offered>>

Enqueued(c) ==
  /\ frame[c].pc \in {"enqueue", "enqueueFails"}
  /\ Move(c, IF frame[c].pc = "enqueue" THEN Goto(frame[c], "publishedAudit")
                                        ELSE Reject(frame[c], "enqueue"))
  /\ UNCHANGED <<registries, records, delivery, hooked, offered>>

-----------------------------------------------------------------------------
(* Handlers and the onPublish hook.                                        *)

\* Mutant: the subscribers are looked up when they are called.
StartHandlersLookup(c) ==
  /\ frame[c].pc = "publishedAudit"
  /\ delivery' = [delivery EXCEPT ![c] = [h \in Handler |->
       IF h \in subscriptions /\ IntentOf[h] = IntentOf[c] THEN "running"
                                                           ELSE "none"]]
  /\ Move(c, Goto(frame[c], "handlers"))
  /\ UNCHANGED <<registries, records, hooked, offered>>

\* All matching handlers are called in one turn, none awaited before another.
StartHandlers(c) ==
  /\ frame[c].pc = "publishedAudit"
  /\ delivery' = [delivery EXCEPT ![c] =
       [h \in Handler |-> IF h \in frame[c].matching THEN "running" ELSE "none"]]
  /\ Move(c, Goto(frame[c], "handlers"))
  /\ UNCHANGED <<registries, records, hooked, offered>>

Advance(c, h, from, to) ==
  /\ delivery[c][h] = from
  /\ delivery' = [delivery EXCEPT ![c][h] = to]
  /\ UNCHANGED <<registries, records, frame, hooked, offered>>

HandlerResolves(c, h) == Advance(c, h, "running", "done")

HandlerRejects(c, h) ==
  "handler" \in Faults /\ Advance(c, h, "running", "failing")

\* The error is traced, audited and given to onHandlerError, then dropped or
\* rethrown.
HandlerErrorHandled(c, h) ==
  Advance(c, h, "failing", IF Rethrow THEN "thrown" ELSE "done")

\* Mutant: Promise.allSettled in place of Promise.all.
HandlersSettleAll(c) ==
  /\ frame[c].pc = "handlers"
  /\ \A h \in Handler : delivery[c][h] \notin {"running", "failing"}
  /\ IF \E h \in Handler : delivery[c][h] = "thrown"
       THEN Move(c, Reject(frame[c], "handler")) /\ UNCHANGED hooked
       ELSE Move(c, Goto(frame[c], "onPublish")) /\ hooked' = hooked \cup {c}
  /\ UNCHANGED <<registries, records, delivery, offered>>

\* Promise.all: the first rethrown error rejects publish while the other
\* handlers go on; otherwise all must settle before onPublish is called.
HandlersSettle(c) ==
  /\ frame[c].pc = "handlers"
  /\ \/ /\ \E h \in Handler : delivery[c][h] = "thrown"
        /\ Move(c, Reject(frame[c], "handler"))
        /\ UNCHANGED hooked
     \/ /\ \A h \in Handler : delivery[c][h] \in {"none", "done"}
        /\ Move(c, Goto(frame[c], "onPublish"))
        /\ hooked' = hooked \cup {c}
  /\ UNCHANGED <<registries, records, delivery, offered>>

OnPublish(c) ==
  /\ frame[c].pc = "onPublish"
  /\ Move(c, Goto(frame[c], "resolved"))
  /\ UNCHANGED <<registries, records, delivery, hooked, offered>>

-----------------------------------------------------------------------------
(* What the rest of the program does to the bus, at any time.              *)

Subscribe(h) ==
  /\ h \notin subscriptions
  /\ IntentOf[h] \in Registered
  /\ subscriptions' = subscriptions \cup {h}
  /\ UNCHANGED <<interceptors, contracts, records, frame, delivery, hooked,
                 offered>>

Unsubscribe(h) ==
  /\ h \in subscriptions
  /\ subscriptions' = subscriptions \ {h}
  /\ UNCHANGED <<interceptors, contracts, records, frame, delivery, hooked,
                 offered>>

RegisterInterceptor(i) ==
  /\ i \notin Range(interceptors[IntentOf[i]])
  /\ IntentOf[i] \in Registered
  /\ interceptors' = [interceptors EXCEPT ![IntentOf[i]] = Append(@, i)]
  /\ UNCHANGED <<subscriptions, contracts, records, frame, delivery, hooked,
                 offered>>

UnregisterInterceptor(i) ==
  /\ \E k \in DOMAIN interceptors[IntentOf[i]] :
       /\ interceptors[IntentOf[i]][k] = i
       /\ interceptors' = [interceptors EXCEPT ![IntentOf[i]] = RemoveAt(@, k)]
  /\ UNCHANGED <<subscriptions, contracts, records, frame, delivery, hooked,
                 offered>>

\* A newly registered version of a contract is the one in force.
RegisterContract(i) ==
  /\ contracts[i] < Len(Contracts[i])
  /\ contracts' = [contracts EXCEPT ![i] = @ + 1]
  /\ UNCHANGED <<subscriptions, interceptors, records, frame, delivery, hooked,
                 offered>>

ClearHistory ==
  /\ history # <<>>
  /\ history' = <<>>
  /\ recorded' = <<>>
  /\ UNCHANGED <<registries, graph, buffer, frame, delivery, hooked, offered>>

-----------------------------------------------------------------------------

Init ==
  /\ subscriptions = {}
  /\ interceptors = [i \in Intent |-> <<>>]
  /\ contracts = [i \in Intent |-> 0]
  /\ graph = {}
  /\ history = <<>>
  /\ buffer = <<>>
  /\ frame = [c \in Call |->
                [pc |-> "idle", payload |-> PayloadOf[c], chain |-> <<>>,
                 applied |-> <<>>, matching |-> {}, entered |-> 0,
                 why |-> "none"]]
  /\ delivery = [c \in Call |-> [h \in Handler |-> "none"]]
  /\ hooked = {}
  /\ offered = [c \in Call |-> [i \in Interceptor |-> {}]]
  /\ recorded = <<>>

\* The awaits that settle once the audit trail, the hooks and the event buffer
\* answer; handlers and interceptors are other people's code.
BusStep(c) ==
  \/ RawAudit(c) \/ InterceptorAudit(c) \/ EndInterception(c) \/ Flow(c)
  \/ HardAudit(c) \/ SoftAudit(c) \/ Record(c) \/ Enqueued(c)
  \/ StartHandlers(c) \/ HandlersSettle(c) \/ OnPublish(c)
  \/ \E h \in Handler : HandlerErrorHandled(c, h)

UserStep(c) ==
  \/ Publish(c) \/ InterceptorSettles(c) \/ InterceptorThrows(c)
  \/ \E h \in Handler : HandlerResolves(c, h) \/ HandlerRejects(c, h)

Environment ==
  \/ \E h \in Handler : Subscribe(h) \/ Unsubscribe(h)
  \/ \E i \in Interceptor : RegisterInterceptor(i) \/ UnregisterInterceptor(i)
  \/ \E i \in Intent : RegisterContract(i)
  \/ ClearHistory

Next == Environment \/ \E c \in Call : BusStep(c) \/ UserStep(c)

Spec == Init /\ [][Next]_vars

FairSpec == Spec /\ \A c \in Call : WF_vars(BusStep(c))

\* Every variable keeps its type: registries, records, frames and history.
TypeOK ==
  /\ subscriptions \subseteq Handler
  /\ interceptors \in [Intent -> Seq(Interceptor)]
  /\ contracts \in [Intent -> Nat]
  /\ \A i \in Intent : contracts[i] <= Len(Contracts[i])
  /\ graph \subseteq (Intent \cup {Unknown}) \X Intent
  /\ history \in Seq([call : Call, notified : Nat])
  /\ buffer \in Seq(Call)
  /\ frame \in [Call -> Frame]
  /\ delivery \in [Call -> [Handler -> Progress]]
  /\ hooked \subseteq Call
  /\ offered \in [Call -> [Interceptor -> SUBSET Key]]
  /\ recorded \in Seq(Call)

-----------------------------------------------------------------------------
Started(c) == \E h \in Handler : delivery[c][h] # "none"
Notified(c) == {h \in Handler : delivery[c][h] # "none"}
PastHandlers == {"handlers", "onPublish", "resolved"}

\* subscribersNotified of a history record is the number of handlers that the
\* publish then calls, although subscriptions may come and go between the
\* record and the calls (EventBus.ts, the snapshot before the policy hooks).
NotifiedIsExact ==
  \A k \in DOMAIN history :
    LET e == history[k]
    IN  frame[e.call].pc \in PastHandlers =>
          e.notified = Cardinality(Notified(e.call))

\* An event is what its publisher passed plus everything the interceptors
\* listed in its metadata offered, each key set once; an interceptor that
\* failed, or a sealed event, contributes nothing.
ProvenanceExact ==
  \A c \in Call :
    LET f == frame[c]
        by(k) == offered[c][f.applied[k]]
    IN  /\ f.payload = PayloadOf[c] \cup UNION {by(k) : k \in DOMAIN f.applied}
        /\ \A k \in DOMAIN f.applied :
             by(k) \cap (PayloadOf[c] \cup UNION {by(j) : j \in 1 .. k - 1}) = {}
        /\ c \in Sealed => f.applied = <<>>

\* Interceptors cannot veto an event: whatever they do, an event that passed
\* the guards is rejected on its contract afterwards only if a new version of
\* the contract was registered meanwhile.
InterceptorsCannotVeto ==
  \A c \in Call : frame[c].why = "lateContract" =>
    contracts[IntentOf[c]] > frame[c].entered

\* Observed layer flow in hard mode leaves no phantom edge in the graph
\* (observedLayerFlow.ts, header comment).
NoPhantomEdge ==
  FlowMode = "hard" =>
    \A e \in graph : e[1] # Unknown => e \notin DeniedFlow

\* A publish is judged with its own flow in the graph: one whose edge a hard
\* policy forbids reaches neither history nor buffer nor handlers.
OwnFlowIsJudged ==
  \A c \in Call : Edge(c) \in HardEdges =>
    /\ c \notin Range(recorded) /\ c \notin Range(buffer)
    /\ ~Started(c)

\* onPublish is called, and publish resolves, only after every handler of the
\* event settled without a rethrown error.
HookAfterHandlers ==
  \A c \in Call : c \in hooked \/ frame[c].pc = "resolved" =>
    \A h \in Handler : delivery[c][h] \in {"none", "done"}

Position(log, c) == CHOOSE k \in DOMAIN log : log[k] = c

\* Events reach the event buffer in the order in which they enter the history.
BufferFollowsHistory ==
  \A a, b \in Range(recorded) \cap Range(buffer) :
    Position(recorded, a) < Position(recorded, b) =>
      Position(buffer, a) < Position(buffer, b)

\* The history holds the most recent publishes since it was last cleared, as
\* many as maxHistorySize allows.
HistoryIsRecent ==
  /\ Len(history) = IF Len(recorded) < MaxHistory THEN Len(recorded)
                                                   ELSE MaxHistory
  /\ \A k \in DOMAIN history :
       history[k].call = recorded[Len(recorded) - Len(history) + k]

\* Interceptors add and never veto: the provenance of an event is exact, and only
\* a contract registered meanwhile rejects it after the guards.  A denied flow
\* leaves nothing behind, and a publish is judged with its own edge.
GuardsAreSound ==
  ProvenanceExact /\ InterceptorsCannotVeto /\ NoPhantomEdge /\ OwnFlowIsJudged

\* Who was counted is who is called, and the hook comes after all of them;
\* history and buffer agree in order, and the history keeps the newest.
DeliverySound ==
  /\ TypeOK /\ NotifiedIsExact /\ HookAfterHandlers
  /\ BufferFollowsHistory /\ HistoryIsRecent
===============================================================================
