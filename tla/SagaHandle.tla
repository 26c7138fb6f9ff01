------------------------------ MODULE SagaHandle ------------------------------
(***************************************************************************)
(* The object createSaga returns (src/kernel/workflow/Saga.ts:303) on top  *)
(* of the workflow engine.  A handle shows a status and a list of steps of *)
(* its own; they follow the snapshot that start returns, or, when start    *)
(* rejects, the one the store has by then.  A handle is identified with    *)
(* its snapshot identifier, and run() may be called again at any time,     *)
(* while an earlier call is still under way too.                           *)
(***************************************************************************)
EXTENDS WorkflowProperties

VARIABLES
  handle,  \* handle[id]: what the handle of id shows
  caller,  \* caller[r]: the await at which run r's call of run() stands
  found,   \* found[r]: the snapshot engine.get found for a rejected run
  overlap  \* handles on which two calls were under way at once (history)

handleVars == <<handle, caller, found, overlap>>

Shown == [status : Status \cup {"idle"}, completed : Seq(StepName)]

\* "lost": the get of the catch block rejected.
Call == {"idle", "start", "get", "got", "done", "lost"}
UnderWay(r) == caller[r] \in {"start", "get", "got"}

Show(r, status, completed) ==
  handle' = [handle EXCEPT ![IdOf[r]] = [status |-> status,
                                         completed |-> completed]]

\* run, up to the first await of start.
RunCalled(r) ==
  /\ Start(r)
  /\ Show(r, "running", <<>>)
  /\ caller' = [caller EXCEPT ![r] = "start"]
  /\ overlap' = overlap \cup {IdOf[q] : q \in {q \in Run \ {r} :
                                 IdOf[q] = IdOf[r] /\ UnderWay(q)}}
  /\ UNCHANGED found

EngineGoesOn(r) ==
  /\ EngineStep(r) \/ ExecuteResolves(r) \/ ExecuteRejects(r) \/ LateEffect(r)
  /\ UNCHANGED handleVars

StartResolved(r) ==
  /\ caller[r] = "start" /\ task[r].pc = "resolved"
  /\ Show(r, task[r].snap.status, task[r].snap.completed)
  /\ caller' = [caller EXCEPT ![r] = "done"]
  /\ UNCHANGED <<vars, found, overlap>>

\* The catch block asks the store before it touches what the handle shows.
StartRejected(r) ==
  /\ caller[r] = "start" /\ task[r].pc = "rejected"
  /\ caller' = [caller EXCEPT ![r] = "get"]
  /\ UNCHANGED <<vars, handle, found, overlap>>

GetReads(r) ==
  /\ caller[r] = "get"
  /\ caller' = [caller EXCEPT ![r] = "got"]
  /\ found' = [found EXCEPT ![r] = store[IdOf[r]]]
  /\ UNCHANGED <<vars, handle, overlap>>

\* The error of the run is replaced by the store's, the handle left as it was.
GetRejects(r) ==
  /\ caller[r] \in {"get", "got"}
  /\ caller' = [caller EXCEPT ![r] = "lost"]
  /\ UNCHANGED <<vars, handle, found, overlap>>

\* Mutant: a rejected run is shown as failed whatever the store has.
GetResolvesFailed(r) ==
  /\ caller[r] = "got"
  /\ caller' = [caller EXCEPT ![r] = "done"]
  /\ Show(r, "failed", IF found[r] = NoSnapshot THEN <<>>
                                                ELSE found[r].completed)
  /\ UNCHANGED <<vars, found, overlap>>

GetResolves(r) ==
  /\ caller[r] = "got"
  /\ caller' = [caller EXCEPT ![r] = "done"]
  /\ IF found[r] = NoSnapshot THEN Show(r, "failed", <<>>)
       ELSE Show(r, found[r].status, found[r].completed)
  /\ UNCHANGED <<vars, found, overlap>>

\* createSaga registers its definition and then returns an idle handle.
HandleInit ==
  /\ Init
  /\ handle = [id \in Id |-> [status |-> "idle", completed |-> <<>>]]
  /\ caller = [r \in Run |-> "idle"]
  /\ found = [r \in Run |-> NoSnapshot]
  /\ overlap = {}

HandleNext ==
  \/ \E w \in Name : Register(w) /\ UNCHANGED handleVars
  \/ \E r \in Run :
       \/ RunCalled(r) \/ EngineGoesOn(r)
       \/ StartResolved(r) \/ StartRejected(r)
       \/ GetReads(r) \/ GetRejects(r) \/ GetResolves(r)

HandleSpec == HandleInit /\ [][HandleNext]_<<vars, handleVars>>
-----------------------------------------------------------------------------
\* Type of the handle's variables.
HandleTypeOK ==
  /\ handle \in [Id -> Shown]
  /\ caller \in [Run -> Call]
  /\ found \in [Run -> Snapshot \cup {NoSnapshot}]
  /\ overlap \subseteq Id

\* Calls of run() on the handle of id that were made.
Calls(id) == {r \in Run : IdOf[r] = id /\ caller[r] # "idle"}

\* All calls on the handle have returned, none while another was under way,
\* and the store never refused to be read.
AtRest(id) ==
  /\ Calls(id) # {} /\ id \notin overlap
  /\ \A r \in Calls(id) : caller[r] = "done"

\* Between calls the handle shows what the store has: status and steps of the
\* two copies never diverge, however the calls ended, unless calls overlapped.
HandleFollowsStore ==
  \A id \in Id : AtRest(id) =>
    IF store[id] = NoSnapshot
      THEN handle[id] = [status |-> "failed", completed |-> <<>>]
      ELSE /\ handle[id].status = store[id].status
           /\ handle[id].completed = store[id].completed

\* A handle at rest that shows an outcome shows one that a run had: completed,
\* all steps of a run took effect and none was undone; failed, a run undid what
\* it had done, or no run ever reached the store.
ShownOutcomeIsReal ==
  \A id \in Id : AtRest(id) =>
    /\ handle[id].status = "completed" =>
         \E r \in Calls(id) : /\ DOMAIN Steps(r) \subseteq landed[r]
                              /\ compensations[r] = <<>>
    /\ handle[id].status = "failed" /\ store[id] # NoSnapshot =>
         \E r \in Calls(id) : /\ task[r].snap.status = "failed"
                              /\ Compensated(r) = ToCompensate(r, task[r])

\* A handle at rest shows what the store has, and an outcome that a run had
\* (Saga.ts:303): a caller that reads the handle between two calls of run()
\* is told neither a stale nor an invented end.
HandleIsTruthful == HandleTypeOK /\ HandleFollowsStore /\ ShownOutcomeIsReal
===============================================================================
