----------------------------- MODULE Projections -----------------------------
(***************************************************************************)
(* The projection registry (src/kernel/projections/ProjectionRegistry.ts). *)
(*                                                                         *)
(* apply folds one event into the state of every projection that listens   *)
(* to it: load, project, save, checkpoint, audit, one projection after the *)
(* other.  Nothing serialises two applications, and each of them may be    *)
(* suspended at every await.  A projection's state is abstracted to the    *)
(* set of events folded into it, so that a lost update is a missing event. *)
(***************************************************************************)
EXTENDS Integers, Sequences, FiniteSets

CONSTANTS
  Event,       \* the events apply is called with, once each
  Projection,  \* projection names
  Definitions, \* the definitions register is called with, in that order
  Listens,     \* Listens[p]: the events whose intent is a sourceIntent of p
  MaxClears,   \* bound on calls of clear
  Faults       \* what may fail: a subset of FaultKinds

FaultKinds == {"load", "project", "save", "audit"}

ASSUME ProjectionsAssumption ==
  /\ Definitions \in Seq(Projection)
  /\ \A i, j \in DOMAIN Definitions : Definitions[i] = Definitions[j] => i = j
  /\ Listens \in [Projection -> SUBSET Event]
  /\ MaxClears \in Nat
  /\ Faults \subseteq FaultKinds

VARIABLES
  registered,  \* how many definitions are registered
  state,       \* state[p]: what the read-model store holds for p
  applied,     \* applied[p]: appliedCount of p's checkpoint
  apply,       \* apply[e]: the stack frame of the application of e
  clears,      \* how often clear was called
  clearing,    \* clear is between the store's clear and the checkpoints' reset
  overlapped,  \* overlapped[p]: events whose application to p was not alone
               \* from load to save (history)
  saved,       \* saved[p]: events that p counted since the last clear (history)
  torn         \* some application was under way during a clear (history)

readModel == <<state, applied, overlapped, saved>>
clearVars == <<clears, clearing, torn>>
vars == <<registered, readModel, apply, clearVars>>

-----------------------------------------------------------------------------

Awaits == {"load", "project", "save", "saved", "audit"}

\* at: index of the definition in hand; current: the state project was given.
Frame == [pc : Awaits \cup {"idle", "resolved", "rejected"},
          at : Nat, current : SUBSET Event]

Active(e) == apply[e].pc \in Awaits
At(e) == Definitions[apply[e].at]

\* e has loaded the state of p and its save has not reached the store yet.
Holding(e, p) == apply[e].pc \in {"project", "save"} /\ At(e) = p

\* The next definition from index i on that listens to e, or the end.  The
\* loop iterates over the live map: it sees what is registered meanwhile.
NextFrom(e, i) ==
  LET later == {j \in i .. registered : e \in Listens[Definitions[j]]}
  IN  IF later = {} THEN [apply[e] EXCEPT !.pc = "resolved"]
      ELSE [apply[e] EXCEPT !.pc = "load",
                            !.at = CHOOSE j \in later : \A k \in later : j <= k]

Move(e, f) == apply' = [apply EXCEPT ![e] = f]

\* A new name and its checkpoint; the store may hold an older state of it.
Register ==
  /\ registered < Len(Definitions)
  /\ registered' = registered + 1
  /\ UNCHANGED <<readModel, apply, clearVars>>

Apply(e) ==
  /\ apply[e].pc = "idle"
  /\ Move(e, NextFrom(e, 1))
  /\ torn' = (torn \/ clearing)
  /\ UNCHANGED <<registered, readModel, clears, clearing>>

\* Mutant: nothing is loaded, the last state seen is reused.
LoadSkipped(e) ==
  /\ apply[e].pc = "load"
  /\ Move(e, [apply[e] EXCEPT !.pc = "project"])
  /\ UNCHANGED <<registered, readModel, clearVars>>

\* store.load: the state from which project starts.
Load(e) ==
  LET rivals == {d \in Event \ {e} : Holding(d, At(e))}
  IN  /\ apply[e].pc = "load"
      /\ Move(e, [apply[e] EXCEPT !.pc = "project", !.current = state[At(e)]])
      /\ overlapped' = [overlapped EXCEPT ![At(e)] =
                          IF rivals = {} THEN @ ELSE @ \cup rivals \cup {e}]
      /\ UNCHANGED <<registered, state, applied, clearVars, saved>>

Project(e) ==
  /\ apply[e].pc = "project"
  /\ Move(e, [apply[e] EXCEPT !.pc = "save", !.current = @ \cup {e}])
  /\ UNCHANGED <<registered, readModel, clearVars>>

\* store.save reaches the store, at once or later.
SaveLands(e) ==
  /\ apply[e].pc = "save"
  /\ state' = [state EXCEPT ![At(e)] = apply[e].current]
  /\ Move(e, [apply[e] EXCEPT !.pc = "saved"])
  /\ UNCHANGED <<registered, applied, clearVars, overlapped, saved>>

\* The save resolves; reading and writing the checkpoint is one turn.
SaveResolves(e) ==
  /\ apply[e].pc = "saved"
  /\ applied' = [applied EXCEPT ![At(e)] = @ + 1]
  /\ saved' = [saved EXCEPT ![At(e)] = @ \cup {e}]
  /\ Move(e, [apply[e] EXCEPT !.pc = "audit"])
  /\ UNCHANGED <<registered, state, clearVars, overlapped>>

Audit(e) ==
  /\ apply[e].pc = "audit"
  /\ Move(e, NextFrom(e, apply[e].at + 1))
  /\ UNCHANGED <<registered, readModel, clearVars>>

\* Any awaited call may reject: the application stops where it is, the later
\* projections never see the event, the earlier ones keep it.
Fails(e) ==
  /\ \/ apply[e].pc = "load" /\ "load" \in Faults
     \/ apply[e].pc = "project" /\ "project" \in Faults
     \/ apply[e].pc \in {"save", "saved"} /\ "save" \in Faults
     \/ apply[e].pc = "audit" /\ "audit" \in Faults
  /\ Move(e, [apply[e] EXCEPT !.pc = "rejected"])
  /\ UNCHANGED <<registered, readModel, clearVars>>

-----------------------------------------------------------------------------
(* clear: first the store, then the checkpoints.                           *)

ClearStore ==
  /\ ~clearing
  /\ clears < MaxClears
  /\ clears' = clears + 1
  /\ clearing' = TRUE
  /\ torn' = (torn \/ \E e \in Event : Active(e))
  /\ state' = [p \in Projection |-> {}]
  /\ UNCHANGED <<registered, applied, apply, overlapped, saved>>

ResetCheckpoints ==
  /\ clearing
  /\ clearing' = FALSE
  /\ applied' = [p \in Projection |-> 0]
  /\ saved' = [p \in Projection |-> {}]
  /\ UNCHANGED <<registered, state, apply, clears, torn, overlapped>>

-----------------------------------------------------------------------------

Init ==
  /\ registered = 0
  /\ state = [p \in Projection |-> {}]
  /\ applied = [p \in Projection |-> 0]
  /\ apply = [e \in Event |-> [pc |-> "idle", at |-> 0, current |-> {}]]
  /\ clears = 0
  /\ clearing = FALSE
  /\ overlapped = [p \in Projection |-> {}]
  /\ saved = [p \in Projection |-> {}]
  /\ torn = FALSE

Step(e) ==
  Load(e) \/ Project(e) \/ SaveLands(e) \/ SaveResolves(e) \/ Audit(e) \/ Fails(e)

Next ==
  \/ \E e \in Event : Apply(e) \/ Step(e)
  \/ Register \/ ClearStore \/ ResetCheckpoints

Spec == Init /\ [][Next]_vars

\* Every variable keeps its type: read models, checkpoints and frames.
TypeOK ==
  /\ registered \in 0 .. Len(Definitions)
  /\ state \in [Projection -> SUBSET Event]
  /\ applied \in [Projection -> Nat]
  /\ apply \in [Event -> Frame]
  /\ clears \in 0 .. MaxClears
  /\ clearing \in BOOLEAN
  /\ overlapped \in [Projection -> SUBSET Event]
  /\ saved \in [Projection -> SUBSET Event]
  /\ torn \in BOOLEAN

-----------------------------------------------------------------------------

\* No application was under way while the projections were cleared, and no
\* clear is.
Undisturbed == ~torn /\ ~clearing

\* An event that is counted but missing from the read model was applied while
\* another application to that projection was between its load and its save:
\* for callers that await one apply before the next, the load-project-save
\* sequence loses nothing, whatever of it fails (ProjectionRegistry.ts, apply).
LossNeedsOverlap ==
  Undisturbed =>
    \A p \in Projection : saved[p] \ overlapped[p] \subseteq state[p]

\* appliedCount is the number of events whose save was confirmed since the
\* last clear, even when applications overlap, and the read model holds no
\* other event than those and the ones whose save was sent and then failed or
\* is not confirmed yet.
CountIsExact ==
  Undisturbed =>
    \A p \in Projection :
      /\ applied[p] = Cardinality(saved[p])
      /\ state[p] \subseteq saved[p] \cup
           {e \in Event : /\ apply[e].pc \in {"saved", "rejected"}
                          /\ At(e) = p}

\* Projections are fed in order of registration: what one counted has been
\* counted by all those registered before it that listen to the event.
FedInOrder ==
  Undisturbed =>
    \A i, j \in DOMAIN Definitions : \A e \in saved[Definitions[j]] :
      i < j /\ e \in Listens[Definitions[i]] => e \in saved[Definitions[i]]

\* What apply folds, counts and feeds is exact wherever applications do not
\* overlap and no clear tears them (ProjectionRegistry.ts, apply).
FoldIsExact == TypeOK /\ LossNeedsOverlap /\ CountIsExact /\ FedInOrder
===============================================================================
