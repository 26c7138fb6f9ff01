--------------------------- MODULE WorkflowContract ---------------------------
(***************************************************************************)
(* What a run of a workflow promises, without frames, retries, snapshots   *)
(* and audits: its steps are done in order; a run either does all of them  *)
(* and undoes none, or undoes those it did from the last to the first; the *)
(* process may give up in between, but never out of that order.            *)
(***************************************************************************)
EXTENDS Integers, FiniteSets

CONSTANTS
  Run,      \* runs of workflows
  Length,   \* Length[r]: the number of steps of run r
  Undoable  \* Undoable[r]: the positions of its steps that can be undone

VARIABLES
  phase,    \* phase[r]: how far run r has come
  done,     \* done[r]: how many of its steps are done
  undone,   \* undone[r]: the positions of the steps it has undone
  effects   \* effects[r]: the positions of the steps that took effect

vars == <<phase, done, undone, effects>>

Phase == {"idle", "running", "undoing", "completed", "failed", "aborted"}

\* The steps that run r did, can undo, and has not undone.
ToUndo(r) == {i \in Undoable[r] : i <= done[r]} \ undone[r]

Move(r, from, to) ==
  /\ phase[r] \in from
  /\ phase' = [phase EXCEPT ![r] = to]

Begin(r) ==
  /\ Move(r, {"idle"}, "running")
  /\ UNCHANGED <<done, undone, effects>>

\* The next step is done, at the latest now with its effect.
Do(r) ==
  /\ phase[r] = "running" /\ done[r] < Length[r]
  /\ done' = [done EXCEPT ![r] = @ + 1]
  /\ effects' = [effects EXCEPT ![r] = @ \cup {done[r] + 1}]
  /\ UNCHANGED <<phase, undone>>

\* A step that was tried takes effect, even if it is not, or no longer, going
\* to be done.
TakeEffect(r) ==
  /\ phase[r] # "idle"
  /\ \E i \in 1 .. done[r] + 1 :
       /\ i <= Length[r]
       /\ effects' = [effects EXCEPT ![r] = @ \cup {i}]
  /\ UNCHANGED <<phase, done, undone>>

Complete(r) ==
  /\ done[r] = Length[r]
  /\ Move(r, {"running"}, "completed")
  /\ UNCHANGED <<done, undone, effects>>

Falter(r) ==
  /\ Move(r, {"running"}, "undoing")
  /\ UNCHANGED <<done, undone, effects>>

\* The last step that is still to be undone.
Undo(r) ==
  /\ phase[r] = "undoing"
  /\ \E i \in ToUndo(r) :
       /\ \A j \in ToUndo(r) : j <= i
       /\ undone' = [undone EXCEPT ![r] = @ \cup {i}]
  /\ UNCHANGED <<phase, done, effects>>

Fail(r) ==
  /\ ToUndo(r) = {}
  /\ Move(r, {"undoing"}, "failed")
  /\ UNCHANGED <<done, undone, effects>>

\* Runs are given up: refused, without a store or audit trail, or with the
\* process.
Abort ==
  /\ \E gone \in SUBSET {r \in Run : phase[r] \in {"idle", "running", "undoing"}} :
       phase' = [r \in Run |-> IF r \in gone THEN "aborted" ELSE phase[r]]
  /\ UNCHANGED <<done, undone, effects>>

Init ==
  /\ phase = [r \in Run |-> "idle"]
  /\ done = [r \in Run |-> 0]
  /\ undone = [r \in Run |-> {}]
  /\ effects = [r \in Run |-> {}]

Next ==
  \/ \E r \in Run : \/ Begin(r) \/ Do(r) \/ TakeEffect(r) \/ Complete(r)
                    \/ Falter(r) \/ Undo(r) \/ Fail(r)
  \/ Abort

Spec == Init /\ [][Next]_vars
===============================================================================
