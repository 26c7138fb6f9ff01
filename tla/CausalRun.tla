------------------------------- MODULE CausalRun -------------------------------
(***************************************************************************)
(* The runner of the causal evaluation (eval/causal/run): the cells of a   *)
(* frozen manifest run one after the other, each by an agent of its own    *)
(* process, are graded and appended to a hash-chained ledger.  Every step  *)
(* leaves a durable file, so that a runner that died resumes with the same *)
(* manifest and directory.  Source identities, hashes and the statistics   *)
(* are abstracted away; a file is what later steps read of it.             *)
(***************************************************************************)
EXTENDS Naturals, Sequences, SequencesExt

CONSTANTS
  Cells,     \* how many cells the manifest registers
  Treatment, \* those of the treatment arm
  Works,     \* the grades the agents' workspaces come to
  None,
  MaxCrashes
ASSUME CausalRunAssumption ==
  Cells \in Nat /\ None \notin [timedOut : BOOLEAN, failed : BOOLEAN, overTurns : BOOLEAN]

VARIABLES
  disk,     \* cell -> its directory: prepared, marker, result, papers, terminal
  ledger,   \* the appended terminals
  torn,     \* the last line of the ledger is torn
  runner,   \* where the runner is, and the terminal it is about to write
  agent,    \* cell -> its agent process, which outlives the runner
  work,     \* cell -> what grading its workspace yields
  late,     \* cells whose time cap has passed
  launches, \* cell -> how often an agent was started for it (history)
  crashes
vars == <<disk, ledger, torn, runner, agent, work, late, launches, crashes>>

Cell == 1 .. Cells
Stages == <<"integrity", "architecture", "typecheck", "tests">>
\* A grade is the first stage that fails, or "green".
Grades == Range(Stages) \cup {"green"}
Empty == [prepared |-> FALSE, marker |-> FALSE, result |-> None, papers |-> None, terminal |-> None]
Current == Len(ledger) + 1

At(pc) == runner.pc = pc
To(pc) == runner' = [runner EXCEPT !.pc = pc]
WriteFile(c, field, value) == disk' = [disk EXCEPT ![c][field] = value]
Rest == <<ledger, torn, agent, work, late, launches, crashes>>

-----------------------------------------------------------------------------
\* The terminal of a graded run, and what the contract admits of a terminal.
Terminal(c, grade, result) ==
  LET green == grade = "green"
      valid == green /\ c \notin late /\ ~result.overTurns
      reason == CASE valid -> "none"
                  [] ~valid /\ result.overTurns -> "turn_cap_exceeded"
                  [] ~valid /\ ~result.overTurns /\ (result.timedOut \/ c \in late) -> "cap_reached"
                  [] ~valid /\ ~result.overTurns /\ ~result.timedOut /\ c \notin late /\ result.failed -> "agent_exit"
                  [] OTHER -> "grader"
  IN [outcome |-> IF valid THEN "first_valid" ELSE "censored", reason |-> reason, green |-> green,
      papers |-> [step |-> "classified", grade |-> grade]]
Interrupted ==
  [outcome |-> "censored", reason |-> "interrupted", green |-> FALSE,
   papers |-> [step |-> "interrupted", grade |-> "integrity"]]
ValidTerminal(t) ==
  IF t.outcome = "first_valid" THEN t.green /\ t.reason = "none"
  ELSE t.reason # "none" /\ (t.green => t.reason = "cap_reached")

-----------------------------------------------------------------------------
\* Mutant: only a finished agent counts as a run under way.
StartedWithResult(c) == disk[c].result # None
HasStarted(c) == disk[c].marker

\* A launch verifies the ledger as far as it goes, and refuses a torn one.
Launch == /\ (At("down") \/ At("done")) /\ ~torn /\ To("next") /\ UNCHANGED <<disk, Rest>>

\* A cell without a marker is prepared; over a workspace that is prepared
\* already the commit of the baseline has nothing to commit and fails, unless
\* the intervention writes new files.
Prepare(c) ==
  /\ At("next") /\ c = Current /\ c \in Cell /\ ~HasStarted(c)
  /\ \/ /\ ~disk[c].prepared \/ c \in Treatment
        /\ WriteFile(c, "prepared", TRUE) /\ To("mark") /\ work' = [work EXCEPT ![c] = "tests"]
     \/ disk[c].prepared /\ To("down") /\ UNCHANGED <<disk, work>>
  /\ UNCHANGED <<ledger, torn, agent, late, launches, crashes>>
Mark(c) == /\ At("mark") /\ c = Current /\ WriteFile(c, "marker", TRUE) /\ To("start") /\ UNCHANGED Rest
StartAgent(c) ==
  /\ At("start") /\ c = Current
  /\ agent' = [agent EXCEPT ![c] = "runs"] /\ launches' = [launches EXCEPT ![c] = @ + 1]
  /\ To("wait")
  /\ UNCHANGED <<disk, ledger, torn, work, late, crashes>>
\* The exit of the agent, of its own or killed by the runner's timer.
AwaitAgent(c) ==
  /\ At("wait") /\ c = Current
  /\ \E timedOut, failed, overTurns \in BOOLEAN :
       /\ timedOut \/ agent[c] = "exited"
       /\ WriteFile(c, "result", [timedOut |-> timedOut, failed |-> failed, overTurns |-> overTurns])
  /\ agent' = [agent EXCEPT ![c] = "exited"] /\ To("grade")
  /\ UNCHANGED <<ledger, torn, work, late, launches, crashes>>

\* Grading runs the stages in order; one that reaches the deadline fails.
Grade(c) ==
  /\ At("grade") /\ c = Current
  /\ \E g \in {work[c]} \cup (IF c \in late THEN {"architecture", "typecheck", "tests"} ELSE {}) :
       /\ work[c] = "integrity" => g = "integrity"
       /\ WriteFile(c, "papers", [step |-> "graded", grade |-> g])
  /\ To("transcribe") /\ UNCHANGED Rest
Transcribe(c) ==
  /\ At("transcribe") /\ c = Current
  /\ runner' = [pc |-> "classify", terminal |-> Terminal(c, disk[c].papers.grade, disk[c].result)]
  /\ WriteFile(c, "papers", [disk[c].papers EXCEPT !.step = "transcribed"])
  /\ UNCHANGED Rest
Classify(c) ==
  /\ At("classify") /\ c = Current
  /\ WriteFile(c, "papers", [disk[c].papers EXCEPT !.step = "classified"])
  /\ To("terminal") /\ UNCHANGED Rest
WriteTerminal(c) ==
  /\ At("terminal") /\ c = Current
  /\ WriteFile(c, "terminal", runner.terminal) /\ To("append") /\ UNCHANGED Rest

\* recoverInterrupted: a durable terminal is appended if its evidence has not
\* drifted, a finished agent graded again, and an interrupted one censored.
Recover(c) ==
  /\ At("next") /\ c = Current /\ c \in Cell /\ HasStarted(c)
  /\ LET d == disk[c] IN
     \/ /\ d.terminal # None
        /\ IF d.terminal.papers = d.papers
             THEN runner' = [pc |-> "append", terminal |-> d.terminal] ELSE To("down")
        /\ UNCHANGED disk
     \/ d.terminal = None /\ d.result # None /\ To("grade") /\ UNCHANGED disk
     \/ /\ d.terminal = None /\ d.result = None
        /\ WriteFile(c, "papers", Interrupted.papers)
        /\ runner' = [pc |-> "append", terminal |-> Interrupted]
  /\ UNCHANGED Rest

\* An inadmissible terminal is refused; otherwise the runner goes on, or stops
\* at its limit of new cells.
AppendCellTerminal(c) ==
  /\ At("append") /\ c = Current
  /\ IF ValidTerminal(runner.terminal)
       THEN ledger' = Append(ledger, runner.terminal) /\ \E pc \in {"next", "down"} : To(pc)
       ELSE UNCHANGED ledger /\ To("down")
  /\ UNCHANGED <<disk, torn, agent, work, late, launches, crashes>>
AppendMutation ==
  /\ At("next") /\ Current = Cells + 1
  /\ ledger' = Append(ledger, "mutation") /\ To("done")
  /\ UNCHANGED <<disk, torn, agent, work, late, launches, crashes>>
\* A ledger with its mutation proof is verified and reported again.
Report == At("next") /\ Current = Cells + 2 /\ To("done") /\ UNCHANGED <<disk, Rest>>

-----------------------------------------------------------------------------
\* The agents, the clock, and a crash of the runner, which may tear the append.
AgentWrites(c) ==
  /\ agent[c] = "runs" /\ \E g \in Works \ {work[c]} : work' = [work EXCEPT ![c] = g]
  /\ UNCHANGED <<disk, ledger, torn, runner, agent, late, launches, crashes>>
AgentExits(c) ==
  /\ agent[c] = "runs" /\ agent' = [agent EXCEPT ![c] = "exited"]
  /\ UNCHANGED <<disk, ledger, torn, runner, work, late, launches, crashes>>
CapPasses(c) ==
  /\ disk[c].marker /\ c \notin late /\ late' = late \cup {c}
  /\ UNCHANGED <<disk, ledger, torn, runner, agent, work, launches, crashes>>
Crash ==
  /\ ~At("down") /\ ~At("done") /\ crashes < MaxCrashes
  /\ torn' \in {FALSE, At("append")}
  /\ runner' = [pc |-> "down", terminal |-> None] /\ crashes' = crashes + 1
  /\ UNCHANGED <<disk, ledger, agent, work, late, launches>>

Init ==
  /\ disk = [c \in Cell |-> Empty] /\ ledger = <<>> /\ torn = FALSE
  /\ runner = [pc |-> "down", terminal |-> None]
  /\ agent = [c \in Cell |-> "none"] /\ work = [c \in Cell |-> "tests"] /\ late = {}
  /\ launches = [c \in Cell |-> 0] /\ crashes = 0
CellStep(c) ==
  \/ Prepare(c) \/ Mark(c) \/ StartAgent(c) \/ AwaitAgent(c) \/ Grade(c) \/ Transcribe(c) \/ Classify(c)
  \/ WriteTerminal(c) \/ Recover(c) \/ AppendCellTerminal(c)
Next ==
  \/ Launch \/ AppendMutation \/ Report \/ Crash
  \/ \E c \in Cell : CellStep(c) \/ AgentWrites(c) \/ AgentExits(c) \/ CapPasses(c)
Spec == Init /\ [][Next]_vars

-----------------------------------------------------------------------------
\* No crash gives a cell a second attempt, lets a run count that was not graded
\* green within its caps on the workspace it left, drops the result of an agent
\* that finished, or separates a terminal from its evidence.
LedgerIsHonest ==
  /\ \A c \in Cell : launches[c] <= 1
  /\ \A i \in DOMAIN ledger : i \in Cell =>
       LET t == ledger[i]  d == disk[i] IN
       /\ d.marker /\ t.papers = d.papers
       /\ t.outcome = "first_valid" =>
            /\ launches[i] = 1 /\ d.result # None /\ ~d.result.overTurns
            /\ agent[i] = "exited" /\ work[i] = "green"
       /\ t.reason = "interrupted" <=> d.result = None

\* tests/unit/eval/causalRunner.test.ts: "censors an over-cap agent turn count
\* without creating an invalid ledger terminal".
NoInvalidTerminal == \A c \in Cell : disk[c].terminal # None => ValidTerminal(disk[c].terminal)
===============================================================================
