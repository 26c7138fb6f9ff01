---------------------------- MODULE CausalRunProofs ----------------------------
(***************************************************************************)
(* Theorems about the runner of the causal evaluation: however often it    *)
(* dies and whatever its agents do, the ledger records each cell once, as  *)
(* it happened.  For any number of cells and crashes.                      *)
(***************************************************************************)
EXTENDS CausalRun, TLAPS

-----------------------------------------------------------------------------
\* What the files of a cell, its agent and the ledger hold.
Grading == Works \cup {"integrity", "architecture", "typecheck", "tests", "green"}
Results == [timedOut : BOOLEAN, failed : BOOLEAN, overTurns : BOOLEAN]
Papers == [step : {"graded", "transcribed", "classified", "interrupted"}, grade : Grading]
Terminals ==
  [outcome : {"first_valid", "censored"},
   reason : {"none", "turn_cap_exceeded", "cap_reached", "agent_exit", "grader", "interrupted"},
   green : BOOLEAN, papers : Papers]
Directories ==
  [prepared : BOOLEAN, marker : BOOLEAN, result : Results \cup {None}, papers : Papers \cup {None},
   terminal : Terminals \cup {None}]
InCell == {"mark", "start", "wait", "grade", "transcribe", "classify", "terminal", "append"}
Runners == [pc : InCell \cup {"down", "next", "done"}, terminal : Terminals \cup {None}]

\* Every variable keeps its type.
TypeOK ==
  /\ disk \in [Cell -> Directories]
  /\ ledger \in Seq(Terminals \cup {"mutation"})
  /\ runner \in Runners
  /\ agent \in [Cell -> {"none", "runs", "exited"}]
  /\ work \in [Cell -> Grading]
  /\ launches \in [Cell -> Nat]

-----------------------------------------------------------------------------
\* A terminal t is earned by a cell with directory d, whose agent a was
\* launched l times and left the workspace w.
Earned(t, d, a, l, w) ==
  /\ t.outcome = "first_valid" =>
       l = 1 /\ d.result # None /\ ~d.result.overTurns /\ a = "exited" /\ w = "green"
  /\ t.reason = "interrupted" <=> d.result = None
Stands(t, d, a, l, w) == t.papers = d.papers /\ Earned(t, d, a, l, w)

\* What the files of a cell say of it, wherever the runner is: they are all
\* that is left when it dies.
Durable(d, a, l, w) ==
  /\ l <= 1
  /\ ~d.marker => l = 0 /\ d.result = None /\ d.terminal = None
  /\ a = "none" <=> l = 0
  /\ d.result # None => l = 1 /\ a = "exited"
  /\ d.terminal # None => d.result # None /\ Stands(d.terminal, d, a, l, w)

\* What the place of the runner says of its cell.
Standing(r, d, a, l, w) ==
  /\ r.pc = "mark" => ~d.marker
  /\ r.pc \in InCell \ {"mark"} => d.marker
  /\ r.pc = "start" => l = 0 /\ d.terminal = None
  /\ r.pc = "wait" => l = 1 /\ d.terminal = None
  /\ r.pc \in {"grade", "transcribe", "classify", "terminal"} => d.result # None /\ d.terminal = None
  /\ r.pc \in {"transcribe", "classify", "terminal"} => d.papers \in Papers
  /\ r.pc = "transcribe" => (d.papers.grade = "green" => w = "green")
  /\ r.pc \in {"classify", "terminal", "append"} => r.terminal \in Terminals /\ Earned(r.terminal, d, a, l, w)
  /\ r.pc = "classify" => r.terminal.papers = [d.papers EXCEPT !.step = "classified"]
  /\ r.pc \in {"terminal", "append"} => r.terminal.papers = d.papers

CellsAreDurable == \A c \in Cell : Durable(disk[c], agent[c], launches[c], work[c])
LedgerStands ==
  \A i \in DOMAIN ledger : i \in Cell =>
    disk[i].marker /\ Stands(ledger[i], disk[i], agent[i], launches[i], work[i])
AheadIsUntouched == \A c \in Cell : c > Current => ~disk[c].marker
RunnerStands ==
  runner.pc \in InCell =>
    /\ Current \in Cell
    /\ Standing(runner, disk[Current], agent[Current], launches[Current], work[Current])
Inv == TypeOK /\ CellsAreDurable /\ LedgerStands /\ AheadIsUntouched /\ RunnerStands

-----------------------------------------------------------------------------
\* The ledger is as long as the cells it records.
LEMMA Position ==
  ASSUME TypeOK
  PROVE  /\ Current \in Nat \ {0} /\ DOMAIN ledger = 1 .. Len(ledger) /\ Len(ledger) \in Nat
         /\ \A i \in DOMAIN ledger : i \in Nat /\ i < Current
<1> QED
  BY DEF TypeOK, Current

\* A step of the runner in its cell leaves all other cells alone.
LEMMA OwnCell ==
  ASSUME Inv, TypeOK', NEW c \in Cell, c = Current, ledger' = ledger,
         \A x \in Cell \ {c} : /\ disk'[x] = disk[x] /\ agent'[x] = agent[x]
                               /\ launches'[x] = launches[x] /\ work'[x] = work[x],
         Durable(disk'[c], agent'[c], launches'[c], work'[c]),
         runner'.pc \in InCell => Standing(runner', disk'[c], agent'[c], launches'[c], work'[c])
  PROVE  Inv'
<1>1. CellsAreDurable'
  <2> SUFFICES ASSUME NEW x \in Cell
               PROVE  Durable(disk'[x], agent'[x], launches'[x], work'[x])
    BY DEF CellsAreDurable, Cell
  <2>1. CASE x = c
    BY <2>1
  <2>2. CASE x # c
    BY <2>2 DEF Inv, CellsAreDurable
  <2>3. QED
    BY <2>1, <2>2
<1>2. LedgerStands'
  <2>1. \A i \in DOMAIN ledger : i # c
    BY Position DEF Inv
  <2>2. QED
    BY <2>1 DEF Inv, LedgerStands, Cell
<1>3. Current' = Current
  BY DEF Current
<1>4. AheadIsUntouched'
  <2>1. \A x \in Cell : x > Current => x # c
    BY Position DEF Inv, Cell
  <2>2. QED
    BY <1>3, <2>1 DEF Inv, AheadIsUntouched, Cell
<1>5. RunnerStands'
  BY <1>3 DEF RunnerStands, Cell
<1>6. QED
  BY <1>1, <1>2, <1>4, <1>5 DEF Inv

\* A cell's new file.
LEMMA FileTyped ==
  ASSUME TypeOK, NEW c \in Cell, NEW d \in Directories, disk' = [disk EXCEPT ![c] = d]
  PROVE  /\ disk' \in [Cell -> Directories] /\ disk'[c] = d
         /\ \A x \in Cell \ {c} : disk'[x] = disk[x]
<1> QED
  BY DEF TypeOK

LEMMA Moves ==
  ASSUME TypeOK, NEW pc \in InCell \cup {"down", "next", "done"}, To(pc)
  PROVE  runner' \in Runners /\ runner'.pc = pc /\ runner'.terminal = runner.terminal
<1> QED
  BY DEF TypeOK, To, Runners

\* A step that writes one file of the cell and moves on.
LEMMA FileWritten ==
  ASSUME TypeOK, NEW c \in Cell, NEW v
  PROVE  /\ WriteFile(c, "prepared", v) => disk' = [disk EXCEPT ![c] = [disk[c] EXCEPT !.prepared = v]]
         /\ WriteFile(c, "marker", v) => disk' = [disk EXCEPT ![c] = [disk[c] EXCEPT !.marker = v]]
         /\ WriteFile(c, "result", v) => disk' = [disk EXCEPT ![c] = [disk[c] EXCEPT !.result = v]]
         /\ WriteFile(c, "papers", v) => disk' = [disk EXCEPT ![c] = [disk[c] EXCEPT !.papers = v]]
         /\ WriteFile(c, "terminal", v) => disk' = [disk EXCEPT ![c] = [disk[c] EXCEPT !.terminal = v]]
<1> QED
  BY DEF WriteFile, TypeOK, Directories

LEMMA PrepareKeeps ==
  ASSUME Inv, NEW c \in Cell, Prepare(c)
  PROVE  Inv'
<1>0. TypeOK /\ disk[c] \in Directories
  BY DEF Inv, TypeOK
<1>1. PICK d \in Directories :
        /\ disk' = [disk EXCEPT ![c] = d]
        /\ d.marker = disk[c].marker /\ d.result = disk[c].result /\ d.terminal = disk[c].terminal
  <2>1. CASE WriteFile(c, "prepared", TRUE)
    <3>1. [disk[c] EXCEPT !.prepared = TRUE] \in Directories
      BY <1>0 DEF Directories
    <3>2. QED
      BY <1>0, <2>1, <3>1, FileWritten DEF Directories
  <2>2. CASE UNCHANGED disk
    <3>1. disk' = [disk EXCEPT ![c] = disk[c]]
      BY <1>0, <2>2 DEF TypeOK
    <3>2. QED
      BY <1>0, <3>1
  <2>3. QED
    BY <2>1, <2>2 DEF Prepare
<1>2. /\ disk' \in [Cell -> Directories] /\ disk'[c] = d
      /\ \A x \in Cell \ {c} : disk'[x] = disk[x]
  BY <1>0, <1>1, FileTyped
<1>3. runner' \in Runners /\ runner'.pc \in {"mark", "down"}
  BY <1>0, Moves DEF Prepare, InCell
<1>4. work' \in [Cell -> Grading] /\ \A x \in Cell \ {c} : work'[x] = work[x]
  BY <1>0 DEF Prepare, TypeOK, Grading
<1>5. UNCHANGED <<ledger, agent, launches>> /\ c = Current
  BY DEF Prepare
<1>6. TypeOK'
  BY <1>0, <1>2, <1>3, <1>4, <1>5 DEF TypeOK
<1>7. ~disk[c].marker /\ Durable(disk[c], agent[c], launches[c], work[c])
  BY DEF Inv, CellsAreDurable, Prepare, HasStarted
<1>8. Durable(disk'[c], agent'[c], launches'[c], work'[c])
  BY <1>1, <1>2, <1>5, <1>7 DEF Durable
<1>9. runner'.pc \in InCell => Standing(runner', disk'[c], agent'[c], launches'[c], work'[c])
  BY <1>1, <1>2, <1>3, <1>7 DEF Standing, InCell
<1>10. QED
  BY <1>2, <1>4, <1>5, <1>6, <1>8, <1>9, OwnCell

\* What the invariant says of the current cell.
LEMMA CellFacts ==
  ASSUME Inv, NEW c \in Cell, c = Current
  PROVE  /\ TypeOK /\ disk[c] \in Directories /\ runner \in Runners
         /\ Durable(disk[c], agent[c], launches[c], work[c])
         /\ runner.pc \in InCell => Standing(runner, disk[c], agent[c], launches[c], work[c])
<1> QED
  BY DEF Inv, TypeOK, CellsAreDurable, RunnerStands

\* A step that does no more than write a file of the cell.
LEMMA FileStep ==
  ASSUME Inv, NEW c \in Cell, c = Current, NEW d \in Directories,
         disk' = [disk EXCEPT ![c] = d], runner' \in Runners,
         UNCHANGED <<ledger, agent, work, launches>>,
         Durable(d, agent[c], launches[c], work[c]),
         runner'.pc \in InCell => Standing(runner', d, agent[c], launches[c], work[c])
  PROVE  Inv'
<1>1. TypeOK
  BY DEF Inv
<1>2. /\ disk' \in [Cell -> Directories] /\ disk'[c] = d
      /\ \A x \in Cell \ {c} : disk'[x] = disk[x]
  BY <1>1, FileTyped
<1>3. TypeOK'
  BY <1>1, <1>2 DEF TypeOK
<1>4. QED
  BY <1>2, <1>3, OwnCell

\* A step that changes no file.
LEMMA MoveStep ==
  ASSUME Inv, NEW c \in Cell, c = Current, runner' \in Runners,
         UNCHANGED <<disk, ledger, agent, work, launches>>,
         runner'.pc \in InCell => Standing(runner', disk[c], agent[c], launches[c], work[c])
  PROVE  Inv'
<1>1. TypeOK /\ Durable(disk[c], agent[c], launches[c], work[c])
  BY CellFacts
<1>2. TypeOK'
  BY <1>1 DEF TypeOK
<1>3. QED
  BY <1>1, <1>2, OwnCell

LEMMA MarkKeeps ==
  ASSUME Inv, NEW c \in Cell, Mark(c)
  PROVE  Inv'
<1> DEFINE d == [disk[c] EXCEPT !.marker = TRUE]
<1>1. c = Current /\ runner.pc = "mark" /\ To("start") /\ UNCHANGED <<ledger, agent, work, launches>>
  BY DEF Mark, At, Rest
<1>2. /\ TypeOK /\ disk[c] \in Directories
      /\ Durable(disk[c], agent[c], launches[c], work[c])
      /\ Standing(runner, disk[c], agent[c], launches[c], work[c])
  BY <1>1, CellFacts DEF InCell
<1>3. /\ d \in Directories /\ d.marker /\ d.result = disk[c].result /\ d.terminal = disk[c].terminal
      /\ d.papers = disk[c].papers
  BY <1>2 DEF Directories
<1>4. disk' = [disk EXCEPT ![c] = d]
  BY <1>2, FileWritten DEF Mark
<1>5. runner' \in Runners /\ runner'.pc = "start"
  BY <1>1, <1>2, Moves DEF InCell
<1>6. ~disk[c].marker
  BY <1>1, <1>2 DEF Standing
<1>7. Durable(d, agent[c], launches[c], work[c])
  BY <1>2, <1>3, <1>6 DEF Durable
<1>8. Standing(runner', d, agent[c], launches[c], work[c])
  BY <1>2, <1>3, <1>5, <1>6 DEF Standing, Durable
<1> HIDE DEF d
<1>9. QED
  BY <1>1, <1>3, <1>4, <1>5, <1>7, <1>8, FileStep

LEMMA StartAgentKeeps ==
  ASSUME Inv, NEW c \in Cell, StartAgent(c)
  PROVE  Inv'
<1>1. c = Current /\ runner.pc = "start" /\ To("wait") /\ UNCHANGED <<disk, ledger, work>>
  BY DEF StartAgent, At
<1>2. /\ TypeOK /\ Durable(disk[c], agent[c], launches[c], work[c])
      /\ Standing(runner, disk[c], agent[c], launches[c], work[c])
  BY <1>1, CellFacts DEF InCell
<1>3. launches[c] = 0 /\ disk[c].terminal = None /\ disk[c].marker /\ disk[c].result = None
  BY <1>1, <1>2 DEF Standing, Durable, InCell
<1>4. /\ agent' \in [Cell -> {"none", "runs", "exited"}] /\ agent'[c] = "runs"
      /\ launches' \in [Cell -> Nat] /\ launches'[c] = 1
      /\ \A x \in Cell \ {c} : agent'[x] = agent[x] /\ launches'[x] = launches[x]
  BY <1>2, <1>3 DEF StartAgent, TypeOK
<1>5. runner' \in Runners /\ runner'.pc = "wait"
  BY <1>1, <1>2, Moves DEF InCell
<1>6. TypeOK'
  BY <1>1, <1>2, <1>4, <1>5 DEF TypeOK
<1>7. Durable(disk'[c], agent'[c], launches'[c], work'[c])
  BY <1>1, <1>3, <1>4 DEF Durable
<1>8. Standing(runner', disk'[c], agent'[c], launches'[c], work'[c])
  BY <1>1, <1>3, <1>4, <1>5 DEF Standing, InCell
<1>9. QED
  BY <1>1, <1>4, <1>6, <1>7, <1>8, OwnCell

LEMMA AwaitAgentKeeps ==
  ASSUME Inv, NEW c \in Cell, AwaitAgent(c)
  PROVE  Inv'
<1>1. c = Current /\ runner.pc = "wait" /\ To("grade") /\ UNCHANGED <<ledger, work, launches>>
  BY DEF AwaitAgent, At
<1>2. /\ TypeOK /\ disk[c] \in Directories /\ Durable(disk[c], agent[c], launches[c], work[c])
      /\ Standing(runner, disk[c], agent[c], launches[c], work[c])
  BY <1>1, CellFacts DEF InCell
<1>3. PICK result \in Results : WriteFile(c, "result", result)
  BY DEF AwaitAgent, Results
<1> DEFINE d == [disk[c] EXCEPT !.result = result]
<1>4. /\ d \in Directories /\ d.marker = disk[c].marker /\ d.result = result /\ d.terminal = disk[c].terminal
  BY <1>2 DEF Directories
<1>5. result # None
  BY CausalRunAssumption DEF Results
<1>6. disk' = [disk EXCEPT ![c] = d]
  BY <1>2, <1>3, FileWritten
<1>7. launches[c] = 1 /\ disk[c].terminal = None /\ disk[c].marker
  BY <1>1, <1>2 DEF Standing, InCell
<1> HIDE DEF d
<1>8. /\ disk' \in [Cell -> Directories] /\ disk'[c] = d
      /\ \A x \in Cell \ {c} : disk'[x] = disk[x]
  BY <1>2, <1>4, <1>6, FileTyped
<1>9. /\ agent' \in [Cell -> {"none", "runs", "exited"}] /\ agent'[c] = "exited"
      /\ \A x \in Cell \ {c} : agent'[x] = agent[x]
  BY <1>2 DEF AwaitAgent, TypeOK
<1>10. runner' \in Runners /\ runner'.pc = "grade"
  BY <1>1, <1>2, Moves DEF InCell
<1>11. TypeOK'
  BY <1>1, <1>2, <1>8, <1>9, <1>10 DEF TypeOK
<1>12. Durable(disk'[c], agent'[c], launches'[c], work'[c])
  <2>1. launches'[c] = 1 /\ agent'[c] = "exited"
    BY <1>1, <1>7, <1>9
  <2>2. d.marker /\ d.terminal = None
    BY <1>4, <1>7
  <2>3. Durable(d, agent'[c], launches'[c], work'[c])
    BY <2>1, <2>2 DEF Durable
  <2>4. QED
    BY <1>8, <2>3
<1>13. Standing(runner', disk'[c], agent'[c], launches'[c], work'[c])
  BY <1>4, <1>5, <1>7, <1>8, <1>10 DEF Standing, InCell
<1>14. QED
  BY <1>1, <1>8, <1>9, <1>11, <1>12, <1>13, OwnCell

\* Before there is a terminal, papers come and go.
LEMMA PapersWritten ==
  ASSUME Inv, NEW c \in Cell, c = Current, disk[c].terminal = None, NEW p \in Papers, WriteFile(c, "papers", p)
  PROVE  \E d \in Directories :
           /\ disk' = [disk EXCEPT ![c] = d]
           /\ d.marker = disk[c].marker /\ d.result = disk[c].result /\ d.terminal = None /\ d.papers = p
           /\ Durable(d, agent[c], launches[c], work[c])
<1> DEFINE d == [disk[c] EXCEPT !.papers = p]
<1>1. TypeOK /\ disk[c] \in Directories /\ Durable(disk[c], agent[c], launches[c], work[c])
  BY CellFacts
<1>2. d \in Directories /\ d.marker = disk[c].marker /\ d.result = disk[c].result /\ d.terminal = None /\ d.papers = p
  BY <1>1 DEF Directories
<1>3. disk' = [disk EXCEPT ![c] = d]
  BY <1>1, FileWritten
<1> HIDE DEF d
<1>4. Durable(d, agent[c], launches[c], work[c])
  BY <1>1, <1>2 DEF Durable
<1>5. QED
  BY <1>2, <1>3, <1>4

LEMMA GradeKeeps ==
  ASSUME Inv, NEW c \in Cell, Grade(c)
  PROVE  Inv'
<1>1. c = Current /\ runner.pc = "grade" /\ To("transcribe") /\ UNCHANGED <<ledger, agent, work, launches>>
  BY DEF Grade, At, Rest
<1>2. TypeOK /\ Standing(runner, disk[c], agent[c], launches[c], work[c])
  BY <1>1, CellFacts DEF InCell
<1>3. disk[c].marker /\ disk[c].result # None /\ disk[c].terminal = None
  BY <1>1, <1>2 DEF Standing, InCell
<1>4. PICK g \in Grading : /\ g = "green" => work[c] = "green"
                          /\ WriteFile(c, "papers", [step |-> "graded", grade |-> g])
  <2>1. work[c] \in Grading
    BY <1>2 DEF TypeOK
  <2>2. PICK g \in {work[c]} \cup (IF c \in late THEN {"architecture", "typecheck", "tests"} ELSE {}) :
          WriteFile(c, "papers", [step |-> "graded", grade |-> g])
    BY DEF Grade
  <2>3. g \in Grading /\ (g = "green" => work[c] = "green")
    BY <2>1, <2>2 DEF Grading
  <2>4. QED
    BY <2>2, <2>3
<1> DEFINE p == [step |-> "graded", grade |-> g]
<1>5. p \in Papers /\ p.grade = g
  BY DEF Papers
<1>6. WriteFile(c, "papers", p)
  BY <1>4
<1> HIDE DEF p
<1>7. PICK d \in Directories :
        /\ disk' = [disk EXCEPT ![c] = d]
        /\ d.marker = disk[c].marker /\ d.result = disk[c].result /\ d.terminal = None /\ d.papers = p
        /\ Durable(d, agent[c], launches[c], work[c])
  BY <1>1, <1>3, <1>5, <1>6, PapersWritten
<1>8. runner' \in Runners /\ runner'.pc = "transcribe"
  BY <1>1, <1>2, Moves DEF InCell
<1>9. Standing(runner', d, agent[c], launches[c], work[c])
  BY <1>3, <1>4, <1>5, <1>7, <1>8 DEF Standing
<1>10. QED
  BY <1>1, <1>7, <1>8, <1>9, FileStep

\* The terminal says green only of what was graded green, and never that the
\* run was interrupted.
LEMMA TerminalEarned ==
  ASSUME NEW c \in Cell, NEW grade \in Grading, NEW result
  PROVE  LET t == Terminal(c, grade, result) IN
         /\ t \in Terminals /\ t.reason # "interrupted"
         /\ t.papers = [step |-> "classified", grade |-> grade]
         /\ t.outcome = "first_valid" => grade = "green" /\ ~result.overTurns
<1> DEFINE t == Terminal(c, grade, result)
           valid == grade = "green" /\ c \notin late /\ ~result.overTurns
<1>1. t.papers = [step |-> "classified", grade |-> grade] /\ t.papers \in Papers
  BY DEF Terminal, Papers
<1>2. t.outcome = (IF valid THEN "first_valid" ELSE "censored") /\ t.green = (grade = "green")
  BY DEF Terminal
<1>3. t.reason \in {"none", "turn_cap_exceeded", "cap_reached", "agent_exit", "grader"}
  BY DEF Terminal
<1>4. t = [outcome |-> t.outcome, reason |-> t.reason, green |-> t.green, papers |-> t.papers]
  BY DEF Terminal
<1>5. t \in Terminals
  BY <1>1, <1>2, <1>3, <1>4 DEF Terminals
<1>6. QED
  BY <1>1, <1>2, <1>3, <1>5

LEMMA TranscribeKeeps ==
  ASSUME Inv, NEW c \in Cell, Transcribe(c)
  PROVE  Inv'
<1> DEFINE old == disk[c].papers
           p == [old EXCEPT !.step = "transcribed"]
           t == Terminal(c, old.grade, disk[c].result)
<1>1. /\ c = Current /\ runner.pc = "transcribe" /\ UNCHANGED <<ledger, agent, work, launches>>
      /\ runner' = [pc |-> "classify", terminal |-> t] /\ WriteFile(c, "papers", p)
  BY DEF Transcribe, At, Rest
<1>2. /\ TypeOK /\ Durable(disk[c], agent[c], launches[c], work[c])
      /\ Standing(runner, disk[c], agent[c], launches[c], work[c])
  BY <1>1, CellFacts DEF InCell
<1>3. /\ disk[c].marker /\ disk[c].result # None /\ disk[c].terminal = None
      /\ old \in Papers /\ (old.grade = "green" => work[c] = "green")
  BY <1>1, <1>2 DEF Standing, InCell
<1>4. p \in Papers /\ [p EXCEPT !.step = "classified"] = [step |-> "classified", grade |-> old.grade] /\ old.grade \in Grading
  <2>1. old = [step |-> old.step, grade |-> old.grade] /\ old.grade \in Grading
    BY <1>3 DEF Papers
  <2>2. p = [step |-> "transcribed", grade |-> old.grade]
    BY <2>1
  <2>3. p \in Papers
    BY <2>1, <2>2 DEF Papers
  <2> HIDE DEF p
  <2>4. [p EXCEPT !.step = "classified"] = [step |-> "classified", grade |-> old.grade]
    BY <2>2
  <2>5. QED
    BY <2>1, <2>3, <2>4
<1>5. /\ t \in Terminals /\ t.reason # "interrupted"
      /\ t.papers = [p EXCEPT !.step = "classified"]
      /\ t.outcome = "first_valid" => old.grade = "green" /\ ~disk[c].result.overTurns
  BY <1>4, TerminalEarned
<1>6. runner' \in Runners /\ runner'.pc = "classify" /\ runner'.terminal = t
  BY <1>1, <1>5 DEF Runners, InCell
<1> HIDE DEF p, t
<1>7. PICK d \in Directories :
        /\ disk' = [disk EXCEPT ![c] = d]
        /\ d.marker = disk[c].marker /\ d.result = disk[c].result /\ d.terminal = None /\ d.papers = p
        /\ Durable(d, agent[c], launches[c], work[c])
  BY <1>1, <1>3, <1>4, PapersWritten
<1>8. Earned(t, d, agent[c], launches[c], work[c])
  BY <1>2, <1>3, <1>5, <1>7 DEF Earned, Durable
<1>9. Standing(runner', d, agent[c], launches[c], work[c])
  BY <1>3, <1>4, <1>5, <1>6, <1>7, <1>8 DEF Standing
<1>10. QED
  BY <1>1, <1>6, <1>7, <1>9, FileStep

LEMMA ClassifyKeeps ==
  ASSUME Inv, NEW c \in Cell, Classify(c)
  PROVE  Inv'
<1> DEFINE p == [disk[c].papers EXCEPT !.step = "classified"]
<1>1. /\ c = Current /\ runner.pc = "classify" /\ UNCHANGED <<ledger, agent, work, launches>>
      /\ To("terminal") /\ WriteFile(c, "papers", p)
  BY DEF Classify, At, Rest
<1>2. /\ TypeOK /\ Standing(runner, disk[c], agent[c], launches[c], work[c])
  BY <1>1, CellFacts DEF InCell
<1>3. /\ disk[c].marker /\ disk[c].result # None /\ disk[c].terminal = None
      /\ disk[c].papers \in Papers /\ runner.terminal \in Terminals /\ runner.terminal.papers = p
      /\ Earned(runner.terminal, disk[c], agent[c], launches[c], work[c])
  BY <1>1, <1>2 DEF Standing, InCell
<1>4. p \in Papers
  BY <1>3 DEF Papers
<1>5. runner' \in Runners /\ runner'.pc = "terminal" /\ runner'.terminal = runner.terminal
  BY <1>1, <1>2, Moves DEF InCell
<1> HIDE DEF p
<1>6. PICK d \in Directories :
        /\ disk' = [disk EXCEPT ![c] = d]
        /\ d.marker = disk[c].marker /\ d.result = disk[c].result /\ d.terminal = None /\ d.papers = p
        /\ Durable(d, agent[c], launches[c], work[c])
  BY <1>1, <1>3, <1>4, PapersWritten
<1>7. Earned(runner.terminal, d, agent[c], launches[c], work[c])
  BY <1>3, <1>6 DEF Earned
<1>8. Standing(runner', d, agent[c], launches[c], work[c])
  BY <1>3, <1>4, <1>5, <1>6, <1>7 DEF Standing
<1>9. QED
  BY <1>1, <1>5, <1>6, <1>8, FileStep

LEMMA WriteTerminalKeeps ==
  ASSUME Inv, NEW c \in Cell, WriteTerminal(c)
  PROVE  Inv'
<1> DEFINE t == runner.terminal
           d == [disk[c] EXCEPT !.terminal = t]
<1>1. /\ c = Current /\ runner.pc = "terminal" /\ UNCHANGED <<ledger, agent, work, launches>>
      /\ To("append") /\ WriteFile(c, "terminal", t)
  BY DEF WriteTerminal, At, Rest
<1>2. /\ TypeOK /\ disk[c] \in Directories /\ Durable(disk[c], agent[c], launches[c], work[c])
      /\ Standing(runner, disk[c], agent[c], launches[c], work[c])
  BY <1>1, CellFacts DEF InCell
<1>3. /\ disk[c].marker /\ disk[c].result # None
      /\ t \in Terminals /\ t.papers = disk[c].papers
      /\ Earned(t, disk[c], agent[c], launches[c], work[c])
  BY <1>1, <1>2 DEF Standing, InCell
<1>4. /\ d \in Directories /\ d.marker = disk[c].marker /\ d.result = disk[c].result /\ d.papers = disk[c].papers
      /\ d.terminal = t
  BY <1>2, <1>3 DEF Directories
<1>5. disk' = [disk EXCEPT ![c] = d]
  BY <1>1, <1>2, FileWritten
<1>6. runner' \in Runners /\ runner'.pc = "append" /\ runner'.terminal = t
  BY <1>1, <1>2, Moves DEF InCell
<1> HIDE DEF t, d
<1>7. Stands(t, d, agent[c], launches[c], work[c])
  BY <1>3, <1>4 DEF Stands, Earned
<1>8. Durable(d, agent[c], launches[c], work[c])
  BY <1>2, <1>3, <1>4, <1>7 DEF Durable
<1>9. Standing(runner', d, agent[c], launches[c], work[c])
  BY <1>3, <1>4, <1>6, <1>7 DEF Standing, Stands
<1>10. QED
  BY <1>1, <1>4, <1>5, <1>6, <1>8, <1>9, FileStep

LEMMA RecoverKeeps ==
  ASSUME Inv, NEW c \in Cell, Recover(c)
  PROVE  Inv'
<1>1. c = Current /\ UNCHANGED <<ledger, agent, work, launches>> /\ disk[c].marker
  BY DEF Recover, Rest, HasStarted
<1>2. TypeOK /\ Durable(disk[c], agent[c], launches[c], work[c])
  BY <1>1, CellFacts
<1>3. CASE disk[c].terminal # None /\ UNCHANGED disk
  <2> DEFINE t == disk[c].terminal
  <2>1. t \in Terminals /\ Stands(t, disk[c], agent[c], launches[c], work[c])
    BY <1>2, <1>3 DEF TypeOK, Directories, Durable
  <2>2. runner' = [pc |-> "append", terminal |-> t] \/ To("down")
    BY <1>3 DEF Recover
  <2>3. runner' \in Runners
    BY <1>2, <2>1, <2>2, Moves DEF Runners, InCell
  <2>4. runner'.pc \in InCell => runner'.pc = "append" /\ runner'.terminal = t
    BY <1>2, <2>2, Moves DEF InCell
  <2> HIDE DEF t
  <2>5. runner'.pc \in InCell => Standing(runner', disk[c], agent[c], launches[c], work[c])
    BY <1>1, <2>1, <2>4 DEF Standing, Stands
  <2>6. QED
    BY <1>1, <1>3, <2>3, <2>5, MoveStep
<1>4. CASE disk[c].terminal = None /\ disk[c].result # None /\ To("grade") /\ UNCHANGED disk
  <2>1. runner' \in Runners /\ runner'.pc = "grade"
    BY <1>2, <1>4, Moves DEF InCell
  <2>2. Standing(runner', disk[c], agent[c], launches[c], work[c])
    BY <1>1, <1>4, <2>1 DEF Standing
  <2>3. QED
    BY <1>1, <1>4, <2>1, <2>2, MoveStep
<1>5. CASE /\ disk[c].terminal = None /\ disk[c].result = None
           /\ WriteFile(c, "papers", Interrupted.papers)
           /\ runner' = [pc |-> "append", terminal |-> Interrupted]
  <2>1. /\ Interrupted \in Terminals /\ Interrupted.papers \in Papers
        /\ Interrupted.outcome = "censored" /\ Interrupted.reason = "interrupted"
    BY DEF Interrupted, Terminals, Papers, Grading
  <2>2. PICK d \in Directories :
          /\ disk' = [disk EXCEPT ![c] = d]
          /\ d.marker = disk[c].marker /\ d.result = disk[c].result /\ d.terminal = None
          /\ d.papers = Interrupted.papers
          /\ Durable(d, agent[c], launches[c], work[c])
    BY <1>1, <1>5, <2>1, PapersWritten
  <2>3. runner' \in Runners /\ runner'.pc = "append" /\ runner'.terminal = Interrupted
    BY <1>5, <2>1 DEF Runners, InCell
  <2>4. Earned(Interrupted, d, agent[c], launches[c], work[c])
    BY <1>5, <2>1, <2>2 DEF Earned
  <2>5. Standing(runner', d, agent[c], launches[c], work[c])
    BY <1>1, <2>1, <2>2, <2>3, <2>4 DEF Standing
  <2>6. QED
    BY <1>1, <2>2, <2>3, <2>5, FileStep
<1>6. QED
  BY <1>3, <1>4, <1>5 DEF Recover

\* A ledger that grows by one line.
LEMMA Appended ==
  ASSUME TypeOK, NEW t \in Terminals \cup {"mutation"}, ledger' = Append(ledger, t)
  PROVE  /\ ledger' \in Seq(Terminals \cup {"mutation"}) /\ Current' = Current + 1
         /\ DOMAIN ledger' = DOMAIN ledger \cup {Current} /\ ledger'[Current] = t
         /\ \A i \in DOMAIN ledger : ledger'[i] = ledger[i]
<1> QED
  BY DEF TypeOK, Current

LEMMA AppendCellTerminalKeeps ==
  ASSUME Inv, NEW c \in Cell, AppendCellTerminal(c)
  PROVE  Inv'
<1> DEFINE t == runner.terminal
<1>1. c = Current /\ runner.pc = "append" /\ UNCHANGED <<disk, agent, work, launches>>
  BY DEF AppendCellTerminal, At
<1>2. /\ TypeOK /\ Standing(runner, disk[c], agent[c], launches[c], work[c])
  BY <1>1, CellFacts DEF InCell
<1>3. t \in Terminals /\ disk[c].marker /\ Stands(t, disk[c], agent[c], launches[c], work[c])
  BY <1>1, <1>2 DEF Standing, Stands, InCell
<1>4. runner' \in Runners /\ runner'.pc \notin InCell
  BY <1>2, Moves DEF AppendCellTerminal, InCell
<1>5. CASE ledger' = Append(ledger, t)
  <2> HIDE DEF t
  <2>1. /\ ledger' \in Seq(Terminals \cup {"mutation"}) /\ Current' = Current + 1
        /\ DOMAIN ledger' = DOMAIN ledger \cup {Current} /\ ledger'[Current] = t
        /\ \A i \in DOMAIN ledger : ledger'[i] = ledger[i]
    BY <1>2, <1>3, <1>5, Appended
  <2>2. TypeOK'
    BY <1>1, <1>2, <1>4, <2>1 DEF TypeOK
  <2>3. CellsAreDurable'
    BY <1>1 DEF Inv, CellsAreDurable, Cell
  <2>4. LedgerStands'
    <3> SUFFICES ASSUME NEW i \in DOMAIN ledger', i \in Cell
                 PROVE  disk[i].marker /\ Stands(ledger'[i], disk[i], agent[i], launches[i], work[i])
      BY <1>1 DEF LedgerStands, Cell
    <3>1. CASE i = Current
      BY <1>1, <1>3, <2>1, <3>1
    <3>2. CASE i \in DOMAIN ledger
      BY <2>1, <3>2 DEF Inv, LedgerStands
    <3>3. QED
      BY <2>1, <3>1, <3>2
  <2>5. AheadIsUntouched'
    BY <1>1, <2>1, Position DEF Inv, AheadIsUntouched, Cell
  <2>6. RunnerStands'
    BY <1>4 DEF RunnerStands
  <2>7. QED
    BY <2>2, <2>3, <2>4, <2>5, <2>6 DEF Inv
<1>6. CASE UNCHANGED ledger
  BY <1>1, <1>4, <1>6, MoveStep
<1>7. QED
  BY <1>5, <1>6 DEF AppendCellTerminal

LEMMA AppendMutationKeeps ==
  ASSUME Inv, AppendMutation
  PROVE  Inv'
<1>1. TypeOK
  BY DEF Inv
<1>2. /\ ledger' \in Seq(Terminals \cup {"mutation"}) /\ Current' = Current + 1
      /\ DOMAIN ledger' = DOMAIN ledger \cup {Current}
      /\ \A i \in DOMAIN ledger : ledger'[i] = ledger[i]
  BY <1>1, Appended DEF AppendMutation
<1>3. UNCHANGED <<disk, agent, work, launches>> /\ Current = Cells + 1
  BY DEF AppendMutation
<1>4. runner' \in Runners /\ runner'.pc = "done"
  BY <1>1, Moves DEF AppendMutation
<1>5. TypeOK'
  BY <1>1, <1>2, <1>3, <1>4 DEF TypeOK
<1>6. CellsAreDurable'
  BY <1>3 DEF Inv, CellsAreDurable, Cell
<1>7. LedgerStands'
  <2>1. Current \notin Cell
    BY <1>3, CausalRunAssumption DEF Cell
  <2>2. QED
    BY <1>2, <1>3, <2>1 DEF Inv, LedgerStands, Cell
<1>8. AheadIsUntouched'
  BY <1>1, <1>2, <1>3, Position DEF Inv, AheadIsUntouched, Cell
<1>9. RunnerStands'
  BY <1>4 DEF RunnerStands, InCell
<1>10. QED
  BY <1>5, <1>6, <1>7, <1>8, <1>9 DEF Inv

\* Between cells, and when it dies, the runner holds nothing that matters.
LEMMA BetweenCells ==
  ASSUME Inv, runner' \in Runners, runner'.pc \notin InCell, UNCHANGED <<disk, ledger, agent, work, launches>>
  PROVE  Inv'
<1>1. TypeOK'
  BY DEF Inv, TypeOK
<1>2. CellsAreDurable' /\ LedgerStands' /\ AheadIsUntouched'
  BY DEF Inv, CellsAreDurable, LedgerStands, AheadIsUntouched, Current, Cell
<1>3. RunnerStands'
  BY DEF RunnerStands
<1>4. QED
  BY <1>1, <1>2, <1>3 DEF Inv

\* What a cell has earned does not depend on what a running agent does.
LEMMA AgentIsOutlived ==
  ASSUME NEW d, NEW l, NEW a, NEW w, NEW b, NEW v, a = "runs", b \in {"runs", "exited"}
  PROVE  /\ \A t : Earned(t, d, a, l, w) => Earned(t, d, b, l, v)
         /\ Durable(d, a, l, w) => Durable(d, b, l, v)
         /\ \A r : Durable(d, a, l, w) /\ Standing(r, d, a, l, w) => Standing(r, d, b, l, v)
<1>1. \A t : Earned(t, d, a, l, w) => Earned(t, d, b, l, v)
  BY DEF Earned
<1>2. Durable(d, a, l, w) => Durable(d, b, l, v)
  BY <1>1 DEF Durable, Stands
<1>3. ASSUME NEW r, Durable(d, a, l, w), Standing(r, d, a, l, w)
      PROVE  Standing(r, d, b, l, v)
  <2>1. d.result = None
    BY <1>3 DEF Durable
  <2>2. QED
    BY <1>1, <1>3, <2>1 DEF Standing
<1>4. QED
  BY <1>1, <1>2, <1>3

LEMMA AgentKeeps ==
  ASSUME Inv, NEW c \in Cell, AgentWrites(c) \/ AgentExits(c), work' \in [Cell -> Grading]
  PROVE  Inv'
<1>1. agent[c] = "runs" /\ UNCHANGED <<disk, ledger, runner, launches>>
  BY DEF AgentWrites, AgentExits
<1>2. TypeOK
  BY DEF Inv
<1>3. /\ agent' \in [Cell -> {"none", "runs", "exited"}] /\ agent'[c] \in {"runs", "exited"}
      /\ \A x \in Cell \ {c} : agent'[x] = agent[x] /\ work'[x] = work[x]
  BY <1>1, <1>2 DEF TypeOK, AgentWrites, AgentExits
<1>4. TypeOK'
  BY <1>1, <1>2, <1>3 DEF TypeOK
<1>5. \A x \in Cell :
        /\ \A t : Earned(t, disk[x], agent[x], launches[x], work[x]) => Earned(t, disk[x], agent'[x], launches[x], work'[x])
        /\ Durable(disk[x], agent[x], launches[x], work[x]) => Durable(disk[x], agent'[x], launches[x], work'[x])
        /\ \A r : Durable(disk[x], agent[x], launches[x], work[x]) /\ Standing(r, disk[x], agent[x], launches[x], work[x])
                    => Standing(r, disk[x], agent'[x], launches[x], work'[x])
  <2> SUFFICES ASSUME NEW x \in Cell
               PROVE  /\ \A t : Earned(t, disk[x], agent[x], launches[x], work[x]) => Earned(t, disk[x], agent'[x], launches[x], work'[x])
                      /\ Durable(disk[x], agent[x], launches[x], work[x]) => Durable(disk[x], agent'[x], launches[x], work'[x])
                      /\ \A r : Durable(disk[x], agent[x], launches[x], work[x]) /\ Standing(r, disk[x], agent[x], launches[x], work[x])
                                  => Standing(r, disk[x], agent'[x], launches[x], work'[x])
    OBVIOUS
  <2>1. CASE x = c
    BY <1>1, <1>3, <2>1, AgentIsOutlived
  <2>2. CASE x # c
    BY <1>3, <2>2
  <2>3. QED
    BY <2>1, <2>2
<1>6. CellsAreDurable'
  BY <1>1, <1>5 DEF Inv, CellsAreDurable, Cell
<1>7. LedgerStands'
  BY <1>1, <1>5 DEF Inv, LedgerStands, Stands, Cell
<1>8. Current' = Current
  BY <1>1 DEF Current
<1>9. AheadIsUntouched'
  BY <1>1, <1>8 DEF Inv, AheadIsUntouched, Cell
<1>10. RunnerStands'
  BY <1>1, <1>5, <1>8 DEF Inv, RunnerStands, CellsAreDurable, Cell
<1>11. QED
  BY <1>4, <1>6, <1>7, <1>9, <1>10 DEF Inv

-----------------------------------------------------------------------------
LEMMA InitInv == Init => Inv
<1> SUFFICES ASSUME Init PROVE Inv
  OBVIOUS
<1>1. \A c \in Cell : disk[c] = Empty /\ agent[c] = "none" /\ launches[c] = 0
  BY DEF Init
<1>2. Empty \in Directories /\ ~Empty.marker /\ Empty.result = None /\ Empty.terminal = None
  BY DEF Empty, Directories
<1>3. TypeOK
  BY <1>2 DEF Init, TypeOK, Runners, Grading
<1>4. CellsAreDurable
  BY <1>1, <1>2 DEF CellsAreDurable, Durable
<1>5. LedgerStands /\ RunnerStands
  BY DEF Init, LedgerStands, RunnerStands, InCell
<1>6. AheadIsUntouched
  BY <1>1, <1>2 DEF AheadIsUntouched
<1>7. QED
  BY <1>3, <1>4, <1>5, <1>6 DEF Inv

LEMMA CellStepKeeps ==
  ASSUME Inv, NEW c \in Cell, CellStep(c)
  PROVE  Inv'
<1> QED
  BY PrepareKeeps, MarkKeeps, StartAgentKeeps, AwaitAgentKeeps, GradeKeeps, TranscribeKeeps, ClassifyKeeps,
     WriteTerminalKeeps, RecoverKeeps, AppendCellTerminalKeeps DEF CellStep

LEMMA NextInv == Inv /\ [Next]_vars => Inv'
<1> SUFFICES ASSUME Inv, [Next]_vars PROVE Inv'
  OBVIOUS
<1>0. TypeOK
  BY DEF Inv
<1>1. CASE Launch \/ Report
  <2>1. runner' \in Runners /\ runner'.pc \in {"next", "done"}
    BY <1>0, <1>1, Moves DEF Launch, Report
  <2>2. UNCHANGED <<disk, ledger, agent, work, launches>>
    BY <1>1 DEF Launch, Report, Rest
  <2>3. QED
    BY <2>1, <2>2, BetweenCells DEF InCell
<1>2. CASE Crash
  <2>1. runner' \in Runners /\ runner'.pc = "down"
    BY <1>2 DEF Crash, Runners
  <2>2. UNCHANGED <<disk, ledger, agent, work, launches>>
    BY <1>2 DEF Crash
  <2>3. QED
    BY <2>1, <2>2, BetweenCells DEF InCell
<1>3. CASE AppendMutation
  BY <1>3, AppendMutationKeeps
<1>4. ASSUME NEW c \in Cell, CellStep(c) PROVE Inv'
  BY <1>4, CellStepKeeps
<1>5. ASSUME NEW c \in Cell, AgentWrites(c) \/ AgentExits(c) PROVE Inv'
  <2>1. work' \in [Cell -> Grading]
    BY <1>0, <1>5 DEF AgentWrites, AgentExits, TypeOK, Grading
  <2>2. QED
    BY <1>5, <2>1, AgentKeeps
<1>6. CASE (\E c \in Cell : CapPasses(c)) \/ UNCHANGED vars
  <2>1. UNCHANGED <<disk, ledger, runner, agent, work, launches>>
    BY <1>6 DEF CapPasses, vars
  <2>2. TypeOK'
    BY <1>0, <2>1 DEF TypeOK
  <2>3. CellsAreDurable' /\ LedgerStands' /\ AheadIsUntouched' /\ RunnerStands'
    BY <2>1 DEF Inv, CellsAreDurable, LedgerStands, AheadIsUntouched, RunnerStands, Current, Cell
  <2>4. QED
    BY <2>2, <2>3 DEF Inv
<1>7. QED
  BY <1>1, <1>2, <1>3, <1>4, <1>5, <1>6 DEF Next

\* Wherever the runner dies, the files of each cell alone say what can still
\* be said of it, and every terminal is what its evidence says.
THEOREM EvaluationInductive == Spec => []Inv
<1>1. QED
  BY InitInv, NextInv, PTL DEF Spec

\* No crash gives a cell a second attempt, lets a run count that was not graded
\* green on the workspace it left, or separates a terminal from its evidence.
THEOREM LedgerIsHonestAlways == Spec => []LedgerIsHonest
<1>1. Inv => LedgerIsHonest
  <2> SUFFICES ASSUME Inv PROVE LedgerIsHonest
    OBVIOUS
  <2>1. \A c \in Cell : launches[c] <= 1
    BY DEF Inv, CellsAreDurable, Durable
  <2>2. QED
    BY <2>1 DEF Inv, LedgerStands, Stands, Earned, LedgerIsHonest
<1>2. QED
  BY <1>1, EvaluationInductive, PTL
===============================================================================
