------------------------------ MODULE CausalEvidence ------------------------------
(***************************************************************************)
(* What the causal evaluation may conclude (eval/causal/contract, analyze  *)
(* and generate-manifest): the manifest that registers every cell before   *)
(* anything runs, the hash-chained ledger of their terminals, and the      *)
(* analysis of a ledger that verifies.  Someone may edit the manifest or   *)
(* the ledger at any time, and hash an edited ledger anew.  A hash is the  *)
(* value it is taken of.                                                   *)
(***************************************************************************)
EXTENDS Integers, Sequences, FiniteSets, SequencesExt, FiniteSetsExt

CONSTANTS
  Subject, RepositoryOf, ManagerOf, \* tasks, their repositories, and the package managers of those
  Replicates,                       \* sessions per arm
  Rank,                             \* where the order seed puts a cell
  MutationRanges,                   \* id -> file and lines that mutation testing must cover
  Tau, EarlyTimes,                  \* the time cap, and times of a first valid state below it
  Percentiles,                      \* in per cent
  MaxAmendments, None

VARIABLES manifest, entries, appended, amendments, tampered, resealed, report
evidenceVars == <<manifest, entries, appended, amendments, tampered, resealed, report>>

Arm == {"control", "treatment"}
Repositories(m) == {RepositoryOf[t] : t \in m.tasks}
Distinct(runs, field) == \A i, j \in DOMAIN runs : runs[i][field] = runs[j][field] => i = j

-----------------------------------------------------------------------------
\* The manifest: as generated, and what is admitted.
BuildRuns(tasks) ==
  LET cells == SetToSortSeq(tasks \X (1 .. Replicates) \X Arm, LAMBDA a, b : Rank[a] < Rank[b]) IN
  [i \in DOMAIN cells |->
     [cell |-> cells[i], pair |-> <<cells[i][1], cells[i][2]>>, repository |-> RepositoryOf[cells[i][1]],
      task |-> cells[i][1], replicate |-> cells[i][2], arm |-> cells[i][3], session |-> i, workspace |-> cells[i], order |-> i]]
Generated ==
  [tasks |-> Subject, managers |-> {ManagerOf[RepositoryOf[t]] : t \in Subject}, prompts |-> Subject,
   runs |-> BuildRuns(Subject), ranges |-> MutationRanges]

ValidRuns(m) ==
  LET runs == m.runs IN
  /\ Len(runs) = 2 * Replicates * Cardinality(m.tasks)
  /\ \A i \in DOMAIN runs :
       /\ runs[i].task \in m.tasks /\ runs[i].repository = RepositoryOf[runs[i].task]
       /\ runs[i].replicate \in 1 .. Replicates /\ runs[i].order = i
  /\ \A i \in DOMAIN runs : i > 1 => Rank[runs[i - 1].cell] < Rank[runs[i].cell]
  /\ \A field \in {"cell", "session", "workspace"} : Distinct(runs, field)
  /\ \A i, j \in DOMAIN runs :
       LET together == runs[i].task = runs[j].task /\ runs[i].replicate = runs[j].replicate IN
       /\ together <=> runs[i].pair = runs[j].pair
       /\ together /\ i # j => runs[i].arm # runs[j].arm
  /\ \A c \in m.tasks \X (1 .. Replicates) \X Arm : \E i \in DOMAIN runs : <<runs[i].task, runs[i].replicate, runs[i].arm>> = c
ValidMutation(ranges) ==
  /\ DOMAIN ranges = DOMAIN MutationRanges
  /\ \A id \in DOMAIN ranges : ranges[id].file = MutationRanges[id].file /\ ranges[id].first <= ranges[id].last
  /\ \A a, b \in DOMAIN ranges :
       a # b /\ ranges[a].file = ranges[b].file => ranges[a].last < ranges[b].first \/ ranges[b].last < ranges[a].first
ValidRepositories(m) == \A t \in Subject : ManagerOf[RepositoryOf[t]] \in m.managers
\* Every task's prompt is the one its digest was taken of, and every repository has a task.
ValidTasks(m) == m.tasks \subseteq m.prompts /\ \A t \in Subject : RepositoryOf[t] \in Repositories(m)
ValidManifest(m) == ValidRepositories(m) /\ ValidTasks(m) /\ ValidRuns(m) /\ ValidMutation(m.ranges)

-----------------------------------------------------------------------------
\* Terminals.  "stages" says that the grader passed in all of its stages.
FirstValid(t, start) ==
  [outcome |-> "first_valid", firstValid |-> t, censoredAt |-> None, restricted |-> t, reason |-> None,
   stages |-> TRUE, completed |-> TRUE, ci |-> "green", started |-> start, finished |-> start + t]
Censored(green, start) ==
  [outcome |-> "censored", firstValid |-> None, censoredAt |-> Tau, restricted |-> Tau,
   reason |-> IF green THEN "cap_reached" ELSE "grader", stages |-> green, completed |-> green,
   ci |-> IF green THEN "green" ELSE "red", started |-> start, finished |-> start + Tau]
Terminals(start) == {FirstValid(t, start) : t \in EarlyTimes} \cup {Censored(green, start) : green \in BOOLEAN}

ValidTerminal(t) ==
  /\ t.finished - t.started \in 0 .. Tau /\ t.restricted \in 0 .. Tau
  /\ IF t.outcome = "first_valid"
       THEN /\ t.firstValid \in 1 .. Tau /\ t.censoredAt = None /\ t.reason = None /\ t.stages
            /\ t.restricted = t.firstValid /\ t.completed /\ t.ci = "green"
            /\ t.finished - t.started >= t.firstValid
       ELSE /\ t.firstValid = None /\ t.censoredAt = Tau /\ t.restricted = Tau /\ t.reason # None
            /\ IF t.reason = "cap_reached" /\ t.stages THEN t.completed /\ t.ci = "green"
               ELSE ~t.stages /\ ~t.completed /\ t.ci # "green"

-----------------------------------------------------------------------------
\* The ledger: one terminal for every cell in the registered order, and the
\* proof of mutation testing.
HashOf(e) == [e EXCEPT !.hash = None]
SealEntry(e, previous) == LET linked == [e EXCEPT !.previous = previous] IN [linked EXCEPT !.hash = HashOf(linked)]
LastHash(ledger) == IF ledger = <<>> THEN None ELSE Last(ledger).hash
CellEntry(i, run, terminal) ==
  [kind |-> "cell_terminal", sequence |-> i, manifest |-> manifest, cell |-> run.cell, session |-> run.session,
   print |-> run, terminal |-> terminal, proof |-> None, previous |-> None, hash |-> None]
MutationEntry(i) ==
  [kind |-> "mutation_terminal", sequence |-> i, manifest |-> manifest, cell |-> None, session |-> None, print |-> None,
   terminal |-> None, proof |-> [id \in DOMAIN manifest.ranges |-> [range |-> manifest.ranges[id], noCoverage |-> 0]],
   previous |-> None, hash |-> None]

\* Mutant: an entry is compared with its own hash only.
LinkedToItself(ledger, i) == ledger[i].hash = HashOf(ledger[i])
Linked(ledger, i) ==
  /\ ledger[i].previous = (IF i = 1 THEN None ELSE ledger[i - 1].hash)
  /\ ledger[i].hash = HashOf(ledger[i])
VerifyCell(m, ledger, i) ==
  LET e == ledger[i]  run == m.runs[i] IN
  /\ e.kind = "cell_terminal" /\ e.cell = run.cell /\ e.session = run.session /\ e.print = run
  /\ ValidTerminal(e.terminal)
  /\ i > 1 => e.terminal.started >= ledger[i - 1].terminal.finished
VerifyMutation(m, e) ==
  /\ e.kind = "mutation_terminal"
  /\ DOMAIN e.proof = DOMAIN m.ranges
  /\ \A id \in DOMAIN m.ranges : e.proof[id] = [range |-> m.ranges[id], noCoverage |-> 0]
VerifyLedger(m, ledger) ==
  /\ ValidManifest(m) /\ Len(ledger) = Len(m.runs) + 1
  /\ \A i \in DOMAIN ledger : ledger[i].sequence = i /\ Linked(ledger, i) /\ ledger[i].manifest = m
  /\ \A i \in DOMAIN m.runs : VerifyCell(m, ledger, i)
  /\ VerifyMutation(m, Last(ledger))

-----------------------------------------------------------------------------
\* The analysis.
Outcomes(m, ledger, arm) ==
  LET cells == SelectSeq([i \in DOMAIN m.runs |-> i], LAMBDA i : m.runs[i].arm = arm) IN
  [k \in DOMAIN cells |-> ledger[cells[k]].terminal]
Total(numbers) == FoldSeq(LAMBDA a, b : a + b, 0, numbers)
RestrictedTimes(outcomes) == [k \in DOMAIN outcomes |-> outcomes[k].restricted]
Completed(outcomes) == Len(SelectSeq(outcomes, LAMBDA t : t.completed))
RequiredCompletions(outcomes, p) == (p * Len(outcomes) + 99) \div 100
FirstValidPercentile(outcomes, p) ==
  LET valid == SelectSeq(outcomes, LAMBDA t : t.outcome = "first_valid")
      times == SortSeq([k \in DOMAIN valid |-> valid[k].firstValid], LAMBDA a, b : a < b) IN
  IF Len(times) < RequiredCompletions(outcomes, p) THEN None ELSE times[RequiredCompletions(outcomes, p)]
SummarizeArm(outcomes) ==
  [cells |-> Len(outcomes), completed |-> Completed(outcomes), time |-> Total(RestrictedTimes(outcomes)),
   percentiles |-> [p \in Percentiles |-> FirstValidPercentile(outcomes, p)]]

\* A pair is what one task's replicate gave in the two arms; the bootstrap
\* draws repositories, their tasks and those tasks' replicates.
BuildPairs(m, ledger) ==
  [pair \in {m.runs[i].pair : i \in DOMAIN m.runs} |->
     [arm \in Arm |-> ledger[CHOOSE i \in DOMAIN m.runs : m.runs[i].pair = pair /\ m.runs[i].arm = arm].terminal.restricted]]
Draws(S, n) == [1 .. n -> S]
ReplicateDraws(t) == Draws({<<t, r>> : r \in 1 .. Replicates}, Replicates)
TaskDraws(m, repository) ==
  LET tasks == {t \in m.tasks : RepositoryOf[t] = repository} IN
  UNION {{FlattenSeq(drawn) : drawn \in {d \in Draws(UNION {ReplicateDraws(t) : t \in tasks}, Len(chosen)) :
                                           \A k \in DOMAIN chosen : d[k] \in ReplicateDraws(chosen[k])}} :
         chosen \in Draws(tasks, Cardinality(tasks))}
ResampleHierarchy(m) ==
  LET repositories == Repositories(m) IN
  UNION {{FlattenSeq(drawn) : drawn \in {d \in Draws(UNION {TaskDraws(m, r) : r \in repositories}, Len(chosen)) :
                                           \A k \in DOMAIN chosen : d[k] \in TaskDraws(m, chosen[k])}} :
         chosen \in Draws(repositories, Cardinality(repositories))}
ArmTime(pairs, drawn, arm) == Total([k \in DOMAIN drawn |-> pairs[drawn[k]][arm]])

\* The ratio of the means must be at most 0.8 and the upper end of the
\* bootstrap's interval, the ratio of some draw, below 1; the completion rate
\* may fall by 0.05.
Analyzed(m, ledger, upper) ==
  LET arms == [arm \in Arm |-> SummarizeArm(Outcomes(m, ledger, arm))]
      t == arms["treatment"]  c == arms["control"]
      pairs == BuildPairs(m, ledger) IN
  [verified |-> TRUE, arms |-> arms,
   primary |-> /\ 10 * t.time * c.cells <= 8 * c.time * t.cells
               /\ ArmTime(pairs, upper, "treatment") < ArmTime(pairs, upper, "control"),
   completion |-> 20 * (t.completed * c.cells - c.completed * t.cells) >= -(c.cells * t.cells)]

-----------------------------------------------------------------------------
Init ==
  /\ manifest = Generated /\ entries = <<>> /\ appended = <<>>
  /\ amendments = 0 /\ tampered = FALSE /\ resealed = FALSE /\ report = None

\* The runner, which starts from a manifest that validates.
Running == report = None /\ ~tampered /\ ValidManifest(manifest)
RunCell ==
  LET i == Len(entries) + 1 IN
  /\ i \in DOMAIN manifest.runs /\ Running
  /\ \E t \in Terminals(IF i = 1 THEN 0 ELSE entries[i - 1].terminal.finished) :
       entries' = Append(entries, SealEntry(CellEntry(i, manifest.runs[i], t), LastHash(entries)))
  /\ appended' = entries' /\ UNCHANGED <<manifest, amendments, tampered, resealed, report>>
ProveMutation ==
  /\ Len(entries) = Len(manifest.runs) /\ Running
  /\ entries' = Append(entries, SealEntry(MutationEntry(Len(entries) + 1), LastHash(entries)))
  /\ appended' = entries' /\ UNCHANGED <<manifest, amendments, tampered, resealed, report>>

\* The manifest is edited: a field of one run is overwritten with another's, a
\* run goes or comes twice, a task, manager, prompt or range changes.
Renumbered(runs) == [i \in DOMAIN runs |-> [runs[i] EXCEPT !.order = i]]
Amended(m) ==
  {[m EXCEPT !.runs[i][field] = m.runs[j][field]] : i, j \in DOMAIN m.runs, field \in DOMAIN m.runs[1]}
  \cup {[m EXCEPT !.runs = Renumbered(RemoveAt(m.runs, i))] : i \in DOMAIN m.runs}
  \cup {[m EXCEPT !.runs = Renumbered(Append(m.runs, m.runs[i]))] : i \in DOMAIN m.runs}
  \cup {[m EXCEPT !.runs[i].replicate = Replicates + 1] : i \in DOMAIN m.runs}
  \cup {[m EXCEPT !.tasks = @ \ {t}] : t \in m.tasks} \cup {[m EXCEPT !.prompts = @ \ {t}] : t \in m.tasks}
  \cup {[m EXCEPT !.managers = @ \ {x}] : x \in m.managers}
  \cup {[m EXCEPT !.ranges[id].first = @ - 1] : id \in DOMAIN m.ranges}
Amend ==
  /\ report = None /\ ~tampered /\ amendments < MaxAmendments
  /\ entries = <<>> \/ (amendments = 0 /\ Len(entries) > Len(manifest.runs))
  /\ manifest' \in Amended(manifest) \ {manifest} /\ amendments' = amendments + 1
  /\ UNCHANGED <<entries, appended, tampered, resealed, report>>

\* The ledger is edited once: a terminal's field, a whole terminal, an entry
\* dropped, moved or repeated, the proof; an edited entry's own hash is taken
\* anew, that of the proof may be.
EditedTerminals(t) ==
  {[t EXCEPT !.outcome = x] : x \in {"first_valid", "censored"}} \cup {[t EXCEPT !.firstValid = x] : x \in EarlyTimes \cup {Tau}}
  \cup {[t EXCEPT !.restricted = x] : x \in EarlyTimes} \cup {[t EXCEPT !.reason = x] : x \in {"cap_reached", "grader"}}
  \cup {[t EXCEPT !.stages = x, !.completed = y] : x, y \in BOOLEAN} \cup {[t EXCEPT !.ci = x] : x \in {"green", "not_run"}}
  \cup {[t EXCEPT !.started = @ - 1], [t EXCEPT !.finished = @ + 1], [t EXCEPT !.censoredAt = None]}
  \cup {[x EXCEPT !.finished = t.finished] : x \in {FirstValid(y, t.started) : y \in EarlyTimes}}
Rehashed(e) == [e EXCEPT !.hash = HashOf(e)]
Tampered(ledger) ==
  LET cells == DOMAIN Front(ledger)  n == Len(ledger) IN
  UNION {{[ledger EXCEPT ![i] = Rehashed([@ EXCEPT !.terminal = t])] : t \in EditedTerminals(ledger[i].terminal)} : i \in cells}
  \cup {RemoveAt(ledger, i) : i \in DOMAIN ledger} \cup {Append(ledger, ledger[n])}
  \cup {[ledger EXCEPT ![i] = ledger[j], ![j] = ledger[i]] : i, j \in DOMAIN ledger}
  \cup {[ledger EXCEPT ![i] = ledger[j]] : i, j \in DOMAIN ledger}
  \cup UNION {{[ledger EXCEPT ![n] = e], [ledger EXCEPT ![n] = Rehashed(e)]} :
               e \in {[ledger[n] EXCEPT !.proof[id].noCoverage = 1] : id \in DOMAIN ledger[n].proof}}
Tamper ==
  /\ report = None /\ ~tampered /\ amendments = 0 /\ Len(entries) > Len(manifest.runs)
  /\ entries' \in Tampered(entries) \ {entries} /\ tampered' = TRUE
  /\ UNCHANGED <<manifest, appended, amendments, resealed, report>>
ResealedFrom(ledger) ==
  FoldSeq(LAMBDA e, done : Append(done, SealEntry([e EXCEPT !.sequence = Len(done) + 1], LastHash(done))), <<>>, ledger)
Reseal ==
  /\ report = None /\ tampered /\ ~resealed
  /\ entries' = ResealedFrom(entries) /\ resealed' = TRUE
  /\ UNCHANGED <<manifest, appended, amendments, tampered, report>>

AnalyzeExperiment ==
  /\ report = None /\ appended # <<>> /\ Last(appended).kind = "mutation_terminal"
  /\ IF VerifyLedger(manifest, entries)
       THEN \E upper \in ResampleHierarchy(manifest) : report' = Analyzed(manifest, entries, upper)
       ELSE report' = [verified |-> FALSE]
  /\ UNCHANGED <<manifest, entries, appended, amendments, tampered, resealed>>
Next == RunCell \/ ProveMutation \/ Amend \/ Tamper \/ Reseal \/ AnalyzeExperiment
Spec == Init /\ [][Next]_evidenceVars

-----------------------------------------------------------------------------
\* A manifest that validates registers every session of every task once in each
\* arm, and a pair is exactly the two arms of one session.
RegistersAll(m) ==
  LET runs == m.runs IN
  /\ {<<runs[i].task, runs[i].replicate, runs[i].arm>> : i \in DOMAIN runs} = m.tasks \X (1 .. Replicates) \X Arm
  /\ Len(runs) = Cardinality(m.tasks \X (1 .. Replicates) \X Arm)
  /\ \A i \in DOMAIN runs :
       LET pair == {j \in DOMAIN runs : runs[j].pair = runs[i].pair} IN
       Cardinality(pair) = 2 /\ Cardinality({<<runs[j].task, runs[j].replicate>> : j \in pair}) = 1
  /\ Cardinality({runs[i].workspace : i \in DOMAIN runs}) = Len(runs)

\* What the report says of an arm is what its cells came to: a cell that was
\* not valid in time weighs the whole cap, and a percentile is the first time
\* by which that share of all cells was valid, if there is one.
ArmIsExact(arm) ==
  LET cells == {i \in DOMAIN manifest.runs : manifest.runs[i].arm = arm}
      t(i) == entries[i].terminal
      by(x) == {i \in cells : t(i).outcome = "first_valid" /\ t(i).firstValid <= x}
      share(p) == {x \in 1 .. Tau : 100 * Cardinality(by(x)) >= p * Cardinality(cells)}
      a == report.arms[arm] IN
  /\ a.cells = Cardinality(cells) /\ a.completed >= Cardinality(by(Tau))
  /\ a.time = MapThenSumSet(LAMBDA i : IF i \in by(Tau) THEN t(i).firstValid ELSE Tau, cells)
  /\ \A p \in Percentiles : a.percentiles[p] = IF share(p) = {} THEN None ELSE Min(share(p))

\* The primary claim cannot be missed where the treatment is faster by the
\* margin in every pair, nor made where it is faster in none, whatever the
\* bootstrap draws.
Times(pair) == BuildPairs(manifest, entries)[pair]
PrimaryIsFair ==
  LET pairs == {manifest.runs[i].pair : i \in DOMAIN manifest.runs} IN
  /\ (\A x \in pairs : 10 * Times(x)["treatment"] <= 8 * Times(x)["control"]) => report.primary
  /\ (\A x \in pairs : Times(x)["treatment"] >= Times(x)["control"]) => ~report.primary

\* What ran verifies; what verifies is what ran, unless every hash was taken
\* anew; and the report says what the ledger says.
EvidenceIsSound ==
  /\ ValidManifest(manifest) => RegistersAll(manifest)
  /\ report # None =>
       /\ ~tampered /\ appended[1].manifest = manifest => report.verified
       /\ report.verified =>
            /\ entries[1].manifest = manifest /\ (resealed \/ entries = appended)
            /\ \A arm \in Arm : ArmIsExact(arm)
            /\ PrimaryIsFair
===============================================================================
