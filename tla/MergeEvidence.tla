---------------------------- MODULE MergeEvidence ----------------------------
(***************************************************************************)
(* What the doctor says of the merge boundary: the workflow jobs that run  *)
(* Ark fail closed, correlated with what the provider requires of the      *)
(* branch, read in two queries.  A workflow is its jobs, a job its steps,  *)
(* a step the commands of its run text; indentation, quoting and folding   *)
(* are read correctly here, and words after a command are its kind.  What  *)
(* a shell and GitHub make of the same workflow is the reference.          *)
(***************************************************************************)
EXTENDS Naturals, FiniteSets, SequencesExt

CONSTANTS Name,      \* the status contexts a branch may require
          Starting,     \* pairs of a project and the settings of its branch
          Change,    \* settings the branch may be given meanwhile
          Absent     \* what a query that fails returns

VARIABLES project,   \* [jobs, script, installed]
          settings,  \* [classic, rules], either may be Absent
          held,      \* the settings that held since the first query
          classic,   \* the answer to the first query
          merge      \* the merge boundary of the enforcement state

mergeVars == <<project, settings, held, classic, merge>>

-----------------------------------------------------------------------------
(* The jobs that enforce: github-enforcement.mjs.                          *)

\* Mutant: a failure swallowed by || is taken for enforcement.
StopsAtPipesOnly(command) == command.end # "|"
\* The failure of a command the text goes on from is no enforcement.
Enforcing(command) == command.end \notin {"||", "|"}
ArkIn(text) == {text[i].does : i \in {k \in DOMAIN text : Enforcing(text[k]) /\ text[k].does \in {"strict", "lax"}}}
RunsScript(text) == \E i \in DOMAIN text : Enforcing(text[i]) /\ text[i].does = "script"

\* The Ark commands of a run text that enforce, those of the package script included.
AnalyzeCommands(text) == ArkIn(text) \cup (IF RunsScript(text) THEN ArkIn(project.script) ELSE {})

UnsafeControl(part, needs) ==
  \/ part.cond = "other"
  \/ part.goesOn
  \/ needs /\ part.cond # "always"

CannotEnforce(job) == UnsafeControl(job, job.needs)
WorkflowRunTexts(job) == {job.steps[s].run : s \in {t \in DOMAIN job.steps : ~UnsafeControl(job.steps[t], FALSE)}}
EnforcesArk(job) == ~CannotEnforce(job) /\ \E text \in WorkflowRunTexts(job) : "strict" \in AnalyzeCommands(text)

Jobs == {project.jobs[j] : j \in DOMAIN project.jobs}
Occurrences(name) == {j \in DOMAIN project.jobs : ~project.jobs[j].dynamic /\ project.jobs[j].name = name}

\* A context counts when exactly one job of the project reports it.
LocalContexts ==
  {name \in Name : Cardinality(Occurrences(name)) = 1
                     /\ \A j \in Occurrences(name) : EnforcesArk(project.jobs[j])}
LocalDynamic ==
  \E job \in Jobs : EnforcesArk(job) /\ (job.dynamic \/ Cardinality(Occurrences(job.name)) > 1)

-----------------------------------------------------------------------------
(* The provider's answers: "yes", "no" or "unverified" is required.        *)

ClassifyRequired(contexts, checks) ==
  LET matching == {c \in checks : c.context \in LocalContexts} IN
  CASE \E c \in matching : ~c.bound -> "yes"
    [] matching # {} /\ \A c \in matching : c.bound -> "unverified"
    [] matching = {} /\ contexts \cap LocalContexts # {} -> "yes"
    [] OTHER -> IF LocalDynamic /\ (contexts # {} \/ checks # {}) THEN "unverified" ELSE "no"

CombineRequired(rules) ==
  LET answers == {IF classic = Absent THEN "unverified" ELSE ClassifyRequired(classic.contexts, classic.checks),
                  IF rules = Absent THEN "unverified" ELSE ClassifyRequired({}, rules.checks)}
  IN CASE "yes" \in answers -> "yes"
       [] answers = {"no"} -> IF rules.workflow THEN "unverified" ELSE "no"
       [] OTHER -> "unverified"

-----------------------------------------------------------------------------
(* The enforcement state, before and after the provider's evidence.        *)

FailClosed == \E job \in Jobs : EnforcesArk(job)
Unproven == IF FailClosed /\ project.installed THEN "unverified" ELSE "no"

LocalState == [required |-> "unverified", active |-> Unproven,
               bypassable |-> IF FailClosed THEN "unverified" ELSE "yes"]

\* A report that requires the check never binds it to its source: the check
\* may be active, and stays bypassable.
WithProvider(required) ==
  [required |-> required,
   active |-> CASE required = "yes" -> IF Unproven = "no" THEN "no" ELSE "yes"
                [] required = "no" -> "no"
                [] OTHER -> Unproven,
   bypassable |-> IF required = "unverified" /\ Unproven # "no" THEN "unverified" ELSE "yes"]

-----------------------------------------------------------------------------
Init ==
  /\ \E start \in Starting : project = start.project /\ settings = start.settings
  /\ held = {} /\ classic = Absent /\ merge = Absent

\* A query answers what holds, or fails: no rights, no network.
QueryClassic ==
  /\ held = {}
  /\ held' = {settings}
  /\ classic' \in {settings.classic, Absent}
  /\ UNCHANGED <<project, settings, merge>>

\* One side that requires the check is evidence; otherwise both must have answered.
QueryRules ==
  /\ held # {} /\ merge = Absent
  /\ \E rules \in {settings.rules, Absent} :
       LET required == CombineRequired(rules)
           available == required = "yes" \/ (classic # Absent /\ rules # Absent)
       IN merge' = IF available THEN WithProvider(required) ELSE LocalState
  /\ UNCHANGED <<project, settings, held, classic>>

\* Somebody changes what the branch requires between the two queries.
Reconfigure ==
  /\ Cardinality(held) = 1 /\ merge = Absent
  /\ settings' \in Change /\ settings' # settings
  /\ held' = held \cup {settings'}
  /\ UNCHANGED <<project, classic, merge>>

Next == QueryClassic \/ QueryRules \/ Reconfigure

-----------------------------------------------------------------------------
(* What the workflow does: a shell, GitHub's steps and jobs, the branch.   *)

\* A pipeline has the status of its last command; with -e the shell is left
\* when the last pipeline of an and-or list runs and fails.
Succeeds(text, failing, exits) ==
  LET After(acc, i) ==
        LET ok == IF acc.runs THEN i \notin failing ELSE acc.ok IN
        IF acc.left \/ text[i].end = "|" THEN acc
        ELSE [ok |-> ok,
              runs |-> CASE text[i].end = "&&" -> ok [] text[i].end = "||" -> ~ok [] OTHER -> TRUE,
              left |-> exits /\ text[i].end = ";" /\ acc.runs /\ ~ok]
  IN FoldLeftDomain(After, [runs |-> TRUE, ok |-> TRUE, left |-> FALSE], text).ok

\* The change under review is one that only the fail-closed profile refuses;
\* any other command may succeed or fail (failing holds those that do).
Free(text) == {i \in DOMAIN text : text[i].does \in {"lax", "other"}}
Ark(text) == {i \in DOMAIN text : text[i].does = "strict"}
Scripts(text) == {i \in DOMAIN text : text[i].does = "script"}
ScriptResults == {Succeeds(project.script, Ark(project.script) \cup failing, FALSE) : failing \in SUBSET Free(project.script)}
RunMayPass(text) ==
  \E failing \in SUBSET Free(text), scriptOk \in ScriptResults :
    Succeeds(text, Ark(text) \cup failing \cup (IF scriptOk THEN {} ELSE Scripts(text)), TRUE)

\* A step may be skipped by its condition; a job too, or for the failure of one
\* it needs, and a skipped job reports success.
MayPass(job) ==
  \/ job.cond = "other" \/ job.goesOn \/ (job.needs /\ job.cond # "always")
  \/ \A s \in DOMAIN job.steps : LET step == job.steps[s] IN
       step.cond = "other" \/ step.goesOn \/ RunMayPass(step.run)

Required(branch) ==
  (IF branch.classic = Absent THEN {} ELSE branch.classic.contexts \cup {c.context : c \in branch.classic.checks})
  \cup (IF branch.rules = Absent THEN {} ELSE {c.context : c \in branch.rules.checks})

\* The change can be merged: every required context that a job of the project
\* reports passes in some job, whoever reports the others.
CanMerge(branch) ==
  \A name \in Required(branch) :
    Occurrences(name) # {} => \E j \in Occurrences(name) : MayPass(project.jobs[j])

-----------------------------------------------------------------------------
(* Properties.                                                             *)

\* Two shapes the analysis takes for enforcement although it looks at no more
\* than what follows a command: an Ark command in an and-list or behind an
\* operator that may skip it, and one in the package script that is not its end.
Skippable(text, i) ==
  \/ text[i].end = "&&"
  \/ \E k \in 1..(i - 1) : text[k].end \in {"&&", "||"} /\ \A m \in k..(i - 1) : text[m].end # ";"
Counted == {"strict", "script"}
ReliesOnLists ==
  \/ \E job \in Jobs : \E s \in DOMAIN job.steps : LET text == job.steps[s].run IN
       \E i \in DOMAIN text : text[i].does \in Counted /\ Skippable(text, i)
  \/ \E i \in DOMAIN project.script :
       /\ project.script[i].does = "strict"
       /\ Skippable(project.script, i) \/ (project.script[i].end = ";" /\ i # Len(project.script))

\* Where the doctor calls the check required, no change that the check refuses
\* can be merged under some settings of the branch it looked at, whatever the
\* other commands of the workflow do (github-enforcement.mjs:319).
RequiredBlocks ==
  merge # Absent /\ merge.required = "yes" /\ ~ReliesOnLists => \E branch \in held : ~CanMerge(branch)

\* Where it calls the check not required, and the branch was left alone, there
\* is a run in which the change gets in (github-enforcement.mjs:356: both
\* sources are read before absence is reported).
AbsenceIsReal ==
  merge # Absent /\ merge.required = "no" /\ Cardinality(held) = 1 => \A branch \in held : CanMerge(branch)

(* What the doctor claims of the merge gate holds: a requirement it found  *)
(* blocks, and one it calls missing is missing.                            *)
MergeClaimHolds == RequiredBlocks /\ AbsenceIsReal
=============================================================================
