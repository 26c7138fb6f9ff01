# A TLA+ model of ArkGate (`ark-runtime-kernel`)

This directory holds TLA+ specifications of the stateful parts of ArkGate, the
TLC configurations that check them on small instances, and proofs, checked by
TLAPS, of theorems about them. Paths below are relative to the repository root.

Run, inside this directory:

    tlc -workers 2 -config WorkflowFaults.cfg MCWorkflow
    tlapm WorkflowProofs.tla

## 1. The system

ArkGate is two products in one package:

* an optional, in-process **runtime kernel** (`src/kernel`): an event bus with a
  publish pipeline, a workflow engine, projections, an audit trail, an event
  buffer and the registries they consult;
* a **static gate** (`src/domain`, the analysis files of `src/kernel`, `bin/`):
  analysis of a project against its architecture rules, write and commit gates,
  a resident process for hooks and doctor, and the CLI that installs, upgrades
  and reports.

### Inventory

| Component | State it keeps | Operations | What is hard | What makes it correct |
|---|---|---|---|---|
| Workflow engine (`src/kernel/workflow/Saga.ts`) | definitions; one live snapshot per run; the snapshot store | register, start (steps, retry, timeout, compensation), get, list | every call of the engine awaits something that may fail; late effects after a timeout; crash between effect and save | effects are undone iff they are recorded, in reverse, once; a success is never repeated; the store is never behind the effects |
| Saga handle (`Saga.ts:303`) | a copy of status and steps | run | reads the store after a rejection | agrees with the snapshot |
| Event bus (`src/kernel/event-bus`) | subscriptions, interceptors, history, trace | publish, subscribe, registerInterceptor, clearHistory | overlapping publishes, registries that change between two awaits, partial failure of handlers, buffer, hooks | the pipeline's order; who is notified; provenance of the payload |
| Projection registry (`src/kernel/projections`) | definitions, checkpoints, read-model store | register, apply, clear | load-project-save of overlapping applications | nothing is lost unless applications overlap; counts are exact; order of registration |
| Kernel composition, intents, graph, drift report (`src/kernel/runtime`, `intents`, `graph`) | intents and relations, drawn and observed edges, history | define, declare, clear, sync, publish, detectViolations, report | clears and syncs in any order; one graph written by three writers | the graph never holds what was neither declared nor observed; every tangle is reported |
| Event contracts, policy, layers | maps that the publish pipeline reads | register, validate, evaluate | they change while a publish is under way | a publish is judged by what is in force |
| Static analysis (`src/kernel/graphEvaluate.ts`, `resolvedAnalysis.ts`, `semanticAnalysis.ts`) | none | evaluate | cycles; three surfaces that read one contract | agree with a definition, and with each other |
| Preflight (`bin/lib/prepare-change.mjs`) | none | prepare, judge, correlate with a plan | the tree is read twice; another process writes in between | "valid" means exactly: what was asked, where it was asked, and clean |
| Policy delta (`src/domain/policyDelta.ts`, `bin/lib/policy-delta-io.mjs`) | the acknowledgement file | classify, acknowledge | many kinds of loss; rules files outside the contract | no protection is lost without an acknowledgement of exactly that loss |
| Baseline and merge check (`bin/ark-check-runtime.mjs`, `violations.mjs`) | `.ark-baseline.json`, the flag in CI | scan, freeze, check | a freeze scans first and writes later | the exit code is what debt and baseline say |
| ArkRules (`src/domain/arkRulesContract.ts`, `arkRuleSensors.ts`) | rules files | load, sense, cover, judge | scopes, bounded reading, evidence by words | the verdict follows the enforced rules |
| Remediation (`bin/lib/ast-scan.mjs`, `auto-patch.mjs`, `port-proof.mjs`) | none | classify, patch, prove | a patch that changes what runs | an offered patch keeps bindings and run-time imports |
| Contract health, design ratchet (`bin/lib/contract-smells.mjs`, `design-delta.source.mjs`) | a sidecar of acknowledgements | read, acknowledge, compare | days of review, moved and copied rules | a shown or hidden smell is there for a reason |
| MCP server (`bin/ark-mcp-runtime.mjs`) | the contract it read when it started; the manifest; a child running `ark-check` | one line of input after another: validate, place, prepare a write or a change, policy delta, check, coverage, the manifest | the session outlives the files it read; nine tools derive their answers from one contract in different ways, two of them in a fresh process | while the contract is what it was at the start, the tools agree with each other and with the check |
| Write hook (`bin/ark-mcp-runtime.mjs`, runHook) | none between calls | judge one tool call of a host | the file is read up to three times while other hosts write | what is let through makes no file worse |
| Resident hook and doctor (`resident-hook.mjs`, `ark-mcp-runtime.mjs`) | a warm snapshot and an input ledger | hook, doctor | inputs that change during the analysis, client timeouts, two servers | a warm answer is one a fresh analysis could give |
| Installers (`install-migrate.mjs`, `gate-files.mjs`, `start-preview.mjs`, `codex-home.mjs`) | host files, skills, workflow, a home file shared by projects | install, preview, apply, remove | user text in shared files; files of older versions; other projects | repeating settles, user text survives, other projects keep their servers |
| Merge evidence (`bin/lib/enforcement-state.mjs`, `weakest-link.mjs`) | none | read workflows and provider | two queries while settings change | "enforced at merge" is never said of a branch that can be merged red |
| Managed upgrade (`managed-upgrade.mjs`, `upgrade-command.mjs`) | the files of the project and `ark.managed.json` | preview, apply | users and other upgrades write the same files; I/O errors; a crash between two renames | all or nothing unless it crashes, bound to the preview, consent for user edits, idempotent |
| Doctor (`doctor-plan.mjs`, `enforcement-honesty.mjs`, `write-path-*.mjs`, `weakest-link.mjs`) | none | read the project, list actions, say healthy | a score of detectors, each with a fix another module implements | healthy means protected; a fix clears what it was advised for |
| Resolved facts (`bin/lib/resolved-candidate-facts.mjs`, `resolvedCandidateFacts.ts`) | none; a sealed payload | collect with changes over the disk, parse, load | links, several names of one file, files that do not exist yet | what was foretold of a change is what a scan says once it is written |
| Reshape pilots (`physical-cohesion.mjs`, `reshape-decisions.mjs`) | the decisions file | find clusters, propose one pilot, remember verdicts | proposals follow their own results; verdicts outlive layouts | a verdict silences its own proposal and no other; done is done |
| Causal evaluation (`eval/causal`) | cells, a manifest, a hash-chained ledger | run, resume, verify, analyze | the runner dies anywhere; agents outlive it; edits after sealing | the ledger records each cell once, as it happened, and the report rests on it |
| Everything else (reports, templates, NestJS, benchmarks) | - | - | I/O and rendering | - |

`PROJECT.json` lists all of them with their status.

### How they interact

Everything in the kernel runs on one JavaScript thread: the code between two
awaits is atomic, and at every await any other pending call may continue. `publish`
calls the handlers; a handler may be the trigger of a workflow
(`WorkflowEngine.register` subscribes it) or call `projections.apply`. The
workflow engine, the projections and the bus all record to one audit trail; for
the bus a failing record is ignored (`recordAudit`), for the workflow engine and
the projections it is an error.

The gate consists of separate processes that share nothing but files. A host
starts the write hook for each tool call, or asks the resident server over a
socket; the installer writes the files that make the host do so; `ark upgrade`
replaces them; `ark-check` reads the contract, the baseline and the tree that
the others write, locally and in CI; Doctor reads all of it and says what to do.
Editors, agents, package managers and other Ark processes act at any moment, so
between two file operations of one process everybody else may move. What the
surfaces have in common is the contract: the same edge rules, layer matching
and capability walls are evaluated by `ark-check`, by the write hook and by the
ESLint plugin on inputs that they obtain in different ways.

## 2. Modules

| Module | What it is |
|---|---|
| `Workflow`, `WorkflowProperties`, `SagaHandle`, `MCWorkflow` | the workflow engine, what it promises, the handle of `createSaga` on top of it, instances for TLC |
| `WorkflowProofs` | theorems about it, with proofs: compensation, the contract, the snapshot store and the caller |
| `SagaHandleProofs` | theorems about the handle, over any number of calls and of runs |
| `WorkflowContract` | the abstract contract of a run, which the engine is proved to keep |
| `EventBus`, `EventBusProofs`, `MCEventBus`, `CausalEvidence` | the publish pipeline with what it promises, theorems about it; `MCEventBus` also runs `CausalEvidence`, the manifest, the ledger and the report of the causal evaluation |
| `Projections`, `ProjectionsProofs`, `FlowGraph`, `Kernel`, `MCKernel` | the projection registry with theorems about it, the search for tangles in the dependency graph, the kernel as `createArkKernel` wires it; composed, with the saga handle, by `MCKernel` |
| `CycleSearch`, `PolicyDelta`, `Preflight`, `CheckCommand`, `Surfaces`, `Remediation`, `ArkRules`, `ResolvedFacts`, `Reshape`, `MCAnalysis` | the judges of a source tree; composed, with the runner of the evaluation, by `MCAnalysis` |
| `CheckCommandProofs` | theorems about the baseline and the merge check |
| `CausalRun`, `CausalRunProofs` | the runner of the causal evaluation, theorems about it |
| `ResidentControl`, `ResidentProperties`, `ResidentProofs`, `HookGate`, `DesignRatchet`, `McpServer`, `MCHooks` | what the hosts' hooks and agents call, with theorems about the resident pilot; composed by `MCHooks` |
| `ManagedUpgrade`, `ManagedUpgradeProperties`, `ManagedUpgradeProofs`, `MCManagedUpgrade` | `ark upgrade`, what it promises, theorems about it |
| `GateInstall`, `CodexHome`, `MergeEvidence`, `ContractHealth`, `Doctor`, `MCInstallation` | the other programs that leave files behind, Doctor's reading of the merge boundary and of the contract, and Doctor as a whole; composed with the upgrade by `MCInstallation` |

In every module a definition whose comment begins with "Mutant:" is not part of
the specification: it is a plausible bug, kept beside the definition it would
replace, with which the checks of section 4 must fail.

Parts that share no state are checked in one run: a variable `scenario`, which never
changes, says which part moves, and a property `P` of a part is stated as
`scenario = "x" => Part!P`, or as `P` itself where the idle value satisfies it. The other
parts keep an idle value, so the number of
states of a run is the sum over its scenarios.

### Workflow

`task[r]` is the stack frame of one call of `start`: `pc` is the await it is
suspended at, `at` and `attempt` the loop variables, `snap` the live snapshot
object, `cause` and `thrown` the error caught by `start` and the error its
caller receives. `store` is the snapshot store, which is what survives a
`Crash`. `calls`, `landed`, `inflight` and `compensations` are history: how
often `execute` was invoked, which effects took place, which timed-out
executions are still under way, which compensations were invoked.

There is one action per await, named for what is awaited. An action takes the
outcome of the awaited call and runs the code up to the next await: `StepDoneSave`
is `Saga.ts:233` with either outcome, `ExecuteResolves` and `ExecuteRejects` are
the two outcomes of line 205, `ExecuteTimesOut` is the third. A rejected save may or
may not have reached the store. The functions `BeginStep`, `AttemptFailed`,
`StepDone`, `CompensateBelow` and `Fail` are the straight-line code between two awaits.

Abstractions: workflow contexts, timestamps and error texts are left out; a run
may share an identifier with another (`IdOf`), and properties that speak of the
store require a private one. The store is any implementation of `WorkflowStore`
that keeps values. The reference `InMemoryWorkflowStore` copies one level only:
`completedSteps` and `attempts` of a stored snapshot stay those of the live run.
The engine saves every change of the two in the turn in which it makes it, so
its own reads cannot tell; a caller that keeps a snapshot obtained from `get` or
`list` can.

### WorkflowContract

The abstract specification of a run: `phase`, the number of steps `done`, the
positions `undone`, and the `effects` that took place. A run does its steps in
order, completes when it has done all, or falters and undoes what it did, always
the last step still to be undone; it may be given up at any point, but never
does or undoes anything out of order. `WorkflowProperties!Contract` maps the
engine to it: attempts, retries, snapshots, audits and saves are stutters.

### SagaHandle

`handle[id]` is what the handle shows (`status`, `completedSteps`), `caller[r]` the
await at which a call of `run()` stands. Calls overlap or follow one another on
one identifier; the engine below is `Workflow`, unchanged. The catch block's
`engine.get` is two steps, the read and its answer, and may be refused.

### EventBus

`frame[c]` is the stack frame of one `publish`: the payload (its set of keys),
the interceptors left, the interceptions applied and the handlers selected.
`delivery[c][h]` is the state of handler `h`'s promise. Whoever subscribes,
registers an interceptor or a contract, or clears the history does so in an
action of its own, possible at any time. `interceptors[i]` is the list that
`interceptorsByIntent` holds for intent `i`; a publish takes it as it is when
its guards have passed. Hooks and audit records of the bus
never fail a publish, so they are awaits with one outcome.

Abstractions: payloads are sets of keys, so that a patch overwrites exactly if it
repeats a key (`mergeRecordPatch`); a contract version is the set of payloads it
accepts, and the newest registered version is in force (an event that pins
`metadata.eventVersion` is not modelled); a hard policy is a set of edges that
must not be in the graph, which is what the built-in layer policies look at;
trace, the contents of audit records and the invalid-name check are left out.

### Projections

A projection's state is the set of events folded into it, so a lost update is a
missing event. `apply[e]` is the stack frame of `apply(e)`. A save reaches the
store in one action (`SaveLands`) and resolves in another (`SaveResolves`), and
may fail in between; `clear` is two actions, the store and the checkpoints.

### ManagedUpgrade

`disk` is the project: the managed files and the manifest `ark.managed.json`.
`frame[p]` is one run of `ark upgrade`, a preview followed by an apply bound to
the preview's digest. The code is synchronous, so the unit of interleaving is the
file operation: one action for each read, comparison, staging, rename, restore.
The loops over files keep the set of files still to visit (`left`), of which they
take the first in the order of the plan, the manifest last (`NextFile`). Around it users edit (`Edit`), the package manager installs a new version
(`Install`) and the process dies (`Crash`).

A file is one of a few contents; its hash is the content; `Identity` is
`managedContentIdentity`, which forgets line endings and version stamps. The
manifest maps a path to the content it vouches for. `State`, `WillApply` and
`NextManifest` are the plan (`planManagedUpgrade`), `Decide` the early returns of
`applyManagedUpgrade`.

Abstractions: every asset is a whole file (no TOML sections); path safety
(symbolic links, hard links, created directories) is left out; the selection of
hosts is fixed, so the catalog depends on the package version alone; an apply
always passes the digest (the apply without one returns without touching a file).
`unseen`, `writer` and `overlap` are history, used by the properties.

### FlowGraph and Kernel

`FlowGraph` is `DependencyGraph`: edges with a kind and a set of writers, and
`detectViolations`, the colouring search with its stack and back edges. `Kernel`
composes the intent registry, the graph, the contracts, the policy engine, the
history and the drift report; one action per call a program may make. A publish
(`call[p]`) takes four turns: its guards (`Publish`), the contract and the layers after the
interceptors (`Recheck`), edge and policies (`Judge`), history (`Record`). Any call may be
made between two, which is when a registry, contract or graph it was checked against
changes. The other awaits of a publish are the subject of `EventBus`. `late` is history:
the forbidden dependencies that arrived after a publish was judged.

### ResidentControl

`srv[s]` is the life of a server process (configuration read, identity computed,
listening, refused, closed) and the handler it is in; `session[s]` is the doctor
session with its ledger; `client[c]` is a client with its timer and its cold
fallback. The content of a file is the number of its edits. Every read or
comparison of one file is a step, and any file may be edited between two.
What a warm answer has `seen` and the `floor` it must not go below are history.
`WarmIsFresh` and `ListenerSound` are statements about any number of servers. In the
run, the freshness scenario starts one of the two servers only (`OneServer`) and
leaves the race for the endpoint to the other scenario.

### HookGate

`call[a]` is one tool call of one agent's host: the hook's process reads, decides
and replies, then the host writes. A text is a sequence of chunks, a chunk is a
violation with its key, an analysis failure, a design smell, or plain. `ApplyPatch`
is a sequence of directives that `Reconstruct` folds into an overlay, which is
preflighted as a whole; the three replies are those of the hosts' protocols.

### McpServer

`server` is what the process read when it started, `child` the run of `ark-check` that
`ark_check` and `ark_coverage` spawn, `log` the lines taken with their answers and the disk
before each. A source is the files it imports and whether it parses; what a checker does
with one is the subject of `Surfaces` and `Preflight`. `ProfileDeny` and `CheckDeny` are the two
ways in which a manifest's rules replace the contract's, `PlaceResult` and `Validate` two
ways to the layer of a path, of a description or of an override. Anyone may edit the contract, the
tree, the baseline and the rest, also while the child runs; the server is started anew
or keeps answering from what it read.

### DesignRatchet

A function is its name, how often it compares and calculates, and whether it
renders. `Findings` of a tree are compared by `DesignDelta` with those of a base:
carried over, moved, improved, worsened or added. The hook compares the tree with
the write, the merge check a commit with the tree.

### CycleSearch, Preflight, CheckCommand, PolicyDelta

`CycleSearch` is `detectArchitectureCycles`: one call of `connect` or one target of
one call per step, on every import graph of four files. `Preflight` is
`prepare-change`: two readings of the tree, facts with resolution, the candidate
overlaid, validity and plan correlation, beside a process that writes meanwhile.
`CheckCommand` is the life of `.ark-baseline.json`: debt comes and goes, freezing
scans and later writes, `ark-check` locally and in CI yields an exit code.
`PolicyDelta` is the contract of the merge base against the one of the work tree,
edited twice: layers with patterns, exclusions and walls, edge rules, rules files;
`Losses` is what the classifier reports, and the reference is what the two
contracts protect, file by file and edge by edge.

### Surfaces

One file grows statement by statement; `ark-check`, the write gate and the ESLint
plugin judge it. `CheckVerdict`, `GateVerdict` and `LintVerdict` are the three
codes, each with its own resolution of imports, treatment of types, aliases of
globals and computed members. The property says where they agree and names every
place in which they do not.

### Remediation, ArkRules, ContractHealth

`Remediation`: a source file with an import across a denied edge and the module it
imports from, as sets of statements; `RemediationClass`, the patch, its second
validation and the port proof. `ArkRules`: references, rules files, the six
sensors over classes as the patterns see them, scopes, evidence for invariants,
the verdict. `ContractHealth`: the four smells of a contract, the sidecar, the
day, and the lines Doctor prints.

### GateInstall, CodexHome, CausalRun, MergeEvidence

`GateInstall`: a file is the set of whose text it holds (this package version's, an
older one's, the user's) or broken; installers of the three profiles, the
previewed start applied change by change, removal of a host, edits and newer
packages. Each file is read or compared in one step and written in the next; `hand` is
what was made of it in between, `late` records that somebody else wrote it then.
`CodexHome`: the one TOML file that all projects of a developer share; `wiring[p]` is an
installer that has read the file and will write it whole.
`CausalRun`: the cell loop with each durable file a step, crashes anywhere, agents
that outlive the runner. `MergeEvidence`: jobs, steps and commands with what ends
them, the two queries, the claim; the reference is what a shell and GitHub make of
the same workflow.

### ResolvedFacts

The disk is a function from real directories and file names to contents, with links
between directories. `CandidateFiles` is the scan with a set of changes over it, each
filed under `CanonicalOverlayPath`; `Host` is what the TypeScript resolver is told;
`ResolveCandidateFacts` the facts with what makes them incomplete. The changes may be
written as they were asked for (`Write`), and the property compares the two. Then the
payload: `Seal`, edits, hashes taken anew, `Loads`, `Verdict`.

### Reshape

A file is its path; `Clusters` are the files of each concept at each anchor. `Pilot` is
the card the doctor would show now: a function of the tree, the decisions file and
the day. People follow it, decide on it, add and remove files, spoil the file; `said`
and `moved` remember what they did.

### Doctor

`project` is what the detectors read: layers with their files and globs, smells, debt
and baseline, hooks, servers, skills, workflow, scripts. `Actions` is the list that
`--doctor` prints in its order, `Healthy` its verdict, `Light` the mode it shows.
`Follow` does to the project what the command behind an action does, `Decay` spoils one
thing. The reference says which parts make a project protected.

### CausalEvidence

The manifest as `generate-manifest.mjs` writes it, the terminals that the runner may
append, `VerifyLedger` with its hash chain, and `AnalyzeExperiment`: restricted times,
percentiles, completions, and the primary criterion for every draw the bootstrap
could make. Editors change, move, drop or repeat entries and take hashes anew.

## 3. Properties

The properties are stated and commented in the `...Properties` modules or at the end of
the module of their component. Each is aimed at a hazard listed in
`PROJECT.json`. Six of them are statements of the repository's documents,
comments or tests that the code does not meet; each has a run that shows it:

* `FinalAuditFailureEndsFailed` (run `workflow_audit_down`).
  `docs/production-hardening.md:53` promises that when the final audit record
  fails the completed steps are compensated and the workflow ends failed. If the
  audit sink stays down, the first compensation is followed by a failing audit,
  whose catch block audits again, outside any `try`; `compensate` throws,
  the remaining steps are not compensated and the snapshot stays `compensating`.
* `ChangedFileIsNotOverwritten` (run `upgrade_window`).
  `templates/skills/ark-upgrade.md:52` says that a changed file invalidates the
  digest instead of being overwritten. A file that changes after its last
  comparison and before the rename is overwritten. `EditsAreKept` states what
  does hold: every other change is noticed.
* `StaleFallsBack` (run `resident_policy`). `docs/ai-gates.md:103`: stale inputs fall
  back one-shot. A configuration edited between its reading and the initial
  identity becomes part of the identity, and every later warm hook answers by the
  old one. A second window, between the confirmation of the facts and the second
  sampling of the ledger, has the same effect on the doctor; `WarmIsFresh` exempts
  exactly these two.
* `DemotionIsAcknowledged` (run `policy_arkrules`). The comparison reads the rules files
  of the base contract from the work tree, so a rule that is demoted in its file is
  demoted on both sides.
* `DebtFreeIsGreen` (run `baseline_debt_free`). `--update-baseline` in a clean tree removes
  the baseline, and the merge check that still passes `--baseline` fails on its
  absence.
* `NoInvalidTerminal` (run `causal_terminal`). A green workspace whose agent exceeded the
  registered turns is written as a terminal that the ledger's own validation
  refuses, and every resume refuses it again.

The passing properties say exactly as much as the code delivers, and where a
document could be read as promising more the comment of the property names the
difference. The main ones:

* **Workflow.** Nothing but the engine's own timers is sure to happen. A compensation, a save
  or an audit that never answers leaves its run where it is: only `execute` has a timeout
  (`Saga.ts:262`). `Settles` takes their answers as a hypothesis.
* **Kernel.** A publish is judged at `EventBus.ts:234` and recorded at 245; a forbidden
  dependency declared or synced while it waits in between does not stop it. After overlapping calls a saga handle and the store diverge (the call that
  returns last wins); after a `run()` that rejected because nothing could be saved,
  the handle may show the outcome of the call before it. The drift report judges by
  the capped history.
* **Surfaces.** The write gate and the ESLint plugin excuse type-only imports by the
  syntax of the import, `ark-check` by the symbols (`ast-scan.mjs:17-21`);
  `docs/ai-gates.md:561` promises parity in the editor, the plugin is stricter about
  publishes. The gate takes the first of a file and a directory of one name.
* **Write hook.** A complete `ApplyPatch` that carries a Grok-style payload is refused
  with status 2 and an empty stdout (`ark-mcp-runtime.mjs:696`, the comment at 501 says
  otherwise). A candidate that stays incomplete (`ANALYSIS_` diagnostics) is refused also when
  it adds nothing, or repairs the rest of a file that was incomplete before
  (`ark-mcp-runtime.mjs:771` and 779), though the comment at 760 says that an edit "is blocked
  only when it ADDS violations". A design smell is judged on the read of the first verdict, not on
  the file as it is when the ratchet decides. An edit is judged against the file as read; if another host writes
  in between nothing is promised.
* **MCP server.** A manifest that has rules but no layers, or layers but no rules, makes the
  gate and `ark-check` take different rules, though the comment at
  `ark-mcp-runtime.mjs:1291` says that they cannot disagree; `SameRules` is the exemption.
  `ark_prepare_write` ignores the layer it is given as an override when the path has one,
  `validate_code` honours it. Without a candidate `ark_policy_delta` compares with the contract
  read at the start, not with the current one of its schema.
* **Design ratchet.** A rule copied to a path that sorts before its own passes as moved;
  two methods of one name in one file share an identity.
* **Contract health.** Of several dead entries in the sidecar the first decides, so its
  order shows (`contract-smells.mjs:314` calls the output stable under reordering), and of a
  dead entry beside one in force nothing is said: `HealthIsHonest` asks that the fault of one is
  told where none is in force; a
  peer rule from a layer to itself is called dead although `layerMatch.ts:263` denies by it.
* **Policy delta.** A file that moves between slices, and an import that a later layer
  takes over, are outside what is compared (`docs/configuration.md:161`).
* **Preflight.** The contract is loaded without ArkRules (`prepare-change.mjs:109`), unlike
  in a scan.
* **Managed upgrade.** A crash between the staging and the last rename leaves temporaries and
  half of the plan (`managed-upgrade.mjs:562-587`); `CommitIsAtomic` then only says that what
  stands is what was planned, and that the manifest does not vouch for the other half.
* **Installers.** What a user writes to a file between its reading, or its comparison with the
  preview, and its writing is lost (`install-migrate.mjs:414-465`, `start-preview.mjs:161-171`).
  Of two projects that wire the Codex home file at once, the later undoes the earlier
  (`codex-home.mjs:330`, then 349): there is no lock. Removing a host takes the `.mcp.json` it shares with others; removing
  codex leaves `.codex/config.toml`, removing antigravity leaves `GEMINI.md`; the compact
  profile's own reinstall without `--force` drops notes inside its block of `AGENTS.md`; the
  strict gate asks of some hosts files that the compact profile does not write.
* **Merge evidence.** `|| true`, pipes and `;` behind the check are recognised in a step's
  run text, but not commands that `&&` skips, nor a package script in which the check is
  not last. The property carves these out, and settings that change between the two queries.
* **Remediation.** Exports renamed in a list are classified by their local name, so
  `export type Bar` beside `export { foo as Bar }` makes a run-time import look
  erasable; `import { type A, B }` is rewritten to a form that does not compile.
* **ArkRules.** The sensors read text by patterns: `public` methods and fields count as
  public state, a nested `if` hides a guard, `export default class` and `setX` are not
  seen; `INV-1` is covered by a test that mentions `INV-10`; beyond the cap on files
  read, a rule is silently green or an invariant can never be proven.
* **Resolved facts.** A change beneath a skipped directory name is predicted but never
  scanned. A new file is filed under the smallest name in scope, the scan uses the name
  it walks first; so where a link is walked before the real directory, or the first name
  is excluded, the prediction is of another path. A new or deleted file that is imported
  through a third name resolves differently before and after the write; changes of
  `tsconfig.json` inside an overlay are not seen. A payload of schema 1.0 whose hash was
  taken over schema 1.0 never loads (`resolvedCandidateFacts.ts:299`).
* **Reshape pilots.** `physical-cohesion.mjs:156` says that the target of a consolidation is
  done, and without this "the loop re-proposes the files it just moved, forever". For files
  named by a framework it does: under `src/features` they become a concept "features".
  Files under `apps/web/app` belong to the concept "web" anchored at `apps`, so a card may
  ask to move what its own `doNot` excludes. The first finding with nothing left to move
  hides those behind it, also one that earlier pilots have consolidated
  (`reshape-decisions.mjs:228`), and since no card is shown nobody is asked to decide on it.
* **Doctor.** Two binaries in one registration are reported of the JSON files only, never of
  `.codex/config.toml` (`mcp-adoption.mjs:100-119`). Some advice does not clear itself when followed (`Persists`): shaping goes one
  pilot at a time; coverage rises only within the scanned scope; an advisory host is
  never healthy; a foreign hook file stays without `--force`; a plain install writes
  neither `check:architecture` nor a workflow it skipped before, though that is the
  fix named (`weakest-link.mjs:190`); a dirty freeze stays while stale keys remain. Only the
  order of the list keeps `tighten` from freezing live debt. The light `suggest` of
  `docs/product-voice.md:147` is unreachable, and `ADAPT` can stand beside "Healthy — nothing
  to do" (`:148`). Doctor says healthy while CI fails when the baseline exists and the
  workflow does not pass it, and it counts a hook behind `|| true` as hard.
* **Causal evidence.** The chain is not signed: a ledger replaced as a whole, with every hash
  taken anew and terminals the manifest admits, verifies. `completed` counts greens that
  the cap has censored, while `censored` is the rest (`analyze.mjs:182`).
* **Causal evaluation.** A crash of the control cell between the baseline commit and its
  marker, or a torn line of the ledger, makes every resume fail; an agent that
  outlives its runner overlaps the next cell.

## 4. Runs

| Run | Instance | What it shows | Distinct states |
|---|---|---|---|
| `workflow_faults` | a three-step workflow (retry with delay and timeout; no handler; no timeout), started by an event, next to a definition that must be refused; every fault; one crash; and a handle of a one-step workflow run twice | all invariants and action properties of the engine, that it implements the contract, that no timer holds a run up and runs settle if their user answers, and that a handle shows what the store has | 168 thousand |
| `event_bus` | one bus in three uses: two publishes with interceptors and a contract that changes; two with handlers, buffer and history; three judged by layers and policy; a manifest of two tasks with its ledger, edited twice | who is notified, with what, and what is recorded; that what verifies is what ran | 0.4 million |
| `kernel` | three events and two projections; one handle of a two-step workflow run twice; every graph of the search; a composed kernel with three intents, any call between the turns of a publish | folds, what the kernel records and reports, every tangle included, and the truth of a handle whose calls overlap in any way | 3.6 million |
| `analysis` | every import graph of four files; contracts two edits apart; changes of up to two files with a second writer; histories of debt; files of two statements; modules of three; rules files three edits from empty; trees with a link and up to two changes; two concepts over four directories; two cells of an evaluation with two crashes | the judges of a tree against their definitions; an honest ledger | 3.4 million |
| `hooks` | one server that answers a client which asks twice; two servers on one endpoint; edits, races and patches of the write hook; trees of three files for the design ratchet; sessions of two requests to the MCP server with one edit or restart | freshness, ownership of the socket, the ratchets, agreement of the tools | 1.3 million |
| `upgrade` | two upgrades around a new version, with edits, faults and a crash; installs three steps deep; three projects on one home file, two at once; workflows of up to three commands; contracts three edits apart; projects in good order spoiled twice, with a doctor that is followed | all-or-nothing, consent, settled installs, honest claims and verdicts | 1.9 million |
| `workflow_audit_down`, `upgrade_window`, `resident_policy`, `policy_arkrules`, `baseline_debt_free`, `causal_terminal` | | the six disagreements above | stop at the violation |

Why the bounds are enough.

* *Kernel.* In `workflow_faults` the handle's second call is made when `start` is over for
  the first, whose catch block may still be waiting for the store (`OneStart`), and the
  audit trail does not fail its runs (`Audited`); `kernel` lets the two calls of a
  two-step workflow overlap freely. Workflow runs share nothing but the store, and the properties require a
  private identifier, so one run is the general case, and the second is there for
  refusal; three steps are needed for a compensation that skips one between two
  others. Two overlapping publishes suffice for every race of the bus, because its
  shared state is read and written once per publish; three are used where one
  publish must find two kinds of edges. A lost update needs two applications, and
  the third event belongs to one projection only. The composed kernel has one publish under way at
  a time, since two of them share only what `EventBus` already interleaves, and six
  relationships to declare: each kind, forbidden, forbidden by a name's prefix, and allowed.
* *Analysis.* Four files make two tangles that share a file, and a tangle next to a
  path into it. Two edits of a contract combine any loss with a second one that might
  mask it. A preflight of two changes has one that repairs what the other breaks. Two
  statements are a binding and a use; a second statement is added only after a
  binding, because nothing else gives a statement another meaning. A port proof
  looks at functions and other uses, which are enumerated beside one plain import.
  Three edits of a rules file reach a rule, its scope and its evidence; the cap of
  four files read is reached by five. Two changes of a tree are one that writes what the
  other imports; one link gives a file two names, a skipped and an outer directory the
  places no scan enters. Contracts with an edge rule start with their ArkRules file in
  force, because the two are compared apart. The thresholds of the reshape sensor (40, 20,
  10 files) are 3, 2 and 2, and the trees lie on both sides of each.
* *Hooks.* A client asks twice so that a stale snapshot could be answered from. In
  `races` only one of two agents makes two-step edits; patches of two directives run
  under one host's protocol, whose reply does not depend on the patch. The design
  ratchet needs a path in the user interface, one by its name only, and one outside,
  and two edits: one before the base is taken and one after, or a move.
  A session of the MCP server is two requests, because every promise relates two answers;
  one edit or restart lies before, between or, in the check's child, inside them. The second
  request is one of the tools whose answers are compared.
* *Installation.* Three steps are install, change, install again; three hosts are one with
  files of its own, one with shared skills and merged text, one the strict gate does not
  know. An installation is for one of them, none or all (`InstallBound`), and while it runs a
  user writes to the file in hand, which is the only one where it matters. Two installers at
  once are the least that can undo each other; while they are at work nobody else moves
  (`HomeBound`). For the upgrade one file besides the manifest would show atomicity, a second is
  needed for a rollback that must undo more than one, and a second process for races.
  Two commands in a run text hold every pair of an ending and what follows; a third
  shows what lies between. For contract health the thresholds of the weight (files,
  layers, rules) are scaled down to what the instance can reach on both sides. For the doctor
  two things are spoiled, so that one fix may meet another's gap; the host is one with a
  boundary, an advisory one or none. In the causal evidence the cap is such that the times of
  the treatment lie on both sides of the margin of 0.8 and exactly on it.

Deadlock is not checked: every one of these systems may come to rest, with all
calls settled.

### Fairness

* `Workflow!FairSpec`: weak fairness of the engine's own timers (`TimerStep`: the timeout of a
  step that has one, the delay of a retry), which is what `setTimeout` gives. Steps,
  compensations, the store and the audit trail are the user's code and get none. `Settles`
  has two parts: no timer ever holds a run up for good, from this fairness alone, and a run
  settles under the hypothesis that what it awaits of its user answers (`UserAnswers`).
* `EventBus!FairSpec`: weak fairness of what the bus itself awaits: audits,
  hooks, the event buffer. Handlers and interceptors are other people's code
  and get none.
* `MCHooks!MCSpec`: weak fairness of `GiveUp` alone, the client's own timer
  (`resident-hook.mjs:169`). `RequestsSettle` needs nothing else: no server is assumed
  to answer, or even to run.
* `ManagedUpgrade!FairSpec`: an upgrade that was started runs on. The code is
  synchronous and waits for nobody. Nothing is promised that depends on it:
  the specification only keeps the counterexample from being a process that stops.

## 5. Proofs

Eight modules hold theorems, each for every value of the constants that satisfies the
assumption named in the module of its component. TLC evaluates the assumptions on
every run of that component.

| Theorem | Statement | Assumptions |
|---|---|---|
| `WorkflowProofs!Inductive` | `Spec => []IInv` | `WorkflowAssumption` |
| `WorkflowProofs!TypeCorrect` | `Spec => []TypeOK` | |
| `WorkflowProofs!OnlyEffectsAreUndone` | `Spec => []CompensationSound` | |
| `WorkflowProofs!FailureIsCompensated` | `Spec => []FailedIsCompensated` | |
| `WorkflowProofs!CompletedIsNotRepeated` | `Spec => NoRepeatAfterSuccess` | |
| `WorkflowProofs!EngineKeepsContract` | `Spec => ImplementsContract` | |
| `WorkflowProofs!StoreInductive` | `Spec => []SInv` | and `StoreAssumption` |
| `WorkflowProofs!StoreTellsTheTruth` | `Spec => []StoreIsTruthful` | |
| `WorkflowProofs!SettlementIsFinal` | `Spec => NothingAfterSettlement` | |
| `SagaHandleProofs!HandleInductive` | `HandleSpec => []HandleInv` | `WorkflowAssumption` |
| `SagaHandleProofs!HandleIsTruthfulAlways` | `HandleSpec => []HandleIsTruthful` | |
| `EventBusProofs!BusInductive` | `Spec => []Inv` | `EventBusAssumption` |
| `EventBusProofs!GuardsAreSoundAlways` | `Spec => []GuardsAreSound` | |
| `EventBusProofs!DeliverySoundAlways` | `Spec => []DeliverySound` | |
| `ProjectionsProofs!RegistryInductive` | `Spec => []Inv` | `ProjectionsAssumption` |
| `ProjectionsProofs!FoldIsExactAlways` | `Spec => []FoldIsExact` | |
| `ManagedUpgradeProofs!UpgradeInductive` | `Spec => []Inv` | `ManagedUpgradeAssumption` |
| `ManagedUpgradeProofs!CommitIsAtomicAlways` | `Spec => []CommitIsAtomic` | |
| `ManagedUpgradeProofs!EditsAreKeptAlways` | `Spec => EditsAreKept` | |
| `ManagedUpgradeProofs!ContinuingInductive` | `Spec => [](Inv /\ Continuing)` | |
| `ManagedUpgradeProofs!NextUpgradeContinuesAlways` | `Spec => []NextUpgradeContinues` | |
| `ResidentProofs!ResidentInductive` | `Spec => []Inv` | `FileKindsAssumption` |
| `ResidentProofs!WarmIsFreshAlways` | `Spec => []WarmIsFresh` | |
| `ResidentProofs!ListenerSoundAlways` | `Spec => []ListenerSound` | |
| `CausalRunProofs!EvaluationInductive` | `Spec => []Inv` | `CausalRunAssumption` |
| `CausalRunProofs!LedgerIsHonestAlways` | `Spec => []LedgerIsHonest` | |
| `CheckCommandProofs!RatchetInductive` | `CheckSpec => []IInv` | `CheckAssumption` |
| `CheckCommandProofs!RatchetIsExactAlways` | `CheckSpec => []RatchetIsExact` | |

The assumptions say what kinds of things the constants are (sets, sequences, functions),
that names which must differ do, and that bounds are natural numbers. None bounds the
number of runs, events, servers, files, processes, cells, crashes or violations.

None of the invariants of the runs is inductive. Each proof states what the place at
which the code stands (`pc`) implies, as an operator on the values of one run, publish,
event, process or server, and has one lemma per action. Steps that only move one
frame, and registries that only change beside it, are lemmas of their own
(`FrameMoves`, `RegistriesMove`, `Moved`, ...), so that the lemma of an action says only
what is particular to it. Every inductive invariant was checked by TLC before it was proved.

### Workflow: compensation

`CompensationSound`, say, does not exclude a frame that compensates position 2 and still
has to visit position 5. `IInv` is `TypeOK` and `FrameInv`: while the steps run, the
completed steps are exactly those before the current one, their effects have landed and
nothing is compensated; while the frame compensates, the list of compensations descends,
ends at or above the current position and contains everything above it that has a
handler; when the snapshot says failed, nothing is left. Definitions are registered only
with unique step names, which is what makes "completed" by name and "completed" by
position the same (`UniqueNames`); the invariant carries that for every run that was
started. The proof follows the code: lemmas about the straight-line functions
(`BeginStepFrame`, `AttemptFailedFrame`, ...), lemmas for "a save", "an audit" and "one run
moves", one lemma per action, and `NextIInv` that collects them.

`EngineKeepsContract` says that the engine implements `WorkflowContract`: initial
states map to initial states, and each step to a step of the contract or a
stutter. It adds `PhaseInv` to `IInv`: the status of the snapshot goes with the
await at which the frame stands, and an execution that was abandoned belongs to a
step that was tried. `PhaseStep` is what the contract sees of a frame that moves
without doing or undoing a step; one lemma for each function of the straight-line
code shows it, `SaveSimulated` and `AuditSimulated` lift it to the state, and only the
steps with effects (`execute`, late effects, compensation, crash) need an argument
of their own. `SameToUndo` is the bridge: under `UniqueNames` the steps that
`compensate` looks up by name are those below the contract's counter.

### Workflow: the store and the caller

`SInv` adds `LedgerInv`: the live snapshot accounts for every call of `execute` (`Tells`),
each await fixes how many attempts of which step lie behind it (`CountOK`), the retry policy
bounds them (`BudgetOK`), only what was called has effects (`EffectsOK`), and, for a run whose
identifier nobody else uses, the stored snapshot accounts for the same calls and its
status admits what is being undone (`StoredTells`, `StoredStatus`). The point of the argument is
the order in `Saga.ts`: the attempt is saved before `execute` is invoked, so the store can
be ahead of the calls and never behind. `StoreAssumption` says that "no snapshot" is not a
snapshot. `SettlementIsFinal` needs only the types.

### Saga handle

A handle has calls, each with a run of the engine below it, and all of them share one place
of the store. `CallPlace` ties the await at which a call stands to where its run
stands. `OverlapsAreSeen` is what sequential use means: a call under way whose handle has no overlap on
record is alone, so no other run of that identifier writes the store. From there the end of a
run is followed to the handle: from the save that completes it on, the store holds that
end (`EndIsStored`); a catch block that has read the store has read what is still there
(`FoundIsStored`); the store names no end that no run had (`CompletedIsReal`, `FailedIsReal`).
`HandleInv` joins these to `IInv` and `PhaseInv` of the engine below, whose lemmas it uses
through one of its own: each engine step either keeps the store's entry or writes the
snapshot of the run that moves (`EngineEffect`).

### Event bus

`CallOK` is what holds of one publish: an interceptor still to come was not applied
(`ChainOK`, from the registry holding each registration once), the payload is what was
passed plus what the applied interceptors offered, each key once (`ProvenanceOK`), the
payload satisfies the contract version that was in force at the guards unless a newer one
has come (`ContractOK`, from which interceptors cannot veto), the handlers called are those
selected (`HandlersOK`), and a publish whose own edge a hard policy forbids gets no further
than its audit. `RecordsOK` says of history and buffer that they hold publishes that came
that far, each once and in one order, and that a record counts the handlers its publish
selected, wherever that publish stands by now.

### Projection registry

What was counted lies behind the application that counted it (`CountedOnce`); the checkpoint
is the number of what was counted; two applications that both hold a projection's state
are on record as overlapping (`RivalsOK`); and a state in the store or in hand misses only what
overlapped (`StoresOK`, `HandsOK`). As long as no `clear` met an application, an application has
fed every definition it has passed (`PassedOK`), from which the order of feeding follows.

### Managed upgrade

`FrameOK` goes through the phases of `applyManagedUpgrade`: which files a phase still has to
visit (`LeftOK`), what was committed and whether the apply is failing (`CommittedOK`), that what is
replaced was read by the preview the user saw (`BoundOK`), which temporary files may exist
(`TempsOK`), that what a process wrote is still there, the manifest last (`WrittenOK`), and that
what it compared or read still holds unless somebody else wrote it (`SeenOK`, `HeldOK`).
`EditsAreKept` is an action property and uses the invariant in the state before the step;
the window between the last comparison and the rename appears as the hypothesis that
the file is not among the `unseen`.

`NextUpgradeContinues` has two halves. After a success the next plan is empty: the manifest
just written vouches for what is on the disk (`ApplyIsIdempotentAlways`). After a crash or a
failure it asks for no consent, in a project that is `UneditedProject` at the start and that
nobody edits while no two upgrades overlap. `Continuing` is the invariant: one run at most is under
way; the disk is what it read or has replaced since (`Holding`); every recorded asset has the
content recorded for it, up to a version stamp, or one that some run committed, of this
package or an earlier one (`Explained`); and what a rollback would put back is explained without
the run that rolls back (`Restorable`). The last is what makes the argument go through: without
it a restored file could be one only the restoring run accounts for.

### Resident pilot

Freshness has three parts: on the way into a session a governed file is sampled, analysed
and compared, and versions only grow, so what was analysed is what was compared
(`GovernedOK`); the ledger then holds what the facts hold (`LedgerOK`, `SessionOK`); and each answer
compares the disk with ledger and identity after the client asked (`HandlerOK`). A client that
gave up and asked again is told apart by the number of its request. The two windows are the
`slipped` files and the policy read before the identity; nothing else is exempt.
`EndpointOK` says that a listener which did not race owns the path and that no other
server is about to unlink it.

### Causal evaluation

`Durable` is what the files of a cell say wherever the runner is, and so all that is left when it
dies: no marker means nothing was launched, a result belongs to one launch and an agent that
is gone, and a durable terminal has the papers and the outcome that the cell earned
(`Earned`). `Standing` adds what the place of the runner says of the current cell, from the marker
that precedes the launch to the terminal in its hands. An interrupted cell's agent may still be
writing; `AgentIsOutlived` shows that nothing the ledger says depends on it, because whatever is
counted green has a result, and whoever has a result has exited.

### Baseline and merge check

`IInv` says where the life of the baseline stands: never frozen, frozen without debt, or written
by a freeze, and then the file holds the keys of the debt that freeze found when it scanned,
whatever the tree became before the write. The step to `RatchetIsExact` is `KeysCount`: the keys
of one tree are among those of another exactly if it has of every identity no more
violations, because the n-th violation of an identity has a key of its own. That is false of
the mutant `IdentityKeys`, where all share one. `NeverFrozen` keeps the flag out of CI, without
which an absent baseline would be a warning.

### Only model-checked

* Liveness (`Settles`, `ErrorsSurface`, `RequestsSettle`): TLAPS does not
  reason about fairness and `ENABLED`.
* What the judges compute (`CyclesAreExact`, `LossIsAcknowledged`, `ValidIsExact`,
  `SurfacesAgree`, `RemedySound`, `RulesVerdictIsExact`, `FactsAreSound`, `ReshapeIsSound`,
  `MergeClaimHolds`, `HealthIsHonest`, `DoctorIsSound`, `DesignOnlyImproves`): searches and folds over
  data, some with recursive operators, compared with a definition of the same data. A proof
  for every input would be induction over the data.
* `KernelRecordsAreSound` and `EvidenceIsSound`, for the same reason: the cycle search of the graph
  and the chain of the ledger are recursive. The clauses about handles are proved
  (`SagaHandleProofs`).
* `InstallSettles`, `UserTextSurvives`, `EditsAreRatcheted`, `PatchIsWhatWasJudged`, `ServerIsCoherent`: state
  machines over a fixed set of hosts, payload shapes and tools, which the instances list in full.

## 6. Plan

In order of importance:

1. Proofs of what is left of the hosts: the write hook, the session of the MCP server.
2. Proofs about the pure judges that need no induction over data: the agreement of `Surfaces`
   for one statement, the two readings of `Preflight`, `SharesHome` of `CodexHome`.
3. The dimensions left out of `PolicyDelta` (cycle policy, safety thresholds, infrastructure
   imports, dynamic imports, promotion of invariants).

## 7. Not modelled

Parsing of source files, JSON, YAML and TOML documents, glob matching, templates,
rendering, the GitHub API and the editors' hook protocols byte by byte:
these are I/O or pure functions on data that TLC cannot enumerate usefully. In
the kernel: metadata, manifest, observability, adapters and the test harness,
which are synchronous maps and reports.

Inside what is modelled, the following is abstracted:

* `Surfaces`: manifest rules replace the contract's in the gate; names and files are a few model
  values; one tree for each file.
* `PolicyDelta`: cycle policy, safety thresholds, `mayImportInfrastructure`, optional layers,
  intent prefixes, the overlay, the allow-list of dynamic imports, promotion of invariants;
  rules of the manifest bypass the comparison.
* `Preflight`: one read of the disk is atomic; the second writer acts only when there is no
  plan; imports of untouched files that a change shadows are looked at only by their facts.
* `GateInstall`: the size budget, the preflight of hard writes and the typecheck script.
  In `GateInstall` the hosts to install for and the router found before are looked at once, and
  no installer runs beside another.
* `MergeEvidence`: YAML and quoting, `&`, `set +e`, `exit 0`, arguments of scripts, other posters of
  a bound check, a provider that is not available.
* `CausalRun`: hashes and source identities; grading on recovery has no deadline.
* `Remediation`: violations other than imports, default parameter values, functions without a
  name, effects of modules the target loads.
* `ContractHealth`, `DesignRatchet`: caps on evidence, wording; what a name reads as is given.
* `ResolvedFacts`: links to single files, an explicit tsconfig and its `extends`, entries of `include`
  that are files, directories that a change creates, the record of what the resolver looked at.
* `Reshape`: the tokens of a name, caps on the decisions file, the sample of five moves.
* `CausalEvidence`: usage, turns, seeds, toolchain and source digests; an interval of the bootstrap is
  the ratio of some draw.
* `McpServer`: the texts of recommendations and include suggestions, the design delta, the session
  context, the symbols that `ark-check` reads inside a source.
* `Doctor`: the producer's own repository, evidence from the provider, advisory sections, JSON.
