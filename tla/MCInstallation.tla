---------------------------- MODULE MCInstallation ----------------------------
(***************************************************************************)
(* The programs that leave files behind, in one run: the managed upgrade,  *)
(* the installer of gates with the previewed start, the home file of       *)
(* Codex, the doctor's reading of the merge boundary the installed         *)
(* workflow is one half of and of the contract itself, and the doctor as a *)
(* whole with whoever follows it.                                          *)
(* The models share no state, so only the scenario's part moves.           *)
(***************************************************************************)
EXTENDS MCManagedUpgrade

CONSTANTS broken, nobody
VARIABLES scenario, hostFile, agents, preview, installing, carrying, overtaken, ran, taken, toml, own, wiring,
  project, branch, held, classic, merge,
  layers, rules, sidecar, today, revised, patient, decayed, prescribed, earlier

installVars == <<hostFile, agents, preview, installing, carrying, overtaken, ran, taken>>
homeVars == <<toml, own, wiring>>
mergeVars == <<project, branch, held, classic, merge>>
healthVars == <<layers, rules, sidecar, today, revised>>
doctorVars == <<patient, decayed, prescribed, earlier>>
otherVars == <<installVars, homeVars, mergeVars, healthVars, doctorVars>>
mcVars == <<scenario, vars, otherVars>>

-----------------------------------------------------------------------------
\* One host with a hook and skills of its own, one that shares the skills of
\* .agents and has merged text, one the strict gate does not know.
Hosts == {"claude", "codex", "antigravity"}
FilesOf ==
  [h \in Hosts |-> CASE h = "claude" -> {".claude/settings.json"}
                     [] h = "codex" -> {".codex/config.toml", ".codex/hooks.json"}
                     [] OTHER -> {".agents/hooks.json", "GEMINI.md"}]
SkillOf == [h \in Hosts |-> IF h = "claude" THEN ".claude/skills" ELSE ".agents/skills"]
Gates == INSTANCE GateInstall WITH
  file <- hostFile, plan <- preview, work <- installing, hand <- carrying, late <- overtaken, last <- ran, steps <- taken,
  Tool <- Hosts, Mcp <- ".mcp.json", Workflow <- "ark-check.yml", HostFile <- FilesOf,
  Merged <- {".codex/config.toml", ".agents/hooks.json"}, Json <- {".agents/hooks.json"}, Skill <- SkillOf,
  Mark <- [h \in Hosts |-> CASE h = "claude" -> FilesOf[h] \cup {SkillOf[h]}
                             [] h = "codex" -> FilesOf[h]
                             [] OTHER -> {".agents/hooks.json"}],
  Nagged <- {"claude", "codex"}, Required <- [h \in {"claude", "codex"} |-> FilesOf[h]],
  Removable <- [h \in Hosts |-> CASE h = "claude" -> {".claude/settings.json", ".mcp.json"}
                                  [] h = "codex" -> {".codex/hooks.json"}
                                  [] OTHER -> {".agents/hooks.json", ".mcp.json"}],
  PathOrder <- <<".agents/hooks.json", ".agents/skills", ".claude/settings.json", ".claude/skills",
                 ".codex/config.toml", ".codex/hooks.json", "ark-check.yml", ".mcp.json", "AGENTS.md", "GEMINI.md">>,
  CatalogOrder <- <<"AGENTS.md", ".mcp.json", "ark-check.yml", ".claude/settings.json", ".codex/hooks.json",
                    ".codex/config.toml", ".agents/hooks.json", "GEMINI.md", ".claude/skills", ".agents/skills">>,
  NoHost <- "none", MaxSteps <- 3

InstallIdle == hostFile = none /\ agents = none /\ preview = none /\ installing = none
  /\ carrying = none /\ overtaken = none /\ ran = none /\ taken = none
\* Bounds: an installation is for one host, or for all or none of the three; and
\* a user writes during it only to the file in hand, for one ahead of it may as
\* well be written before, and one behind it after.
InstallBound ==
  /\ installing' # <<>> /\ installing = <<>> => \A h \in Hosts : ran'.hosts # Hosts \ {h}
  /\ installing # <<>> /\ taken' # taken => overtaken'
InstallSettles == scenario = "install" => Gates!InstallSettles

-----------------------------------------------------------------------------
\* Two lasting projects and a scratch one, with a redirected CODEX_HOME.
Home == INSTANCE CodexHome WITH
  Project <- {"p", "q", "scratch"}, Temporary <- {"scratch"}, DefaultHome <- FALSE,
  NoRoot <- "missing", NoTable <- none, MaxAtOnce <- 2
\* Bound: while installers are at work nobody else writes either file.
HomeBound == Home!AtWork # {} => own' = own /\ Home!AtWork' # Home!AtWork
HomeIdle == toml = none /\ own = none /\ wiring = none

\* What the user or another project put into a file stays, whichever installer
\* rewrites the file, unless it was put there after the installer had read it.
UserTextSurvives ==
  [][/\ scenario = "install" => Gates!KeepsUserText
     /\ scenario = "home" => Home!SharesHome]_mcVars

-----------------------------------------------------------------------------
\* One job in full and a plain one beside it; every run text of up to two
\* commands, and of three without the lax check.
Command(kinds) == [does : kinds, end : {"&&", "||", "|", ";"}]
Texts(kinds, n) == {t \in [1..n -> Command(kinds)] : t[n].end = ";"}
AllTexts == Texts({"strict", "lax", "script", "other"}, 1) \cup Texts({"strict", "lax", "script", "other"}, 2)
              \cup Texts({"strict", "script", "other"}, 3)
ScriptRuns == {t \in Texts({"script", "other"}, 1) \cup Texts({"script", "other"}, 2) : \E i \in DOMAIN t : t[i].does = "script"}
ScriptTexts == Texts({"strict", "lax"}, 1) \cup Texts({"strict", "other"}, 2)
Strict == <<[does |-> "strict", end |-> ";"]>>
Other == <<[does |-> "other", end |-> ";"]>>
RunStep(run) == [cond |-> "none", goesOn |-> FALSE, run |-> run]
Job(name, steps) ==
  [name |-> name, dynamic |-> FALSE, cond |-> "none", goesOn |-> FALSE, needs |-> FALSE, steps |-> steps]
Guarded(step) == {[step EXCEPT !.cond = c, !.goesOn = g] : c \in {"none", "always", "other"}, g \in BOOLEAN}
StrictSteps == {<<RunStep(Other), s>> : s \in Guarded(RunStep(Strict))} \cup {<<s, RunStep(Strict)>> : s \in Guarded(RunStep(Strict))}
Controlled(job) ==
  {[j EXCEPT !.dynamic = d, !.needs = n] : j \in Guarded(job), d \in BOOLEAN, n \in BOOLEAN}
Beside == {<<>>, <<Job("a", <<RunStep(Other)>>)>>, <<Job("a", <<RunStep(Strict)>>)>>, <<Job("b", <<RunStep(Strict)>>)>>}
Project(jobs, script) == [jobs |-> jobs, script |-> script, installed |-> TRUE]

Contexts == {{}, {"a"}, {"b"}}
Checks == {{}} \cup {{[context |-> "a", bound |-> b]} : b \in BOOLEAN}
Settings == [classic : {none} \cup [contexts : Contexts, checks : Checks], rules : {none} \cup [checks : Checks, workflow : BOOLEAN]]
Plainly(contexts, checks) == [classic |-> [contexts |-> contexts, checks |-> {}], rules |-> [checks |-> checks, workflow |-> FALSE]]
RequiresA == Plainly({"a"}, {})
RulesRequireA == Plainly({}, {[context |-> "a", bound |-> FALSE]})
Starts ==
  [project : {Project(<<Job("a", <<RunStep(t)>>)>>, Strict) : t \in AllTexts}
              \cup {Project(<<Job("a", <<RunStep(t)>>)>>, script) : t \in ScriptRuns, script \in ScriptTexts},
   settings : {RequiresA}]
  \cup [project : {Project(<<job>>, Strict) : job \in Controlled(Job("a", <<RunStep(Strict)>>))}
                    \cup {Project(<<Job("a", steps)>> \o more, Strict) : steps \in StrictSteps, more \in Beside}
                    \cup {[jobs |-> <<Job("a", <<RunStep(Strict)>>)>>, script |-> Other, installed |-> FALSE]},
        settings : Settings]
Provider == INSTANCE MergeEvidence WITH
  settings <- branch, Name <- {"a", "b"}, Starting <- Starts, Change <- {RequiresA, RulesRequireA, Plainly({}, {})},
  Absent <- none
MergeIdle == project = none /\ branch = none /\ held = none /\ classic = none /\ merge = none
MergeClaimHolds == scenario = "merge" => Provider!MergeClaimHolds

-----------------------------------------------------------------------------
\* A core, two adapters of one family, and a peripheral layer whose name holds
\* an arrow; a contract whose core and base import each other, and one that
\* the smells do not touch yet.
Named == {"Application", "PgAdapter", "PgInfra", "Audit->Log"}
Holding(files) == [l \in DOMAIN files |-> [files |-> files[l], optional |-> l = "PgInfra"]]
Allowed(edges) == [e \in edges |-> "allow"]
HealthContracts ==
  {[layers |-> Holding([l \in Named \ {"Audit->Log"} |-> 2]),
    rules |-> Allowed({<<"Application", "PgInfra">>, <<"PgInfra", "Application">>, <<"PgInfra", "PgAdapter">>})],
   [layers |-> Holding([l \in Named |-> IF l = "PgInfra" THEN 0 ELSE 1]), rules |-> Allowed({<<"PgAdapter", "PgInfra">>})]}
Ack(id, edge, days) == [id : {id}, edge : {edge}, reviewBy : days]
HealthAcks ==
  Ack("bidirectional", <<"pair", {"Application", "PgInfra"}>>, {none, 0, 1, 2})
  \cup Ack("bidirectional", <<"arrow", "Application", "PgInfra">>, {2})
  \cup Ack("lateral", <<"arrow", "PgInfra", "PgAdapter">>, {none, 1})
  \cup Ack("dead", <<"arrow", "PgAdapter", "PgAdapter">>, {2})
  \cup Ack("peripheral", <<"arrow", "Audit->Log", "Application">>, {2})
Health == INSTANCE ContractHealth WITH
  edits <- revised, Layer <- Named, Arrowed <- {"Audit->Log"}, Peripheral <- {"Audit->Log"}, Core <- {"Application"},
  Adapter <- {"PgAdapter", "PgInfra"}, FamilyBase <- {<<"PgAdapter", "PgInfra">>}, Contracts <- HealthContracts,
  Acks <- HealthAcks, Days <- 1..2, FileCounts <- {0, 6}, HeavyFilesBelow <- 2, HeavyLayers <- 4, HeavyRules <- 2,
  LightLayers <- 3, LightFiles <- 6, MaxEdits <- 3, MaxAcks <- 2, None <- none, Broken <- broken
HealthIdle == layers = none /\ rules = none /\ sidecar = none /\ today = none /\ revised = none
HealthIsHonest == scenario = "health" => Health!HealthIsHonest

-----------------------------------------------------------------------------
\* Four directories of a web application, one of them in the way of its own
\* name and one too late in the order to be scanned; a host with a boundary and
\* an advisory one; a project in good order at each host and without one.
Dirs == {"domain", "web", "db", "misc"}
Governed == {"DomainModel", "Application", "PersistenceAdapters", "PresentationAdapters"}
LayerOfDir ==
  [d \in Dirs |-> CASE d = "domain" -> "DomainModel" [] d = "web" -> "PresentationAdapters"
                     [] d = "db" -> "PersistenceAdapters" [] OTHER -> "Application"]
Agents == {"claude", "codex"}
InOrder(active, present, frozen) ==
  [complete |-> TRUE, scope |-> TRUE, place |-> LayerOfDir, beneath |-> {"misc"}, facts |-> {}, styles |-> {"hex"},
   ruled |-> Governed, optional |-> {}, debt |-> frozen, baselined |-> frozen # {}, frozen |-> frozen,
   reads |-> IF frozen = {} THEN {} ELSE {"script", "ci"}, agents |-> "full", present |-> present,
   hook |-> [h \in Agents |-> IF h \in present THEN "repair" ELSE "absent"],
   mcp |-> [h \in Agents |-> IF h = "claude" \/ h \in present THEN "valid" ELSE "absent"],
   skills |-> [h \in Agents |-> IF h \in present THEN "current" ELSE "missing"],
   prompts |-> FALSE, home |-> "none", homeSkills |-> "none", workflow |-> "strict-merge",
   ciLint |-> TRUE, ciTypes |-> TRUE, script |-> TRUE, lintScript |-> TRUE, typeScript |-> TRUE,
   precommit |-> "ark", pinBehind |-> FALSE, staleRunners |-> FALSE, origin |-> TRUE, unsafe |-> FALSE,
   config |-> "aged", active |-> active]
Consulted == INSTANCE Doctor WITH
  project <- patient, decays <- decayed, asked <- prescribed, before <- earlier,
  Dir <- Dirs, Size <- [d \in Dirs |-> CASE d = "domain" -> 30 [] d = "web" -> 10 [] d = "db" -> 20 [] OTHER -> 40],
  Scan <- Dirs \ {"db"}, IoPath <- {"db"}, UiPath <- {"web"}, RoutePath <- {"web"}, StorePath <- {"db"},
  Layer <- Governed, Proposed <- LayerOfDir, AppLayer <- {"Application"}, UiLayer <- {"PresentationAdapters"},
  StoreLayer <- {"PersistenceAdapters"}, CoreLayer <- Governed \ {"PresentationAdapters"},
  CoreName <- {"DomainModel", "PersistenceAdapters"}, Presentation <- "PresentationAdapters",
  Domain <- "DomainModel", Store <- "PersistenceAdapters",
  Edges <- [v \in {"v1", "v2", "v3"} |-> IF v = "v3" THEN "e2" ELSE "e1"],
  Host <- Agents, HardHost <- {"claude"}, CompactHost <- "claude",
  Extra <- [h \in Agents |-> IF h = "claude" THEN {"hook"} ELSE {"hook", "mcp"}],
  DirtyFrozen <- 3, DirtySeen <- 2, DirtyTotal <- 2, ConcentratedAt <- 2,
  Starting <- {InOrder("claude", {"claude"}, {}), InOrder("codex", {"codex"}, {}), InOrder(nobody, Agents, {"v1"})},
  MaxDecays <- 2, Nobody <- nobody, None <- none
DoctorIdle == patient = none /\ decayed = none /\ prescribed = none /\ earlier = none
DoctorIsSound == scenario = "doctor" => Consulted!DoctorIsSound

-----------------------------------------------------------------------------
MCInit ==
  /\ scenario \in {"upgrade", "install", "home", "merge", "health", "doctor"}
  /\ Init
  /\ IF scenario = "install" THEN Gates!Init ELSE InstallIdle
  /\ IF scenario = "home" THEN Home!Init ELSE HomeIdle
  /\ IF scenario = "merge" THEN Provider!Init ELSE MergeIdle
  /\ IF scenario = "health" THEN Health!Init ELSE HealthIdle
  /\ IF scenario = "doctor" THEN Consulted!Init ELSE DoctorIdle
MCNext ==
  /\ UNCHANGED scenario
  /\ \/ scenario = "upgrade" /\ Next /\ UNCHANGED otherVars
     \/ scenario = "install" /\ Gates!Next /\ InstallBound /\ UNCHANGED <<vars, homeVars, mergeVars, healthVars, doctorVars>>
     \/ scenario = "home" /\ Home!Next /\ HomeBound /\ UNCHANGED <<vars, installVars, mergeVars, healthVars, doctorVars>>
     \/ scenario = "merge" /\ Provider!Next /\ UNCHANGED <<vars, installVars, homeVars, healthVars, doctorVars>>
     \/ scenario = "health" /\ Health!Next /\ UNCHANGED <<vars, installVars, homeVars, mergeVars, doctorVars>>
     \/ scenario = "doctor" /\ Consulted!Next /\ UNCHANGED <<vars, installVars, homeVars, mergeVars, healthVars>>
MCSpec == MCInit /\ [][MCNext]_mcVars
===============================================================================
