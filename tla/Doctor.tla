-------------------------------- MODULE Doctor --------------------------------
(***************************************************************************)
(* ark-check --doctor: what it reads of a project, the list of actions it  *)
(* prints, its verdict, and what doing one of the actions does             *)
(* (src/bin/lib/doctor-plan.mjs and the detectors it calls).  A project is *)
(* one record of the facets the doctor reads; it decays one facet at a     *)
(* time, and whoever reads the list does an action and asks again.         *)
(***************************************************************************)
EXTENDS Integers, Sequences, FiniteSets, FiniteSetsExt

CONSTANTS Dir, Size, Scan,               \* directories, their files, those the smell scan reads
  IoPath, UiPath, RoutePath, StorePath,  \* directories whose path says what they are
  Layer, Proposed,                       \* layers, and the one proposed for a directory
  AppLayer, UiLayer, StoreLayer, CoreLayer, CoreName, Presentation, Domain, Store,
  Edges,                                 \* a layer edge of each violation
  Host, HardHost, CompactHost, Extra,    \* hosts, those with a hard boundary, files they must hold
  DirtyFrozen, DirtySeen, DirtyTotal, ConcentratedAt,
  Starting, MaxDecays, Nobody, None

VARIABLES project, decays, asked, before
doctorVars == <<project, decays, asked, before>>

Violation == DOMAIN Edges
Facts == {"io", "handler", "rules", "god"}
HookStates == {"absent", "foreign", "hard", "repair"}
\* "dual": registered, but not to start this project's server, as with two names
\* of its binary.  Only a JSON file is read for that, never the TOML of Codex.
McpStates == {"absent", "dual", "valid"}
JsonHost == Host \ {"codex"}

-----------------------------------------------------------------------------
\* Coverage.
Placed(p) == IF p.scope THEN {d \in Dir : p.place[d] # None} ELSE {}
Sized(dirs) == MapThenSumSet(LAMBDA d : Size[d], dirs)
TotalFiles(p) == IF p.scope THEN Sized(Dir) ELSE 0
FilesIn(p, l) == Sized({d \in Placed(p) : p.place[d] = l})
Percent(p) ==
  IF TotalFiles(p) = 0 THEN 0 ELSE (200 * Sized(Placed(p)) + TotalFiles(p)) \div (2 * TotalFiles(p))
EmptyLayers(p) == {l \in Layer : FilesIn(p, l) = 0}
Suggestions(p) == IF p.scope THEN Dir \ Placed(p) ELSE {}
WorseThanNoGate(p) == Percent(p) < 50
CoreOptional(p) == {l \in p.optional : FilesIn(p, l) > 0}

\* Violations against the frozen ones.
Frozen(p) == IF p.baselined THEN p.frozen ELSE {}
Active(p) == p.debt \ Frozen(p)
StaleBaseline(p) == Frozen(p) \ p.debt
DirtyFreeze(p) ==
  LET seen == p.debt \cap Frozen(p) IN
  /\ Active(p) = {} /\ Frozen(p) # {}
  /\ \/ Cardinality(Frozen(p)) >= DirtyFrozen
     \/ (Cardinality(Frozen(p)) >= DirtySeen /\ seen # {})
     \/ (Cardinality(p.debt) >= DirtyTotal /\ 2 * Cardinality(seen) >= Cardinality(p.debt))
Concentrated(p) ==
  /\ Cardinality(p.debt) >= ConcentratedAt
  /\ \E e \in {Edges[v] : v \in p.debt} :
       10 * Cardinality({v \in p.debt : Edges[v] = e}) >= 9 * Cardinality(p.debt)

-----------------------------------------------------------------------------
\* Design smells: paths, layers and what the files hold.
EmptyCores(p) == EmptyLayers(p) \cap CoreName
FalseGreen(p) == EmptyCores(p) # {} /\ AppLayer # {} /\ p.beneath \cap IoPath # {}
Holds(p, d, fact) == p.scope /\ <<d, fact>> \in p.facts
In(p, d, layers) == d \in Placed(p) /\ p.place[d] \in layers
Scented(p, smell, d) ==
  CASE smell = "io-under-application" -> d \in Scan /\ ~FalseGreen(p) /\ In(p, d, AppLayer) /\ Holds(p, d, "io")
    [] smell = "handler-in-persistence" -> (d \in StorePath \/ In(p, d, StoreLayer)) /\ Holds(p, d, "handler")
    [] smell = "god-module" -> d \in Scan /\ Holds(p, d, "god")
    [] smell = "domain-logic-in-ui" -> d \in Scan /\ (d \in UiPath \/ In(p, d, UiLayer)) /\ Holds(p, d, "rules")
    [] smell = "facade-sql-in-routes" -> d \in Scan /\ d \in RoutePath /\ Holds(p, d, "io")
    [] OTHER -> FALSE
SmellOrder == <<"io-under-application", "handler-in-persistence", "god-module", "domain-logic-in-ui",
                "facade-sql-in-routes", "mixed-pattern-cluster", "soft-contract">>
Smells(p) ==
  SelectSeq(SmellOrder, LAMBDA smell :
    \/ \E d \in Dir : Scented(p, smell, d)
    \/ (smell = "io-under-application" /\ FalseGreen(p))
    \/ (smell = "mixed-pattern-cluster" /\ p.scope /\ Cardinality(p.styles) >= 2)
    \/ (smell = "soft-contract" /\ p.ruled # Layer))
DesignWeak(p) == p.complete /\ Active(p) = {} /\ TotalFiles(p) # 0 /\ Percent(p) >= 50 /\ Smells(p) # <<>>

-----------------------------------------------------------------------------
\* The write path: hosts on disk, and the projection on the active one.
HardWrite(p, h) == h \in HardHost /\ p.hook[h] \in {"hard", "repair"}
Advises(p, h) == p.mcp[h] = "valid" \/ (h = "codex" /\ p.home = "ours")
Boundary(p) == \E h \in Host : HardWrite(p, h) \/ Advises(p, h)
Mode(p) ==
  CASE p.active = Nobody -> "none"
    [] HardWrite(p, p.active) -> IF p.hook[p.active] = "repair" THEN "repair" ELSE "reject-only"
    [] Advises(p, p.active) -> "mcp-only"
    [] OTHER -> "none"
Repeat(p) == IF p.active = Nobody THEN <<"install", "all">> ELSE <<"install", p.active>>
\* Mutant: a hook that rejects is enough, though it explains no repair.
WritePathGapRejecting(p) ==
  CASE Mode(p) = "none" -> IF p.active = Nobody /\ Boundary(p) THEN <<>> ELSE <<Repeat(p)>>
    [] Mode(p) = "mcp-only" -> IF p.active \in HardHost THEN <<Repeat(p)>> ELSE <<<<"keep on strict-merge">>>>
    [] OTHER -> <<>>
WritePathGap(p) ==
  CASE Mode(p) = "none" -> IF p.active = Nobody /\ Boundary(p) THEN <<>> ELSE <<Repeat(p)>>
    [] Mode(p) = "reject-only" -> <<<<"force", p.active>>>>
    [] Mode(p) = "mcp-only" -> IF p.active \in HardHost THEN <<Repeat(p)>> ELSE <<<<"keep on strict-merge">>>>
    [] OTHER -> <<>>

\* The gates every project needs, and the workflow: one that only names Ark
\* (its job may not run) is enough for the gates.
Adopted(p) == p.agents # "none"
NamesArk(p) == p.workflow \notin {"none", "other"}
RunsArk(p) == p.workflow \in {"lax", "strict-merge"}
MissingGates(p) ==
  (IF Adopted(p) THEN {} ELSE {"AGENTS.md"})
    \cup (IF p.agents # "compact" /\ p.mcp[CompactHost] = "absent" THEN {".mcp.json"} ELSE {})
    \cup (IF p.agents = "compact" /\ p.hook[CompactHost] = "absent" THEN {"compact host"} ELSE {})
    \cup (IF NamesArk(p) THEN {} ELSE {"workflow"})

\* Skills.
SkillGap(p, h) == p.agents = "full" /\ h \in p.present /\ p.skills[h] # "current"
LegacyCodex(p) == "codex" \in Host /\ SkillGap(p, "codex") /\ p.skills["codex"] = "missing" /\ p.prompts
SkillsBehind(p) == \E h \in Host : SkillGap(p, h) /\ ~(h = "codex" /\ LegacyCodex(p))
Incomplete(p, h) ==
  /\ Adopted(p) /\ h \in p.present
  /\ \/ p.skills[h] = "missing"
     \/ ("hook" \in Extra[h] /\ p.hook[h] = "absent")
     \/ ("mcp" \in Extra[h] /\ p.mcp[h] = "absent")
CodexHomeGap(p) ==
  IF ~Adopted(p) \/ "codex" \notin Host \/ p.mcp["codex"] = "valid" THEN <<>>
  ELSE CASE p.home = "temp" -> <<<<"force codex home">>>>
         [] p.home = "other" /\ p.active \in {Nobody, "codex"} -> <<<<"install", "codex">>>>
         [] OTHER -> <<>>

-----------------------------------------------------------------------------
\* The gaps of the adoption, in order.
When(holds, action) == IF holds THEN <<action>> ELSE <<>>
Reads(p) == (p.reads \cap (IF p.script THEN {"script"} ELSE {})) \cup (p.reads \cap (IF NamesArk(p) THEN {"ci"} ELSE {}))
DeployGaps(p) ==
  When(~p.lintScript, <<"lint script">>)
    \o When(p.lintScript /\ ~p.ciLint, <<"lint in ci">>)
    \o When(~p.typeScript, <<"typecheck script">>)
    \o When(p.typeScript /\ p.workflow # "none" /\ ~p.ciTypes, <<"typecheck in ci">>)
WeakestLinks(p) ==
  When(Adopted(p) /\ ~RunsArk(p), <<"install">>)
    \o When(Adopted(p) /\ p.workflow = "lax", <<"strict-merge in ci">>)
    \o When(Adopted(p) /\ p.config = "missing", <<"ark init">>)
    \o When(p.config # "missing" /\ (~p.script \/ ~Adopted(p)), <<"install">>)
    \o When(Adopted(p) /\ p.precommit # "ark", <<"pre-commit">>)
AdoptionGaps(p) ==
  (IF Adopted(p) \/ Mode(p) # "none" THEN WritePathGap(p) ELSE <<>>)
    \o When(\E h \in JsonHost : p.mcp[h] = "dual", <<"migrate">>)
    \o When(Incomplete(p, "claude"), <<"force", "claude">>) \o When(Incomplete(p, "codex"), <<"force", "codex">>)
    \o CodexHomeGap(p)
    \o When(CoreOptional(p) # {}, <<"ratchet cores">>)
    \o When(Adopted(p) /\ ~p.origin /\ Percent(p) >= 50, <<"report">>)
    \o When(Adopted(p) /\ p.baselined /\ Frozen(p) = {} /\ Reads(p) = {}, <<"baseline unused">>)
    \o When(~p.scope, <<"suggest include">>)
    \o DeployGaps(p)
    \o When(FalseGreen(p), <<"reclassify">>)
    \o WeakestLinks(p)

NewHere(p) == p.config = "missing" \/ Percent(p) < 50 \/ (p.config = "fresh" /\ Percent(p) < 80)
AboutTheTree(p) ==
  When(DesignWeak(p), <<"shape">>)
    \o When(NewHere(p), <<"start">>)
    \o When(~p.complete, <<"restore">>)
    \o When(WorseThanNoGate(p), <<"raise coverage">>)
    \o When(Suggestions(p) # {}, <<"classify">>)
    \o When(p.pinBehind, <<"bump pin">>)
AboutTheGates(p) ==
  When(Active(p) # {}, <<"resolve">>)
    \o WritePathGap(p)
    \o When(MissingGates(p) # {}, <<"gates">>)
    \o When(LegacyCodex(p), <<"codex skills">>)
    \o When(SkillsBehind(p), <<"skills">>)
    \o When(Adopted(p) /\ p.homeSkills = "behind" /\ p.active = "codex", <<"codex home skills">>)
AboutTheDebt(p) ==
  When(p.complete /\ DirtyFreeze(p), <<"review freeze">>)
    \o When(p.complete /\ StaleBaseline(p) # {}, <<"tighten">>)
    \o When(p.staleRunners, <<"migrate">>)
    \o AdoptionGaps(p)
    \o When(p.unsafe, <<"safety">>)
Actions(p) == AboutTheTree(p) \o AboutTheGates(p) \o AboutTheDebt(p)
ActionSet(p) == LET list == Actions(p) IN {list[i] : i \in DOMAIN list}
Healthy(p) == ~DesignWeak(p) /\ Actions(p) = <<>>

\* The other surfaces: the plan, the light, and the merge check in CI.
PlanMet(p) == Active(p) = {} /\ Percent(p) >= 50 /\ p.complete
Light(p) ==
  IF \/ TotalFiles(p) = 0 \/ CoreOptional(p) # {}
     \/ ({Domain, Store} \subseteq EmptyLayers(p) /\ 2 * FilesIn(p, Presentation) >= TotalFiles(p))
     \/ ~PlanMet(p)
  THEN "adapt" ELSE "enforce"
MergeCheckPasses(p) ==
  /\ p.complete /\ MissingGates(p) = {}
  /\ IF "ci" \in p.reads THEN p.baselined /\ Active(p) = {} ELSE p.debt = {}

-----------------------------------------------------------------------------
\* What the commands write.  Without force a file that is there stays, but for
\* the sections merged into Codex's configuration.
Tools(p) == IF p.present = {} THEN Host ELSE p.present
NewWorkflow(p) == [p EXCEPT !.workflow = "strict-merge", !.ciLint = @ \/ p.lintScript, !.ciTypes = @ \/ p.typeScript,
                            !.reads = IF p.baselined THEN @ \cup {"ci"} ELSE @ \ {"ci"}]
Installed(p, tools, force) ==
  LET typed == [p EXCEPT !.typeScript = TRUE]
      q == IF force \/ ~NamesArk(p) THEN NewWorkflow(typed) ELSE typed IN
  [q EXCEPT !.agents = IF force \/ @ = "none" THEN "full" ELSE @,
            !.present = @ \cup tools,
            !.hook = [h \in Host |-> IF h \in tools /\ (force \/ @[h] = "absent") THEN "repair" ELSE @[h]],
            !.mcp = [h \in Host |->
                       IF h = CompactHost THEN IF force \/ @[h] = "absent" THEN "valid" ELSE @[h]
                       ELSE IF h \in tools THEN "valid" ELSE @[h]],
            !.skills = [h \in Host |-> IF h \in tools /\ (force \/ @[h] = "missing") THEN "current" ELSE @[h]]]
Refreshed(p, tools) == [p EXCEPT !.skills = [h \in Host |-> IF h \in tools THEN "current" ELSE @[h]], !.present = @ \cup (tools \ {"codex"})]
Migrated(p) ==
  [p EXCEPT !.staleRunners = FALSE,
            !.mcp = [h \in Host |-> IF h \in JsonHost /\ @[h] = "dual" THEN "valid" ELSE @[h]]]

\* --update-baseline freezes whatever is there, refuses one dominant edge,
\* and removes the file when there is nothing to freeze.
Surfaced(p) == (IF p.script THEN {"script"} ELSE {}) \cup (IF NamesArk(p) THEN {"ci"} ELSE {})
Tightened(p) ==
  CASE Concentrated(p) -> p
    [] p.debt = {} -> [p EXCEPT !.baselined = FALSE, !.frozen = {}]
    [] OTHER -> [p EXCEPT !.baselined = TRUE, !.frozen = p.debt, !.reads = @ \cup Surfaced(p)]
RatchetedCores(p) == IF p.debt # {} \/ Percent(p) < 50 THEN p ELSE [p EXCEPT !.optional = @ \ CoreOptional(p)]

\* What the reader writes: a contract for the directories without a layer
\* (whose edges are checked from then on), or one pilot of the design.
Classified(p) ==
  {[p EXCEPT !.place = [d \in Dir |-> IF @[d] = None THEN Proposed[d] ELSE @[d]], !.debt = @ \cup more] :
     more \in {{}} \cup {{v} : v \in Violation}}
Reclassified(p) ==
  LET moved == [p EXCEPT !.place = [d \in Dir |-> IF d \in p.beneath \cap IoPath THEN Store ELSE @[d]]] IN
  {moved, [moved EXCEPT !.beneath = @ \ IoPath]}
Without(p, d, fact) == [p EXCEPT !.facts = @ \ {<<d, fact>>}]
FactOf == [smell \in {"io-under-application", "handler-in-persistence", "god-module", "domain-logic-in-ui",
                      "facade-sql-in-routes"} |->
             CASE smell = "handler-in-persistence" -> "handler"
               [] smell = "god-module" -> "god"
               [] smell = "domain-logic-in-ui" -> "rules"
               [] OTHER -> "io"]
Piloted(p) ==
  LET smell == Smells(p)[1] IN
  CASE smell = "soft-contract" -> {[p EXCEPT !.ruled = Layer]}
    [] smell = "mixed-pattern-cluster" -> {[p EXCEPT !.styles = @ \ {s}] : s \in p.styles}
    [] smell = "io-under-application" /\ FalseGreen(p) -> Reclassified(p)
    [] OTHER -> {Without(p, d, FactOf[smell]) : d \in {e \in Dir : Scented(p, smell, e)}}

\* Doing one action of the list.
Done(p, a) ==
  CASE a = <<"shape">> -> Piloted(p)
    [] a = <<"start">> -> IF p.config = "missing" THEN {[p EXCEPT !.config = "fresh"]} ELSE {p}
    [] a = <<"restore">> -> {[p EXCEPT !.complete = TRUE]}
    [] a \in {<<"raise coverage">>, <<"classify">>} -> Classified(p)
    [] a = <<"bump pin">> -> {[p EXCEPT !.pinBehind = FALSE]}
    [] a = <<"resolve">> -> {[p EXCEPT !.debt = @ \cap Frozen(p)]}
    [] a = <<"install", "all">> -> {Installed(p, Host, FALSE)}
    [] a \in {<<"gates">>, <<"install">>} -> {Installed(p, Tools(p), FALSE)}
    [] a \in {<<"install", h>> : h \in Host} -> {Installed(p, {a[2]}, FALSE)}
    [] a \in {<<"force", h>> : h \in Host} -> {Installed(p, {a[2]}, TRUE)}
    [] a = <<"force codex home">> -> {[Installed(p, Tools(p), TRUE) EXCEPT !.home = "ours", !.homeSkills = "current"]}
    [] a = <<"keep on strict-merge">> -> {Installed(p, {p.active}, FALSE)}
    [] a = <<"codex skills">> -> {Refreshed(p, {"codex"})}
    [] a = <<"skills">> -> {Refreshed(p, Tools(p))}
    [] a = <<"codex home skills">> -> {[Refreshed(p, Tools(p)) EXCEPT !.homeSkills = "current"]}
    [] a = <<"review freeze">> -> {[p EXCEPT !.debt = {}]}
    [] a = <<"tighten">> -> {Tightened(p)}
    [] a = <<"migrate">> -> {Migrated(p)}
    [] a = <<"ratchet cores">> -> {RatchetedCores(p)}
    [] a = <<"report">> -> {[p EXCEPT !.origin = TRUE]}
    [] a = <<"baseline unused">> -> {[p EXCEPT !.baselined = FALSE], [p EXCEPT !.reads = @ \cup Surfaced(p)]}
    [] a = <<"suggest include">> -> {[p EXCEPT !.scope = TRUE]}
    [] a = <<"lint script">> -> {[p EXCEPT !.lintScript = TRUE]}
    [] a = <<"lint in ci">> -> {[p EXCEPT !.ciLint = TRUE, !.workflow = IF @ = "none" THEN "other" ELSE @]}
    [] a = <<"typecheck script">> -> {[p EXCEPT !.typeScript = TRUE]}
    [] a = <<"typecheck in ci">> -> {[p EXCEPT !.ciTypes = TRUE]}
    [] a = <<"reclassify">> -> Reclassified(p)
    [] a = <<"strict-merge in ci">> -> {NewWorkflow(p)}
    [] a = <<"ark init">> -> {[p EXCEPT !.config = "fresh"]}
    [] a = <<"pre-commit">> -> {[p EXCEPT !.precommit = "ark"]}
    [] OTHER -> {[p EXCEPT !.unsafe = FALSE]}

-----------------------------------------------------------------------------
\* One facet of a project goes bad.
Spoiled(p) ==
  {[p EXCEPT !.complete = FALSE], [p EXCEPT !.scope = FALSE], [p EXCEPT !.pinBehind = TRUE],
   [p EXCEPT !.staleRunners = TRUE], [p EXCEPT !.unsafe = TRUE], [p EXCEPT !.origin = FALSE],
   [p EXCEPT !.script = FALSE], [p EXCEPT !.prompts = TRUE],
   [p EXCEPT !.homeSkills = "behind"], [p EXCEPT !.lintScript = FALSE], [p EXCEPT !.typeScript = FALSE],
   [p EXCEPT !.ciLint = FALSE], [p EXCEPT !.ciTypes = FALSE], [p EXCEPT !.styles = {"features", "hex"}],
   [p EXCEPT !.beneath = Dir], [p EXCEPT !.agents = "compact"]}
  \cup {[p EXCEPT !.config = c] : c \in {"missing", "fresh"}}
  \cup {[p EXCEPT !.place[d] = None] : d \in Dir}
  \cup {[p EXCEPT !.facts = @ \cup {<<d, f>>}] : d \in Dir, f \in Facts}
  \cup {[p EXCEPT !.ruled = @ \ {l}, !.optional = @ \cup ({l} \cap CoreLayer)] : l \in Layer}
  \cup {[p EXCEPT !.debt = s] : s \in SUBSET Violation}
  \cup {[p EXCEPT !.baselined = TRUE, !.frozen = s] : s \in SUBSET Violation}
  \cup {[p EXCEPT !.reads = r] : r \in SUBSET {"script", "ci"}}
  \cup {[p EXCEPT !.hook[h] = s] : h \in Host, s \in HookStates}
  \cup {[p EXCEPT !.mcp[h] = s] : h \in Host, s \in McpStates}
  \cup {[p EXCEPT !.skills[h] = s] : h \in Host, s \in {"missing", "stale"}}
  \cup {[p EXCEPT !.present = @ \cup {h}] : h \in Host}
  \cup {[p EXCEPT !.home = s] : s \in {"other", "temp"}}
  \cup {[p EXCEPT !.workflow = s, !.ciLint = FALSE, !.ciTypes = FALSE, !.reads = @ \ {"ci"}] : s \in {"none", "other"}}
  \cup {[p EXCEPT !.workflow = s] : s \in {"skipped", "lax"}}
  \cup {[p EXCEPT !.precommit = s] : s \in {"none", "plain"}}
  \cup {[p EXCEPT !.active = h] : h \in Host \cup {Nobody}}

Init == project \in Starting /\ decays = 0 /\ asked = None /\ before = None
Decay ==
  /\ decays < MaxDecays
  /\ project' \in Spoiled(project) \ {project}
  /\ decays' = decays + 1 /\ asked' = None /\ before' = None
Follow(a) ==
  /\ project' \in Done(project, a)
  /\ asked' = a /\ before' = project /\ UNCHANGED decays
Next == Decay \/ \E a \in ActionSet(project) : Follow(a)
Spec == Init /\ [][Next]_doctorVars

-----------------------------------------------------------------------------
\* "Healthy - nothing to do" is said only of a project that is whole: analysed
\* to the end, governed in every directory, without live violations or a
\* misplaced fact the scan reads, behind a repairing hook of its host and a
\* fail-closed workflow; the plan, the light and the check in CI agree.  Two
\* exceptions: the light stays at adapt where nearly all is presentation, and
\* the check may fail where the workflow and the baseline file disagree.
HealthyIsTrue ==
  Healthy(project) =>
    LET p == project IN
    /\ p.complete /\ p.scope /\ Placed(p) = Dir /\ p.debt \subseteq Frozen(p)
    /\ \A d \in Scan, f \in Facts :
         <<d, f>> \in p.facts =>
           CASE f = "io" -> p.place[d] \notin AppLayer /\ d \notin RoutePath
             [] f = "rules" -> p.place[d] \notin UiLayer /\ d \notin UiPath
             [] f = "god" -> FALSE
             [] OTHER -> TRUE
    /\ \A d \in Dir : <<d, "handler">> \in p.facts => p.place[d] \notin StoreLayer /\ d \notin StorePath
    /\ IF p.active = Nobody THEN Boundary(p) ELSE p.active \in HardHost /\ p.hook[p.active] = "repair"
    /\ p.workflow = "strict-merge" /\ Adopted(p)
    /\ PlanMet(p) /\ (Light(p) = "enforce" \/ 2 * FilesIn(p, Presentation) >= TotalFiles(p))
    /\ MergeCheckPasses(p) \/ p.baselined # ("ci" \in p.reads)

\* Doing an action takes it off the list, but for those that cannot: a design
\* with more than one pilot, a start that is over, include paths that match
\* nothing, an advisory host, a hook the installer does not replace, a compact
\* host that is not there, a script the installer does not write or a workflow
\* it leaves, a freeze held by stale keys, one dominant edge, cores over frozen
\* debt, another core with nothing in it.
Persists(p, a) ==
  CASE a = <<"shape">> -> TRUE
    [] a = <<"start">> -> p.config # "missing" \/ Percent(p) < 80
    [] a = <<"raise coverage">> -> ~p.scope
    [] a = <<"keep on strict-merge">> -> TRUE
    [] a[1] = "install" /\ Len(a) = 2 -> p.active \in HardHost /\ p.hook[p.active] = "foreign"
    [] a = <<"gates">> -> p.agents = "compact" /\ p.hook[CompactHost] = "absent" /\ CompactHost \notin Tools(p)
    [] a = <<"install">> -> ~p.script \/ p.workflow = "skipped"
    [] a = <<"review freeze">> -> Cardinality(Frozen(p)) >= DirtyFrozen
    [] a = <<"tighten">> -> Concentrated(p)
    [] a = <<"ratchet cores">> -> p.debt # {} \/ WorseThanNoGate(p)
    [] a = <<"reclassify">> -> EmptyCores(p) \ {Store} # {}
    [] OTHER -> FALSE
ActionsClear == asked # None => asked \notin ActionSet(project) \/ Persists(before, asked)

\* Done in order, the list never freezes a violation that is still live.
OrderKeepsDebtLive ==
  asked # None /\ Actions(before)[1] = asked => Frozen(project) \subseteq Frozen(before)

\* The verdict can be believed, and the list followed in its order.
DoctorIsSound == HealthyIsTrue /\ ActionsClear /\ OrderKeepsDebtLive
===============================================================================
