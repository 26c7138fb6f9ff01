------------------------------- MODULE MCHooks -------------------------------
(***************************************************************************)
(* The hooks that hosts call.  Six scenarios share one run: the freshness  *)
(* of what one resident server answers (the constants of the cfg); two     *)
(* servers that contend for one endpoint while nothing is edited; the      *)
(* write hook on small files: every edit of one agent, two agents that     *)
(* race on one file, and every patch of up to two directives; and the      *)
(* ratchet on design smells, in the hook and in the merge check.           *)
(***************************************************************************)
EXTENDS ResidentProperties

CONSTANTS s1, s2, a1, a2, k1, k2, f1, f2, settings, Junk, Smell, Plain, none, Broken
VARIABLES scenario, hostDisk, stamp, call, committed, tree, contract, hooked, asked, edited,
  files, served, spawned, told, touched

hookVars == <<hostDisk, stamp, call>>
designVars == <<committed, tree, contract, hooked, asked, edited>>
serverVars == <<files, served, spawned, told, touched>>
mcVars == <<vars, scenario, hookVars, designVars, serverVars>>

-----------------------------------------------------------------------------
Endpoint == INSTANCE ResidentProperties WITH
  MaxVersion <- 0, MaxRequests <- 1

\* The second server is never started.
OneServer == srv'[s2] = srv[s2] /\ session'[s2] = session[s2]

\* docs/ai-gates.md:103: "stale inputs fall back one-shot".
StaleFallsBack == scenario = "freshness" => StaleInputsFallBack

\* A request is settled once, and always, on the client's own timer.
RequestsSettle ==
  /\ \A c \in Client : client[c].pc = "sent" ~> Decided(c)
  /\ [][\A c \in Client : Decided(c) /\ client'[c].asked = client[c].asked
          => client'[c] = client[c]]_mcVars

-----------------------------------------------------------------------------
Agents == {a1, a2}
Hosts == {"claude", "grok", "antigravity"}
EditTexts == {<<>>, <<k1>>, <<k1, k1>>, <<k1, k2>>, <<Smell, k1>>, <<Plain, Junk>>}
RaceTexts == {<<k1>>, <<k1, k2>>, <<Smell>>, <<Junk, k1>>}
Step(from, to) == [from : from, to : to, all : BOOLEAN]
EditSteps == Step({"empty", k1, Plain}, {<<>>, <<k1>>, <<k2, k1>>, <<Smell>>})
RaceSteps == Step({k1, Plain}, {<<>>, <<k1>>, <<k2, k1>>})

PatchSteps ==
       [action : {"Delete"}, path : {f1, f2}]
  \cup [action : {"Add"}, path : {f1, f2}, to : {<<k1>>, <<Plain>>}]
  \cup [action : {"Update"}, path : {f1, f2, settings}, from : {Plain, k1}, to : {<<>>, <<Plain>>, <<Plain, k1>>}]
Patches == {<<d>> : d \in PatchSteps} \cup {<<d, e>> : d \in PatchSteps, e \in PatchSteps}

Gone == <<"missing">>
EditStarts == {Gone, <<Plain, k1>>, <<k1, k2>>, <<k1, Junk>>, <<Smell, Plain>>}
RaceStarts == {Gone, <<Plain, k1>>, <<k1, k2>>, <<k1, Plain>>}
PatchStarts == {Gone, <<Plain>>, <<k1, Plain>>}

Gate == INSTANCE HookGate WITH
  Agent <- Agents, SourceFile <- {f1, f2}, InputFile <- {settings}, OtherFile <- {}, Key <- {k1, k2},
  FailOnNewSmells <- TRUE, MaxLength <- 2, MaxCalls <- 1, Styles <- Hosts,
  WriteTexts <- EditTexts \cup RaceTexts, Edits <- EditSteps, Directives <- Patches,
  InitialTexts <- EditStarts \cup RaceStarts \cup PatchStarts, disk <- hostDisk

Write(texts) == [tool : {"Write"}, path : {f1}, text : texts]
Once(steps) == [tool : {"Edit"}, path : {f1}, edits : {<<e>> : e \in steps}]
Twice(steps) == [tool : {"MultiEdit"}, path : {f1}, edits : {<<e, g>> : e \in steps, g \in {h \in steps : h.all}}]
Ungoverned == {[tool |-> "Bash"], [tool |-> "Write", path |-> settings, text |-> <<k1>>]}
EditPayloads == Write(EditTexts) \cup Once(EditSteps) \cup Twice(EditSteps) \cup Ungoverned
RacePayloads(agent) == Write(RaceTexts) \cup Once(RaceSteps) \cup (IF agent = a1 THEN Twice(RaceSteps) ELSE {})
PatchPayloads == [tool : {"ApplyPatch"}, patch : Patches]

Starts(f1Texts, f2Texts, settingsTexts) ==
  hostDisk[f1] \in f1Texts /\ hostDisk[f2] \in f2Texts /\ hostDisk[settings] \in settingsTexts

\* What the hook promises, stated in HookGate.
EditsAreRatcheted == Gate!EditsAreRatcheted
PatchIsWhatWasJudged == Gate!PatchIsWhatWasJudged

-----------------------------------------------------------------------------
\* One file in a folder of the user interface, one the contract calls so, one
\* it may call so; one function that reads as both kinds of rule.
Fn(name, tests, terms, presents) == [name |-> name, tests |-> tests, terms |-> terms, presents |-> presents]
Decide(n) == Fn("canPolicy", n, 0, FALSE)
Price(tests, terms) == Fn("calculatePolicy", tests, terms, FALSE)
DesignContents ==
  {<<>>, <<Decide(1)>>, <<Fn("canPolicy", 2, 1, FALSE)>>, <<Price(1, 1)>>, <<Price(2, 0)>>,
   <<Decide(1), Price(1, 1)>>, <<Decide(2), Decide(1)>>, <<Fn("canPolicy", 2, 0, TRUE)>>, <<Fn("canView", 2, 0, FALSE)>>}
Tree(a, others) == [p \in {"a", "b", "d"} |-> IF p = "a" THEN a ELSE others]
Layers(l, d) == [p \in {"a", "b", "d"} |-> IF p = "d" THEN d ELSE l]
Design == INSTANCE DesignRatchet WITH
  base <- committed, work <- tree, config <- contract, edits <- edited,
  PathsInOrder <- <<"a", "b", "d">>, NamesInOrder <- <<"calculatePolicy", "canPolicy", "canView">>,
  Reads <- [n \in {"calculatePolicy", "canPolicy", "canView"} |->
              CASE n = "canView" -> {} [] n = "canPolicy" -> {"boolean"} [] OTHER -> {"boolean", "calculation"}],
  NamedForUI <- {"b"}, Configs <- {Layers("ui", "domain"), Layers(none, "domain"), Layers("ui", "ui")},
  Contents <- DesignContents, FirstTree <- {Tree(x, none) : x \in {<<>>, <<Decide(1)>>, <<Price(1, 1)>>, <<Decide(1), Price(1, 1)>>, <<Decide(2), Decide(1)>>}} \cup {Tree(<<>>, <<Decide(1)>>)},
  MaxEdits <- 2, None <- none
DesignIdle ==
  committed = none /\ tree = none /\ contract = none /\ hooked = none /\ asked = none /\ edited = none

\* A business rule in the user interface is let through where, and only
\* where, it stood in no weaker form before (DesignRatchet).
DesignOnlyImproves == scenario = "design" => Design!DesignOnlyImproves

-----------------------------------------------------------------------------
HookIdle == Gate!Init /\ Starts({Gone}, {Gone}, {Gone})
ResidentIdle == Endpoint!Init
-----------------------------------------------------------------------------
\* A core, a store, and a file no pattern matches, where a description without
\* a path leads.
Kept == {"core", "store", "misc"}
Putting(store) == [p \in Kept |-> CASE p = "core" -> "Core" [] p = "store" -> store [] OTHER -> none]
Document(store, deny) ==
  [layers |-> {"Core", "Store"}, layerOf |-> Putting(store), deny |-> deny, warned |-> deny = {}, refers |-> deny # none]
Strictly == Document("Store", {<<"Core", "Store">>})
Documents == {Strictly, Document("Store", {}), Document("Store", none), none, Broken}
Manifested == {none, [layers |-> {"Core"}, deny |-> none], [layers |-> {"Core"}, deny |-> {}], [layers |-> {}, deny |-> {<<"Store", "Core">>}], Broken}
Text(imports, parses) == [imports |-> imports, parses |-> parses, rule |-> IF imports = {} THEN none ELSE "r"]
SomeTexts == {Text({}, TRUE), Text({"store"}, TRUE), Text({}, FALSE)}
Holds(core) == [p \in Kept |-> IF p = "core" THEN core ELSE IF p = "store" THEN Text({"core"}, TRUE) ELSE Text({}, TRUE)]
Holding == {Holds(t) : t \in SomeTexts}
Sessions ==
  [config : Documents, manifest : {none}, tree : Holding, baseline : {none}, rules : {{"r"}}, golden : {none}, host : {TRUE}]
  \cup [config : {Strictly}, manifest : Manifested \ {none}, tree : Holding, baseline : {none},
        rules : {Broken}, golden : {none}, host : {TRUE}]
  \cup [config : {Strictly}, manifest : {none}, tree : {Holds(Text({"store"}, TRUE))}, baseline : {none, {<<"core", "store">>}},
        rules : {none}, golden : {"pattern"}, host : BOOLEAN]
SomeEdits ==
  [part : {"config"}, to : {Strictly, Document("Store", {}), Broken}] \cup [part : {"tree"}, to : Holding]
  \cup [part : {"golden"}, to : {Broken}] \cup [part : {"baseline"}, to : {none, {<<"core", "store">>}}]
Tool(name, args) == [method : {"tools/call"}, name : {name}, args : args]
Snippets(file, layers, texts) == [path : {file}, layer : layers, source : texts, described : {FALSE}]
Compared ==
  Tool("validate_code", Snippets("core", {none}, SomeTexts) \cup Snippets("core", {"Store"}, {Text({"store"}, TRUE)})
                          \cup Snippets(none, {none}, {Text({"store"}, TRUE)}))
  \cup Tool("ark_place", [path : {"core", "misc"}, described : {FALSE}] \cup [path : {none}, described : BOOLEAN])
  \cup Tool("ark_prepare_write", Snippets("core", {none}, SomeTexts) \cup Snippets("core", {"Store"}, {Text({"store"}, TRUE)})
                                  \cup Snippets("misc", {"Core"}, {Text({"store"}, TRUE)}))
  \cup Tool("ark_prepare_change", {[changes |-> [p \in {"core"} |-> t]] : t \in {Text({}, TRUE), Text({"store"}, TRUE)}})
  \cup Tool("ark_policy_delta", [base : {Strictly}, candidate : {none}])
  \cup Tool("ark_check", {[strict |-> TRUE, baseline |-> none], [strict |-> FALSE, baseline |-> FALSE], [strict |-> TRUE, baseline |-> TRUE]})
Lines ==
  Compared \cup [method : {"notification", "garbage", "no object", "ping", "roots/list"}]
  \cup [method : {"resources/read"}, name : {"ark://manifest", "ark://else"}]
  \cup Tool("ark_policy_delta", [base : {none, Strictly}, candidate : {Strictly}])
  \cup [method : {"tools/call"}, name : {"ark_coverage", "ark_recommend", "ark_suggest_include", "ark_rules_inventory", "other"}]
Sitting == INSTANCE McpServer WITH
  disk <- files, server <- served, child <- spawned, log <- told, edits <- touched,
  Path <- Kept, Layer <- {"Core", "Store"}, NoLayer <- none, DefaultDeny <- {<<"Core", "Store">>},
  Claims <- [l \in {"Core", "Store"} |-> IF l = "Core" THEN {"Core."} ELSE {}],
  Prefixes <- [l \in {"DomainModel", "Saga"} |-> IF l = "Saga" THEN {"Saga."} ELSE {"Core.", "Domain."}],
  Conventional <- "misc", Presentation <- "Ui", Starting <- Sessions, Edits <- SomeEdits, Line <- Lines,
  Explicit <- FALSE, MaxLines <- 2, MaxEdits <- 1, None <- none
ServerIdle == files = none /\ served = none /\ spawned = none /\ told = none /\ touched = none
ServerIsCoherent == scenario = "session" => Sitting!ServerIsCoherent

MCInit ==
  \/ scenario = "freshness" /\ Init /\ HookIdle /\ DesignIdle /\ ServerIdle
  \/ scenario = "endpoint" /\ Endpoint!Init /\ HookIdle /\ DesignIdle /\ ServerIdle
  \/ /\ Gate!Init /\ ResidentIdle /\ DesignIdle /\ ServerIdle
     /\ \/ scenario = "edits" /\ Starts(EditStarts, {Gone}, {Gone})
        \/ scenario = "races" /\ Starts(RaceStarts, {Gone}, {Gone})
        \/ scenario = "patches" /\ Starts(PatchStarts, PatchStarts \ {<<k1, Plain>>}, {Gone, <<Plain>>})
  \/ scenario = "design" /\ Design!Init /\ ResidentIdle /\ HookIdle /\ ServerIdle
  \/ scenario = "session" /\ Sitting!Init /\ ResidentIdle /\ HookIdle /\ DesignIdle
HookNext ==
  \/ scenario \in {"edits", "races", "patches"} /\ \E a \in Agents : Gate!Judge(a)
  \/ /\ scenario = "edits"
     /\ \E payload \in EditPayloads, style \in {"claude", "antigravity"} : Gate!Propose(a1, payload, style)
  \/ /\ scenario = "races"
     /\ \E a \in Agents : \E payload \in RacePayloads(a) : Gate!Propose(a, payload, "claude")
  \/ /\ scenario = "patches"
     /\ \E payload \in PatchPayloads, style \in Hosts :
          (2 \in DOMAIN payload.patch => style = "claude") /\ Gate!Propose(a1, payload, style)
MCNext ==
  /\ UNCHANGED scenario
  /\ \/ scenario = "freshness" /\ Next /\ OneServer /\ UNCHANGED <<hookVars, designVars, serverVars>>
     \/ scenario = "endpoint" /\ Endpoint!Next /\ UNCHANGED <<hookVars, designVars, serverVars>>
     \/ HookNext /\ UNCHANGED <<vars, designVars, serverVars>>
     \/ scenario = "design" /\ Design!Next /\ UNCHANGED <<vars, hookVars, serverVars>>
     \/ scenario = "session" /\ Sitting!Next /\ (2 \in DOMAIN told' => told'[2].line \in Compared) /\ UNCHANGED <<vars, hookVars, designVars>>
MCSpec ==
  /\ MCInit /\ [][MCNext]_mcVars
  /\ \A c \in Client : WF_mcVars(GiveUp(c) /\ UNCHANGED <<scenario, hookVars, designVars, serverVars>>)
=============================================================================
