------------------------------ MODULE MCAnalysis ------------------------------
(***************************************************************************)
(* The tools that judge a source tree, and the runner of the evaluation    *)
(* that measures what they are good for, in one run.  They share no state  *)
(* with one another, so only the scenario's part moves.                    *)
(***************************************************************************)
EXTENDS CausalRun, CheckCommand, FiniteSets, TLC

CONSTANTS none, spoiled

VARIABLES scenario,
  graph, counter, indices, low, stack, calls, components,
  base, head, ack, edits,
  tree, request, plan, baseFacts, candidateFacts, verdict, meddled,
  text, governed, policy, siblings,
  target, edge, source, answer, injected,
  refs, shelf, code, tests, revisions,
  config, drive, collected, written, payload, forged, analyzed,
  grown, decisions, day, said, moved, steps

cycleVars == <<graph, counter, indices, low, stack, calls, components>>
deltaVars == <<base, head, ack, edits>>
preflightVars == <<tree, request, plan, baseFacts, candidateFacts, verdict, meddled>>
surfaceVars == <<text, governed, policy, siblings>>
remedyVars == <<target, edge, source, answer, injected>>
ruleVars == <<refs, shelf, code, tests, revisions>>
factVars == <<config, drive, collected, written, payload, forged, analyzed>>
shapeVars == <<grown, decisions, day, said, moved, steps>>
mcVars == <<scenario, vars, cycleVars, deltaVars, preflightVars, checkVars, surfaceVars, remedyVars, ruleVars, factVars, shapeVars>>

-----------------------------------------------------------------------------
\* Four governed files and one that is not.
Search == INSTANCE CycleSearch WITH Files <- 1..4, Outside <- {5}
CyclesIdle ==
  /\ graph = none /\ counter = none /\ indices = none /\ low = none /\ stack = none /\ calls = none /\ components = none
CyclesAreExact == scenario = "cycles" => Search!CyclesAreExact

-----------------------------------------------------------------------------
\* Two layers, the second inside a slice of the first, which denies a global.
Layer(name, pattern, denied) ==
  [name |-> name, patterns |-> {pattern}, exclude |-> {}, globals |-> denied, walls |-> {}]
EdgeRule(to, allowed, peer, folders) ==
  [from |-> "A", to |-> to, allowed |-> allowed, peer |-> peer, folders |-> folders]
Delta == INSTANCE PolicyDelta WITH
  File <- {<<"a", "auth", "x">>, <<"a", "shop", "y">>, <<"a", "auth", "b", "z">>},
  Pattern <- {<<"a">>, <<"a", "auth", "b">>, <<"a", "auth">>},
  Rule <- {EdgeRule("A", FALSE, TRUE, {}), EdgeRule("A", FALSE, FALSE, {}), EdgeRule("A", FALSE, TRUE, {"auth"}),
           EdgeRule("B", FALSE, FALSE, {}), EdgeRule("B", TRUE, FALSE, {}), EdgeRule("B", FALSE, TRUE, {})},
  StartLayers <- <<Layer("A", <<"a">>, {"process"}), Layer("B", <<"a", "auth", "b">>, {})>>,
  NoLayer <- none, NoSlice <- none, NoFile <- none, MaxEdits <- 2, MaxRules <- 2, work <- head

DeltaIdle == base = none /\ head = none /\ ack = none /\ edits = 0
LossIsAcknowledged == scenario = "delta" => Delta!LossIsAcknowledged
DemotionIsAcknowledged == scenario = "delta" => Delta!DemotionIsAcknowledged

-----------------------------------------------------------------------------
\* Three files and a second name of one; "g" means g, or h where g is missing.
Source(imports, parses, offends) == [imports |-> imports, parses |-> parses, offends |-> offends]
Sources == {Source({}, TRUE, FALSE), Source({"g"}, TRUE, FALSE), Source({"f"}, TRUE, FALSE)}
Texts == Sources \cup {Source({}, FALSE, FALSE), Source({}, TRUE, TRUE)}
Changes(p) == [path : {p}, to : Texts \cup {none}]
Singles == {<<c>> : c \in Changes("f") \cup Changes("g") \cup Changes("h")}
Pairs == (Changes("f") \X Changes("g")) \cup (Changes("g") \X Changes("h")) \cup (Changes("f") \X Changes("alias"))
PlannedFiles == UNION {[S -> {"create", "update", "delete"}] : S \in {{"f"}, {"g"}, {"h"}, {"f", "g"}, {"g", "h"}}}
Flight == INSTANCE Preflight WITH
  Path <- {"f", "g", "h"}, Specifier <- {"g", "f"}, Candidates <- [s \in {"f", "g"} |-> IF s = "g" THEN <<"g", "h">> ELSE <<"f">>],
  Content <- Texts, Denied <- {<<"h", "f">>},
  CanonicalPath <- [p \in {"f", "g", "h", "alias"} |-> IF p = "alias" THEN "f" ELSE p],
  Requests <- {<<>>} \cup Singles \cup Pairs,
  Plans <- [files : PlannedFiles, edges : {{}}]
           \cup [files : [{"f", "g"} -> {"create", "update", "delete"}], edges : {{<<"f", "g">>}, {<<"g", "f">>}}],
  Delete <- none, None <- none

PreflightIdle ==
  /\ tree = none /\ request = none /\ plan = none /\ baseFacts = none /\ candidateFacts = none
  /\ verdict = none /\ meddled = none
ValidIsExact == scenario = "preflight" => Flight!ValidIsExact

-----------------------------------------------------------------------------
\* Two identities, each on a layer edge of its own; two on one edge are lopsided.
Key2 == {"a", "b"}
OwnEdge == [k \in Key2 |-> k]

-----------------------------------------------------------------------------
\* process and its environment, an alias and a shadow, a package and two files.
Process == <<"process">>
Env == <<"process", "env">>
ExitCall == <<"process", "exit">>
Paths == {Process, Append(Env, "X"), ExitCall, <<"globalThis">> \o ExitCall, <<"p", "env">>, <<"fetch">>, <<"p">>}
Bindings == [do : {"bind"}, name : {"p", "process"}, path : {Process, Env, <<"globalThis", "process">>, <<"q">>}]
Uses == {u \in [do : {"use"}, path : Paths, form : {"dotted", "computed", "destructured"}] :
           u.form = "dotted" \/ Len(u.path) > 1}
Deps == [do : {"dep"}, spec : {"./x", "./x.js", "node:process", "child_process", "./db"},
         form : {"static", "dynamic"}, erasure : {"value", "type", "mixed", "named types"}]
Publishes == [do : {"publish"}, arg : {"intent", "object", "creator", "other"},
              source : {"none", "metadata", "second", "third"}, callee : {"member", "bare"}]
NoEdge == [l \in {"I", "X", "none"} |-> "allow"]
GlobalPolicies ==
  [globals : {{}, {Process}, {ExitCall}, {Env}}, otherGlobals : {{}, {ExitCall}}, deny : {{}, {"process"}, {"environment", "network"}},
   edge : {NoEdge}, nested : {"X"}, infra : {FALSE}]
EdgePolicies ==
  [globals : {{}}, otherGlobals : {{}}, deny : {{}},
   edge : {[NoEdge EXCEPT !["I"] = i, !["X"] = x] : i, x \in {"allow", "deny", "isolated"}}, nested : {"I", "X", "none"}, infra : BOOLEAN]
Surface == INSTANCE Surfaces WITH
  Statement <- {s \in Bindings \cup Uses \cup Deps \cup Publishes :
                  /\ s.do = "dep" => (s.form = "dynamic" => s.erasure = "value")
                  /\ s.do = "publish" => (s.callee = "bare" => s.source # "third")},
  Ambient <- {Process, Env, <<"fetch">>},
  CapabilityOf <- [e \in {Process, Env, <<"fetch">>} |->
                     CASE e = Env -> "environment" [] e = Process -> "process" [] OTHER -> "network"],
  ModuleCapability <- [m \in {"node:process", "child_process"} |-> "process"],
  Dual <- [g \in {"process"} |-> {"node:process"}],
  InfraName <- {"./db"}, Policies <- GlobalPolicies \cup EdgePolicies, Trees <- SUBSET {"x.ts", "x.js", "x/index.ts"},
  MaxStatements <- 2

SurfacesIdle == text = none /\ governed = none /\ policy = none /\ siblings = none
SurfacesAgree == scenario = "surfaces" => Surface!SurfacesAgree

-----------------------------------------------------------------------------
\* A module of up to three statements, two imports, two functions.
Listed(local, as, typed) == [do |-> "list", local |-> local, as |-> as, typed |-> typed]
TypeA == [do |-> "type", name |-> "A"]
ValueA == [do |-> "value", name |-> "A", impure |-> FALSE]
SomeExports ==
  [do : {"type"}, name : {"A", "B"}] \cup [do : {"value"}, name : {"A", "B"}, impure : {FALSE}] \cup [do : {"local"}, impure : BOOLEAN]
  \cup {[do |-> "effect"], [do |-> "value", name |-> "B", impure |-> TRUE],
        Listed("A", "A", TRUE), Listed("A", "A", FALSE), Listed("B", "A", FALSE), Listed("B", "A", TRUE)}
Import(form, names, typed, to) == [form |-> form, names |-> names, typed |-> typed, to |-> to]
SomeImports ==
  {Import(f, {"A"}, {}, m) : f \in {"import", "export", "import type"}, m \in {"target", "types"}}
  \cup {Import("import", {"A", "B"}, y, "target") : y \in SUBSET {"A"}} \cup {Import("export", {"A"}, {"A"}, "target")}
  \cup {Import(f, {}, {}, "target") : f \in {"export all", "import default", "import all", "bare", "require", "dynamic"}}
Places == {{}, {"call"}, {"value"}, {"arrow"}, {"default"}, {"call", "default"}}
Remedies == INSTANCE Remediation WITH
  TargetModules <- UNION {kSubset(k, SomeExports) : k \in 0..2}
              \cup {{TypeA, x, y} : x, y \in {Listed("A", "A", FALSE), [do |-> "local", impure |-> TRUE], ValueA}},
  Importing <- SomeImports, MaxImports <- 2, MaxFunctions <- 2, None <- none,
  Functions <- {g \in [named : BOOLEAN, params : {"plain", "own", "rest"}, places : Places] : g.params = "own" => "default" \notin g.places}
RemedyIdle == target = none /\ edge = none /\ source = none /\ answer = none /\ injected = none
\* Functions and other uses concern the port proof, which looks at one plain import.
PortProof ==
  /\ target = {ValueA} /\ Len(source.imports) = 1 /\ source.imports[1].form = "import" /\ answer = none /\ injected = none
  /\ edge = [m \in {"target", "types"} |-> "denied"]
RemedySound == scenario = "remedy" => Remedies!RemedySound

-----------------------------------------------------------------------------
\* Three governed files, one of no layer, two tests; four files are read.
Order == <<"src", "order">>
Member == {{}, {"field"}, {"public readonly"}, {"setter"}, {"public constructor"}, {"public constructor", "static factory"},
           {"public constructor", "public static factory"}, {"mutator"}, {"branching mutator"}}
Silent == [predicates |-> 0, branches |-> 0, conditions |-> 0, io |-> FALSE, handler |-> FALSE, mapping |-> FALSE]
Loud == {Silent, [Silent EXCEPT !.branches = 3, !.conditions = 6], [Silent EXCEPT !.branches = 2, !.io = TRUE],
         [Silent EXCEPT !.predicates = 1, !.handler = TRUE]}
Class(members, signals, words) == [form |-> "export class", members |-> members, signals |-> signals, words |-> words]
Bare == Class({}, Silent, {})
SomeCode ==
  {Class(m, Silent, {}) : m \in Member} \cup {Class({}, s, {}) : s \in Loud} \cup {Class({}, Silent, {w}) : w \in {"check", "inv1"}}
  \cup {[Class({"field"}, Silent, {}) EXCEPT !.form = "export default"]}
Scopes == {none, {}, {<<"src", "**", "order">>}, {<<"src", "*">>}, {<<"lib", "**">>, <<"src", "d", "**">>}}
Structure ==
  [id : {"r"}, mode : {"advisory", "enforced"}, scope : Scopes,
   sensor : {"aggregate-private-state", "always-valid-factory", "domain-event-on-mutation", "no-anemic-model", "orchestration-only", "thin-adapter", "other"}]
Catalogued ==
  [id : {"inv1"}, test : {"yes", "no", "unsaid"}, symbol : {"check", none}, mode : {"advisory", "enforced"}, scope : {none, {<<"lib", "**">>}}]
RulesDoc(layer, structure, invariants) == [layer |-> layer, structure |-> structure, invariants |-> invariants]
NoRules == RulesDoc("D", <<>>, <<>>)
Rulebook == INSTANCE ArkRules WITH
  Layers <- {"D", "A"}, Governed <- <<Order, <<"src", "d", "order">>, <<"src", "cart">>>>,
  LayerOf <- [f \in {Order, <<"src", "d", "order">>, <<"src", "cart">>} |-> CASE f = Order -> "D" [] Len(f) = 3 -> "A" [] OTHER -> none],
  TestFile <- <<<<"tests", "a">>, <<"tests", "b">>>>, RuleFile <- {"rules"},
  Occurs <- [w \in {"inv1", "inv10", "check"} |-> IF w = "inv10" THEN {"inv1", "inv10"} ELSE {w}],
  Refs <- {[l \in {"D", "X"} |-> IF l = m THEN "rules" ELSE none] : m \in {"D", "X", none}},
  Rules <- {none, NoRules, RulesDoc("A", <<>>, <<>>)} \cup {RulesDoc("D", <<s>>, <<>>) : s \in Structure}
           \cup {RulesDoc("D", <<>>, <<i>>) : i \in Catalogued}
           \cup {RulesDoc("D", <<s>>, <<[i EXCEPT !.id = "r"]>>) :
                   s \in {x \in Structure : x.sensor = "thin-adapter" /\ x.mode = "enforced" /\ x.scope = none},
                   i \in {x \in Catalogued : x.test = "no" /\ x.mode = "enforced" /\ x.scope = none}},
  Codes <- SomeCode, Words <- {none, {}, {"inv1"}, {"inv10"}, {"check"}},
  Cap <- 4, MaxEdits <- 3, None <- none, disk <- shelf, edits <- revisions

RulesIdle == refs = none /\ shelf = none /\ code = none /\ tests = none /\ revisions = 0
RulesVerdictIsExact == scenario = "rules" => Rulebook!RulesVerdictIsExact

-----------------------------------------------------------------------------
\* src holds a directory, a link z to it and a skipped docs; lib leads out of the
\* project.  Two names of sources, one of a test.
RootDir == <<>>
SrcDir == <<"src">>
RealDir == <<"src", "a">>
LinkDir == <<"src", "z">>
DocsDir == <<"src", "docs">>
LibDir == <<"lib">>
Reals == {RootDir, SrcDir, RealDir, DocsDir}
Leads == [x \in Reals \cup {LinkDir, LibDir} |-> IF x = LinkDir THEN RealDir ELSE IF x = LibDir THEN none ELSE x]
Ranks == [x \in DOMAIN Leads |-> CASE x = RootDir -> 0 [] x = LibDir -> 1 [] x = SrcDir -> 2 [] x = RealDir -> 3 [] x = DocsDir -> 4 [] OTHER -> 5]
LinkLast == <<RootDir, SrcDir, RealDir, LinkDir, DocsDir, LibDir>>
LinkFirst == <<RootDir, SrcDir, LinkDir, RealDir, DocsDir, LibDir>>
Plain == [broken |-> FALSE, types |-> FALSE, shape |-> FALSE, imports |-> {}, words |-> {}]
Rich == [Plain EXCEPT !.imports = {"./n", "@n", "pkg", "?"}, !.words = {"fs", "loc", "A.x", "B.x", "any"}, !.shape = TRUE]
TypesOnly == [Plain EXCEPT !.types = TRUE]
OneFile(x, b, content) == [p \in {<<x, b>>} |-> content]
Alone == {OneFile(x, "m", Rich) : x \in {RealDir, SrcDir}}
Beside == {<<>>} \cup {OneFile(x, b, Plain) : x \in {RealDir, SrcDir}, b \in {"n", "t"}}
          \cup {OneFile(RealDir, "n", [Plain EXCEPT !.broken = TRUE]), OneFile(RealDir, "n", TypesOnly)}
Trees(more) == {f @@ g : f \in Alone, g \in more}
NoSettings == [x \in Reals |-> none]
SomeSettings ==
  {[NoSettings EXCEPT ![SrcDir] = s] : s \in {"broken", "mapped"}} \cup {[x \in Reals |-> IF x = RealDir THEN "mapped" ELSE "plain"]}
Few == {<<>>, OneFile(RealDir, "n", Plain)}
Disks ==
  [files : Trees(Beside), settings : {NoSettings}, order : {LinkLast}]
  \cup [files : Trees(Few), settings : {NoSettings}, order : {LinkFirst}]
  \cup [files : Trees(Few), settings : SomeSettings, order : {LinkLast}]
FactConfig(include, exclude, globals, prefixes, rules) ==
  [include |-> include, exclude |-> exclude, globals |-> globals, prefixes |-> prefixes, rules |-> rules]
FactConfigs ==
  {FactConfig({SrcDir}, {}, {}, {}, r) : r \in {1, 2}} \cup {FactConfig({SrcDir}, {}, {"loc"}, {}, 1), FactConfig({SrcDir}, {}, {}, {"B"}, 1)}
  \cup {FactConfig({SrcDir}, {x}, {}, {}, 1) : x \in {RealDir, LinkDir}}
  \cup {FactConfig(i, {}, {}, {}, 1) : i \in {{SrcDir, LinkDir}, {RealDir}, {LinkDir}, {RootDir}}}
Overlay(dirs, names, contents) == [path : dirs \X names, to : contents]
Overlays ==
  {{}} \cup {{x} : x \in Overlay({RealDir, SrcDir, LinkDir, DocsDir, LibDir}, {"m", "n"}, {none, Rich})
                          \cup Overlay({RealDir}, {"m", "n"}, {Plain, TypesOnly, [Plain EXCEPT !.imports = {"bad"}]})
                          \cup Overlay({RealDir, LinkDir}, {"t"}, {none, Plain})}
  \cup {{x, y} : x \in Overlay({RealDir, LinkDir, SrcDir}, {"m"}, {none, Rich}), y \in Overlay({RealDir, LinkDir}, {"n"}, {none, Plain})}
  \cup {{x, y} : x, y \in Overlay({RealDir, LinkDir}, {"m"}, {Rich})}
Mapped == [s \in {"@n", "bad"} |-> <<LinkDir, "n">>]
Beneath == [s \in {"./n"} |-> "n"]
DeclaredBy == [p \in {"B"} |-> {"B.x"}]
Facts == INSTANCE ResolvedFacts WITH
  RealOf <- Leads, Outside <- none, PathRank <- Ranks, Skipped <- {"docs"}, Governable <- {"m", "n"},
  Sibling <- Beneath, Aliased <- Mapped, Package <- {"pkg"}, Throwing <- {"bad"}, Dynamic <- "?",
  Ambient <- {"fs"}, ArkLike <- {"A.x"}, Unsafe <- {"any"}, Prefixed <- DeclaredBy,
  Configs <- FactConfigs, Starting <- Disks, Requests <- Overlays, None <- none,
  disk <- drive, verdict <- analyzed
FactsIdle ==
  /\ config = none /\ drive = none /\ collected = none /\ written = FALSE /\ payload = none /\ forged = "no" /\ analyzed = none
FactsAreSound == scenario = "facts" => Facts!FactsAreSound

-----------------------------------------------------------------------------
\* Two concepts over a store, a library and the app; and files a framework named,
\* some of them beneath an app directory inside the concept.
Within(dir, names) == {Append(dir, n) : n \in names}
Library == <<"src", "lib">>
StoreDir == <<"src", "store">>
MeaningOf ==
  [n \in {"src", "server", "app", "lib", "features", "billing", "order", "handler", "route", "page", "billingList",
          "billingForm", "billingView", "billingEdit", "orderList", "orderForm", "orderView", "[id]", "store"} |->
     CASE n \in {"billing", "billingList", "billingForm", "billingView", "billingEdit"} -> "billing"
       [] n \in {"order", "orderList", "orderForm", "orderView"} -> "order"
       [] n \in {"features", "store", "server"} -> n
       [] OTHER -> none]
Mirrored ==
  Within(Library, {"billingList", "billingForm", "orderList"}) \cup Within(<<"src", "app">>, {"orderForm", "orderList"})
  \cup Within(StoreDir, {"billingView", "billingEdit", "orderForm", "orderView"}) \cup {<<"src", "app", "billing", "billingView">>}
Routed ==
  Within(<<"src", "server", "billing">>, {"handler", "route", "page"}) \cup Within(<<"src", "app", "order">>, {"route", "page"})
  \cup {<<"src", "lib", "order", "handler">>, <<"src", "lib", "orderList">>}
  \cup Within(<<"src", "lib", "order", "app", "[id]">>, {"handler", "page"})
AnchorOrder ==
  <<<<>>, <<"src">>, <<"src", "app">>, <<"src", "app", "billing">>, <<"src", "features", "billing">>,
    <<"src", "features", "features">>, <<"src", "features", "order">>, Library, <<"src", "server">>, StoreDir>>
PlaceRanks == [x \in Range(AnchorOrder) |-> CHOOSE i \in DOMAIN AnchorOrder : AnchorOrder[i] = x]
Shape == INSTANCE Reshape WITH
  tree <- grown, today <- day, changes <- steps,
  Means <- MeaningOf, Framework <- {"handler", "route", "page"}, Skipped <- {"src", "app", "lib", "server", "[id]"},
  NameOrder <- <<"billing", "features", "order">>, AnchorRank <- PlaceRanks,
  ClusterMin <- 3, MirrorMin <- 2, MirrorAnchors <- 2, MaxFindings <- 2, MaxAnchors <- 2, PilotFloor <- 2,
  Starting <- {Mirrored, Routed},
  Added <- {<<"src", "lib", "billingView">>, <<"src", "app", "billing", "billingView">>, <<"src", "billingForm">>, <<"src", "lib", "orderForm">>},
  MaxEdits <- 3, Days <- 2, None <- none, Broken <- spoiled
ShapeIdle == grown = none /\ decisions = none /\ day = none /\ said = none /\ moved = none /\ steps = none
ReshapeIsSound == scenario = "reshape" => Shape!ReshapeIsSound

-----------------------------------------------------------------------------
MCInit ==
  /\ scenario \in {"evaluation", "cycles", "delta", "preflight", "check", "surfaces", "remedy", "rules", "facts", "reshape"}
  /\ Init
  /\ IF scenario = "cycles" THEN Search!Init ELSE CyclesIdle
  /\ IF scenario = "delta"
       THEN Delta!Init /\ (base.config.rules # <<>> => base.config.arkRules /\ base.arkFile = "enforced")
       ELSE DeltaIdle
  /\ IF scenario = "preflight"
       THEN Flight!Init /\ \A p \in {"f", "g"} : tree[p] \in Sources \cup {none}
       ELSE PreflightIdle
  /\ CheckInit /\ (scenario # "check" => debt = NoDebt)
  /\ IF scenario = "surfaces" THEN Surface!Init /\ (policy \in GlobalPolicies => siblings = {"x.ts"}) ELSE SurfacesIdle
  /\ IF scenario = "remedy" THEN Remedies!Init /\ edge["types"] # "peer" ELSE RemedyIdle
  /\ IF scenario = "rules"
       THEN Rulebook!Init /\ shelf["rules"] = NoRules /\ refs["D"] = "rules" /\ \A f \in DOMAIN code : code[f] = Bare
       ELSE RulesIdle
  /\ IF scenario = "facts" THEN Facts!Init ELSE FactsIdle
  /\ IF scenario = "reshape" THEN Shape!Init ELSE ShapeIdle

\* Only a binding gives a later statement another meaning.
SurfacesNext == (text # <<>> => policy \in GlobalPolicies /\ text[1].do = "bind") /\ Surface!Next
RemediesNext ==
  Remedies!Next /\ ((source'.functions # source.functions \/ source'.elsewhere # source.elsewhere) => PortProof)
MCNext ==
  /\ UNCHANGED scenario
  /\ \/ scenario = "evaluation" /\ Next
     \/ scenario = "cycles" /\ Search!Next
     \/ scenario = "delta" /\ Delta!Next
     \/ scenario = "preflight" /\ Flight!Next
     \/ scenario = "check" /\ CheckNext
     \/ scenario = "surfaces" /\ SurfacesNext
     \/ scenario = "remedy" /\ RemediesNext
     \/ scenario = "rules" /\ Rulebook!Next
     \/ scenario = "facts" /\ Facts!Next
     \/ scenario = "reshape" /\ Shape!Next
  /\ scenario # "evaluation" => UNCHANGED vars
  /\ scenario # "cycles" => UNCHANGED cycleVars
  /\ scenario # "delta" => UNCHANGED deltaVars
  /\ scenario # "preflight" => UNCHANGED preflightVars
  /\ scenario # "check" => UNCHANGED checkVars
  /\ scenario # "surfaces" => UNCHANGED surfaceVars
  /\ scenario # "remedy" => UNCHANGED remedyVars
  /\ scenario # "rules" => UNCHANGED ruleVars
  /\ scenario # "facts" => UNCHANGED factVars
  /\ scenario # "reshape" => UNCHANGED shapeVars
MCSpec == MCInit /\ [][MCNext]_mcVars
===============================================================================
