------------------------------- MODULE Surfaces -------------------------------
(***************************************************************************)
(* One contract judged in three places: ark-check on resolved facts        *)
(* (resolvedAnalysis, semanticAnalysis, resolved-candidate-facts), the     *)
(* write gate on the text of one file (AICodeGate, import-resolve), and    *)
(* the ESLint plugin in the editor (eslint/index).  The file under         *)
(* judgement grows statement by statement; its imports aim at one place of *)
(* the tree, where several files may answer to one name.                   *)
(***************************************************************************)
EXTENDS Naturals, FiniteSets, SequencesExt, Functions

CONSTANTS
  Statement,       \* the statements tried
  Ambient,         \* paths of globals that stand for a capability
  CapabilityOf,    \* the capability of such a path
  ModuleCapability,\* the capability of a module, for the modules that have one
  Dual,            \* the modules that are the import form of a global
  InfraName,       \* specifiers that sound like infrastructure
  Policies, Trees, \* policies and sets of files at the place aimed at
  MaxStatements

VARIABLES
  text,    \* the statements of the file, in order
  governed,\* whether a layer owns the file
  policy,  \* the file's layer, the other layers' globals, the rule for the edge
  siblings \* the files at the place the imports aim at
vars == <<text, governed, policy, siblings>>

-----------------------------------------------------------------------------
\* Ambient globals: what a path means in this file, and what it matches.
Normalized(path) == IF path[1] = "globalThis" THEN Tail(path) ELSE path
BestMatch(entries, path) ==
  LET hits == {e \in entries : IsPrefix(e, Normalized(path))} IN
  {e \in hits : \A h \in hits : Len(h) <= Len(e)}

Binds(s) == CASE s.do = "bind" -> {s.name}
              [] s.do = "use" /\ s.form = "destructured" -> {Last(s.path)}
              [] OTHER -> {}
Bound == UNION {Binds(text[i]) : i \in DOMAIN text}

Resolve(aliases, path) ==
  CASE path[1] \in DOMAIN aliases -> aliases[path[1]] \o Tail(path)
    [] path[1] \in Bound \ DOMAIN aliases -> <<>>
    [] OTHER -> path
\* const p = process at the top of the file makes p an alias.
Aliases ==
  FoldLeft(LAMBDA known, s :
             IF s.do = "bind" /\ Resolve(known, s.path) # <<>>
               THEN [n \in DOMAIN known \cup {s.name} |-> IF n = s.name THEN Resolve(known, s.path) ELSE known[n]]
               ELSE known,
           [n \in {} |-> <<>>], text)

PathMatches(entries, path) ==
  IF Len(path) = 1
    THEN IF path[1] \in Bound THEN {} ELSE {path} \cap entries
    ELSE LET resolved == Resolve(Aliases, path) IN IF resolved = <<>> THEN {} ELSE BestMatch(entries, resolved)
\* collectForbiddenCapabilityUses: the entries that statement s touches.
Matches(entries, s) ==
  CASE s.do = "bind" \/ (s.do = "use" /\ s.form # "destructured") -> PathMatches(entries, s.path)
    [] s.do = "use" /\ s.form = "destructured" ->
         LET base == Resolve(Aliases, Front(s.path)) IN
         PathMatches(entries, Front(s.path))
           \cup (IF base = <<>> THEN {} ELSE BestMatch(entries, Append(base, Last(s.path))))
    [] OTHER -> {}

\* Mutant: an entry covers only itself.
CoveredExactly(symbol) == symbol \in policy.globals
Covered(symbol) == \E e \in policy.globals : IsPrefix(e, symbol)
Denied(symbol) ==
  \E e \in BestMatch(Ambient, symbol) : CapabilityOf[e] \in policy.deny

-----------------------------------------------------------------------------
\* Imports.  As coded, a default import beside named types counts as erased.
TypeOnly(s) == s.do = "dep" /\ s.erasure # "value"
Erased(s) == s.do = "dep" /\ s.erasure \in {"type", "named types"}

\* The first file of a list that exists.
Found(candidates) == LET there == {i \in DOMAIN candidates : candidates[i] \in siblings}
                     IN IF there = {} THEN "nothing" ELSE candidates[Min(there)]
LayerOf(file) == CASE file = "x/index.ts" -> policy.nested [] file = "nothing" -> "none" [] OTHER -> "I"

\* TypeScript looks for x.ts behind "x.js", and for sources before outputs.
CheckTarget(spec) ==
  CASE spec = "./x" -> Found(<<"x.ts", "x/index.ts", "x.js">>)
    [] spec = "./x.js" -> Found(<<"x.ts", "x.js">>)
    [] OTHER -> "nothing"
EditorTarget(spec) ==
  CASE spec = "./x" -> Found(<<"x.ts", "x.js", "x/index.ts">>)
    [] spec = "./x.js" -> Found(<<"x.js">>)
    [] OTHER -> "nothing"
\* The gate does not look for files: the path as written, or its directory.
GateLayer(spec) ==
  CASE spec = "./x" -> IF "x/index.ts" \in siblings THEN policy.nested ELSE "I"
    [] spec = "./x.js" -> "I"
    [] OTHER -> "none"

EdgeDenied(layer) == layer # "none" /\ policy.edge[layer] # "allow"
DualDenied(s) == \E g \in DOMAIN Dual : <<g>> \in policy.globals /\ s.spec \in Dual[g]
ModuleDenied(s) == s.spec \in DOMAIN ModuleCapability /\ ModuleCapability[s.spec] \in policy.deny

\* classifyPublishFacts, from what each surface can see of the call.
PublishRules(raw, candidate, source) ==
  (IF raw THEN {"RAW"} ELSE {}) \cup (IF candidate /\ ~source THEN {"SOURCE"} ELSE {})
Raw(s) == s.arg \in {"intent", "object"}
Candidate(s) == s.arg \in {"intent", "object", "creator"}

-----------------------------------------------------------------------------
\* ark-check: symbols are matched against every layer's entries, then judged
\* by the file's own layer.
CheckRules(s) ==
  LET symbols == Matches(Ambient \cup policy.globals \cup policy.otherGlobals, s)
      import == s.do = "dep" /\ ~TypeOnly(s)
  IN IF ~governed THEN {} ELSE
     {r \in {"GLOBAL"} : (\E y \in symbols : Covered(y)) \/ (import /\ DualDenied(s))}
     \cup {r \in {"CAPABILITY"} : (\E y \in symbols : ~Covered(y) /\ Denied(y)) \/ (import /\ ~DualDenied(s) /\ ModuleDenied(s))}
     \cup {r \in {"LAYER"} : s.do = "dep" /\ EdgeDenied(LayerOf(CheckTarget(s.spec)))}
     \cup (IF s.do = "publish" THEN PublishRules(Raw(s), Candidate(s), s.source # "none") ELSE {})

\* The gate: globals against the layer's own entries, walls against the
\* ambient ones; an erased import passes unless slices are isolated.
GateEdges(s) ==
  LET layer == GateLayer(s.spec) IN
  {r \in {"LAYER"} : governed /\ EdgeDenied(layer) /\ (TypeOnly(s) => policy.edge[layer] = "isolated")}
  \cup {r \in {"HEURISTIC"} : ~TypeOnly(s) /\ ~policy.infra /\ (governed => layer = "none") /\ s.spec \in InfraName}
GateGlobals(s) ==
  {r \in {"GLOBAL"} : policy.globals # {} /\ (Matches(policy.globals, s) # {} \/ (s.do = "dep" /\ ~TypeOnly(s) /\ DualDenied(s)))}
GateWalls(s) ==
  {r \in {"CAPABILITY"} :
     policy.deny # {} /\ (\/ \E y \in Matches(Ambient, s) : ~Covered(y) /\ Denied(y)
                          \/ s.do = "dep" /\ ~TypeOnly(s) /\ ~DualDenied(s) /\ ModuleDenied(s))}
GatePublish(s) == PublishRules(Raw(s), Candidate(s), s.source # "none")
GateRules(s) ==
  (IF s.do = "dep" THEN GateEdges(s) ELSE {})
  \cup (IF governed THEN GateGlobals(s) \cup GateWalls(s) ELSE {})
  \cup (IF s.do = "publish" THEN GatePublish(s) ELSE {})

\* The editor: no aliases, no computed names, static imports only for layers.
EditorEdges(s) == {r \in {"LAYER"} : s.form = "static" /\ EdgeDenied(LayerOf(EditorTarget(s.spec)))}
EditorPublish(s) == IF s.callee = "member" THEN PublishRules(Raw(s), TRUE, s.source \in {"metadata", "third"}) ELSE {}
EditorNames(s) ==
  LET path == IF s.do = "use" /\ s.form = "destructured" THEN Front(s.path) ELSE s.path
      root == IF s.do = "use" /\ s.form = "computed" THEN <<path[1]>> ELSE path
      explicit == root[1] = "globalThis"
  IN /\ root[1] \notin Bound
     /\ \/ <<root[1]>> \in policy.globals
        \/ \E e \in policy.globals : IsPrefix(e, Normalized(root)) /\ (explicit \/ Len(e) >= 2)
EditorGlobals(s) ==
  {r \in {"GLOBAL"} : IF s.do = "dep" THEN ~Erased(s) /\ DualDenied(s) ELSE EditorNames(s)}
EditorWalls(s) == {r \in {"CAPABILITY"} : ~Erased(s) /\ ~DualDenied(s) /\ ModuleDenied(s)}
EditorRules(s) ==
  IF s.do = "publish" THEN EditorPublish(s)
  ELSE IF ~governed THEN {}
  ELSE EditorGlobals(s) \cup (IF s.do = "dep" THEN EditorEdges(s) \cup EditorWalls(s) ELSE {})

-----------------------------------------------------------------------------
Init == text = <<>> /\ governed \in BOOLEAN /\ policy \in Policies /\ siblings \in Trees
Write(s) ==
  /\ Len(text) < MaxStatements
  /\ text' = Append(text, s)
  /\ UNCHANGED <<governed, policy, siblings>>
Next == \E s \in Statement : Write(s)
Spec == Init /\ [][Next]_vars

-----------------------------------------------------------------------------
\* A name that a file and a directory share means the file to TypeScript and
\* the directory to the gate.
OneMeaning == ~("x/index.ts" \in siblings /\ siblings \cap {"x.ts", "x.js"} # {})
Excused(s) == TypeOnly(s) /\ policy.edge[LayerOf(CheckTarget(s.spec))] = "deny"

\* The write gate and the check disagree about no statement: what one of them
\* blocks the other blocks, but for erased imports, targets that do not exist,
\* publishing outside all layers and the gate's own heuristic.  They match
\* against different sets of entries to get there (ark-mcp-runtime.mjs:1283).
GateAgreesWithCheck ==
  governed /\ OneMeaning =>
    \A i \in DOMAIN text :
      LET s == text[i]
          check == CheckRules(s) \ (IF s.do = "dep" /\ TypeOnly(s) /\ CheckTarget(s.spec) # "nothing" /\ Excused(s) THEN {"LAYER"} ELSE {})
          gate == GateRules(s) \ ({"HEURISTIC"} \cup (IF s.do = "dep" /\ CheckTarget(s.spec) = "nothing" THEN {"LAYER"} ELSE {}))
      IN (check = {}) = (gate = {})

\* The check speaks of one use once: the layer's own list or its wall.
OneVoice ==
  \A i \in DOMAIN text :
    text[i].do = "use" /\ text[i].form # "destructured" => CheckRules(text[i]) # {"GLOBAL", "CAPABILITY"}

\* The editor invents no violation of the contract, and sees the layer edges
\* of static relative imports whose target has the extension they name.
EditorSeesEdges ==
  \A i \in DOMAIN text :
    LET s == text[i] IN
    /\ s.do # "publish" /\ ~(TypeOnly(s) /\ ~Erased(s)) => EditorRules(s) \ {"LAYER"} \subseteq CheckRules(s)
    /\ OneMeaning /\ s.do = "dep" /\ s.form = "static" /\ ~(s.spec = "./x.js" /\ "x.js" \notin siblings)
         => ("LAYER" \in EditorRules(s)) = ("LAYER" \in CheckRules(s))

SurfacesAgree == GateAgreesWithCheck /\ OneVoice /\ EditorSeesEdges
===============================================================================
