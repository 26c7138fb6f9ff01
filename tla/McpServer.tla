------------------------------ MODULE McpServer ------------------------------
(***************************************************************************)
(* The MCP server an agent keeps open for a session (bin/ark-mcp.mjs): it  *)
(* reads the contract once, when it starts, and answers one line of its    *)
(* input after another.  validate_code, ark_place, ark_prepare_write,      *)
(* ark_prepare_change, ark_policy_delta and the manifest answer from that  *)
(* contract; ark_check and ark_coverage run ark-check, a child that reads  *)
(* the contract and the tree afresh while anyone may edit them.  What a    *)
(* checker does with a source is the subject of Surfaces and Preflight:    *)
(* here a source is the files it imports, and whether it parses.           *)
(***************************************************************************)
EXTENDS Naturals, Sequences, FiniteSets, TLC

CONSTANTS
  Path,          \* governed source files; all of them exist
  Layer, NoLayer,
  DefaultDeny,   \* the layer edges DEFAULT_RULES denies
  Claims,        \* intent prefixes the layers of a document claim: [Layer -> set]
  Prefixes,      \* [default layer -> its intent prefixes]
  Conventional,  \* where a description without a path is proposed
  Presentation,  \* the layer such a proposal has when no pattern matches
  Starting,      \* the states of the disk a session begins with
  Edits,         \* the edits: sets of [part, to]
  Line,          \* what the agent may write on the input
  Explicit,      \* --config was given
  MaxLines, MaxEdits, None, Broken

VARIABLES
  disk,    \* [config, manifest, tree, baseline, rules, golden, host]
  server,  \* [pc, contract, manifest, host]: what it read when it started
  child,   \* the run of ark-check in progress, or None
  log,     \* history: the lines taken, each with its answer and the disk before it
  edits

vars == <<disk, server, child, log, edits>>

-----------------------------------------------------------------------------
\* An absent file is the contract of no layers and the default rules.
Default == [layers |-> {}, layerOf |-> [p \in Path |-> NoLayer], deny |-> None, warned |-> FALSE, refers |-> FALSE]

\* config.rules ?? DEFAULT_RULES
Denied(config) == IF config.deny = None THEN DefaultDeny ELSE config.deny

\* The contract a document stands for.
ReadConfig(file) == IF file = None THEN Default ELSE file

\* Mutant: rules left out are no rules.
ProfileDenyBare(contract, manifest) ==
  IF manifest # None /\ manifest.layers # {} THEN IF manifest.deny = None THEN DefaultDeny ELSE manifest.deny
  ELSE IF contract.deny = None THEN {} ELSE contract.deny

\* The rules of the profile: a manifest that names layers brings its own; a
\* project without layers has the eleven default ones.
ProfileDeny(contract, manifest) ==
  IF manifest # None /\ manifest.layers # {} THEN IF manifest.deny = None THEN DefaultDeny ELSE manifest.deny
  ELSE IF contract.layers = {} THEN DefaultDeny ELSE Denied(contract)

\* What ark-check and the atomic preflight enforce: a manifest's rules count
\* whether it names layers or not.
CheckDeny(contract, manifest) ==
  IF manifest # None /\ manifest.deny # None THEN manifest.deny ELSE Denied(contract)

ProfileLayers(contract, manifest) ==
  IF manifest # None /\ manifest.layers # {} THEN manifest.layers
  ELSE LET owning == {l \in contract.layers : Claims[l] # {}}
       IN  IF owning = {} THEN DOMAIN Prefixes ELSE owning

InferLayer(path, contract) == IF path = None THEN NoLayer ELSE contract.layerOf[path]

Refused(layer, source, contract, deny) ==
  {t \in source.imports : layer # NoLayer /\ contract.layerOf[t] # NoLayer /\ <<layer, contract.layerOf[t]>> \in deny}

\* The forbidden edges of a tree.
Violations(tree, contract, deny) ==
  {e \in Path \X Path : e[2] \in Refused(contract.layerOf[e[1]], tree[e[1]], contract, deny)}
Unparsed(tree) == {p \in Path : ~tree[p].parses}

-----------------------------------------------------------------------------
\* The answers of the tools that stay in the process.

\* One source at the place it is meant for: lexical evidence, so never valid.
Snippet(layer, source) ==
  LET refused == Refused(layer, source, server.contract, ProfileDeny(server.contract, server.manifest))
  IN  [completeness |-> IF server.host THEN "partial" ELSE "unavailable", valid |-> FALSE, refused |-> refused,
       lexical |-> server.host /\ source.parses /\ refused = {}]

Error == [error |-> TRUE]
Text(what) == [text |-> what]
Validate(args) ==
  IF args.source = None THEN Error
  ELSE Snippet(IF args.layer # NoLayer THEN args.layer ELSE InferLayer(args.path, server.contract), args.source)

\* Default layers the project neither declares nor covers by another's prefix.
SuggestedLayers ==
  LET profile == ProfileLayers(server.contract, server.manifest)
  IN  {l \in DOMAIN Prefixes :
         /\ l \notin server.contract.layers \cup profile
         /\ \A known \in profile \cap DOMAIN Claims : Prefixes[l] \cap Claims[known] = {}}

Golden == IF disk.golden \in {None, Broken} THEN None ELSE disk.golden

Placed(path, layer, governed, deny) ==
  [path |-> path, layer |-> layer, governed |-> governed, golden |-> Golden,
   mustNot |-> {l \in server.contract.layers \ {layer} : <<layer, l>> \in deny},
   suggested |-> IF governed /\ layer # NoLayer THEN {} ELSE SuggestedLayers]
PlaceResult(path, described) ==
  IF path = None
  THEN IF ~described THEN Error
       ELSE LET layer == server.contract.layerOf[Conventional]
            IN  [Placed(Conventional, IF layer = NoLayer THEN Presentation ELSE layer, layer # NoLayer, {})
                   EXCEPT !.suggested = {}]
  ELSE LET layer == server.contract.layerOf[path]
       IN  IF layer = NoLayer THEN Placed(path, NoLayer, server.contract.layers = {}, {})
           ELSE Placed(path, layer, TRUE, Denied(server.contract))
Place(args) == PlaceResult(args.path, args.described)

\* The place found comes before the layer the caller names.
PrepareWrite(args) ==
  LET placement == PlaceResult(args.path, args.described)
      layer == IF placement.layer # NoLayer THEN placement.layer ELSE args.layer
  IN  IF args.source = None \/ placement = Error THEN Error
      ELSE Snippet(layer, args.source) @@ [layer |-> layer, place |-> placement.path]

\* Strict: the changed tree may break no rule, and both trees must parse.
Changed(tree, args) == [p \in Path |-> IF p \in DOMAIN args.changes THEN args.changes[p] ELSE tree[p]]
PrepareChange(args) ==
  LET after == Changed(disk.tree, args)
      found == Violations(after, server.contract, CheckDeny(server.contract, server.manifest))
  IN  [found |-> found, valid |-> server.host /\ found = {} /\ Unparsed(disk.tree) \cup Unparsed(after) = {}]

\* Without a candidate the delta judges the contract the server started with.
PolicyDelta(args) ==
  IF args.base = None THEN Error
  ELSE [base |-> args.base, candidate |-> IF args.candidate = None THEN server.contract ELSE args.candidate]

\* The references are those of the start, the rule files those of now.
Catalog == IF server.contract.refers /\ disk.rules \notin {None, Broken} THEN disk.rules ELSE {}
Manifest ==
  IF server.manifest # None THEN server.manifest
  ELSE [layers |-> IF server.contract.layers = {} THEN DOMAIN Prefixes ELSE server.contract.layers,
        deny |-> ProfileDeny(server.contract, None), catalog |-> Catalog, suggested |-> SuggestedLayers]

\* The rules a scan of the sources suggests, those the catalogue has counted
\* apart; this tool is told of no frozen ones.
Inventory(tree, catalog) ==
  LET candidates == {p \in Path : tree[p].rule # None}
  IN  [inventoried |-> Cardinality(candidates), frozen |-> 0,
       under |-> Cardinality({p \in candidates : tree[p].rule \in catalog})]
RulesInventory == Inventory(disk.tree, Catalog)

-----------------------------------------------------------------------------
Off == [pc |-> "down", contract |-> Default, manifest |-> None, host |-> FALSE]
Init ==
  /\ disk \in Starting
  /\ server = Off /\ child = None /\ log = <<>> /\ edits = 0

Readable(file, required) == file # Broken /\ (required => file # None)

\* A configuration that is malformed, or named and missing, and a manifest that
\* is either, end the process; a project without a configuration is served.
Start ==
  /\ server.pc = "down"
  /\ Readable(disk.config, Explicit) /\ Readable(disk.manifest, FALSE)
  /\ server' = [pc |-> "ready", contract |-> ReadConfig(disk.config), manifest |-> disk.manifest, host |-> disk.host]
  /\ UNCHANGED <<disk, child, log, edits>>

\* The input ends: the agent's session is over.
Stop ==
  /\ server.pc = "ready" /\ child = None /\ log # <<>> /\ edits < MaxEdits
  /\ server' = Off /\ edits' = edits + 1
  /\ UNCHANGED <<disk, child, log>>

Answered(line, answer, at) ==
  log' = Append(log, [line |-> line, answer |-> answer, at |-> at, by |-> server])

InProcess ==
  {"validate_code", "ark_policy_delta", "ark_place", "ark_prepare_write", "ark_prepare_change",
   "ark_suggest_include", "ark_rules_inventory"}
Spawned == {"ark_check", "ark_coverage", "ark_recommend"}

Tool(line) ==
  CASE line.name = "validate_code" -> Validate(line.args)
    [] line.name = "ark_place" -> Place(line.args)
    [] line.name = "ark_prepare_write" -> PrepareWrite(line.args)
    [] line.name = "ark_prepare_change" -> PrepareChange(line.args)
    [] line.name = "ark_policy_delta" -> PolicyDelta(line.args)
    [] line.name = "ark_rules_inventory" -> RulesInventory
    [] OTHER -> Text("a suggestion")

\* What is said of a line: None where nothing is said.  An array of requests has
\* no id and falls silent with the notifications.
Said(line) ==
  CASE line.method \in {"blank", "notification", "batch"} -> None
    [] line.method = "garbage" -> [code |-> 32700]
    [] line.method = "no object" -> [code |-> 32603]
    [] line.method = "tools/call" -> IF line.name \in InProcess THEN Tool(line) ELSE [code |-> 32602]
    [] line.method = "resources/read" -> IF line.name = "ark://manifest" THEN Manifest ELSE [code |-> 32602]
    [] line.method \in {"initialize", "ping", "tools/list", "resources/list"} -> Text("ok")
    [] OTHER -> [code |-> 32601]

\* One line at a time; the lines written meanwhile wait in the pipe.
Ready == server.pc = "ready" /\ child = None /\ Len(log) < MaxLines
Runs(line) == line.method = "tools/call" /\ line.name \in Spawned
Handle ==
  /\ Ready
  /\ \E line \in Line : ~Runs(line) /\ Answered(line, Said(line), disk)
  /\ UNCHANGED <<disk, server, child, edits>>

\* The baseline is looked for before the child starts.
Spawn ==
  /\ Ready
  /\ \E line \in Line :
       /\ Runs(line)
       /\ child' = [line |-> line, at |-> disk, contract |-> None, manifest |-> None,
                     baseline |-> line.name = "ark_check" /\
                       (IF line.args.baseline = None THEN disk.baseline # None ELSE line.args.baseline)]
  /\ UNCHANGED <<disk, server, log, edits>>

Finish(answer) ==
  /\ Answered(child.line, answer, IF child.at = disk THEN disk ELSE None)
  /\ child' = None
  /\ UNCHANGED <<disk, server, edits>>

\* The child reads the contract; an unreadable one is reported on its error
\* output, and the server finds no JSON.
ChildReadsContract ==
  /\ child # None /\ child.contract = None /\ child.line.name # "ark_recommend"
  /\ IF Readable(disk.config, FALSE) /\ Readable(disk.manifest, FALSE)
     THEN /\ child' = [child EXCEPT !.contract = ReadConfig(disk.config), !.manifest = disk.manifest]
          /\ UNCHANGED <<disk, server, log, edits>>
     ELSE Finish(Error)

CheckAnswer(tree, frozen, host) ==
  LET found == IF host THEN Violations(tree, child.contract, CheckDeny(child.contract, child.manifest)) ELSE {}
      lacking == child.baseline /\ frozen = None
      active == IF child.baseline /\ ~lacking THEN found \ frozen ELSE found
  IN  [found |-> found, unparsed |-> Unparsed(tree),
       ok |-> /\ host /\ Unparsed(tree) = {} /\ active = {}
              /\ child.line.args.strict => ~child.contract.warned /\ ~lacking]

Coverage ==
  [unclassified |-> {p \in Path : child.contract.layerOf[p] = NoLayer},
   empty |-> {l \in child.contract.layers : \A p \in Path : child.contract.layerOf[p] # l}]

\* The child reads the tree and reports; coverage needs no TypeScript.
ChildReports ==
  /\ child # None /\ (child.contract # None \/ child.line.name = "ark_recommend")
  /\ Finish(CASE child.line.name = "ark_check" -> CheckAnswer(disk.tree, disk.baseline, disk.host)
              [] child.line.name = "ark_coverage" -> Coverage
              [] OTHER -> Text("a recommendation"))

\* It has two minutes.
ChildTimesOut == child # None /\ Finish(Error)

\* An editor, another agent, or this one once it has its answer.
Edit ==
  /\ edits < MaxEdits /\ edits' = edits + 1
  /\ \/ \E e \in Edits : disk[e.part] # e.to /\ disk' = [disk EXCEPT ![e.part] = e.to]
     \/ \E n \in DOMAIN log :
          /\ log[n].line.method = "tools/call" /\ log[n].line.name = "ark_prepare_change"
          /\ disk' = [disk EXCEPT !.tree = Changed(disk.tree, log[n].line.args)]
  /\ UNCHANGED <<server, child, log>>

Next == Start \/ Stop \/ Handle \/ Spawn \/ ChildReadsContract \/ ChildReports \/ ChildTimesOut \/ Edit
Spec == Init /\ [][Next]_vars

-----------------------------------------------------------------------------
\* The answers a tool has given.
Asked(name) == {n \in DOMAIN log : log[n].line.method = "tools/call" /\ log[n].line.name = name /\ log[n].answer # Error}

\* The contract on the disk is still the one the server started with.
Unchanged(entry, d) ==
  /\ d # None /\ d.config # Broken /\ ReadConfig(d.config) = entry.by.contract
  /\ d.manifest = entry.by.manifest /\ d.host = entry.by.host
\* No manifest gives rules that only one of gate and check takes.
SameRules(by) == by.manifest # None => by.manifest.layers # {} /\ by.manifest.deny # None

\* The gate on the write path and the check cannot disagree (ark-mcp-runtime.mjs:
\* 1291): validate_code passes the source of a file exactly if ark_check, run on
\* the same disk, finds no edge of that file, and is sure of it.
GateAgreesWithCheck ==
  \A v \in Asked("validate_code"), c \in Asked("ark_check") :
    LET args == log[v].line.args IN
    /\ Unchanged(log[v], log[c].at) /\ SameRules(log[v].by) /\ log[v].by.host
    /\ args.layer = NoLayer /\ args.path # None /\ args.source = log[c].at.tree[args.path]
    => /\ log[v].answer.refused = {e[2] : e \in {x \in log[c].answer.found : x[1] = args.path}}
       /\ log[v].answer.lexical <=>
            args.path \notin log[c].answer.unparsed /\ \A e \in log[c].answer.found : e[1] # args.path

\* ark_place forbids a layer exactly if validate_code refuses an import of one of
\* its files, and ark_prepare_write judges as validate_code does where the path
\* alone decides the layer.
PlaceAgreesWithGate ==
  \A p \in Asked("ark_place"), v \in Asked("validate_code") :
    LET args == log[v].line.args
        contract == log[v].by.contract IN
    /\ log[p].by = log[v].by /\ args.layer = NoLayer /\ args.path # None /\ args.path = log[p].answer.path
    /\ log[v].by.manifest = None
    => \A t \in args.source.imports :
         contract.layerOf[t] # contract.layerOf[args.path] =>
           (t \in log[v].answer.refused <=> contract.layerOf[t] \in log[p].answer.mustNot)
WriteAgreesWithGate ==
  \A w \in Asked("ark_prepare_write"), v \in Asked("validate_code") :
    LET args == log[v].line.args IN
    /\ log[w].by = log[v].by /\ args.path # None /\ args.path = log[w].answer.place /\ args.source = log[w].line.args.source
    /\ args.layer = NoLayer \/ args.layer = log[w].answer.layer
    /\ log[w].line.args.layer = NoLayer /\ log[w].line.args.path # None
    => /\ log[w].answer.lexical = log[v].answer.lexical /\ log[w].answer.refused = log[v].answer.refused

\* A change the server found valid, written to the tree it was judged against, is
\* one ark_check passes.
PreparedChangePasses ==
  \A m \in Asked("ark_prepare_change"), c \in Asked("ark_check") :
    /\ log[m].answer.valid /\ Unchanged(log[m], log[c].at)
    /\ log[c].at.tree = Changed(log[m].at.tree, log[m].line.args)
    => log[c].answer.found = {} /\ log[c].answer.unparsed = {}

\* The golden pattern is advice: with it or without it, a path keeps its place.
\* And a delta without a candidate is about the contract the tools enforce.
GoldenIsAdvice ==
  \A p, q \in Asked("ark_place") :
    log[p].by = log[q].by /\ log[p].line = log[q].line =>
      [log[p].answer EXCEPT !.golden = None] = [log[q].answer EXCEPT !.golden = None]
DeltaIsAboutTheContract ==
  \A d \in Asked("ark_policy_delta"), c \in Asked("ark_check") :
    log[d].line.args.candidate = None /\ Unchanged(log[d], log[c].at) /\ log[d].by.host =>
      log[c].answer.found = Violations(log[c].at.tree, log[d].answer.candidate, CheckDeny(log[d].answer.candidate, log[d].by.manifest))

\* While the contract is what it was when the server started, the tools of one
\* session agree with one another and with the check, whoever edits the tree
\* in between and whatever is asked in between.
ServerIsCoherent ==
  /\ GateAgreesWithCheck /\ PlaceAgreesWithGate /\ WriteAgreesWithGate
  /\ PreparedChangePasses /\ GoldenIsAdvice /\ DeltaIsAboutTheContract
=============================================================================
