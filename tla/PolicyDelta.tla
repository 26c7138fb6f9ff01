------------------------------ MODULE PolicyDelta ------------------------------
(***************************************************************************)
(* A contract (ark.config.json and its ArkRules files) changes in a work   *)
(* tree while the contract of the merge base stays in Git.  A strict check *)
(* classifies the difference (src/src/domain/policyDelta.ts) and lets a    *)
(* weaker contract through only with an acknowledgement of exactly this    *)
(* transition (analysisCore.ts, bin/lib/policy-delta-io.mjs).  What a      *)
(* contract protects is what the layer matcher, the edge rules and the     *)
(* capability walls enforce.                                               *)
(***************************************************************************)
EXTENDS Naturals, SequencesExt, FiniteSetsExt

CONSTANTS
  File,                     \* files of the project: sequences of path segments
  Pattern,                  \* globs: the segments before a final "/**"
  Rule,                     \* edge rules that may be written
  StartLayers,              \* layers of the first contract
  NoLayer, NoSlice, NoFile, MaxEdits, MaxRules

VARIABLES
  base,     \* the commit a strict check compares with: config and ArkRules file
  work,     \* the same in the work tree
  ack,      \* acknowledgement file: hashes and finding ids, or NoFile
  edits
vars == <<base, work, ack, edits>>

Ambient == {"process", "process.env", "fetch"}
Capability(e) == CASE e = "process" -> "process" [] e = "process.env" -> "environment" [] e = "fetch" -> "network"
Prefixed(g) == IF g = "process" THEN {"process", "process.env"} ELSE Ambient \cap {g}
Rank(mode) == CASE mode = "enforced" -> 2 [] mode = "advisory" -> 1 [] mode = NoFile -> 0

-----------------------------------------------------------------------------
\* What a contract enforces.

Matches(p, f) == Len(p) < Len(f) /\ SubSeq(f, 1, Len(p)) = p
Specificity(p) == Len(p)
InferredFolders(patterns) == {Last(p) : p \in patterns \ {<<>>}}
SliceId(f, folders) ==
  LET at == {i \in 1..(Len(f) - 1) : f[i] \in folders}
  IN IF at = {} THEN NoSlice ELSE LET i == Min(at) IN <<f[i], f[i + 1]>>

Hits(config, f) ==
  {h \in (DOMAIN config.layers) \X Pattern :
     /\ h[2] \in config.layers[h[1]].patterns /\ Matches(h[2], f)
     /\ \A q \in config.layers[h[1]].exclude : ~Matches(q, f)}
Better(h, g) ==
  \/ Specificity(h[2]) > Specificity(g[2])
  \/ Specificity(h[2]) = Specificity(g[2]) /\ h[1] <= g[1]
LayerForPath(config, f) ==
  LET hits == IF f[1] \in config.include THEN Hits(config, f) ELSE {}
  IN IF hits = {} THEN NoLayer
     ELSE config.layers[(CHOOSE h \in hits : \A g \in hits : Better(h, g))[1]].name

\* The folders a rule isolates: its own, else those the first layer of that name implies.
FoldersOf(config, rule) ==
  LET named == SelectSeq(config.layers, LAMBDA l : l.name = rule.from)
  IN IF rule.folders # {} THEN rule.folders
     ELSE IF named = <<>> THEN {} ELSE InferredFolders(named[1].patterns)
RuleDenies(config, rule, f, g) ==
  /\ rule.from = LayerForPath(config, f) /\ rule.to = LayerForPath(config, g) /\ ~rule.allowed
  /\ IF ~rule.peer THEN rule.from # rule.to
     ELSE LET folders == FoldersOf(config, rule) IN
          NoSlice \in {SliceId(f, folders), SliceId(g, folders)} \/ SliceId(f, folders) # SliceId(g, folders)
EdgeDenied(config, f, g) == \E i \in DOMAIN config.rules : RuleDenies(config, config.rules[i], f, g)

UseDenied(config, f, e) ==
  \E i \in DOMAIN config.layers :
    /\ config.layers[i].name = LayerForPath(config, f)
    /\ \/ \E g \in config.layers[i].globals : e \in Prefixed(g)
       \/ Capability(e) \in config.layers[i].walls

DeniedEdges(config) == {p \in File \X File : p[1] # p[2] /\ EdgeDenied(config, p[1], p[2])}
DeniedUses(config) == {p \in File \X Ambient : UseDenied(config, p[1], p[2])}

-----------------------------------------------------------------------------
\* The classification of a change.  A finding is <<classification, path, kind>>.

CompareSets(path, before, after, added, removed) ==
  {<<added, path, "added">> : x \in after \ before} \cup {<<removed, path, "removed">> : x \in before \ after}

\* Of several elements with one key the first counts.
Duplicates(keys) == {i \in DOMAIN keys : \E j \in 1..(i - 1) : keys[j] = keys[i]}
Keyed(seq, keys) == {seq[i] : i \in DOMAIN seq \ Duplicates(keys)}

LoweredCoverage(layer) ==
  UNION {Prefixed(g) : g \in layer.globals} \cup layer.walls
    \cup {e \in Ambient : Capability(e) \in layer.walls}

CompareLayer(before, after) ==
  LET at == <<"layers", before.name>> IN
  CompareSets(Append(at, "patterns"), before.patterns, after.patterns, "strengthening", "weakening")
    \cup CompareSets(Append(at, "exclude"), before.exclude, after.exclude, "weakening", "strengthening")
    \cup CompareSets(Append(at, "capabilities"), LoweredCoverage(before), LoweredCoverage(after), "strengthening", "weakening")

LayerKeys(layers) == [i \in DOMAIN layers |-> layers[i].name]
CompareLayers(before, after) ==
  LET old == Keyed(before, LayerKeys(before)) new == Keyed(after, LayerKeys(after))
      names(layers) == {l.name : l \in layers}
  IN {<<"judgment-required", <<"layers">>, "duplicate-layer">> :
        i \in Duplicates(LayerKeys(before)) \cup Duplicates(LayerKeys(after))}
     \cup {<<"judgment-required", <<"layers", n>>, "layer-added">> : n \in names(new) \ names(old)}
     \cup {<<"weakening", <<"layers", n>>, "layer-removed">> : n \in names(old) \ names(new)}
     \cup UNION {CompareLayer(p[1], p[2]) : p \in {q \in old \X new : q[1].name = q[2].name}}

RuleKey(rule) == <<rule.from, rule.to>>
RuleKeys(rules) == [i \in DOMAIN rules |-> RuleKey(rules[i])]
\* Mutant: isolation is taken for an additional denial on every edge.
PeerClassOfAnyEdge(before, after) == IF after.peer THEN "strengthening" ELSE "weakening"
PeerClass(before, after) ==
  CASE before.from # before.to -> "judgment-required"
    [] after.peer -> "strengthening"
    [] OTHER -> "weakening"
Changed(before, after, class, path, kind) == IF before = after THEN {} ELSE {<<class, path, kind>>}
CompareRule(before, after) ==
  LET at == <<"rules", RuleKey(before)>> IN
  Changed(before.allowed, after.allowed, IF after.allowed THEN "weakening" ELSE "strengthening", at, "deny")
    \cup Changed(before.peer, after.peer, PeerClass(before, after), at, "peer-isolation")
    \cup Changed(before.folders, after.folders, "judgment-required", at, "slice-folders-changed")

CompareRules(before, after) ==
  LET old == Keyed(before, RuleKeys(before)) new == Keyed(after, RuleKeys(after))
      only(rules, others) == {r \in rules : ~r.allowed /\ \A o \in others : RuleKey(o) # RuleKey(r)}
  IN {<<"judgment-required", <<"rules">>, "duplicate-rule">> :
        i \in Duplicates(RuleKeys(before)) \cup Duplicates(RuleKeys(after))}
     \cup {<<"strengthening", <<"rules", RuleKey(r)>>, "deny-added">> : r \in only(new, old)}
     \cup {<<"weakening", <<"rules", RuleKey(r)>>, "deny-removed">> : r \in only(old, new)}
     \cup UNION {CompareRule(p[1], p[2]) : p \in {q \in old \X new : RuleKey(q[1]) = RuleKey(q[2])}}

\* One referenced file with one structure rule: its mode, or NoFile.
CompareArkRules(before, after) ==
  Changed(before.referenced, after.referenced, IF after.referenced THEN "strengthening" ELSE "weakening", <<"arkRules">>, "ref")
    \cup Changed(before.mode, after.mode, IF Rank(after.mode) > Rank(before.mode) THEN "strengthening" ELSE "weakening",
                 <<"structure">>, "mode")

\* The rules in force: those of a file the config refers to.
Effective(config, disk) ==
  [referenced |-> config.arkRules, mode |-> IF config.arkRules THEN disk ELSE NoFile]

Classify(before, beforeRules, after, afterRules) ==
  CompareSets(<<"include">>, before.include, after.include, "strengthening", "weakening")
    \cup CompareLayers(before.layers, after.layers)
    \cup CompareRules(before.rules, after.rules)
    \cup CompareArkRules(beforeRules, afterRules)

Blocking(findings) == {f \in findings : f[1] \in {"weakening", "judgment-required"}}

-----------------------------------------------------------------------------
\* The strict check.  Both sets of ArkRules are read from the work tree's files.

RulesOf(config) == Effective(config, work.arkFile)
Findings == Classify(base.config, RulesOf(base.config), work.config, RulesOf(work.config))
Transition == [base |-> <<base.config, RulesOf(base.config)>>, candidate |-> <<work.config, RulesOf(work.config)>>,
               ids |-> Blocking(Findings)]

AcknowledgementMatches(a) == a # NoFile /\ a = Transition

CandidateLoads == work.config.arkRules => work.arkFile # NoFile
Passes == CandidateLoads /\ (Blocking(Findings) = {} \/ AcknowledgementMatches(ack))

-----------------------------------------------------------------------------
Contracts ==
  [config : [include : {{f[1] : f \in File}}, layers : {StartLayers}, rules : {<<>>} \cup {<<r>> : r \in Rule},
             arkRules : BOOLEAN],
   arkFile : {"enforced", "advisory"}]

Init ==
  /\ base \in Contracts /\ work = base
  /\ ack = NoFile /\ edits = 0

Toggle(S, x) == IF x \in S THEN S \ {x} ELSE S \cup {x}

RuleEdits(config) ==
  {[config EXCEPT !.rules = RemoveAt(@, i)] : i \in DOMAIN config.rules}
    \cup {[config EXCEPT !.rules[i] = r] : i \in DOMAIN config.rules, r \in Rule}
    \cup {[config EXCEPT !.rules = Append(@, r)] : r \in IF Len(config.rules) < MaxRules THEN Rule ELSE {}}
LayerEdits(config) ==
  UNION {
    {[config EXCEPT !.layers[i].patterns = Toggle(@, p)] : p \in Pattern}
      \cup {[config EXCEPT !.layers[i].exclude = Toggle(@, p)] : p \in Pattern}
      \cup {[config EXCEPT !.layers[i].globals = Toggle(@, e)] : e \in Ambient}
      \cup {[config EXCEPT !.layers[i].walls = Toggle(@, Capability(e))] : e \in Ambient}
      \cup {[config EXCEPT !.layers = RemoveAt(@, i)]}
      : i \in DOMAIN config.layers}
ScanEdits(config) == {[config EXCEPT !.include = Toggle(@, f[1])] : f \in File}
ConfigEdits(config) ==
  RuleEdits(config) \cup LayerEdits(config) \cup ScanEdits(config) \cup {[config EXCEPT !.arkRules = ~@]}
Edited(side) ==
  {[side EXCEPT !.config = c] : c \in ConfigEdits(side.config)}
    \cup {[side EXCEPT !.arkFile = m] : m \in {"enforced", "advisory", NoFile}}

Edit == edits < MaxEdits /\ work' \in Edited(work) /\ edits' = edits + 1 /\ UNCHANGED <<base, ack>>

\* Another change lands on the base branch.
BaseMoves == edits < MaxEdits /\ base' \in Edited(base) /\ edits' = edits + 1 /\ UNCHANGED <<work, ack>>

\* The author acknowledges the transition the check has printed.
Acknowledge == CandidateLoads /\ Blocking(Findings) # {} /\ ack' = Transition /\ UNCHANGED <<base, work, edits>>

\* The change is merged after a strict check of exactly these two commits.
Merge == Passes /\ base # work /\ base' = work /\ UNCHANGED <<work, ack, edits>>

Next == Edit \/ BaseMoves \/ Acknowledge \/ Merge
Spec == Init /\ [][Next]_vars

-----------------------------------------------------------------------------
\* A file keeps its owner if it stays in its layer or leaves them all, and the
\* slices that layer implies stay the same.
KeepsOwner(f) ==
  LET before == LayerForPath(base.config, f) after == LayerForPath(work.config, f)
      folders(config) == FoldersOf(config, [from |-> before, folders |-> {}])
  IN after \in {before, NoLayer} /\ folders(base.config) = folders(work.config)

Lost ==
  \/ \E p \in DeniedEdges(base.config) \ DeniedEdges(work.config) : KeepsOwner(p[1]) /\ KeepsOwner(p[2])
  \/ \E p \in DeniedUses(base.config) \ DeniedUses(work.config) : KeepsOwner(p[1])

\* No import and no use of an ambient capability that the base forbids becomes
\* allowed by a change that passes, unless somebody acknowledged exactly the
\* findings of exactly these two contracts, and not of earlier ones.
LossIsAcknowledged ==
  Passes /\ Lost =>
    /\ ack # NoFile /\ ack.ids = Blocking(Findings)
    /\ ack.base[1] = base.config /\ ack.candidate[1] = work.config

\* A structure rule in force is not demoted or deleted without an acknowledgement.
DemotionIsAcknowledged ==
  Passes /\ Rank(Effective(base.config, base.arkFile).mode) > Rank(Effective(work.config, work.arkFile).mode)
    => ack # NoFile
=============================================================================
