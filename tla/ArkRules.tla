------------------------------- MODULE ArkRules -------------------------------
(***************************************************************************)
(* The intra-layer rules of a contract: files the config refers to, one    *)
(* per layer, with structure rules that sensors judge and invariants that  *)
(* tests or symbols cover (src/src/domain/arkRulesContract.ts,             *)
(* effectiveContract.ts, arkRuleSensors.ts, invariantCoverage.ts), and the *)
(* verdict of a scan that reads a bounded number of files for them         *)
(* (bin/lib/invariant-coverage-io.mjs, arkrule-file-hints.mjs,             *)
(* src/src/kernel/resolvedAnalysis.ts).                                    *)
(***************************************************************************)
EXTENDS Naturals, SequencesExt, FiniteSets

CONSTANTS
  Layers,         \* layers the config declares
  Governed,       \* sequence: governed files in scan order; a file is its path's segments
  LayerOf,        \* layer of a governed file, or None
  TestFile,       \* sequence: files below the test folders, in the order of the walk
  RuleFile,       \* names of rules files
  Occurs,         \* the ids and symbols whose text occurs in a written word
  Refs, Rules, Codes, Words,  \* what references, rules files, sources and tests may be
  Cap,            \* files read for evidence and for hints
  MaxEdits, None

VARIABLES
  refs,           \* the file a layer refers to, or None
  disk,           \* rules files: what they say, or None
  code,           \* governed files
  tests,          \* test files: the words written in them, or None
  edits
vars == <<refs, disk, code, tests, edits>>

Tier2 == {"no-anemic-model"}
ShapeSensors == {"aggregate-private-state", "always-valid-factory", "domain-event-on-mutation", "no-anemic-model"}
HintSensors == {"orchestration-only", "thin-adapter"}

-----------------------------------------------------------------------------
\* Loading.  A rules file names its layer; a rule has an id, a mode and perhaps a scope.

Repeated(file) ==
  \E i, j \in DOMAIN (file.structure \o file.invariants) :
    i # j /\ (file.structure \o file.invariants)[i].id = (file.structure \o file.invariants)[j].id
Accepted(file, layer) ==
  /\ file.layer = layer /\ ~Repeated(file)
  /\ \A r \in Range(file.structure) :
       r.sensor \in ShapeSensors \cup HintSensors /\ ~(r.sensor \in Tier2 /\ r.mode = "enforced")
  /\ \A r \in Range(file.structure \o file.invariants) : r.scope # {}

Referring == {l \in DOMAIN refs : refs[l] # None}
Loads == \A l \in Referring : l \in Layers /\ disk[refs[l]] # None /\ Accepted(disk[refs[l]], l)
Effective(kind) == UNION {{[layer |-> l, rule |-> r] : r \in Range(disk[refs[l]][kind])} : l \in Referring}

-----------------------------------------------------------------------------
\* A scope is a set of globs, None for the whole layer.  "**" is any folders, "*" any one segment.

\* Mutant: "**" stands for one folder at least.
MatchesFolders(p, f) ==
  LET m[i \in 0..Len(p), j \in 0..Len(f)] ==
        IF i = 0 THEN j = 0
        ELSE IF p[i] = "**" THEN j > 0 /\ (m[i - 1, j - 1] \/ m[i, j - 1])
        ELSE j > 0 /\ p[i] \in {"*", f[j]} /\ m[i - 1, j - 1]
  IN m[Len(p), Len(f)]
Matches(p, f) ==
  LET m[i \in 0..Len(p), j \in 0..Len(f)] ==
        IF i = 0 THEN j = 0
        ELSE IF p[i] = "**" THEN m[i - 1, j] \/ (j > 0 /\ m[i, j - 1])
        ELSE j > 0 /\ p[i] \in {"*", f[j]} /\ m[i - 1, j - 1]
  IN m[Len(p), Len(f)]
InScope(scope, f) == scope = None \/ \E p \in scope : Matches(p, f)
EmptyScope(scope) == scope # None /\ \A f \in Range(Governed) : ~InScope(scope, f)

\* A file of no layer is judged by the rules of every layer.
Subject(e, f) == InScope(e.rule.scope, f) /\ LayerOf[f] \in {e.layer, None}

-----------------------------------------------------------------------------
\* A source has one class, by its members, and the signals of its text.

Has(c, members) == c.members \cap members # {}
Visible(c) == c.form = "export class"
MutableFields(c) == Has(c, {"field", "public readonly", "public method"})
Methods == {"mutator", "guarded mutator", "branching mutator", "set mutator", "public method", "public constructor", "private constructor"}
DataOnly(c) == MutableFields(c) /\ "branching mutator" \notin c.members /\ Cardinality(c.members \cap Methods) <= 1
ShapeBreaks(sensor, c) ==
  /\ Visible(c)
  /\ CASE sensor = "aggregate-private-state" -> MutableFields(c) \/ Has(c, {"setter"})
       [] sensor = "always-valid-factory" ->
            Has(c, {"public constructor"}) /\ ~Has(c, {"private constructor", "static factory"})
       [] sensor = "domain-event-on-mutation" -> Has(c, {"mutator", "branching mutator"})
       [] sensor = "no-anemic-model" -> DataOnly(c)

DomainSignal(s) == s.predicates >= 1 \/ s.branches >= 2
OrchestrationHeavy(s) ==
  s.predicates >= 2 \/ (s.predicates >= 1 /\ s.branches >= 2) \/ (s.branches >= 3 /\ s.conditions >= 6)
AdapterThick(s) ==
  \/ (s.io \/ s.handler) /\ DomainSignal(s)
  \/ s.io /\ s.mapping /\ (s.conditions >= 4 \/ s.predicates >= 1)
  \/ s.handler /\ s.io
Hint(sensor, s) == IF sensor = "orchestration-only" THEN OrchestrationHeavy(s) ELSE AdapterThick(s)

-----------------------------------------------------------------------------
\* What a scan reads: the governed files first, then the tests there are.

First(files) == Range(SubSeq(files, 1, IF Len(files) < Cap THEN Len(files) ELSE Cap))
Existing == SelectSeq(TestFile, LAMBDA t : tests[t] # None)
Read == First(Governed \o Existing)
Text(f) == IF f \in Range(Governed) THEN code[f].words ELSE tests[f]
Mentions(f, what) == \E w \in Text(f) : what \in Occurs[w]

Hinted == First(Governed)
Breaks(e, f) ==
  /\ Subject(e, f)
  /\ IF e.rule.sensor \in HintSensors THEN f \in Hinted /\ Hint(e.rule.sensor, code[f].signals)
     ELSE ShapeBreaks(e.rule.sensor, code[f])

TestsRead == Read \cap Range(TestFile)
WantsTest(inv) == inv.test # "no"
Evidence(inv) ==
  \/ WantsTest(inv) /\ \E t \in TestsRead : Mentions(t, inv.id)
  \/ inv.symbol # None /\ \E f \in Read : Mentions(f, inv.symbol)
Covered(inv) == Evidence(inv) \/ (inv.test = "no" /\ inv.symbol = None)
Partial(inv) == TestsRead = {} /\ WantsTest(inv) /\ ~Evidence(inv)

Enforced(e) == e.rule.mode = "enforced"
StructureFails ==
  \E e \in Effective("structure") :
    /\ Enforced(e) /\ e.rule.sensor \notin Tier2
    /\ EmptyScope(e.rule.scope) \/ \E f \in Range(Governed) : Breaks(e, f)
InvariantFails ==
  \E e \in Effective("invariants") :
    Enforced(e) /\ (EmptyScope(e.rule.scope) \/ (~Covered(e.rule) /\ ~Partial(e.rule)))
Incomplete == \E e \in Effective("invariants") : Enforced(e) /\ Partial(e.rule)

Valid == Loads /\ ~StructureFails /\ ~InvariantFails /\ ~Incomplete

-----------------------------------------------------------------------------
Init ==
  /\ refs \in Refs /\ disk \in [RuleFile -> Rules] /\ code \in [Range(Governed) -> Codes]
  /\ tests = [t \in Range(TestFile) |-> None] /\ edits = 0

EditCode == \E f \in DOMAIN code, c \in Codes : code' = [code EXCEPT ![f] = c] /\ UNCHANGED <<refs, disk, tests>>
EditTests == \E t \in DOMAIN tests, w \in Words : tests' = [tests EXCEPT ![t] = w] /\ UNCHANGED <<refs, disk, code>>
EditRules == \E p \in RuleFile, r \in Rules : disk' = [disk EXCEPT ![p] = r] /\ UNCHANGED <<refs, code, tests>>
EditConfig == refs' \in Refs /\ UNCHANGED <<disk, code, tests>>
Next == edits < MaxEdits /\ edits' = edits + 1 /\ (EditCode \/ EditTests \/ EditRules \/ EditConfig)
Spec == Init /\ [][Next]_vars

-----------------------------------------------------------------------------
\* What the rules ask for.  A glob with folders left open spells a beginning and an end.
Spelled(p, f) ==
  IF "**" \notin Range(p) THEN Len(p) = Len(f) /\ \A i \in DOMAIN p : p[i] \in {"*", f[i]}
  ELSE LET k == CHOOSE i \in DOMAIN p : p[i] = "**" IN
       /\ Len(f) >= Len(p) - 1
       /\ \A i \in 1..(k - 1) : p[i] \in {"*", f[i]}
       /\ \A i \in (k + 1)..Len(p) : p[i] \in {"*", f[Len(f) - Len(p) + i]}
Concerns(scope, f) == scope = None \/ \E p \in scope : Spelled(p, f)

Broken(sensor, c) ==
  CASE sensor = "aggregate-private-state" -> Has(c, {"field", "setter"})
    [] sensor = "always-valid-factory" -> Has(c, {"public constructor"}) /\ ~Has(c, {"static factory", "public static factory"})
    [] sensor = "domain-event-on-mutation" -> Has(c, {"mutator", "set mutator"})
    [] OTHER -> Hint(sensor, c.signals)
Judges(e) == {f \in Range(Governed) : Concerns(e.rule.scope, f) /\ LayerOf[f] \in {e.layer, None}}
Tested(inv) ==
  \/ inv.test # "no" /\ \E t \in DOMAIN tests : tests[t] # None /\ inv.id \in tests[t]
  \/ inv.symbol # None /\ \E f \in Range(Governed \o Existing) : inv.symbol \in Text(f)
  \/ inv.test = "no" /\ inv.symbol = None

\* Where the scan does not see what is there: more files than it reads, classes
\* and members its text patterns take for something else, ids inside other ids.
WithinBudget == Len(Governed \o Existing) <= Cap
Plain(c) ==
  /\ c.form = "export class"
  /\ ~Has(c, {"public readonly", "public method", "branching mutator", "set mutator", "public static factory"})
Apart == \A f \in Range(Governed \o Existing) : \A w \in Text(f) : Occurs[w] \subseteq {w}

\* A tree is valid under its rules exactly when every referenced file is sound,
\* every enforced rule governs some file and no file of its layer breaks it, and
\* every enforced invariant is written in a test or has its symbol: no rule is
\* silently green, nothing missing is taken for evidence
\* (resolvedAnalysis.ts:397-527, arkRuleSensors.ts:351).
RulesVerdictIsExact ==
  (WithinBudget /\ Apart /\ \A f \in DOMAIN code : Plain(code[f])) =>
    (Valid <=>
       /\ Loads
       /\ \A e \in Effective("structure") :
            Enforced(e) => /\ \E f \in Range(Governed) : Concerns(e.rule.scope, f)
                           /\ \A f \in Judges(e) : ~Broken(e.rule.sensor, code[f])
       /\ \A e \in Effective("invariants") :
            Enforced(e) => Tested(e.rule) /\ \E f \in Range(Governed) : Concerns(e.rule.scope, f))
===============================================================================
