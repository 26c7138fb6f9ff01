------------------------------ MODULE Remediation ------------------------------
(***************************************************************************)
(* What Ark proposes for an import across a denied edge: the class of the  *)
(* violation in `ark check --plan`, the patch that the write path offers   *)
(* for a file under way, and the proof that an imported binding may be     *)
(* injected as a port (bin/lib/ast-scan.mjs, auto-patch.mjs,               *)
(* port-proof.mjs, src/domain/remediation.ts).                             *)
(*                                                                         *)
(* An agent writes `source`, which imports from one module, `target`, and  *)
(* from one that exports types only.  Modules are sets of statements, and  *)
(* a statement is what the scan tells apart.                               *)
(***************************************************************************)
EXTENDS Naturals, FiniteSets, Sequences

CONSTANTS
  TargetModules,     \* the modules imported from: sets of statements
  Importing,   \* the imports and re-exports a source may have
  Functions,   \* the function declarations a source may have
  MaxImports,
  MaxFunctions,
  None

VARIABLES
  target,   \* the statements of the module imported from
  edge,     \* edge[m]: what the contract says of source -> m
  source,   \* the file under way: its imports, its functions, other uses
  answer,   \* what ark_prepare_write answered last
  injected  \* the source after applyPortProofInject, or None

vars == <<target, edge, source, answer, injected>>

PureTypes == {[do |-> "type", name |-> "A"]}
Module(m) == IF m = "types" THEN PureTypes ELSE target

-----------------------------------------------------------------------------
\* What the scan says of a module (ast-scan.mjs).

IsTypeExport(s) == s.do = "type" \/ (s.do = "list" /\ s.typed)
\* Only type exports, and at least one.
ExportsOnlyTypes(t) == t # {} /\ \A s \in t : IsTypeExport(s)
\* A list exports under one name what is declared under another: the scan takes the local one.
ValueExportNames(t) ==
  {s.name : s \in {x \in t : x.do = "value"}} \cup {s.local : s \in {x \in t : x.do = "list" /\ ~x.typed}}
TypedNames(t) ==
  {s.name : s \in {x \in t : x.do = "type"}} \cup {s.local : s \in {x \in t : x.do = "list" /\ x.typed}}
\* Mutant: only declared values are taken out, not listed ones.
TypeOnlyButDeclared(t) == TypedNames(t) \ {s.name : s \in {x \in t : x.do = "value"}}
TypeOnlyExportNames(t) == TypedNames(t) \ ValueExportNames(t)
\* Statements that run, and initialisers that call.
TopLevelEffects(t) == \E s \in t : s.do = "effect" \/ (s.do \in {"value", "local"} /\ s.impure)

\* The import declares or repeats only types.
IsTypeOnly(s) ==
  \/ s.form \in {"import type", "export type"}
  \/ s.form \in {"import", "export"} /\ s.names # {} /\ s.typed = s.names
\* The names of a list, or none when the statement is no plain list.
NamedBindings(s) == IF s.form \in {"import", "export", "import type", "export type"} THEN s.names ELSE {}
IsStatic(s) == s.form \notin {"require", "dynamic"}

-----------------------------------------------------------------------------
\* The port proof (port-proof.mjs).

Candidate(s) == s.form \in {"import", "import default", "import all"}
PartlyTyped(s) == s.form = "import" /\ s.typed # {}
\* One value import, of one name, whose only uses are calls of its methods in functions.
Eligible(f) ==
  LET valued == {i \in DOMAIN f.imports : Candidate(f.imports[i]) /\ ~PartlyTyped(f.imports[i])}
      used(place) == {i \in DOMAIN f.functions : place \in f.functions[i].places}
  IN /\ Cardinality(valued) = 1
     /\ \A i \in valued : f.imports[i].form = "import" /\ Cardinality(f.imports[i].names) = 1
     /\ ~f.elsewhere /\ used("value") = {} /\ used("arrow") = {}
     /\ \E i \in used("call") : f.functions[i].named
Injection(f) ==
  LET needs == {i \in DOMAIN f.functions : f.functions[i].named /\ "call" \in f.functions[i].places}
      edits == {i \in needs : f.functions[i].params # "own"}
      dropped == {i \in DOMAIN f.imports : Candidate(f.imports[i]) /\ ~PartlyTyped(f.imports[i])}
  IN IF ~Eligible(f) \/ edits = {} \/ (\E i \in edits : f.functions[i].params = "rest")
     THEN None
     ELSE [imports |-> SelectSeq(f.imports, LAMBDA s : \A i \in dropped : f.imports[i] # s),
           functions |-> [i \in DOMAIN f.functions |->
                            IF i \in edits THEN [f.functions[i] EXCEPT !.params = "own"] ELSE f.functions[i]],
           elsewhere |-> f.elsewhere]

-----------------------------------------------------------------------------
\* The facts of a dependency, and the class of its violation.

TargetTypeOnly(s) == IsStatic(s) /\ ExportsOnlyTypes(Module(s.to)) /\ ~IsTypeOnly(s)
BindingsTypeOnly(s) ==
  /\ IsStatic(s) /\ NamedBindings(s) # {} /\ ~TopLevelEffects(Module(s.to))
  /\ NamedBindings(s) \subseteq TypeOnlyExportNames(Module(s.to))

\* The source itself exports types and holds nothing else.
SourceIsTypes(f) ==
  /\ f.functions = <<>> /\ ~f.elsewhere /\ \A i \in DOMAIN f.imports : IsTypeOnly(f.imports[i])
  /\ \E i \in DOMAIN f.imports : f.imports[i].form \in {"export", "export type"}

Remedy(f, s) ==
  CASE edge[s.to] = "peer" -> [class |-> "judgment", kind |-> "none"]
    [] ~IsStatic(s) -> [class |-> "judgment", kind |-> "none"]
    [] IsTypeOnly(s) /\ SourceIsTypes(f) -> [class |-> "mechanical-safe", kind |-> "relocate"]
    [] IsTypeOnly(s) -> [class |-> "mechanical-safe", kind |-> "move"]
    [] TargetTypeOnly(s) -> [class |-> "mechanical-safe", kind |-> "pure"]
    [] BindingsTypeOnly(s) -> [class |-> "mechanical-safe", kind |-> "named"]
    [] s.form \notin {"export", "export all"} /\ Eligible(f) -> [class |-> "judgment", kind |-> "port"]
    [] OTHER -> [class |-> "judgment", kind |-> "none"]

\* The label of the same violation in reports and briefs, decided apart.
FixClass(s) ==
  CASE IsTypeOnly(s) \/ TargetTypeOnly(s) \/ BindingsTypeOnly(s) -> "file-move"
    [] edge[s.to] = "peer" -> "cross-slice-boundary"
    [] OTHER -> "port-inversion"

-----------------------------------------------------------------------------
\* The write path (auto-patch.mjs, prepare-write.mjs).

\* Imports that the single-file gate blocks: types pass, but not between slices.
Blocked(f) ==
  {i \in DOMAIN f.imports :
     LET s == f.imports[i] IN edge[s.to] = "peer" \/ (edge[s.to] = "denied" /\ ~IsTypeOnly(s))}

Conversion(s) ==
  LET t == Module(s.to)
  IN CASE ExportsOnlyTypes(t) -> "pure"
       [] TopLevelEffects(t) -> "none"
       [] NamedBindings(s) # {} /\ NamedBindings(s) \subseteq TypeOnlyExportNames(t) -> "named"
       [] OTHER -> "none"

Converts(s) == ~IsTypeOnly(s) /\ s.form \in {"import", "export", "export all"} /\ Conversion(s) # "none"
Converted(s) ==
  IF ~Converts(s) THEN s ELSE [s EXCEPT !.form = IF s.form = "import" THEN "import type" ELSE "export type"]
Patched(f) == [f EXCEPT !.imports = [i \in DOMAIN f.imports |-> Converted(f.imports[i])]]

\* A patch is offered if the patched file passes.
Offer(f) ==
  IF Blocked(f) # {} /\ (\E i \in DOMAIN f.imports : Converts(f.imports[i])) /\ Blocked(Patched(f)) = {}
  THEN Patched(f) ELSE None

\* Without a patch, the brief labels the first violation by what the single file shows.
Brief(f) ==
  LET first == f.imports[CHOOSE i \in Blocked(f) : \A j \in Blocked(f) : i <= j]
  IN CASE Blocked(f) = {} \/ Offer(f) # None -> "none"
       [] IsTypeOnly(first) -> "file-move"
       [] edge[first.to] = "peer" -> "cross-slice-boundary"
       [] OTHER -> "port-inversion"

-----------------------------------------------------------------------------
Init ==
  /\ target \in TargetModules
  /\ edge \in [{"target", "types"} -> {"allowed", "denied", "peer"}]
  /\ source = [imports |-> <<>>, functions |-> <<>>, elsewhere |-> FALSE]
  /\ answer = None /\ injected = None

\* The author goes on writing; an answer was about the text before.
WriteImport(s) ==
  /\ Len(source.imports) < MaxImports
  /\ source' = [source EXCEPT !.imports = Append(@, s)]
  /\ answer' = None /\ injected' = None
  /\ UNCHANGED <<target, edge>>
WriteFunction(g) ==
  /\ Len(source.functions) < MaxFunctions
  /\ source' = [source EXCEPT !.functions = Append(@, g)]
  /\ answer' = None /\ injected' = None
  /\ UNCHANGED <<target, edge>>
WriteElsewhere ==
  /\ source' = [source EXCEPT !.elsewhere = TRUE]
  /\ answer' = None /\ injected' = None
  /\ UNCHANGED <<target, edge>>

\* ark_prepare_write: the violations with their labels, or a patch.
PrepareWrite ==
  /\ answer = None
  /\ answer' = [text |-> source, patch |-> Offer(source), brief |-> Brief(source)]
  /\ UNCHANGED <<target, edge, source, injected>>

\* The host applies the patch.
ApplyPatch ==
  /\ answer # None /\ answer.patch # None
  /\ source' = answer.patch /\ answer' = None /\ injected' = None
  /\ UNCHANGED <<target, edge>>

InjectPort ==
  /\ injected = None /\ injected' = Injection(source) /\ injected' # None
  /\ UNCHANGED <<target, edge, source, answer>>

Next ==
  \/ \E s \in Importing : WriteImport(s)
  \/ \E g \in Functions : WriteFunction(g)
  \/ WriteElsewhere \/ PrepareWrite \/ ApplyPatch \/ InjectPort

-----------------------------------------------------------------------------
\* Reference: what a module has when it runs.

RuntimeNames(t) == {s.name : s \in {x \in t : x.do = "value"}} \cup {s.as : s \in {x \in t : x.do = "list" /\ ~x.typed}}
\* Lists that export under another name are left out: see the README.
Plain(t) == \A s \in t : s.do = "list" => s.local = s.as

(***************************************************************************)
(* The patch of the write path changes nothing that runs: a statement it   *)
(* turns into a type import named no run-time binding of its module, whose *)
(* evaluation did nothing.                                                 *)
(***************************************************************************)
PatchKeepsRuntime ==
  (answer # None /\ answer.patch # None /\ Plain(target)) =>
     \A i \in DOMAIN answer.text.imports :
        LET s == answer.text.imports[i]
        IN answer.patch.imports[i] # s =>
             /\ s.names \cap RuntimeNames(Module(s.to)) = {}
             /\ s.form = "export all" => RuntimeNames(Module(s.to)) = {}
             /\ ~TopLevelEffects(Module(s.to))

(***************************************************************************)
(* The two analyses agree on what is mechanical: where the write path      *)
(* offers a patch, `ark check --plan` classifies every blocked statement   *)
(* as mechanical-safe, of the kind the patch applies; and the label that   *)
(* reports give a violation sends nobody to move a file that the           *)
(* classifier keeps for judgment, except between slices.  Where nothing is *)
(* offered for a single plain statement, the brief of the write path and   *)
(* the plan agree that it is for judgment.                                 *)
(***************************************************************************)
OneVerdict ==
  answer # None =>
     \A i \in Blocked(answer.text) :
        LET s == answer.text.imports[i]
            verdict == Remedy(answer.text, s)
        IN /\ answer.patch # None => verdict = [class |-> "mechanical-safe", kind |-> Conversion(s)]
           /\ edge[s.to] # "peer" => (verdict.class = "mechanical-safe" <=> FixClass(s) = "file-move")
           /\ (answer.patch = None /\ Blocked(answer.text) = {i} /\ s.form \notin {"import default", "import all", "bare"})
                => verdict.class = "judgment" /\ answer.brief # "none"

(***************************************************************************)
(* After the injection every use of the binding is one of a parameter, as  *)
(* the import is gone, and no parameter follows a rest parameter.  Default *)
(* values of parameters and functions without a name are left out: see the *)
(* README.                                                                 *)
(***************************************************************************)
InjectionBindsUses ==
  injected # None =>
     /\ ~injected.elsewhere
     /\ \A i \in DOMAIN injected.functions :
          LET g == injected.functions[i]
          IN /\ g.named /\ "default" \notin g.places /\ g.places # {} => g.params = "own"
             /\ source.functions[i].params = "rest" => g = source.functions[i]

(* What the plan, the write path and the port proof propose is safe and is *)
(* one and the same.                                                       *)
RemedySound == PatchKeepsRuntime /\ OneVerdict /\ InjectionBindsUses
===============================================================================
