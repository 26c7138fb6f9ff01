---------------------------- MODULE DesignRatchet ----------------------------
(***************************************************************************)
(* The opt-in ratchet on design smells (bin/lib/design-delta.source.mjs):  *)
(* business rules found in user-interface files are compared between a     *)
(* base and a candidate, in the write hook between the tree and the write, *)
(* in the merge check between a commit and the tree.  A function is its    *)
(* name, how often it compares and calculates, and whether it renders or   *)
(* navigates; what the name suggests is a constant.                        *)
(***************************************************************************)
EXTENDS Naturals, Sequences, FiniteSets, FiniteSetsExt, SequencesExt

CONSTANTS
  PathsInOrder,     \* the paths, as identities sort
  NamesInOrder,     \* the names of functions, as identities sort
  Reads,            \* name -> subset of {"boolean", "calculation"}, {} where it speaks of presentation
  NamedForUI,       \* paths whose folders are those of a user interface
  Configs,          \* layer of a path: "ui", "domain", or None
  Contents,         \* what a file may hold: a sequence of functions
  FirstTree,        \* trees to start from, path -> content or None
  MaxEdits, None

VARIABLES
  base,             \* the commit the merge check compares with, or None
  work, config,     \* the working tree and its contract
  hooked,           \* whether writes pass the hook
  asked,            \* the last write the hook was asked about, None after other steps
  edits

vars == <<base, work, config, hooked, asked, edits>>

Path == ToSet(PathsInOrder)
KindsInOrder == <<"boolean", "calculation">>

-----------------------------------------------------------------------------
(* The findings of a tree.                                                 *)

\* The rule a function is taken for, None where it is none.
RuleOf(f) ==
  IF f.presents THEN None
  ELSE IF "calculation" \in Reads[f.name] /\ f.terms > 0 THEN "calculation"
  ELSE IF "boolean" \in Reads[f.name] /\ f.tests > 0 THEN "boolean"
  ELSE None

Magnitude(f) == IF RuleOf(f) = "calculation" THEN f.terms ELSE f.tests

IsUiFile(p, c) == p \in NamedForUI \/ c[p] = "ui"

\* Governed files only: a file of no layer is not looked at.
Scanned(tree, c) == {p \in Path : tree[p] # None /\ c[p] # None /\ IsUiFile(p, c)}

FindingsAt(tree, p, name, kind) ==
  LET rules == SelectSeq(tree[p], LAMBDA f : f.name = name /\ RuleOf(f) = kind)
  IN [i \in DOMAIN rules |-> [path |-> p, name |-> name, kind |-> kind, magnitude |-> Magnitude(rules[i])]]

Findings(tree, c) ==
  LET paths == SelectSeq(PathsInOrder, LAMBDA p : p \in Scanned(tree, c))
  IN FlattenSeq([i \in DOMAIN paths |-> FlattenSeq([j \in DOMAIN NamesInOrder |->
       FlattenSeq([k \in DOMAIN KindsInOrder |-> FindingsAt(tree, paths[i], NamesInOrder[j], KindsInOrder[k])])])])

-----------------------------------------------------------------------------
(* The comparison.                                                         *)

SameRule(f, g) == f.name = g.name /\ f.kind = g.kind
SameIdentity(f, g) == f.path = g.path /\ SameRule(f, g)
\* The same with a rule of another kind under the old name.
SameName(f, g) == f.name = g.name

\* The findings of the base that are not spoken for and may have moved here.
MovedFromAnyKind(old, left, f) == {i \in left : SameName(old[i], f)}
MovedFrom(old, left, f) == {i \in left : SameRule(old[i], f)}

\* The finding of the base a candidate's finding stands for, 0 where it is new.
BaseOf(old, left, f) ==
  LET same == {i \in DOMAIN old : SameIdentity(old[i], f)}
      moved == MovedFrom(old, left, f)
  IN IF same # {} THEN Max(same) ELSE IF Cardinality(moved) = 1 THEN Max(moved) ELSE 0

CompareFindings(old, new, touched) ==
  FoldLeft(LAMBDA acc, f :
      LET b == BaseOf(old, acc.left, f)
          before == IF b = 0 THEN 0 ELSE old[b].magnitude
          blocked == f.path \in touched /\ (b = 0 \/ f.magnitude > before)
      IN [left |-> acc.left \ {b},
          changes |-> IF blocked THEN Append(acc.changes, [finding |-> f, class |-> IF b = 0 THEN "new" ELSE "worsened"])
                      ELSE acc.changes],
    [left |-> DOMAIN old, changes |-> <<>>], new)

\* The tree a write would leave, as the hook sees it.
ApplyChanges(tree, c, changes) ==
  [p \in Path |-> IF p \in DOMAIN changes /\ c[p] # None THEN changes[p] ELSE tree[p]]

WriteDelta(changes) ==
  LET old == Findings(work, config)
      new == Findings(ApplyChanges(work, config, changes), config)
  IN [old |-> old, new |-> new, touched |-> DOMAIN changes,
      changes |-> CompareFindings(old, new, DOMAIN changes).changes]

\* Between a commit and the working tree: changed and untracked files.
GitComplete == base # None /\ base.config # None
Touched == {p \in Path : work[p] # base.tree[p]}
GitDelta == CompareFindings(Findings(base.tree, base.config), Findings(work, config), Touched).changes

\* The exit code of the check whose other verdict is edgeValid.
ExitCode(edgeValid) ==
  IF ~GitComplete THEN 2 ELSE IF edgeValid /\ GitDelta = <<>> THEN 0 ELSE 1

-----------------------------------------------------------------------------
Init ==
  /\ work \in FirstTree /\ config \in Configs
  /\ base \in {None, [tree |-> work, config |-> config], [tree |-> work, config |-> None]}
  /\ hooked \in BOOLEAN /\ asked = None /\ edits = 0

Edit == edits < MaxEdits /\ edits' = edits + 1

\* The host asks about a write of one file or a patch of two, and makes it
\* unless it is refused.
Write(changes) ==
  /\ Edit
  /\ asked' = IF hooked THEN WriteDelta(changes) ELSE None
  /\ work' = IF hooked /\ asked'.changes # <<>> THEN work
             ELSE [p \in Path |-> IF p \in DOMAIN changes THEN changes[p] ELSE work[p]]
  /\ UNCHANGED <<base, config, hooked>>

EditConfig(c) ==
  /\ Edit /\ config' = c /\ asked' = None
  /\ UNCHANGED <<base, work, hooked>>

Commit ==
  /\ Edit /\ base' = [tree |-> work, config |-> config] /\ asked' = None
  /\ UNCHANGED <<work, config, hooked>>

\* One file gets other content or goes, or a file moves.
Changes ==
  {[x \in {p} |-> c] : p \in Path, c \in Contents \cup {None}}
  \cup {[x \in {p, q} |-> IF x = p THEN None ELSE work[p]] : p \in {r \in Path : work[r] # None}, q \in Path}

Next ==
  \/ \E changes \in Changes : Write(changes)
  \/ \E c \in Configs : EditConfig(c)
  \/ Commit

Spec == Init /\ [][Next]_vars

-----------------------------------------------------------------------------
(* What must hold.                                                         *)

Of(findings) == {findings[i] : i \in DOMAIN findings}

\* The strongest form a rule takes among findings, 0 where it does not occur.
Peak(findings, f) == Max({0} \cup {g.magnitude : g \in {h \in Of(findings) : SameRule(h, f)}})

NoNamesakes(findings) == \A i, j \in DOMAIN findings : SameRule(findings[i], findings[j]) => i = j
NoTwins(findings) == \A i, j \in DOMAIN findings : SameIdentity(findings[i], findings[j]) => i = j

\* What a comparison owes whoever reads it: no rule of a touched file goes
\* through in a stronger form than the base had anywhere; where no two findings
\* share name and kind, exactly the rules that are new or stronger are held
\* back, wherever they were before; and a rule that stands where and as it
\* stood holds nothing back, unless its file holds it twice.
ComparisonIsExact(old, new, touched, changes) ==
  LET held == {changes[i].finding : i \in DOMAIN changes}
      judged == {f \in Of(new) : f.path \in touched}
  IN /\ \A f \in judged : f.magnitude > Peak(old, f) => f \in held
     /\ NoNamesakes(old) /\ NoNamesakes(new) => held = {f \in judged : f.magnitude > Peak(old, f)}
     /\ NoTwins(old) => held \cap Of(old) = {}

\* Every write the hook is asked about, and every candidate against its commit,
\* is judged so; without a base nothing passes.  (A rule copied to a path that
\* sorts before its own passes as moved: it is no stronger.)
DesignOnlyImproves ==
  /\ asked # None => ComparisonIsExact(asked.old, asked.new, asked.touched, asked.changes)
  /\ ~GitComplete => \A edgeValid \in BOOLEAN : ExitCode(edgeValid) = 2
  /\ GitComplete =>
       /\ ComparisonIsExact(Findings(base.tree, base.config), Findings(work, config), Touched, GitDelta)
       /\ ExitCode(FALSE) # 0 /\ (ExitCode(TRUE) = 0 <=> GitDelta = <<>>)
=============================================================================
