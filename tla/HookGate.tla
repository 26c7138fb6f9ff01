------------------------------ MODULE HookGate ------------------------------
(***************************************************************************)
(* The PreToolUse hook: one process per tool call judges the write an      *)
(* agent's host is about to make and lets it pass or blocks it; the host   *)
(* then applies what was let through (bin/ark-mcp-runtime.mjs, runHook to  *)
(* runHookPayload).                                                        *)
(*                                                                         *)
(* The text of a file is a sequence of chunks.  A chunk of Key is one      *)
(* violation with that key, Junk one that leaves the analysis incomplete   *)
(* (an ANALYSIS_ diagnostic), Smell one supported design smell.  The hook  *)
(* reads the file up to three times; other hosts write in between.         *)
(***************************************************************************)
EXTENDS Naturals, FiniteSets, SequencesExt

CONSTANTS
  Agent,             \* tool calls running at the same time
  SourceFile,        \* governed source files
  InputFile,         \* tsconfig, package.json: what the analysis is resolved with
  OtherFile,         \* files the gate has no opinion on
  Key, Junk, Smell, Plain,
  FailOnNewSmells,   \* --fail-on-new-smells
  MaxLength,         \* bound: chunks of one text
  MaxCalls,          \* bound: tool calls of one agent
  Styles,            \* hosts: "claude", "grok", "antigravity"
  WriteTexts, Edits, Directives, InitialTexts   \* the inputs tried

Path == SourceFile \cup InputFile \cup OtherFile
Chunk == Key \cup {Junk, Smell, Plain}
Missing == <<"missing">>

VARIABLES
  disk,   \* disk[p]: the text of p, or Missing
  stamp,  \* stamp[p]: how often p was written
  call    \* call[a]: the tool call of a, and how far its hook and host are
vars == <<disk, stamp, call>>

NoDecision == [status |-> 0, stdout |-> "none"]
NoCall == [pc |-> "idle", payload |-> [tool |-> "none"], style |-> "claude", candidate |-> Missing,
           smelly |-> FALSE, overlay |-> <<>>, base |-> <<>>, reply |-> NoDecision, made |-> 0]

Init ==
  /\ disk \in [Path -> InitialTexts]
  /\ stamp = [p \in Path |-> 0]
  /\ call = [a \in Agent |-> NoCall]

Count(text, chunk) == Cardinality({i \in DOMAIN text : text[i] = chunk})
Violations(text) == SelectSeq(text, LAMBDA c : c \in Key \cup {Junk})

(***************************************************************************)
(* proposedSource: the text after the edits, applied to the file as it is. *)
(***************************************************************************)
FirstOf(text, chunk) == SelectInSeq(text, LAMBDA c : c = chunk)
ReplaceFirst(text, from, to) ==
  LET i == FirstOf(text, from) IN
  IF i = 0 THEN text ELSE SubSeq(text, 1, i - 1) \o to \o SubSeq(text, i + 1, Len(text))
Splice(text, from, to) == FlattenSeq([i \in DOMAIN text |-> IF text[i] = from THEN to ELSE <<text[i]>>])

ApplyEdit(text, edit) ==
  CASE edit.from = "empty" -> edit.to
    [] edit.from # "empty" /\ edit.all -> Splice(text, edit.from, edit.to)
    [] OTHER -> ReplaceFirst(text, edit.from, edit.to)

ProposedSource(payload, current) ==
  IF payload.tool = "Write" THEN payload.text
  ELSE FoldLeft(ApplyEdit, IF current = Missing THEN <<>> ELSE current, payload.edits)

(***************************************************************************)
(* The ratchet: violations whose key is not used up by those the file has. *)
(***************************************************************************)
\* Mutant: a key the file already has excuses every violation of that key.
NewViolationsByKey(candidate, current) ==
  SelectSeq(Violations(candidate), LAMBDA v : v = Junk \/ Count(current, v) = 0)

NewViolations(candidate, current) ==
  LET Take(acc, v) ==
        IF v # Junk /\ acc.left[v] > 0
          THEN [acc EXCEPT !.left[v] = @ - 1]
          ELSE [acc EXCEPT !.new = Append(@, v)]
  IN FoldLeft(Take, [left |-> [k \in Key |-> Count(current, k)], new |-> <<>>],
              Violations(candidate)).new

(***************************************************************************)
(* codexPatchWrites: a patch is complete when every directive of it can be *)
(* reconstructed from the disk; Gone marks a deletion.                     *)
(***************************************************************************)
Gone == <<"gone">>
Reconstruct(d, tree) ==   \* the text after directive d, or Missing when it cannot be told
  CASE d.action = "Delete" -> IF tree[d.path] # Missing THEN Gone ELSE Missing
    [] d.action = "Add"    -> IF tree[d.path] = Missing THEN d.to ELSE Missing
    [] OTHER               -> IF tree[d.path] # Missing /\ FirstOf(tree[d.path], d.from) # 0
                                THEN ReplaceFirst(tree[d.path], d.from, d.to) ELSE Missing

\* Mutant: two directives for one file are both reconstructed from the disk.
CompletePatchDuplicates(patch, tree) ==
  Len(patch) > 0 /\ \A i \in DOMAIN patch : Reconstruct(patch[i], tree) # Missing

CompletePatch(patch, tree) ==
  /\ Len(patch) > 0
  /\ \A i \in DOMAIN patch : Reconstruct(patch[i], tree) # Missing
  /\ \A i, j \in DOMAIN patch : patch[i].path = patch[j].path => i = j

Overlay(tree, patch, texts) ==
  FoldLeftDomain(LAMBDA t, i :
    [t EXCEPT ![patch[i].path] = IF texts[i] = Gone THEN Missing ELSE texts[i]], tree, patch)

\* prepareChangeFromRoot: the base must be analysable and the candidate clean.
Clean(tree) == \A p \in SourceFile : tree[p] # Missing => Violations(tree[p]) = <<>>
Analysable(tree) == \A p \in SourceFile : Count(tree[p], Junk) = 0
SmellsGrow(before, after) ==
  FailOnNewSmells /\ \E p \in SourceFile : Count(after[p], Smell) > Count(before[p], Smell)

(***************************************************************************)
(* What the host receives.                                                 *)
(***************************************************************************)
DecidesOnStdout(style) == style # "claude"     \* grokStyle holds for both others
Allow(style) == [status |-> 0, stdout |-> IF style = "antigravity" THEN "allow" ELSE "none"]
Deny(style) == [status |-> 2, stdout |-> IF DecidesOnStdout(style) THEN "deny" ELSE "none"]
DenyPatch == [status |-> 2, stdout |-> "none"]

Reply(a, reply) == call' = [call EXCEPT ![a].pc = "answered", ![a].reply = reply]
Hook(a, pc) == call[a].pc = pc /\ UNCHANGED <<disk, stamp>>

Payloads ==
       [tool : {"Write"}, path : Path, text : WriteTexts]
  \cup [tool : {"Edit"}, path : Path, edits : {<<e>> : e \in Edits}]
  \cup [tool : {"MultiEdit"}, path : Path,
        edits : {<<e, g>> : e \in Edits, g \in {h \in Edits : h.all}}]
  \cup [tool : {"ApplyPatch"}, patch : Directives]
  \cup {[tool |-> "Bash"]}

Propose(a, payload, style) ==
  /\ Hook(a, "idle")
  /\ call[a].made < MaxCalls
  /\ call' = [call EXCEPT ![a] = [NoCall EXCEPT !.pc = "asked", !.payload = payload,
                !.style = style, !.base = stamp, !.made = call[a].made + 1]]

\* Tools and paths the gate does not govern pass.
PassUngoverned(a) ==
  /\ Hook(a, "asked")
  /\ LET p == call[a].payload IN
       \/ p.tool = "Bash"
       \/ p.tool \in {"Write", "Edit", "MultiEdit"} /\ p.path \notin SourceFile
  /\ Reply(a, Allow(call[a].style))

ReadProposed(a) ==
  /\ Hook(a, "asked")
  /\ LET p == call[a].payload IN
       /\ p.tool \in {"Write", "Edit", "MultiEdit"} /\ p.path \in SourceFile
       /\ call' = [call EXCEPT ![a].pc = "proposed", ![a].base = stamp,
                               ![a].candidate = ProposedSource(p, disk[p.path])]

\* The first verdict; the design delta reads the file for its own baseline.
Validate(a) ==
  /\ Hook(a, "proposed")
  /\ LET p == call[a].payload.path
         smelly == SmellsGrow(disk, [disk EXCEPT ![p] = call[a].candidate])
     IN IF Violations(call[a].candidate) = <<>> /\ ~smelly
          THEN Reply(a, Allow(call[a].style))
          ELSE call' = [call EXCEPT ![a].pc = "suspect", ![a].smelly = smelly]

Ratchet(a) ==
  /\ Hook(a, "suspect")
  /\ IF NewViolations(call[a].candidate, disk[call[a].payload.path]) = <<>> /\ ~call[a].smelly
       THEN Reply(a, Allow(call[a].style))
       ELSE Reply(a, Deny(call[a].style))

\* A patch that cannot be reconstructed is not preflighted at all.
ReadPatch(a) ==
  /\ Hook(a, "asked")
  /\ call[a].payload.tool = "ApplyPatch"
  /\ LET patch == call[a].payload.patch
         touches == {patch[i].path : i \in DOMAIN patch}
     IN CASE ~CompletePatch(patch, disk) -> Reply(a, Allow(call[a].style))
          [] CompletePatch(patch, disk) /\ touches \cap SourceFile # {} /\ touches \cap InputFile # {} ->
               Reply(a, Deny(call[a].style))
          [] CompletePatch(patch, disk) /\ touches \cap SourceFile = {} ->
               Reply(a, Allow(call[a].style))
          [] OTHER ->
               call' = [call EXCEPT ![a].pc = "patch", ![a].base = stamp,
                 ![a].overlay = [i \in DOMAIN patch |-> Reconstruct(patch[i], disk)]]

Preflight(a) ==
  /\ Hook(a, "patch")
  /\ LET candidate == Overlay(disk, call[a].payload.patch, call[a].overlay) IN
       IF Analysable(disk) /\ Clean(candidate) /\ ~SmellsGrow(disk, candidate)
         THEN Reply(a, Allow(call[a].style))
         ELSE Reply(a, DenyPatch)

(***************************************************************************)
(* The host: it applies what was allowed, to the disk as it is by then.    *)
(***************************************************************************)
HostTree(payload) ==
  IF payload.tool = "ApplyPatch"
    THEN FoldLeft(LAMBDA t, d : LET r == Reconstruct(d, t) IN
                    IF r = Missing THEN t ELSE [t EXCEPT ![d.path] = IF r = Gone THEN Missing ELSE r],
                  disk, payload.patch)
    ELSE [disk EXCEPT ![payload.path] = ProposedSource(payload, @)]

Fits(tree) == \A p \in Path : tree[p] # Missing => Len(tree[p]) <= MaxLength

HostApply(a) ==
  /\ call[a].pc = "answered" /\ call[a].reply.status = 0
  /\ call[a].payload.tool # "Bash"
  /\ Fits(HostTree(call[a].payload))
  /\ disk' = HostTree(call[a].payload)
  /\ stamp' = [p \in Path |-> IF disk'[p] # disk[p] THEN stamp[p] + 1 ELSE stamp[p]]
  /\ call' = [call EXCEPT ![a].pc = "idle"]

HostDrop(a) ==
  /\ Hook(a, "answered")
  /\ call' = [call EXCEPT ![a].pc = "idle"]

Judge(a) ==
  \/ PassUngoverned(a) \/ ReadProposed(a) \/ Validate(a) \/ Ratchet(a)
  \/ ReadPatch(a) \/ Preflight(a) \/ HostApply(a) \/ HostDrop(a)

Next == \E a \in Agent :
  \/ Judge(a)
  \/ \E payload \in Payloads, style \in Styles : Propose(a, payload, style)

Spec == Init /\ [][Next]_vars

-----------------------------------------------------------------------------
EditTools == {"Write", "Edit", "MultiEdit"}
GovernedEdit(a) == call[a].payload.tool \in EditTools /\ call[a].payload.path \in SourceFile
Undisturbed(a, paths) == \A p \in paths : stamp[p] = call[a].base[p]
Judged(a) == call[a].payload.tool = "ApplyPatch" /\ call[a].overlay # <<>>

Worse(before, after) ==
  \/ \E k \in Key : Count(after, k) > Count(before, k)
  \/ Count(after, Junk) > Count(before, Junk)
  \/ FailOnNewSmells /\ Count(after, Smell) > Count(before, Smell)

\* An edit the hook let through leaves its file no worse, key by key, when no
\* other host wrote the file since the hook first read it: whatever the tool,
\* the occurrences it replaces, and the violations the file came with; it also
\* leaves it analysable.  And the ratchet blocks only what adds to the file as it
\* is on the disk when it decides, but for two candidates: one found to add a
\* smell on the earlier read of the first verdict, and one that stays incomplete.
\* The latter is refused also when it adds nothing, or repairs the rest of a file
\* that was incomplete before, though the comment of the ratchet says "an edit is
\* blocked only when it ADDS violations" (ark-mcp-runtime.mjs:760, against 771 and
\* 779).
EditsAreRatcheted ==
  [][\A a \in Agent :
       /\ HostApply(a) /\ GovernedEdit(a) /\ Undisturbed(a, {call[a].payload.path})
            => /\ ~Worse(disk[call[a].payload.path], disk'[call[a].payload.path])
               /\ Count(disk'[call[a].payload.path], Junk) = 0
       /\ Ratchet(a) /\ call'[a].reply.status = 2
            => \/ Worse(disk[call[a].payload.path], call[a].candidate)
               \/ call[a].smelly \/ Count(call[a].candidate, Junk) > 0]_vars

\* A patch that was preflighted and let through produces exactly the tree that
\* was judged, and that tree is clean, unless somebody wrote in between.
PatchIsWhatWasJudged ==
  [][\A a \in Agent : HostApply(a) /\ Judged(a) /\ Undisturbed(a, Path)
       => /\ disk' = Overlay(disk, call[a].payload.patch, call[a].overlay)
          /\ Clean(disk')]_vars
=============================================================================
