------------------------------- MODULE Preflight -------------------------------
(***************************************************************************)
(* Atomic preflight (bin/lib/prepare-change.mjs): a set of file changes is *)
(* judged before it is written.  The facts of the project and those of the *)
(* project overlaid with the changes are collected by two separate reads   *)
(* of a tree that others may edit meanwhile; preflightResolvedChange       *)
(* compares them with each other, with the request and with the plan.      *)
(***************************************************************************)
EXTENDS Naturals, SequencesExt, FiniteSetsExt, Functions, TLC

CONSTANTS
  Path, Specifier,
  Candidates,          \* Candidates[s]: the files import "s" may mean, in the resolver's order
  Content,             \* [imports, parses, offends]
  Denied,              \* pairs of files no edge may join
  CanonicalPath,       \* the file each name a request may use reaches on the disk
  Requests, Plans,     \* change sets and change maps that may be submitted
  Delete, None

VARIABLES tree, request, plan, baseFacts, candidateFacts, verdict, meddled
vars == <<tree, request, plan, baseFacts, candidateFacts, verdict, meddled>>

-----------------------------------------------------------------------------
\* Facts: what one read of the disk, with an overlay, says of the project.

Present(files) == {p \in Path : files[p] # None}
Resolve(s, files) == SelectSeq(Candidates[s], LAMBDA p : files[p] # None)
Edges(files) ==
  {<<p, Head(Resolve(s, files))>> : <<p, s>> \in {q \in Present(files) \X Specifier :
     q[2] \in files[q[1]].imports /\ Resolve(q[2], files) # <<>>}}
Overlay(files, changes) ==
  [p \in Path |-> LET at == {i \in DOMAIN changes : changes[i].path = p}
                  IN IF at = {} THEN files[p]
                     ELSE LET to == changes[Max(at)].to IN IF to = Delete THEN None ELSE to]
FactsOf(files) ==
  [files |-> files, edges |-> Edges(files), complete |-> \A p \in Present(files) : files[p].parses]

Canonicalize(changes) == [i \in DOMAIN changes |-> [changes[i] EXCEPT !.path = CanonicalPath[@]]]
HasDuplicates(changes) == \E i, j \in DOMAIN changes : i < j /\ changes[i].path = changes[j].path

-----------------------------------------------------------------------------
\* The canonical verdict on one set of facts.

Circular(edges) ==
  \E S \in SUBSET Path : S # {} /\ \A p \in S : \E q \in S \ {p} : <<p, q>> \in edges
Violating(facts) ==
  \/ facts.edges \cap Denied # {}
  \/ Circular(facts.edges)
  \/ \E p \in Present(facts.files) : facts.files[p].offends
StrictValid(facts) == facts.complete /\ ~Violating(facts)

\* What the request says, held against the two sets of facts.
DeleteTargetMissing(c) == c.to = Delete /\ baseFacts.files[c.path] = None
DeleteNotApplied(c) == c.to = Delete /\ candidateFacts.files[c.path] # None
ContentMismatch(c) == c.to # Delete /\ candidateFacts.files[c.path] # c.to
Undeclared(p) ==
  (\A i \in DOMAIN request : request[i].path # p) /\ baseFacts.files[p] # candidateFacts.files[p]
InputViolated ==
  \/ request = <<>>
  \/ \E i \in DOMAIN request :
       DeleteTargetMissing(request[i]) \/ DeleteNotApplied(request[i]) \/ ContentMismatch(request[i])
  \/ \E p \in Path : Undeclared(p)

Operation(c) ==
  CASE c.to = Delete -> "delete"
    [] c.to # Delete /\ baseFacts.files[c.path] # None -> "update"
    [] OTHER -> "create"

-----------------------------------------------------------------------------
\* Convergence with a plan: planned files with their operation, planned edges.

Touched == {request[i].path : i \in DOMAIN request}
FileConverges(p) ==
  IF p \in DOMAIN plan.files
    THEN \E i \in DOMAIN request : request[i].path = p /\ Operation(request[i]) = plan.files[p]
    ELSE p \notin Touched
Contradicted == {e \in candidateFacts.edges : <<e[2], e[1]>> \in plan.edges \ candidateFacts.edges}
\* Mutant: only the importing file makes an edge relevant.
RelevantByImporter(e) == e[1] \in DOMAIN plan.files \cup Touched
Relevant(e) == {e[1], e[2]} \cap (DOMAIN plan.files \cup Touched) # {}
UnplannedAdded ==
  {e \in candidateFacts.edges \ (baseFacts.edges \cup plan.edges \cup Contradicted) : Relevant(e)}
PlannedDeletes == {p \in DOMAIN plan.files : plan.files[p] = "delete"}
UnplannedRemoved ==
  {e \in baseFacts.edges \ candidateFacts.edges : {e[1], e[2]} \cap PlannedDeletes = {} /\ Relevant(e)}
Converged ==
  /\ \A p \in Path : FileConverges(p)
  /\ plan.edges \subseteq candidateFacts.edges
  /\ UnplannedAdded = {} /\ UnplannedRemoved = {}

\* A plan that loads: some files, edges between different planned files that stay.
PlanLoads(m) ==
  /\ DOMAIN m.files # {}
  /\ \A e \in m.edges : e[1] # e[2] /\ \A k \in {1, 2} : e[k] \in DOMAIN m.files /\ m.files[e[k]] # "delete"

-----------------------------------------------------------------------------
Init ==
  /\ tree \in [Path -> Content \cup {None}]
  /\ request = <<>> /\ plan = None /\ baseFacts = None /\ candidateFacts = None
  /\ verdict = "none" /\ meddled = FALSE

\* The checks that throw before a file is read, then the first read.
Prepare(changes, m) ==
  LET canonical == Canonicalize(changes) IN
  /\ request' = canonical /\ plan' = m
  /\ IF (m # None /\ ~PlanLoads(m)) \/ HasDuplicates(canonical)
       THEN verdict' = "refused" /\ UNCHANGED baseFacts
       ELSE baseFacts' = FactsOf(tree) /\ UNCHANGED verdict
  /\ UNCHANGED <<tree, candidateFacts, meddled>>
Submit == verdict = "none" /\ baseFacts = None /\ \E changes \in Requests, m \in Plans \cup {None} : Prepare(changes, m)

CollectCandidate ==
  /\ baseFacts # None /\ candidateFacts = None
  /\ candidateFacts' = FactsOf(Overlay(tree, request))
  /\ UNCHANGED <<tree, request, plan, baseFacts, verdict, meddled>>

Judge ==
  /\ candidateFacts # None /\ verdict = "none"
  /\ verdict' = IF /\ baseFacts.complete /\ StrictValid(candidateFacts)
                   /\ ~InputViolated /\ (plan # None => Converged)
                  THEN "valid" ELSE "invalid"
  /\ UNCHANGED <<tree, request, plan, baseFacts, candidateFacts, meddled>>

\* Another writer, once, between the two reads of a request without a plan (bounds).
Meddle ==
  /\ baseFacts # None /\ candidateFacts = None /\ ~meddled /\ plan = None
  /\ \E p \in Path, c \in Content \cup {None} : tree[p] # c /\ tree' = [tree EXCEPT ![p] = c]
  /\ meddled' = TRUE
  /\ UNCHANGED <<request, plan, baseFacts, candidateFacts, verdict>>

Next == Submit \/ CollectCandidate \/ Judge \/ Meddle
Spec == Init /\ [][Next]_vars

-----------------------------------------------------------------------------
Planned(p) == p \in DOMAIN plan.files

\* A valid verdict holds of one tree: the first one read, with exactly the
\* requested changes, whatever another writer did to the files between.  That
\* tree breaks no rule, and with a plan it differs from the first tree by the
\* planned operations on the planned files only; an edge appears only if it was
\* planned or if an untouched import falls through to another file because the
\* plan deletes the one it meant, and an edge disappears only with such a file.
ValidIsExact ==
  verdict = "valid" =>
    /\ candidateFacts = FactsOf(Overlay(baseFacts.files, request))
    /\ candidateFacts.edges \cap Denied = {} /\ \A p \in Present(candidateFacts.files) : ~candidateFacts.files[p].offends
    /\ plan # None =>
         /\ \A p \in Path :
              /\ ~Planned(p) => candidateFacts.files[p] = baseFacts.files[p]
              /\ Planned(p) => CASE plan.files[p] = "create" -> baseFacts.files[p] = None /\ candidateFacts.files[p] # None
                                 [] plan.files[p] = "update" -> baseFacts.files[p] # None /\ candidateFacts.files[p] # None
                                 [] plan.files[p] = "delete" -> baseFacts.files[p] # None /\ candidateFacts.files[p] = None
         /\ \A e \in candidateFacts.edges \ baseFacts.edges :
              e \in plan.edges \/ \E p \in Path : <<e[1], p>> \in baseFacts.edges /\ Planned(p) /\ plan.files[p] = "delete"
         /\ \A e \in baseFacts.edges \ candidateFacts.edges :
              \E p \in {e[1], e[2]} : Planned(p) /\ plan.files[p] = "delete"
=============================================================================
