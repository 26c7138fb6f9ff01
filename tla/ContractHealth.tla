--------------------------- MODULE ContractHealth ---------------------------
(***************************************************************************)
(* Doctor's reading of the contract itself (bin/lib/contract-smells.mjs):  *)
(* rule shapes that permit decay at no violation, and the sidecar in which *)
(* a team acknowledges some of them until a day of review.  The contract,  *)
(* the tree, the sidecar and the calendar change between two readings.     *)
(* A role read from a layer's name is given by a constant; the caps on     *)
(* evidence and the wording of the lines are left out.                     *)
(***************************************************************************)
EXTENDS Naturals, Sequences, FiniteSets, FiniteSetsExt, SequencesExt

CONSTANTS
  Layer,        \* names a contract declares or mentions
  Arrowed,      \* those that hold an arrow, which no acknowledgement can name
  Peripheral, Core, Adapter,   \* the roles the names suggest
  FamilyBase,   \* <<member, base>> where the base is the member's own family's
  Contracts,    \* contracts to start from: layers with their files, and rules
  Acks,         \* entries a team may write: id, edge, day of review
  Days,         \* the calendar, 1..n
  FileCounts,   \* how many files a layer may come to hold
  HeavyFilesBelow, HeavyLayers, HeavyRules, LightLayers, LightFiles,
  MaxEdits, MaxAcks, None, Broken

VARIABLES
  layers,       \* declared name -> files that match it, whether it may be empty
  rules,        \* edge -> "allow", "deny" or "isolate"
  sidecar,      \* None, Broken, or the entries of the file
  today, edits

vars == <<layers, rules, sidecar, today, edits>>

SmellIds == {"bidirectional", "peripheral", "lateral", "dead"}
Edges == Layer \X Layer

-----------------------------------------------------------------------------
(* The smells of the contract.                                             *)

Pair(e) == <<"pair", {e[1], e[2]}>>
Arrow(e) == <<"arrow", e[1], e[2]>>

ExplicitAllows == {e \in DOMAIN rules : rules[e] = "allow" /\ e[1] # e[2]}

PeripheryIntoCore(e) == e[1] \in Peripheral /\ e[2] \in Core

NoEffect(e) ==
  IF e[1] = e[2] THEN {<<"self", e[1]>>}
  ELSE {<<"unknown", l>> : l \in {e[1], e[2]} \ DOMAIN layers}
       \cup {<<"empty", l>> : l \in {x \in {e[1], e[2]} \cap DOMAIN layers : layers[x].files = 0 /\ ~layers[x].optional}}

\* What an acknowledgement must name, None where no text can.
Nameable(e, label) == IF {e[1], e[2]} \cap Arrowed = {} THEN label ELSE None

Finding(e, label, why) == [edge |-> Nameable(e, label), label |-> label, why |-> why]

Findings(id) ==
  CASE id = "bidirectional" -> {Finding(e, Pair(e), None) : e \in {x \in ExplicitAllows : <<x[2], x[1]>> \in ExplicitAllows}}
    [] id = "peripheral"    -> {Finding(e, Arrow(e), None) : e \in {x \in ExplicitAllows : PeripheryIntoCore(x)}}
    [] id = "lateral"       -> {Finding(e, Arrow(e), None) :
                                  e \in {x \in ExplicitAllows : {x[1], x[2]} \subseteq Adapter /\ ~PeripheryIntoCore(x) /\ x \notin FamilyBase}}
    [] id = "dead"          -> UNION {{Finding(e, Arrow(e), w) : w \in NoEffect(e)} : e \in DOMAIN rules}

-----------------------------------------------------------------------------
(* The acknowledgements and their days of review.                          *)

Entries == IF sidecar \in {None, Broken} THEN <<>> ELSE sidecar

\* A pair is asked for by one smell only; any other text of it never matches.
NormalizedEdge(id, edge) == IF id = "bidirectional" /\ edge[1] # "pair" THEN None ELSE edge

LifecycleStatus(a) ==
  IF a.reviewBy = None THEN "undated"
  ELSE IF a.reviewBy \notin Days THEN "malformed"
  ELSE IF a.reviewBy < today THEN "expired" ELSE "current"

\* The entries written for a finding, in the order of the file.
Matching(id, edge) ==
  SelectSeq(Entries, LAMBDA a : edge # None /\ a.id = id /\ NormalizedEdge(id, a.edge) = edge)

\* Resolved with a leftover undated entry put before the dated ones.
ResolvedAnyUndated(matching) ==
  LET statuses == {LifecycleStatus(matching[i]) : i \in DOMAIN matching}
  IN IF "current" \in statuses THEN "current" ELSE IF "undated" \in statuses THEN "undated"
     ELSE IF "expired" \in statuses THEN "expired" ELSE IF "malformed" \in statuses THEN "malformed" ELSE "none"

Resolved(matching) ==
  LET statuses == [i \in DOMAIN matching |-> LifecycleStatus(matching[i])]
      dead == {i \in DOMAIN matching : statuses[i] \in {"expired", "malformed"}}
  IN IF \E i \in DOMAIN matching : statuses[i] = "current" THEN "current"
     ELSE IF dead # {} THEN statuses[Min(dead)]
     ELSE IF matching # <<>> THEN "undated" ELSE "none"

AckOf(id, f) == Resolved(Matching(id, f.edge))

Kept(id) == {f \in Findings(id) : AckOf(id, f) \notin {"current", "undated"}}

WithStatus(s) == {<<id, f>> \in UNION {{id} \X Findings(id) : id \in SmellIds} : AckOf(id, f) = s}

StaleEntries ==
  {i \in DOMAIN Entries :
     LET a == Entries[i]
         edge == NormalizedEdge(a.id, a.edge)
     IN edge = None \/ a.id \notin SmellIds \/ \A f \in Findings(a.id) : f.edge # edge}

-----------------------------------------------------------------------------
(* What is printed.                                                        *)

GovernedFiles == FoldSet(LAMBDA l, n : n + layers[l].files, 0, DOMAIN layers)

GovernanceWeight ==
  LET declared == Cardinality(DOMAIN layers)
  IN IF declared = 0 \/ GovernedFiles = 0 THEN "unknown"
     ELSE IF GovernedFiles < HeavyFilesBelow * declared
             /\ (declared >= HeavyLayers \/ Cardinality(DOMAIN rules) >= HeavyRules * declared) THEN "heavy"
     ELSE IF declared <= LightLayers /\ GovernedFiles >= LightFiles THEN "light"
     ELSE "typical"

Smells == {id \in SmellIds : Kept(id) # {}}

\* The lines of the section; it stays silent when there is nothing to say.
Lines ==
  LET weighty == GovernanceWeight \in {"heavy", "light"}
      undated == WithStatus("undated")
  IN IF Smells = {} /\ sidecar # Broken /\ ~weighty /\ undated = {} /\ StaleEntries = {} THEN {}
     ELSE Smells
          \cup {l \in {"ack file invalid"} : sidecar = Broken}
          \cup {l \in {"expired"} : WithStatus("expired") # {}}
          \cup {l \in {"malformed"} : WithStatus("malformed") # {}}
          \cup {l \in {"undated"} : undated # {}}
          \cup {l \in {"stale"} : StaleEntries # {}}
          \cup {l \in {"weight"} : weighty}

-----------------------------------------------------------------------------
(* What happens between two readings.                                      *)

Init ==
  /\ \E c \in Contracts : layers = c.layers /\ rules = c.rules
  /\ sidecar = None /\ today = 1 /\ edits = 0

Edit == edits < MaxEdits /\ edits' = edits + 1

SetRule(e, effect) ==
  /\ Edit
  /\ effect = "isolate" => e[1] = e[2]
  /\ rules' = [x \in DOMAIN rules \cup {e} |-> IF x = e THEN effect ELSE rules[x]]
  /\ UNCHANGED <<layers, sidecar, today>>

DropRule(e) ==
  /\ Edit
  /\ rules' = [x \in DOMAIN rules \ {e} |-> rules[x]]
  /\ UNCHANGED <<layers, sidecar, today>>

MoveFiles(l, n) ==
  /\ Edit
  /\ layers' = [layers EXCEPT ![l].files = n]
  /\ UNCHANGED <<rules, sidecar, today>>

WriteAck(a) ==
  /\ Edit /\ Len(Entries) < MaxAcks
  /\ sidecar' = Append(Entries, a)
  /\ UNCHANGED <<layers, rules, today>>

BreakSidecar ==
  /\ Edit /\ sidecar' = Broken
  /\ UNCHANGED <<layers, rules, today>>

NextDay ==
  /\ today + 1 \in Days /\ today' = today + 1
  /\ UNCHANGED <<layers, rules, sidecar, edits>>

Next ==
  \/ \E e \in Edges, effect \in {"allow", "deny", "isolate"} : SetRule(e, effect)
  \/ \E e \in DOMAIN rules : DropRule(e)
  \/ \E l \in DOMAIN layers, n \in FileCounts : MoveFiles(l, n)
  \/ \E a \in Acks : WriteAck(a)
  \/ BreakSidecar \/ NextDay

Spec == Init /\ [][Next]_vars

-----------------------------------------------------------------------------
(* What must hold.                                                         *)

\* The entries that name a finding, read without regard to their order.
About(id, f) ==
  {i \in DOMAIN Entries :
     /\ Entries[i].id = id /\ Entries[i].edge = f.label /\ f.edge # None}

\* An entry counts up to its day of review; one without a day counts only
\* while no entry with a day was written for the same edge.
InForce(i, about) ==
  \/ Entries[i].reviewBy \in Days /\ today <= Entries[i].reviewBy
  \/ Entries[i].reviewBy = None /\ \A j \in about : Entries[j].reviewBy = None

\* Imports between layers that have files, and what a set of rules forbids.
Forbidden(rs) ==
  {e \in DOMAIN rs : rs[e] \in {"deny", "isolate"} /\ (e[1] = e[2] => rs[e] = "isolate")
                     /\ {e[1], e[2]} \subseteq {l \in DOMAIN layers : layers[l].files > 0}}

\* Doctor hides a smell of the contract exactly behind an entry that names it and
\* is in force.  Where entries name a smell and none of them is in force, it tells
\* the fault of one: which one, when they differ, is up to their order, though
\* contract-smells.mjs:314 calls every output "stable under sidecar reordering".
\* Of a dead entry beside one in force it says nothing, of one that names no smell
\* that it is stale.  And it calls no rule dead without which the tree would be
\* judged differently.  (A rule that isolates the slices of one layer is called
\* dead too: it is left out.)
HealthIsHonest ==
  LET lines == Lines IN
  /\ \A id \in SmellIds : \A f \in Findings(id) :
       f \in Kept(id) <=> ~\E i \in About(id, f) : InForce(i, About(id, f))
  /\ \A id \in Smells : id \in lines
  /\ \A i \in DOMAIN Entries :
       LET a == Entries[i]
           named == IF a.id \in SmellIds THEN {f \in Findings(a.id) : i \in About(a.id, f)} ELSE {}
       IN IF named = {} THEN "stale" \in lines
          ELSE \A f \in named :
                 \/ \E j \in About(a.id, f) : InForce(j, About(a.id, f)) /\ (Entries[j].reviewBy = None => "undated" \in lines)
                 \/ \E j \in About(a.id, f) : LifecycleStatus(Entries[j]) \in {"expired", "malformed"} \cap lines
  /\ sidecar = Broken => "ack file invalid" \in lines /\ \A id \in SmellIds : Kept(id) = Findings(id)
  /\ \A f \in Findings("dead") :
       LET e == <<f.label[2], f.label[3]>>
       IN rules[e] = "isolate" \/ Forbidden([x \in DOMAIN rules \ {e} |-> rules[x]]) = Forbidden(rules)
=============================================================================
