------------------------------ MODULE GateInstall ------------------------------
(***************************************************************************)
(* Agent and CI gates of a project: the installer of the full set and of   *)
(* the compact router (install-migrate, gate-files, skill-install), the    *)
(* previewed "ark start" with its removal of a host (start-preview, ark),  *)
(* and the strict gate that says what is missing.  Both write one file     *)
(* after the other, each some time after they read it.  A file is the set  *)
(* of whose text it holds: "ark" of this package version, "old" of an      *)
(* earlier one, "user", and "broken" for a file no parser reads.           *)
(***************************************************************************)
EXTENDS Naturals, FiniteSets, SequencesExt

CONSTANTS
  Tool,         \* the hosts
  Mcp, Workflow,\* .mcp.json and the CI workflow
  HostFile,     \* host -> the files it is installed with
  Merged, Json, \* the host files that are merged, never replaced; those parsed
  Skill,        \* host -> the file standing for its skill catalog
  Mark,         \* host -> the files whose presence reveals it
  Nagged,       \* the hosts whose catalog an ordinary check looks at
  Required,     \* host -> the files the strict gate asks of its router
  Removable,    \* host -> the files its removal takes away
  PathOrder,    \* all of these and AGENTS.md, in the order of their names
  CatalogOrder, \* and in the order of the installer's catalog
  NoHost,
  MaxSteps

VARIABLES
  file,   \* path -> whose text it holds
  agents, \* AGENTS.md: the owner's guide, Ark's part, notes inside Ark's part
  plan,   \* a previewed start: what is left to apply, in order
  work,   \* an installation: what it has still to go through, in order
  hand,   \* the text about to be written to the first of either, if any
  late,   \* a user wrote that file since it was read (history)
  last,   \* what just ran
  steps
vars == <<file, agents, plan, work, hand, late, last, steps>>

Paths == {Mcp, Workflow} \cup UNION {HostFile[h] \cup {Skill[h]} : h \in Tool}
Exists(c) == c # {}
\* The part of AGENTS.md that Ark wrote: none, the full contract, or the
\* compact router of a host ("none" when no host is selected).
Router == [kind : {"compact"}, host : Tool \cup {NoHost}]
Full == [kind |-> "full", host |-> NoHost]
NoArk == [kind |-> "absent", host |-> NoHost]
NoAgents == [guide |-> FALSE, ark |-> NoArk, notes |-> FALSE, mother |-> FALSE]
AgentsExist(a) == a.guide \/ a.mother \/ a.ark # NoArk
ArkOwned(a) == ~a.guide /\ ~a.mother /\ a.ark # NoArk

-----------------------------------------------------------------------------
\* What the strict gate finds missing.
IsCompact(a) == a.ark.kind = "compact"
Registered(f, h) ==
  IF h = NoHost THEN Exists(f[Mcp]) ELSE h \in DOMAIN Required /\ \A p \in Required[h] : Exists(f[p])
RunsArk(f) == f[Workflow] \cap {"ark", "old"} # {}
Missing(f, a) ==
  {m \in {"AGENTS.md"} : ~AgentsExist(a)}
  \cup {m \in {"mcp"} : ~IsCompact(a) /\ ~Exists(f[Mcp])}
  \cup {m \in {"host"} : IsCompact(a) /\ ~Registered(f, a.ark.host)}
  \cup {m \in {"workflow"} : ~RunsArk(f)}

\* The hosts whose directories are there, or the starter set.
Detected == {h \in Tool : \E p \in Mark[h] : Exists(file[p])}
Resolved(tools) == IF tools # {} THEN tools ELSE IF Detected # {} THEN Detected ELSE Tool

\* Skill catalogs of detected hosts that are missing or behind the package.
SkillGaps(f, a) ==
  IF ~AgentsExist(a) \/ IsCompact(a) THEN {}
  ELSE {h \in Nagged : (\E p \in Mark[h] : Exists(f[p])) /\ "ark" \notin f[Skill[h]]}

-----------------------------------------------------------------------------
\* writeTemplate and the merges.
\* Mutant: force replaces nothing.
WrittenOnce(content, force) == IF Exists(content) THEN content ELSE {"ark"}
Written(content, force) == IF Exists(content) /\ ~force THEN content ELSE {"ark"}
Merge(p, content) == IF p \in Json /\ "broken" \in content THEN content ELSE (content \ {"old"}) \cup {"ark"}
\* Mutant: a guide is replaced when the user forces.
AgentsClobbered(a, router, force) ==
  IF AgentsExist(a) /\ ~force THEN a ELSE [NoAgents EXCEPT !.ark = router]
AgentsWritten(a, router, force) ==
  CASE a.mother -> a
    [] a.guide /\ ~a.mother -> IF force /\ a.ark = NoArk THEN [a EXCEPT !.ark = router] ELSE a
    [] ArkOwned(a) /\ ~force -> a
    [] OTHER -> [NoAgents EXCEPT !.ark = router]

\* The catalog of assets, installed over files f and AGENTS.md a.
Assets(hosts, compact, skillsOnly) ==
  (IF skillsOnly THEN {} ELSE {Mcp, Workflow} \cup UNION {HostFile[h] : h \in hosts})
  \cup (IF compact THEN {} ELSE {Skill[h] : h \in hosts})
Installed(hosts, compact, force, skillsOnly) ==
  [p \in Paths |->
     IF p \notin Assets(hosts, compact, skillsOnly) THEN file[p]
     ELSE IF p \in Merged THEN Merge(p, file[p]) ELSE Written(file[p], force)]
RouterFor(hosts, compact) ==
  IF compact THEN [kind |-> "compact", host |-> IF hosts = {} THEN NoHost ELSE CHOOSE h \in hosts : TRUE] ELSE Full
InstalledAgents(hosts, compact, force, skillsOnly) ==
  IF skillsOnly THEN agents
  ELSE AgentsWritten(agents, RouterFor(hosts, compact), force \/ (compact /\ IsCompact(agents)))

\* The closing verification of the skill catalogs that AGENTS.md refers to.
CatalogOk(f, a, hosts, compact) ==
  compact \/ a.ark.kind # "full" \/ \A h \in hosts : Exists(f[Skill[h]])

-----------------------------------------------------------------------------
Current(p) == IF p = "AGENTS.md" THEN agents ELSE file[p]
Put(p, content) ==
  IF p = "AGENTS.md" THEN agents' = content /\ UNCHANGED file
                     ELSE file' = [file EXCEPT ![p] = content] /\ UNCHANGED agents
Take(content) == hand' = <<content>> /\ late' = FALSE
Release == hand' = <<>> /\ late' = FALSE

Quiet == plan = <<>> /\ work = <<>> /\ steps < MaxSteps
\* again: AGENTS.md was a compact router when the run began.
Ran(kind, hosts, compact, force, again) ==
  last' = [kind |-> kind, hosts |-> hosts, compact |-> compact, force |-> force, again |-> again, ok |-> FALSE]

\* --install-agent-gates, with its profile: the hosts and the router of before
\* are looked at once.  The generic registration goes first when a host comes
\* back to a router without one, and the catalogs are verified at the end.
Generic == "the generic registration"
Verify == "the skill catalogs"
Install(tools, compact, force, skillsOnly) ==
  LET hosts == IF compact THEN tools ELSE Resolved(tools)
      back == compact /\ tools # {} /\ IsCompact(agents) /\ agents.ark.host = NoHost
      todo == Assets(hosts, compact, skillsOnly) \cup (IF skillsOnly THEN {} ELSE {"AGENTS.md"})
  IN /\ Quiet /\ (compact => Cardinality(tools) <= 1) /\ ~(compact /\ skillsOnly)
     /\ work' = (IF back THEN <<Generic>> ELSE <<>>)
                  \o SelectSeq(CatalogOrder, LAMBDA p : p \in todo) \o <<Verify>>
     /\ Ran(IF skillsOnly THEN "skills" ELSE "install", hosts, compact, force, IsCompact(agents))
     /\ steps' = steps + 1
     /\ UNCHANGED <<file, agents, plan, hand, late>>

\* What the run under way would write of an item, and whether it writes it: a
\* forced write replaces a file also by the same text.
Target(item) == IF item = Generic THEN Mcp ELSE item
Replacing == last.force \/ (last.compact /\ last.again)
Proposed(item) ==
  CASE item = Generic -> {}
    [] item = "AGENTS.md" -> AgentsWritten(agents, RouterFor(last.hosts, last.compact), Replacing)
    [] item \in Merged -> Merge(item, file[item])
    [] OTHER -> Written(file[item], last.force)
Writes(item) ==
  CASE item = Generic -> file[Mcp] = {"ark"}
    [] item = "AGENTS.md" -> Proposed(item) # agents \/ (Replacing /\ ~agents.guide /\ ~agents.mother)
    [] item \in Merged -> Proposed(item) # file[item]
    [] OTHER -> last.force \/ ~Exists(file[item])

\* The next file is read; those it leaves alone are passed over.
ReadAsset ==
  /\ work # <<>> /\ hand = <<>>
  /\ LET rest == SubSeq(work, SelectInSeq(work, LAMBDA item : item = Verify \/ Writes(item)), Len(work)) IN
     IF Head(rest) = Verify
       THEN /\ work' = <<>> /\ UNCHANGED <<hand, late>>
            /\ last' = [last EXCEPT !.ok = last.kind = "skills" \/ CatalogOk(file, agents, last.hosts, last.compact)]
       ELSE work' = rest /\ Take(Proposed(Head(rest))) /\ UNCHANGED last
  /\ UNCHANGED <<file, agents, plan, steps>>
WriteAsset ==
  /\ work # <<>> /\ hand # <<>>
  /\ Put(Target(Head(work)), hand[1])
  /\ work' = Tail(work) /\ Release
  /\ UNCHANGED <<plan, last, steps>>

\* A preview lists what would change, in the order of the names, with the
\* bytes it saw.
Change(p, after) == [path |-> p, before |-> Current(p), after |-> after]
Changes(order, f, a) ==
  LET all == [i \in DOMAIN order |-> Change(order[i], IF order[i] = "AGENTS.md" THEN a ELSE f[order[i]])]
  IN SelectSeq(all, LAMBDA c : c.before # c.after)
Start(tools, force) ==
  LET f == Installed(tools, TRUE, force, FALSE)
      a == InstalledAgents(tools, TRUE, force, FALSE)
  IN /\ Quiet /\ Cardinality(tools) <= 1 /\ Changes(PathOrder, f, a) # <<>>
     /\ plan' = Changes(PathOrder, f, a)
     /\ Ran("start", tools, TRUE, force, IsCompact(agents)) /\ steps' = steps + 1
     /\ UNCHANGED <<file, agents, work, hand, late>>

\* The removal of a host: its exact artifacts, the router without a host, and
\* the shared registration where there is none.
RemoveHost(h) ==
  LET gone == [p \in Paths |-> IF p \in Removable[h] /\ file[p] = {"ark"} THEN {} ELSE file[p]]
      exact == agents = [NoAgents EXCEPT !.ark = [kind |-> "compact", host |-> h]]
      a == IF exact THEN [NoAgents EXCEPT !.ark = [kind |-> "compact", host |-> NoHost]] ELSE agents
      order == SelectSeq(PathOrder, LAMBDA p : p \in Removable[h]) \o <<"AGENTS.md">>
      added == IF Exists(file[Mcp]) THEN <<>> ELSE <<Change(Mcp, {"ark"})>>
  IN /\ Quiet /\ Changes(order, gone, a) \o added # <<>>
     /\ plan' = Changes(order, gone, a) \o added
     /\ Ran("remove", {h}, TRUE, FALSE, IsCompact(agents)) /\ steps' = steps + 1
     /\ UNCHANGED <<file, agents, work, hand, late>>

\* Applying goes change by change: a file is compared with what the preview saw
\* and then written; the first that is stale ends it.
CompareChange ==
  /\ plan # <<>> /\ hand = <<>>
  /\ IF Current(Head(plan).path) = Head(plan).before
       THEN Take(Head(plan).after) /\ UNCHANGED plan
       ELSE plan' = <<>> /\ UNCHANGED <<hand, late>>
  /\ UNCHANGED <<file, agents, work, last, steps>>
WriteChange ==
  /\ plan # <<>> /\ hand # <<>>
  /\ Put(Head(plan).path, hand[1])
  /\ plan' = Tail(plan) /\ Release
  /\ last' = [last EXCEPT !.ok = Tail(plan) = <<>>]
  /\ UNCHANGED <<work, steps>>

\* The file that was read and is about to be written.
InHand(p) == hand # <<>> /\ p = IF plan # <<>> THEN Head(plan).path ELSE Target(Head(work))

\* The people of the project, at any time, and a newer package whose templates
\* moved on.
UserStep(p) ==
  /\ steps < MaxSteps /\ steps' = steps + 1
  /\ late' = (late \/ InHand(p))
  /\ last' = [last EXCEPT !.kind = "user", !.ok = FALSE]
  /\ UNCHANGED <<plan, work, hand>>
UserWrites(p, content) ==
  /\ file[p] # content /\ file' = [file EXCEPT ![p] = content]
  /\ UserStep(p) /\ UNCHANGED agents
\* Notes inside Ark's part, or a guide of one's own in its place.
UserNotes ==
  /\ ArkOwned(agents) /\ ~agents.notes /\ agents' = [agents EXCEPT !.notes = TRUE]
  /\ UserStep("AGENTS.md") /\ UNCHANGED file
UserGuides ==
  /\ ~agents.guide /\ ~agents.mother /\ agents' = [NoAgents EXCEPT !.guide = TRUE]
  /\ UserStep("AGENTS.md") /\ UNCHANGED file
PackageMoves ==
  /\ Quiet
  /\ file' = [p \in Paths |-> IF "ark" \in file[p] THEN (file[p] \ {"ark"}) \cup {"old"} ELSE file[p]]
  /\ file' # file
  /\ last' = [last EXCEPT !.kind = "user", !.ok = FALSE] /\ steps' = steps + 1
  /\ UNCHANGED <<agents, plan, work, hand, late>>

Init ==
  /\ file \in [Paths -> {{}}]
  /\ agents \in {NoAgents, [NoAgents EXCEPT !.guide = TRUE], [NoAgents EXCEPT !.mother = TRUE]}
  /\ plan = <<>> /\ work = <<>> /\ hand = <<>> /\ late = FALSE /\ steps = 0
  /\ last = [kind |-> "user", hosts |-> {}, compact |-> FALSE, force |-> FALSE, again |-> FALSE, ok |-> FALSE]
Next ==
  \/ \E tools \in SUBSET Tool, compact, force, skillsOnly \in BOOLEAN : Install(tools, compact, force, skillsOnly)
  \/ \E tools \in SUBSET Tool, force \in BOOLEAN : Start(tools, force)
  \/ \E h \in Tool : RemoveHost(h)
  \/ ReadAsset \/ WriteAsset
  \/ CompareChange \/ WriteChange
  \/ \E p \in Paths, content \in {{}, {"user"}, {"ark", "user"}} : UserWrites(p, content)
  \/ \E p \in Json : UserWrites(p, {"broken"})
  \/ UserNotes \/ UserGuides
  \/ PackageMoves
Spec == Init /\ [][Next]_vars

-----------------------------------------------------------------------------
\* A successful installation satisfies the strict gate, but for a workflow the
\* user keeps for other work and for a router of a host that was not installed
\* now, or that the gate knows no files of.  A forced refresh of the detected
\* hosts leaves no skill behind the package.
InstallSettles ==
  /\ last.kind \in {"install", "start"} /\ last.ok =>
       \A m \in Missing(file, agents) :
         \/ m = "workflow" /\ ~last.force
         \/ m = "host" /\ agents.ark.host \notin (last.hosts \cap DOMAIN Required) \cup {NoHost}
  /\ last.kind = "skills" /\ last.ok /\ last.force /\ Detected \subseteq last.hosts => SkillGaps(file, agents) = {}

\* Nothing Ark does loses the text of a user, unless forced, and not even force
\* touches a merged file, the project's own guide or the library's; but a compact
\* installation over a compact router rewrites it unforced, with the notes a user
\* made inside (install-migrate.mjs:473).  An applied plan replaces a file only as
\* its preview saw it, forced or not.  None of this holds for what a user writes
\* to a file between its reading, or comparison, and its writing
\* (install-migrate.mjs:414-465, start-preview.mjs:161-171): it is lost.
Overtaken(p) == late /\ InHand(p)
KeepsUserText ==
  \/ steps' = steps + 1
  \/ /\ \A p \in Paths : ~Overtaken(p) =>
          /\ "user" \in file[p] /\ (p \in Merged \/ ~last.force) => "user" \in file'[p]
          /\ file[p] = {"broken"} /\ p \in Merged \cap Json => file'[p] = {"broken"}
     /\ ~Overtaken("AGENTS.md") =>
          /\ (agents.guide => agents'.guide) /\ (agents.mother => agents'.mother)
          /\ agents.notes => agents'.notes \/ last.force \/ (last.compact /\ IsCompact(agents))
     /\ plan # <<>> /\ ~late => <<file, agents>>' = <<file, agents>> \/ Current(Head(plan).path) = Head(plan).before
UserTextSurvives == [][KeepsUserText]_vars
===============================================================================
