------------------------------- MODULE CodexHome -------------------------------
(***************************************************************************)
(* The home configuration of Codex that every project of a developer       *)
(* shares (codex-home): its primary Ark server and the servers scoped to a *)
(* project, how an installer rewires them, and the advice the adoption     *)
(* report gives a project (mcp-adoption).                                  *)
(***************************************************************************)
EXTENDS Naturals, FiniteSets

CONSTANTS
  Project,    \* project roots
  Temporary,  \* those that are scratch or upgrade directories
  DefaultHome,\* CODEX_HOME is the developer's own
  NoRoot, NoTable,
  MaxAtOnce   \* bound: installers at work at one time

VARIABLES
  toml, \* the home file: its primary table, and the projects with a scoped one
  own,  \* the projects whose own .codex/config.toml binds Ark validly
  wiring\* wiring[p]: the text p's installer is about to write, and its --force;
        \* late: somebody wrote the file since it was read (history)
vars == <<toml, own, wiring>>

Permanent == Project \ Temporary
Table == [root : Project \cup {NoRoot}, preferred : BOOLEAN]

NeedsRewrite(t, p) ==
  \/ t.primary = NoTable
  \/ t.primary.root \in Temporary \cup {NoRoot}
  \/ t.primary.root = p /\ ~t.primary.preferred

Other(t, p) == t.primary # NoTable /\ t.primary.root \notin {p, NoRoot}
Bound(p) == [root |-> p, preferred |-> TRUE]
KeepsPrimary(t, p, force) == t.primary # NoTable /\ ~force /\ ~NeedsRewrite(t, p)
Kept(t, p, force) == KeepsPrimary(t, p, force) /\ ~Other(t, p)
Wired(t, p, force) ==
  IF KeepsPrimary(t, p, force) THEN [t EXCEPT !.scoped = @ \cup {p}]
                               ELSE [t EXCEPT !.primary = Bound(p)]

\* The commands the adoption report tells a project to run, "none" when it has
\* a valid binding of its own or the home file names no Ark server.
Gap(t, p, bound) ==
  CASE p \in bound \/ t.primary = NoTable -> "none"
    [] p \notin bound /\ t.primary # NoTable /\ NeedsRewrite(t, p) -> "codex-home-mcp"
    [] p \notin bound /\ t.primary # NoTable /\ ~NeedsRewrite(t, p) /\ t.primary.root # p -> "codex-home-multi-project"
    [] OTHER -> "none"

-----------------------------------------------------------------------------
\* Others notice nothing when the home file is written.
Wiring(text, force, late) == [text |-> text, force |-> force, late |-> late]
Late(w) == [p \in Project |-> IF w[p] = NoTable THEN NoTable ELSE [w[p] EXCEPT !.late = TRUE]]
AtWork == {p \in Project : wiring[p] # NoTable}

\* --install-agent-gates --codex-home [--force]: the whole file is read, and
\* later written; a scratch project leaves the developer's own home file alone.
ReadHome(p, force) ==
  /\ wiring[p] = NoTable /\ Cardinality(AtWork) < MaxAtOnce
  /\ ~(DefaultHome /\ p \in Temporary) /\ ~Kept(toml, p, force)
  /\ wiring' = [wiring EXCEPT ![p] = Wiring(Wired(toml, p, force), force, FALSE)]
  /\ UNCHANGED <<toml, own>>
WriteHome(p) ==
  /\ wiring[p] # NoTable
  /\ toml' = wiring[p].text
  /\ wiring' = Late([wiring EXCEPT ![p] = NoTable])
  /\ UNCHANGED own
\* --install-agent-gates --tools codex, into the project.
InstallProject(p) == own' = own \cup {p} /\ UNCHANGED <<toml, wiring>>
\* The developer, or an earlier package, with the home file and the project's.
UserEdits(t) == toml' = [toml EXCEPT !.primary = t] /\ wiring' = Late(wiring) /\ UNCHANGED own
UserDrops(p) == own' = own \ {p} /\ UNCHANGED <<toml, wiring>>

Init ==
  toml = [primary |-> NoTable, scoped |-> {}] /\ own = {} /\ wiring = [p \in Project |-> NoTable]
Next ==
  \/ \E p \in Project, force \in BOOLEAN : ReadHome(p, force)
  \/ \E p \in Project : WriteHome(p) \/ InstallProject(p) \/ UserDrops(p)
  \/ \E t \in Table \cup {NoTable} : UserEdits(t)
Spec == Init /\ [][Next]_vars

-----------------------------------------------------------------------------
\* What the advice does when it is followed with nobody in between.
Advised(t, p) == IF Gap(t, p, own) = "codex-home-mcp" THEN Wired(t, p, TRUE) ELSE t
AdvisedOwn(t, p) == IF Gap(t, p, own) = "codex-home-multi-project" THEN own \cup {p} ELSE own
Serves(t, p) == p \in t.scoped \/ (t.primary # NoTable /\ t.primary.root = p)

\* An installer that is not forced leaves every other permanent project the
\* server it had, unless somebody wrote the file after the installer had read it
\* (codex-home.mjs:333, then 367): there is no lock, and the later writer undoes
\* the earlier.  Its own project it always gives one.  Whoever follows the report's advice
\* removes its own gap and gives no other permanent project a new one.
SharesHome ==
  /\ \A p \in Project : WriteHome(p) /\ ~wiring[p].force =>
       /\ ~wiring[p].late => \A q \in Permanent \ {p} : Serves(toml, q) => Serves(toml', q)
       /\ p \in Permanent => Serves(toml', p)
  /\ \A p \in Permanent :
       /\ Gap(Advised(toml, p), p, AdvisedOwn(toml, p)) = "none"
       /\ \A q \in Permanent : Gap(toml, q, own) = "none" => Gap(Advised(toml, p), q, AdvisedOwn(toml, p)) = "none"
HomeIsShared == [][SharesHome]_vars
===============================================================================
