--------------------------- MODULE ResidentControl ---------------------------
(***************************************************************************)
(* The resident pilot: an MCP process that also answers hook and doctor    *)
(* requests over a unix socket, its in-memory doctor session, the clients  *)
(* that fall back to a cold run, and the editors that change files at any  *)
(* moment (bin/ark-mcp-runtime.mjs, bin/lib/resident-hook.mjs,             *)
(* bin/lib/resident-doctor-client.mjs, bin/ark-mcp.mjs).                   *)
(*                                                                         *)
(* The content of a file is the number of times it was edited.  Nothing    *)
(* stops another process from editing between two system calls of the      *)
(* server, so every read, sample and comparison of one file is a step.     *)
(***************************************************************************)
EXTENDS Naturals, FiniteSets

CONSTANTS
  Server,        \* MCP processes started for one endpoint
  Client,        \* one-shot processes: a hook or ark-check --doctor --resident
  Watched,       \* config, manifest, tsconfig, lockfiles: the identity paths
  Governed,      \* the files and directories collectGovernedFiles lists
  Resolution,    \* what the resolver and the rules loader read besides them
  Nobody,        \* no process
  MaxVersion,    \* bound: edits of one file
  MaxRequests    \* bound: requests of one client

File == Watched \cup Governed \cup Resolution
ASSUME FileKindsAssumption ==
  /\ Watched \cap Governed = {} /\ Watched \cap Resolution = {}
  /\ Governed \cap Resolution = {} /\ Nobody \notin Server
  /\ MaxVersion \in Nat /\ MaxRequests \in Nat

VARIABLES
  disk,     \* disk[f]: the version of f on the disk
  path,     \* the process whose socket the endpoint's path names
  srv,      \* srv[s]: the process, its loaded policy and the request it serves
  session,  \* session[s]: the doctor session (the doctorSession variable)
  client    \* client[c]: the request c made and what became of it

vars == <<disk, path, srv, session, client>>

Unread == [f \in File |-> 0]
NoSession == [live |-> FALSE, seen |-> Unread, ledger |-> Unread, slipped |-> {}]
Off == [pc |-> "off", config |-> Unread, identity |-> Unread, raced |-> FALSE,
        step |-> "idle", for |-> Nobody, ask |-> 0, todo |-> {}, before |-> Unread]
NoRequest == [pc |-> "idle", kind |-> "doctor", to |-> Nobody, floor |-> Unread,
              seen |-> Unread, slipped |-> {}, asked |-> 0]

Init ==
  /\ disk = Unread
  /\ path = Nobody
  /\ srv = [s \in Server |-> Off]
  /\ session = [s \in Server |-> NoSession]
  /\ client = [c \in Client |-> NoRequest]

Serving(s) == srv[s].pc = "serving"
Decided(c) == client[c].pc \in {"warm", "cold"}

(***************************************************************************)
(* Editors.  slipped records the files edited after the session's facts    *)
(* were confirmed and before the ledger sampled them: for a governed file  *)
(* the confirmation is beforeLedger.matches, a resolution input has none.  *)
(***************************************************************************)
InWindow(s, f) ==
  \/ f \in Governed /\ srv[s].step = "rematch" /\ f \notin srv[s].todo
  \/ f \in Resolution /\ srv[s].step = "analyse" /\ f \notin srv[s].todo
  \/ f \in Resolution /\ srv[s].step = "rematch"
  \/ f \in Governed \cup Resolution /\ srv[s].step = "ledger" /\ f \in srv[s].todo

Edit(f) ==
  /\ disk[f] < MaxVersion
  /\ disk' = [disk EXCEPT ![f] = @ + 1]
  /\ session' = [s \in Server |->
       [session[s] EXCEPT !.slipped = @ \cup {g \in {f} : InWindow(s, g)}]]
  /\ UNCHANGED <<path, srv, client>>

(***************************************************************************)
(* Start: the configuration is read, then the identity is taken of what    *)
(* the disk holds by then, then the endpoint is bound.                     *)
(***************************************************************************)
LoadConfig(s) ==
  /\ srv[s].pc = "off"
  /\ srv' = [srv EXCEPT ![s] = [Off EXCEPT !.pc = "loaded", !.config = disk]]
  /\ UNCHANGED <<disk, path, session, client>>

TakeIdentity(s) ==
  /\ srv[s].pc = "loaded"
  /\ srv' = [srv EXCEPT ![s].pc = "identified", ![s].identity = disk]
  /\ UNCHANGED <<disk, path, session, client>>

\* Mutant: the refused server cleans up the endpoint it does not own.
BindCleansUp(s) ==
  /\ srv[s].pc = "identified"
  /\ path' = IF path = Nobody THEN s ELSE Nobody
  /\ srv' = [srv EXCEPT ![s].pc = IF path = Nobody THEN "serving" ELSE "refused"]
  /\ UNCHANGED <<disk, session, client>>

\* A path that exists, even the leftover of a killed process, refuses the bind.
Bind(s) ==
  /\ srv[s].pc = "identified"
  /\ IF path = Nobody
       THEN /\ path' = s
            /\ srv' = [srv EXCEPT ![s].pc = "serving",
                 ![s].raced = \E t \in Server : srv[t].pc = "closed" \/ (Serving(t) /\ srv[t].raced)]
       ELSE /\ srv' = [srv EXCEPT ![s].pc = "refused"]
            /\ UNCHANGED path
  /\ UNCHANGED <<disk, session, client>>

(* cleanup: closing the server removes its path, then unlinkSync removes   *)
(* whatever the path names by then.                                        *)
Close(s) ==
  /\ Serving(s)
  /\ srv' = [srv EXCEPT ![s].pc = "closed", ![s].step = "idle"]
  /\ path' = IF path = s THEN Nobody ELSE path
  /\ UNCHANGED <<disk, session, client>>

Unlink(s) ==
  /\ srv[s].pc = "closed"
  /\ srv' = [srv EXCEPT ![s] = Off]
  /\ session' = [session EXCEPT ![s] = NoSession]
  /\ path' = Nobody
  /\ UNCHANGED <<disk, client>>

\* Killed: no exit handler runs and the path stays.
Kill(s) ==
  /\ srv[s].pc # "off"
  /\ srv' = [srv EXCEPT ![s] = Off]
  /\ session' = [session EXCEPT ![s] = NoSession]
  /\ UNCHANGED <<disk, path, client>>

(***************************************************************************)
(* Clients.  finish() settles the promise once: whatever arrives after it  *)
(* is dropped, and a request that is not answered becomes a cold run.      *)
(***************************************************************************)
Ask(c, kind) ==
  /\ client[c].pc # "sent"
  /\ client[c].asked < MaxRequests
  /\ client' = [client EXCEPT ![c] =
       [NoRequest EXCEPT !.pc = IF path # Nobody /\ Serving(path) THEN "sent" ELSE "cold",
                         !.kind = kind, !.to = path, !.floor = disk, !.asked = client[c].asked + 1]]
  /\ UNCHANGED <<disk, path, srv, session>>

\* Mutant: the connection's events settle the request, no timer does.
GiveUpOnEvents(c) ==
  /\ client[c].pc = "sent" /\ ~Serving(client[c].to)
  /\ client' = [client EXCEPT ![c].pc = "cold"]
  /\ UNCHANGED <<disk, path, srv, session>>

\* The timer, and the 'error' and 'end' events of a dropped connection.
GiveUp(c) ==
  /\ client[c].pc = "sent"
  /\ client' = [client EXCEPT ![c].pc = "cold"]
  /\ UNCHANGED <<disk, path, srv, session>>

\* The response goes to the connection the request came on, and that may be gone.
Deliver(s, outcome, seen, slipped) ==
  LET c == srv[s].for IN
  client' = IF client[c].pc = "sent" /\ client[c].asked = srv[s].ask
              THEN [client EXCEPT ![c].pc = outcome, ![c].seen = seen, ![c].slipped = slipped]
              ELSE client

\* Watched files edited between the reading of the policy and the identity.
LatePolicy(s) == {f \in Watched : srv[s].config[f] # srv[s].identity[f]}

Finish(s) == srv' = [srv EXCEPT ![s].step = "idle", ![s].for = Nobody, ![s].ask = 0, ![s].todo = {}]
FallBack(s) == Deliver(s, "cold", Unread, {}) /\ Finish(s)

(***************************************************************************)
(* The request handler.  It runs to its end before the next one starts,    *)
(* also when the client it works for has long given up.                    *)
(***************************************************************************)
At(s, step) == Serving(s) /\ srv[s].step = step
GoTo(s, step, todo) == srv' = [srv EXCEPT ![s].step = step, ![s].todo = todo]
Work(s, f) == srv' = [srv EXCEPT ![s].todo = @ \ {f}]

Accept(s, c) ==
  /\ At(s, "idle")
  /\ client[c].pc = "sent" /\ client[c].to = s
  /\ srv' = [srv EXCEPT ![s].step = "identity", ![s].for = c,
                        ![s].ask = client[c].asked, ![s].todo = Watched]
  /\ UNCHANGED <<disk, path, session, client>>

\* residentEnvironmentIdentity, one path at a time; any difference falls back.
CheckIdentity(s) ==
  /\ At(s, "identity")
  /\ \E f \in srv[s].todo :
       IF disk[f] # srv[s].identity[f]
         THEN FallBack(s)
         ELSE Work(s, f) /\ UNCHANGED client
  /\ UNCHANGED <<disk, path, session>>

\* What the request asks for decides what follows the identity.
Dispatch(s) ==
  /\ At(s, "identity") /\ srv[s].todo = {}
  /\ LET c == srv[s].for IN
       CASE client[c].kind = "hook" ->
              /\ Deliver(s, "warm", [f \in File |-> IF f \in Watched THEN srv[s].config[f] ELSE disk[f]], LatePolicy(s))
              /\ Finish(s)
         [] client[c].kind = "doctor" ->
              /\ IF session[s].live
                   THEN GoTo(s, "verify", File)
                   ELSE GoTo(s, "before", Governed)
              /\ UNCHANGED client
         [] OTHER -> FallBack(s)
  /\ UNCHANGED <<disk, path, session>>

\* verifyResidentDoctorSession on the session kept from an earlier request.
Verify(s) ==
  /\ At(s, "verify")
  /\ \/ /\ \E f \in srv[s].todo :
             IF disk[f] # session[s].ledger[f]
               THEN /\ session' = [session EXCEPT ![s] = NoSession]
                    /\ GoTo(s, "before", Governed)
               ELSE Work(s, f) /\ UNCHANGED session
        /\ UNCHANGED client
     \/ srv[s].todo = {} /\ GoTo(s, "render", {}) /\ UNCHANGED <<session, client>>
  /\ UNCHANGED <<disk, path>>

(***************************************************************************)
(* createResidentDoctorSession: sample the governed files, analyse,        *)
(* compare with the sample, then sample again everything for the ledger.   *)
(***************************************************************************)
SampleBefore(s) ==
  /\ At(s, "before")
  /\ \/ \E f \in srv[s].todo :
          srv' = [srv EXCEPT ![s].todo = @ \ {f}, ![s].before[f] = disk[f]]
     \/ srv[s].todo = {} /\ GoTo(s, "analyse", Governed \cup Resolution)
  /\ session' = [session EXCEPT ![s] = NoSession]
  /\ UNCHANGED <<disk, path, client>>

Analyse(s) ==
  /\ At(s, "analyse")
  /\ \/ \E f \in srv[s].todo :
          /\ session' = [session EXCEPT ![s].seen[f] = disk[f]]
          /\ Work(s, f)
     \/ /\ srv[s].todo = {} /\ GoTo(s, "rematch", Governed)
        /\ session' = [session EXCEPT ![s].seen =
             [f \in File |-> IF f \in Watched THEN srv[s].config[f] ELSE @[f]]]
  /\ UNCHANGED <<disk, path, client>>

\* Mutant: the second listing is collected and not compared with the first sample.
RematchNothing(s) ==
  /\ At(s, "rematch")
  /\ GoTo(s, "ledger", File)
  /\ UNCHANGED <<disk, path, session, client>>

Rematch(s) ==
  /\ At(s, "rematch")
  /\ \/ \E f \in srv[s].todo :
          IF disk[f] # srv[s].before[f] THEN FallBack(s) ELSE Work(s, f) /\ UNCHANGED client
     \/ srv[s].todo = {} /\ GoTo(s, "ledger", File) /\ UNCHANGED client
  /\ UNCHANGED <<disk, path, session>>

SampleLedger(s) ==
  /\ At(s, "ledger")
  /\ \/ \E f \in srv[s].todo :
          /\ session' = [session EXCEPT ![s].ledger[f] = disk[f]]
          /\ Work(s, f)
     \/ srv[s].todo = {} /\ GoTo(s, "selfmatch", File) /\ UNCHANGED session
  /\ UNCHANGED <<disk, path, client>>

\* The match in the constructor and the one after the refresh are the same scan.
SelfMatch(s) ==
  /\ At(s, "selfmatch")
  /\ \/ \E f \in srv[s].todo :
          IF disk[f] # session[s].ledger[f]
            THEN FallBack(s) /\ UNCHANGED session
            ELSE Work(s, f) /\ UNCHANGED <<session, client>>
     \/ /\ srv[s].todo = {} /\ GoTo(s, "render", {})
        /\ session' = [session EXCEPT ![s].live = TRUE]
        /\ UNCHANGED client
  /\ UNCHANGED <<disk, path>>

Render(s) ==
  /\ At(s, "render")
  /\ GoTo(s, "postverify", File)
  /\ UNCHANGED <<disk, path, session, client>>

PostVerify(s) ==
  /\ At(s, "postverify")
  /\ \/ \E f \in srv[s].todo :
          IF disk[f] # session[s].ledger[f]
            THEN FallBack(s) /\ session' = [session EXCEPT ![s] = NoSession]
            ELSE Work(s, f) /\ UNCHANGED <<session, client>>
     \/ /\ srv[s].todo = {}
        /\ Deliver(s, "warm", session[s].seen, session[s].slipped \cup LatePolicy(s)) /\ Finish(s)
        /\ UNCHANGED session
  /\ UNCHANGED <<disk, path>>

Handle(s) ==
  \/ CheckIdentity(s) \/ Dispatch(s) \/ Verify(s) \/ SampleBefore(s) \/ Analyse(s) \/ Rematch(s)
  \/ SampleLedger(s) \/ SelfMatch(s) \/ Render(s) \/ PostVerify(s)
  \/ \E c \in Client : Accept(s, c)

Lifecycle(s) ==
  LoadConfig(s) \/ TakeIdentity(s) \/ Bind(s) \/ Close(s) \/ Unlink(s) \/ Kill(s)

Kinds == {"hook", "doctor", "other"}   \* other: another root, config or protocol

Next ==
  \/ \E f \in File : Edit(f)
  \/ \E s \in Server : Lifecycle(s) \/ Handle(s)
  \/ \E c \in Client : GiveUp(c) \/ \E kind \in Kinds : Ask(c, kind)

\* Only the client's own timer is sure to run: it needs no help of the server.
Fairness == \A c \in Client : WF_vars(GiveUp(c))
Spec == Init /\ [][Next]_vars /\ Fairness
=============================================================================
