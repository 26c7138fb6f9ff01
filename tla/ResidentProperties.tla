------------------------- MODULE ResidentProperties -------------------------
(* What a resident answer may be relied on for. *)
EXTENDS ResidentControl

Versions == [File -> 0..MaxVersion]
Process == [pc : {"off", "loaded", "identified", "serving", "refused", "closed"},
            config : Versions, identity : Versions, raced : BOOLEAN,
            step : {"idle", "identity", "verify", "before", "analyse", "rematch",
                    "ledger", "selfmatch", "render", "postverify"},
            for : Client \cup {Nobody}, ask : 0..MaxRequests,
            todo : SUBSET File, before : Versions]
Session == [live : BOOLEAN, seen : Versions, ledger : Versions, slipped : SUBSET File]
Request == [pc : {"idle", "sent", "warm", "cold"}, kind : Kinds,
            to : Server \cup {Nobody}, floor : Versions, seen : Versions,
            slipped : SUBSET File, asked : 0..MaxRequests]

\* The variables keep their shape (type invariant).
TypeOK ==
  /\ disk \in Versions
  /\ path \in Server \cup {Nobody}
  /\ srv \in [Server -> Process]
  /\ session \in [Server -> Session]
  /\ client \in [Client -> Request]

\* A warm answer reflects no version of a file that was already replaced when the
\* request was made, except of a file edited in one of the two unguarded windows:
\* between readArkConfig and the initial identity, and between the confirmation
\* of the facts and the second sampling of the ledger (ark-mcp-runtime.mjs:1033).
FreshUnlessSlipped ==
  \A c \in Client : client[c].pc = "warm" =>
    \A f \in File \ client[c].slipped : client[c].seen[f] >= client[c].floor[f]

\* docs/ai-gates.md:103 of the hook: "stale inputs fall back one-shot".
StaleInputsFallBack ==
  \A c \in Client : client[c].pc = "warm" =>
    \A f \in Watched : client[c].seen[f] >= client[c].floor[f]

\* A server that listens owns the endpoint's path, unless it bound it while an
\* exiting one was between closing its socket and unlinking the path
\* (resident-hook.mjs:240): a refused server must not take the path with it.
ListenerIsReachable ==
  \A s \in Server : Serving(s) => path = s \/ srv[s].raced

\* Two servers never answer on one endpoint, except after that same race.
OneListener ==
  \A s, t \in Server : Serving(s) /\ Serving(t) /\ s # t => srv[s].raced \/ srv[t].raced

\* A warm answer reflects nothing that was replaced before the request, save
\* in the two unguarded windows (ark-mcp-runtime.mjs:1033, 1097).
WarmIsFresh == TypeOK /\ FreshUnlessSlipped

\* Whoever listens is reachable, and alone (resident-hook.mjs:240).
ListenerSound == ListenerIsReachable /\ OneListener
=============================================================================
