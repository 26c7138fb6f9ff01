---------------------------- MODULE ResidentProofs ----------------------------
(***************************************************************************)
(* Proofs about the resident pilot, for any number of servers, clients,    *)
(* files, edits and requests: a warm answer is fresh but for the two       *)
(* unguarded windows, and a listener is reachable and alone but for the    *)
(* one race.                                                               *)
(*                                                                         *)
(* Freshness is an argument in three parts: on the way into a session a    *)
(* governed file is sampled, analysed and compared, so that what was       *)
(* analysed is what was compared; the ledger then holds what the facts     *)
(* hold; and each answer compares the disk with the ledger and with the    *)
(* identity after the client has asked.                                    *)
(***************************************************************************)
EXTENDS ResidentProperties, TLAPS

(***************************************************************************)
(* The invariant, on the values of one server: the process r, its session  *)
(* e, the disk d, and the requests of the clients k.                       *)
(***************************************************************************)

\* What of f the session's facts hold is what the ledger holds of it, but for
\* the windows; of a watched file they hold the policy the process has loaded.
InStep(r, e, f) ==
  IF f \in Watched THEN e.seen[f] = r.config[f]
                   ELSE e.seen[f] = e.ledger[f] \/ f \in e.slipped

\* What of f the facts hold is what the disk holds, but for the windows.
Current(e, d, f) == e.seen[f] = d[f] \/ f \in e.slipped

\* A governed file on its way into a session.
GovernedOK(r, e, d, f) ==
  /\ r.step = "before" => f \in r.todo \/ r.before[f] <= d[f]
  /\ r.step = "analyse" => r.before[f] <= d[f]
  /\ r.step = "analyse" => f \in r.todo \/ (r.before[f] <= e.seen[f] /\ e.seen[f] <= d[f])
  /\ r.step = "rematch" => r.before[f] <= e.seen[f] /\ e.seen[f] <= d[f]
  /\ r.step = "rematch" => f \in r.todo \/ Current(e, d, f)

ResolutionOK(r, e, d, f) ==
  /\ r.step = "analyse" => f \in r.todo \/ Current(e, d, f)
  /\ r.step = "rematch" => Current(e, d, f)

\* The second sampling, for the ledger.
LedgerOK(r, e, d, f) ==
  r.step = "ledger" => IF f \in r.todo THEN Current(e, d, f) ELSE InStep(r, e, f)

SessionOK(r, e, d) ==
  /\ r.pc = "off" => ~e.live
  /\ r.step \in {"analyse", "rematch", "ledger", "selfmatch"} => ~e.live
  /\ r.step \in {"verify", "render", "postverify"} => e.live
  /\ e.live \/ r.step = "selfmatch" => \A f \in File : InStep(r, e, f)
  /\ r.step \in {"rematch", "ledger"} => \A f \in Watched : InStep(r, e, f)
  /\ \A f \in Governed : GovernedOK(r, e, d, f)
  /\ \A f \in Resolution : ResolutionOK(r, e, d, f)
  /\ \A f \in Governed \cup Resolution : LedgerOK(r, e, d, f)

\* What was compared since the request was accepted has not been replaced
\* before the client asked.
ComparedOK(r, e, floor) ==
  /\ \A f \in Watched : (r.step = "identity" /\ f \in r.todo) \/ floor[f] <= r.identity[f]
  /\ r.step = "postverify" => \A f \in File : f \in r.todo \/ floor[f] <= e.ledger[f]

\* The client a handler works for may have given up and asked again.
Waits(r, q) == q.pc = "sent" /\ q.asked = r.ask

HandlerOK(r, e, k) ==
  r.step # "idle" =>
    /\ r.pc = "serving" /\ r.for \in Client
    /\ r.ask <= k[r.for].asked
    /\ Waits(r, k[r.for]) => ComparedOK(r, e, k[r.for].floor)

FloorOK(d, k) == \A c \in Client : \A f \in File : k[c].floor[f] <= d[f]

\* Nobody is about to unlink the path of a server that did not race.
EndpointOK ==
  \A s \in Server : Serving(s) /\ ~srv[s].raced =>
    /\ path = s
    /\ \A t \in Server : srv[t].pc # "closed" /\ (Serving(t) => t = s)

Inv ==
  /\ TypeOK
  /\ EndpointOK
  /\ FloorOK(disk, client)
  /\ FreshUnlessSlipped
  /\ \A s \in Server : SessionOK(srv[s], session[s], disk) /\ HandlerOK(srv[s], session[s], client)

-----------------------------------------------------------------------------
(* How a server moves.                                                     *)

Steps == {"idle", "identity", "verify", "before", "analyse", "rematch",
          "ledger", "selfmatch", "render", "postverify"}

\* Server s moves to process r, which is at step p with files T to do.
Moved(s, r, p, T) ==
  /\ r \in Process
  /\ srv' = [srv EXCEPT ![s] = r]
  /\ r.pc = srv[s].pc /\ r.raced = srv[s].raced
  /\ r.config = srv[s].config /\ r.identity = srv[s].identity
  /\ r.for = srv[s].for /\ r.ask = srv[s].ask /\ r.before = srv[s].before
  /\ r.step = p /\ r.todo = T

\* Server s is done with a request.
Finished(s, r) ==
  /\ r \in Process
  /\ srv' = [srv EXCEPT ![s] = r]
  /\ r.pc = srv[s].pc /\ r.raced = srv[s].raced
  /\ r.config = srv[s].config /\ r.identity = srv[s].identity
  /\ r.step = "idle"

LEMMA GoToMoves ==
  ASSUME TypeOK, NEW s \in Server, NEW p \in Steps, NEW T \in SUBSET File, GoTo(s, p, T)
  PROVE  \E r : Moved(s, r, p, T)
<1> DEFINE r == [srv[s] EXCEPT !.step = p, !.todo = T]
<1>1. srv[s] \in Process /\ DOMAIN srv = Server
  BY DEF TypeOK
<1>2. r \in Process
  BY <1>1 DEF Process, Steps
<1>3. srv' = [srv EXCEPT ![s] = r]
  BY <1>1 DEF GoTo, Process
<1>4. Moved(s, r, p, T)
  BY <1>1, <1>2, <1>3 DEF Moved, Process
<1>5. QED
  BY <1>4

LEMMA WorkMoves ==
  ASSUME TypeOK, NEW s \in Server, NEW f, Work(s, f)
  PROVE  \E r : Moved(s, r, srv[s].step, srv[s].todo \ {f})
<1> DEFINE r == [srv[s] EXCEPT !.todo = @ \ {f}]
<1>1. srv[s] \in Process /\ DOMAIN srv = Server
  BY DEF TypeOK
<1>2. r \in Process
  BY <1>1 DEF Process
<1>3. srv' = [srv EXCEPT ![s] = r]
  BY <1>1 DEF Work, Process
<1>4. Moved(s, r, srv[s].step, srv[s].todo \ {f})
  BY <1>1, <1>2, <1>3 DEF Moved, Process
<1>5. QED
  BY <1>4

LEMMA FinishMoves ==
  ASSUME TypeOK, NEW s \in Server, Finish(s)
  PROVE  \E r : Finished(s, r)
<1> DEFINE r == [srv[s] EXCEPT !.step = "idle", !.for = Nobody, !.ask = 0, !.todo = {}]
<1>1. srv[s] \in Process /\ DOMAIN srv = Server
  BY DEF TypeOK
<1>2. r \in Process
  <2>1. 0 \in 0..MaxRequests
    BY FileKindsAssumption
  <2>2. QED
    BY <1>1, <2>1 DEF Process
<1>3. srv' = [srv EXCEPT ![s] = r]
  BY <1>1 DEF Finish, Process
<1>4. Finished(s, r)
  BY <1>1, <1>2, <1>3 DEF Finished, Process
<1>5. QED
  BY <1>4

LEMMA Idles ==
  NoSession \in Session /\ Unread \in Versions /\ Off \in Process /\ NoRequest \in Request
<1>1. 0 \in 0..MaxVersion /\ 0 \in 0..MaxRequests
  BY FileKindsAssumption
<1>2. Unread \in Versions
  BY <1>1 DEF Unread, Versions
<1>3. QED
  BY <1>1, <1>2 DEF NoSession, Session, Off, Process, NoRequest, Request, Kinds

LEMMA FileParts ==
  /\ \A f \in Watched : f \in File /\ f \notin Governed /\ f \notin Resolution
  /\ \A f \in Governed : f \in File /\ f \notin Watched /\ f \notin Resolution
  /\ \A f \in Resolution : f \in File /\ f \notin Watched /\ f \notin Governed
  /\ \A f \in File : f \in Watched \/ f \in Governed \/ f \in Resolution
BY FileKindsAssumption DEF File

-----------------------------------------------------------------------------
(* What the steps of one server leave alone.                               *)

\* Requests are answered or given up, and otherwise stay what they are.
Settling(k, l) ==
  /\ l \in [Client -> Request]
  /\ \A c \in Client :
       /\ l[c].asked = k[c].asked /\ l[c].floor = k[c].floor
       /\ l[c].pc = "sent" => k[c].pc = "sent"

LEMMA SettlingKeepsHandlers ==
  ASSUME NEW r, NEW e, NEW k, NEW l, HandlerOK(r, e, k), Settling(k, l)
  PROVE  HandlerOK(r, e, l)
BY DEF HandlerOK, Settling, Waits

LEMMA ServerMoves ==
  ASSUME Inv, NEW s \in Server, NEW r \in Process, NEW e \in Session,
         srv' = [srv EXCEPT ![s] = r], session' = [session EXCEPT ![s] = e],
         disk' = disk, path' \in Server \cup {Nobody}, Settling(client, client'),
         EndpointOK', FreshUnlessSlipped',
         SessionOK(r, e, disk), HandlerOK(r, e, client')
  PROVE  Inv'
<1>1. TypeOK /\ FloorOK(disk, client)
  BY DEF Inv
<1>2. TypeOK'
  BY <1>1 DEF TypeOK, Settling
<1>3. FloorOK(disk', client')
  BY <1>1 DEF FloorOK, Settling
<1>4. /\ srv'[s] = r /\ session'[s] = e
      /\ \A t \in Server \ {s} : srv'[t] = srv[t] /\ session'[t] = session[t]
  BY <1>1 DEF TypeOK
<1>5. ASSUME NEW t \in Server
      PROVE  SessionOK(srv'[t], session'[t], disk') /\ HandlerOK(srv'[t], session'[t], client')
  <2>1. CASE t = s
    BY <2>1, <1>4
  <2>2. CASE t # s
    <3>1. SessionOK(srv[t], session[t], disk) /\ HandlerOK(srv[t], session[t], client)
      BY DEF Inv
    <3>2. HandlerOK(srv[t], session[t], client')
      BY <3>1, SettlingKeepsHandlers
    <3>3. QED
      BY <2>2, <1>4, <3>1, <3>2
  <2>3. QED
    BY <2>1, <2>2
<1>6. QED
  BY <1>2, <1>3, <1>5 DEF Inv

LEMMA StaySettles ==
  ASSUME TypeOK, client' = client
  PROVE  Settling(client, client')
BY DEF TypeOK, Settling

\* A handler leaves the endpoint as it is.
LEMMA HandlerMoves ==
  ASSUME Inv, NEW s \in Server, NEW r \in Process, NEW e \in Session,
         srv' = [srv EXCEPT ![s] = r], r.pc = srv[s].pc, r.raced = srv[s].raced,
         session' = [session EXCEPT ![s] = e],
         UNCHANGED <<disk, path>>, Settling(client, client'), FreshUnlessSlipped',
         SessionOK(r, e, disk), HandlerOK(r, e, client')
  PROVE  Inv'
<1>1. TypeOK /\ EndpointOK
  BY DEF Inv
<1>2. \A t \in Server : srv'[t].pc = srv[t].pc /\ srv'[t].raced = srv[t].raced
  BY <1>1 DEF TypeOK
<1>3. EndpointOK'
  BY <1>1, <1>2 DEF EndpointOK, Serving
<1>4. path' \in Server \cup {Nobody}
  BY <1>1 DEF TypeOK
<1>5. QED
  BY <1>3, <1>4, ServerMoves

\* A step within a request.
LEMMA MovesOn ==
  ASSUME Inv, NEW s \in Server, NEW r, NEW e \in Session, NEW p, NEW T,
         Serving(s), srv[s].step # "idle", Moved(s, r, p, T), p # "idle",
         session' = [session EXCEPT ![s] = e], UNCHANGED <<disk, path, client>>,
         SessionOK(r, e, disk),
         \A c \in Client : c = srv[s].for /\ Waits(srv[s], client[c])
           => ComparedOK(r, e, client[c].floor)
  PROVE  Inv'
<1>1. TypeOK /\ FreshUnlessSlipped /\ HandlerOK(srv[s], session[s], client)
  BY DEF Inv
<1>2. HandlerOK(r, e, client)
  BY <1>1 DEF HandlerOK, Moved, Waits, Serving
<1>3. FreshUnlessSlipped'
  BY <1>1 DEF FreshUnlessSlipped
<1>4. Settling(client, client')
  BY <1>1, StaySettles
<1>5. QED
  BY <1>2, <1>3, <1>4, HandlerMoves DEF Moved

\* What is delivered reaches a client that still waits for it.
LEMMA DeliverSettles ==
  ASSUME Inv, NEW s \in Server, srv[s].for \in Client,
         NEW outcome \in {"warm", "cold"}, NEW seen \in Versions, NEW slipped \in SUBSET File,
         Deliver(s, outcome, seen, slipped),
         \A c \in Client : outcome = "warm" /\ c = srv[s].for /\ Waits(srv[s], client[c])
           => \A f \in File \ slipped : client[c].floor[f] <= seen[f]
  PROVE  Settling(client, client') /\ FreshUnlessSlipped'
<1>1. TypeOK /\ FreshUnlessSlipped
  BY DEF Inv
<1>2. PICK c \in Client : c = srv[s].for
  OBVIOUS
<1>3. CASE ~Waits(srv[s], client[c])
  <2>1. client' = client
    BY <1>2, <1>3 DEF Deliver, Waits
  <2>2. QED
    BY <2>1, <1>1, StaySettles DEF FreshUnlessSlipped
<1>4. CASE Waits(srv[s], client[c])
  <2> DEFINE q == [client[c] EXCEPT !.pc = outcome, !.seen = seen, !.slipped = slipped]
  <2>1. client[c] \in Request /\ client \in [Client -> Request]
    BY <1>1 DEF TypeOK
  <2>2. client' = [client EXCEPT ![c] = q]
    BY <1>2, <1>4, <2>1 DEF Deliver, Waits, Request
  <2>3. /\ q \in Request /\ q.pc = outcome /\ q.seen = seen /\ q.slipped = slipped
        /\ q.asked = client[c].asked /\ q.floor = client[c].floor
    BY <2>1 DEF Request
  <2> HIDE DEF q
  <2>4. Settling(client, client')
    BY <2>1, <2>2, <2>3 DEF Settling
  <2>5. ASSUME NEW b \in Client, client'[b].pc = "warm", NEW f \in File \ client'[b].slipped
        PROVE  client'[b].seen[f] >= client'[b].floor[f]
    <3>1. CASE b = c
      <4>1. outcome = "warm" /\ f \in File \ slipped
        BY <3>1, <2>1, <2>2, <2>3, <2>5
      <4>2. client[c].floor[f] <= seen[f]
        BY <4>1, <1>2, <1>4
      <4>3. seen[f] \in Nat /\ client[c].floor[f] \in Nat
        BY <2>1, FileKindsAssumption DEF Request, Versions
      <4>4. QED
        BY <4>2, <4>3, <3>1, <2>1, <2>2, <2>3
    <3>2. CASE b # c
      BY <3>2, <2>1, <2>2, <2>5, <1>1 DEF FreshUnlessSlipped
    <3>3. QED
      BY <3>1, <3>2
  <2>6. FreshUnlessSlipped'
    BY <2>5 DEF FreshUnlessSlipped
  <2>7. QED
    BY <2>4, <2>6
<1>5. QED
  BY <1>3, <1>4

LEMMA IdleSession ==
  ASSUME NEW r, NEW q, NEW e, NEW d, SessionOK(r, e, d), r.pc # "off",
         q.pc = r.pc, q.config = r.config, q.step = "idle"
  PROVE  SessionOK(q, e, d) /\ SessionOK(q, NoSession, d)
BY DEF SessionOK, InStep, GovernedOK, ResolutionOK, LedgerOK, NoSession

\* The end of a request.
LEMMA FinishKeeps ==
  ASSUME Inv, NEW s \in Server, Serving(s), srv[s].step # "idle",
         NEW outcome \in {"warm", "cold"}, NEW seen \in Versions, NEW slipped \in SUBSET File,
         Deliver(s, outcome, seen, slipped), Finish(s),
         \A c \in Client : outcome = "warm" /\ c = srv[s].for /\ Waits(srv[s], client[c])
           => \A f \in File \ slipped : client[c].floor[f] <= seen[f],
         UNCHANGED <<disk, path>>,
         session' = session \/ session' = [session EXCEPT ![s] = NoSession]
  PROVE  Inv'
<1>1. TypeOK /\ SessionOK(srv[s], session[s], disk) /\ HandlerOK(srv[s], session[s], client)
  BY DEF Inv
<1>2. srv[s].for \in Client
  BY <1>1 DEF HandlerOK
<1>3. Settling(client, client') /\ FreshUnlessSlipped'
  BY <1>2, DeliverSettles
<1>4. PICK r : Finished(s, r)
  BY <1>1, FinishMoves
<1>5. SessionOK(r, session[s], disk) /\ SessionOK(r, NoSession, disk)
  BY <1>1, <1>4, IdleSession DEF Finished, Serving
<1>6. ASSUME NEW e PROVE HandlerOK(r, e, client')
  BY <1>4 DEF HandlerOK, Finished
<1>7. session[s] \in Session /\ NoSession \in Session
  BY <1>1, Idles DEF TypeOK
<1>8. CASE session' = session
  <2>1. session' = [session EXCEPT ![s] = session[s]]
    BY <1>1, <1>8 DEF TypeOK
  <2>2. QED
    BY <2>1, <1>3, <1>4, <1>5, <1>6, <1>7, HandlerMoves DEF Finished
<1>9. CASE session' = [session EXCEPT ![s] = NoSession]
  BY <1>9, <1>3, <1>4, <1>5, <1>6, <1>7, HandlerMoves DEF Finished
<1>10. QED
  BY <1>8, <1>9

LEMMA FallBackKeeps ==
  ASSUME Inv, NEW s \in Server, Serving(s), srv[s].step # "idle", FallBack(s),
         UNCHANGED <<disk, path>>,
         session' = session \/ session' = [session EXCEPT ![s] = NoSession]
  PROVE  Inv'
<1>1. Unread \in Versions
  BY Idles
<1>2. Deliver(s, "cold", Unread, {}) /\ Finish(s)
  BY DEF FallBack
<1>3. QED
  BY <1>1, <1>2, FinishKeeps

-----------------------------------------------------------------------------
(* The handler, one lemma for each step.                                   *)

\* What a handler that is at work may take for granted.
LEMMA Working ==
  ASSUME Inv, NEW s \in Server, Serving(s), srv[s].step # "idle"
  PROVE  /\ TypeOK
         /\ srv[s] \in Process /\ session[s] \in Session /\ disk \in Versions
         /\ session' = session => session' = [session EXCEPT ![s] = session[s]]
         /\ SessionOK(srv[s], session[s], disk)
         /\ srv[s].for \in Client
         /\ client[srv[s].for] \in Request
         /\ \A c \in Client : c = srv[s].for /\ Waits(srv[s], client[c])
              => /\ ComparedOK(srv[s], session[s], client[c].floor)
                 /\ \A f \in File : client[c].floor[f] <= disk[f]
BY DEF Inv, TypeOK, HandlerOK, FloorOK

LEMMA Numbers ==
  ASSUME NEW v \in Versions, NEW f \in File
  PROVE  v[f] \in Nat
BY FileKindsAssumption DEF Versions

LEMMA AcceptKeeps ==
  ASSUME Inv, NEW s \in Server, NEW c \in Client, Accept(s, c)
  PROVE  Inv'
<1>1. TypeOK /\ FreshUnlessSlipped /\ SessionOK(srv[s], session[s], disk)
  BY DEF Inv
<1>2. srv[s] \in Process /\ session[s] \in Session /\ client[c] \in Request
  BY <1>1 DEF TypeOK
<1> DEFINE r == [srv[s] EXCEPT !.step = "identity", !.for = c,
                              !.ask = client[c].asked, !.todo = Watched]
<1>3. /\ r \in Process /\ r.pc = "serving" /\ r.raced = srv[s].raced /\ r.config = srv[s].config
      /\ r.step = "identity" /\ r.for = c /\ r.ask = client[c].asked /\ r.todo = Watched
      /\ srv[s].pc = "serving" /\ srv[s].step = "idle"
  BY <1>2 DEF Process, Request, File, Accept, At, Serving
<1>4. srv' = [srv EXCEPT ![s] = r]
  BY <1>1 DEF Accept, TypeOK, Process
<1> HIDE DEF r
<1>5. SessionOK(r, session[s], disk)
  BY <1>1, <1>3 DEF SessionOK, InStep, GovernedOK, ResolutionOK, LedgerOK
<1>6. HandlerOK(r, session[s], client)
  <2>1. r.ask <= client[c].asked
    BY <1>2, <1>3, FileKindsAssumption DEF Request
  <2>2. ComparedOK(r, session[s], client[c].floor)
    BY <1>3 DEF ComparedOK
  <2>3. QED
    BY <1>3, <2>1, <2>2 DEF HandlerOK
<1>7. session' = [session EXCEPT ![s] = session[s]] /\ client' = client /\ UNCHANGED <<disk, path>>
  BY <1>1 DEF Accept, TypeOK
<1>8. Settling(client, client') /\ FreshUnlessSlipped'
  BY <1>1, <1>7, StaySettles DEF FreshUnlessSlipped
<1>9. QED
  BY <1>2, <1>3, <1>4, <1>5, <1>6, <1>7, <1>8, HandlerMoves

LEMMA CheckIdentityKeeps ==
  ASSUME Inv, NEW s \in Server, CheckIdentity(s)
  PROVE  Inv'
<1>1. Serving(s) /\ srv[s].step = "identity" /\ UNCHANGED <<disk, path, session>>
  BY DEF CheckIdentity, At
<1>2. PICK f \in srv[s].todo :
        IF disk[f] # srv[s].identity[f] THEN FallBack(s) ELSE Work(s, f) /\ UNCHANGED client
  BY DEF CheckIdentity
<1>3. CASE disk[f] # srv[s].identity[f]
  BY <1>1, <1>2, <1>3, FallBackKeeps
<1>4. CASE disk[f] = srv[s].identity[f]
  <2>1. PICK r : Moved(s, r, "identity", srv[s].todo \ {f})
    BY <1>1, <1>2, <1>4, WorkMoves DEF Inv
  <2>2. SessionOK(r, session[s], disk)
    BY <1>1, <2>1, Working DEF Moved, SessionOK, InStep, GovernedOK, ResolutionOK, LedgerOK
  <2>3. ASSUME NEW c \in Client, c = srv[s].for, Waits(srv[s], client[c])
        PROVE  ComparedOK(r, session[s], client[c].floor)
    <3>1. /\ ComparedOK(srv[s], session[s], client[c].floor)
          /\ \A g \in File : client[c].floor[g] <= disk[g]
      BY <1>1, <2>3, Working
    <3>2. \A g \in Watched : g \in File
      BY FileParts
    <3>3. QED
      BY <1>1, <1>4, <2>1, <3>1, <3>2 DEF ComparedOK, Moved
  <2>4. session[s] \in Session /\ session' = [session EXCEPT ![s] = session[s]]
    BY <1>1, Working
  <2>5. QED
    BY <1>1, <1>2, <1>4, <2>1, <2>2, <2>3, <2>4, MovesOn
<1>5. QED
  BY <1>3, <1>4

\* What the policy holds of a watched file is its identity, but for a late edit.
LEMMA PolicyIsFresh ==
  ASSUME Inv, NEW s \in Server, Serving(s), srv[s].step # "idle",
         srv[s].step = "identity" => srv[s].todo = {},
         NEW c \in Client, c = srv[s].for, Waits(srv[s], client[c]),
         NEW f \in Watched, f \notin LatePolicy(s)
  PROVE  client[c].floor[f] <= srv[s].config[f]
<1>1. ComparedOK(srv[s], session[s], client[c].floor)
  BY Working
<1>2. QED
  BY <1>1 DEF ComparedOK, LatePolicy

LEMMA LateIsFile ==
  ASSUME NEW s \in Server
  PROVE  LatePolicy(s) \in SUBSET File
BY DEF LatePolicy, File

LEMMA DispatchKeeps ==
  ASSUME Inv, NEW s \in Server, Dispatch(s)
  PROVE  Inv'
<1>1. Serving(s) /\ srv[s].step = "identity" /\ srv[s].todo = {} /\ UNCHANGED <<disk, path, session>>
  BY DEF Dispatch, At
<1>2. PICK c \in Client : c = srv[s].for
  BY <1>1, Working
<1>3. client[c].kind \in {"hook", "doctor", "other"}
  BY <1>1, <1>2, Working DEF Request, Kinds
<1>4. CASE client[c].kind = "hook"
  <2> DEFINE seen == [f \in File |-> IF f \in Watched THEN srv[s].config[f] ELSE disk[f]]
  <2>1. Deliver(s, "warm", seen, LatePolicy(s)) /\ Finish(s)
    BY <1>2, <1>4 DEF Dispatch
  <2>2. seen \in Versions /\ LatePolicy(s) \in SUBSET File
    BY <1>1, Working, LateIsFile DEF Versions, Process
  <2>3. ASSUME NEW b \in Client, b = srv[s].for, Waits(srv[s], client[b]),
               NEW f \in File \ LatePolicy(s)
        PROVE  client[b].floor[f] <= seen[f]
    BY <1>1, <2>3, Working, PolicyIsFresh
  <2> HIDE DEF seen
  <2>4. QED
    BY <1>1, <2>1, <2>2, <2>3, FinishKeeps
<1>5. CASE client[c].kind = "doctor"
  <2> DEFINE p == IF session[s].live THEN "verify" ELSE "before"
             T == IF session[s].live THEN File ELSE Governed
  <2>1. GoTo(s, p, T) /\ client' = client
    BY <1>2, <1>5 DEF Dispatch
  <2>2. p \in Steps /\ p # "idle" /\ T \in SUBSET File
    BY DEF Steps, File
  <2>3. PICK r : Moved(s, r, p, T)
    BY <1>1, <2>1, <2>2, Working, GoToMoves
  <2>4. SessionOK(r, session[s], disk)
    <3>1. SessionOK(srv[s], session[s], disk)
      BY <1>1, Working
    <3>2. QED
      BY <1>1, <2>3, <3>1 DEF Moved, SessionOK, InStep, GovernedOK, ResolutionOK, LedgerOK
  <2>5. ASSUME NEW b \in Client, b = srv[s].for, Waits(srv[s], client[b])
        PROVE  ComparedOK(r, session[s], client[b].floor)
    <3>1. ComparedOK(srv[s], session[s], client[b].floor)
      BY <1>1, <2>5, Working
    <3>2. QED
      BY <1>1, <2>3, <3>1 DEF ComparedOK, Moved
  <2>6. session[s] \in Session /\ session' = [session EXCEPT ![s] = session[s]]
    BY <1>1, Working
  <2> HIDE DEF p, T
  <2>7. QED
    BY <1>1, <2>1, <2>2, <2>3, <2>4, <2>5, <2>6, MovesOn
<1>6. CASE client[c].kind = "other"
  <2>1. FallBack(s)
    BY <1>2, <1>6 DEF Dispatch
  <2>2. QED
    BY <1>1, <2>1, FallBackKeeps
<1>7. QED
  BY <1>3, <1>4, <1>5, <1>6

\* Steps that compare nothing keep what was compared.
LEMMA KeepsCompared ==
  ASSUME Inv, NEW s \in Server, Serving(s), srv[s].step # "idle", srv[s].step # "identity",
         NEW r, NEW e, NEW p, NEW T, Moved(s, r, p, T),
         p # "identity", p = "postverify" => T = File
  PROVE  \A c \in Client : c = srv[s].for /\ Waits(srv[s], client[c])
           => ComparedOK(r, e, client[c].floor)
<1>1. ASSUME NEW c \in Client, c = srv[s].for, Waits(srv[s], client[c])
      PROVE  ComparedOK(r, e, client[c].floor)
  <2>1. ComparedOK(srv[s], session[s], client[c].floor)
    BY <1>1, Working
  <2>2. QED
    BY <2>1 DEF ComparedOK, Moved
<1>2. QED
  BY <1>1

\* A step that compares nothing, with what is left to show of it.
LEMMA StepKeeps ==
  ASSUME Inv, NEW s \in Server, Serving(s), srv[s].step # "idle", srv[s].step # "identity",
         NEW r, NEW e \in Session, NEW p, NEW T, Moved(s, r, p, T),
         p \notin {"idle", "identity"}, p = "postverify" => T = File,
         session' = [session EXCEPT ![s] = e], UNCHANGED <<disk, path, client>>,
         SessionOK(r, e, disk)
  PROVE  Inv'
BY KeepsCompared, MovesOn

LEMMA BeforeIsFree ==
  ASSUME NEW r, NEW d, r.step = "before", r.todo = Governed
  PROVE  SessionOK(r, NoSession, d)
BY DEF SessionOK, InStep, GovernedOK, ResolutionOK, LedgerOK, NoSession

LEMMA VerifyKeeps ==
  ASSUME Inv, NEW s \in Server, Verify(s)
  PROVE  Inv'
<1>1. Serving(s) /\ srv[s].step = "verify" /\ UNCHANGED <<disk, path, client>>
  BY DEF Verify, At
<1>2. TypeOK /\ SessionOK(srv[s], session[s], disk) /\ session[s] \in Session /\ NoSession \in Session
  BY <1>1, Working, Idles
<1>3. CASE session' = [session EXCEPT ![s] = NoSession] /\ GoTo(s, "before", Governed)
  <2>1. PICK r : Moved(s, r, "before", Governed)
    BY <1>2, <1>3, GoToMoves DEF Steps, File
  <2>2. SessionOK(r, NoSession, disk)
    BY <2>1, BeforeIsFree DEF Moved
  <2>3. QED
    BY <1>1, <1>2, <1>3, <2>1, <2>2, StepKeeps
<1>4. CASE UNCHANGED session /\ \E f \in srv[s].todo : Work(s, f)
  <2>1. PICK f \in srv[s].todo : Work(s, f)
    BY <1>4
  <2>2. PICK r : Moved(s, r, "verify", srv[s].todo \ {f})
    BY <1>1, <1>2, <2>1, WorkMoves
  <2>3. SessionOK(r, session[s], disk)
    BY <1>1, <1>2, <2>2 DEF Moved, SessionOK, InStep, GovernedOK, ResolutionOK, LedgerOK
  <2>4. session' = [session EXCEPT ![s] = session[s]]
    BY <1>1, <1>4, Working
  <2>5. QED
    BY <1>1, <1>2, <2>2, <2>3, <2>4, StepKeeps
<1>5. CASE UNCHANGED session /\ GoTo(s, "render", {})
  <2>1. PICK r : Moved(s, r, "render", {})
    BY <1>2, <1>5, GoToMoves DEF Steps
  <2>2. SessionOK(r, session[s], disk)
    BY <1>1, <1>2, <2>1 DEF Moved, SessionOK, InStep, GovernedOK, ResolutionOK, LedgerOK
  <2>3. session' = [session EXCEPT ![s] = session[s]]
    BY <1>1, <1>5, Working
  <2>4. QED
    BY <1>1, <1>2, <2>1, <2>2, <2>3, StepKeeps
<1>6. QED
  BY <1>3, <1>4, <1>5 DEF Verify

LEMMA SampleBeforeKeeps ==
  ASSUME Inv, NEW s \in Server, SampleBefore(s)
  PROVE  Inv'
<1>1. /\ Serving(s) /\ srv[s].step = "before" /\ UNCHANGED <<disk, path, client>>
      /\ session' = [session EXCEPT ![s] = NoSession]
  BY DEF SampleBefore, At
<1>2. TypeOK /\ SessionOK(srv[s], session[s], disk) /\ srv[s] \in Process /\ NoSession \in Session
  BY <1>1, Working, Idles
<1>3. CASE \E f \in srv[s].todo :
             srv' = [srv EXCEPT ![s].todo = @ \ {f}, ![s].before[f] = disk[f]]
  <2>1. PICK f \in srv[s].todo :
               srv' = [srv EXCEPT ![s].todo = @ \ {f}, ![s].before[f] = disk[f]]
    BY <1>3
  <2> DEFINE r == [srv[s] EXCEPT !.todo = @ \ {f}, !.before[f] = disk[f]]
  <2>2. f \in File /\ disk \in Versions
    BY <1>1, <1>2, Working DEF Process
  <2>3. srv' = [srv EXCEPT ![s] = r]
    BY <1>2, <2>1 DEF TypeOK, Process
  <2>4. r.before = [srv[s].before EXCEPT ![f] = disk[f]] /\ r.before \in Versions
    BY <1>2, <2>2 DEF Process, Versions
  <2>5. /\ r \in Process /\ r.pc = srv[s].pc /\ r.raced = srv[s].raced /\ r.config = srv[s].config
        /\ r.identity = srv[s].identity /\ r.for = srv[s].for /\ r.ask = srv[s].ask
        /\ r.step = srv[s].step /\ r.todo = srv[s].todo \ {f}
    BY <1>2, <2>4 DEF Process
  <2> HIDE DEF r
  <2>6. r.before[f] = disk[f] /\ \A g \in File \ {f} : r.before[g] = srv[s].before[g]
    BY <1>2, <2>2, <2>4 DEF Process, Versions
  <2>7. \A g \in Governed : g \in r.todo \/ r.before[g] <= disk[g]
    <3>1. SUFFICES ASSUME NEW g \in Governed, g \notin r.todo PROVE r.before[g] <= disk[g]
      OBVIOUS
    <3>2. g \in File /\ disk[g] \in Nat
      BY <2>2, FileParts, Numbers
    <3>3. CASE g = f
      BY <3>2, <3>3, <2>6
    <3>4. CASE g # f
      BY <1>1, <1>2, <3>1, <3>2, <3>4, <2>5, <2>6 DEF SessionOK, GovernedOK
    <3>5. QED
      BY <3>3, <3>4
  <2>8. SessionOK(r, NoSession, disk)
    BY <1>1, <2>5, <2>7 DEF SessionOK, InStep, GovernedOK, ResolutionOK, LedgerOK, NoSession
  <2>9. HandlerOK(r, NoSession, client)
    <3>1. HandlerOK(srv[s], session[s], client)
      BY DEF Inv
    <3>2. QED
      BY <1>1, <2>5, <3>1 DEF HandlerOK, Waits, ComparedOK
  <2>10. FreshUnlessSlipped' /\ Settling(client, client')
    BY <1>1, <1>2, StaySettles DEF Inv, FreshUnlessSlipped
  <2>11. QED
    BY <1>1, <1>2, <2>3, <2>5, <2>8, <2>9, <2>10, HandlerMoves
<1>4. CASE srv[s].todo = {} /\ GoTo(s, "analyse", Governed \cup Resolution)
  <2>1. Governed \cup Resolution \in SUBSET File
    BY DEF File
  <2>2. PICK r : Moved(s, r, "analyse", Governed \cup Resolution)
    BY <1>2, <1>4, <2>1, GoToMoves DEF Steps
  <2>3. \A g \in Governed : r.before[g] <= disk[g]
    BY <1>1, <1>2, <1>4, <2>2 DEF SessionOK, GovernedOK, Moved
  <2>4. SessionOK(r, NoSession, disk)
    BY <2>2, <2>3 DEF Moved, SessionOK, InStep, GovernedOK, ResolutionOK, LedgerOK, NoSession
  <2>5. "analyse" \notin {"idle", "identity"} /\ "analyse" # "postverify"
    OBVIOUS
  <2>6. srv[s].step # "idle" /\ srv[s].step # "identity"
    BY <1>1
  <2>7. QED
    BY <1>1, <1>2, <2>2, <2>4, <2>5, <2>6, StepKeeps
<1>5. QED
  BY <1>3, <1>4 DEF SampleBefore

LEMMA AnalyseKeeps ==
  ASSUME Inv, NEW s \in Server, Analyse(s)
  PROVE  Inv'
<1>1. Serving(s) /\ srv[s].step = "analyse" /\ UNCHANGED <<disk, path, client>>
  BY DEF Analyse, At
<1>2. /\ TypeOK /\ SessionOK(srv[s], session[s], disk)
      /\ srv[s] \in Process /\ session[s] \in Session /\ disk \in Versions
  BY <1>1, Working
<1>3. CASE \E f \in srv[s].todo : session' = [session EXCEPT ![s].seen[f] = disk[f]] /\ Work(s, f)
  <2>1. PICK f \in srv[s].todo : session' = [session EXCEPT ![s].seen[f] = disk[f]] /\ Work(s, f)
    BY <1>3
  <2> DEFINE e == [session[s] EXCEPT !.seen[f] = disk[f]]
  <2>2. f \in File
    BY <1>2 DEF Process
  <2>3. session' = [session EXCEPT ![s] = e]
    BY <1>2, <2>1 DEF TypeOK, Session
  <2>4. e.seen = [session[s].seen EXCEPT ![f] = disk[f]] /\ e.seen \in Versions
    BY <1>2, <2>2 DEF Session, Versions
  <2>5. /\ e \in Session /\ e.live = session[s].live /\ e.ledger = session[s].ledger
        /\ e.slipped = session[s].slipped
    BY <1>2, <2>4 DEF Session
  <2> HIDE DEF e
  <2>6. e.seen[f] = disk[f] /\ \A g \in File \ {f} : e.seen[g] = session[s].seen[g]
    BY <1>2, <2>2, <2>4 DEF Session, Versions
  <2>7. PICK r : Moved(s, r, "analyse", srv[s].todo \ {f})
    BY <1>1, <1>2, <2>1, WorkMoves
  <2>8. r.step = "analyse" /\ r.todo = srv[s].todo \ {f} /\ r.before = srv[s].before /\ r.pc # "off"
    BY <1>1, <2>7 DEF Moved, Serving
  <2>9. ASSUME NEW g \in Governed
        PROVE  GovernedOK(r, e, disk, g)
    <3>1. GovernedOK(srv[s], session[s], disk, g) /\ g \in File
      BY <1>2, FileParts DEF SessionOK
    <3>2. disk[g] \in Nat /\ srv[s].before[g] <= disk[g]
      BY <1>1, <1>2, <3>1, Numbers DEF GovernedOK
    <3>3. CASE g = f
      BY <3>2, <3>3, <2>6, <2>8 DEF GovernedOK
    <3>4. CASE g # f
      BY <1>1, <3>1, <3>2, <3>4, <2>6, <2>8 DEF GovernedOK
    <3>5. QED
      BY <3>3, <3>4
  <2>10. ASSUME NEW g \in Resolution
        PROVE  ResolutionOK(r, e, disk, g)
    <3>1. ResolutionOK(srv[s], session[s], disk, g) /\ g \in File
      BY <1>2, FileParts DEF SessionOK
    <3>2. CASE g = f
      BY <3>2, <2>6, <2>8 DEF ResolutionOK, Current
    <3>3. CASE g # f
      BY <1>1, <3>1, <3>3, <2>5, <2>6, <2>8 DEF ResolutionOK, Current
    <3>4. QED
      BY <3>2, <3>3
  <2>11. SessionOK(r, e, disk)
    BY <1>1, <1>2, <2>5, <2>8, <2>9, <2>10 DEF SessionOK, LedgerOK
  <2>12. QED
    BY <1>1, <2>3, <2>5, <2>7, <2>11, StepKeeps
<1>4. CASE /\ srv[s].todo = {} /\ GoTo(s, "rematch", Governed)
           /\ session' = [session EXCEPT ![s].seen =
                [f \in File |-> IF f \in Watched THEN srv[s].config[f] ELSE @[f]]]
  <2> DEFINE seen == [f \in File |-> IF f \in Watched THEN srv[s].config[f] ELSE session[s].seen[f]]
             e == [session[s] EXCEPT !.seen = seen]
  <2>1. session' = [session EXCEPT ![s] = e]
    BY <1>2, <1>4 DEF TypeOK, Session
  <2>2. seen \in Versions
    BY <1>2 DEF Session, Versions, Process
  <2>3. /\ e \in Session /\ e.live = session[s].live /\ e.ledger = session[s].ledger
        /\ e.slipped = session[s].slipped /\ e.seen = seen
    BY <1>2, <2>2 DEF Session
  <2> HIDE DEF e
  <2>4. /\ \A f \in Watched : e.seen[f] = srv[s].config[f]
        /\ \A f \in Governed \cup Resolution : e.seen[f] = session[s].seen[f]
    BY <2>3, FileParts
  <2>5. PICK r : Moved(s, r, "rematch", Governed)
    BY <1>2, <1>4, GoToMoves DEF Steps, File
  <2>6. /\ r.step = "rematch" /\ r.todo = Governed /\ r.before = srv[s].before /\ r.pc # "off"
        /\ r.config = srv[s].config
    BY <1>1, <2>5 DEF Moved, Serving
  <2>7. \A g \in Governed : GovernedOK(r, e, disk, g)
    BY <1>1, <1>2, <1>4, <2>4, <2>6 DEF SessionOK, GovernedOK
  <2>8. \A g \in Resolution : ResolutionOK(r, e, disk, g)
    BY <1>1, <1>2, <1>4, <2>3, <2>4, <2>6 DEF SessionOK, ResolutionOK, Current
  <2>9. \A g \in Watched : InStep(r, e, g)
    BY <2>4, <2>6 DEF InStep
  <2>10. SessionOK(r, e, disk)
    BY <1>1, <1>2, <2>3, <2>6, <2>7, <2>8, <2>9 DEF SessionOK, LedgerOK
  <2>11. QED
    BY <1>1, <2>1, <2>3, <2>5, <2>10, StepKeeps
<1>5. QED
  BY <1>3, <1>4 DEF Analyse

\* What was analysed between two equal samples is what they hold: contents
\* only move forward.
LEMMA RematchKeeps ==
  ASSUME Inv, NEW s \in Server, Rematch(s)
  PROVE  Inv'
<1>1. Serving(s) /\ srv[s].step = "rematch" /\ UNCHANGED <<disk, path, session>>
  BY DEF Rematch, At
<1>2. /\ TypeOK /\ SessionOK(srv[s], session[s], disk)
      /\ srv[s] \in Process /\ session[s] \in Session /\ disk \in Versions
      /\ session' = [session EXCEPT ![s] = session[s]]
  BY <1>1, Working
<1>3. CASE \E f \in srv[s].todo : disk[f] # srv[s].before[f] /\ FallBack(s)
  BY <1>1, <1>3, FallBackKeeps
<1>4. CASE \E f \in srv[s].todo : disk[f] = srv[s].before[f] /\ Work(s, f) /\ UNCHANGED client
  <2>1. PICK f \in srv[s].todo : disk[f] = srv[s].before[f] /\ Work(s, f) /\ UNCHANGED client
    BY <1>4
  <2>2. PICK r : Moved(s, r, "rematch", srv[s].todo \ {f})
    BY <1>1, <1>2, <2>1, WorkMoves
  <2>3. /\ r.step = "rematch" /\ r.todo = srv[s].todo \ {f} /\ r.before = srv[s].before
        /\ r.pc # "off" /\ r.config = srv[s].config
    BY <1>1, <2>2 DEF Moved, Serving
  <2>4. ASSUME NEW g \in Governed
        PROVE  GovernedOK(r, session[s], disk, g)
    <3>1. GovernedOK(srv[s], session[s], disk, g) /\ g \in File
      BY <1>2, FileParts DEF SessionOK
    <3>2. srv[s].before[g] <= session[s].seen[g] /\ session[s].seen[g] <= disk[g]
      BY <1>1, <3>1 DEF GovernedOK
    <3>3. srv[s].before[g] \in Nat /\ session[s].seen[g] \in Nat /\ disk[g] \in Nat
      BY <1>2, <3>1, Numbers DEF Process, Session
    <3>4. CASE g = f
      <4>1. session[s].seen[g] = disk[g]
        BY <2>1, <3>2, <3>3, <3>4
      <4>2. QED
        BY <2>3, <3>2, <4>1 DEF GovernedOK, Current
    <3>5. CASE g # f
      BY <1>1, <3>1, <3>2, <3>5, <2>3 DEF GovernedOK
    <3>6. QED
      BY <3>4, <3>5
  <2>5. SessionOK(r, session[s], disk)
    BY <1>1, <1>2, <2>3, <2>4 DEF SessionOK, InStep, ResolutionOK, LedgerOK
  <2>6. /\ Serving(s) /\ srv[s].step = "rematch" /\ session[s] \in Session
        /\ session' = [session EXCEPT ![s] = session[s]] /\ UNCHANGED <<disk, path, client>>
    BY <1>1, <1>2, <2>1
  <2>7. QED
    BY <2>2, <2>5, <2>6, StepKeeps
<1>5. CASE srv[s].todo = {} /\ GoTo(s, "ledger", File) /\ UNCHANGED client
  <2>1. PICK r : Moved(s, r, "ledger", File)
    BY <1>2, <1>5, GoToMoves DEF Steps
  <2>2. /\ r.step = "ledger" /\ r.todo = File /\ r.pc # "off" /\ r.config = srv[s].config
    BY <1>1, <2>1 DEF Moved, Serving
  <2>3. \A g \in Governed \cup Resolution : Current(session[s], disk, g)
    BY <1>1, <1>2, <1>5 DEF SessionOK, GovernedOK, ResolutionOK
  <2>4. \A g \in Governed \cup Resolution : LedgerOK(r, session[s], disk, g)
    BY <2>2, <2>3, FileParts DEF LedgerOK
  <2>5. \A g \in Watched : InStep(r, session[s], g)
    BY <1>1, <1>2, <2>2 DEF SessionOK, InStep
  <2>6. SessionOK(r, session[s], disk)
    BY <1>1, <1>2, <2>2, <2>4, <2>5 DEF SessionOK, GovernedOK, ResolutionOK
  <2>7. QED
    BY <1>1, <1>2, <1>5, <2>1, <2>6, StepKeeps
<1>6. QED
  BY <1>3, <1>4, <1>5 DEF Rematch

LEMMA SampleLedgerKeeps ==
  ASSUME Inv, NEW s \in Server, SampleLedger(s)
  PROVE  Inv'
<1>1. Serving(s) /\ srv[s].step = "ledger" /\ UNCHANGED <<disk, path, client>>
  BY DEF SampleLedger, At
<1>2. /\ TypeOK /\ SessionOK(srv[s], session[s], disk)
      /\ srv[s] \in Process /\ session[s] \in Session /\ disk \in Versions
  BY <1>1, Working
<1>3. CASE \E f \in srv[s].todo : session' = [session EXCEPT ![s].ledger[f] = disk[f]] /\ Work(s, f)
  <2>1. PICK f \in srv[s].todo : session' = [session EXCEPT ![s].ledger[f] = disk[f]] /\ Work(s, f)
    BY <1>3
  <2> DEFINE e == [session[s] EXCEPT !.ledger[f] = disk[f]]
  <2>2. f \in File
    BY <1>2 DEF Process
  <2>3. session' = [session EXCEPT ![s] = e]
    BY <1>2, <2>1 DEF TypeOK, Session
  <2>4. e.ledger = [session[s].ledger EXCEPT ![f] = disk[f]] /\ e.ledger \in Versions
    BY <1>2, <2>2 DEF Session, Versions
  <2>5. /\ e \in Session /\ e.live = session[s].live /\ e.seen = session[s].seen
        /\ e.slipped = session[s].slipped
    BY <1>2, <2>4 DEF Session
  <2> HIDE DEF e
  <2>6. e.ledger[f] = disk[f] /\ \A g \in File \ {f} : e.ledger[g] = session[s].ledger[g]
    BY <1>2, <2>2, <2>4 DEF Session, Versions
  <2>7. PICK r : Moved(s, r, "ledger", srv[s].todo \ {f})
    BY <1>1, <1>2, <2>1, WorkMoves
  <2>8. r.step = "ledger" /\ r.todo = srv[s].todo \ {f} /\ r.pc # "off" /\ r.config = srv[s].config
    BY <1>1, <2>7 DEF Moved, Serving
  <2>9. ASSUME NEW g \in Governed \cup Resolution
        PROVE  LedgerOK(r, e, disk, g)
    <3>1. LedgerOK(srv[s], session[s], disk, g) /\ g \in File /\ g \notin Watched
      BY <1>2, FileParts DEF SessionOK
    <3>2. CASE g = f
      <4>1. Current(session[s], disk, g)
        BY <1>1, <2>1, <3>1, <3>2 DEF LedgerOK
      <4>2. InStep(r, e, g)
        BY <4>1, <3>1, <3>2, <2>5, <2>6 DEF Current, InStep
      <4>3. QED
        BY <4>2, <3>2, <2>8 DEF LedgerOK
    <3>3. CASE g # f
      <4>1. g \in srv[s].todo => Current(e, disk, g)
        BY <1>1, <3>1, <2>5 DEF LedgerOK, Current
      <4>2. g \notin srv[s].todo => InStep(r, e, g)
        BY <1>1, <3>1, <3>3, <2>5, <2>6 DEF LedgerOK, InStep
      <4>3. QED
        BY <4>1, <4>2, <3>3, <2>8 DEF LedgerOK
    <3>4. QED
      BY <3>2, <3>3
  <2>10. \A g \in Watched : InStep(r, e, g)
    BY <1>1, <1>2, <2>5, <2>8 DEF SessionOK, InStep
  <2>11. SessionOK(r, e, disk)
    BY <1>1, <1>2, <2>5, <2>8, <2>9, <2>10 DEF SessionOK, GovernedOK, ResolutionOK
  <2>12. QED
    BY <1>1, <2>3, <2>5, <2>7, <2>11, StepKeeps
<1>4. CASE srv[s].todo = {} /\ GoTo(s, "selfmatch", File) /\ UNCHANGED session
  <2>1. PICK r : Moved(s, r, "selfmatch", File)
    BY <1>2, <1>4, GoToMoves DEF Steps
  <2>2. /\ r.step = "selfmatch" /\ r.pc # "off" /\ r.config = srv[s].config
    BY <1>1, <2>1 DEF Moved, Serving
  <2>3. \A g \in Governed \cup Resolution : InStep(srv[s], session[s], g)
    BY <1>1, <1>2, <1>4 DEF SessionOK, LedgerOK
  <2>4. \A g \in File : InStep(srv[s], session[s], g)
    BY <1>1, <1>2, <2>3, FileParts DEF SessionOK
  <2>5. SessionOK(r, session[s], disk)
    BY <1>1, <1>2, <2>2, <2>4 DEF SessionOK, InStep, GovernedOK, ResolutionOK, LedgerOK
  <2>6. session' = [session EXCEPT ![s] = session[s]]
    BY <1>1, <1>4, Working
  <2>7. QED
    BY <1>1, <1>2, <2>1, <2>5, <2>6, StepKeeps
<1>5. QED
  BY <1>3, <1>4 DEF SampleLedger

LEMMA SelfMatchKeeps ==
  ASSUME Inv, NEW s \in Server, SelfMatch(s)
  PROVE  Inv'
<1>1. Serving(s) /\ srv[s].step = "selfmatch" /\ UNCHANGED <<disk, path>>
  BY DEF SelfMatch, At
<1>2. /\ TypeOK /\ SessionOK(srv[s], session[s], disk)
      /\ srv[s] \in Process /\ session[s] \in Session
  BY <1>1, Working
<1>3. CASE \E f \in srv[s].todo : FallBack(s) /\ UNCHANGED session
  BY <1>1, <1>3, FallBackKeeps
<1>4. CASE \E f \in srv[s].todo : Work(s, f) /\ UNCHANGED <<session, client>>
  <2>1. PICK f \in srv[s].todo : Work(s, f) /\ UNCHANGED <<session, client>>
    BY <1>4
  <2>2. PICK r : Moved(s, r, "selfmatch", srv[s].todo \ {f})
    BY <1>1, <1>2, <2>1, WorkMoves
  <2>3. SessionOK(r, session[s], disk)
    BY <1>1, <1>2, <2>2 DEF Moved, SessionOK, InStep, GovernedOK, ResolutionOK, LedgerOK
  <2>4. session' = [session EXCEPT ![s] = session[s]]
    BY <1>1, <2>1, Working
  <2>5. UNCHANGED <<disk, path, client>>
    BY <1>1, <2>1
  <2>6. QED
    BY <1>1, <1>2, <2>2, <2>3, <2>4, <2>5, StepKeeps
<1>5. CASE /\ GoTo(s, "render", {}) /\ UNCHANGED client
           /\ session' = [session EXCEPT ![s].live = TRUE]
  <2> DEFINE e == [session[s] EXCEPT !.live = TRUE]
  <2>1. session' = [session EXCEPT ![s] = e]
    BY <1>2, <1>5 DEF TypeOK, Session
  <2>2. /\ e \in Session /\ e.live /\ e.seen = session[s].seen /\ e.ledger = session[s].ledger
        /\ e.slipped = session[s].slipped
    BY <1>2 DEF Session
  <2> HIDE DEF e
  <2>3. PICK r : Moved(s, r, "render", {})
    BY <1>2, <1>5, GoToMoves DEF Steps
  <2>4. SessionOK(r, e, disk)
    BY <1>1, <1>2, <2>2, <2>3
       DEF Moved, Serving, SessionOK, InStep, GovernedOK, ResolutionOK, LedgerOK
  <2>5. QED
    BY <1>1, <1>5, <2>1, <2>2, <2>3, <2>4, StepKeeps
<1>6. QED
  BY <1>3, <1>4, <1>5 DEF SelfMatch

LEMMA RenderKeeps ==
  ASSUME Inv, NEW s \in Server, Render(s)
  PROVE  Inv'
<1>1. /\ Serving(s) /\ srv[s].step = "render" /\ UNCHANGED <<disk, path, session, client>>
      /\ GoTo(s, "postverify", File)
  BY DEF Render, At
<1>2. /\ TypeOK /\ SessionOK(srv[s], session[s], disk) /\ session[s] \in Session
      /\ session' = [session EXCEPT ![s] = session[s]]
  BY <1>1, Working
<1>3. PICK r : Moved(s, r, "postverify", File)
  BY <1>1, <1>2, GoToMoves DEF Steps
<1>4. SessionOK(r, session[s], disk)
  BY <1>1, <1>2, <1>3 DEF Moved, SessionOK, InStep, GovernedOK, ResolutionOK, LedgerOK
<1>5. QED
  BY <1>1, <1>2, <1>3, <1>4, StepKeeps

\* The answer: the ledger has been compared with the disk since the client asked,
\* and the facts hold what the ledger holds.
LEMMA PostVerifyKeeps ==
  ASSUME Inv, NEW s \in Server, PostVerify(s)
  PROVE  Inv'
<1>1. Serving(s) /\ srv[s].step = "postverify" /\ UNCHANGED <<disk, path>>
  BY DEF PostVerify, At
<1>2. /\ TypeOK /\ SessionOK(srv[s], session[s], disk)
      /\ srv[s] \in Process /\ session[s] \in Session
  BY <1>1, Working
<1>3. CASE FallBack(s) /\ session' = [session EXCEPT ![s] = NoSession]
  BY <1>1, <1>3, FallBackKeeps
<1>4. CASE \E f \in srv[s].todo :
             disk[f] = session[s].ledger[f] /\ Work(s, f) /\ UNCHANGED <<session, client>>
  <2>1. PICK f \in srv[s].todo :
             disk[f] = session[s].ledger[f] /\ Work(s, f) /\ UNCHANGED <<session, client>>
    BY <1>4
  <2>2. PICK r : Moved(s, r, "postverify", srv[s].todo \ {f})
    BY <1>1, <1>2, <2>1, WorkMoves
  <2>3. SessionOK(r, session[s], disk)
    BY <1>1, <1>2, <2>2 DEF Moved, SessionOK, InStep, GovernedOK, ResolutionOK, LedgerOK
  <2>4. session' = [session EXCEPT ![s] = session[s]]
    BY <1>1, <2>1, Working
  <2>5. ASSUME NEW c \in Client, c = srv[s].for, Waits(srv[s], client[c])
        PROVE  ComparedOK(r, session[s], client[c].floor)
    <3>1. /\ ComparedOK(srv[s], session[s], client[c].floor)
          /\ \A g \in File : client[c].floor[g] <= disk[g]
      BY <1>1, <2>5, Working
    <3>2. QED
      BY <1>1, <2>1, <2>2, <3>1 DEF ComparedOK, Moved
  <2>6. QED
    BY <1>1, <1>2, <2>1, <2>2, <2>3, <2>4, <2>5, MovesOn
<1>5. CASE /\ srv[s].todo = {} /\ UNCHANGED session /\ Finish(s)
           /\ Deliver(s, "warm", session[s].seen, session[s].slipped \cup LatePolicy(s))
  <2>1. session[s].seen \in Versions /\ session[s].slipped \cup LatePolicy(s) \in SUBSET File
    BY <1>2, LateIsFile DEF Session
  <2>2. ASSUME NEW c \in Client, c = srv[s].for, Waits(srv[s], client[c]),
               NEW f \in File \ (session[s].slipped \cup LatePolicy(s))
        PROVE  client[c].floor[f] <= session[s].seen[f]
    <3>1. InStep(srv[s], session[s], f)
      BY <1>1, <1>2 DEF SessionOK
    <3>2. CASE f \in Watched
      <4>1. client[c].floor[f] <= srv[s].config[f]
        BY <1>1, <2>2, <3>2, PolicyIsFresh
      <4>2. QED
        BY <3>1, <3>2, <4>1 DEF InStep
    <3>3. CASE f \notin Watched
      <4>1. client[c].floor[f] <= session[s].ledger[f]
        BY <1>1, <1>5, <2>2, Working DEF ComparedOK
      <4>2. QED
        BY <2>2, <3>1, <3>3, <4>1 DEF InStep
    <3>4. QED
      BY <3>2, <3>3
  <2>3. QED
    BY <1>1, <1>5, <2>1, <2>2, FinishKeeps
<1>6. QED
  BY <1>3, <1>4, <1>5 DEF PostVerify

-----------------------------------------------------------------------------
(* Editors, the life of a server, the clients.                             *)

\* An edit that the facts of a session miss falls into a window.
LEMMA EditKeepsSession ==
  ASSUME Inv, NEW f \in File, Edit(f), NEW s \in Server
  PROVE  SessionOK(srv[s], session'[s], disk')
<1> DEFINE r == srv[s]
           e == session'[s]
<1>1. /\ TypeOK /\ SessionOK(r, session[s], disk)
      /\ r \in Process /\ session[s] \in Session /\ disk \in Versions
  BY DEF Inv, TypeOK
<1>2. /\ e.live = session[s].live /\ e.seen = session[s].seen /\ e.ledger = session[s].ledger
      /\ session[s].slipped \subseteq e.slipped
      /\ InWindow(s, f) => f \in e.slipped
  BY <1>1 DEF Edit, Session
<1>3. /\ \A g \in File : disk[g] \in Nat /\ disk'[g] \in Nat /\ disk[g] <= disk'[g]
      /\ \A g \in File \ {f} : disk'[g] = disk[g]
  BY <1>1, Numbers DEF Edit, Versions
<1>4. \A g \in File : r.before[g] \in Nat /\ e.seen[g] \in Nat
  BY <1>1, <1>2, Numbers DEF Process, Session
<1> HIDE DEF e, r
<1>5. ASSUME NEW g \in File, Current(session[s], disk, g), g # f \/ InWindow(s, f)
      PROVE  Current(e, disk', g)
  BY <1>2, <1>3, <1>5 DEF Current
<1>6. ASSUME NEW g \in File, InStep(r, session[s], g)
      PROVE  InStep(r, e, g)
  BY <1>2, <1>6 DEF InStep
<1>7. ASSUME NEW g \in Governed
      PROVE  GovernedOK(r, e, disk', g)
  <2>1. GovernedOK(r, session[s], disk, g) /\ g \in File
    BY <1>1, FileParts DEF SessionOK
  <2>2. r.step = "before" => g \in r.todo \/ r.before[g] <= disk'[g]
    BY <1>3, <1>4, <2>1 DEF GovernedOK
  <2>3. r.step = "analyse" => r.before[g] <= disk'[g]
    BY <1>3, <1>4, <2>1 DEF GovernedOK
  <2>4. r.step = "analyse" =>
          g \in r.todo \/ (r.before[g] <= e.seen[g] /\ e.seen[g] <= disk'[g])
    BY <1>2, <1>3, <1>4, <2>1 DEF GovernedOK
  <2>5. r.step = "rematch" => r.before[g] <= e.seen[g] /\ e.seen[g] <= disk'[g]
    BY <1>2, <1>3, <1>4, <2>1 DEF GovernedOK
  <2>6. ASSUME r.step = "rematch", g \notin r.todo
        PROVE  Current(e, disk', g)
    <3>1. Current(session[s], disk, g)
      BY <2>1, <2>6 DEF GovernedOK
    <3>2. g # f \/ InWindow(s, f)
      BY <2>6 DEF InWindow, r
    <3>3. QED
      BY <2>1, <3>1, <3>2, <1>5
  <2>7. QED
    BY <2>2, <2>3, <2>4, <2>5, <2>6 DEF GovernedOK
<1>8. ASSUME NEW g \in Resolution
      PROVE  ResolutionOK(r, e, disk', g)
  <2>1. ResolutionOK(r, session[s], disk, g) /\ g \in File
    BY <1>1, FileParts DEF SessionOK
  <2>2. ASSUME r.step = "analyse", g \notin r.todo
        PROVE  Current(e, disk', g)
    <3>1. g # f \/ InWindow(s, f)
      BY <2>2 DEF InWindow, r
    <3>2. QED
      BY <2>1, <2>2, <3>1, <1>5 DEF ResolutionOK
  <2>3. ASSUME r.step = "rematch"
        PROVE  Current(e, disk', g)
    <3>1. g # f \/ InWindow(s, f)
      BY <2>3 DEF InWindow, r
    <3>2. QED
      BY <2>1, <2>3, <3>1, <1>5 DEF ResolutionOK
  <2>4. QED
    BY <2>2, <2>3 DEF ResolutionOK
<1>9. ASSUME NEW g \in Governed \cup Resolution
      PROVE  LedgerOK(r, e, disk', g)
  <2>1. LedgerOK(r, session[s], disk, g) /\ g \in File
    BY <1>1, FileParts DEF SessionOK
  <2>2. ASSUME r.step = "ledger", g \in r.todo
        PROVE  Current(e, disk', g)
    <3>1. g # f \/ InWindow(s, f)
      BY <2>2 DEF InWindow, r
    <3>2. QED
      BY <2>1, <2>2, <3>1, <1>5 DEF LedgerOK
  <2>3. ASSUME r.step = "ledger", g \notin r.todo
        PROVE  InStep(r, e, g)
    BY <2>1, <2>3, <1>6 DEF LedgerOK
  <2>4. QED
    BY <2>2, <2>3 DEF LedgerOK
<1>10. /\ e.live \/ r.step = "selfmatch" => \A g \in File : InStep(r, e, g)
       /\ r.step \in {"rematch", "ledger"} => \A g \in Watched : InStep(r, e, g)
  BY <1>1, <1>2, <1>6, FileParts DEF SessionOK
<1>11. SessionOK(r, e, disk')
  BY <1>1, <1>2, <1>7, <1>8, <1>9, <1>10 DEF SessionOK
<1>12. QED
  BY <1>11 DEF e, r

LEMMA EditKeeps ==
  ASSUME Inv, NEW f \in File, Edit(f)
  PROVE  Inv'
<1>1. TypeOK /\ EndpointOK /\ FloorOK(disk, client) /\ FreshUnlessSlipped
  BY DEF Inv
<1>2. UNCHANGED <<path, srv, client>>
  BY DEF Edit
<1>3. disk' \in Versions /\ \A g \in File : disk[g] \in Nat /\ disk'[g] \in Nat /\ disk[g] <= disk'[g]
  <2>1. disk \in Versions /\ MaxVersion \in Nat
    BY <1>1, FileKindsAssumption DEF TypeOK
  <2>2. disk[f] + 1 \in 0..MaxVersion
    BY <2>1, Numbers DEF Edit
  <2>3. QED
    BY <2>1, <2>2, Numbers DEF Edit, Versions
<1>4. /\ session' \in [Server -> Session]
      /\ \A s \in Server : session'[s].ledger = session[s].ledger
  BY <1>1 DEF TypeOK, Edit, Session
<1>5. TypeOK' /\ EndpointOK' /\ FreshUnlessSlipped'
  BY <1>1, <1>2, <1>3, <1>4 DEF TypeOK, EndpointOK, Serving, FreshUnlessSlipped
<1>6. FloorOK(disk', client')
  <2>1. ASSUME NEW c \in Client, NEW g \in File PROVE client[c].floor[g] <= disk'[g]
    <3>1. client[c].floor[g] \in Nat
      BY <1>1, Numbers DEF TypeOK, Request
    <3>2. QED
      BY <3>1, <1>1, <1>3 DEF FloorOK
  <2>2. QED
    BY <2>1, <1>2 DEF FloorOK
<1>7. ASSUME NEW s \in Server PROVE HandlerOK(srv[s], session'[s], client)
  <2>1. HandlerOK(srv[s], session[s], client)
    BY DEF Inv
  <2>2. QED
    BY <2>1, <1>4 DEF HandlerOK, ComparedOK
<1>8. \A s \in Server : SessionOK(srv[s], session'[s], disk')
  BY EditKeepsSession
<1>9. QED
  BY <1>2, <1>5, <1>6, <1>7, <1>8 DEF Inv

\* A server that starts, stops or is killed.
LEMMA LifeMoves ==
  ASSUME Inv, NEW s \in Server, NEW r \in Process, NEW e \in Session, r.step = "idle",
         srv' = [srv EXCEPT ![s] = r], session' = [session EXCEPT ![s] = e],
         UNCHANGED <<disk, client>>, path' \in Server \cup {Nobody}, EndpointOK',
         r.pc = "off" => ~e.live,
         e.live => \A f \in File : InStep(r, e, f)
  PROVE  Inv'
<1>1. TypeOK /\ FreshUnlessSlipped
  BY DEF Inv
<1>2. SessionOK(r, e, disk)
  BY DEF SessionOK, GovernedOK, ResolutionOK, LedgerOK
<1>3. HandlerOK(r, e, client')
  BY DEF HandlerOK
<1>4. Settling(client, client') /\ FreshUnlessSlipped'
  BY <1>1, StaySettles DEF FreshUnlessSlipped
<1>5. QED
  BY <1>2, <1>3, <1>4, ServerMoves

LEMMA EndpointStays ==
  ASSUME Inv, NEW s \in Server, NEW r, srv' = [srv EXCEPT ![s] = r], path' = path,
         r.pc \notin {"serving", "closed"}
  PROVE  EndpointOK'
BY DEF Inv, TypeOK, EndpointOK, Serving

LEMMA LoadConfigKeeps ==
  ASSUME Inv, NEW s \in Server, LoadConfig(s)
  PROVE  Inv'
<1>1. /\ TypeOK /\ SessionOK(srv[s], session[s], disk) /\ session[s] \in Session
      /\ session' = [session EXCEPT ![s] = session[s]] /\ UNCHANGED <<disk, path, client>>
      /\ path' \in Server \cup {Nobody} /\ disk \in Versions
  BY DEF Inv, TypeOK, LoadConfig
<1> DEFINE r == [Off EXCEPT !.pc = "loaded", !.config = disk]
<1>2. r \in Process /\ r.pc = "loaded" /\ r.step = "idle"
  BY <1>1, Idles DEF Process, Off
<1>3. srv' = [srv EXCEPT ![s] = r]
  BY DEF LoadConfig
<1> HIDE DEF r
<1>4. ~session[s].live
  BY <1>1 DEF SessionOK, LoadConfig
<1>5. EndpointOK'
  BY <1>1, <1>2, <1>3, EndpointStays
<1>6. QED
  BY <1>1, <1>2, <1>3, <1>4, <1>5, LifeMoves

\* A server that does not serve handles nothing.
LEMMA Resting ==
  ASSUME Inv, NEW s \in Server, srv[s].pc # "serving"
  PROVE  srv[s].step = "idle"
BY DEF Inv, HandlerOK

\* A server moves on in its life and keeps what it knows.
LEMMA LivesOn ==
  ASSUME Inv, NEW s \in Server, NEW r \in Process, srv[s].pc # "off",
         r.step = "idle", r.pc # "off", r.config = srv[s].config,
         srv' = [srv EXCEPT ![s] = r], UNCHANGED <<disk, session, client>>,
         path' \in Server \cup {Nobody}, EndpointOK'
  PROVE  Inv'
<1>1. /\ TypeOK /\ SessionOK(srv[s], session[s], disk) /\ session[s] \in Session
      /\ session' = [session EXCEPT ![s] = session[s]]
  BY DEF Inv, TypeOK
<1>2. session[s].live => \A f \in File : InStep(r, session[s], f)
  BY <1>1 DEF SessionOK, InStep
<1>3. QED
  BY <1>1, <1>2, LifeMoves

LEMMA TakeIdentityKeeps ==
  ASSUME Inv, NEW s \in Server, TakeIdentity(s)
  PROVE  Inv'
<1>1. /\ srv[s] \in Process /\ disk \in Versions /\ path' \in Server \cup {Nobody}
      /\ srv[s].step = "idle" /\ srv[s].pc = "loaded" /\ UNCHANGED <<disk, path, session, client>>
  BY Resting DEF Inv, TypeOK, TakeIdentity
<1> DEFINE r == [srv[s] EXCEPT !.pc = "identified", !.identity = disk]
<1>2. /\ r \in Process /\ r.pc = "identified" /\ r.step = "idle" /\ r.config = srv[s].config
  BY <1>1 DEF Process
<1>3. srv' = [srv EXCEPT ![s] = r]
  BY <1>1 DEF TakeIdentity, Inv, TypeOK, Process
<1> HIDE DEF r
<1>4. EndpointOK'
  BY <1>1, <1>2, <1>3, EndpointStays
<1>5. QED
  BY <1>1, <1>2, <1>3, <1>4, LivesOn

\* Who binds while nobody is about to unlink is alone.
LEMMA BindKeeps ==
  ASSUME Inv, NEW s \in Server, Bind(s)
  PROVE  Inv'
<1>1. /\ srv[s] \in Process /\ path \in Server \cup {Nobody} /\ srv[s].step = "idle"
      /\ srv[s].pc = "identified" /\ UNCHANGED <<disk, session, client>> /\ srv \in [Server -> Process]
  BY Resting DEF Inv, TypeOK, Bind
<1>2. CASE path = Nobody
  <2> DEFINE race == \E t \in Server : srv[t].pc = "closed" \/ (Serving(t) /\ srv[t].raced)
             r == [srv[s] EXCEPT !.pc = "serving", !.raced = race]
  <2>1. srv' = [srv EXCEPT ![s] = r] /\ path' = s
    BY <1>1, <1>2 DEF Bind, Process
  <2>2. race \in BOOLEAN
    OBVIOUS
  <2> HIDE DEF race
  <2>3. /\ r \in Process /\ r.pc = "serving" /\ r.raced = race
        /\ r.step = "idle" /\ r.config = srv[s].config
    BY <1>1, <2>2 DEF Process
  <2> HIDE DEF r
  <2>4. ASSUME NEW t \in Server, Serving(t), ~srv[t].raced PROVE FALSE
    BY <1>2, <2>4, FileKindsAssumption DEF Inv, EndpointOK
  <2>5. ASSUME ~race, NEW t \in Server PROVE srv[t].pc # "closed" /\ ~Serving(t)
    BY <2>4, <2>5 DEF race
  <2>6. /\ srv'[s] = r /\ \A t \in Server \ {s} : srv'[t] = srv[t]
    BY <1>1, <2>1
  <2>7. ASSUME NEW t \in Server, srv'[t].pc = "serving", ~srv'[t].raced
        PROVE  /\ path' = t
               /\ \A u \in Server : srv'[u].pc # "closed" /\ (srv'[u].pc = "serving" => u = t)
    <3>1. t = s /\ ~race
      BY <2>3, <2>4, <2>6, <2>7 DEF Serving
    <3>2. QED
      BY <3>1, <2>1, <2>3, <2>5, <2>6 DEF Serving
  <2>8. EndpointOK'
    BY <2>7 DEF EndpointOK, Serving
  <2>9. QED
    BY <1>1, <2>1, <2>3, <2>8, LivesOn
<1>3. CASE path # Nobody
  <2> DEFINE r == [srv[s] EXCEPT !.pc = "refused"]
  <2>1. srv' = [srv EXCEPT ![s] = r] /\ path' = path
    BY <1>1, <1>3 DEF Bind, Process
  <2>2. /\ r \in Process /\ r.pc = "refused" /\ r.step = "idle" /\ r.config = srv[s].config
    BY <1>1 DEF Process
  <2> HIDE DEF r
  <2>3. EndpointOK'
    BY <2>1, <2>2, EndpointStays
  <2>4. QED
    BY <1>1, <2>1, <2>2, <2>3, LivesOn
<1>4. QED
  BY <1>2, <1>3

\* No unraced listener is left when one closes its socket.
LEMMA CloseKeeps ==
  ASSUME Inv, NEW s \in Server, Close(s)
  PROVE  Inv'
<1>1. /\ srv[s] \in Process /\ path' \in Server \cup {Nobody} /\ srv[s].pc = "serving"
      /\ UNCHANGED <<disk, session, client>> /\ srv \in [Server -> Process]
  BY DEF Inv, TypeOK, Close, Serving
<1> DEFINE r == [srv[s] EXCEPT !.pc = "closed", !.step = "idle"]
<1>2. /\ r \in Process /\ r.pc = "closed" /\ r.step = "idle" /\ r.config = srv[s].config
  BY <1>1 DEF Process
<1>3. srv' = [srv EXCEPT ![s] = r]
  BY <1>1 DEF Close, Process
<1> HIDE DEF r
<1>4. EndpointOK'
  BY <1>1, <1>2, <1>3 DEF Inv, EndpointOK, Serving
<1>5. QED
  BY <1>1, <1>2, <1>3, <1>4, LivesOn

LEMMA OffKeeps ==
  ASSUME Inv, NEW s \in Server, Unlink(s) \/ Kill(s)
  PROVE  Inv'
<1>1. /\ srv' = [srv EXCEPT ![s] = Off] /\ session' = [session EXCEPT ![s] = NoSession]
      /\ UNCHANGED <<disk, client>> /\ path' \in Server \cup {Nobody}
  BY DEF Unlink, Kill, Inv, TypeOK
<1>2. Off \in Process /\ NoSession \in Session
  BY Idles
<1>3. Off.step = "idle" /\ Off.pc = "off" /\ ~NoSession.live
  BY DEF Off, NoSession
<1>4. EndpointOK'
  <2>1. CASE Unlink(s)
    BY <1>1, <1>3, <2>1 DEF Inv, TypeOK, EndpointOK, Serving, Unlink
  <2>2. CASE Kill(s)
    <3>1. path' = path
      BY <2>2 DEF Kill
    <3>2. QED
      BY <1>1, <1>3, <3>1, EndpointStays
  <2>3. QED
    BY <2>1, <2>2
<1>5. QED
  BY <1>1, <1>2, <1>3, <1>4, LifeMoves

\* A client moves, and every handler may go on.
LEMMA ClientMoves ==
  ASSUME Inv, UNCHANGED <<disk, path, srv, session>>, client' \in [Client -> Request],
         FloorOK(disk, client'), FreshUnlessSlipped',
         \A s \in Server : HandlerOK(srv[s], session[s], client')
  PROVE  Inv'
BY DEF Inv, TypeOK, EndpointOK, Serving

LEMMA GiveUpKeeps ==
  ASSUME Inv, NEW c \in Client, GiveUp(c)
  PROVE  Inv'
<1>1. /\ client \in [Client -> Request] /\ FloorOK(disk, client) /\ FreshUnlessSlipped
      /\ UNCHANGED <<disk, path, srv, session>>
  BY DEF Inv, TypeOK, GiveUp
<1> DEFINE q == [client[c] EXCEPT !.pc = "cold"]
<1>2. /\ q \in Request /\ q.pc = "cold" /\ q.asked = client[c].asked /\ q.floor = client[c].floor
  BY <1>1 DEF Request
<1>3. client' = [client EXCEPT ![c] = q]
  BY <1>1 DEF GiveUp, Request
<1> HIDE DEF q
<1>4. Settling(client, client')
  BY <1>1, <1>2, <1>3 DEF Settling
<1>5. FreshUnlessSlipped'
  BY <1>1, <1>2, <1>3 DEF FreshUnlessSlipped
<1>6. \A s \in Server : HandlerOK(srv[s], session[s], client')
  BY <1>4, SettlingKeepsHandlers DEF Inv
<1>7. FloorOK(disk, client')
  BY <1>1, <1>4 DEF FloorOK, Settling
<1>8. QED
  BY <1>1, <1>4, <1>5, <1>6, <1>7, ClientMoves DEF Settling

\* A new request is told from the one a handler may still be working on.
LEMMA AskKeeps ==
  ASSUME Inv, NEW c \in Client, NEW kind \in Kinds, Ask(c, kind)
  PROVE  Inv'
<1>1. /\ client \in [Client -> Request] /\ FloorOK(disk, client) /\ FreshUnlessSlipped
      /\ path \in Server \cup {Nobody} /\ disk \in Versions
      /\ UNCHANGED <<disk, path, srv, session>> /\ client[c].asked < MaxRequests
  BY DEF Inv, TypeOK, Ask
<1> DEFINE pc == IF path # Nobody /\ Serving(path) THEN "sent" ELSE "cold"
           q == [NoRequest EXCEPT !.pc = pc, !.kind = kind, !.to = path, !.floor = disk,
                                  !.asked = client[c].asked + 1]
<1>2. pc \in {"sent", "cold"} /\ NoRequest \in Request
  BY Idles
<1>3. client[c].asked \in Nat /\ client[c].asked + 1 \in 0..MaxRequests
  BY <1>1, FileKindsAssumption DEF Request
<1>4. client' = [client EXCEPT ![c] = q]
  BY DEF Ask
<1> HIDE DEF pc
<1>5. /\ q \in Request /\ q.pc \in {"sent", "cold"} /\ q.asked = client[c].asked + 1
      /\ q.floor = disk
  BY <1>1, <1>2, <1>3 DEF Request, NoRequest
<1> HIDE DEF q
<1>6. /\ client' \in [Client -> Request] /\ client'[c] = q
      /\ \A b \in Client \ {c} : client'[b] = client[b]
  BY <1>1, <1>4, <1>5
<1>7. FreshUnlessSlipped'
  BY <1>1, <1>5, <1>6 DEF FreshUnlessSlipped
<1>8. FloorOK(disk, client')
  <2>1. \A g \in File : disk[g] <= disk[g]
    BY <1>1, Numbers
  <2>2. QED
    BY <1>1, <1>5, <1>6, <2>1 DEF FloorOK
<1>9. ASSUME NEW s \in Server PROVE HandlerOK(srv[s], session[s], client')
  <2>1. HandlerOK(srv[s], session[s], client) /\ srv[s].ask \in Nat
    BY FileKindsAssumption DEF Inv, TypeOK, Process
  <2>2. CASE srv[s].for = c
    BY <2>1, <2>2, <1>3, <1>5, <1>6 DEF HandlerOK, Waits
  <2>3. CASE srv[s].for # c
    BY <2>1, <2>3, <1>6 DEF HandlerOK
  <2>4. QED
    BY <2>2, <2>3
<1>10. QED
  BY <1>1, <1>6, <1>7, <1>8, <1>9, ClientMoves

-----------------------------------------------------------------------------
(* The theorems.                                                           *)

LEMMA InitInv == Init => Inv
<1> SUFFICES ASSUME Init PROVE Inv
  OBVIOUS
<1>1. /\ disk = Unread /\ path = Nobody /\ client = [c \in Client |-> NoRequest]
      /\ srv = [s \in Server |-> Off] /\ session = [s \in Server |-> NoSession]
  BY DEF Init
<1>2. TypeOK
  BY <1>1, Idles DEF TypeOK
<1>3. /\ Off.step = "idle" /\ Off.pc = "off" /\ ~NoSession.live /\ NoRequest.pc = "idle"
      /\ NoRequest.floor = Unread
  BY DEF Off, NoSession, NoRequest
<1>4. EndpointOK /\ FreshUnlessSlipped
  BY <1>1, <1>3 DEF EndpointOK, Serving, FreshUnlessSlipped
<1>5. FloorOK(disk, client)
  BY <1>1, <1>3 DEF FloorOK, Unread
<1>6. \A s \in Server : SessionOK(srv[s], session[s], disk) /\ HandlerOK(srv[s], session[s], client)
  BY <1>1, <1>3 DEF SessionOK, GovernedOK, ResolutionOK, LedgerOK, HandlerOK
<1>7. QED
  BY <1>2, <1>4, <1>5, <1>6 DEF Inv

LEMMA NextInv == Inv /\ [Next]_vars => Inv'
<1> SUFFICES ASSUME Inv, [Next]_vars PROVE Inv'
  OBVIOUS
<1>1. CASE \E f \in File : Edit(f)
  BY <1>1, EditKeeps
<1>2. CASE \E s \in Server : Lifecycle(s)
  BY <1>2, LoadConfigKeeps, TakeIdentityKeeps, BindKeeps, CloseKeeps, OffKeeps DEF Lifecycle
<1>3. CASE \E s \in Server : Handle(s)
  BY <1>3, AcceptKeeps, CheckIdentityKeeps, DispatchKeeps, VerifyKeeps, SampleBeforeKeeps,
     AnalyseKeeps, RematchKeeps, SampleLedgerKeeps, SelfMatchKeeps, RenderKeeps,
     PostVerifyKeeps DEF Handle
<1>4. CASE \E c \in Client : GiveUp(c) \/ \E kind \in Kinds : Ask(c, kind)
  BY <1>4, GiveUpKeeps, AskKeeps
<1>5. CASE UNCHANGED vars
  BY <1>5 DEF vars, Inv, TypeOK, EndpointOK, Serving, FreshUnlessSlipped
<1>6. QED
  BY <1>1, <1>2, <1>3, <1>4, <1>5 DEF Next

\* The invariant of the resident pilot: whoever edits, kills, asks, gives up or
\* answers in whatever order, sessions, handlers and the endpoint stay sound.
THEOREM ResidentInductive == Spec => []Inv
BY InitInv, NextInv, PTL DEF Spec

\* However many clients ask however many servers, and whenever files are edited:
\* what a warm answer reflects had not been replaced when the client asked, but
\* for files edited in one of the two unguarded windows.
THEOREM WarmIsFreshAlways == Spec => []WarmIsFresh
<1>1. Inv => WarmIsFresh
  BY DEF Inv, WarmIsFresh
<1>2. QED
  BY <1>1, ResidentInductive, PTL

\* However many servers start, close or are killed: one that listens owns the
\* endpoint's path and is alone, unless it bound the path while another was
\* between closing its socket and unlinking the path.
THEOREM ListenerSoundAlways == Spec => []ListenerSound
<1>1. Inv => ListenerSound
  BY DEF Inv, EndpointOK, ListenerSound, ListenerIsReachable, OneListener
<1>2. QED
  BY <1>1, ResidentInductive, PTL
=============================================================================
