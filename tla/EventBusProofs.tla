----------------------------- MODULE EventBusProofs -----------------------------
(***************************************************************************)
(* Proofs about the event bus, for any number of publishes, handlers,      *)
(* interceptors and contract versions: interceptors add and never veto, a  *)
(* publish is judged with its own edge, those who were counted are called, *)
(* and history and buffer agree.                                           *)
(***************************************************************************)
EXTENDS EventBus, FiniteSetTheorems, TLAPS

(***************************************************************************)
(* The invariant.  CallOK is what holds of one publish: its frame f, what  *)
(* its handlers d and interceptors o have done, the contract versions t,   *)
(* and whether its hook was called.                                        *)
(***************************************************************************)

Distinct(s) == \A j, k \in DOMAIN s : s[j] = s[k] => j = k

\* The versions t of the contracts allow a payload of call c.
Allows(c, payload, t) ==
  LET i == IntentOf[c]
  IN  IF t[i] = 0 THEN ~StrictContracts ELSE payload \in Contracts[i][t[i]]

\* An interceptor still to come has not been applied.
ChainOK(f) ==
  /\ Distinct(f.chain)
  /\ f.pc = "interceptor" =>
       \A k \in DOMAIN f.chain, j \in DOMAIN f.applied : f.chain[k] # f.applied[j]
  /\ f.pc = "interceptorAudit" =>
       /\ f.chain # <<>>
       /\ \A k \in DOMAIN f.chain, j \in DOMAIN f.applied : k # 1 => f.chain[k] # f.applied[j]

\* What the event holds is what its publisher and the applied interceptors
\* gave it, each key once.
Offers(f, o) == UNION {o[f.applied[k]] : k \in DOMAIN f.applied}
ProvenanceOK(c, f, o) ==
  /\ f.payload = PayloadOf[c] \cup Offers(f, o)
  /\ \A k \in DOMAIN f.applied :
       o[f.applied[k]] \cap (PayloadOf[c] \cup UNION {o[f.applied[j]] : j \in 1 .. k - 1}) = {}

\* The event is in the history, or was until it was cleared.
Recorded(f) ==
  \/ f.pc \in {"enqueue", "enqueueFails", "publishedAudit"} \cup PastHandlers
  \/ f.pc = "rejected" /\ f.why \in {"enqueue", "handler"}

\* The hard policies have let the event pass.
Accepted(f) == f.pc \in {"softAudit", "softHook", "policy"} \/ Recorded(f)

ContractOK(c, f, t) ==
  f.pc \in {"interceptor", "interceptorAudit"} =>
    /\ f.entered <= t[IntentOf[c]]
    /\ f.entered = t[IntentOf[c]] => Allows(c, f.payload, t)

HandlersOK(f, d) ==
  /\ f.pc \in PastHandlers => \A h \in Handler : d[h] # "none" <=> h \in f.matching
  /\ (\E h \in Handler : d[h] # "none") => f.pc \in PastHandlers \/ (f.pc = "rejected" /\ f.why = "handler")
  /\ f.pc \in {"onPublish", "resolved"} => \A h \in Handler : d[h] \in {"none", "done"}

CallOK(c, f, d, o, t, called) ==
  /\ ChainOK(f) /\ ProvenanceOK(c, f, o) /\ ContractOK(c, f, t) /\ HandlersOK(f, d)
  /\ f.pc \in {"idle", "rawAudit"} => f.chain = <<>> /\ f.applied = <<>>
  /\ c \in Sealed => f.chain = <<>> /\ f.applied = <<>>
  /\ f.pc # "rejected" => f.why = "none"
  /\ f.why = "lateContract" => f.entered < t[IntentOf[c]]
  /\ Edge(c) \in HardEdges => ~Accepted(f)
  /\ IsFiniteSet(f.matching)
  /\ called <=> f.pc \in {"onPublish", "resolved"}

\* Calls enter the history and the buffer once, and in one order.
SameOrder ==
  \A i, j \in DOMAIN recorded, k, l \in DOMAIN buffer :
    buffer[k] = recorded[i] /\ buffer[l] = recorded[j] /\ i < j => k < l

RecordsOK ==
  /\ \A k \in DOMAIN recorded : Recorded(frame[recorded[k]])
  /\ \A k \in DOMAIN buffer : Recorded(frame[buffer[k]])
  /\ Distinct(recorded) /\ Distinct(buffer) /\ SameOrder
  /\ HistoryIsRecent
  /\ \A k \in DOMAIN history : history[k].notified = Cardinality(frame[history[k].call].matching)

Inv ==
  /\ TypeOK
  /\ IsFiniteSet(subscriptions)
  /\ \A i \in Intent : Distinct(interceptors[i])
  /\ NoPhantomEdge
  /\ RecordsOK
  /\ \A c \in Call : CallOK(c, frame[c], delivery[c], offered[c], contracts, c \in hooked)

-----------------------------------------------------------------------------
(* Sequences.                                                              *)

LEMMA TailDistinct ==
  ASSUME NEW S, NEW s \in Seq(S), s # <<>>, Distinct(s)
  PROVE  /\ Tail(s) \in Seq(S) /\ Distinct(Tail(s))
         /\ \A k \in DOMAIN Tail(s) : k + 1 \in DOMAIN s /\ k + 1 # 1 /\ Tail(s)[k] = s[k + 1]
         /\ Head(s) \in S /\ Head(s) = s[1] /\ 1 \in DOMAIN s
BY DEF Distinct

LEMMA AppendDistinct ==
  ASSUME NEW S, NEW s \in Seq(S), NEW e \in S, Distinct(s), \A k \in DOMAIN s : s[k] # e
  PROVE  Distinct(Append(s, e))
BY DEF Distinct

LEMMA ConcatElements ==
  ASSUME NEW S, NEW u \in Seq(S), NEW v \in Seq(S)
  PROVE  /\ u \o v \in Seq(S) /\ Len(u \o v) = Len(u) + Len(v)
         /\ \A j \in 1 .. Len(u) + Len(v) :
              (u \o v)[j] = IF j <= Len(u) THEN u[j] ELSE v[j - Len(u)]
OBVIOUS

LEMMA RemoveDistinct ==
  ASSUME NEW S, NEW s \in Seq(S), Distinct(s), NEW k \in DOMAIN s
  PROVE  RemoveAt(s, k) \in Seq(S) /\ Distinct(RemoveAt(s, k))
<1> DEFINE t == RemoveAt(s, k)
<1> DEFINE u == SubSeq(s, 1, k - 1)
           v == SubSeq(s, k + 1, Len(s))
<1>1. /\ Len(s) \in Nat /\ k \in 1 .. Len(s) /\ k \in Nat
      /\ u \in Seq(S) /\ v \in Seq(S)
      /\ Len(u) = k - 1 /\ Len(v) = Len(s) - k
      /\ \A j \in 1 .. k - 1 : u[j] = s[j]
      /\ \A j \in 1 .. Len(s) - k : v[j] = s[k + j]
  OBVIOUS
<1>2. t = u \o v
  BY DEF RemoveAt
<1> HIDE DEF t, u, v
<1>3. /\ t \in Seq(S) /\ Len(t) = Len(s) - 1
      /\ \A j \in 1 .. Len(s) - 1 : t[j] = IF j < k THEN u[j] ELSE v[j - (k - 1)]
  BY <1>1, <1>2, ConcatElements
<1>4. DOMAIN t = 1 .. Len(s) - 1 /\ DOMAIN s = 1 .. Len(s)
  BY <1>1, <1>3
<1>5. \A j \in 1 .. Len(s) - 1 : t[j] = IF j < k THEN s[j] ELSE s[j + 1]
  <2> TAKE j \in 1 .. Len(s) - 1
  <2>1. CASE j < k
    BY <1>1, <1>3, <2>1
  <2>2. CASE ~(j < k)
    <3>1. j - (k - 1) \in 1 .. Len(s) - k /\ k + (j - (k - 1)) = j + 1
      BY <1>1, <2>2
    <3>2. v[j - (k - 1)] = s[k + (j - (k - 1))]
      BY <1>1, <3>1
    <3>3. QED
      BY <1>3, <2>2, <3>1, <3>2
  <2>3. QED
    BY <2>1, <2>2
<1>6. Distinct(t)
  <2>1. SUFFICES ASSUME NEW i \in 1 .. Len(s) - 1, NEW j \in 1 .. Len(s) - 1, t[i] = t[j]
                 PROVE  i = j
    BY <1>4 DEF Distinct
  <2> DEFINE at(n) == IF n < k THEN n ELSE n + 1
  <2>2. /\ at(i) \in DOMAIN s /\ at(j) \in DOMAIN s
        /\ s[at(i)] = t[i] /\ s[at(j)] = t[j]
    BY <1>1, <1>4, <1>5
  <2>3. at(i) = at(j)
    BY <2>1, <2>2 DEF Distinct
  <2>4. QED
    BY <1>1, <2>3
<1>7. QED
  BY <1>3, <1>6 DEF t

-----------------------------------------------------------------------------
(* One publish moves.                                                      *)

LEMMA AllowsIsContractAllows ==
  \A c, payload : ContractAllows(c, payload) <=> Allows(c, payload, contracts)
BY DEF Allows, ContractAllows

LEMMA SeqElements ==
  ASSUME NEW S, NEW s \in Seq(S)
  PROVE  \A k \in DOMAIN s : s[k] \in S
OBVIOUS

LEMMA ElementsTyped ==
  ASSUME TypeOK
  PROVE  /\ \A k \in DOMAIN recorded : recorded[k] \in Call
         /\ \A k \in DOMAIN buffer : buffer[k] \in Call
         /\ \A k \in DOMAIN history : history[k].call \in Call
         /\ Len(recorded) \in Nat /\ Len(history) \in Nat /\ Len(buffer) \in Nat
         /\ DOMAIN recorded = 1 .. Len(recorded) /\ DOMAIN history = 1 .. Len(history)
         /\ DOMAIN buffer = 1 .. Len(buffer)
<1>1. /\ recorded \in Seq(Call) /\ buffer \in Seq(Call)
      /\ history \in Seq([call : Call, notified : Nat])
  BY DEF TypeOK
<1>2. \A k \in DOMAIN recorded : recorded[k] \in Call
  BY <1>1
<1>3. \A k \in DOMAIN buffer : buffer[k] \in Call
  BY <1>1
<1> DEFINE R == [call : Call, notified : Nat]
<1> HIDE DEF R
<1>4. \A k \in DOMAIN history : history[k] \in R
  BY <1>1, SeqElements DEF R
<1>5. \A k \in DOMAIN history : history[k].call \in Call
  BY <1>4 DEF R
<1>6. Len(history) \in Nat /\ DOMAIN history = 1 .. Len(history)
  BY <1>1
<1>7. QED
  BY <1>1, <1>2, <1>3, <1>5, <1>6

\* Publish c moves from its frame to g; its handlers and interceptors get on to
\* d and o.
LEMMA CallMoves ==
  ASSUME Inv, NEW c \in Call, NEW g \in Frame, NEW d \in [Handler -> Progress],
         NEW o \in [Interceptor -> SUBSET Key],
         frame' = [frame EXCEPT ![c] = g], delivery' = [delivery EXCEPT ![c] = d],
         offered' = [offered EXCEPT ![c] = o], hooked' \in {hooked, hooked \cup {c}},
         UNCHANGED <<registries, history, buffer, recorded>>,
         graph' \subseteq (Intent \cup {Unknown}) \X Intent, NoPhantomEdge',
         CallOK(c, g, d, o, contracts, c \in hooked'),
         Recorded(frame[c]) => Recorded(g) /\ g.matching = frame[c].matching
  PROVE  Inv'
<1>1. TypeOK /\ RecordsOK
  BY DEF Inv
<1>2. TypeOK'
  BY <1>1 DEF TypeOK, registries
<1>3. /\ frame'[c] = g /\ delivery'[c] = d /\ offered'[c] = o
      /\ \A b \in Call \ {c} : /\ frame'[b] = frame[b] /\ delivery'[b] = delivery[b]
                               /\ offered'[b] = offered[b] /\ (b \in hooked' <=> b \in hooked)
  BY <1>1 DEF TypeOK
<1>4. \A b \in Call : Recorded(frame[b]) =>
        Recorded(frame'[b]) /\ frame'[b].matching = frame[b].matching
  BY <1>3
<1>5. RecordsOK'
  <2>1. /\ \A k \in DOMAIN recorded : recorded[k] \in Call
        /\ \A k \in DOMAIN buffer : buffer[k] \in Call
        /\ \A k \in DOMAIN history : history[k].call \in Call
    BY <1>1, ElementsTyped
  <2>2. \A k \in DOMAIN history : Recorded(frame[history[k].call])
    <3>1. ASSUME NEW k \in DOMAIN history
          PROVE  Len(recorded) - Len(history) + k \in DOMAIN recorded
      BY <1>1 DEF RecordsOK, HistoryIsRecent, TypeOK
    <3>2. QED
      BY <1>1, <3>1 DEF RecordsOK, HistoryIsRecent
  <2>3. UNCHANGED <<history, buffer, recorded>>
    OBVIOUS
  <2>4. /\ \A k \in DOMAIN recorded : Recorded(frame'[recorded[k]])
        /\ \A k \in DOMAIN buffer : Recorded(frame'[buffer[k]])
    BY <1>1, <1>4, <2>1 DEF RecordsOK
  <2>5. \A k \in DOMAIN history :
          history[k].notified = Cardinality(frame'[history[k].call].matching)
    BY <1>1, <1>4, <2>1, <2>2 DEF RecordsOK
  <2>6. QED
    BY <1>1, <2>3, <2>4, <2>5 DEF RecordsOK, SameOrder, HistoryIsRecent
<1>6. \A b \in Call : CallOK(b, frame'[b], delivery'[b], offered'[b], contracts, b \in hooked')
  BY <1>3 DEF Inv
<1>7. IsFiniteSet(subscriptions') /\ \A i \in Intent : Distinct(interceptors'[i])
  BY DEF Inv, registries
<1>8. contracts' = contracts
  BY DEF registries
<1>9. QED
  BY <1>2, <1>5, <1>6, <1>7, <1>8 DEF Inv

LEMMA MovesTo ==
  ASSUME NEW c, NEW g, Move(c, g)
  PROVE  frame' = [frame EXCEPT ![c] = g]
BY DEF Move

\* Only the frame of publish c moves.
LEMMA FrameMoves ==
  ASSUME Inv, NEW c \in Call, NEW g \in Frame, Move(c, g),
         UNCHANGED <<registries, records, delivery, hooked, offered>>,
         CallOK(c, g, delivery[c], offered[c], contracts, c \in hooked),
         Recorded(frame[c]) => Recorded(g) /\ g.matching = frame[c].matching
  PROVE  Inv'
<1>1. TypeOK /\ NoPhantomEdge
  BY DEF Inv
<1>2. PICK d \in [Handler -> Progress] : d = delivery[c]
  BY <1>1 DEF TypeOK
<1>3. PICK o \in [Interceptor -> SUBSET Key] : o = offered[c]
  BY <1>1 DEF TypeOK
<1>4. /\ delivery' = [delivery EXCEPT ![c] = d] /\ offered' = [offered EXCEPT ![c] = o]
  BY <1>1, <1>2, <1>3 DEF TypeOK
<1>5. /\ graph' \subseteq (Intent \cup {Unknown}) \X Intent /\ NoPhantomEdge'
      /\ UNCHANGED <<registries, history, buffer, recorded>> /\ hooked' = hooked
  BY <1>1 DEF TypeOK, NoPhantomEdge, records
<1>6. frame' = [frame EXCEPT ![c] = g]
  BY DEF Move
<1>7. /\ hooked' \in {hooked, hooked \cup {c}}
      /\ CallOK(c, g, d, o, contracts, c \in hooked')
  BY <1>5, <1>2, <1>3
<1>8. QED
  BY <1>4, <1>5, <1>6, <1>7, CallMoves

LEMMA Known ==
  ASSUME Inv, NEW c \in Call
  PROVE  /\ TypeOK
         /\ frame[c] \in Frame /\ delivery[c] \in [Handler -> Progress]
         /\ offered[c] \in [Interceptor -> SUBSET Key] /\ contracts[IntentOf[c]] \in Nat
         /\ IntentOf[c] \in Intent /\ PayloadOf[c] \subseteq Key /\ SourceOf[c] \in Intent \cup {Unknown}
         /\ CallOK(c, frame[c], delivery[c], offered[c], contracts, c \in hooked)
BY EventBusAssumption DEF Inv, TypeOK

\* A frame at another await, or rejected for a reason.
LEMMA GotoFrame ==
  ASSUME NEW f \in Frame, NEW l \in Awaits \cup {"resolved"}
  PROVE  /\ Goto(f, l) \in Frame /\ Goto(f, l).pc = l
         /\ Goto(f, l).payload = f.payload /\ Goto(f, l).chain = f.chain
         /\ Goto(f, l).applied = f.applied /\ Goto(f, l).matching = f.matching
         /\ Goto(f, l).entered = f.entered /\ Goto(f, l).why = f.why
BY DEF Goto, Frame

LEMMA RejectFrame ==
  ASSUME NEW f \in Frame, NEW e \in Reasons
  PROVE  /\ Reject(f, e) \in Frame /\ Reject(f, e).pc = "rejected" /\ Reject(f, e).why = e
         /\ Reject(f, e).payload = f.payload /\ Reject(f, e).chain = f.chain
         /\ Reject(f, e).applied = f.applied /\ Reject(f, e).matching = f.matching
         /\ Reject(f, e).entered = f.entered
BY DEF Reject, Frame

-----------------------------------------------------------------------------
(* The guards and the interceptors.                                        *)

LEMMA PublishStep ==
  ASSUME Inv, NEW c \in Call, Publish(c) \/ RawAudit(c)
  PROVE  Inv'
<1> DEFINE f == frame[c]
<1>1. f \in Frame /\ TypeOK /\ c \in Call /\ interceptors[IntentOf[c]] \in Seq(Interceptor)
      /\ contracts[IntentOf[c]] \in Nat
      /\ CallOK(c, f, delivery[c], offered[c], contracts, c \in hooked)
      /\ Distinct(interceptors[IntentOf[c]])
  BY Known DEF Inv, TypeOK
<1>2. /\ f.pc \in {"idle", "rawAudit"}
      /\ \/ Move(c, Goto(f, "rawAudit"))
         \/ Move(c, Guarded(c, f))
      /\ UNCHANGED <<registries, records, delivery, hooked, offered>>
  BY DEF Publish, RawAudit
<1>3. PICK d \in [Handler -> Progress] : d = delivery[c]
  BY Known
<1>4. PICK o \in [Interceptor -> SUBSET Key] : o = offered[c]
  BY Known
<1> HIDE DEF f
<1>5. ~Recorded(f) /\ f.chain = <<>> /\ f.applied = <<>> /\ f.why = "none" /\ c \notin hooked
      /\ f.payload = PayloadOf[c] /\ IsFiniteSet(f.matching)
      /\ \A h \in Handler : d[h] = "none"
  BY <1>1, <1>2, <1>3 DEF CallOK, Recorded, PastHandlers, ProvenanceOK, Offers, HandlersOK
<1>6. ASSUME NEW g \in Frame, g.payload = f.payload, g.applied = f.applied, g.matching = f.matching,
             \/ g.pc = "rawAudit" /\ g.chain = <<>> /\ g.why = "none"
             \/ g.pc = "rejected" /\ g.chain = <<>> /\ g.why \in {"intent", "source", "contract"}
             \/ /\ g.pc = "interceptor" /\ g.why = "none" /\ g.entered = contracts[IntentOf[c]]
                /\ g.chain = IF c \in Sealed THEN <<>> ELSE interceptors[IntentOf[c]]
                /\ Allows(c, f.payload, contracts)
      PROVE  CallOK(c, g, d, o, contracts, c \in hooked)
  <2>1. ChainOK(g)
    BY <1>1, <1>5, <1>6 DEF ChainOK, Distinct
  <2>2. ProvenanceOK(c, g, o)
    BY <1>5, <1>6 DEF ProvenanceOK, Offers
  <2>3. ContractOK(c, g, contracts) /\ HandlersOK(g, d)
    BY <1>1, <1>5, <1>6 DEF ContractOK, HandlersOK, PastHandlers
  <2>4. ~Accepted(g) /\ g.why # "lateContract" /\ g.pc \notin {"onPublish", "resolved"}
    BY <1>6 DEF Accepted, Recorded, PastHandlers
  <2>5. QED
    BY <1>5, <1>6, <2>1, <2>2, <2>3, <2>4 DEF CallOK
<1>7. CASE Move(c, Goto(f, "rawAudit"))
  <2>1. PICK g \in Frame : g = Goto(f, "rawAudit")
    BY <1>1, GotoFrame DEF Awaits
  <2>2. CallOK(c, g, d, o, contracts, c \in hooked)
    BY <1>1, <1>5, <1>6, <2>1, GotoFrame DEF Awaits
  <2>3. QED
    BY <1>2, <1>3, <1>4, <1>5, <1>7, <2>1, <2>2, FrameMoves DEF f
<1>8. CASE Move(c, Guarded(c, f))
  <2>1. PICK g : g = Guarded(c, f)
    OBVIOUS
  <2>2. CASE g = Reject(f, "intent") \/ g = Reject(f, "source") \/ g = Reject(f, "contract")
    <3>1. g \in Frame /\ CallOK(c, g, d, o, contracts, c \in hooked)
      BY <1>1, <1>5, <1>6, <2>2, RejectFrame DEF Reasons
    <3>2. QED
      BY <1>2, <1>3, <1>4, <1>5, <1>8, <2>1, <3>1, FrameMoves DEF f
  <2>3. CASE /\ ContractAllows(c, f.payload)
             /\ g = [f EXCEPT !.pc = "interceptor", !.entered = contracts[IntentOf[c]],
                        !.chain = IF c \in Sealed THEN <<>> ELSE interceptors[IntentOf[c]]]
    <3>1. PICK ch \in Seq(Interceptor) :
            ch = IF c \in Sealed THEN <<>> ELSE interceptors[IntentOf[c]]
      <4>1. <<>> \in Seq(Interceptor)
        OBVIOUS
      <4>2. CASE c \in Sealed
        BY <4>1, <4>2
      <4>3. CASE c \notin Sealed
        BY <1>1, <4>3
      <4>4. QED
        BY <4>2, <4>3
    <3>2. g = [f EXCEPT !.pc = "interceptor", !.entered = contracts[IntentOf[c]], !.chain = ch]
      BY <2>3, <3>1
    <3>3. /\ g \in Frame /\ g.pc = "interceptor" /\ g.why = f.why /\ g.chain = ch
          /\ g.entered = contracts[IntentOf[c]] /\ g.payload = f.payload
          /\ g.applied = f.applied /\ g.matching = f.matching
      BY <1>1, <3>2 DEF Frame, Awaits
    <3>4. CallOK(c, g, d, o, contracts, c \in hooked)
      BY <1>5, <1>6, <2>3, <3>1, <3>3, AllowsIsContractAllows
    <3>5. QED
      BY <1>2, <1>3, <1>4, <1>5, <1>8, <2>1, <3>3, <3>4, FrameMoves DEF f
  <2>4. QED
    BY <2>1, <2>2, <2>3 DEF Guarded
<1>9. QED
  BY <1>2, <1>7, <1>8 DEF f

\* What an interceptor that was not applied offers does not touch the event.
LEMMA OthersOffer ==
  ASSUME NEW c \in Call, NEW f \in Frame, NEW o \in [Interceptor -> SUBSET Key],
         NEW i \in Interceptor, NEW ks \in SUBSET Key,
         \A j \in DOMAIN f.applied : f.applied[j] # i, ProvenanceOK(c, f, o)
  PROVE  ProvenanceOK(c, f, [o EXCEPT ![i] = ks])
<1> DEFINE p == [o EXCEPT ![i] = ks]
<1>1. f.applied \in Seq(Interceptor) /\ Len(f.applied) \in Nat
      /\ DOMAIN f.applied = 1 .. Len(f.applied)
  BY DEF Frame
<1>2. \A j \in DOMAIN f.applied : f.applied[j] \in Interceptor
  BY <1>1
<1>3. \A j \in DOMAIN f.applied : p[f.applied[j]] = o[f.applied[j]]
  BY <1>2
<1> HIDE DEF p
<1>4. Offers(f, p) = Offers(f, o)
  BY <1>3 DEF Offers
<1>5. ASSUME NEW k \in DOMAIN f.applied
      PROVE  {p[f.applied[j]] : j \in 1 .. k - 1} = {o[f.applied[j]] : j \in 1 .. k - 1}
  <2>1. \A j \in 1 .. k - 1 : j \in DOMAIN f.applied
    BY <1>1
  <2>2. QED
    BY <1>3, <2>1
<1>6. QED
  BY <1>3, <1>4, <1>5 DEF ProvenanceOK, p

\* An interceptor whose patches overwrite nothing is applied.
LEMMA Applied ==
  ASSUME NEW c \in Call, NEW f \in Frame, NEW g \in Frame, NEW o \in [Interceptor -> SUBSET Key],
         NEW i \in Interceptor, NEW ks \in SUBSET Key,
         \A j \in DOMAIN f.applied : f.applied[j] # i, ProvenanceOK(c, f, o),
         ks \cap f.payload = {}, g.payload = f.payload \cup ks, g.applied = Append(f.applied, i)
  PROVE  ProvenanceOK(c, g, [o EXCEPT ![i] = ks])
<1>1. PICK p \in [Interceptor -> SUBSET Key] : p = [o EXCEPT ![i] = ks]
  OBVIOUS
<1>2. ProvenanceOK(c, f, p) /\ p[i] = ks
  BY <1>1, OthersOffer
<1>3. PICK s \in Seq(Interceptor) : s = f.applied
  BY DEF Frame
<1>4. PICK u \in Seq(Interceptor) : u = g.applied
  BY DEF Frame
<1>5. /\ Len(s) \in Nat /\ DOMAIN s = 1 .. Len(s) /\ DOMAIN u = 1 .. Len(s) + 1
      /\ u[Len(s) + 1] = i /\ \A j \in 1 .. Len(s) : u[j] = s[j]
  BY <1>3, <1>4
<1>6. Offers(g, p) = Offers(f, p) \cup ks
  <2>1. Offers(g, p) = UNION {p[u[j]] : j \in 1 .. Len(s) + 1}
    BY <1>4, <1>5 DEF Offers
  <2>2. Offers(f, p) = UNION {p[s[j]] : j \in 1 .. Len(s)}
    BY <1>3, <1>5 DEF Offers
  <2>3. \A j \in 1 .. Len(s) + 1 : j \in 1 .. Len(s) \/ j = Len(s) + 1
    BY <1>5
  <2>4. {p[u[j]] : j \in 1 .. Len(s) + 1} = {p[s[j]] : j \in 1 .. Len(s)} \cup {ks}
    <3>1. \A j \in 1 .. Len(s) : j \in 1 .. Len(s) + 1 /\ p[u[j]] = p[s[j]]
      BY <1>5
    <3>2. Len(s) + 1 \in 1 .. Len(s) + 1 /\ p[u[Len(s) + 1]] = ks
      BY <1>2, <1>5
    <3>3. QED
      BY <2>3, <3>1, <3>2
  <2>5. QED
    BY <2>1, <2>2, <2>4
<1>7. g.payload = PayloadOf[c] \cup Offers(g, p)
  BY <1>2, <1>6 DEF ProvenanceOK
<1>8. ASSUME NEW k \in DOMAIN u
      PROVE  p[u[k]] \cap (PayloadOf[c] \cup UNION {p[u[j]] : j \in 1 .. k - 1}) = {}
  <2>1. k \in 1 .. Len(s) \/ k = Len(s) + 1
    BY <1>5
  <2>2. {p[u[j]] : j \in 1 .. k - 1} = {p[s[j]] : j \in 1 .. k - 1}
    <3>1. \A j \in 1 .. k - 1 : u[j] = s[j]
      BY <1>5, <2>1
    <3>2. QED
      BY <3>1
  <2>3. CASE k \in 1 .. Len(s)
    BY <1>2, <1>3, <1>5, <2>2, <2>3 DEF ProvenanceOK
  <2>4. CASE k = Len(s) + 1
    <3>1. {p[s[j]] : j \in 1 .. k - 1} = {p[s[j]] : j \in DOMAIN s}
      BY <1>5, <2>4
    <3>2. UNION {p[s[j]] : j \in 1 .. k - 1} = Offers(f, p)
      BY <1>3, <3>1 DEF Offers
    <3>3. PayloadOf[c] \cup Offers(f, p) = f.payload
      BY <1>2 DEF ProvenanceOK
    <3>4. QED
      BY <1>2, <1>5, <2>2, <2>4, <3>2, <3>3
  <2>5. QED
    BY <2>1, <2>3, <2>4
<1>9. ProvenanceOK(c, g, p)
  BY <1>4, <1>7, <1>8 DEF ProvenanceOK
<1>10. QED
  BY <1>1, <1>9

LEMMA InterceptorSettlesStep ==
  ASSUME Inv, NEW c \in Call, InterceptorSettles(c)
  PROVE  Inv'
<1>1. PICK f \in Frame : f = frame[c]
  BY Known
<1>2. PICK d \in [Handler -> Progress] : d = delivery[c]
  BY Known
<1>3. PICK o \in [Interceptor -> SUBSET Key] : o = offered[c]
  BY Known
<1>4. /\ CallOK(c, f, d, o, contracts, c \in hooked) /\ f.pc = "interceptor" /\ f.chain # <<>>
      /\ f.chain \in Seq(Interceptor) /\ f.applied \in Seq(Interceptor)
  BY <1>1, <1>2, <1>3, Known DEF InterceptorSettles, Frame
<1>5. /\ ChainOK(f) /\ ProvenanceOK(c, f, o) /\ ContractOK(c, f, contracts) /\ HandlersOK(f, d)
      /\ f.why = "none" /\ c \notin hooked /\ c \notin Sealed /\ IsFiniteSet(f.matching)
  BY <1>4 DEF CallOK
<1>6. PICK i \in Interceptor : i = Head(f.chain)
  BY <1>4, <1>5, TailDistinct DEF ChainOK
<1>7. /\ i = f.chain[1] /\ 1 \in DOMAIN f.chain
      /\ Tail(f.chain) \in Seq(Interceptor) /\ Distinct(Tail(f.chain))
      /\ \A k \in DOMAIN Tail(f.chain) :
           k + 1 \in DOMAIN f.chain /\ k + 1 # 1 /\ Tail(f.chain)[k] = f.chain[k + 1]
  BY <1>4, <1>5, <1>6, TailDistinct DEF ChainOK
<1>8. \A j \in DOMAIN f.applied : f.applied[j] # i
  BY <1>4, <1>5, <1>7 DEF ChainOK
<1>9. PICK ps \in Patches :
        /\ offered' = [offered EXCEPT ![c][i] = Keys(ps)]
        /\ Move(c, CASE ps = <<>> -> [f EXCEPT !.chain = Tail(@)]
                     [] /\ ps # <<>>
                        /\ \/ Overwrites(f.payload, ps)
                           \/ ~ContractAllows(c, f.payload \cup Keys(ps)) ->
                          Goto(f, "interceptorAudit")
                     [] OTHER -> [f EXCEPT !.pc = "interceptorAudit",
                                           !.payload = @ \cup Keys(ps),
                                           !.applied = Append(@, i)])
        /\ UNCHANGED <<registries, records, delivery, hooked>>
  BY <1>1, <1>6 DEF InterceptorSettles
<1>10. PICK n \in Nat : ps \in Seq(SUBSET Key) /\ n = Len(ps) /\ DOMAIN ps = 1 .. n
  BY EventBusAssumption
<1>11. PICK ks \in SUBSET Key : ks = Keys(ps)
  <2>1. \A k \in DOMAIN ps : ps[k] \in SUBSET Key
    BY <1>10, SeqElements
  <2>2. Keys(ps) \in SUBSET Key
    BY <2>1 DEF Keys, Range
  <2>3. QED
    BY <2>2
<1>12. PICK p \in [Interceptor -> SUBSET Key] : p = [o EXCEPT ![i] = ks]
  OBVIOUS
<1>13. /\ ProvenanceOK(c, f, p)
       /\ offered' = [offered EXCEPT ![c] = p] /\ delivery' = [delivery EXCEPT ![c] = d]
  BY <1>2, <1>3, <1>5, <1>8, <1>9, <1>11, <1>12, OthersOffer, Known DEF TypeOK
<1>14. ~Recorded(frame[c]) /\ hooked' \in {hooked, hooked \cup {c}} /\ hooked' = hooked
  BY <1>1, <1>4, <1>5, <1>9 DEF Recorded, PastHandlers
<1>15. /\ graph' \subseteq (Intent \cup {Unknown}) \X Intent /\ NoPhantomEdge'
       /\ UNCHANGED <<registries, history, buffer, recorded>>
  BY <1>9, Known DEF Inv, TypeOK, NoPhantomEdge, records
<1>16. ASSUME NEW g \in Frame, Move(c, g), CallOK(c, g, d, p, contracts, c \in hooked)
       PROVE  Inv'
  <2>1. frame' = [frame EXCEPT ![c] = g]
    BY <1>16, MovesTo
  <2>2. CallOK(c, g, d, p, contracts, c \in hooked')
    BY <1>14, <1>16
  <2>3. QED
    BY <1>13, <1>14, <1>15, <2>1, <2>2, CallMoves
<1>17. ASSUME NEW g \in Frame, g.pc \in {"interceptor", "interceptorAudit"},
              g.matching = f.matching, g.why = f.why, g.entered = f.entered,
              ChainOK(g), ProvenanceOK(c, g, p),
              Allows(c, g.payload, contracts) \/ g.payload = f.payload
       PROVE  CallOK(c, g, d, p, contracts, c \in hooked)
  <2>1. ContractOK(c, g, contracts)
    BY <1>4, <1>5, <1>17 DEF ContractOK
  <2>2. HandlersOK(g, d)
    BY <1>4, <1>5, <1>17 DEF HandlersOK, PastHandlers
  <2>3. ~Accepted(g)
    BY <1>17 DEF Accepted, Recorded, PastHandlers
  <2>4. g.pc \notin {"idle", "rawAudit", "rejected", "onPublish", "resolved"} /\ g.why = "none"
    BY <1>5, <1>17
  <2>5. QED
    BY <1>5, <1>17, <2>1, <2>2, <2>3, <2>4 DEF CallOK
<1>18. CASE ps = <<>>
  <2>1. PICK g : g = [f EXCEPT !.chain = Tail(f.chain)]
    OBVIOUS
  <2>2. /\ g \in Frame /\ g.pc = "interceptor" /\ g.payload = f.payload /\ g.applied = f.applied
        /\ g.matching = f.matching /\ g.why = f.why /\ g.entered = f.entered
        /\ g.chain = Tail(f.chain)
    BY <1>4, <1>7, <2>1 DEF Frame
  <2>3. ChainOK(g) /\ ProvenanceOK(c, g, p)
    BY <1>4, <1>5, <1>7, <1>13, <2>2 DEF ChainOK, ProvenanceOK, Offers
  <2>4. Move(c, g)
    BY <1>9, <1>18, <2>1
  <2>5. QED
    BY <1>16, <1>17, <2>2, <2>3, <2>4
<1>19. CASE /\ ps # <<>>
            /\ \/ Overwrites(f.payload, ps)
               \/ ~ContractAllows(c, f.payload \cup Keys(ps))
  <2>1. PICK g : g = Goto(f, "interceptorAudit")
    OBVIOUS
  <2>2. /\ g \in Frame /\ g.pc = "interceptorAudit" /\ g.payload = f.payload
        /\ g.applied = f.applied /\ g.matching = f.matching /\ g.why = f.why
        /\ g.entered = f.entered /\ g.chain = f.chain
    BY <2>1, GotoFrame DEF Awaits
  <2>3. ChainOK(g) /\ ProvenanceOK(c, g, p)
    BY <1>4, <1>5, <1>13, <2>2 DEF ChainOK, ProvenanceOK, Offers
  <2>4. Move(c, g)
    BY <1>9, <1>19, <2>1
  <2>5. QED
    BY <1>16, <1>17, <2>2, <2>3, <2>4
<1>20. CASE /\ ps # <<>> /\ ~Overwrites(f.payload, ps)
            /\ ContractAllows(c, f.payload \cup Keys(ps))
  <2>1. PICK g : g = [f EXCEPT !.pc = "interceptorAudit", !.payload = f.payload \cup Keys(ps),
                               !.applied = Append(f.applied, i)]
    OBVIOUS
  <2>2. Append(f.applied, i) \in Seq(Interceptor) /\ f.payload \cup ks \in SUBSET Key
    BY <1>4 DEF Frame
  <2>3. /\ g \in Frame /\ g.pc = "interceptorAudit" /\ g.payload = f.payload \cup ks
        /\ g.applied = Append(f.applied, i) /\ g.matching = f.matching /\ g.why = f.why
        /\ g.entered = f.entered /\ g.chain = f.chain
    BY <1>11, <2>1, <2>2 DEF Frame, Awaits
  <2>4. ks \cap f.payload = {}
    <3>1. \A k \in 1 .. n : ps[k] \cap f.payload = {}
      BY <1>10, <1>20 DEF Overwrites
    <3>2. QED
      BY <1>10, <1>11, <3>1 DEF Keys, Range
  <2>5. ProvenanceOK(c, g, p)
    BY <1>5, <1>8, <1>12, <2>3, <2>4, Applied
  <2>6. ChainOK(g)
    <3>1. \A j \in DOMAIN g.applied :
            (j \in DOMAIN f.applied /\ g.applied[j] = f.applied[j]) \/ g.applied[j] = i
      BY <1>4, <2>3
    <3>2. \A k \in DOMAIN f.chain : k # 1 => f.chain[k] # i
      BY <1>5, <1>7 DEF ChainOK, Distinct
    <3>3. QED
      BY <1>4, <1>5, <2>3, <3>1, <3>2 DEF ChainOK
  <2>7. Allows(c, g.payload, contracts) /\ Move(c, g)
    BY <1>9, <1>11, <1>20, <2>1, <2>3, AllowsIsContractAllows
  <2>8. QED
    BY <1>16, <1>17, <2>3, <2>5, <2>6, <2>7
<1>21. QED
  BY <1>18, <1>19, <1>20

LEMMA ProvenanceStays ==
  ASSUME NEW c, NEW f, NEW g, NEW o, ProvenanceOK(c, f, o),
         g.payload = f.payload, g.applied = f.applied
  PROVE  ProvenanceOK(c, g, o)
BY DEF ProvenanceOK, Offers

\* The steps that only move the frame of publish c: most conjuncts of CallOK
\* carry over when the event does not change.
LEMMA SameEvent ==
  ASSUME NEW c \in Call, NEW f \in Frame, NEW g \in Frame, NEW d \in [Handler -> Progress],
         NEW o \in [Interceptor -> SUBSET Key], NEW t, NEW called,
         CallOK(c, f, d, o, t, called), f.pc \notin {"idle", "rawAudit", "rejected"},
         g.payload = f.payload, g.chain = f.chain, g.applied = f.applied,
         g.matching = f.matching, g.entered = f.entered,
         g.pc \notin {"interceptor", "interceptorAudit", "idle", "rawAudit"},
         HandlersOK(g, d), g.pc # "rejected" => g.why = "none",
         g.why = "lateContract" => g.entered < t[IntentOf[c]],
         Edge(c) \in HardEdges => ~Accepted(g),
         called <=> g.pc \in {"onPublish", "resolved"}
  PROVE  CallOK(c, g, d, o, t, called)
<1>1. ChainOK(g) /\ ContractOK(c, g, t)
  BY DEF CallOK, ChainOK, ContractOK
<1>2. ProvenanceOK(c, g, o)
  BY ProvenanceStays DEF CallOK
<1>3. QED
  BY <1>1, <1>2 DEF CallOK

LEMMA InterceptorThrowsStep ==
  ASSUME Inv, NEW c \in Call, InterceptorThrows(c)
  PROVE  Inv'
<1>1. PICK f \in Frame : f = frame[c]
  BY Known
<1>2. PICK g \in Frame :
        /\ g = Goto(f, "interceptorAudit") /\ g.pc = "interceptorAudit" /\ g.payload = f.payload
        /\ g.applied = f.applied /\ g.matching = f.matching /\ g.why = f.why
        /\ g.entered = f.entered /\ g.chain = f.chain
  BY GotoFrame DEF Awaits
<1>3. /\ f.pc = "interceptor" /\ f.chain # <<>> /\ Move(c, g)
      /\ UNCHANGED <<registries, records, delivery, hooked, offered>>
  BY <1>1, <1>2 DEF InterceptorThrows
<1>4. CallOK(c, f, delivery[c], offered[c], contracts, c \in hooked)
  BY <1>1, Known
<1>5. /\ ChainOK(f) /\ ProvenanceOK(c, f, offered[c]) /\ ContractOK(c, f, contracts)
      /\ HandlersOK(f, delivery[c])
  BY <1>4 DEF CallOK
<1>6. ChainOK(g)
  BY <1>2, <1>3, <1>5 DEF ChainOK
<1>7. ContractOK(c, g, contracts)
  BY <1>2, <1>3, <1>5 DEF ContractOK
<1>8. HandlersOK(g, delivery[c])
  BY <1>2, <1>3, <1>5 DEF HandlersOK, PastHandlers
<1>9. ChainOK(g) /\ ProvenanceOK(c, g, offered[c]) /\ ContractOK(c, g, contracts)
      /\ HandlersOK(g, delivery[c])
  BY <1>2, <1>5, <1>6, <1>7, <1>8, ProvenanceStays
<1>10. ~Recorded(f) /\ ~Accepted(g)
  BY <1>2, <1>3 DEF Accepted, Recorded, PastHandlers
<1>11. CallOK(c, g, delivery[c], offered[c], contracts, c \in hooked)
  BY <1>2, <1>3, <1>4, <1>9, <1>10 DEF CallOK
<1>12. QED
  BY <1>1, <1>3, <1>10, <1>11, FrameMoves

LEMMA InterceptorAuditStep ==
  ASSUME Inv, NEW c \in Call, InterceptorAudit(c)
  PROVE  Inv'
<1>1. PICK f \in Frame : f = frame[c]
  BY Known
<1>2. CallOK(c, f, delivery[c], offered[c], contracts, c \in hooked) /\ f.pc = "interceptorAudit"
  BY <1>1, Known DEF InterceptorAudit
<1>3. f.chain \in Seq(Interceptor) /\ f.applied \in Seq(Interceptor) /\ f.chain # <<>>
      /\ Distinct(f.chain) /\ ChainOK(f)
  BY <1>2 DEF CallOK, ChainOK, Frame
<1>4. Tail(f.chain) \in Seq(Interceptor)
  BY <1>3
<1>5. PICK ch \in Seq(Interceptor) : ch = Tail(f.chain)
  BY <1>4
<1>6. /\ ch = Tail(f.chain) /\ Distinct(ch)
      /\ \A k \in DOMAIN ch : k + 1 \in DOMAIN f.chain /\ k + 1 # 1 /\ ch[k] = f.chain[k + 1]
  BY <1>3, <1>5, TailDistinct
<1>7. PICK g : g = [f EXCEPT !.pc = "interceptor", !.chain = ch]
  OBVIOUS
<1>8. /\ g \in Frame
      /\ g = [f EXCEPT !.pc = "interceptor", !.chain = ch]
      /\ g.pc = "interceptor" /\ g.payload = f.payload
      /\ g.applied = f.applied /\ g.matching = f.matching /\ g.why = f.why
      /\ g.entered = f.entered /\ g.chain = ch
  BY <1>7 DEF Awaits, Frame
<1>9. Move(c, g) /\ UNCHANGED <<registries, records, delivery, hooked, offered>>
  BY <1>1, <1>6, <1>8 DEF InterceptorAudit
<1>10. ChainOK(g)
  BY <1>2, <1>3, <1>6, <1>8 DEF ChainOK
<1>11. /\ ProvenanceOK(c, f, offered[c]) /\ ContractOK(c, f, contracts)
       /\ HandlersOK(f, delivery[c])
  BY <1>2 DEF CallOK
<1>12. ContractOK(c, g, contracts)
  BY <1>2, <1>8, <1>11 DEF ContractOK
<1>13. HandlersOK(g, delivery[c])
  BY <1>2, <1>8, <1>11 DEF HandlersOK, PastHandlers
<1>14. ProvenanceOK(c, g, offered[c]) /\ ContractOK(c, g, contracts) /\ HandlersOK(g, delivery[c])
  BY <1>8, <1>11, <1>12, <1>13, ProvenanceStays
<1>15. ~Recorded(f) /\ ~Accepted(g)
  BY <1>2, <1>8 DEF Accepted, Recorded, PastHandlers
<1>16. c \in Sealed => FALSE
  BY <1>2, <1>3 DEF CallOK
<1>17. CallOK(c, g, delivery[c], offered[c], contracts, c \in hooked)
  BY <1>2, <1>8, <1>10, <1>14, <1>15, <1>16 DEF CallOK
<1>18. QED
  BY <1>1, <1>8, <1>9, <1>15, <1>17, FrameMoves

LEMMA EndInterceptionStep ==
  ASSUME Inv, NEW c \in Call, EndInterception(c)
  PROVE  Inv'
<1>1. PICK f \in Frame : f = frame[c]
  BY Known
<1>2. PICK d \in [Handler -> Progress] : d = delivery[c]
  BY Known
<1>3. PICK o \in [Interceptor -> SUBSET Key] : o = offered[c]
  BY Known
<1>4. /\ CallOK(c, f, d, o, contracts, c \in hooked) /\ f.pc = "interceptor" /\ f.chain = <<>>
      /\ contracts[IntentOf[c]] \in Nat /\ f.entered \in Nat
  BY <1>1, <1>2, <1>3, Known DEF EndInterception, Frame
<1>5. \/ ContractAllows(c, f.payload) /\ Move(c, Goto(f, "flow"))
      \/ ~ContractAllows(c, f.payload) /\ Move(c, Reject(f, "lateContract"))
  BY <1>1 DEF EndInterception
<1>6. UNCHANGED <<registries, records, delivery, hooked, offered>> /\ ~Recorded(frame[c])
  BY <1>1, <1>4 DEF EndInterception, Recorded, PastHandlers
<1>7. ASSUME NEW g \in Frame, Move(c, g), CallOK(c, g, d, o, contracts, c \in hooked)
      PROVE  Inv'
  BY <1>2, <1>3, <1>6, <1>7, FrameMoves
<1>8. ASSUME NEW g \in Frame, g.pc \in {"flow", "rejected"}, g.matching = f.matching,
             g.pc = "rejected" => g.why = "lateContract"
      PROVE  HandlersOK(g, d) /\ ~Accepted(g)
  BY <1>4, <1>8 DEF CallOK, HandlersOK, PastHandlers, Accepted, Recorded
<1>9. CASE ContractAllows(c, f.payload) /\ Move(c, Goto(f, "flow"))
  <2>1. PICK g \in Frame :
          /\ g = Goto(f, "flow") /\ g.pc = "flow" /\ g.payload = f.payload
          /\ g.applied = f.applied /\ g.matching = f.matching /\ g.why = f.why
          /\ g.entered = f.entered /\ g.chain = f.chain
    BY GotoFrame DEF Awaits
  <2>2. HandlersOK(g, d) /\ ~Accepted(g) /\ g.why = "none" /\ c \notin hooked
    BY <1>4, <1>8, <2>1 DEF CallOK
  <2>3. CallOK(c, g, d, o, contracts, c \in hooked)
    BY <1>4, <2>1, <2>2, SameEvent
  <2>4. QED
    BY <1>7, <1>9, <2>1, <2>3
<1>10. CASE ~ContractAllows(c, f.payload) /\ Move(c, Reject(f, "lateContract"))
  <2>1. PICK g \in Frame :
          /\ g = Reject(f, "lateContract") /\ g.pc = "rejected" /\ g.payload = f.payload
          /\ g.applied = f.applied /\ g.matching = f.matching /\ g.why = "lateContract"
          /\ g.entered = f.entered /\ g.chain = f.chain
    BY RejectFrame DEF Reasons
  <2>2. HandlersOK(g, d) /\ ~Accepted(g) /\ c \notin hooked
    BY <1>4, <1>8, <2>1 DEF CallOK
  <2>3. g.entered < contracts[IntentOf[c]]
    BY <1>4, <1>10, <2>1, AllowsIsContractAllows DEF CallOK, ContractOK
  <2>4. CallOK(c, g, d, o, contracts, c \in hooked)
    BY <1>4, <2>1, <2>2, <2>3, SameEvent
  <2>5. QED
    BY <1>7, <1>10, <2>1, <2>4
<1>11. QED
  BY <1>5, <1>9, <1>10

LEMMA FlowStep ==
  ASSUME Inv, NEW c \in Call, Flow(c)
  PROVE  Inv'
<1>1. PICK f \in Frame : f = frame[c]
  BY Known
<1>2. PICK d \in [Handler -> Progress] : d = delivery[c]
  BY Known
<1>3. PICK o \in [Interceptor -> SUBSET Key] : o = offered[c]
  BY Known
<1>4. /\ CallOK(c, f, d, o, contracts, c \in hooked) /\ f.pc = "flow" /\ ~Recorded(f)
      /\ TypeOK /\ NoPhantomEdge /\ IsFiniteSet(subscriptions)
  BY <1>1, <1>2, <1>3, Known DEF Flow, Inv, Recorded, PastHandlers
<1>5. /\ UNCHANGED <<registries, history, buffer, recorded>> /\ UNCHANGED hooked
      /\ delivery' = [delivery EXCEPT ![c] = d] /\ offered' = [offered EXCEPT ![c] = o]
  BY <1>2, <1>3, <1>4 DEF Flow, TypeOK
<1>6. f.why = "none" /\ c \notin hooked /\ \A h \in Handler : d[h] = "none"
  BY <1>4 DEF CallOK, HandlersOK, PastHandlers
<1>7. ASSUME NEW g \in Frame, Move(c, g), CallOK(c, g, d, o, contracts, c \in hooked),
             graph' \subseteq (Intent \cup {Unknown}) \X Intent, NoPhantomEdge'
      PROVE  Inv'
  <2>1. frame' = [frame EXCEPT ![c] = g]
    BY <1>7, MovesTo
  <2>2. /\ hooked' \in {hooked, hooked \cup {c}}
        /\ CallOK(c, g, d, o, contracts, c \in hooked')
        /\ ~Recorded(frame[c])
    BY <1>1, <1>4, <1>5, <1>7
  <2>3. QED
    BY <1>5, <1>7, <2>1, <2>2, CallMoves
<1>8. CASE FlowRejected(c)
  <2>1. PICK g \in Frame :
          /\ g = Reject(f, "flow") /\ g.pc = "rejected" /\ g.payload = f.payload
          /\ g.applied = f.applied /\ g.matching = f.matching /\ g.why = "flow"
          /\ g.entered = f.entered /\ g.chain = f.chain
    BY RejectFrame DEF Reasons
  <2>2. Move(c, g) /\ graph' = graph
    BY <1>1, <1>8, <2>1 DEF Flow
  <2>3. HandlersOK(g, d) /\ ~Accepted(g)
    BY <1>6, <2>1 DEF HandlersOK, PastHandlers, Accepted, Recorded
  <2>4. CallOK(c, g, d, o, contracts, c \in hooked)
    BY <1>4, <1>6, <2>1, <2>3, SameEvent
  <2>5. graph' \subseteq (Intent \cup {Unknown}) \X Intent /\ NoPhantomEdge'
    BY <1>4, <2>2 DEF TypeOK, NoPhantomEdge
  <2>6. QED
    BY <1>7, <2>2, <2>4, <2>5
<1>9. CASE ~FlowRejected(c)
  <2>1. PICK edges : edges = graph \cup {Edge(c)}
    OBVIOUS
  <2>2. PICK m \in SUBSET Handler :
          m = {h \in subscriptions : IntentOf[h] = IntentOf[c]} /\ IsFiniteSet(m)
    <3>1. {h \in subscriptions : IntentOf[h] = IntentOf[c]} \subseteq subscriptions
      OBVIOUS
    <3>2. subscriptions \subseteq Handler
      BY <1>4 DEF TypeOK
    <3>3. QED
      BY <1>4, <3>1, <3>2, FS_Subset
  <2>3. PICK l \in {"hardAudit", "softAudit", "policy"} :
          /\ Move(c, [f EXCEPT !.matching = m, !.pc = l]) /\ graph' = edges
          /\ edges \cap HardEdges # {} => l = "hardAudit"
    <3>1. /\ graph' = edges
          /\ Move(c, [f EXCEPT !.matching = m,
                  !.pc = CASE edges \cap HardEdges # {} -> "hardAudit"
                           [] /\ edges \cap HardEdges = {}
                              /\ IntentOf[c] \in SoftIntents -> "softAudit"
                           [] OTHER -> "policy"])
      BY <1>1, <1>9, <2>1, <2>2 DEF Flow
    <3>2. CASE edges \cap HardEdges # {}
      BY <3>1, <3>2
    <3>3. CASE edges \cap HardEdges = {} /\ IntentOf[c] \in SoftIntents
      BY <3>1, <3>3
    <3>4. CASE edges \cap HardEdges = {} /\ IntentOf[c] \notin SoftIntents
      BY <3>1, <3>4
    <3>5. QED
      BY <3>2, <3>3, <3>4
  <2>4. PICK g : g = [f EXCEPT !.matching = m, !.pc = l]
    OBVIOUS
  <2>5. /\ g \in Frame
        /\ g = [f EXCEPT !.matching = m, !.pc = l]
        /\ g.pc = l /\ g.payload = f.payload /\ g.applied = f.applied /\ g.matching = m
        /\ g.why = f.why /\ g.entered = f.entered /\ g.chain = f.chain
    <3>1. l \in Awaits
      BY DEF Awaits
    <3>2. QED
      BY <2>4, <3>1 DEF Frame
  <2>6. ChainOK(g) /\ ProvenanceOK(c, g, o) /\ ContractOK(c, g, contracts)
    BY <1>4, <2>5 DEF CallOK, ChainOK, ProvenanceOK, Offers, ContractOK
  <2>7. HandlersOK(g, d)
    BY <1>6, <2>5 DEF HandlersOK, PastHandlers
  <2>8. Edge(c) \in HardEdges => ~Accepted(g)
    BY <2>1, <2>3, <2>5 DEF Accepted, Recorded, PastHandlers
  <2>9. CallOK(c, g, d, o, contracts, c \in hooked)
    BY <1>4, <1>6, <2>2, <2>5, <2>6, <2>7, <2>8 DEF CallOK
  <2>10. Edge(c) \in (Intent \cup {Unknown}) \X Intent
    BY Known DEF Edge
  <2>11. graph' \subseteq (Intent \cup {Unknown}) \X Intent
    BY <1>4, <2>1, <2>3, <2>10 DEF TypeOK
  <2>12. NoPhantomEdge'
    <3>1. FlowMode = "hard" => (Edge(c)[1] # Unknown => Edge(c) \notin DeniedFlow)
      BY <1>9 DEF FlowRejected, Edge
    <3>2. QED
      BY <1>4, <2>1, <2>3, <3>1 DEF NoPhantomEdge
  <2>13. QED
    BY <1>7, <2>3, <2>5, <2>9, <2>11, <2>12
<1>10. QED
  BY <1>8, <1>9

-----------------------------------------------------------------------------
(* Audits, records and the event buffer.                                   *)

\* The awaits of the middle of the pipeline, where a publish goes to another
\* await or is rejected.
LEMMA PipelineStep ==
  ASSUME Inv, NEW c \in Call,
         HardAudit(c) \/ SoftAudit(c) \/ Enqueued(c) \/ OnPublish(c)
  PROVE  Inv'
<1>1. PICK f \in Frame : f = frame[c]
  BY Known
<1>2. PICK d \in [Handler -> Progress] : d = delivery[c]
  BY Known
<1>3. PICK o \in [Interceptor -> SUBSET Key] : o = offered[c]
  BY Known
<1>4. /\ CallOK(c, f, d, o, contracts, c \in hooked)
      /\ UNCHANGED <<registries, records, delivery, hooked, offered>>
  BY <1>1, <1>2, <1>3, Known DEF HardAudit, SoftAudit, Enqueued, OnPublish
<1>5. \/ f.pc = "hardAudit" /\ Move(c, Reject(f, "policy"))
      \/ f.pc = "softAudit" /\ Move(c, Goto(f, "softHook"))
      \/ f.pc = "enqueue" /\ Move(c, Goto(f, "publishedAudit"))
      \/ f.pc = "enqueueFails" /\ Move(c, Reject(f, "enqueue"))
      \/ f.pc = "onPublish" /\ Move(c, Goto(f, "resolved"))
  <2>1. CASE HardAudit(c)
    BY <1>1, <2>1 DEF HardAudit
  <2>2. CASE SoftAudit(c)
    BY <1>1, <2>2 DEF SoftAudit
  <2>3. CASE Enqueued(c)
    BY <1>1, <2>3 DEF Enqueued
  <2>4. CASE OnPublish(c)
    BY <1>1, <2>4 DEF OnPublish
  <2>5. QED
    BY <2>1, <2>2, <2>3, <2>4
<1>6. PICK g \in Frame :
        /\ Move(c, g) /\ g.payload = f.payload /\ g.chain = f.chain
        /\ g.applied = f.applied /\ g.matching = f.matching /\ g.entered = f.entered
        /\ \/ f.pc = "hardAudit" /\ g.pc = "rejected" /\ g.why = "policy"
           \/ f.pc = "softAudit" /\ g.pc = "softHook" /\ g.why = f.why
           \/ f.pc = "enqueue" /\ g.pc = "publishedAudit" /\ g.why = f.why
           \/ f.pc = "enqueueFails" /\ g.pc = "rejected" /\ g.why = "enqueue"
           \/ f.pc = "onPublish" /\ g.pc = "resolved" /\ g.why = f.why
  <2>1. {"policy", "enqueue"} \subseteq Reasons
        /\ {"softHook", "publishedAudit", "resolved"} \subseteq Awaits \cup {"resolved"}
    BY DEF Reasons, Awaits
  <2>2. CASE f.pc = "hardAudit" /\ Move(c, Reject(f, "policy"))
    BY <2>1, <2>2, RejectFrame
  <2>3. CASE f.pc = "softAudit" /\ Move(c, Goto(f, "softHook"))
    BY <2>1, <2>3, GotoFrame
  <2>4. CASE f.pc = "enqueue" /\ Move(c, Goto(f, "publishedAudit"))
    BY <2>1, <2>4, GotoFrame
  <2>5. CASE f.pc = "enqueueFails" /\ Move(c, Reject(f, "enqueue"))
    BY <2>1, <2>5, RejectFrame
  <2>6. CASE f.pc = "onPublish" /\ Move(c, Goto(f, "resolved"))
    BY <2>1, <2>6, GotoFrame
  <2>7. QED
    BY <1>5, <2>2, <2>3, <2>4, <2>5, <2>6
<1>7. f.why = "none" /\ HandlersOK(f, d) /\ (Edge(c) \in HardEdges => ~Accepted(f))
      /\ (c \in hooked <=> f.pc \in {"onPublish", "resolved"})
  BY <1>4, <1>6 DEF CallOK
<1>8. HandlersOK(g, d)
  BY <1>6, <1>7 DEF HandlersOK, PastHandlers
<1>9. /\ Edge(c) \in HardEdges => ~Accepted(g)
      /\ Recorded(f) => Recorded(g)
  BY <1>6, <1>7 DEF Accepted, Recorded, PastHandlers
<1>10. c \in hooked <=> g.pc \in {"onPublish", "resolved"}
  BY <1>6, <1>7
<1>11. CallOK(c, g, d, o, contracts, c \in hooked)
  BY <1>4, <1>6, <1>7, <1>8, <1>9, <1>10, SameEvent
<1>12. QED
  BY <1>1, <1>2, <1>3, <1>4, <1>6, <1>9, <1>11, FrameMoves

\* new is what the history log becomes when e is the next record after n others.
Newest(new, log, e, n) ==
  /\ Len(new) = IF n + 1 < MaxHistory THEN n + 1 ELSE MaxHistory
  /\ \A k \in DOMAIN new :
       \/ new[k] = e /\ (n + 1) - Len(new) + k = n + 1
       \/ \E j \in DOMAIN log :
            /\ new[k] = log[j] /\ (n + 1) - Len(new) + k = n - Len(log) + j
            /\ n - Len(log) + j \in 1 .. n

\* appendHistory keeps the newest records.
LEMMA CappedRecent ==
  ASSUME NEW R, NEW log \in Seq(R), NEW e \in R, NEW n \in Nat,
         Len(log) = IF n < MaxHistory THEN n ELSE MaxHistory,
         NEW new, new = Capped(Append(log, e))
  PROVE  new \in Seq(R) /\ Newest(new, log, e, n)
<1>1. MaxHistory \in Nat /\ Len(log) \in Nat /\ DOMAIN log = 1 .. Len(log)
  BY EventBusAssumption
<1>2. Append(log, e) \in Seq(R)
  OBVIOUS
<1>3. PICK s \in Seq(R) : s = Append(log, e)
  BY <1>2
<1>4. /\ Len(s) = Len(log) + 1 /\ s[Len(log) + 1] = e /\ DOMAIN s = 1 .. Len(log) + 1
      /\ \A j \in 1 .. Len(log) : s[j] = log[j]
  BY <1>3
<1>5. new = IF Len(s) > MaxHistory THEN SubSeq(s, Len(s) - MaxHistory + 1, Len(s)) ELSE s
  BY <1>3 DEF Capped
<1>6. CASE Len(s) > MaxHistory
  <2>1. Len(log) = MaxHistory /\ Len(s) = MaxHistory + 1 /\ n >= MaxHistory
    BY <1>1, <1>4, <1>6
  <2>2. new = SubSeq(s, 2, MaxHistory + 1)
    <3>1. Len(s) - MaxHistory + 1 = 2
      BY <1>1, <2>1
    <3>2. QED
      BY <1>5, <1>6, <2>1, <3>1
  <2>3. /\ new \in Seq(R) /\ Len(new) = MaxHistory /\ DOMAIN new = 1 .. MaxHistory
        /\ \A k \in 1 .. MaxHistory : new[k] = s[k + 1]
    BY <1>1, <2>1, <2>2
  <2>4. ASSUME NEW k \in 1 .. MaxHistory
        PROVE  \/ new[k] = e /\ (n + 1) - Len(new) + k = n + 1
               \/ \E j \in DOMAIN log :
                    /\ new[k] = log[j] /\ (n + 1) - Len(new) + k = n - Len(log) + j
                    /\ n - Len(log) + j \in 1 .. n
    <3>1. CASE k = MaxHistory
      BY <1>1, <1>4, <2>1, <2>3, <3>1
    <3>2. CASE k # MaxHistory
      <4>1. k + 1 \in DOMAIN log /\ new[k] = log[k + 1]
        BY <1>1, <1>4, <2>1, <2>3, <3>2
      <4>2. /\ (n + 1) - Len(new) + k = n - Len(log) + (k + 1)
            /\ n - Len(log) + (k + 1) \in 1 .. n
        BY <1>1, <2>1, <2>3, <3>2
      <4>3. QED
        BY <4>1, <4>2
    <3>3. QED
      BY <3>1, <3>2
  <2>5. QED
    BY <1>1, <2>1, <2>3, <2>4 DEF Newest
<1>7. CASE ~(Len(s) > MaxHistory)
  <2>1. new = s /\ n = Len(log) /\ Len(new) = n + 1 /\ n + 1 <= MaxHistory
    BY <1>1, <1>4, <1>5, <1>7
  <2>2. ASSUME NEW k \in 1 .. n + 1
        PROVE  \/ new[k] = e /\ (n + 1) - Len(new) + k = n + 1
               \/ \E j \in DOMAIN log :
                    /\ new[k] = log[j] /\ (n + 1) - Len(new) + k = n - Len(log) + j
                    /\ n - Len(log) + j \in 1 .. n
    <3>1. CASE k = n + 1
      BY <1>4, <2>1, <3>1
    <3>2. CASE k # n + 1
      <4>1. k \in DOMAIN log /\ new[k] = log[k]
        BY <1>1, <1>4, <2>1, <3>2
      <4>2. (n + 1) - Len(new) + k = n - Len(log) + k /\ n - Len(log) + k \in 1 .. n
        BY <1>1, <2>1, <4>1
      <4>3. QED
        BY <4>1, <4>2
    <3>3. QED
      BY <3>1, <3>2
  <2>3. QED
    BY <1>1, <1>4, <2>1, <2>2 DEF Newest
<1>8. QED
  BY <1>6, <1>7

LEMMA RecordStep ==
  ASSUME Inv, NEW c \in Call, Record(c)
  PROVE  Inv'
<1>1. PICK f \in Frame : f = frame[c]
  BY Known
<1>2. PICK d \in [Handler -> Progress] : d = delivery[c]
  BY Known
<1>3. PICK o \in [Interceptor -> SUBSET Key] : o = offered[c]
  BY Known
<1>4. /\ CallOK(c, f, d, o, contracts, c \in hooked) /\ f.pc \in {"policy", "softHook"}
      /\ UNCHANGED <<registries, graph, delivery, hooked, offered>>
      /\ TypeOK /\ RecordsOK
  BY <1>1, <1>2, <1>3, Known DEF Record, Inv
<1>5. f.why = "none" /\ HandlersOK(f, d) /\ IsFiniteSet(f.matching) /\ Edge(c) \notin HardEdges
      /\ c \notin hooked /\ ~Recorded(f)
  BY <1>4 DEF CallOK, Accepted, Recorded, PastHandlers
<1>6. PICK e \in [call : Call, notified : Nat] :
        e = [call |-> c, notified |-> Cardinality(f.matching)]
  <2>1. Cardinality(f.matching) \in Nat
    BY <1>5, FS_CardinalityType
  <2>2. QED
    BY <2>1
<1>7. /\ history' = Capped(Append(history, e)) /\ recorded' = Append(recorded, c)
      /\ buffer' \in {buffer, Append(buffer, c)}
      /\ Move(c, Goto(f, "enqueue")) \/ Move(c, Goto(f, "enqueueFails"))
  BY <1>1, <1>6 DEF Record
<1>8. PICK g \in Frame :
        /\ Move(c, g) /\ g.payload = f.payload /\ g.chain = f.chain
        /\ g.applied = f.applied /\ g.matching = f.matching /\ g.entered = f.entered
        /\ g.pc \in {"enqueue", "enqueueFails"} /\ g.why = f.why
  <2>1. "enqueue" \in Awaits /\ "enqueueFails" \in Awaits
    BY DEF Awaits
  <2>2. CASE Move(c, Goto(f, "enqueue"))
    BY <2>1, <2>2, GotoFrame
  <2>3. CASE Move(c, Goto(f, "enqueueFails"))
    BY <2>1, <2>3, GotoFrame
  <2>4. QED
    BY <1>7, <2>2, <2>3
<1>9. CallOK(c, g, d, o, contracts, c \in hooked)
  <2>1. HandlersOK(g, d)
    BY <1>4, <1>5, <1>8 DEF HandlersOK, PastHandlers
  <2>2. QED
    BY <1>4, <1>5, <1>8, <2>1, SameEvent
<1>10. frame' = [frame EXCEPT ![c] = g] /\ frame'[c] = g /\ Recorded(g)
       /\ \A b \in Call \ {c} : frame'[b] = frame[b]
  BY <1>4, <1>8, MovesTo DEF TypeOK, Recorded, PastHandlers
<1>11. /\ recorded \in Seq(Call) /\ buffer \in Seq(Call) /\ Len(recorded) \in Nat
       /\ history \in Seq([call : Call, notified : Nat])
       /\ Len(buffer) \in Nat /\ DOMAIN recorded = 1 .. Len(recorded)
       /\ DOMAIN buffer = 1 .. Len(buffer)
  BY <1>4 DEF TypeOK
<1>12. /\ \A k \in DOMAIN recorded : recorded[k] \in Call /\ recorded[k] # c
       /\ \A k \in DOMAIN buffer : buffer[k] \in Call /\ buffer[k] # c
  BY <1>1, <1>4, <1>5, ElementsTyped DEF RecordsOK
<1>13. /\ recorded' \in Seq(Call) /\ buffer' \in Seq(Call)
       /\ DOMAIN recorded' = 1 .. Len(recorded) + 1 /\ Len(recorded') = Len(recorded) + 1
       /\ recorded'[Len(recorded) + 1] = c
       /\ \A k \in DOMAIN recorded : recorded'[k] = recorded[k]
       /\ \A k \in DOMAIN buffer' :
            \/ k \in DOMAIN buffer /\ buffer'[k] = buffer[k]
            \/ k = Len(buffer) + 1 /\ buffer'[k] = c
  <2>1. CASE buffer' = buffer
    BY <1>7, <1>11, <2>1
  <2>2. CASE buffer' = Append(buffer, c)
    BY <1>7, <1>11, <2>2
  <2>3. QED
    BY <1>7, <2>1, <2>2
<1>14. \A k \in DOMAIN recorded' :
         \/ k \in DOMAIN recorded /\ recorded'[k] = recorded[k]
         \/ k = Len(recorded) + 1 /\ recorded'[k] = c
  BY <1>11, <1>13
<1>15. /\ history' \in Seq([call : Call, notified : Nat])
       /\ Len(history') = IF Len(recorded) + 1 < MaxHistory THEN Len(recorded) + 1 ELSE MaxHistory
       /\ \A k \in DOMAIN history' :
            \/ /\ history'[k] = e
               /\ (Len(recorded) + 1) - Len(history') + k = Len(recorded) + 1
            \/ \E j \in DOMAIN history :
                 /\ history'[k] = history[j]
                 /\ (Len(recorded) + 1) - Len(history') + k = Len(recorded) - Len(history) + j
                 /\ Len(recorded) - Len(history) + j \in 1 .. Len(recorded)
  <2>1. Len(history) = IF Len(recorded) < MaxHistory THEN Len(recorded) ELSE MaxHistory
    BY <1>4 DEF RecordsOK, HistoryIsRecent
  <2>2. PICK n \in Nat : n = Len(recorded)
    BY <1>11
  <2>3. PICK new : new = history'
    OBVIOUS
  <2>4. PICK R : R = [call : Call, notified : Nat]
    OBVIOUS
  <2>5. /\ history \in Seq(R) /\ e \in R /\ new = Capped(Append(history, e))
        /\ Len(history) = IF n < MaxHistory THEN n ELSE MaxHistory
    BY <1>7, <1>11, <2>1, <2>2, <2>3, <2>4
  <2>6. new \in Seq(R) /\ Newest(new, history, e, n)
    BY <2>5, CappedRecent
  <2>7. QED
    BY <2>2, <2>3, <2>4, <2>6 DEF Newest
<1>16. TypeOK'
  BY <1>4, <1>10, <1>13, <1>15 DEF TypeOK, registries
<1>17. RecordsOK'
  <2>1. \A k \in DOMAIN recorded' : Recorded(frame'[recorded'[k]])
    BY <1>4, <1>10, <1>12, <1>14 DEF RecordsOK
  <2>2. \A k \in DOMAIN buffer' : Recorded(frame'[buffer'[k]])
    BY <1>4, <1>10, <1>12, <1>13 DEF RecordsOK
  <2>3. Distinct(recorded')
    BY <1>4, <1>12, <1>14 DEF RecordsOK, Distinct
  <2>4. Distinct(buffer')
    BY <1>4, <1>12, <1>13 DEF RecordsOK, Distinct
  <2>5. SameOrder'
    <3>1. SUFFICES ASSUME NEW i \in DOMAIN recorded', NEW j \in DOMAIN recorded',
                          NEW k \in DOMAIN buffer', NEW l \in DOMAIN buffer',
                          buffer'[k] = recorded'[i], buffer'[l] = recorded'[j], i < j
                   PROVE  k < l
      BY DEF SameOrder
    <3>2. i \in DOMAIN recorded /\ recorded'[i] = recorded[i]
      BY <1>11, <1>13, <1>14, <3>1
    <3>3. k \in DOMAIN buffer /\ buffer'[k] = buffer[k]
      BY <1>12, <1>13, <3>1, <3>2
    <3>4. CASE j \in DOMAIN recorded
      <4>1. recorded'[j] = recorded[j] /\ recorded[j] # c
        BY <1>12, <1>13, <3>4
      <4>2. l \in DOMAIN buffer /\ buffer'[l] = buffer[l]
        BY <1>13, <3>1, <4>1
      <4>3. QED
        BY <1>4, <3>1, <3>2, <3>3, <3>4, <4>1, <4>2 DEF RecordsOK, SameOrder
    <3>5. CASE j \notin DOMAIN recorded
      <4>1. l = Len(buffer) + 1
        BY <1>12, <1>13, <1>14, <3>1, <3>5
      <4>2. QED
        BY <1>11, <3>3, <4>1
    <3>6. QED
      BY <3>4, <3>5
  <2>6. HistoryIsRecent'
    <3>1. ASSUME NEW k \in DOMAIN history'
          PROVE  history'[k].call = recorded'[Len(recorded') - Len(history') + k]
      <4>1. CASE /\ history'[k] = e
                 /\ (Len(recorded) + 1) - Len(history') + k = Len(recorded) + 1
        BY <1>6, <1>13, <4>1
      <4>2. CASE \E j \in DOMAIN history :
                   /\ history'[k] = history[j]
                   /\ (Len(recorded) + 1) - Len(history') + k = Len(recorded) - Len(history) + j
                   /\ Len(recorded) - Len(history) + j \in 1 .. Len(recorded)
        <5>1. PICK j \in DOMAIN history :
                /\ history'[k] = history[j]
                /\ (Len(recorded) + 1) - Len(history') + k = Len(recorded) - Len(history) + j
                /\ Len(recorded) - Len(history) + j \in 1 .. Len(recorded)
          BY <4>2
        <5>2. history[j].call = recorded[Len(recorded) - Len(history) + j]
          BY <1>4 DEF RecordsOK, HistoryIsRecent
        <5>3. QED
          BY <1>11, <1>13, <5>1, <5>2
      <4>3. QED
        BY <1>15, <4>1, <4>2
    <3>2. Len(history') = IF Len(recorded') < MaxHistory THEN Len(recorded') ELSE MaxHistory
      BY <1>13, <1>15
    <3>3. QED
      BY <3>1, <3>2 DEF HistoryIsRecent
  <2>7. \A k \in DOMAIN history' :
          history'[k].notified = Cardinality(frame'[history'[k].call].matching)
    <3>1. ASSUME NEW j \in DOMAIN history
          PROVE  history[j].notified = Cardinality(frame'[history[j].call].matching)
      <4>1. PICK b \in Call : b = history[j].call
        BY <1>4, ElementsTyped
      <4>2. frame'[b].matching = frame[b].matching
        BY <1>1, <1>8, <1>10
      <4>3. QED
        BY <1>4, <4>1, <4>2 DEF RecordsOK
    <3>2. e.notified = Cardinality(frame'[e.call].matching)
      BY <1>6, <1>8, <1>10
    <3>3. \A k \in DOMAIN history' : history'[k] = e \/ \E j \in DOMAIN history : history'[k] = history[j]
      BY <1>15
    <3>4. QED
      BY <3>1, <3>2, <3>3
  <2>8. QED
    BY <2>1, <2>2, <2>3, <2>4, <2>5, <2>6, <2>7 DEF RecordsOK
<1>18. \A b \in Call : CallOK(b, frame'[b], delivery'[b], offered'[b], contracts', b \in hooked')
  <2>1. delivery' = delivery /\ offered' = offered /\ hooked' = hooked /\ contracts' = contracts
    BY <1>4 DEF registries
  <2>2. \A b \in Call \ {c} : CallOK(b, frame'[b], delivery'[b], offered'[b], contracts', b \in hooked')
    BY <1>10, <2>1 DEF Inv
  <2>3. CallOK(c, frame'[c], delivery'[c], offered'[c], contracts', c \in hooked')
    BY <1>2, <1>3, <1>9, <1>10, <2>1
  <2>4. QED
    BY <2>2, <2>3
<1>19. /\ IsFiniteSet(subscriptions') /\ NoPhantomEdge'
       /\ \A i \in Intent : Distinct(interceptors'[i])
  BY <1>4 DEF Inv, registries, NoPhantomEdge
<1>20. QED
  BY <1>16, <1>17, <1>18, <1>19 DEF Inv

-----------------------------------------------------------------------------
(* Handlers, the hook, and the rest of the program.                        *)

LEMMA StartHandlersStep ==
  ASSUME Inv, NEW c \in Call, StartHandlers(c)
  PROVE  Inv'
<1>1. PICK f \in Frame : f = frame[c]
  BY Known
<1>2. PICK d \in [Handler -> Progress] : d = delivery[c]
  BY Known
<1>3. PICK o \in [Interceptor -> SUBSET Key] : o = offered[c]
  BY Known
<1>4. /\ CallOK(c, f, d, o, contracts, c \in hooked) /\ f.pc = "publishedAudit"
      /\ TypeOK /\ NoPhantomEdge
  BY <1>1, <1>2, <1>3, Known DEF StartHandlers, Inv
<1>5. PICK e \in [Handler -> Progress] :
        e = [h \in Handler |-> IF h \in f.matching THEN "running" ELSE "none"]
  BY DEF Progress
<1>6. PICK g \in Frame :
        /\ g = Goto(f, "handlers") /\ g.pc = "handlers" /\ g.payload = f.payload
        /\ g.chain = f.chain /\ g.applied = f.applied /\ g.matching = f.matching
        /\ g.entered = f.entered /\ g.why = f.why
  BY GotoFrame DEF Awaits
<1>7. /\ delivery' = [delivery EXCEPT ![c] = e] /\ Move(c, g)
      /\ UNCHANGED <<registries, records, hooked, offered>>
  BY <1>1, <1>5, <1>6 DEF StartHandlers
<1>8. ChainOK(g) /\ ContractOK(c, g, contracts) /\ ProvenanceOK(c, g, o)
  BY <1>4, <1>6, ProvenanceStays DEF CallOK, ChainOK, ContractOK
<1>9. HandlersOK(g, e)
  BY <1>5, <1>6 DEF HandlersOK, PastHandlers
<1>10. (Edge(c) \in HardEdges => ~Accepted(g)) /\ Recorded(g)
  BY <1>4, <1>6 DEF CallOK, Accepted, Recorded, PastHandlers
<1>11. CallOK(c, g, e, o, contracts, c \in hooked)
  BY <1>4, <1>6, <1>8, <1>9, <1>10 DEF CallOK
<1>12. /\ frame' = [frame EXCEPT ![c] = g] /\ offered' = [offered EXCEPT ![c] = o]
       /\ hooked' \in {hooked, hooked \cup {c}} /\ CallOK(c, g, e, o, contracts, c \in hooked')
       /\ UNCHANGED <<registries, history, buffer, recorded>>
       /\ graph' \subseteq (Intent \cup {Unknown}) \X Intent /\ NoPhantomEdge'
  <2>1. frame' = [frame EXCEPT ![c] = g]
    BY <1>7, MovesTo
  <2>2. offered' = [offered EXCEPT ![c] = o] /\ hooked' = hooked
    BY <1>3, <1>4, <1>7 DEF TypeOK
  <2>3. /\ UNCHANGED <<registries, history, buffer, recorded>>
        /\ graph' \subseteq (Intent \cup {Unknown}) \X Intent /\ NoPhantomEdge'
    BY <1>4, <1>7 DEF records, TypeOK, NoPhantomEdge
  <2>4. QED
    BY <1>11, <2>1, <2>2, <2>3
<1>13. Recorded(frame[c]) => Recorded(g) /\ g.matching = frame[c].matching
  BY <1>1, <1>6, <1>10
<1>14. QED
  BY <1>7, <1>12, <1>13, CallMoves

\* A handler gets on.
LEMMA AdvanceStep ==
  ASSUME Inv, NEW c \in Call, NEW h \in Handler, NEW from, NEW to \in Progress,
         from \in {"running", "failing"}, to # "none", Advance(c, h, from, to)
  PROVE  Inv'
<1>1. PICK f \in Frame : f = frame[c]
  BY Known
<1>2. PICK d \in [Handler -> Progress] : d = delivery[c]
  BY Known
<1>3. PICK o \in [Interceptor -> SUBSET Key] : o = offered[c]
  BY Known
<1>4. /\ CallOK(c, f, d, o, contracts, c \in hooked) /\ TypeOK /\ NoPhantomEdge
      /\ HandlersOK(f, d)
  BY <1>1, <1>2, <1>3, Known DEF CallOK, Inv
<1>5. PICK e \in [Handler -> Progress] : e = [d EXCEPT ![h] = to]
  OBVIOUS
<1>6. /\ d[h] = from /\ delivery' = [delivery EXCEPT ![c] = e]
      /\ UNCHANGED <<registries, records, frame, hooked, offered>>
  BY <1>2, <1>4, <1>5 DEF Advance, TypeOK
<1>7. HandlersOK(f, e)
  <2>1. d[h] # "none" /\ d[h] # "done" /\ e[h] # "none" /\ \A k \in Handler : k # h => e[k] = d[k]
    BY <1>5, <1>6
  <2>2. f.pc \notin {"onPublish", "resolved"}
    BY <1>4, <2>1 DEF HandlersOK
  <2>3. \A k \in Handler : e[k] # "none" <=> d[k] # "none"
    BY <2>1
  <2>4. QED
    BY <1>4, <2>2, <2>3 DEF HandlersOK
<1>8. CallOK(c, f, e, o, contracts, c \in hooked)
  BY <1>4, <1>7 DEF CallOK
<1>9. /\ frame' = [frame EXCEPT ![c] = f] /\ offered' = [offered EXCEPT ![c] = o]
      /\ UNCHANGED <<registries, history, buffer, recorded>> /\ hooked' = hooked
      /\ graph' \subseteq (Intent \cup {Unknown}) \X Intent /\ NoPhantomEdge'
  BY <1>1, <1>3, <1>4, <1>6 DEF TypeOK, NoPhantomEdge, records
<1>10. hooked' \in {hooked, hooked \cup {c}} /\ CallOK(c, f, e, o, contracts, c \in hooked')
  BY <1>8, <1>9
<1>11. QED
  BY <1>1, <1>6, <1>9, <1>10, CallMoves

LEMMA HandlersSettleStep ==
  ASSUME Inv, NEW c \in Call, HandlersSettle(c)
  PROVE  Inv'
<1>1. PICK f \in Frame : f = frame[c]
  BY Known
<1>2. PICK d \in [Handler -> Progress] : d = delivery[c]
  BY Known
<1>3. PICK o \in [Interceptor -> SUBSET Key] : o = offered[c]
  BY Known
<1>4. /\ CallOK(c, f, d, o, contracts, c \in hooked) /\ f.pc = "handlers"
      /\ TypeOK /\ NoPhantomEdge /\ HandlersOK(f, d) /\ f.why = "none" /\ c \notin hooked
      /\ Edge(c) \notin HardEdges
  BY <1>1, <1>2, <1>3, Known DEF HandlersSettle, Inv, CallOK, Accepted, Recorded, PastHandlers
<1>5. PICK called \in {hooked, hooked \cup {c}} : called = hooked'
  BY DEF HandlersSettle
<1>6. \/ Move(c, Reject(f, "handler")) /\ called = hooked
      \/ /\ \A h \in Handler : d[h] \in {"none", "done"}
         /\ Move(c, Goto(f, "onPublish")) /\ called = hooked \cup {c}
  BY <1>1, <1>2, <1>5 DEF HandlersSettle
<1>7. /\ delivery' = [delivery EXCEPT ![c] = d] /\ offered' = [offered EXCEPT ![c] = o]
      /\ UNCHANGED <<registries, history, buffer, recorded>>
      /\ graph' \subseteq (Intent \cup {Unknown}) \X Intent /\ NoPhantomEdge'
  BY <1>2, <1>3, <1>4 DEF HandlersSettle, TypeOK, NoPhantomEdge, records
<1>8. PICK g \in Frame :
        /\ Move(c, g) /\ g.payload = f.payload /\ g.chain = f.chain
        /\ g.applied = f.applied /\ g.matching = f.matching /\ g.entered = f.entered
        /\ \/ g.pc = "rejected" /\ g.why = "handler" /\ called = hooked
           \/ /\ \A h \in Handler : d[h] \in {"none", "done"}
              /\ g.pc = "onPublish" /\ g.why = f.why /\ called = hooked \cup {c}
  <2>1. "handler" \in Reasons /\ "onPublish" \in Awaits
    BY DEF Reasons, Awaits
  <2>2. CASE Move(c, Reject(f, "handler")) /\ called = hooked
    BY <2>1, <2>2, RejectFrame
  <2>3. CASE /\ \A h \in Handler : d[h] \in {"none", "done"}
             /\ Move(c, Goto(f, "onPublish")) /\ called = hooked \cup {c}
    BY <2>1, <2>3, GotoFrame
  <2>4. QED
    BY <1>6, <2>2, <2>3
<1>9. HandlersOK(g, d) /\ Recorded(g)
  BY <1>4, <1>8 DEF HandlersOK, Recorded, PastHandlers
<1>10. ChainOK(g) /\ ContractOK(c, g, contracts) /\ ProvenanceOK(c, g, o)
  BY <1>4, <1>8, ProvenanceStays DEF CallOK, ChainOK, ContractOK
<1>11. CallOK(c, g, d, o, contracts, c \in called)
  BY <1>4, <1>8, <1>9, <1>10 DEF CallOK
<1>12. frame' = [frame EXCEPT ![c] = g] /\ hooked' \in {hooked, hooked \cup {c}}
       /\ CallOK(c, g, d, o, contracts, c \in hooked')
  BY <1>5, <1>8, <1>11, MovesTo
<1>13. Recorded(frame[c]) => Recorded(g) /\ g.matching = frame[c].matching
  BY <1>1, <1>8, <1>9
<1>14. QED
  BY <1>7, <1>12, <1>13, CallMoves

\* The registries change: contracts only get newer.
LEMMA RegistriesMove ==
  ASSUME Inv, UNCHANGED <<records, frame, delivery, hooked, offered>>,
         subscriptions' \subseteq Handler, IsFiniteSet(subscriptions'),
         interceptors' \in [Intent -> Seq(Interceptor)],
         \A i \in Intent : Distinct(interceptors'[i]),
         contracts' \in [Intent -> Nat],
         \A i \in Intent : contracts[i] <= contracts'[i] /\ contracts'[i] <= Len(Contracts[i])
  PROVE  Inv'
<1>1. TypeOK /\ RecordsOK /\ NoPhantomEdge
  BY DEF Inv
<1>2. /\ UNCHANGED <<graph, history, buffer, recorded>> /\ frame' = frame
      /\ delivery' = delivery /\ hooked' = hooked /\ offered' = offered
  BY DEF records
<1>3. TypeOK'
  BY <1>1, <1>2 DEF TypeOK
<1>4. RecordsOK' /\ NoPhantomEdge'
  BY <1>1, <1>2 DEF RecordsOK, SameOrder, HistoryIsRecent, NoPhantomEdge
<1>5. ASSUME NEW c \in Call
      PROVE  CallOK(c, frame[c], delivery[c], offered[c], contracts', c \in hooked)
  <2>1. PICK f \in Frame : f = frame[c]
    BY Known
  <2>2. CallOK(c, f, delivery[c], offered[c], contracts, c \in hooked)
    BY <2>1, Known
  <2>3. PICK i \in Intent : i = IntentOf[c]
    BY Known
  <2>4. /\ contracts[i] \in Nat /\ contracts'[i] \in Nat /\ f.entered \in Nat
        /\ contracts[i] <= contracts'[i]
    BY <1>1 DEF TypeOK, Frame
  <2>5. ContractOK(c, f, contracts')
    <3>1. SUFFICES ASSUME f.pc \in {"interceptor", "interceptorAudit"}
                   PROVE  /\ f.entered <= contracts'[i]
                          /\ f.entered = contracts'[i] => Allows(c, f.payload, contracts')
      BY <2>3 DEF ContractOK
    <3>2. f.entered <= contracts[i] /\ (f.entered = contracts[i] => Allows(c, f.payload, contracts))
      BY <2>2, <2>3, <3>1 DEF CallOK, ContractOK
    <3>3. f.entered = contracts'[i] => contracts'[i] = contracts[i]
      BY <2>4, <3>2
    <3>4. contracts'[i] = contracts[i] => (Allows(c, f.payload, contracts') <=> Allows(c, f.payload, contracts))
      BY <2>3 DEF Allows
    <3>5. QED
      BY <2>4, <3>2, <3>3, <3>4
  <2>6. f.why = "lateContract" => f.entered < contracts'[i]
    BY <2>2, <2>3, <2>4 DEF CallOK
  <2>7. QED
    BY <2>1, <2>2, <2>3, <2>5, <2>6 DEF CallOK
<1>6. QED
  BY <1>2, <1>3, <1>4, <1>5 DEF Inv

LEMMA SubscriptionStep ==
  ASSUME Inv, NEW h \in Handler, Subscribe(h) \/ Unsubscribe(h)
  PROVE  Inv'
<1>1. TypeOK /\ IsFiniteSet(subscriptions) /\ \A i \in Intent : Distinct(interceptors[i])
  BY DEF Inv
<1>2. /\ subscriptions' \in {subscriptions \cup {h}, subscriptions \ {h}}
      /\ interceptors' = interceptors /\ contracts' = contracts
      /\ UNCHANGED <<records, frame, delivery, hooked, offered>>
  BY DEF Subscribe, Unsubscribe
<1>3. subscriptions' \subseteq Handler /\ IsFiniteSet(subscriptions')
  <2>1. IsFiniteSet(subscriptions \cup {h}) /\ IsFiniteSet(subscriptions \ {h})
    BY <1>1, FS_AddElement, FS_RemoveElement
  <2>2. IsFiniteSet(subscriptions')
    BY <1>2, <2>1
  <2>3. subscriptions' \subseteq Handler
    BY <1>1, <1>2 DEF TypeOK
  <2>4. QED
    BY <2>2, <2>3
<1>4. /\ interceptors' \in [Intent -> Seq(Interceptor)] /\ contracts' \in [Intent -> Nat]
      /\ \A i \in Intent : Distinct(interceptors'[i])
      /\ \A i \in Intent : contracts[i] <= contracts'[i] /\ contracts'[i] <= Len(Contracts[i])
  BY <1>1, <1>2 DEF TypeOK
<1>5. QED
  BY <1>2, <1>3, <1>4, RegistriesMove

LEMMA InterceptorsStep ==
  ASSUME Inv, NEW i \in Interceptor, RegisterInterceptor(i) \/ UnregisterInterceptor(i)
  PROVE  Inv'
<1>1. TypeOK /\ IsFiniteSet(subscriptions) /\ \A j \in Intent : Distinct(interceptors[j])
  BY DEF Inv
<1>2. PICK n \in Intent : n = IntentOf[i]
  BY EventBusAssumption
<1>3. PICK s \in Seq(Interceptor) : s = interceptors[n] /\ Distinct(s)
  BY <1>1 DEF TypeOK
<1>4. UNCHANGED <<subscriptions, contracts, records, frame, delivery, hooked, offered>>
  BY DEF RegisterInterceptor, UnregisterInterceptor
<1>5. ASSUME NEW u \in Seq(Interceptor), Distinct(u), interceptors' = [interceptors EXCEPT ![n] = u]
      PROVE  Inv'
  <2>1. /\ interceptors' \in [Intent -> Seq(Interceptor)]
        /\ \A j \in Intent : Distinct(interceptors'[j])
    BY <1>1, <1>5 DEF TypeOK
  <2>2. /\ subscriptions' \subseteq Handler /\ IsFiniteSet(subscriptions')
        /\ contracts' \in [Intent -> Nat]
        /\ \A j \in Intent : contracts[j] <= contracts'[j] /\ contracts'[j] <= Len(Contracts[j])
    BY <1>1, <1>4 DEF TypeOK
  <2>3. UNCHANGED <<records, frame, delivery, hooked, offered>>
    BY <1>4
  <2>4. QED
    BY <2>1, <2>2, <2>3, RegistriesMove
<1>6. CASE RegisterInterceptor(i)
  <2>1. PICK u : u = Append(s, i)
    OBVIOUS
  <2>2. \A k \in DOMAIN s : s[k] # i
    BY <1>2, <1>3, <1>6 DEF RegisterInterceptor, Range
  <2>3. u \in Seq(Interceptor) /\ Distinct(u)
    BY <1>3, <2>1, <2>2, AppendDistinct
  <2>4. interceptors' = [interceptors EXCEPT ![n] = u]
    BY <1>2, <1>3, <1>6, <2>1 DEF RegisterInterceptor
  <2>5. QED
    BY <1>5, <2>3, <2>4
<1>7. CASE UnregisterInterceptor(i)
  <2>1. PICK k \in DOMAIN s : interceptors' = [interceptors EXCEPT ![n] = RemoveAt(s, k)]
    BY <1>2, <1>3, <1>7 DEF UnregisterInterceptor
  <2>2. PICK u : u = RemoveAt(s, k)
    OBVIOUS
  <2>3. u \in Seq(Interceptor) /\ Distinct(u)
    BY <1>3, <2>2, RemoveDistinct
  <2>4. QED
    BY <1>5, <2>1, <2>2, <2>3
<1>8. QED
  BY <1>6, <1>7

LEMMA ContractStep ==
  ASSUME Inv, NEW i \in Intent, RegisterContract(i)
  PROVE  Inv'
<1>1. TypeOK /\ IsFiniteSet(subscriptions) /\ \A j \in Intent : Distinct(interceptors[j])
  BY DEF Inv
<1>2. /\ subscriptions' \subseteq Handler /\ IsFiniteSet(subscriptions')
      /\ interceptors' \in [Intent -> Seq(Interceptor)]
      /\ \A j \in Intent : Distinct(interceptors'[j])
      /\ UNCHANGED <<records, frame, delivery, hooked, offered>>
  BY <1>1 DEF RegisterContract, TypeOK
<1>3. \A j \in Intent : contracts[j] \in Nat /\ contracts[j] <= Len(Contracts[j])
                        /\ Len(Contracts[j]) \in Nat
  BY <1>1, EventBusAssumption DEF TypeOK
<1>4. /\ contracts' = [contracts EXCEPT ![i] = contracts[i] + 1] /\ contracts[i] < Len(Contracts[i])
      /\ contracts \in [Intent -> Nat]
  BY <1>1 DEF RegisterContract, TypeOK
<1>5. /\ contracts' \in [Intent -> Nat]
      /\ \A j \in Intent : contracts[j] <= contracts'[j] /\ contracts'[j] <= Len(Contracts[j])
  BY <1>3, <1>4
<1>6. QED
  BY <1>2, <1>5, RegistriesMove

LEMMA ClearHistoryStep ==
  ASSUME Inv, ClearHistory
  PROVE  Inv'
<1>1. /\ history' = <<>> /\ recorded' = <<>> /\ buffer' = buffer /\ graph' = graph
      /\ subscriptions' = subscriptions /\ interceptors' = interceptors /\ contracts' = contracts
      /\ frame' = frame /\ delivery' = delivery /\ hooked' = hooked /\ offered' = offered
  BY DEF ClearHistory, registries
<1>2. TypeOK'
  BY <1>1 DEF Inv, TypeOK
<1>3. Len(<<>>) = 0 /\ DOMAIN <<>> = {} /\ MaxHistory \in Nat
  BY EventBusAssumption
<1>4. RecordsOK'
  <2>1. HistoryIsRecent'
    BY <1>1, <1>3 DEF HistoryIsRecent
  <2>2. QED
    BY <1>1, <1>3, <2>1 DEF Inv, RecordsOK, SameOrder, Distinct
<1>5. NoPhantomEdge'
  BY <1>1 DEF Inv, NoPhantomEdge
<1>6. QED
  BY <1>1, <1>2, <1>4, <1>5 DEF Inv

LEMMA Initially == Init => Inv
<1> SUFFICES ASSUME Init PROVE Inv
  OBVIOUS
<1> DEFINE fr(c) == [pc |-> "idle", payload |-> PayloadOf[c], chain |-> <<>>, applied |-> <<>>,
                     matching |-> {}, entered |-> 0, why |-> "none"]
<1>1. \A S : <<>> \in Seq(S)
  OBVIOUS
<1>2. ASSUME NEW c \in Call
      PROVE  /\ frame[c] = fr(c) /\ fr(c) \in Frame
             /\ delivery[c] = [h \in Handler |-> "none"]
             /\ offered[c] = [i \in Interceptor |-> {}]
  BY <1>1, EventBusAssumption DEF Init, Frame, Awaits, Reasons
<1>3. TypeOK
  <2>1. /\ subscriptions \subseteq Handler /\ graph \subseteq (Intent \cup {Unknown}) \X Intent
        /\ hooked \subseteq Call
        /\ contracts \in [Intent -> Nat] /\ \A i \in Intent : contracts[i] <= Len(Contracts[i])
    BY EventBusAssumption DEF Init
  <2>2. interceptors \in [Intent -> Seq(Interceptor)]
    BY <1>1 DEF Init
  <2>3. /\ history \in Seq([call : Call, notified : Nat])
        /\ buffer \in Seq(Call) /\ recorded \in Seq(Call)
    BY <1>1 DEF Init
  <2>4. frame \in [Call -> Frame]
    BY <1>2 DEF Init
  <2>5. /\ delivery \in [Call -> [Handler -> Progress]]
        /\ offered \in [Call -> [Interceptor -> SUBSET Key]]
    BY DEF Init, Progress
  <2>6. QED
    BY <2>1, <2>2, <2>3, <2>4, <2>5 DEF TypeOK
<1>4. Len(<<>>) = 0 /\ DOMAIN <<>> = {} /\ MaxHistory \in Nat /\ IsFiniteSet({})
  BY EventBusAssumption, FS_EmptySet
<1>5. RecordsOK /\ NoPhantomEdge /\ IsFiniteSet(subscriptions)
      /\ \A i \in Intent : Distinct(interceptors[i])
  BY <1>4 DEF Init, RecordsOK, SameOrder, Distinct, HistoryIsRecent, NoPhantomEdge
<1>6. ASSUME NEW c \in Call
      PROVE  CallOK(c, frame[c], delivery[c], offered[c], contracts, c \in hooked)
  <2>1. PICK f \in Frame : f = fr(c)
    BY <1>2
  <2>2. /\ f.pc = "idle" /\ f.payload = PayloadOf[c] /\ f.chain = <<>> /\ f.applied = <<>>
        /\ f.matching = {} /\ f.why = "none"
    BY <2>1
  <2>3. ChainOK(f) /\ ContractOK(c, f, contracts)
    BY <1>4, <2>2 DEF ChainOK, ContractOK, Distinct
  <2>4. ProvenanceOK(c, f, offered[c])
    BY <1>4, <2>2 DEF ProvenanceOK, Offers
  <2>5. HandlersOK(f, delivery[c])
    BY <1>2, <2>2 DEF HandlersOK, PastHandlers
  <2>6. ~Accepted(f) /\ c \notin hooked
    BY <2>2 DEF Init, Accepted, Recorded, PastHandlers
  <2>7. CallOK(c, f, delivery[c], offered[c], contracts, c \in hooked)
    BY <1>4, <2>2, <2>3, <2>4, <2>5, <2>6 DEF CallOK
  <2>8. QED
    BY <1>2, <2>1, <2>7
<1>7. QED
  BY <1>3, <1>5, <1>6 DEF Inv

LEMMA Stuttering ==
  ASSUME Inv, UNCHANGED vars
  PROVE  Inv'
<1>1. /\ history' = history /\ recorded' = recorded /\ buffer' = buffer /\ graph' = graph
      /\ subscriptions' = subscriptions /\ interceptors' = interceptors /\ contracts' = contracts
      /\ frame' = frame /\ delivery' = delivery /\ hooked' = hooked /\ offered' = offered
  BY DEF vars, registries, records
<1>2. TypeOK' /\ RecordsOK' /\ NoPhantomEdge'
  BY <1>1 DEF Inv, TypeOK, RecordsOK, SameOrder, HistoryIsRecent, NoPhantomEdge
<1>3. QED
  BY <1>1, <1>2 DEF Inv

LEMMA Stepwise ==
  ASSUME Inv, [Next]_vars
  PROVE  Inv'
<1>1. CASE Environment
  <2>1. CASE \E h \in Handler : Subscribe(h) \/ Unsubscribe(h)
    BY <2>1, SubscriptionStep
  <2>2. CASE \E i \in Interceptor : RegisterInterceptor(i) \/ UnregisterInterceptor(i)
    BY <2>2, InterceptorsStep
  <2>3. CASE \E i \in Intent : RegisterContract(i)
    BY <2>3, ContractStep
  <2>4. CASE ClearHistory
    BY <2>4, ClearHistoryStep
  <2>5. QED
    BY <1>1, <2>1, <2>2, <2>3, <2>4 DEF Environment
<1>2. ASSUME NEW c \in Call, BusStep(c)
      PROVE  Inv'
  <2>1. CASE RawAudit(c)
    BY <2>1, PublishStep
  <2>2. CASE InterceptorAudit(c)
    BY <2>2, InterceptorAuditStep
  <2>3. CASE EndInterception(c)
    BY <2>3, EndInterceptionStep
  <2>4. CASE Flow(c)
    BY <2>4, FlowStep
  <2>5. CASE HardAudit(c) \/ SoftAudit(c) \/ Enqueued(c) \/ OnPublish(c)
    BY <2>5, PipelineStep
  <2>6. CASE Record(c)
    BY <2>6, RecordStep
  <2>7. CASE StartHandlers(c)
    BY <2>7, StartHandlersStep
  <2>8. CASE HandlersSettle(c)
    BY <2>8, HandlersSettleStep
  <2>9. ASSUME NEW h \in Handler, HandlerErrorHandled(c, h)
        PROVE  Inv'
    <3>1. PICK to \in Progress : to # "none" /\ Advance(c, h, "failing", to)
      BY <2>9 DEF HandlerErrorHandled, Progress
    <3>2. QED
      BY <3>1, AdvanceStep
  <2>10. QED
    BY <1>2, <2>1, <2>2, <2>3, <2>4, <2>5, <2>6, <2>7, <2>8, <2>9 DEF BusStep
<1>3. ASSUME NEW c \in Call, UserStep(c)
      PROVE  Inv'
  <2>1. CASE Publish(c)
    BY <2>1, PublishStep
  <2>2. CASE InterceptorSettles(c)
    BY <2>2, InterceptorSettlesStep
  <2>3. CASE InterceptorThrows(c)
    BY <2>3, InterceptorThrowsStep
  <2>4. ASSUME NEW h \in Handler, HandlerResolves(c, h) \/ HandlerRejects(c, h)
        PROVE  Inv'
    <3>1. PICK to \in Progress : to # "none" /\ Advance(c, h, "running", to)
      BY <2>4 DEF HandlerResolves, HandlerRejects, Progress
    <3>2. QED
      BY <3>1, AdvanceStep
  <2>5. QED
    BY <1>3, <2>1, <2>2, <2>3, <2>4 DEF UserStep
<1>4. CASE UNCHANGED vars
  BY <1>4, Stuttering
<1>5. QED
  BY <1>1, <1>2, <1>3, <1>4 DEF Next

-----------------------------------------------------------------------------
(* What follows from the invariant.                                        *)

LEMMA InvGuardsAreSound == Inv => GuardsAreSound
<1> SUFFICES ASSUME Inv PROVE GuardsAreSound
  OBVIOUS
<1>1. ProvenanceExact
  <2>1. SUFFICES ASSUME NEW c \in Call
        PROVE  LET f == frame[c]
                   by(k) == offered[c][f.applied[k]]
               IN  /\ f.payload = PayloadOf[c] \cup UNION {by(k) : k \in DOMAIN f.applied}
                   /\ \A k \in DOMAIN f.applied :
                        by(k) \cap (PayloadOf[c] \cup UNION {by(j) : j \in 1 .. k - 1}) = {}
                   /\ c \in Sealed => f.applied = <<>>
    BY DEF ProvenanceExact
  <2>2. CallOK(c, frame[c], delivery[c], offered[c], contracts, c \in hooked)
    BY Known
  <2>3. QED
    BY <2>2 DEF CallOK, ProvenanceOK, Offers
<1>2. InterceptorsCannotVeto
  BY Known, EventBusAssumption DEF Inv, TypeOK, CallOK, InterceptorsCannotVeto, Frame
<1>3. NoPhantomEdge
  BY DEF Inv
<1>4. OwnFlowIsJudged
  <2>1. ASSUME NEW c \in Call, Edge(c) \in HardEdges
        PROVE  ~Recorded(frame[c]) /\ ~Started(c)
    BY <2>1, Known DEF CallOK, Accepted, Recorded, HandlersOK, Started
  <2>2. \A k \in DOMAIN recorded : Recorded(frame[recorded[k]])
    BY DEF Inv, RecordsOK
  <2>3. \A k \in DOMAIN buffer : Recorded(frame[buffer[k]])
    BY DEF Inv, RecordsOK
  <2>4. QED
    BY <2>1, <2>2, <2>3 DEF OwnFlowIsJudged, Range
<1>5. QED
  BY <1>1, <1>2, <1>3, <1>4 DEF GuardsAreSound

LEMMA InvDeliverySound == Inv => DeliverySound
<1> SUFFICES ASSUME Inv PROVE DeliverySound
  OBVIOUS
<1>1. TypeOK /\ RecordsOK /\ HistoryIsRecent
  BY DEF Inv, RecordsOK
<1>2. NotifiedIsExact
  <2>1. SUFFICES ASSUME NEW k \in DOMAIN history, frame[history[k].call].pc \in PastHandlers
                 PROVE  history[k].notified = Cardinality(Notified(history[k].call))
    BY DEF NotifiedIsExact
  <2>2. PICK c \in Call : c = history[k].call
    BY <1>1, ElementsTyped
  <2>3. history[k].notified = Cardinality(frame[c].matching)
    BY <1>1, <2>2 DEF RecordsOK
  <2>4. frame[c].matching \subseteq Handler
    BY Known DEF Frame
  <2>5. \A h \in Handler : delivery[c][h] # "none" <=> h \in frame[c].matching
    BY <2>1, <2>2, Known DEF CallOK, HandlersOK
  <2>6. Notified(c) = frame[c].matching
    BY <2>4, <2>5 DEF Notified
  <2>7. QED
    BY <2>2, <2>3, <2>6
<1>3. HookAfterHandlers
  BY Known DEF HookAfterHandlers, CallOK, HandlersOK
<1>4. BufferFollowsHistory
  <2>1. ASSUME NEW log, NEW c \in Range(log)
        PROVE  Position(log, c) \in DOMAIN log /\ log[Position(log, c)] = c
    <3>1. \E k \in DOMAIN log : log[k] = c
      BY DEF Range
    <3>2. QED
      BY <3>1 DEF Position
  <2>2. QED
    BY <1>1, <2>1 DEF BufferFollowsHistory, RecordsOK, SameOrder
<1>5. QED
  BY <1>1, <1>2, <1>3, <1>4 DEF DeliverySound

\* Every variable of the bus keeps its type, and each publish is where its
\* frame, its handlers, its interceptors and the records say.
THEOREM BusInductive == Spec => []Inv
<1>1. Init => Inv
  BY Initially
<1>2. Inv /\ [Next]_vars => Inv'
  BY Stepwise
<1>3. QED
  BY <1>1, <1>2, PTL DEF Spec

\* Interceptors add and never veto, a denied flow leaves nothing behind, and
\* a publish is judged with its own edge (publish, applyInterceptors and
\* assertObservedLayerFlowAllowed of EventBus.ts), whatever is registered and
\* however publishes overlap.
THEOREM GuardsAreSoundAlways == Spec => []GuardsAreSound
<1>1. Spec => []Inv
  BY BusInductive
<1>2. Inv => GuardsAreSound
  BY InvGuardsAreSound
<1>3. QED
  BY <1>1, <1>2, PTL

\* Who was counted is who is called, the hook comes after all of them, and
\* history and buffer agree (publish, appendHistory and notifyHandlers),
\* whoever subscribes, and whenever the history is cleared.
THEOREM DeliverySoundAlways == Spec => []DeliverySound
<1>1. Spec => []Inv
  BY BusInductive
<1>2. Inv => DeliverySound
  BY InvDeliverySound
<1>3. QED
  BY <1>1, <1>2, PTL
===============================================================================
