--------------------------- MODULE ProjectionsProofs ---------------------------
(***************************************************************************)
(* Theorems about the projection registry for every set of events and      *)
(* projections: what overlapping applications, failing saves and clears    *)
(* can and cannot do to the read models and their checkpoints.             *)
(***************************************************************************)
EXTENDS Projections, FiniteSetTheorems, WellFoundedInduction, TLAPS

-----------------------------------------------------------------------------
(* The inductive invariant.                                                *)

Name(i) == Definitions[i]

\* An application that is under way, or failed, is at a definition it feeds.
AtOK ==
  \A e \in Event :
    /\ apply[e].pc = "idle" => apply[e].at = 0
    /\ apply[e].pc \notin {"idle", "resolved"} =>
         apply[e].at \in 1 .. registered /\ e \in Listens[At(e)]

\* What was counted lies behind the application: nothing is counted twice.
CountedOnce ==
  \A i \in DOMAIN Definitions : \A e \in saved[Name(i)] :
    /\ apply[e].pc # "idle" /\ i <= apply[e].at
    /\ apply[e].pc \in {"load", "project", "save", "saved"} => i < apply[e].at

CheckpointsOK ==
  \A p \in Projection : IsFiniteSet(saved[p]) /\ applied[p] = Cardinality(saved[p])

\* What reached the store for p, and what was sent and then left.
Landed(p) == saved[p] \cup {e \in Event : apply[e].pc = "saved" /\ At(e) = p}
Sent(p) == saved[p] \cup {e \in Event : apply[e].pc \in {"saved", "rejected"} /\ At(e) = p}

\* Two applications that both hold p's state are on record.
RivalsOK ==
  \A p \in Projection : \A d, e \in Event :
    d # e /\ Holding(d, p) /\ Holding(e, p) => e \in overlapped[p]

\* A state in hand, or in the store, misses only what overlapped, and has
\* nothing that was not sent.
StoresOK ==
  \A p \in Projection :
    Landed(p) \ overlapped[p] \subseteq state[p] /\ state[p] \subseteq Sent(p)

HandsOK ==
  \A e \in Event : \A p \in Projection : Holding(e, p) =>
    /\ Landed(p) \ overlapped[p] \subseteq apply[e].current
    /\ apply[e].current \subseteq Sent(p) \cup {e}
    /\ apply[e].pc = "save" => e \in apply[e].current

\* Whatever an application has passed and listens to, it has fed.
Passed(e, i) == i < apply[e].at \/ (i = apply[e].at /\ apply[e].pc = "audit")

PassedOK ==
  \A e \in Event : \A i \in DOMAIN Definitions :
    Active(e) /\ e \in Listens[Name(i)] /\ Passed(e, i) => e \in saved[Name(i)]

Inv ==
  /\ TypeOK /\ AtOK /\ CountedOnce /\ CheckpointsOK /\ RivalsOK
  /\ Undisturbed => StoresOK /\ HandsOK /\ PassedOK /\ FedInOrder
  /\ ~torn /\ clearing => /\ \A e \in Event : ~Active(e)
                          /\ \A p \in Projection : state[p] = {}

-----------------------------------------------------------------------------
(* The definitions, in order of registration.                              *)

LEMMA Names ==
  /\ Len(Definitions) \in Nat /\ DOMAIN Definitions = 1 .. Len(Definitions)
  /\ \A i \in DOMAIN Definitions : Name(i) \in Projection
  /\ \A i, j \in DOMAIN Definitions : Name(i) = Name(j) => i = j
BY ProjectionsAssumption DEF Name

\* A definition that is registered is one of them.
LEMMA Registered ==
  ASSUME TypeOK, NEW i \in 1 .. registered
  PROVE  i \in DOMAIN Definitions /\ Name(i) \in Projection
<1>1. registered \in 0 .. Len(Definitions)
  BY DEF TypeOK
<1>2. i \in 1 .. Len(Definitions)
  BY <1>1, Names
<1>3. QED
  BY <1>2, Names

\* A non-empty set of naturals has a least element.
LEMMA LeastNat ==
  ASSUME NEW D \in SUBSET Nat, D # {}
  PROVE  \E d \in D : \A e \in D : d <= e
<1> DEFINE R == {p \in Nat \X Nat : p[1] < p[2]}
<1>1. IsWellFoundedOn(R, Nat)
  BY NatLessThanWellFounded DEF OpToRel
<1> HIDE DEF R
<1>2. PICK d \in D : \A e \in D : ~(<<e, d>> \in R)
  BY <1>1, WFMin
<1>3. ASSUME NEW e \in D, e < d PROVE FALSE
  BY <1>2, <1>3 DEF R
<1>4. QED
  BY <1>3

\* The loop of apply goes on with the next definition that listens.
LEMMA NextFromType ==
  ASSUME TypeOK, NEW e \in Event, NEW i \in Nat, i > 0
  PROVE  /\ NextFrom(e, i) \in Frame
         /\ \/ NextFrom(e, i).pc = "resolved" /\ NextFrom(e, i).at = apply[e].at
            \/ /\ NextFrom(e, i).pc = "load"
               /\ NextFrom(e, i).at \in 1 .. registered /\ i <= NextFrom(e, i).at
               /\ e \in Listens[Name(NextFrom(e, i).at)]
               /\ \A k \in i .. registered :
                    k < NextFrom(e, i).at => e \notin Listens[Name(k)]
<1> DEFINE later == {j \in i .. registered : e \in Listens[Definitions[j]]}
           f == apply[e]
<1>1. registered \in Nat /\ f \in Frame
  BY Names DEF TypeOK
<1>2. CASE later = {}
  <2>1. NextFrom(e, i) = [f EXCEPT !.pc = "resolved"]
    BY <1>2 DEF NextFrom
  <2>2. QED
    BY <1>1, <2>1 DEF Frame
<1>3. CASE later # {}
  <2>1. later \in SUBSET Nat
    BY <1>1
  <2>2. \E j \in later : \A k \in later : j <= k
    BY <1>3, <2>1, LeastNat
  <2> DEFINE j == CHOOSE j \in later : \A k \in later : j <= k
  <2>3. j \in later /\ \A k \in later : j <= k
    BY <2>2
  <2>4. NextFrom(e, i) = [f EXCEPT !.pc = "load", !.at = j]
    BY <1>3 DEF NextFrom
  <2> HIDE DEF j
  <2>5. /\ j \in 1 .. registered /\ i <= j /\ j \in Nat /\ e \in Listens[Name(j)]
        /\ \A k \in i .. registered : k < j => e \notin Listens[Name(k)]
    BY <1>1, <2>3 DEF Name
  <2>6. /\ NextFrom(e, i) \in Frame
        /\ NextFrom(e, i).pc = "load" /\ NextFrom(e, i).at = j
    BY <1>1, <2>4, <2>5 DEF Frame, Awaits
  <2>7. QED
    BY <2>5, <2>6
<1>4. QED
  BY <1>2, <1>3

-----------------------------------------------------------------------------
(* Steps that move one application and leave the read models alone.        *)

Folding == {"load", "project", "save", "saved"}
InHand == {"project", "save"}

LEMMA FrameStep ==
  ASSUME Inv, NEW e \in Event, NEW u \in Frame,
         apply' = [apply EXCEPT ![e] = u],
         UNCHANGED <<registered, state, applied, saved, clears, clearing>>,
         overlapped' \in [Projection -> SUBSET Event],
         \A p \in Projection : overlapped[p] \subseteq overlapped'[p],
         torn' \in BOOLEAN, torn => torn',
         u.pc \notin {"idle", "saved"}, apply[e].at <= u.at,
         u.pc # "resolved" => u.at \in 1 .. registered /\ e \in Listens[Name(u.at)],
         apply[e].pc \in Folding \/ u.pc \notin Folding \/ apply[e].at < u.at,
         apply[e].pc = "saved" => u.pc = "rejected" /\ u.at = apply[e].at,
         apply[e].pc # "rejected",
         u.pc \in InHand =>
           \A d \in Event \ {e} : Holding(d, Name(u.at)) =>
             d \in overlapped'[Name(u.at)] /\ e \in overlapped'[Name(u.at)],
         Undisturbed /\ u.pc \in InHand =>
           /\ Landed(Name(u.at)) \ overlapped[Name(u.at)] \subseteq u.current
           /\ u.current \subseteq Sent(Name(u.at)) \cup {e}
           /\ u.pc = "save" => e \in u.current,
         Undisturbed /\ u.pc \in Awaits =>
           \A i \in DOMAIN Definitions :
             /\ e \in Listens[Name(i)]
             /\ i < u.at \/ (i = u.at /\ u.pc = "audit")
             => e \in saved[Name(i)],
         ~torn' /\ clearing => u.pc \notin Awaits
  PROVE  Inv'
<1>1. /\ TypeOK /\ AtOK /\ CountedOnce /\ CheckpointsOK /\ RivalsOK
      /\ Undisturbed => StoresOK /\ HandsOK /\ PassedOK /\ FedInOrder
  BY DEF Inv
<1>2. apply'[e] = u /\ \A d \in Event : d # e => apply'[d] = apply[d]
  BY <1>1 DEF TypeOK
<1>3. /\ registered' = registered /\ state' = state /\ applied' = applied
      /\ saved' = saved /\ clearing' = clearing
  OBVIOUS
<1>4. TypeOK'
  BY <1>1 DEF TypeOK
<1>5. AtOK'
  BY <1>1, <1>2, <1>3 DEF AtOK, At, Name
<1>6. CountedOnce'
  <2> SUFFICES ASSUME NEW i \in DOMAIN Definitions, NEW d \in saved[Name(i)]
               PROVE  /\ apply'[d].pc # "idle" /\ i <= apply'[d].at
                      /\ apply'[d].pc \in Folding => i < apply'[d].at
    BY <1>3 DEF CountedOnce, Folding
  <2>1. /\ i <= apply[d].at /\ apply[d].pc # "idle"
        /\ apply[d].pc \in Folding => i < apply[d].at
    BY <1>1 DEF CountedOnce, Folding
  <2>2. i \in Nat /\ u.at \in Nat /\ apply[e].at \in Nat /\ d \in Event
    BY <1>1, Names DEF TypeOK, Frame
  <2>3. QED
    BY <1>2, <2>1, <2>2
<1>7. CheckpointsOK'
  BY <1>1, <1>3 DEF CheckpointsOK
<1>8. RivalsOK'
  <2> SUFFICES ASSUME NEW p \in Projection, NEW d \in Event, NEW c \in Event,
                      d # c, Holding(d, p)', Holding(c, p)'
               PROVE  c \in overlapped'[p]
    BY DEF RivalsOK
  <2>1. CASE d # e /\ c # e
    <3>1. Holding(d, p) /\ Holding(c, p)
      BY <1>2, <2>1 DEF Holding, At
    <3>2. QED
      BY <1>1, <3>1 DEF RivalsOK
  <2>2. CASE d = e \/ c = e
    <3>1. u.pc \in InHand /\ Name(u.at) = p
      BY <1>2, <2>2 DEF Holding, At, Name, InHand
    <3>2. \A x \in Event \ {e} : x \in {c, d} => Holding(x, p)
      BY <1>2 DEF Holding, At
    <3>3. QED
      BY <2>2, <3>1, <3>2
  <2>3. QED
    BY <2>1, <2>2
<1>9. \A p : Landed(p)' \subseteq Landed(p) /\ Sent(p) \subseteq Sent(p)'
  BY <1>2, <1>3 DEF Landed, Sent, At
<1>10. ASSUME Undisturbed' PROVE (StoresOK /\ HandsOK /\ PassedOK /\ FedInOrder)'
  <2>1. Undisturbed /\ StoresOK /\ HandsOK /\ PassedOK /\ FedInOrder
    BY <1>1, <1>3, <1>10 DEF Undisturbed
  <2>2. StoresOK'
    BY <1>3, <1>9, <2>1 DEF StoresOK
  <2>3. HandsOK'
    <3> SUFFICES ASSUME NEW d \in Event, NEW p \in Projection, Holding(d, p)'
                 PROVE  /\ Landed(p)' \ overlapped'[p] \subseteq apply'[d].current
                        /\ apply'[d].current \subseteq Sent(p)' \cup {d}
                        /\ apply'[d].pc = "save" => d \in apply'[d].current
      BY DEF HandsOK
    <3>1. CASE d = e
      <4>1. u.pc \in InHand /\ Name(u.at) = p
        BY <1>2, <3>1 DEF Holding, At, Name, InHand
      <4>2. QED
        BY <1>2, <1>9, <2>1, <3>1, <4>1
    <3>2. CASE d # e
      <4>1. Holding(d, p) /\ apply'[d] = apply[d]
        BY <1>2, <3>2 DEF Holding, At
      <4>2. /\ Landed(p) \ overlapped[p] \subseteq apply[d].current
            /\ apply[d].current \subseteq Sent(p) \cup {d}
            /\ apply[d].pc = "save" => d \in apply[d].current
        BY <2>1, <4>1 DEF HandsOK
      <4>3. QED
        BY <1>9, <4>1, <4>2
    <3>3. QED
      BY <3>1, <3>2
  <2>4. PassedOK'
    BY <1>2, <1>3, <2>1 DEF PassedOK, Passed, Active
  <2>5. FedInOrder'
    BY <1>3, <1>10, <2>1, <1>1 DEF FedInOrder, Undisturbed
  <2>6. QED
    BY <2>2, <2>3, <2>4, <2>5
<1>11. ASSUME ~torn', clearing'
       PROVE  (\A d \in Event : ~Active(d))' /\ \A p \in Projection : state'[p] = {}
  BY <1>2, <1>3, <1>11 DEF Inv, Active
<1>12. QED
  BY <1>4, <1>5, <1>6, <1>7, <1>8, <1>10, <1>11 DEF Inv

\* What an application under way has in hand.
LEMMA ActiveAt ==
  ASSUME Inv, NEW e \in Event, Active(e)
  PROVE  /\ apply[e] \in Frame /\ apply[e].at \in 1 .. registered
         /\ apply[e].at \in DOMAIN Definitions /\ apply[e].at \in Nat
         /\ At(e) = Name(apply[e].at) /\ At(e) \in Projection
         /\ e \in Listens[At(e)]
         /\ ~torn => ~clearing
<1>1. TypeOK /\ AtOK
  BY DEF Inv
<1>2. apply[e].at \in 1 .. registered /\ e \in Listens[At(e)]
  BY <1>1 DEF AtOK, Active, Awaits
<1>3. ~torn => ~clearing
  BY DEF Inv
<1>4. QED
  BY <1>1, <1>2, <1>3, Registered DEF At, Name, TypeOK, Frame

LEMMA ApplyKeeps ==
  ASSUME Inv, NEW e \in Event, Apply(e)
  PROVE  Inv'
<1> DEFINE u == NextFrom(e, 1)
<1>1. /\ apply[e].pc = "idle" /\ apply' = [apply EXCEPT ![e] = u]
      /\ torn' = (torn \/ clearing)
      /\ UNCHANGED <<registered, state, applied, overlapped, saved, clears, clearing>>
  BY DEF Apply, Move, readModel
<1>2. TypeOK /\ apply[e] \in Frame /\ apply[e].at = 0 /\ registered \in Nat
  BY <1>1, Names DEF Inv, TypeOK, AtOK
<1>3. /\ u \in Frame
      /\ \/ u.pc = "resolved" /\ u.at = apply[e].at
         \/ /\ u.pc = "load" /\ u.at \in 1 .. registered /\ 1 <= u.at
            /\ e \in Listens[Name(u.at)]
            /\ \A k \in 1 .. registered : k < u.at => e \notin Listens[Name(k)]
  <2>1. 1 \in Nat /\ 1 > 0
    OBVIOUS
  <2>2. QED
    BY <1>2, <2>1, NextFromType
<1> HIDE DEF u
<1>4. /\ u \in Frame /\ apply[e].at <= u.at
      /\ \/ u.pc = "resolved"
         \/ /\ u.pc = "load" /\ u.at \in 1 .. registered /\ e \in Listens[Name(u.at)]
            /\ apply[e].at < u.at
            /\ \A k \in 1 .. registered : k < u.at => e \notin Listens[Name(k)]
  BY <1>2, <1>3 DEF Frame, Awaits
<1>5. \A i \in DOMAIN Definitions : i < u.at /\ u.pc = "load" => e \notin Listens[Name(i)]
  BY <1>2, <1>4, Names
<1>6. /\ overlapped' \in [Projection -> SUBSET Event] /\ torn' \in BOOLEAN
      /\ overlapped' = overlapped /\ ~(~torn' /\ clearing)
  BY <1>1, <1>2 DEF TypeOK
<1>7. u.pc \notin InHand /\ u.pc \notin {"idle", "saved", "audit"}
  BY <1>4 DEF InHand
<1>8. /\ u.pc # "resolved" => u.at \in 1 .. registered /\ e \in Listens[Name(u.at)]
      /\ u.pc \notin Folding \/ apply[e].at < u.at
      /\ u.pc \in Awaits => \A i \in DOMAIN Definitions :
           /\ e \in Listens[Name(i)]
           /\ i < u.at \/ (i = u.at /\ u.pc = "audit")
           => e \in saved[Name(i)]
  BY <1>4, <1>5, <1>7 DEF Folding, Awaits
<1>9. QED
  BY <1>1, <1>4, <1>6, <1>7, <1>8, FrameStep

LEMMA LoadKeeps ==
  ASSUME Inv, NEW e \in Event, Load(e)
  PROVE  Inv'
<1> DEFINE f == apply[e]
           p == At(e)
           rivals == {d \in Event \ {e} : Holding(d, p)}
           u == [f EXCEPT !.pc = "project", !.current = state[p]]
<1>1. /\ f.pc = "load" /\ apply' = [apply EXCEPT ![e] = u]
      /\ overlapped' = [overlapped EXCEPT ![p] =
                          IF rivals = {} THEN @ ELSE @ \cup rivals \cup {e}]
      /\ UNCHANGED <<registered, state, applied, saved, clears, clearing, torn>>
  BY DEF Load, Move, clearVars
<1>2. TypeOK /\ Active(e)
  BY <1>1 DEF Inv, Active, Awaits
<1>3. /\ f \in Frame /\ f.at \in 1 .. registered /\ f.at \in Nat
      /\ p = Name(f.at) /\ p \in Projection /\ e \in Listens[p]
      /\ ~torn => ~clearing
  BY <1>2, ActiveAt
<1>4. u \in Frame /\ u.pc = "project" /\ u.at = f.at /\ u.current = state[p]
  BY <1>2, <1>3 DEF Frame, Awaits, TypeOK
<1>5. /\ overlapped' \in [Projection -> SUBSET Event] /\ torn' \in BOOLEAN
      /\ \A q \in Projection : overlapped[q] \subseteq overlapped'[q]
      /\ \A d \in Event \ {e} : Holding(d, p) =>
           d \in overlapped'[p] /\ e \in overlapped'[p]
  BY <1>1, <1>2, <1>3 DEF TypeOK
<1>6. Undisturbed =>
        /\ Landed(p) \ overlapped[p] \subseteq state[p] /\ state[p] \subseteq Sent(p)
        /\ \A i \in DOMAIN Definitions :
             e \in Listens[Name(i)] /\ i < f.at => e \in saved[Name(i)]
  BY <1>2, <1>3 DEF Inv, StoresOK, PassedOK, Passed
<1> HIDE DEF u, p
<1>7. /\ f.at <= u.at /\ (f.pc \in Folding) /\ u.pc \notin {"idle", "saved", "resolved"}
      /\ f.pc \notin {"saved", "rejected"}
      /\ u.at \in 1 .. registered /\ e \in Listens[Name(u.at)]
  BY <1>1, <1>3, <1>4 DEF Folding
<1>8. \A d \in Event \ {e} : Holding(d, Name(u.at)) =>
        d \in overlapped'[Name(u.at)] /\ e \in overlapped'[Name(u.at)]
  BY <1>3, <1>4, <1>5
<1>9. Undisturbed =>
        /\ Landed(Name(u.at)) \ overlapped[Name(u.at)] \subseteq u.current
        /\ u.current \subseteq Sent(Name(u.at)) \cup {e}
        /\ u.pc = "save" => e \in u.current
  BY <1>3, <1>4, <1>6
<1>10. Undisturbed =>
         \A i \in DOMAIN Definitions :
           /\ e \in Listens[Name(i)]
           /\ i < u.at \/ (i = u.at /\ u.pc = "audit")
           => e \in saved[Name(i)]
  BY <1>4, <1>6
<1>11. ~(~torn' /\ clearing)
  BY <1>1, <1>3
<1>12. QED
  BY <1>1, <1>4, <1>5, <1>7, <1>8, <1>9, <1>10, <1>11, FrameStep

LEMMA ProjectKeeps ==
  ASSUME Inv, NEW e \in Event, Project(e)
  PROVE  Inv'
<1> DEFINE f == apply[e]
           p == At(e)
           u == [f EXCEPT !.pc = "save", !.current = @ \cup {e}]
<1>1. /\ f.pc = "project" /\ apply' = [apply EXCEPT ![e] = u]
      /\ UNCHANGED <<registered, state, applied, overlapped, saved, clears,
                     clearing, torn>>
  BY DEF Project, Move, clearVars, readModel
<1>2. TypeOK /\ RivalsOK /\ Active(e) /\ Holding(e, p)
  BY <1>1 DEF Inv, Active, Awaits, Holding
<1>3. /\ f \in Frame /\ f.at \in 1 .. registered /\ f.at \in Nat
      /\ p = Name(f.at) /\ p \in Projection /\ e \in Listens[p]
      /\ ~torn => ~clearing
  BY <1>2, ActiveAt
<1>4. u \in Frame /\ u.pc = "save" /\ u.at = f.at /\ u.current = f.current \cup {e}
  BY <1>2, <1>3 DEF Frame, Awaits
<1>5. /\ overlapped' \in [Projection -> SUBSET Event] /\ torn' \in BOOLEAN
      /\ overlapped' = overlapped
  BY <1>1, <1>2 DEF TypeOK
<1>6. \A d \in Event \ {e} : Holding(d, p) => d \in overlapped[p] /\ e \in overlapped[p]
  BY <1>2, <1>3 DEF RivalsOK
<1>7. Undisturbed =>
        /\ Landed(p) \ overlapped[p] \subseteq f.current
        /\ f.current \subseteq Sent(p) \cup {e}
        /\ \A i \in DOMAIN Definitions :
             e \in Listens[Name(i)] /\ i < f.at => e \in saved[Name(i)]
  BY <1>2, <1>3 DEF Inv, HandsOK, PassedOK, Passed
<1> HIDE DEF u, p
<1>8. /\ f.at <= u.at /\ (f.pc \in Folding) /\ u.pc \notin {"idle", "saved", "resolved"}
      /\ f.pc \notin {"saved", "rejected"}
      /\ u.at \in 1 .. registered /\ e \in Listens[Name(u.at)]
  BY <1>1, <1>3, <1>4 DEF Folding
<1>9. \A d \in Event \ {e} : Holding(d, Name(u.at)) =>
        d \in overlapped'[Name(u.at)] /\ e \in overlapped'[Name(u.at)]
  BY <1>3, <1>4, <1>5, <1>6
<1>10. Undisturbed =>
         /\ Landed(Name(u.at)) \ overlapped[Name(u.at)] \subseteq u.current
         /\ u.current \subseteq Sent(Name(u.at)) \cup {e}
         /\ u.pc = "save" => e \in u.current
  BY <1>3, <1>4, <1>7
<1>11. Undisturbed =>
         \A i \in DOMAIN Definitions :
           /\ e \in Listens[Name(i)]
           /\ i < u.at \/ (i = u.at /\ u.pc = "audit")
           => e \in saved[Name(i)]
  BY <1>4, <1>7
<1>12. ~(~torn' /\ clearing) /\ \A q \in Projection : overlapped[q] \subseteq overlapped'[q]
  BY <1>1, <1>3, <1>5
<1>13. QED
  BY <1>1, <1>4, <1>5, <1>8, <1>9, <1>10, <1>11, <1>12, FrameStep

LEMMA AuditKeeps ==
  ASSUME Inv, NEW e \in Event, Audit(e)
  PROVE  Inv'
<1> DEFINE f == apply[e]
           u == NextFrom(e, f.at + 1)
<1>1. /\ f.pc = "audit" /\ apply' = [apply EXCEPT ![e] = u]
      /\ UNCHANGED <<registered, state, applied, overlapped, saved, clears,
                     clearing, torn>>
  BY DEF Audit, Move, clearVars, readModel
<1>2. TypeOK /\ Active(e) /\ registered \in Nat
  BY <1>1, Names DEF Inv, Active, Awaits, TypeOK
<1>3. /\ f \in Frame /\ f.at \in 1 .. registered /\ f.at \in Nat
      /\ ~torn => ~clearing
  BY <1>2, ActiveAt
<1>4. /\ u \in Frame
      /\ \/ u.pc = "resolved" /\ u.at = apply[e].at
         \/ /\ u.pc = "load" /\ u.at \in 1 .. registered /\ f.at + 1 <= u.at
            /\ e \in Listens[Name(u.at)]
            /\ \A k \in f.at + 1 .. registered :
                 k < u.at => e \notin Listens[Name(k)]
  <2>1. f.at + 1 \in Nat /\ f.at + 1 > 0
    BY <1>3
  <2>2. QED
    BY <1>2, <2>1, NextFromType
<1> HIDE DEF u
<1>5. /\ u \in Frame /\ f.at <= u.at
      /\ \/ u.pc = "resolved"
         \/ /\ u.pc = "load" /\ u.at \in 1 .. registered /\ e \in Listens[Name(u.at)]
            /\ f.at < u.at
            /\ \A k \in f.at + 1 .. registered : k < u.at => e \notin Listens[Name(k)]
  BY <1>2, <1>3, <1>4 DEF Frame, Awaits
<1>6. /\ overlapped' \in [Projection -> SUBSET Event] /\ torn' \in BOOLEAN
      /\ overlapped' = overlapped /\ ~(~torn' /\ clearing)
  BY <1>1, <1>2, <1>3 DEF TypeOK
<1>7. u.pc \notin InHand /\ u.pc \notin {"idle", "saved", "audit"}
  BY <1>5 DEF InHand
<1>8. /\ u.pc # "resolved" => u.at \in 1 .. registered /\ e \in Listens[Name(u.at)]
      /\ u.pc \notin Folding \/ apply[e].at < u.at
      /\ f.pc \notin {"saved", "rejected"}
  BY <1>1, <1>5 DEF Folding
<1>9. ASSUME Undisturbed, u.pc \in Awaits, NEW i \in DOMAIN Definitions,
             e \in Listens[Name(i)], i < u.at
      PROVE  e \in saved[Name(i)]
  <2>1. i \in Nat /\ i > 0 /\ u.pc = "load"
    BY <1>5, <1>9, Names DEF Awaits
  <2>2. i <= f.at
    BY <1>2, <1>3, <1>5, <1>9, <2>1
  <2>3. i < f.at \/ i = f.at
    BY <1>3, <2>1, <2>2
  <2>4. QED
    BY <1>1, <1>2, <1>9, <2>3 DEF Inv, PassedOK, Passed
<1>10. Undisturbed /\ u.pc \in Awaits =>
         \A i \in DOMAIN Definitions :
           /\ e \in Listens[Name(i)]
           /\ i < u.at \/ (i = u.at /\ u.pc = "audit")
           => e \in saved[Name(i)]
  BY <1>7, <1>9
<1>11. QED
  BY <1>1, <1>5, <1>6, <1>7, <1>8, <1>10, FrameStep

LEMMA FailsKeeps ==
  ASSUME Inv, NEW e \in Event, Fails(e)
  PROVE  Inv'
<1> DEFINE f == apply[e]
           u == [f EXCEPT !.pc = "rejected"]
<1>1. /\ f.pc \in Awaits /\ apply' = [apply EXCEPT ![e] = u]
      /\ UNCHANGED <<registered, state, applied, overlapped, saved, clears,
                     clearing, torn>>
  BY DEF Fails, Move, clearVars, readModel, Awaits
<1>2. TypeOK /\ Active(e)
  BY <1>1 DEF Inv, Active
<1>3. /\ f \in Frame /\ f.at \in 1 .. registered /\ f.at \in Nat
      /\ At(e) = Name(f.at) /\ e \in Listens[At(e)] /\ (~torn => ~clearing)
  BY <1>2, ActiveAt
<1>4. u \in Frame /\ u.pc = "rejected" /\ u.at = f.at
  BY <1>3 DEF Frame
<1> HIDE DEF u
<1>5. /\ overlapped' \in [Projection -> SUBSET Event] /\ torn' \in BOOLEAN
      /\ overlapped' = overlapped /\ ~(~torn' /\ clearing)
  BY <1>1, <1>2, <1>3 DEF TypeOK
<1>6. /\ u.pc \notin InHand /\ u.pc \notin Folding /\ u.pc \notin Awaits
      /\ f.at <= u.at /\ f.pc # "rejected"
      /\ u.at \in 1 .. registered /\ e \in Listens[Name(u.at)]
  BY <1>1, <1>3, <1>4 DEF InHand, Folding, Awaits
<1>7. QED
  BY <1>1, <1>4, <1>5, <1>6, FrameStep

-----------------------------------------------------------------------------
(* Steps that write a read model or a checkpoint.                          *)

LEMMA SaveLandsKeeps ==
  ASSUME Inv, NEW e \in Event, SaveLands(e)
  PROVE  Inv'
<1> DEFINE f == apply[e]
           u == [f EXCEPT !.pc = "saved"]
<1>1. PICK q : q = At(e)
  OBVIOUS
<1>2. /\ f.pc = "save" /\ apply' = [apply EXCEPT ![e] = u]
      /\ state' = [state EXCEPT ![q] = f.current]
      /\ UNCHANGED <<registered, applied, overlapped, saved, clears, clearing, torn>>
  BY <1>1 DEF SaveLands, Move, clearVars
<1>3. /\ TypeOK /\ AtOK /\ CountedOnce /\ CheckpointsOK /\ RivalsOK
      /\ Undisturbed => StoresOK /\ HandsOK /\ PassedOK /\ FedInOrder
      /\ Active(e) /\ Holding(e, q)
  BY <1>1, <1>2 DEF Inv, Active, Awaits, Holding
<1>4. /\ f \in Frame /\ f.at \in 1 .. registered /\ f.at \in Nat
      /\ q = Name(f.at) /\ q \in Projection /\ e \in Listens[q]
      /\ ~torn => ~clearing
  BY <1>1, <1>3, ActiveAt
<1>5. u \in Frame /\ u.pc = "saved" /\ u.at = f.at /\ u.current = f.current
  BY <1>4 DEF Frame, Awaits
<1> HIDE DEF u
<1>6. /\ apply'[e] = u /\ At(e)' = q
      /\ \A d \in Event : d # e => apply'[d] = apply[d] /\ At(d)' = At(d)
  BY <1>2, <1>3, <1>4, <1>5 DEF TypeOK, At, Name
<1>7. TypeOK'
  BY <1>2, <1>3, <1>4, <1>5 DEF TypeOK, Frame
<1>8. AtOK'
  BY <1>2, <1>3, <1>4, <1>5, <1>6 DEF AtOK
<1>9. CountedOnce'
  BY <1>2, <1>3, <1>5, <1>6 DEF CountedOnce
<1>10. CheckpointsOK'
  BY <1>2, <1>3 DEF CheckpointsOK
<1>11. \A d \in Event, p \in Projection : Holding(d, p)' => Holding(d, p) /\ d # e
  BY <1>5, <1>6 DEF Holding
<1>12. RivalsOK'
  BY <1>2, <1>3, <1>11 DEF RivalsOK
<1>13. /\ Landed(q)' = Landed(q) \cup {e} /\ Sent(q)' = Sent(q) \cup {e}
       /\ \A p \in Projection : p # q => Landed(p)' = Landed(p) /\ Sent(p)' = Sent(p)
  <2>1. Landed(q)' = Landed(q) \cup {e} /\ Sent(q)' = Sent(q) \cup {e}
    BY <1>1, <1>2, <1>5, <1>6 DEF Landed, Sent
  <2>2. ASSUME NEW p \in Projection, p # q
        PROVE  Landed(p)' = Landed(p) /\ Sent(p)' = Sent(p)
    BY <1>1, <1>2, <1>5, <1>6, <2>2 DEF Landed, Sent
  <2>3. QED
    BY <2>1, <2>2
<1>14. /\ state'[q] = f.current
       /\ \A p \in Projection : p # q => state'[p] = state[p]
  BY <1>2, <1>3, <1>4 DEF TypeOK
<1>15. ASSUME Undisturbed' PROVE (StoresOK /\ HandsOK /\ PassedOK /\ FedInOrder)'
  <2>1. StoresOK /\ HandsOK /\ PassedOK /\ FedInOrder /\ Undisturbed
    BY <1>2, <1>3, <1>15 DEF Undisturbed
  <2>2. /\ Landed(q) \ overlapped[q] \subseteq f.current
        /\ f.current \subseteq Sent(q) \cup {e} /\ e \in f.current
    BY <1>2, <1>3, <1>4, <2>1 DEF HandsOK
  <2>3. StoresOK'
    <3> SUFFICES ASSUME NEW p \in Projection
                 PROVE  /\ Landed(p)' \ overlapped'[p] \subseteq state'[p]
                        /\ state'[p] \subseteq Sent(p)'
      BY DEF StoresOK
    <3>1. CASE p = q
      BY <1>2, <1>13, <1>14, <2>2, <3>1
    <3>2. CASE p # q
      BY <1>2, <1>13, <1>14, <2>1, <3>2 DEF StoresOK
    <3>3. QED
      BY <3>1, <3>2
  <2>4. HandsOK'
    <3> SUFFICES ASSUME NEW d \in Event, NEW p \in Projection, Holding(d, p)'
                 PROVE  /\ Landed(p)' \ overlapped'[p] \subseteq apply'[d].current
                        /\ apply'[d].current \subseteq Sent(p)' \cup {d}
                        /\ apply'[d].pc = "save" => d \in apply'[d].current
      BY DEF HandsOK
    <3>1. Holding(d, p) /\ d # e /\ apply'[d] = apply[d]
      BY <1>6, <1>11
    <3>2. /\ Landed(p) \ overlapped[p] \subseteq apply[d].current
          /\ apply[d].current \subseteq Sent(p) \cup {d}
          /\ apply[d].pc = "save" => d \in apply[d].current
      BY <2>1, <3>1 DEF HandsOK
    <3>3. p = q => e \in overlapped[p]
      BY <1>3, <1>4, <3>1 DEF RivalsOK
    <3>4. QED
      BY <1>2, <1>13, <3>1, <3>2, <3>3
  <2>5. PassedOK'
    BY <1>2, <1>3, <1>5, <1>6, <2>1 DEF PassedOK, Passed, Active
  <2>6. FedInOrder'
    BY <1>2, <2>1, <1>15 DEF FedInOrder
  <2>7. QED
    BY <2>3, <2>4, <2>5, <2>6
<1>16. ~(~torn' /\ clearing')
  BY <1>2, <1>4
<1>17. QED
  BY <1>7, <1>8, <1>9, <1>10, <1>12, <1>15, <1>16 DEF Inv

LEMMA SaveResolvesKeeps ==
  ASSUME Inv, NEW e \in Event, SaveResolves(e)
  PROVE  Inv'
<1> DEFINE f == apply[e]
           u == [f EXCEPT !.pc = "audit"]
<1>1. PICK q : q = At(e)
  OBVIOUS
<1>2. /\ f.pc = "saved" /\ apply' = [apply EXCEPT ![e] = u]
      /\ applied' = [applied EXCEPT ![q] = @ + 1]
      /\ saved' = [saved EXCEPT ![q] = @ \cup {e}]
      /\ UNCHANGED <<registered, state, overlapped, clears, clearing, torn>>
  BY <1>1 DEF SaveResolves, Move, clearVars
<1>3. /\ TypeOK /\ AtOK /\ CountedOnce /\ CheckpointsOK /\ RivalsOK
      /\ Undisturbed => StoresOK /\ HandsOK /\ PassedOK /\ FedInOrder
      /\ Active(e)
  BY <1>2 DEF Inv, Active, Awaits
<1>4. /\ f \in Frame /\ f.at \in 1 .. registered /\ f.at \in Nat
      /\ f.at \in DOMAIN Definitions
      /\ q = Name(f.at) /\ q \in Projection /\ e \in Listens[q]
      /\ ~torn => ~clearing
  BY <1>1, <1>3, ActiveAt
<1>5. u \in Frame /\ u.pc = "audit" /\ u.at = f.at /\ u.current = f.current
  BY <1>4 DEF Frame, Awaits
<1> HIDE DEF u
<1>6. /\ apply'[e] = u /\ At(e)' = q
      /\ \A d \in Event : d # e => apply'[d] = apply[d] /\ At(d)' = At(d)
  BY <1>2, <1>3, <1>4, <1>5 DEF TypeOK, At, Name
<1>7. /\ saved'[q] = saved[q] \cup {e} /\ applied'[q] = applied[q] + 1
      /\ \A p \in Projection : p # q => saved'[p] = saved[p] /\ applied'[p] = applied[p]
  BY <1>2, <1>3, <1>4 DEF TypeOK
<1>8. TypeOK'
  BY <1>2, <1>3, <1>4, <1>5 DEF TypeOK
<1>9. AtOK'
  BY <1>2, <1>3, <1>4, <1>5, <1>6 DEF AtOK
<1>10. CountedOnce'
  <2> SUFFICES ASSUME NEW i \in DOMAIN Definitions, NEW d \in saved'[Name(i)]
               PROVE  /\ apply'[d].pc # "idle" /\ i <= apply'[d].at
                      /\ apply'[d].pc \in Folding => i < apply'[d].at
    BY DEF CountedOnce, Folding
  <2>1. Name(i) \in Projection
    BY Names
  <2>2. CASE d \in saved[Name(i)]
    <3>1. /\ apply[d].pc # "idle" /\ i <= apply[d].at
          /\ apply[d].pc \in Folding => i < apply[d].at
      BY <1>3, <2>2 DEF CountedOnce, Folding
    <3>2. d \in Event
      BY <1>3, <2>1, <2>2 DEF TypeOK
    <3>3. QED
      BY <1>5, <1>6, <3>1, <3>2 DEF Folding
  <2>3. CASE d \notin saved[Name(i)]
    <3>1. Name(i) = q /\ d = e
      BY <1>7, <2>1, <2>3
    <3>2. i = f.at
      BY <1>4, <3>1, Names
    <3>3. QED
      BY <1>4, <1>5, <1>6, <3>1, <3>2 DEF Folding
  <2>4. QED
    BY <2>2, <2>3
<1>11. CheckpointsOK'
  <2>1. e \notin saved[q]
    BY <1>2, <1>3, <1>4 DEF CountedOnce
  <2>2. IsFiniteSet(saved[q]) /\ applied[q] = Cardinality(saved[q])
    BY <1>3, <1>4 DEF CheckpointsOK
  <2>3. /\ IsFiniteSet(saved[q] \cup {e})
        /\ Cardinality(saved[q] \cup {e}) = Cardinality(saved[q]) + 1
    BY <2>1, <2>2, FS_AddElement
  <2>4. QED
    BY <1>3, <1>7, <2>2, <2>3 DEF CheckpointsOK
<1>12. \A d \in Event, p \in Projection :
         Holding(d, p)' => Holding(d, p) /\ apply'[d] = apply[d]
  BY <1>5, <1>6 DEF Holding
<1>13. RivalsOK'
  BY <1>2, <1>3, <1>12 DEF RivalsOK
<1>14. ASSUME NEW p \in Projection
       PROVE  Landed(p)' = Landed(p) /\ Sent(p)' = Sent(p)
  <2>1. CASE p = q
    BY <1>1, <1>2, <1>5, <1>6, <1>7, <2>1 DEF Landed, Sent
  <2>2. CASE p # q
    BY <1>1, <1>2, <1>5, <1>6, <1>7, <2>2 DEF Landed, Sent
  <2>3. QED
    BY <2>1, <2>2
<1>15. ASSUME Undisturbed' PROVE (StoresOK /\ HandsOK /\ PassedOK /\ FedInOrder)'
  <2>1. StoresOK /\ HandsOK /\ PassedOK /\ FedInOrder /\ Undisturbed
    BY <1>2, <1>3, <1>15 DEF Undisturbed
  <2>2. StoresOK'
    BY <1>2, <1>14, <2>1 DEF StoresOK
  <2>3. HandsOK'
    BY <1>2, <1>12, <1>14, <2>1 DEF HandsOK
  <2>4. PassedOK'
    <3> SUFFICES ASSUME NEW d \in Event, NEW i \in DOMAIN Definitions,
                        Active(d)', d \in Listens[Name(i)], Passed(d, i)'
                 PROVE  d \in saved'[Name(i)]
      BY DEF PassedOK
    <3>1. Name(i) \in Projection /\ (\A p \in Projection : saved[p] \subseteq saved'[p])
      BY <1>7, Names
    <3>2. CASE d # e
      BY <1>6, <2>1, <3>1, <3>2 DEF PassedOK, Passed, Active
    <3>3. CASE d = e /\ i < f.at
      BY <1>3, <2>1, <3>1, <3>3 DEF PassedOK, Passed
    <3>4. CASE d = e /\ i = f.at
      BY <1>4, <1>7, <3>4
    <3>5. QED
      BY <1>5, <1>6, <3>2, <3>3, <3>4 DEF Passed
  <2>5. FedInOrder'
    <3> SUFFICES ASSUME NEW i \in DOMAIN Definitions, NEW j \in DOMAIN Definitions,
                        NEW d \in saved'[Name(j)], i < j, d \in Listens[Name(i)]
                 PROVE  d \in saved'[Name(i)]
      BY DEF FedInOrder, Name
    <3>1. /\ Name(i) \in Projection /\ Name(j) \in Projection
          /\ \A p \in Projection : saved[p] \subseteq saved'[p]
      BY <1>7, Names
    <3>2. CASE d \in saved[Name(j)]
      <4>1. d \in saved[Name(i)]
        BY <2>1, <3>2 DEF FedInOrder, Name
      <4>2. QED
        BY <3>1, <4>1
    <3>3. CASE d \notin saved[Name(j)]
      <4>1. Name(j) = q /\ d = e
        BY <1>7, <3>1, <3>3
      <4>2. j = f.at
        BY <1>4, <4>1, Names
      <4>3. d \in saved[Name(i)]
        BY <1>3, <2>1, <4>1, <4>2 DEF PassedOK, Passed
      <4>4. QED
        BY <3>1, <4>3
    <3>4. QED
      BY <3>2, <3>3
  <2>6. QED
    BY <2>2, <2>3, <2>4, <2>5
<1>16. ~(~torn' /\ clearing')
  BY <1>2, <1>4
<1>17. QED
  BY <1>8, <1>9, <1>10, <1>11, <1>13, <1>15, <1>16 DEF Inv

LEMMA RegisterKeeps ==
  ASSUME Inv, Register
  PROVE  Inv'
<1>1. /\ registered < Len(Definitions) /\ registered' = registered + 1
      /\ UNCHANGED <<state, applied, apply, overlapped, saved, clears, clearing, torn>>
  BY DEF Register, readModel, clearVars
<1>2. registered' \in 0 .. Len(Definitions) /\ 1 .. registered \subseteq 1 .. registered'
  BY <1>1, Names DEF Inv, TypeOK
<1>3. TypeOK'
  BY <1>1, <1>2 DEF Inv, TypeOK
<1>4. AtOK'
  BY <1>1, <1>2 DEF Inv, AtOK, At
<1>5. CountedOnce' /\ CheckpointsOK' /\ RivalsOK'
  BY <1>1 DEF Inv, CountedOnce, CheckpointsOK, RivalsOK, Holding, At
<1>6. \A p : Landed(p)' = Landed(p) /\ Sent(p)' = Sent(p)
  BY <1>1 DEF Landed, Sent, At
<1>7. Undisturbed' => (StoresOK /\ HandsOK /\ PassedOK /\ FedInOrder)'
  BY <1>1, <1>6 DEF Inv, Undisturbed, StoresOK, HandsOK, PassedOK, Passed,
                    FedInOrder, Active, Holding, At
<1>8. ~torn' /\ clearing' => /\ (\A e \in Event : ~Active(e))'
                             /\ \A p \in Projection : state'[p] = {}
  BY <1>1 DEF Inv, Active
<1>9. QED
  BY <1>3, <1>4, <1>5, <1>7, <1>8 DEF Inv

LEMMA ClearStoreKeeps ==
  ASSUME Inv, ClearStore
  PROVE  Inv'
<1>1. /\ clears < MaxClears /\ clears' = clears + 1 /\ clearing' = TRUE
      /\ torn' = (torn \/ \E e \in Event : Active(e))
      /\ state' = [p \in Projection |-> {}]
      /\ UNCHANGED <<registered, applied, apply, overlapped, saved>>
  BY DEF ClearStore
<1>2. TypeOK'
  BY <1>1, ProjectionsAssumption DEF Inv, TypeOK
<1>3. AtOK' /\ CountedOnce' /\ CheckpointsOK' /\ RivalsOK'
  BY <1>1 DEF Inv, AtOK, CountedOnce, CheckpointsOK, RivalsOK, Holding, At
<1>4. ~torn' => /\ (\A e \in Event : ~Active(e))'
                /\ \A p \in Projection : state'[p] = {}
  BY <1>1 DEF Active
<1>5. QED
  BY <1>1, <1>2, <1>3, <1>4 DEF Inv, Undisturbed

LEMMA ResetCheckpointsKeeps ==
  ASSUME Inv, ResetCheckpoints
  PROVE  Inv'
<1>1. /\ clearing /\ clearing' = FALSE
      /\ applied' = [p \in Projection |-> 0]
      /\ saved' = [p \in Projection |-> {}]
      /\ UNCHANGED <<registered, state, apply, clears, torn, overlapped>>
  BY DEF ResetCheckpoints
<1>2. TypeOK'
  BY <1>1 DEF Inv, TypeOK
<1>3. AtOK' /\ RivalsOK'
  BY <1>1 DEF Inv, AtOK, RivalsOK, Holding, At
<1>4. CountedOnce'
  BY <1>1, Names DEF CountedOnce
<1>5. CheckpointsOK'
  BY <1>1, FS_EmptySet DEF CheckpointsOK
<1>6. ASSUME ~torn PROVE (StoresOK /\ HandsOK /\ PassedOK /\ FedInOrder)'
  <2>1. /\ \A e \in Event : apply'[e].pc \notin Awaits
        /\ \A p \in Projection : state'[p] = {} /\ saved'[p] = {}
    BY <1>1, <1>6 DEF Inv, Active
  <2>2. StoresOK'
    BY <2>1 DEF StoresOK, Landed, Awaits
  <2>3. HandsOK' /\ PassedOK'
    BY <2>1 DEF HandsOK, PassedOK, Holding, Active, Awaits
  <2>4. FedInOrder'
    BY <2>1, Names DEF FedInOrder, Name
  <2>5. QED
    BY <2>2, <2>3, <2>4
<1>7. QED
  BY <1>1, <1>2, <1>3, <1>4, <1>5, <1>6 DEF Inv, Undisturbed

-----------------------------------------------------------------------------
(* The theorems.                                                           *)

LEMMA InitInv == Init => Inv
<1> SUFFICES ASSUME Init PROVE Inv
  OBVIOUS
<1>1. TypeOK
  <2>1. /\ [pc |-> "idle", at |-> 0, current |-> {}] \in Frame
        /\ registered \in 0 .. Len(Definitions) /\ clears \in 0 .. MaxClears
    BY Names, ProjectionsAssumption DEF Init, Frame
  <2>2. QED
    BY <2>1 DEF Init, TypeOK
<1>2. /\ \A e \in Event : apply[e].pc = "idle" /\ apply[e].at = 0
      /\ \A p \in Projection : state[p] = {} /\ saved[p] = {} /\ applied[p] = 0
  BY DEF Init
<1>3. AtOK /\ RivalsOK /\ CountedOnce
  BY <1>2, Names DEF AtOK, RivalsOK, CountedOnce, Holding
<1>4. CheckpointsOK
  BY <1>2, FS_EmptySet DEF CheckpointsOK
<1>5. StoresOK /\ HandsOK /\ PassedOK
  BY <1>2 DEF StoresOK, HandsOK, PassedOK, Landed, Holding, Active, Awaits
<1>6. FedInOrder
  BY <1>2, Names DEF FedInOrder, Name
<1>7. ~clearing
  BY DEF Init
<1>8. QED
  BY <1>1, <1>3, <1>4, <1>5, <1>6, <1>7 DEF Inv

LEMMA NextInv == Inv /\ [Next]_vars => Inv'
<1> SUFFICES ASSUME Inv, [Next]_vars PROVE Inv'
  OBVIOUS
<1>1. ASSUME NEW e \in Event, Apply(e) \/ Step(e) PROVE Inv'
  BY <1>1, ApplyKeeps, LoadKeeps, ProjectKeeps, SaveLandsKeeps,
     SaveResolvesKeeps, AuditKeeps, FailsKeeps DEF Step
<1>2. ASSUME UNCHANGED vars PROVE Inv'
  <2>1. UNCHANGED <<registered, state, applied, apply, overlapped, saved, clears,
                    clearing, torn>>
    BY <1>2 DEF vars, readModel, clearVars
  <2>2. \A p : Landed(p)' = Landed(p) /\ Sent(p)' = Sent(p)
    BY <2>1 DEF Landed, Sent, At
  <2>3. /\ TypeOK' /\ AtOK' /\ CountedOnce' /\ CheckpointsOK' /\ RivalsOK'
    BY <2>1 DEF Inv, TypeOK, AtOK, CountedOnce, CheckpointsOK, RivalsOK,
                Holding, At
  <2>4. Undisturbed' => (StoresOK /\ HandsOK /\ PassedOK /\ FedInOrder)'
    BY <2>1, <2>2 DEF Inv, Undisturbed, StoresOK, HandsOK, PassedOK, Passed,
                      FedInOrder, Active, Holding, At
  <2>5. ~torn' /\ clearing' => /\ (\A e \in Event : ~Active(e))'
                               /\ \A p \in Projection : state'[p] = {}
    BY <2>1 DEF Inv, Active
  <2>6. QED
    BY <2>3, <2>4, <2>5 DEF Inv
<1>3. QED
  BY <1>1, <1>2, RegisterKeeps, ClearStoreKeeps, ResetCheckpointsKeeps DEF Next

\* The invariant of the registry, whatever overlaps, fails or is cleared.
THEOREM RegistryInductive == Spec => []Inv
BY InitInv, NextInv, PTL DEF Spec

\* For every number of events, projections and concurrent applications: what is
\* counted is folded unless applications overlapped, the checkpoint counts it
\* exactly, and projections are fed in order of registration.
THEOREM FoldIsExactAlways == Spec => []FoldIsExact
<1>1. ASSUME Inv PROVE FoldIsExact
  <2>1. /\ TypeOK /\ CheckpointsOK
        /\ Undisturbed => StoresOK /\ FedInOrder
    BY <1>1 DEF Inv
  <2>2. LossNeedsOverlap
    BY <2>1 DEF LossNeedsOverlap, StoresOK, Landed
  <2>3. CountIsExact
    BY <2>1 DEF CountIsExact, StoresOK, Sent, CheckpointsOK
  <2>4. FedInOrder
    BY <2>1 DEF FedInOrder
  <2>5. QED
    BY <2>1, <2>2, <2>3, <2>4 DEF FoldIsExact
<1>2. QED
  BY <1>1, RegistryInductive, PTL
===============================================================================
