------------------------------ MODULE MCEventBus ------------------------------
(***************************************************************************)
(* An instance of the event bus for TLC, used in three ways that a         *)
(* scenario tells apart, and beside it, in a scenario that shares no state *)
(* with the bus, the evidence of the causal evaluation.                    *)
(***************************************************************************)
EXTENDS EventBus

CONSTANTS c1, c2, c3, c4, c5, c6, c7, h1, h2, h3, i1, i2, order, stock, basket, unknown,
          k0, k1, k2, none

\* Three uses of one bus, told apart by the scenario: publishes of order are
\* delivered, those of stock intercepted, those of basket judged.
Delivered == {c1, c2}
Intercepted == {c3, c4}
Judged == {c5, c6, c7}

MCIntentOf ==
  [x \in Call \cup Handler \cup Interceptor |->
     CASE x \in Delivered \cup {h1, h2} -> order
       [] x \in Intercepted \cup {i1, i2} -> stock
       [] OTHER -> basket]
MCSourceOf ==
  [c \in Call |-> CASE c \in {c1, c3, c7} -> basket [] c \in {c2, c6} -> stock [] OTHER -> order]
MCPayloadOf == [c \in Call |-> {k0}]

\* The contract's first version accepts k1 as well, the second demands it.
MCVersions == [i \in Intent |->
  IF i = stock THEN << {{k0}, {k0, k1}}, {{k0, k1}, {k0, k1, k2}} >> ELSE <<>>]

\* Nothing; one new key; two patches; a patch that overwrites after one that
\* does not.
MCPatches == {<<>>, <<{k1}>>, <<{k1}, {k2}>>, <<{k1}, {k0}>>}

\* The layer rules deny what order publishes, a publish policy what stock does.
MCOrderToBasket == {<<order, basket>>}
MCStockToBasket == {<<stock, basket>>}

VARIABLES scenario, registered, chain, logged, amended, edited, rehashed, analysis
evidence == <<registered, chain, logged, amended, edited, rehashed, analysis>>

Steps(calls) == \E c \in calls : BusStep(c) \/ UserStep(c)
NothingFails(calls) == \A c \in calls : frame'[c].pc # "enqueueFails"
Deliver ==
  \/ Steps(Delivered) \/ ClearHistory
  \/ \E h \in {h1, h2} : Subscribe(h) \/ Unsubscribe(h)
Intercept ==
  \/ Steps(Intercepted) /\ NothingFails(Intercepted)
  \/ \E i \in Interceptor : RegisterInterceptor(i) \/ UnregisterInterceptor(i)
  \/ RegisterContract(stock) \/ ClearHistory
Judge ==
  \/ Steps(Judged) /\ NothingFails(Judged) /\ \A c \in Judged : delivery'[c][h3] # "failing"
  \/ Subscribe(h3) \/ Unsubscribe(h3) \/ ClearHistory

-----------------------------------------------------------------------------
\* One task of each of two repositories, which the order seed interleaves.
Subjects == {"t1", "t2"}
Repository == [t \in Subjects |-> IF t = "t1" THEN "r1" ELSE "r2"]
Manager == [r \in {"r1", "r2"} |-> IF r = "r1" THEN "npm" ELSE "pnpm"]
SeedRank ==
  [c \in Subjects \X {1} \X {"control", "treatment"} |->
     (IF c[1] = "t1" THEN 2 ELSE 1) + (IF (c[1] = "t1") = (c[3] = "control") THEN 0 ELSE 2)]
Ranges ==
  [id \in {"upgrade", "install"} |->
     [file |-> "f", first |-> IF id = "upgrade" THEN 1 ELSE 6, last |-> IF id = "upgrade" THEN 5 ELSE 9]]
Evidence == INSTANCE CausalEvidence WITH
  manifest <- registered, entries <- chain, appended <- logged, amendments <- amended, tampered <- edited,
  resealed <- rehashed, report <- analysis, Subject <- Subjects, RepositoryOf <- Repository, ManagerOf <- Manager,
  Replicates <- 1, Rank <- SeedRank, MutationRanges <- Ranges, Tau <- 10, EarlyTimes <- {8}, Percentiles <- {50, 95},
  MaxAmendments <- 2, None <- none
EvidenceIdle ==
  /\ registered = none /\ chain = none /\ logged = none /\ amended = none
  /\ edited = none /\ rehashed = none /\ analysis = none

-----------------------------------------------------------------------------
MCInit ==
  \/ scenario \in {"delivery", "interception", "flow"} /\ Init /\ EvidenceIdle
  \/ scenario = "evidence" /\ Init /\ Evidence!Init
MCNext ==
  /\ UNCHANGED scenario
  /\ \/ scenario = "delivery" /\ Deliver /\ UNCHANGED evidence
     \/ scenario = "interception" /\ Intercept /\ UNCHANGED evidence
     \/ scenario = "flow" /\ Judge /\ UNCHANGED evidence
     \/ scenario = "evidence" /\ Evidence!Next /\ UNCHANGED vars
mcVars == <<vars, evidence, scenario>>
MCSpec ==
  /\ MCInit /\ [][MCNext]_mcVars
  /\ \A c \in Delivered : WF_mcVars(scenario = "delivery" /\ BusStep(c) /\ UNCHANGED <<evidence, scenario>>)

\* What ran verifies, what verifies is what ran, and the report says what the
\* ledger says.
EvidenceIsSound == scenario = "evidence" => Evidence!EvidenceIsSound

\* A rethrown handler error rejects publish even if other handlers never settle.
ErrorsSurface ==
  \A c \in Delivered :
    (scenario = "delivery" /\ \E h \in Handler : delivery[c][h] = "thrown")
      ~> frame[c].pc = "rejected"
===============================================================================
