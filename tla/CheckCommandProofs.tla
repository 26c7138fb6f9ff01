-------------------------- MODULE CheckCommandProofs --------------------------
(***************************************************************************)
(* Theorems about the baseline and the merge check, for any identities of  *)
(* violations, any edges and any amount of debt: however freezes and edits *)
(* interleave, CI passes exactly the debt that a freeze accepted.          *)
(***************************************************************************)
EXTENDS CheckCommand, TLAPS

-----------------------------------------------------------------------------
\* Numbers of violations, by identity.
Debts == [Key -> 0 .. MaxDebt]

\* Every variable keeps its type; a freeze under way holds what it found.
TypeOK ==
  /\ debt \in Debts /\ decided \in Debts
  /\ freeze # NoJob => freeze.found \in Debts
  /\ hidden \subseteq Key
  /\ gates \in BOOLEAN /\ ungoverned \in BOOLEAN /\ inCI \in BOOLEAN

\* Where the life of the baseline stands: none yet, taken away by a freeze
\* without debt, or written by one; only a written one is passed in CI, and the
\* flag stays behind when the file goes.
NeverFrozen == notice = "none" /\ ~inCI /\ baseline = NoBaseline /\ decided = NoDebt
FrozenFree == notice = "debt free" /\ baseline = NoBaseline /\ decided = NoDebt
FrozenDebt == notice = "written" /\ inCI /\ baseline = OccurrenceKeys(decided)

IInv == TypeOK /\ (NeverFrozen \/ FrozenFree \/ FrozenDebt)

-----------------------------------------------------------------------------
LEMMA NoDebtType == NoDebt \in Debts
  BY CheckAssumption DEF NoDebt, Debts

LEMMA ObservedType ==
  ASSUME debt \in Debts
  PROVE  Observed \in Debts
  BY CheckAssumption DEF Observed, Debts

\* The occurrence keys of debts are a possible baseline.
LEMMA KeysType ==
  ASSUME NEW found \in Debts
  PROVE  /\ OccurrenceKeys(found) \in SUBSET (Key \X (1 .. MaxDebt))
         /\ OccurrenceKeys(found) # NoBaseline
<1>1. OccurrenceKeys(found) \in SUBSET (Key \X (1 .. MaxDebt))
  BY DEF OccurrenceKeys
<1>2. QED
  BY <1>1, CheckAssumption

\* One set of violations has no key that another lacks exactly if it has of
\* every identity no more: the key of its last violation shows it.
LEMMA KeysCount ==
  ASSUME NEW found \in Debts, NEW accepted \in Debts
  PROVE  OccurrenceKeys(found) \ OccurrenceKeys(accepted) = {}
           <=> \A k \in Key : found[k] <= accepted[k]
<1>1. ASSUME OccurrenceKeys(found) \ OccurrenceKeys(accepted) = {}, NEW k \in Key
      PROVE  found[k] <= accepted[k]
  <2>1. found[k] \in 0 .. MaxDebt /\ accepted[k] \in 0 .. MaxDebt
    BY DEF Debts
  <2>2. CASE found[k] = 0
    BY <2>1, <2>2, CheckAssumption
  <2>3. CASE found[k] # 0
    <3>1. found[k] \in 1 .. MaxDebt
      BY <2>1, <2>3, CheckAssumption
    <3>2. <<k, found[k]>> \in OccurrenceKeys(found)
      BY <3>1 DEF OccurrenceKeys
    <3>3. <<k, found[k]>> \in OccurrenceKeys(accepted)
      BY <1>1, <3>2
    <3>4. QED
      BY <3>3 DEF OccurrenceKeys
  <2>4. QED
    BY <2>2, <2>3
<1>2. ASSUME \A k \in Key : found[k] <= accepted[k],
             NEW o \in OccurrenceKeys(found)
      PROVE  o \in OccurrenceKeys(accepted)
  <2>1. o \in Key \X (1 .. MaxDebt) /\ o[2] <= found[o[1]]
    BY DEF OccurrenceKeys
  <2>2. /\ o[1] \in Key /\ o[2] \in Int
        /\ found[o[1]] \in Int /\ accepted[o[1]] \in Int
        /\ found[o[1]] <= accepted[o[1]]
    BY <1>2, <2>1, CheckAssumption DEF Debts
  <2>3. o[2] <= accepted[o[1]]
    BY <2>1, <2>2
  <2>4. QED
    BY <2>1, <2>3 DEF OccurrenceKeys
<1>3. QED
  BY <1>1, <1>2

\* Debts of no identity have no key.
LEMMA KeysOfNoDebt ==
  ASSUME NEW found \in Debts
  PROVE  OccurrenceKeys(found) = {} <=> \A k \in Key : found[k] <= NoDebt[k]
<1>1. OccurrenceKeys(NoDebt) = {}
  BY CheckAssumption DEF OccurrenceKeys, NoDebt
<1>2. OccurrenceKeys(found) \ OccurrenceKeys(NoDebt) = {}
        <=> \A k \in Key : found[k] <= NoDebt[k]
  BY KeysCount, NoDebtType
<1>3. QED
  BY <1>1, <1>2

-----------------------------------------------------------------------------
LEMMA InitIInv == CheckInit => IInv
  BY NoDebtType DEF CheckInit, IInv, TypeOK, NeverFrozen, Debts

\* The life of the baseline depends on these variables only.
LEMMA SamePlace ==
  ASSUME IInv, UNCHANGED <<baseline, inCI, notice, decided>>
  PROVE  (NeverFrozen \/ FrozenFree \/ FrozenDebt)'
  BY DEF IInv, NeverFrozen, FrozenFree, FrozenDebt, OccurrenceKeys, NoDebt

LEMMA DevelopKeeps ==
  ASSUME IInv, Develop
  PROVE  IInv'
<1>1. UNCHANGED <<baseline, inCI, freeze, notice, decided>>
  BY DEF Develop
<1>2. debt' \in Debts
  <2>1. CASE \E k \in Key : debt' = [debt EXCEPT ![k] = @ + 1]
                  \/ (debt[k] > 0 /\ debt' = [debt EXCEPT ![k] = @ - 1])
    <3>1. PICK k \in Key : \/ debt' = [debt EXCEPT ![k] = @ + 1]
                           \/ debt[k] > 0 /\ debt' = [debt EXCEPT ![k] = @ - 1]
      BY <2>1
    <3>2. debt \in Debts /\ debt[k] \in 0 .. MaxDebt
      BY DEF IInv, TypeOK, Debts
    <3>3. \A j \in Key : debt'[j] <= MaxDebt \/ debt'[j] = debt[j]
      BY <3>1, <3>2 DEF Develop, Debts
    <3>4. debt'[k] \in Nat
      BY <3>1, <3>2, CheckAssumption DEF Debts
    <3>5. \A j \in Key : debt'[j] \in 0 .. MaxDebt
      BY <3>1, <3>2, <3>3, <3>4, CheckAssumption DEF Debts
    <3>6. QED
      BY <3>1, <3>2, <3>5 DEF Debts
  <2>2. CASE UNCHANGED debt
    BY <2>2 DEF IInv, TypeOK
  <2>3. QED
    BY <2>1, <2>2 DEF Develop
<1>3. hidden' \subseteq Key /\ gates' \in BOOLEAN /\ ungoverned' \in BOOLEAN
  BY DEF Develop, IInv, TypeOK
<1>4. TypeOK'
  BY <1>1, <1>2, <1>3 DEF IInv, TypeOK, Debts
<1>5. QED
  BY <1>1, <1>4, SamePlace DEF IInv

LEMMA ScanKeeps ==
  ASSUME IInv, NEW force \in BOOLEAN, Scan(force)
  PROVE  IInv'
<1>1. freeze'.found \in Debts
  BY ObservedType DEF Scan, IInv, TypeOK
<1>2. TypeOK'
  BY <1>1 DEF Scan, IInv, TypeOK, Debts
<1>3. QED
  BY <1>2, SamePlace DEF Scan, IInv

LEMMA RefuseKeeps ==
  ASSUME IInv, Refuse
  PROVE  IInv'
<1>1. TypeOK'
  BY DEF Refuse, IInv, TypeOK, Debts
<1>2. QED
  BY <1>1, SamePlace DEF Refuse, IInv

LEMMA DropBaselineKeeps ==
  ASSUME IInv, DropBaseline
  PROVE  IInv'
<1>1. TypeOK'
  BY NoDebtType DEF DropBaseline, IInv, TypeOK, Debts
<1>2. FrozenFree'
  BY DEF DropBaseline, FrozenFree, NoDebt
<1>3. QED
  BY <1>1, <1>2 DEF IInv

LEMMA WriteBaselineKeeps ==
  ASSUME IInv, WriteBaseline
  PROVE  IInv'
<1>1. TypeOK'
  BY DEF WriteBaseline, Sync, IInv, TypeOK, Debts
<1>2. FrozenDebt'
  BY DEF WriteBaseline, Sync, FrozenDebt, OccurrenceKeys
<1>3. QED
  BY <1>1, <1>2 DEF IInv

LEMMA NextIInv == IInv /\ [CheckNext]_checkVars => IInv'
<1> SUFFICES ASSUME IInv, [CheckNext]_checkVars
             PROVE  IInv'
  OBVIOUS
<1>1. CASE Develop
  BY <1>1, DevelopKeeps
<1>2. CASE \E force \in BOOLEAN : Scan(force)
  BY <1>2, ScanKeeps
<1>3. CASE Refuse
  BY <1>3, RefuseKeeps
<1>4. CASE DropBaseline
  BY <1>4, DropBaselineKeeps
<1>5. CASE WriteBaseline
  BY <1>5, WriteBaselineKeeps
<1>6. CASE UNCHANGED checkVars
  <2>1. TypeOK'
    BY <1>6 DEF checkVars, IInv, TypeOK, Debts
  <2>2. QED
    BY <1>6, <2>1, SamePlace DEF checkVars, IInv
<1>7. QED
  BY <1>1, <1>2, <1>3, <1>4, <1>5, <1>6 DEF CheckNext

\* ark-check-runtime.mjs:1165-1220: whatever is edited between a scan and its
\* write, the baseline holds the keys of what the last freeze found, and CI
\* passes it once one was written.
THEOREM RatchetInductive == CheckSpec => []IInv
<1>1. CheckInit => IInv
  BY InitIInv
<1>2. IInv /\ [CheckNext]_checkVars => IInv'
  BY NextIInv
<1>3. QED
  BY <1>1, <1>2, PTL DEF CheckSpec

-----------------------------------------------------------------------------
(* The exit code of the merge check.                                       *)

\* A tree that is read in full shows the violations it has.
LEMMA CompleteShowsAll ==
  ASSUME debt \in Debts, Complete
  PROVE  Observed = debt
  BY DEF Complete, Observed, Debts

\* The merge check passes if it runs, and sees and suppresses enough.
LEMMA PassingExit ==
  ASSUME gates \in BOOLEAN, NEW host \in BOOLEAN
  PROVE  Exit(MergeCheck, host) = 0
           <=> gates /\ host /\ Complete /\ Active(MergeCheck) = {} /\ ~Warned(MergeCheck)
<1>1. MergeCheck.gates /\ MergeCheck.merge /\ MergeCheck.strict
  BY DEF MergeCheck
<1>2. /\ GatesMissing(MergeCheck) <=> ~gates
      /\ Unavailable(MergeCheck, host) <=> gates /\ ~host
  BY <1>1 DEF GatesMissing, Unavailable
<1>3. ObservedOk(MergeCheck) /\ (MergeCheck.merge => Complete)
        <=> Complete /\ Active(MergeCheck) = {} /\ ~Warned(MergeCheck)
  BY <1>1 DEF ObservedOk
<1>4. Exit(MergeCheck, host) = CASE ~gates -> 1
                                 [] gates /\ ~host -> 2
                                 [] OTHER -> IF Complete /\ Active(MergeCheck) = {} /\ ~Warned(MergeCheck)
                                               THEN 0 ELSE 1
  BY <1>2, <1>3 DEF Exit
<1>5. QED
  BY <1>4

\* What is left to report in a tree read in full: nothing, exactly if the last
\* freeze accepted as much, wherever the life of the baseline stands.
LEMMA ActiveIsExcess ==
  ASSUME IInv, Complete
  PROVE  Active(MergeCheck) = {} <=> \A k \in Key : debt[k] <= decided[k]
<1>1. debt \in Debts /\ decided \in Debts /\ Observed = debt
  BY CompleteShowsAll DEF IInv, TypeOK
<1>2. CASE baseline = NoBaseline /\ decided = NoDebt
  <2>1. Active(MergeCheck) = OccurrenceKeys(debt)
    BY <1>1, <1>2 DEF Active, Suppressed
  <2>2. QED
    BY <1>1, <1>2, <2>1, KeysOfNoDebt
<1>3. CASE FrozenDebt
  <2>1. baseline # NoBaseline
    BY <1>1, <1>3, KeysType DEF FrozenDebt
  <2>2. Active(MergeCheck) = OccurrenceKeys(debt) \ OccurrenceKeys(decided)
    BY <1>1, <1>3, <2>1 DEF Active, Suppressed, MergeCheck, FrozenDebt
  <2>3. QED
    BY <1>1, <2>2, KeysCount
<1>4. QED
  BY <1>2, <1>3 DEF IInv, NeverFrozen, FrozenFree

\* Unless a freeze without debt took the baseline away, only a file of no layer
\* warns.
LEMMA WarnedIsUngoverned ==
  ASSUME IInv
  PROVE  /\ ungoverned => Warned(MergeCheck)
         /\ notice # "debt free" /\ Warned(MergeCheck) => ungoverned
<1>1. ungoverned => Warned(MergeCheck)
  BY DEF Warned
<1>2. CASE NeverFrozen
  BY <1>1, <1>2 DEF NeverFrozen, Warned, MergeCheck
<1>3. CASE FrozenFree
  BY <1>1, <1>3 DEF FrozenFree
<1>4. CASE FrozenDebt
  <2>1. baseline # NoBaseline
    BY <1>4, KeysType DEF FrozenDebt, IInv, TypeOK
  <2>2. QED
    BY <1>1, <2>1 DEF Warned
<1>5. QED
  BY <1>2, <1>3, <1>4 DEF IInv

\* ark-check-runtime.mjs:1222-1247, 1566-1584: the exit code is exact.
LEMMA ExitIsExact ==
  ASSUME IInv
  PROVE  RatchetIsExact
<1> SUFFICES ASSUME NEW host \in BOOLEAN
             PROVE  /\ Exit(MergeCheck, host) = 0 => host /\ InOrder
                    /\ host /\ InOrder /\ notice # "debt free" => Exit(MergeCheck, host) = 0
  BY DEF RatchetIsExact
<1>1. Exit(MergeCheck, host) = 0
        <=> gates /\ host /\ Complete /\ Active(MergeCheck) = {} /\ ~Warned(MergeCheck)
  BY PassingExit DEF IInv, TypeOK
<1>2. ASSUME Exit(MergeCheck, host) = 0
      PROVE  host /\ InOrder
  BY <1>1, <1>2, ActiveIsExcess, WarnedIsUngoverned DEF InOrder
<1>3. ASSUME host, InOrder, notice # "debt free"
      PROVE  Exit(MergeCheck, host) = 0
  BY <1>1, <1>3, ActiveIsExcess, WarnedIsUngoverned DEF InOrder
<1>4. QED
  BY <1>2, <1>3

\* However edits and freezes interleave, the merge check passes exactly the
\* trees in order that have, of every identity, no more violations than the last
\* freeze accepted; after a freeze without debt, no others.
THEOREM RatchetIsExactAlways == CheckSpec => []RatchetIsExact
<1>1. IInv => RatchetIsExact
  BY ExitIsExact
<1>2. QED
  BY <1>1, RatchetInductive, PTL
===============================================================================
