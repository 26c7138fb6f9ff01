----------------------------- MODULE CheckCommand -----------------------------
(***************************************************************************)
(* The ark-check command over the life of a repository: the architecture   *)
(* check with its exit code, the baseline that freezes known violations,   *)
(* and the flag that lets the check in CI read it (bin/ark-check-runtime,  *)
(* violations, baselineKey, field-install).  Freezing scans first and      *)
(* writes later; the tree may change in between.                           *)
(***************************************************************************)
EXTENDS Naturals, FiniteSets, FiniteSetsExt, Functions

CONSTANTS
  Key,               \* identities of violations: rule, file, layers, target
  EdgeOf,            \* the layer edge a violation belongs to
  MaxDebt,           \* violations with one identity
  ConcentratedFrom,  \* size from which a lopsided freeze is refused
  NoBaseline, NoJob
ASSUME CheckAssumption ==
  MaxDebt \in Nat /\ \A accepted \in SUBSET (Key \X (1 .. MaxDebt)) : NoBaseline # accepted

VARIABLES
  debt,      \* violations the tree has, by identity
  hidden,    \* identities whose files cannot be parsed
  gates,     \* whether the gate files are installed
  ungoverned,\* whether a file belongs to no layer
  baseline,  \* the occurrence keys of the baseline file
  inCI,      \* whether the check commands carry --baseline
  freeze,    \* a freeze that has scanned and not yet written
  notice,    \* how the last freeze ended
  decided    \* ghost: the violations, by identity, that freeze accepted

checkVars == <<debt, hidden, gates, ungoverned, baseline, inCI, freeze, notice, decided>>

-----------------------------------------------------------------------------
NoDebt == [k \in Key |-> 0]
Observed == [k \in Key |-> IF k \in hidden THEN 0 ELSE debt[k]]
Complete == hidden = {}

\* Mutant: occurrences share the key of their identity.
IdentityKeys(found) == {o \in Key \X {1} : found[o[1]] > 0}
\* The n-th violation with an identity has a key of its own.
OccurrenceKeys(found) == {o \in Key \X (1 .. MaxDebt) : o[2] <= found[o[1]]}

Total(found) == MapThenSumSet(LAMBDA k : found[k], Key)
Largest(found) ==
  Max({MapThenSumSet(LAMBDA k : found[k], {k \in Key : EdgeOf[k] = edge}) : edge \in Range(EdgeOf)})
Concentrated(found) == Total(found) >= ConcentratedFrom /\ 10 * Largest(found) >= 9 * Total(found)

-----------------------------------------------------------------------------
\* What one invocation sees, given its flags and whether TypeScript loads.
Suppressed(flags) == IF flags.baseline /\ baseline # NoBaseline THEN baseline ELSE {}
Active(flags) == OccurrenceKeys(Observed) \ Suppressed(flags)
Warned(flags) == ungoverned \/ (flags.baseline /\ baseline = NoBaseline)
ObservedOk(flags) == Active(flags) = {} /\ ~(flags.strict /\ Warned(flags))

GatesMissing(flags) == flags.gates /\ ~gates
Unavailable(flags, host) == ~GatesMissing(flags) /\ ~host

Exit(flags, host) ==
  CASE GatesMissing(flags) -> 1
    [] Unavailable(flags, host) -> 2
    [] OTHER -> IF ObservedOk(flags) /\ (flags.merge => Complete) THEN 0 ELSE 1

\* --strict-merge sets three switches; CI runs it with the flags it was given.
MergeCheck == [strict |-> TRUE, gates |-> TRUE, merge |-> TRUE, baseline |-> inCI]

-----------------------------------------------------------------------------
CheckInit ==
  /\ debt \in [Key -> 0 .. MaxDebt] /\ hidden = {} /\ gates = TRUE /\ ungoverned = FALSE
  /\ baseline = NoBaseline /\ inCI = FALSE /\ freeze = NoJob
  /\ notice = "none" /\ decided = NoDebt

\* Somebody changes the code or the gate files.
Develop ==
  /\ \/ /\ \E k \in Key : debt' = [debt EXCEPT ![k] = @ + 1] \/ (debt[k] > 0 /\ debt' = [debt EXCEPT ![k] = @ - 1])
        /\ \A k \in Key : debt'[k] <= MaxDebt
        /\ UNCHANGED <<hidden, gates, ungoverned>>
     \/ \E k \in Key : hidden' = (hidden \ {k}) \cup ({k} \ hidden) /\ UNCHANGED <<debt, gates, ungoverned>>
     \/ gates' = ~gates /\ UNCHANGED <<debt, hidden, ungoverned>>
     \/ ungoverned' = ~ungoverned /\ UNCHANGED <<debt, hidden, gates>>
  /\ UNCHANGED <<baseline, inCI, freeze, notice, decided>>

\* ark-check --update-baseline has scanned the tree.
Scan(force) ==
  /\ freeze = NoJob
  /\ freeze' = [found |-> Observed, force |-> force]
  /\ UNCHANGED <<debt, hidden, gates, ungoverned, baseline, inCI, notice, decided>>

Refuse ==
  /\ freeze # NoJob /\ Concentrated(freeze.found) /\ ~freeze.force
  /\ freeze' = NoJob
  /\ UNCHANGED <<debt, hidden, gates, ungoverned, baseline, inCI, notice, decided>>

\* Nothing to freeze: the baseline file goes, the flag in CI stays.
DropBaseline ==
  /\ freeze # NoJob /\ ~(Concentrated(freeze.found) /\ ~freeze.force)
  /\ freeze.found = NoDebt
  /\ baseline' = NoBaseline /\ freeze' = NoJob /\ notice' = "debt free" /\ decided' = NoDebt
  /\ UNCHANGED <<debt, hidden, gates, ungoverned, inCI>>

\* Scripts and workflows that run ark-check get the flag where they lack it.
Sync == inCI' = TRUE

WriteBaseline ==
  /\ freeze # NoJob /\ ~(Concentrated(freeze.found) /\ ~freeze.force)
  /\ freeze.found # NoDebt
  /\ baseline' = OccurrenceKeys(freeze.found) /\ Sync
  /\ freeze' = NoJob /\ notice' = "written" /\ decided' = freeze.found
  /\ UNCHANGED <<debt, hidden, gates, ungoverned>>

CheckNext ==
  \/ Develop
  \/ \E force \in BOOLEAN : Scan(force)
  \/ Refuse \/ DropBaseline \/ WriteBaseline

CheckSpec == CheckInit /\ [][CheckNext]_checkVars

-----------------------------------------------------------------------------
InOrder == gates /\ Complete /\ ~ungoverned /\ \A k \in Key : debt[k] <= decided[k]

\* The merge check passes exactly the trees in order that have, of every
\* identity, no more violations than the last freeze accepted: paying debt
\* keeps it green, one violation more does not (ark-check-runtime.mjs:1222).
\* After a freeze without debt only one direction is claimed.
RatchetIsExact ==
  \A host \in BOOLEAN :
    /\ Exit(MergeCheck, host) = 0 => host /\ InOrder
    /\ host /\ InOrder /\ notice # "debt free" => Exit(MergeCheck, host) = 0

\* ark-check-runtime.mjs:1180: "zero debt; no ratchet file needed": a tree in
\* order passes after that too.
DebtFreeIsGreen == notice = "debt free" /\ InOrder => Exit(MergeCheck, TRUE) = 0
===============================================================================
