--------------------------- MODULE MCManagedUpgrade ---------------------------
(***************************************************************************)
(* Instances of the managed upgrade for TLC.                               *)
(***************************************************************************)
EXTENDS ManagedUpgradeProperties, TLC

CONSTANTS p1, p2, skill, gate, manifest, absent, none, user,
          old, new, stamped, newer, mine

\* A skill and a gate file; "stamped" is "new" with an older version stamp.
MCOrder == <<gate, skill>>
MCIdentity == [c \in Content |-> IF c = stamped THEN new ELSE c]
MCTemplate == << [a \in {skill, gate} |-> new] >>
MCNextTemplate == << [a \in {skill, gate} |-> new], [a \in {gate} |-> newer] >>

\* A project with an old skill and an old gate, as recorded.
MCOldProject == (skill :> old) @@ (gate :> old)
                  @@ (manifest :> [a \in {skill, gate} |-> old])
\* A project without manifest: a lagging stamp, no gate yet.
MCBareProject == (skill :> stamped) @@ (gate :> absent) @@ (manifest :> absent)
===============================================================================
