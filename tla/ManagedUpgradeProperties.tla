----------------------- MODULE ManagedUpgradeProperties -----------------------
(***************************************************************************)
(* What `ark upgrade` promises, as properties of module ManagedUpgrade.    *)
(***************************************************************************)
EXTENDS ManagedUpgrade

\* The step replaces file g on behalf of process p, to commit it.
Commits(p, g) ==
  frame[p].pc = "rename" /\ g \in frame'[p].committed \ frame[p].committed

\* The step undoes the commit of file g by process p.
Undoes(p, g) ==
  frame[p].pc = "restore" /\ ~frame'[p].broken
    /\ g \in frame[p].committed \ frame'[p].committed

\* What stood in a file when p commits it is what its preview showed.
AsPreviewed(p, g) == disk[g] = frame[p].digest.read[g]

\* What stood there is, to the letter or up to a version stamp, something the
\* package shipped.
Shipped(p, a) ==
  LET recorded == Recorded(frame[p], a)
  IN  IF disk[a] = Absent
        THEN recorded = NoEntry
        ELSE \/ Identity[disk[a]] = Identity[Target(frame[p], a)]
             \/ Identity[disk[a]] \in Legacy
             \/ recorded # NoEntry /\ Identity[disk[a]] = Identity[recorded]

\* An apply replaces a file only in the state the preview showed to the user,
\* and without consent only what the package shipped, never what a user wrote
\* or deleted; a rollback takes back what the process itself wrote and nothing
\* else.  Every other change is noticed, unless it falls between the last
\* comparison of that file and its rename, or the restoring one.
EditsAreKept ==
  [][\A p \in Process, g \in File : g \notin unseen[p] =>
       /\ Commits(p, g) => AsPreviewed(p, g)
       /\ Commits(p, g) /\ g \in Asset /\ p \notin Accept /\ writer[g] = User => Shipped(p, g)
       /\ Undoes(p, g) => disk[g] = Planned(p, frame[p], g)]_vars

\* All or nothing: an apply that failed has left none of its writes behind,
\* unless restoring a file failed in its turn.
FailedLeavesNothing ==
  \A p \in Process : frame[p].pc = "failed" /\ ~frame[p].broken =>
    \A g \in File : writer[g] # p

\* The manifest is the commit point: as long as it is the one p wrote, p has
\* replaced every file the manifest vouches for on its behalf, and p never
\* takes any of them back, crashed or not.
ManifestIsCommitPoint ==
  \A p \in Process : writer[Manifest] = p =>
    /\ Writes(p, frame[p]) \subseteq frame[p].committed
    /\ frame[p].pc \in {"cleanup", "applied", "crashed"}

\* The frame of an upgrade that would read the project as it is now.
Now(p) == [frame[p] EXCEPT !.version = package, !.read =
             [g \in File |-> IF g = Manifest \/ g \in DOMAIN Template[package]
                               THEN disk[g] ELSE Absent]]

\* Apply is idempotent: once it succeeded, and while nobody else touches its
\* files or the package, another upgrade finds nothing to write.
ApplyIsIdempotent ==
  \A p \in Process :
    frame[p].pc = "applied" /\ unseen[p] = {} /\ package = frame[p].version =>
      /\ Writes(p, Now(p)) = {}
      /\ ~ManifestChanged(p, Now(p))

\* The project starts out as its manifest recorded it.
UneditedProject ==
  \A a \in Asset : EntryOf(Disk[Manifest], a) # NoEntry =>
    Disk[a] # Absent /\ Identity[Disk[a]] = Identity[EntryOf(Disk[Manifest], a)]

\* Nobody is asked for consent to a file nobody edited, nor does such a file
\* pass for customized: a crash at any point or a failed apply leaves the
\* project in a state from which the next upgrade of the same package just
\* continues.  Not so when upgrades overlap: one may take back a file that the
\* other has recorded meanwhile.
UneditedNeedsNoConsent ==
  (/\ UneditedProject /\ edits = 0 /\ ~overlap
   /\ \A p \in Process : frame[p].version = package) =>
    \A p \in Process : \A a \in Catalog(Now(p)) :
      ~NeedsConsent(Now(p), a) /\ State(Now(p), a) # "customized"

\* A settled apply leaves no temporary file behind, except one whose restoring
\* rename failed.
TemporariesAreRemoved ==
  \A p \in Process : frame[p].pc \in {"blocked", "refused", "applied", "failed"} =>
    temps[p] = {} \/ frame[p].broken

\* An apply that succeeded has put every planned file in place, and the manifest.
AppliedIsWhole ==
  \A p \in Process : frame[p].pc = "applied" =>
    Operations(p, frame[p]) \subseteq frame[p].committed

\* Whatever stands of a run, also of one that crashed, is the content it planned.
WritesArePlanned ==
  \A p \in Process, g \in File : writer[g] = p => disk[g] = Planned(p, frame[p], g)

\* An apply that ends without a crash is all or nothing and leaves no temporary
\* file.  One that crashes between two renames does leave its temporaries and
\* the half of its plan it had committed (managed-upgrade.mjs:562-587); of that
\* half only this is said: every file holds what was planned, and the manifest
\* does not vouch for one that was not replaced.
CommitIsAtomic ==
  /\ TypeOK
  /\ FailedLeavesNothing /\ AppliedIsWhole /\ TemporariesAreRemoved
  /\ ManifestIsCommitPoint /\ WritesArePlanned

\* The next upgrade of the same package continues and finds nothing to ask.
NextUpgradeContinues == ApplyIsIdempotent /\ UneditedNeedsNoConsent

\* templates/skills/ark-upgrade.md: a changed file invalidates the digest
\* instead of being overwritten.
ChangedFileIsNotOverwritten ==
  [][\A p \in Process, g \in File :
       Commits(p, g) => disk[g] = frame[p].digest.read[g]]_vars
===============================================================================
