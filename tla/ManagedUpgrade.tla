---------------------------- MODULE ManagedUpgrade ----------------------------
(***************************************************************************)
(* `ark upgrade` (bin/lib/managed-upgrade.mjs, upgrade-command.mjs):       *)
(* a preview, then an apply bound to the preview's digest, of the files    *)
(* the package manages in a project.                                       *)
(*                                                                         *)
(* The code is synchronous, but the project is shared: between any two of  *)
(* its file operations a user may edit a managed file, another upgrade may *)
(* run, and the process may die.  Every read or rename is a step of its    *)
(* own.  A file is abstracted to one of a few contents and a hash to the   *)
(* content itself; paths are safe, regular files (assertSafeTarget), and   *)
(* every asset is a whole file.                                            *)
(***************************************************************************)
EXTENDS Integers, Sequences

CONSTANTS
  Process,    \* runs of `ark upgrade`: a preview, then its apply
  Accept,     \* those run with --accept-conflicts
  Asset,      \* paths the package manages
  Order,      \* the assets in path order, each of them once
  Manifest,   \* ark.managed.json
  Content,    \* contents of managed files
  Absent,     \* no such file
  NoEntry,    \* no entry in the manifest
  User,       \* whoever edits the files
  Template,   \* Template[v]: the contents that version v of the package ships,
              \* a function on some of the assets
  Identity,   \* Identity[c]: what managedContentIdentity keeps of c
  Skill,      \* the assets of kind skill
  Legacy,     \* identities shipped before there was a manifest
  Disk,       \* the project's files when it all starts
  Edits,      \* what users may write into managed files
  MaxEdits,   \* bound on edits
  Faults      \* what may fail: a subset of FaultKinds

FaultKinds == {"stage", "rename", "restore", "crash"}

File == Asset \cup {Manifest}
Entries == [Asset -> Content \cup {NoEntry}]
Value == Content \cup Entries \cup {Absent}

\* What the files may hold: the manifest its entries, an asset its content.
Files == {d \in [File -> Value] :
            /\ d[Manifest] \in Entries \cup {Absent}
            /\ \A a \in Asset : d[a] \in Content \cup {Absent}}

Version == DOMAIN Template

ASSUME ManagedUpgradeAssumption ==
  /\ Accept \subseteq Process
  /\ Order \in Seq(Asset)
  /\ \A a \in Asset : \E i \in DOMAIN Order : Order[i] = a
  /\ \A i, j \in DOMAIN Order : Order[i] = Order[j] => i = j
  /\ Manifest \notin Asset
  /\ Absent \notin Content \cup Entries /\ NoEntry \notin Content
  /\ {User, NoEntry} \cap Process = {}
  /\ Template \in Seq(UNION {[A -> Content] : A \in SUBSET Asset})
  /\ Template # <<>>
  /\ DOMAIN Identity = Content
  /\ Skill \subseteq Asset
  /\ Disk \in Files
  /\ Edits \subseteq Content \cup {Absent}
  /\ MaxEdits \in Nat
  /\ Faults \subseteq FaultKinds

VARIABLES
  disk,     \* disk[f]: what file f holds
  package,  \* the version of the installed package
  frame,    \* frame[p]: where process p is, and what it has read
  temps,    \* temps[p]: temporary files of p, by purpose and target
  edits,    \* how often a user edited a file
  writer,   \* writer[f]: who wrote f last: a user, a process that committed
            \* it, or NoEntry, initially and once rolled back (history)
  unseen,   \* unseen[p]: files others wrote since p last came to read
            \* or compare them (history)
  overlap   \* two processes have been under way at once (history)

vars == <<disk, package, frame, temps, edits, writer, unseen, overlap>>

-----------------------------------------------------------------------------
(* The plan, as functions of what was read and of the templates.           *)

Phases == {"preview", "plan", "verify", "stage", "check", "rename",
           "rollback", "restore", "cleanup"}
Settled == {"blocked", "refused", "applied", "failed", "crashed"}

\* left: the files the phase still has to visit; read: what was read of each;
\* digest: the preview the apply is bound to; committed: the renamed files;
\* failed: an error is being handled; broken: the rollback was cut short.
Frame == [pc : Phases \cup Settled \cup {"idle", "previewed"},
          left : SUBSET File, version : Version, read : Files,
          digest : [version : Version, read : Files],
          committed : SUBSET File, failed : BOOLEAN, broken : BOOLEAN]

Active(p) == frame[p].pc \in Phases
Catalog(f) == DOMAIN Template[f.version]
Target(f, a) == Template[f.version][a]

\* What manifest m says of asset a.
EntryOf(m, a) == IF m = Absent THEN NoEntry ELSE m[a]
Recorded(f, a) == EntryOf(f.read[Manifest], a)

\* classifyManagedAsset; "unmanaged" is its customized file without an entry.
State(f, a) ==
  LET current == f.read[a]
      recorded == Recorded(f, a)
      same(c) == Identity[c] = Identity[Target(f, a)]
  IN  IF current = Absent THEN "missing"
      ELSE IF same(current) THEN "current"
      ELSE IF recorded = NoEntry
             THEN IF a \in Skill /\ Identity[current] \in Legacy THEN "stale"
                                                                 ELSE "unmanaged"
      ELSE IF Identity[current] = Identity[recorded] THEN "stale"
      ELSE IF same(recorded) THEN "customized"
      ELSE "conflicted"

NeedsConsent(f, a) ==
  \/ State(f, a) = "missing" /\ Recorded(f, a) # NoEntry
  \/ State(f, a) = "conflicted"

Blocked(p, f) == p \notin Accept /\ \E a \in Catalog(f) : NeedsConsent(f, a)

\* canApply: a version stamp to refresh, a stale or new file, or consent.
WillApply(p, f, a) ==
  \/ State(f, a) = "current" /\ a \in Skill /\ f.read[a] # Target(f, a)
  \/ State(f, a) = "stale"
  \/ State(f, a) = "missing" /\ (Recorded(f, a) = NoEntry \/ p \in Accept)
  \/ State(f, a) = "conflicted" /\ p \in Accept

Writes(p, f) == {a \in Catalog(f) : WillApply(p, f, a)}

Adopted(p, f) ==
  {a \in Catalog(f) : State(f, a) = "current" /\ ~WillApply(p, f, a)}

\* Mutant: files that are left alone get an entry as well.
NextManifestAll(p, f) ==
  [a \in Asset |->
     IF a \notin Catalog(f) THEN Recorded(f, a)
     ELSE IF f.read[a] = Absent THEN Target(f, a) ELSE f.read[a]]

\* The entries written after the apply; those of files that are neither
\* written nor current, or no longer in the catalog, stay as they are.
NextManifest(p, f) ==
  [a \in Asset |->
     IF a \notin Catalog(f) THEN Recorded(f, a)
     ELSE IF WillApply(p, f, a) THEN Target(f, a)
     ELSE IF State(f, a) = "current" THEN f.read[a]
     ELSE Recorded(f, a)]

ManifestChanged(p, f) == f.read[Manifest] # NextManifest(p, f)

\* What p wants file g to hold.
Planned(p, f, g) == IF g = Manifest THEN NextManifest(p, f) ELSE Target(f, g)

\* The files each phase visits.
ReadList(f) == {Manifest} \cup Catalog(f)
VerifyList(p, f) == Writes(p, f) \cup Adopted(p, f) \cup {Manifest}
Operations(p, f) ==
  Writes(p, f) \cup (IF ManifestChanged(p, f) THEN {Manifest} ELSE {})

\* The manifest is replaced after another look at the adopted files.
CommitList(p, f) ==
  Operations(p, f) \cup (IF ManifestChanged(p, f) THEN Adopted(p, f) ELSE {})

\* Path order, with the manifest at the end.
Place(g) == IF g = Manifest THEN Len(Order) + 1
                            ELSE CHOOSE i \in DOMAIN Order : Order[i] = g
First(S) == CHOOSE g \in S : \A h \in S : Place(g) <= Place(h)
Last(S) == CHOOSE g \in S : \A h \in S : Place(h) <= Place(g)

\* The plan is read manifest first; everything else goes through the files to
\* write, then the adopted ones, then the manifest.
NextRead(f) == IF Manifest \in f.left THEN Manifest ELSE First(f.left)
NextFile(p, f) ==
  IF f.left \cap Writes(p, f) # {} THEN First(f.left \cap Writes(p, f))
                                   ELSE First(f.left)

-----------------------------------------------------------------------------
(* Steps of a process.                                                     *)

Move(p, f) == frame' = [frame EXCEPT ![p] = f]
Goto(f, l, list) == [f EXCEPT !.pc = l, !.left = list]
End(f, l) == Goto(f, l, {})

\* A file operation by p on g: p has seen it, and if it wrote, nobody else.
Sees(p, g) == unseen' = [unseen EXCEPT ![p] = @ \ {g}]
WritesTo(p, g) ==
  unseen' = [q \in Process |-> IF q = p THEN unseen[q] \ {g}
                                        ELSE unseen[q] \cup {g}]

\* catch: undo what was committed, then finally.
Undo(f) ==
  [End(f, IF f.committed = {} THEN "cleanup" ELSE "rollback")
     EXCEPT !.failed = TRUE]

\* File g is done; onDone is the frame after the last file of the phase.
Advance(f, g, onDone) ==
  IF f.left = {g} THEN onDone ELSE [f EXCEPT !.left = @ \ {g}]

\* `ark upgrade`, and later `ark upgrade --apply --plan-digest`.
Start(p) ==
  LET f == [frame[p] EXCEPT !.version = package,
                            !.read = [g \in File |-> Absent]]
  IN  /\ frame[p].pc \in {"idle", "previewed"}
      /\ Move(p, Goto(f, IF f.pc = "idle" THEN "preview" ELSE "plan", ReadList(f)))
      /\ overlap' = (overlap \/ \E q \in Process : Active(q))
      /\ UNCHANGED <<disk, package, temps, edits, writer, unseen>>

\* managedPlanDigest: the same templates for the same files.
Digest(f) == [version |-> f.version, read |-> f.read]
SameDigest(d, e) == Template[d.version] = Template[e.version] /\ d.read = e.read

\* The plan is made.  A preview prints its digest; an apply stops on assets
\* that need consent, then on another digest than the preview's.
Decide(p, f) ==
  CASE f.pc = "preview" -> [End(f, "previewed") EXCEPT !.digest = Digest(f)]
    [] f.pc = "plan" /\ Blocked(p, f) -> End(f, "blocked")
    [] f.pc = "plan" /\ ~Blocked(p, f) /\ ~SameDigest(f.digest, Digest(f)) ->
         End(f, "refused")
    [] OTHER -> Goto(f, "verify", VerifyList(p, f))

\* planManagedUpgrade reads the manifest, then one asset after the other.
Read(p) ==
  LET g == NextRead(frame[p])
      f == [frame[p] EXCEPT !.read[g] = disk[g]]
  IN  /\ frame[p].pc \in {"preview", "plan"}
      /\ Move(p, Advance(f, g, Decide(p, f)))
      /\ Sees(p, g)
      /\ UNCHANGED <<disk, package, temps, edits, writer, overlap>>

\* assertAssetUnchanged, before anything is staged.
Verify(p) ==
  LET f == frame[p]
      g == NextFile(p, f)
      onDone == IF Operations(p, f) = {} THEN End(f, "cleanup")
                ELSE Goto(f, "stage", Operations(p, f))
  IN  /\ f.pc = "verify"
      /\ Move(p, IF disk[g] = f.read[g] THEN Advance(f, g, onDone)
                                        ELSE End(f, "failed"))
      /\ Sees(p, g)
      /\ UNCHANGED <<disk, package, temps, edits, writer, overlap>>

\* The next operation is written to a temporary file beside its target.
Stage(p) ==
  LET f == frame[p]
      g == NextFile(p, f)
  IN  /\ f.pc = "stage"
      /\ \/ /\ disk[g] = f.read[g]
            /\ temps' = [temps EXCEPT ![p] = @ \cup {<<"stage", g>>}]
            /\ Move(p, Advance(f, g, Goto(f, "check", CommitList(p, f))))
         \/ /\ disk[g] # f.read[g] \/ "stage" \in Faults
            /\ Move(p, Undo(f))
            /\ UNCHANGED temps
      /\ Sees(p, g)
      /\ UNCHANGED <<disk, package, edits, writer, overlap>>

\* The target, or before the manifest an adopted file, is still as planned.
Check(p) ==
  LET f == frame[p]
      g == NextFile(p, f)
  IN  /\ f.pc = "check"
      /\ Move(p, IF disk[g] # f.read[g] THEN Undo(f)
                 ELSE IF g \in Adopted(p, f) THEN [f EXCEPT !.left = @ \ {g}]
                 ELSE [f EXCEPT !.pc = "rename"])
      /\ Sees(p, g)
      /\ UNCHANGED <<disk, package, temps, edits, writer, overlap>>

\* The temporary file replaces the target.
Rename(p) ==
  LET f == frame[p]
      g == NextFile(p, f)
      done == [f EXCEPT !.committed = @ \cup {g}]
  IN  /\ f.pc = "rename"
      /\ \/ /\ disk' = [disk EXCEPT ![g] = Planned(p, f, g)]
            /\ writer' = [writer EXCEPT ![g] = p]
            /\ temps' = [temps EXCEPT ![p] = @ \ {<<"stage", g>>}]
            /\ Move(p, IF f.left = {g} THEN End(done, "cleanup")
                       ELSE Goto(done, "check", f.left \ {g}))
            /\ WritesTo(p, g)
         \/ /\ "rename" \in Faults
            /\ Move(p, Undo(f))
            /\ UNCHANGED <<disk, writer, temps, unseen>>
      /\ UNCHANGED <<package, edits, overlap>>

\* The last committed file that is not yet undone.
LastCommitted(f) == Last(f.committed)

Undone(f, g) ==
  LET left == f.committed \ {g}
  IN  [f EXCEPT !.committed = left,
                !.pc = IF left = {} THEN "cleanup" ELSE "rollback"]

\* Mutant: a committed file is restored whatever it holds by now.
RollbackBlind(p) ==
  LET f == frame[p]
  IN  /\ f.pc = "rollback"
      /\ Move(p, [f EXCEPT !.pc = "restore"])
      /\ Sees(p, LastCommitted(f))
      /\ UNCHANGED <<disk, package, temps, edits, writer, overlap>>

\* A committed file is undone unless somebody changed it since.
Rollback(p) ==
  LET f == frame[p]
      g == LastCommitted(f)
  IN  /\ f.pc = "rollback"
      /\ Move(p, IF disk[g] = Planned(p, f, g) THEN [f EXCEPT !.pc = "restore"]
                                               ELSE Undone(f, g))
      /\ Sees(p, g)
      /\ UNCHANGED <<disk, package, temps, edits, writer, overlap>>

\* Mutant: only the newest committed file is undone.
RestoreOne(p) ==
  LET f == frame[p]
      g == LastCommitted(f)
  IN  /\ f.pc = "restore"
      /\ disk' = [disk EXCEPT ![g] = f.read[g]]
      /\ writer' = [writer EXCEPT ![g] = NoEntry]
      /\ Move(p, End(f, "cleanup"))
      /\ WritesTo(p, g)
      /\ UNCHANGED <<temps, package, edits, overlap>>

\* The previous content is staged and renamed, or the new file removed.  An
\* error here leaves the catch block: the other committed files stay.
Restore(p) ==
  LET f == frame[p]
      g == LastCommitted(f)
  IN  /\ f.pc = "restore"
      /\ \/ /\ disk' = [disk EXCEPT ![g] = f.read[g]]
            /\ writer' = [writer EXCEPT ![g] = NoEntry]
            /\ Move(p, Undone(f, g))
            /\ WritesTo(p, g)
            /\ UNCHANGED temps
         \/ /\ "restore" \in Faults
            /\ temps' \in {temps, [temps EXCEPT ![p] = @ \cup {<<"undo", g>>}]}
            /\ f.read[g] = Absent => temps' = temps
            /\ Move(p, [End(f, "cleanup") EXCEPT !.broken = TRUE])
            /\ UNCHANGED <<disk, writer, unseen>>
      /\ UNCHANGED <<package, edits, overlap>>

\* finally: staged files that were not renamed are removed.
Cleanup(p) ==
  LET f == frame[p]
  IN  /\ f.pc = "cleanup"
      /\ temps' = [temps EXCEPT ![p] = {t \in @ : t[1] = "undo"}]
      /\ Move(p, End(f, IF f.failed THEN "failed" ELSE "applied"))
      /\ UNCHANGED <<disk, package, edits, writer, unseen, overlap>>

Crash(p) ==
  /\ Active(p) /\ "crash" \in Faults
  /\ Move(p, [frame[p] EXCEPT !.pc = "crashed"])
  /\ UNCHANGED <<disk, package, temps, edits, writer, unseen, overlap>>

-----------------------------------------------------------------------------
(* What happens around it.                                                 *)

\* A user writes, or deletes, a managed file.
Edit(a) ==
  /\ edits < MaxEdits
  /\ edits' = edits + 1
  /\ \E c \in Edits \ {disk[a]} : disk' = [disk EXCEPT ![a] = c]
  /\ writer' = [writer EXCEPT ![a] = User]
  /\ unseen' = [q \in Process |-> unseen[q] \cup {a}]
  /\ UNCHANGED <<package, frame, temps, overlap>>

\* The package manager installs the next version.
Install ==
  /\ package + 1 \in Version
  /\ package' = package + 1
  /\ UNCHANGED <<disk, frame, temps, edits, writer, unseen, overlap>>

Init ==
  /\ disk = Disk
  /\ package = 1
  /\ frame = [p \in Process |->
       [pc |-> "idle", left |-> {}, version |-> 1, read |-> [g \in File |-> Absent],
        digest |-> [version |-> 1, read |-> [g \in File |-> Absent]],
        committed |-> {}, failed |-> FALSE, broken |-> FALSE]]
  /\ temps = [p \in Process |-> {}]
  /\ edits = 0
  /\ writer = [g \in File |-> NoEntry]
  /\ unseen = [p \in Process |-> {}]
  /\ overlap = FALSE

Step(p) ==
  \/ Read(p) \/ Verify(p) \/ Stage(p) \/ Check(p) \/ Rename(p)
  \/ Rollback(p) \/ Restore(p) \/ Cleanup(p)

Next ==
  \/ \E p \in Process : Start(p) \/ Step(p) \/ Crash(p)
  \/ \E a \in Asset : Edit(a)
  \/ Install

Spec == Init /\ [][Next]_vars

\* An upgrade that was started runs on: its code waits for nobody.
FairSpec == Spec /\ \A p \in Process : WF_vars(Step(p))

\* Every variable keeps its type: files, frames, temporaries and history.
TypeOK ==
  /\ disk \in Files
  /\ package \in Version
  /\ frame \in [Process -> Frame]
  /\ temps \in [Process -> SUBSET ({"stage", "undo"} \X File)]
  /\ edits \in 0 .. MaxEdits
  /\ writer \in [File -> Process \cup {User, NoEntry}]
  /\ unseen \in [Process -> SUBSET File]
  /\ overlap \in BOOLEAN
===============================================================================
