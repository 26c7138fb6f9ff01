-------------------------- MODULE ManagedUpgradeProofs --------------------------
(***************************************************************************)
(* Theorems about `ark upgrade` for every set of processes, assets,        *)
(* contents and package versions: what a failing, crashing or overtaken    *)
(* apply leaves behind, and what it may overwrite.                         *)
(***************************************************************************)
EXTENDS ManagedUpgradeProperties, WellFoundedInduction, TLAPS

-----------------------------------------------------------------------------
(* The inductive invariant.                                                *)

\* Before anything is staged, and while files are replaced.
Planning == {"idle", "preview", "previewed", "plan", "blocked", "refused"}
Applying == {"verify", "stage", "check", "rename"}
Committing == {"check", "rename"}
Undoing == {"rollback", "restore"}

\* What the phase still has to visit.
LeftOK(p, f) ==
  /\ f.pc \in Phases \ (Undoing \cup {"cleanup"}) => f.left # {}
  /\ f.pc \in {"preview", "plan"} => f.left \subseteq ReadList(f)
  /\ f.pc = "verify" => f.left \subseteq VerifyList(p, f)
  /\ f.pc = "stage" => f.left \subseteq Operations(p, f)
  /\ f.pc \in Committing =>
       /\ f.left \subseteq CommitList(p, f)
       /\ Writes(p, f) \subseteq f.committed \cup f.left
       /\ f.left \cap Adopted(p, f) # {} => Manifest \in f.left
  /\ f.pc = "rename" => NextFile(p, f) \in Operations(p, f)

\* What has been committed, and whether the apply is failing.
CommittedOK(f) ==
  /\ f.pc \in Planning \cup {"verify", "stage"} => f.committed = {}
  /\ f.pc \in Planning \cup Applying \cup {"applied"} => ~f.failed
  /\ f.pc \in Planning \cup Applying \cup Undoing \cup {"applied"} => ~f.broken
  /\ f.pc \in Undoing => f.committed # {} /\ f.failed
  /\ f.broken => f.failed
  /\ f.pc = "failed" \/ (f.pc = "cleanup" /\ f.failed) =>
       f.broken \/ f.committed = {}

\* What is read while files are replaced is what the preview showed.
BoundOK(f) == f.pc \in Applying => f.read = f.digest.read

\* Temporary files, T.
TempsOK(f, T) ==
  /\ f.broken \/ \A t \in T : t[1] # "undo"
  /\ \/ T = {} \/ f.broken
     \/ f.pc \in {"stage", "check", "rename", "cleanup", "crashed"} \cup Undoing

\* What p wrote is still there and was committed; the manifest comes last.
WrittenOK(p, f, D, W) ==
  /\ \A g \in File : W[g] = p => g \in f.committed /\ D[g] = Planned(p, f, g)
  /\ W[Manifest] = p => /\ f.pc \in {"cleanup", "applied", "crashed"}
                        /\ ~f.failed /\ Writes(p, f) \subseteq f.committed

\* What p compared still holds, unless somebody else wrote it since.
SeenOK(p, f, D, U) ==
  /\ f.pc = "rename" /\ NextFile(p, f) \notin U =>
       D[NextFile(p, f)] = f.read[NextFile(p, f)]
  /\ f.pc = "restore" /\ LastCommitted(f) \notin U =>
       D[LastCommitted(f)] = Planned(p, f, LastCommitted(f))

\* What p has read of the project, or committed to it, still holds unless
\* somebody else wrote it since; an apply that succeeds commits its operations.
Succeeding(f) ==
  f.pc \in Applying \cup {"applied"} \/ (f.pc = "cleanup" /\ ~f.failed)

Held(p, f, g) == IF g \in f.committed THEN Planned(p, f, g) ELSE f.read[g]

HeldOK(p, f, D, U) ==
  /\ f.pc = "plan" =>
       \A g \in ReadList(f) \ f.left : g \in U \/ D[g] = f.read[g]
  /\ Succeeding(f) =>
       /\ f.committed \subseteq Operations(p, f)
       /\ \A g \in ReadList(f) : g \in U \/ D[g] = Held(p, f, g)
  /\ f.pc \in Committing => /\ Operations(p, f) \subseteq f.committed \cup f.left
                            /\ f.committed \cap f.left = {}
  /\ Succeeding(f) /\ f.pc \notin Applying =>
       Operations(p, f) \subseteq f.committed

FrameOK(p, f, T, D, W, U) ==
  /\ LeftOK(p, f)
  /\ CommittedOK(f)
  /\ BoundOK(f)
  /\ TempsOK(f, T)
  /\ WrittenOK(p, f, D, W)
  /\ SeenOK(p, f, D, U)
  /\ HeldOK(p, f, D, U)

FramesOK ==
  \A p \in Process : FrameOK(p, frame[p], temps[p], disk, writer, unseen[p])

-----------------------------------------------------------------------------
(* The constants and the order of the files.                               *)

LEMMA PlaceType ==
  /\ \A g \in File : Place(g) \in Nat
  /\ \A a \in Asset : Place(a) <= Len(Order)
  /\ Place(Manifest) = Len(Order) + 1
<1>1. Order \in Seq(Asset) /\ Len(Order) \in Nat /\ Manifest \notin Asset
  BY ManagedUpgradeAssumption
<1>2. ASSUME NEW a \in Asset PROVE Place(a) \in DOMAIN Order
  BY <1>1, <1>2, ManagedUpgradeAssumption DEF Place
<1>3. \A a \in Asset : Place(a) \in Nat /\ Place(a) <= Len(Order)
  BY <1>1, <1>2
<1>4. Place(Manifest) = Len(Order) + 1
  BY DEF Place
<1>5. QED
  BY <1>1, <1>3, <1>4 DEF File

\* A non-empty set of naturals has a least element.
LEMMA LeastNat ==
  ASSUME NEW D \in SUBSET Nat, D # {}
  PROVE  \E d \in D : \A e \in D : d <= e
<1> DEFINE R == {p \in Nat \X Nat : p[1] < p[2]}
<1>1. IsWellFoundedOn(R, Nat)
  BY NatLessThanWellFounded DEF OpToRel
<1> HIDE DEF R
<1>2. \E d \in D : \A e \in D : ~(<<e, d>> \in R)
  BY <1>1, WFMin
<1>3. PICK d \in D : \A e \in D : ~(<<e, d>> \in R)
  BY <1>2
<1>4. ASSUME NEW e \in D PROVE d <= e
  <2>1. SUFFICES ASSUME e < d PROVE FALSE
    OBVIOUS
  <2>2. <<e, d>> \in R
    BY <2>1 DEF R
  <2>3. QED
    BY <1>3, <2>2
<1>5. QED
  BY <1>4

LEMMA FirstIn ==
  ASSUME NEW S \in SUBSET File, S # {}
  PROVE  /\ First(S) \in S
         /\ First(S) = Manifest => S = {Manifest}
<1> DEFINE D == {Place(g) : g \in S}
<1>1. D \in SUBSET Nat /\ D # {}
  BY PlaceType
<1>2. PICK d \in D : \A e \in D : d <= e
  BY <1>1, LeastNat
<1>3. PICK g \in S : d = Place(g)
  BY <1>2
<1>4. \A h \in S : Place(g) <= Place(h)
  BY <1>2, <1>3
<1> HIDE DEF D
<1>5. First(S) \in S /\ \A h \in S : Place(First(S)) <= Place(h)
  BY <1>4 DEF First
<1>6. ASSUME First(S) = Manifest, NEW h \in S PROVE h = Manifest
  <2>1. Len(Order) + 1 <= Place(h) /\ Len(Order) \in Nat
    BY <1>5, <1>6, PlaceType, ManagedUpgradeAssumption
  <2>2. ASSUME h \in Asset PROVE FALSE
    BY <2>1, <2>2, PlaceType DEF File
  <2>3. QED
    BY <2>2 DEF File
<1>7. QED
  BY <1>5, <1>6

LEMMA LastIn ==
  ASSUME NEW S \in SUBSET File, S # {}
  PROVE  Last(S) \in S
<1> DEFINE n == Len(Order) + 1
           D == {n - Place(g) : g \in S}
<1>1. n \in Nat /\ \A g \in File : Place(g) \in Nat /\ Place(g) <= n
  BY PlaceType, ManagedUpgradeAssumption DEF File
<1> HIDE DEF n
<1>2. D \in SUBSET Nat /\ D # {}
  BY <1>1
<1>3. PICK d \in D : \A e \in D : d <= e
  BY <1>2, LeastNat
<1>4. PICK g \in S : d = n - Place(g)
  BY <1>3
<1>5. ASSUME NEW h \in S PROVE Place(h) <= Place(g)
  <2>1. n - Place(g) <= n - Place(h)
    BY <1>3, <1>4
  <2>2. QED
    BY <1>1, <2>1
<1>6. QED
  BY <1>5 DEF Last

LEMMA Constants ==
  /\ Manifest \notin Asset /\ Absent \notin Content /\ Absent \notin Entries
  /\ NoEntry \notin Content /\ User \notin Process /\ NoEntry \notin Process
  /\ Disk \in Files /\ MaxEdits \in Nat /\ 1 \in Version
  /\ Edits \subseteq Content \cup {Absent}
<1>1. Template \in Seq(UNION {[A -> Content] : A \in SUBSET Asset}) /\ Template # <<>>
  BY ManagedUpgradeAssumption
<1>2. 1 \in Version
  BY <1>1 DEF Version
<1>3. QED
  BY <1>2, ManagedUpgradeAssumption

LEMMA TemplateType ==
  ASSUME NEW v \in Version
  PROVE  /\ DOMAIN Template[v] \subseteq Asset
         /\ \A a \in DOMAIN Template[v] : Template[v][a] \in Content
<1>1. Template \in Seq(UNION {[A -> Content] : A \in SUBSET Asset})
  BY ManagedUpgradeAssumption
<1>2. Template[v] \in UNION {[A -> Content] : A \in SUBSET Asset}
  BY <1>1 DEF Version
<1>3. PICK A \in SUBSET Asset : Template[v] \in [A -> Content]
  BY <1>2
<1>4. QED
  BY <1>3

LEMMA FilesType ==
  ASSUME NEW d \in Files
  PROVE  /\ d \in [File -> Value]
         /\ d[Manifest] \in Entries \cup {Absent}
         /\ \A a \in Asset : d[a] \in Content \cup {Absent}
BY DEF Files

\* One file of the project is replaced.
LEMMA FilesExcept ==
  ASSUME NEW d \in Files, NEW g \in File, NEW v,
         g = Manifest => v \in Entries \cup {Absent},
         g # Manifest => v \in Content \cup {Absent}
  PROVE  [d EXCEPT ![g] = v] \in Files
<1>1. v \in Value
  BY DEF Value
<1>2. Manifest \notin Asset
  BY Constants
<1>3. QED
  BY <1>1, <1>2 DEF Files, File

LEMMA PlanType ==
  ASSUME NEW p \in Process, NEW f \in Frame
  PROVE  /\ Catalog(f) \subseteq Asset
         /\ Writes(p, f) \subseteq Asset /\ Adopted(p, f) \subseteq Asset
         /\ Writes(p, f) \cap Adopted(p, f) = {}
         /\ ReadList(f) \subseteq File /\ VerifyList(p, f) \subseteq File
         /\ Operations(p, f) \subseteq File /\ CommitList(p, f) \subseteq File
         /\ NextManifest(p, f) \in Entries
         /\ \A a \in Writes(p, f) : Target(f, a) \in Content
<1>1. f.version \in Version /\ f.read \in Files
  BY DEF Frame
<1>2. /\ Catalog(f) \subseteq Asset
      /\ \A a \in Catalog(f) : Target(f, a) \in Content
  BY <1>1, TemplateType DEF Catalog, Target
<1>3. Writes(p, f) \subseteq Catalog(f) /\ Adopted(p, f) \subseteq Catalog(f)
  BY DEF Writes, Adopted
<1>4. Writes(p, f) \cap Adopted(p, f) = {}
  BY DEF Writes, Adopted
<1>5. ASSUME NEW a \in Asset
      PROVE  /\ Recorded(f, a) \in Content \cup {NoEntry}
             /\ f.read[a] = Absent \/ f.read[a] \in Content
             /\ State(f, a) = "current" => f.read[a] \in Content
  <2>1. f.read[Manifest] \in Entries \cup {Absent} /\ f.read[a] \in Content \cup {Absent}
    BY <1>1, FilesType
  <2>2. Recorded(f, a) \in Content \cup {NoEntry}
    BY <2>1 DEF Recorded, EntryOf, Entries
  <2>3. State(f, a) = "current" => f.read[a] # Absent
    BY DEF State
  <2>4. QED
    BY <2>1, <2>2, <2>3
<1>6. NextManifest(p, f) \in Entries
  BY <1>2, <1>5 DEF NextManifest, Entries
<1>7. QED
  BY <1>2, <1>3, <1>4, <1>6
     DEF ReadList, VerifyList, Operations, CommitList, File

LEMMA NextType ==
  ASSUME NEW p \in Process, NEW f \in Frame, f.left # {}
  PROVE  /\ NextFile(p, f) \in f.left /\ NextFile(p, f) \in File
         /\ NextFile(p, f) = Manifest => f.left = {Manifest}
         /\ NextRead(f) \in f.left /\ NextRead(f) \in File
<1>1. f.left \in SUBSET File /\ f.left \cap Writes(p, f) \in SUBSET File
  BY DEF Frame
<1>2. Manifest \notin Writes(p, f)
  BY PlanType, Constants
<1>3. First(f.left) \in f.left /\ (First(f.left) = Manifest => f.left = {Manifest})
  BY <1>1, FirstIn
<1>4. CASE f.left \cap Writes(p, f) # {}
  <2>1. First(f.left \cap Writes(p, f)) \in f.left \cap Writes(p, f)
    BY <1>1, <1>4, FirstIn
  <2>2. QED
    BY <1>1, <1>2, <1>3, <1>4, <2>1 DEF NextFile, NextRead
<1>5. CASE f.left \cap Writes(p, f) = {}
  BY <1>1, <1>3, <1>5 DEF NextFile, NextRead
<1>6. QED
  BY <1>4, <1>5

\* The plan depends on the templates and on what was read only.
LEMMA SamePlan ==
  ASSUME NEW p, NEW f, NEW u, u.version = f.version, u.read = f.read
  PROVE  /\ Writes(p, u) = Writes(p, f) /\ Adopted(p, u) = Adopted(p, f)
         /\ Operations(p, u) = Operations(p, f)
         /\ CommitList(p, u) = CommitList(p, f)
         /\ VerifyList(p, u) = VerifyList(p, f)
         /\ \A g : Planned(p, u, g) = Planned(p, f, g)
         /\ ManifestChanged(p, u) = ManifestChanged(p, f)
         /\ ReadList(u) = ReadList(f)
<1>1. /\ Catalog(u) = Catalog(f)
      /\ \A a : Target(u, a) = Target(f, a) /\ Recorded(u, a) = Recorded(f, a)
  BY DEF Catalog, Target, Recorded, EntryOf
<1>2. \A a : State(u, a) = State(f, a)
  BY <1>1 DEF State
<1>3. \A a : WillApply(p, u, a) = WillApply(p, f, a)
  BY <1>1, <1>2 DEF WillApply
<1>4. Writes(p, u) = Writes(p, f) /\ Adopted(p, u) = Adopted(p, f)
  BY <1>1, <1>2, <1>3 DEF Writes, Adopted
<1>5. NextManifest(p, u) = NextManifest(p, f)
  BY <1>1, <1>2, <1>3 DEF NextManifest
<1>6. QED
  BY <1>1, <1>4, <1>5
     DEF Operations, CommitList, VerifyList, Planned, ManifestChanged, ReadList

\* With the same files left, the next one is the same, too.
LEMMA SameNext ==
  ASSUME NEW p, NEW f, NEW u, u.version = f.version, u.read = f.read,
         u.left = f.left
  PROVE  NextFile(p, u) = NextFile(p, f)
BY SamePlan DEF NextFile

LEMMA SameHeld ==
  ASSUME NEW p, NEW f, NEW u, u.version = f.version, u.read = f.read,
         u.committed = f.committed
  PROVE  \A g : Held(p, u, g) = Held(p, f, g)
BY SamePlan DEF Held

-----------------------------------------------------------------------------
(* The invariant of a step.                                                *)

Inv == TypeOK /\ FramesOK

TempFiles == SUBSET ({"stage", "undo"} \X File)

LEMMA FrameAt ==
  ASSUME Inv, NEW p \in Process
  PROVE  /\ frame[p] \in Frame /\ temps[p] \in TempFiles
         /\ unseen[p] \in SUBSET File /\ disk \in Files
         /\ FrameOK(p, frame[p], temps[p], disk, writer, unseen[p])
BY DEF Inv, TypeOK, FramesOK, TempFiles

\* Whoever else writes file g leaves the frame of p sound.
LEMMA OthersWrite ==
  ASSUME NEW p \in Process, NEW f \in Frame, NEW T, NEW D \in Files,
         NEW W \in [File -> Process \cup {User, NoEntry}], NEW U,
         NEW g \in File, NEW v, NEW w \in Process \cup {User, NoEntry}, w # p,
         FrameOK(p, f, T, D, W, U)
  PROVE  FrameOK(p, f, T, [D EXCEPT ![g] = v], [W EXCEPT ![g] = w], U \cup {g})
<1> DEFINE E == [D EXCEPT ![g] = v]
           X == [W EXCEPT ![g] = w]
<1>1. /\ \A h \in File : h # g => E[h] = D[h] /\ X[h] = W[h]
      /\ X[g] # p
  BY FilesType
<1> HIDE DEF E, X
<1>2. WrittenOK(p, f, E, X)
  BY <1>1, Constants DEF FrameOK, WrittenOK, File
<1>3. SeenOK(p, f, E, U \cup {g})
  <2>1. f.pc = "rename" => NextFile(p, f) \in File
    BY NextType DEF FrameOK, LeftOK, Phases, Undoing
  <2>2. f.pc = "restore" => LastCommitted(f) \in File
    BY LastIn DEF FrameOK, CommittedOK, Undoing, LastCommitted, Frame
  <2>3. QED
    BY <1>1, <2>1, <2>2 DEF FrameOK, SeenOK
<1>4. HeldOK(p, f, E, U \cup {g})
  <2>1. ReadList(f) \subseteq File
    BY PlanType
  <2>2. QED
    BY <1>1, <2>1 DEF FrameOK, HeldOK
<1>5. FrameOK(p, f, T, E, X, U \cup {g})
  BY <1>2, <1>3, <1>4 DEF FrameOK
<1>6. QED
  BY <1>5 DEF E, X

\* A step of p that writes no managed file.
LEMMA QuietStep ==
  ASSUME Inv, NEW p \in Process, NEW u \in Frame, NEW T \in TempFiles,
         NEW U \in SUBSET File,
         frame' = [frame EXCEPT ![p] = u], temps' = [temps EXCEPT ![p] = T],
         unseen' = [unseen EXCEPT ![p] = U],
         UNCHANGED <<disk, package, edits, writer>>, overlap' \in BOOLEAN,
         FrameOK(p, u, T, disk, writer, U)
  PROVE  Inv'
<1>1. TypeOK'
  BY DEF Inv, TypeOK, TempFiles
<1>2. ASSUME NEW q \in Process
      PROVE  FrameOK(q, frame'[q], temps'[q], disk', writer', unseen'[q])
  <2>1. CASE q = p
    BY <2>1 DEF Inv, TypeOK
  <2>2. CASE q # p
    <3>1. /\ frame'[q] = frame[q] /\ temps'[q] = temps[q]
          /\ unseen'[q] = unseen[q]
      BY <2>2 DEF Inv, TypeOK
    <3>2. QED
      BY <3>1, FrameAt
  <2>3. QED
    BY <2>1, <2>2
<1>3. QED
  BY <1>1, <1>2 DEF Inv, FramesOK

\* A step of p that replaces file g.
LEMMA WriteStep ==
  ASSUME Inv, NEW p \in Process, NEW u \in Frame, NEW T \in TempFiles,
         NEW g \in File, NEW v, NEW w \in {p, NoEntry},
         [disk EXCEPT ![g] = v] \in Files,
         frame' = [frame EXCEPT ![p] = u], temps' = [temps EXCEPT ![p] = T],
         disk' = [disk EXCEPT ![g] = v], writer' = [writer EXCEPT ![g] = w],
         WritesTo(p, g), UNCHANGED <<package, edits, overlap>>,
         FrameOK(p, u, T, disk', writer', unseen[p] \ {g})
  PROVE  Inv'
<1>1. \A q \in Process : unseen'[q] = IF q = p THEN unseen[q] \ {g}
                                               ELSE unseen[q] \cup {g}
  BY DEF WritesTo
<1>2. unseen' \in [Process -> SUBSET File]
  BY DEF WritesTo, Inv, TypeOK
<1>3. TypeOK'
  BY <1>2 DEF Inv, TypeOK, TempFiles
<1>4. ASSUME NEW q \in Process
      PROVE  FrameOK(q, frame'[q], temps'[q], disk', writer', unseen'[q])
  <2>1. CASE q = p
    BY <1>1, <2>1 DEF Inv, TypeOK
  <2>2. CASE q # p
    <3>1. /\ frame'[q] = frame[q] /\ temps'[q] = temps[q]
          /\ unseen'[q] = unseen[q] \cup {g}
      BY <1>1, <2>2 DEF Inv, TypeOK
    <3>2. w # q /\ w \in Process \cup {User, NoEntry}
      BY <2>2, Constants
    <3>3. writer \in [File -> Process \cup {User, NoEntry}]
      BY DEF Inv, TypeOK
    <3>4. FrameOK(q, frame[q], temps[q], [disk EXCEPT ![g] = v],
                  [writer EXCEPT ![g] = w], unseen[q] \cup {g})
      <4>1. /\ frame[q] \in Frame /\ disk \in Files
            /\ FrameOK(q, frame[q], temps[q], disk, writer, unseen[q])
        BY FrameAt
      <4>2. QED
        BY <3>2, <3>3, <4>1, OthersWrite
    <3>5. QED
      BY <3>1, <3>4
  <2>3. QED
    BY <2>1, <2>2
<1>5. QED
  BY <1>3, <1>4 DEF Inv, FramesOK

-----------------------------------------------------------------------------
(* Every step keeps the invariant.                                         *)

LEMMA SeesStep ==
  ASSUME Inv, NEW p \in Process, NEW g, Sees(p, g)
  PROVE  /\ unseen' = [unseen EXCEPT ![p] = unseen[p] \ {g}]
         /\ unseen[p] \ {g} \in SUBSET File
BY FrameAt DEF Sees

\* A step of p that looks at file g.
LEMMA SeeingStep ==
  ASSUME Inv, NEW p \in Process, NEW u \in Frame, NEW T \in TempFiles, NEW g,
         frame' = [frame EXCEPT ![p] = u], temps' = [temps EXCEPT ![p] = T],
         Sees(p, g), UNCHANGED <<disk, package, edits, writer, overlap>>,
         FrameOK(p, u, T, disk, writer, unseen[p] \ {g})
  PROVE  Inv'
<1> DEFINE U == unseen[p] \ {g}
<1>1. unseen' = [unseen EXCEPT ![p] = U] /\ U \in SUBSET File
  BY SeesStep
<1>2. overlap' \in BOOLEAN
  BY DEF Inv, TypeOK
<1>3. FrameOK(p, u, T, disk, writer, U)
  OBVIOUS
<1> HIDE DEF U
<1>4. QED
  BY <1>1, <1>2, <1>3, QuietStep

\* A step that leaves the temporary files alone.
LEMMA SameTemps ==
  ASSUME Inv, NEW p \in Process, temps' = temps
  PROVE  temps' = [temps EXCEPT ![p] = temps[p]] /\ temps[p] \in TempFiles
BY DEF Inv, TypeOK, TempFiles

\* A frame that has committed nothing holds no file.
LEMMA NothingWritten ==
  ASSUME NEW p, NEW f, NEW u, NEW D, NEW W,
         WrittenOK(p, f, D, W), f.committed = {}
  PROVE  WrittenOK(p, u, D, W)
BY DEF WrittenOK, File

LEMMA StartKeeps ==
  ASSUME Inv, NEW p \in Process, Start(p)
  PROVE  Inv'
<1> DEFINE f == frame[p]
           g == [f EXCEPT !.version = package,
                          !.read = [h \in File |-> Absent]]
           l == IF f.pc = "idle" THEN "preview" ELSE "plan"
           u == Goto(g, l, ReadList(g))
<1>1. /\ f.pc \in {"idle", "previewed"} /\ frame' = [frame EXCEPT ![p] = u]
      /\ UNCHANGED <<disk, package, temps, edits, writer, unseen>>
      /\ overlap' \in BOOLEAN
  BY DEF Start, Move, Inv, TypeOK
<1>2. [h \in File |-> Absent] \in Files
  BY DEF Files, File, Value
<1>3. g \in Frame /\ package \in Version
  BY <1>2, FrameAt DEF Frame, Inv, TypeOK
<1>4. ReadList(g) \in SUBSET File /\ ReadList(g) # {}
  BY <1>3, PlanType DEF ReadList
<1>5. /\ u.pc = l /\ u.left = ReadList(g) /\ u.version = g.version
      /\ u.committed = f.committed /\ u.failed = f.failed /\ u.broken = f.broken
      /\ u \in Frame
  BY <1>3, <1>4, FrameAt DEF Goto, Frame, Phases
<1>6. FrameOK(p, f, temps[p], disk, writer, unseen[p])
  BY FrameAt
<1>7. ReadList(u) = ReadList(g)
  BY <1>5 DEF ReadList, Catalog
<1> HIDE DEF u, g
<1>8. LeftOK(p, u)
  BY <1>4, <1>5, <1>7 DEF LeftOK, Phases, Undoing, Committing
<1>9. CommittedOK(u)
  BY <1>1, <1>5, <1>6 DEF FrameOK, CommittedOK, Planning, Applying, Undoing
<1>10. BoundOK(u) /\ SeenOK(p, u, disk, unseen[p])
  BY <1>5 DEF BoundOK, SeenOK, Applying
<1>11. TempsOK(u, temps[p])
  BY <1>1, <1>5, <1>6 DEF FrameOK, TempsOK, CommittedOK, Planning, Undoing
<1>12. WrittenOK(p, u, disk, writer)
  BY <1>1, <1>6, NothingWritten DEF FrameOK, CommittedOK, Planning
<1>12a. HeldOK(p, u, disk, unseen[p])
  BY <1>5, <1>7 DEF HeldOK, Succeeding, Applying, Committing
<1>13. FrameOK(p, u, temps[p], disk, writer, unseen[p])
  BY <1>8, <1>9, <1>10, <1>11, <1>12, <1>12a DEF FrameOK
<1>14. /\ temps' = [temps EXCEPT ![p] = temps[p]]
       /\ unseen' = [unseen EXCEPT ![p] = unseen[p]]
  BY <1>1 DEF Inv, TypeOK
<1>15. QED
  BY <1>1, <1>5, <1>13, <1>14, FrameAt, QuietStep

\* What the end of a phase keeps.
LEMMA EndType ==
  ASSUME NEW f \in Frame,
         NEW l \in Phases \cup Settled \cup {"previewed"},
         NEW list \in SUBSET File
  PROVE  LET u == Goto(f, l, list)
         IN  /\ u \in Frame /\ u.pc = l /\ u.left = list
             /\ u.version = f.version /\ u.read = f.read /\ u.digest = f.digest
             /\ u.committed = f.committed /\ u.failed = f.failed
             /\ u.broken = f.broken
BY DEF Goto, Frame

LEMMA UndoType ==
  ASSUME NEW f \in Frame
  PROVE  LET u == Undo(f)
         IN  /\ u \in Frame /\ u.left = {} /\ u.failed
             /\ u.pc = IF f.committed = {} THEN "cleanup" ELSE "rollback"
             /\ u.version = f.version /\ u.read = f.read /\ u.digest = f.digest
             /\ u.committed = f.committed /\ u.broken = f.broken
BY DEF Undo, End, Goto, Frame, Phases

\* What a plan settles on: nothing is written yet.
LEMMA DecideType ==
  ASSUME NEW p \in Process, NEW f \in Frame, f.pc \in {"preview", "plan"}
  PROVE  LET u == Decide(p, f)
         IN  /\ u \in Frame /\ u.read = f.read /\ u.version = f.version
             /\ u.committed = f.committed /\ u.failed = f.failed
             /\ u.broken = f.broken
             /\ \/ u.pc \in {"previewed", "blocked", "refused"}
                \/ /\ u.pc = "verify" /\ u.left = VerifyList(p, f)
                   /\ u.read = u.digest.read
<1>1. Digest(f) \in [version : Version, read : Files]
  BY DEF Digest, Frame
<1>2. {} \in SUBSET File /\ VerifyList(p, f) \in SUBSET File
  BY PlanType
<1>3. CASE f.pc = "preview"
  <2>1. Decide(p, f) = [Goto(f, "previewed", {}) EXCEPT !.digest = Digest(f)]
    BY <1>3 DEF Decide, End
  <2>2. QED
    BY <1>1, <1>2, <2>1 DEF Goto, Frame, Phases
<1>4. CASE f.pc = "plan" /\ Blocked(p, f)
  <2>1. Decide(p, f) = Goto(f, "blocked", {})
    BY <1>4 DEF Decide, End
  <2>2. QED
    BY <1>2, <2>1 DEF Goto, Frame, Settled
<1>5. CASE f.pc = "plan" /\ ~Blocked(p, f) /\ ~SameDigest(f.digest, Digest(f))
  <2>1. Decide(p, f) = Goto(f, "refused", {})
    BY <1>5 DEF Decide, End
  <2>2. QED
    BY <1>2, <2>1 DEF Goto, Frame, Settled
<1>6. CASE f.pc = "plan" /\ ~Blocked(p, f) /\ SameDigest(f.digest, Digest(f))
  <2>1. Decide(p, f) = Goto(f, "verify", VerifyList(p, f))
    BY <1>6 DEF Decide
  <2>2. f.digest.read = f.read
    BY <1>6 DEF SameDigest, Digest
  <2>3. QED
    BY <1>2, <2>1, <2>2 DEF Goto, Frame, Phases
<1>7. QED
  BY <1>3, <1>4, <1>5, <1>6

LEMMA ReadKeeps ==
  ASSUME Inv, NEW p \in Process, Read(p)
  PROVE  Inv'
<1> DEFINE f == frame[p]
           g == NextRead(f)
           h == [f EXCEPT !.read[g] = disk[g]]
           u == Advance(h, g, Decide(p, h))
           U == unseen[p] \ {g}
<1>1. /\ f.pc \in {"preview", "plan"} /\ frame' = [frame EXCEPT ![p] = u]
      /\ UNCHANGED <<disk, package, temps, edits, writer, overlap>>
      /\ Sees(p, g)
  BY DEF Read, Move
<1>2. f \in Frame /\ FrameOK(p, f, temps[p], disk, writer, unseen[p])
  BY FrameAt
<1>3. f.left # {} /\ f.left \subseteq ReadList(f)
  BY <1>1, <1>2 DEF FrameOK, LeftOK, Phases, Undoing
<1>4. g \in f.left /\ g \in File
  BY <1>2, <1>3, NextType
<1>5. h \in Frame /\ h.left = f.left /\ h.pc = f.pc /\ h.version = f.version
      /\ h.committed = f.committed /\ h.failed = f.failed /\ h.broken = f.broken
  <2>1. f.read \in Files /\ disk \in Files
    BY <1>2, FrameAt DEF Frame
  <2>2. [f.read EXCEPT ![g] = disk[g]] \in Files
    BY <1>4, <2>1, FilesType, FilesExcept DEF File
  <2>3. QED
    BY <1>2, <2>2 DEF Frame
<1>6. VerifyList(p, h) # {}
  BY DEF VerifyList
<1> HIDE DEF h, g
<1>7. /\ u \in Frame /\ u.version = f.version
      /\ u.committed = f.committed /\ u.failed = f.failed /\ u.broken = f.broken
      /\ \/ u.pc = f.pc /\ u.left # {} /\ u.left = f.left \ {g} /\ u.read = h.read
         \/ u.pc \in {"previewed", "blocked", "refused"}
         \/ /\ u.pc = "verify" /\ u.left = VerifyList(p, h)
            /\ u.read = u.digest.read /\ u.read = h.read
            /\ f.left = {g} /\ f.pc = "plan"
  <2>1. CASE h.left = {g}
    <3>1. u = Decide(p, h)
      BY <2>1 DEF Advance
    <3>2. f.pc = "preview" => Decide(p, h).pc # "verify"
      BY <1>5 DEF Decide, End, Goto, Frame
    <3>3. QED
      BY <1>1, <1>5, <2>1, <3>1, <3>2, DecideType
  <2>2. CASE h.left # {g}
    <3>1. u = [h EXCEPT !.left = @ \ {g}]
      BY <2>2 DEF Advance
    <3>2. h.left \ {g} # {}
      BY <1>4, <1>5, <2>2
    <3>3. QED
      BY <1>5, <3>1, <3>2 DEF Frame
  <2>3. QED
    BY <2>1, <2>2
<1> HIDE DEF u
<1>8. f.pc = u.pc => ReadList(u) = ReadList(f)
  BY <1>7 DEF ReadList, Catalog
<1>9. u.pc = "verify" => VerifyList(p, u) = VerifyList(p, h)
  BY <1>1, <1>5, <1>7, SamePlan
<1>10. LeftOK(p, u)
  BY <1>1, <1>3, <1>6, <1>7, <1>8, <1>9 DEF LeftOK, Phases, Undoing, Committing
<1>11. CommittedOK(u)
  BY <1>1, <1>2, <1>7 DEF FrameOK, CommittedOK, Planning, Applying, Undoing
<1>12. BoundOK(u) /\ SeenOK(p, u, disk, U)
  BY <1>1, <1>7 DEF BoundOK, SeenOK, Applying
<1>13. TempsOK(u, temps[p])
  BY <1>1, <1>2, <1>7 DEF FrameOK, TempsOK, CommittedOK, Planning, Undoing
<1>14. WrittenOK(p, u, disk, writer)
  BY <1>1, <1>2, NothingWritten DEF FrameOK, CommittedOK, Planning
<1>14a. HeldOK(p, u, disk, U)
  <2>1. h.read[g] = disk[g] /\ \A x \in File : x # g => h.read[x] = f.read[x]
    BY <1>2, <1>4, FilesType DEF h, Frame
  <2>2. ReadList(u) = ReadList(f) /\ ReadList(f) \subseteq File
    BY <1>2, <1>7, PlanType DEF ReadList, Catalog
  <2>3. /\ f.pc = "plan" =>
             \A x \in ReadList(f) \ f.left : x \in unseen[p] \/ disk[x] = f.read[x]
        /\ f.committed = {}
    BY <1>1, <1>2 DEF FrameOK, HeldOK, CommittedOK, Planning
  <2>4. f.pc = "plan" =>
          \A x \in ReadList(f) \ (f.left \ {g}) : x \in U \/ disk[x] = h.read[x]
    BY <2>1, <2>2, <2>3
  <2>5. QED
    BY <1>1, <1>7, <2>2, <2>3, <2>4
       DEF HeldOK, Succeeding, Held, Applying, Committing
<1>15. FrameOK(p, u, temps[p], disk, writer, U)
  BY <1>10, <1>11, <1>12, <1>13, <1>14, <1>14a DEF FrameOK
<1>16. temps' = [temps EXCEPT ![p] = temps[p]] /\ temps[p] \in TempFiles
  BY <1>1, SameTemps
<1>17. QED
  BY <1>1, <1>7, <1>15, <1>16, SeeingStep

LEMMA VerifyKeeps ==
  ASSUME Inv, NEW p \in Process, Verify(p)
  PROVE  Inv'
<1> DEFINE f == frame[p]
           g == NextFile(p, f)
           o == IF Operations(p, f) = {} THEN End(f, "cleanup")
                ELSE Goto(f, "stage", Operations(p, f))
           u == IF disk[g] = f.read[g] THEN Advance(f, g, o) ELSE End(f, "failed")
           U == unseen[p] \ {g}
<1>1. /\ f.pc = "verify" /\ frame' = [frame EXCEPT ![p] = u]
      /\ UNCHANGED <<disk, package, temps, edits, writer, overlap>>
      /\ Sees(p, g)
  BY DEF Verify, Move
<1>2. f \in Frame /\ FrameOK(p, f, temps[p], disk, writer, unseen[p])
  BY FrameAt
<1>3. f.left # {} /\ f.left \subseteq VerifyList(p, f)
  BY <1>1, <1>2 DEF FrameOK, LeftOK, Phases, Undoing
<1>4. g \in f.left /\ g \in File
  BY <1>2, <1>3, NextType
<1> HIDE DEF g
<1>5. /\ u \in Frame /\ u.version = f.version /\ u.read = f.read
      /\ u.digest = f.digest /\ u.committed = f.committed
      /\ u.failed = f.failed /\ u.broken = f.broken
      /\ u.pc = "failed" \/ disk[g] = f.read[g]
      /\ \/ u.pc = "verify" /\ u.left # {} /\ u.left \subseteq f.left
         \/ u.pc = "cleanup" /\ Operations(p, f) = {}
         \/ u.pc = "failed"
         \/ u.pc = "stage" /\ u.left = Operations(p, f) /\ u.left # {}
  <2>1. CASE disk[g] = f.read[g] /\ f.left # {g}
    <3>1. u = [f EXCEPT !.left = @ \ {g}] /\ f.left \ {g} # {}
      BY <1>4, <2>1 DEF Advance
    <3>2. QED
      BY <1>1, <1>2, <2>1, <3>1 DEF Frame
  <2>2. CASE disk[g] = f.read[g] /\ f.left = {g} /\ Operations(p, f) = {}
    <3>1. u = Goto(f, "cleanup", {})
      BY <2>2 DEF Advance, End
    <3>2. QED
      BY <1>2, <2>2, <3>1, EndType DEF Phases
  <2>3. CASE disk[g] = f.read[g] /\ f.left = {g} /\ Operations(p, f) # {}
    <3>1. u = Goto(f, "stage", Operations(p, f))
      BY <2>3 DEF Advance
    <3>2. Operations(p, f) \in SUBSET File
      BY <1>2, PlanType
    <3>3. QED
      BY <1>2, <2>3, <3>1, <3>2, EndType DEF Phases
  <2>4. CASE disk[g] # f.read[g]
    <3>1. u = Goto(f, "failed", {})
      BY <2>4 DEF End
    <3>2. QED
      BY <1>2, <2>4, <3>1, EndType DEF Settled
  <2>5. QED
    BY <2>1, <2>2, <2>3, <2>4
<1> HIDE DEF u
<1>6. /\ VerifyList(p, u) = VerifyList(p, f)
      /\ Operations(p, u) = Operations(p, f)
  BY <1>5, SamePlan
<1>7. LeftOK(p, u)
  BY <1>3, <1>5, <1>6 DEF LeftOK, Phases, Undoing, Committing
<1>8. CommittedOK(u)
  BY <1>1, <1>2, <1>5 DEF FrameOK, CommittedOK, Planning, Applying, Undoing
<1>9. BoundOK(u) /\ SeenOK(p, u, disk, U)
  BY <1>1, <1>2, <1>5 DEF FrameOK, BoundOK, SeenOK, Applying
<1>10. TempsOK(u, temps[p])
  BY <1>1, <1>2, <1>5 DEF FrameOK, TempsOK, Undoing
<1>11. WrittenOK(p, u, disk, writer)
  BY <1>1, <1>2, NothingWritten DEF FrameOK, CommittedOK, Planning
<1>11a. HeldOK(p, u, disk, U)
  <2>1. \A x : Held(p, u, x) = Held(p, f, x)
    BY <1>5, SameHeld
  <2>2. ReadList(u) = ReadList(f) /\ Operations(p, u) = Operations(p, f)
    BY <1>5, SamePlan
  <2>3. /\ f.committed = {}
        /\ \A x \in ReadList(f) : x \in unseen[p] \/ disk[x] = Held(p, f, x)
    BY <1>1, <1>2
       DEF FrameOK, HeldOK, CommittedOK, Succeeding, Applying, Planning
  <2>4. u.pc # "failed" => disk[g] = Held(p, f, g)
    BY <1>5, <2>3 DEF Held
  <2>5. u.pc # "failed" =>
          \A x \in ReadList(f) : x \in U \/ disk[x] = Held(p, f, x)
    BY <2>3, <2>4
  <2>6. QED
    BY <1>1, <1>5, <2>1, <2>2, <2>3, <2>5
       DEF HeldOK, Succeeding, Applying, Committing
<1>12. FrameOK(p, u, temps[p], disk, writer, U)
  BY <1>7, <1>8, <1>9, <1>10, <1>11, <1>11a DEF FrameOK
<1>13. temps' = [temps EXCEPT ![p] = temps[p]] /\ temps[p] \in TempFiles
  BY <1>1, SameTemps
<1>14. QED
  BY <1>1, <1>5, <1>12, <1>13, SeeingStep

\* The error path of an apply that has staged or replaced files.
LEMMA UndoOK ==
  ASSUME NEW p \in Process, NEW f \in Frame, NEW T, NEW D, NEW W, NEW U, NEW V,
         FrameOK(p, f, T, D, W, U), f.pc \in {"stage", "check", "rename"}
  PROVE  Undo(f) \in Frame /\ FrameOK(p, Undo(f), T, D, W, V)
<1> DEFINE u == Undo(f)
<1>1. /\ u \in Frame /\ u.left = {} /\ u.failed
      /\ u.pc = IF f.committed = {} THEN "cleanup" ELSE "rollback"
      /\ u.version = f.version /\ u.read = f.read /\ u.digest = f.digest
      /\ u.committed = f.committed /\ u.broken = f.broken
  BY UndoType
<1> HIDE DEF u
<1>2. LeftOK(p, u)
  BY <1>1 DEF LeftOK, Phases, Undoing, Committing
<1>3. CommittedOK(u)
  BY <1>1 DEF FrameOK, CommittedOK, Planning, Applying, Undoing
<1>4. BoundOK(u) /\ SeenOK(p, u, D, V)
  BY <1>1 DEF BoundOK, SeenOK, Applying
<1>5. TempsOK(u, T)
  BY <1>1 DEF FrameOK, TempsOK, Undoing
<1>6. WrittenOK(p, u, D, W)
  <2>1. \A h : Planned(p, u, h) = Planned(p, f, h)
    BY <1>1, SamePlan
  <2>2. WrittenOK(p, f, D, W) /\ W[Manifest] # p
    BY DEF FrameOK, WrittenOK
  <2>3. QED
    BY <1>1, <2>1, <2>2 DEF WrittenOK
<1>7. HeldOK(p, u, D, V)
  BY <1>1 DEF HeldOK, Succeeding, Applying, Committing
<1>8. FrameOK(p, u, T, D, W, V)
  BY <1>2, <1>3, <1>4, <1>5, <1>6, <1>7 DEF FrameOK
<1>9. QED
  BY <1>1, <1>8 DEF u

\* The files to commit, and why the manifest is last to change.
LEMMA CommitListOK ==
  ASSUME NEW p \in Process, NEW f \in Frame
  PROVE  /\ Writes(p, f) \subseteq Operations(p, f)
         /\ Operations(p, f) \subseteq CommitList(p, f)
         /\ CommitList(p, f) \subseteq Operations(p, f) \cup Adopted(p, f)
         /\ CommitList(p, f) \cap Adopted(p, f) # {} => Manifest \in CommitList(p, f)
         /\ Manifest \notin Adopted(p, f) /\ Manifest \notin Writes(p, f)
<1>1. Writes(p, f) \cap Adopted(p, f) = {}
  BY PlanType
<1>2. Manifest \notin Adopted(p, f) /\ Manifest \notin Writes(p, f)
  BY PlanType, Constants
<1>3. QED
  BY <1>1, <1>2 DEF Operations, CommitList

LEMMA StageKeeps ==
  ASSUME Inv, NEW p \in Process, Stage(p)
  PROVE  Inv'
<1> DEFINE f == frame[p]
           g == NextFile(p, f)
           o == Goto(f, "check", CommitList(p, f))
           U == unseen[p] \ {g}
<1>1. /\ f.pc = "stage" /\ Sees(p, g)
      /\ UNCHANGED <<disk, package, edits, writer, overlap>>
  BY DEF Stage
<1>2. f \in Frame /\ FrameOK(p, f, temps[p], disk, writer, unseen[p])
  BY FrameAt
<1>3. f.left # {} /\ f.left \subseteq Operations(p, f)
  BY <1>1, <1>2 DEF FrameOK, LeftOK, Phases, Undoing
<1>4. g \in f.left /\ g \in File
  BY <1>2, <1>3, NextType
<1>5. CASE /\ disk[g] = f.read[g]
           /\ temps' = [temps EXCEPT ![p] = @ \cup {<<"stage", g>>}]
           /\ frame' = [frame EXCEPT ![p] = Advance(f, g, o)]
  <2> DEFINE u == Advance(f, g, o)
             T == temps[p] \cup {<<"stage", g>>}
  <2>1. temps' = [temps EXCEPT ![p] = T] /\ T \in TempFiles
    BY <1>4, <1>5, FrameAt DEF TempFiles
  <2>2. CommitList(p, f) \in SUBSET File
    BY <1>2, PlanType
  <2> HIDE DEF g
  <2>3. /\ u \in Frame /\ u.version = f.version /\ u.read = f.read
        /\ u.digest = f.digest /\ u.committed = f.committed
        /\ u.failed = f.failed /\ u.broken = f.broken
        /\ \/ u.pc = "stage" /\ u.left # {} /\ u.left \subseteq f.left
           \/ u.pc = "check" /\ u.left = CommitList(p, f)
    <3>1. CASE f.left = {g}
      <4>1. u = Goto(f, "check", CommitList(p, f))
        BY <3>1 DEF Advance
      <4>2. QED
        BY <1>2, <2>2, <4>1, EndType DEF Phases
    <3>2. CASE f.left # {g}
      <4>1. u = [f EXCEPT !.left = @ \ {g}] /\ f.left \ {g} # {}
        BY <1>4, <3>2 DEF Advance
      <4>2. QED
        BY <1>1, <1>2, <4>1 DEF Frame
    <3>3. QED
      BY <3>1, <3>2
  <2>4. \A t \in T : t \in temps[p] \/ t[1] = "stage"
    OBVIOUS
  <2> HIDE DEF u, T
  <2>5. /\ Operations(p, u) = Operations(p, f) /\ Writes(p, u) = Writes(p, f)
        /\ CommitList(p, u) = CommitList(p, f) /\ Adopted(p, u) = Adopted(p, f)
    BY <2>3, SamePlan
  <2>6. LeftOK(p, u)
    <3>1. CommitList(p, f) # {}
      BY <1>2, <1>3, CommitListOK
    <3>2. u.pc = "check" => /\ Writes(p, u) \subseteq u.left
                            /\ u.left \cap Adopted(p, u) # {} => Manifest \in u.left
      BY <1>2, <2>3, <2>5, CommitListOK
    <3>3. QED
      BY <1>3, <2>3, <2>5, <3>1, <3>2 DEF LeftOK, Phases, Undoing, Committing
  <2>7. CommittedOK(u)
    BY <1>1, <1>2, <2>3 DEF FrameOK, CommittedOK, Planning, Applying, Undoing
  <2>8. BoundOK(u) /\ SeenOK(p, u, disk, U)
    BY <1>1, <1>2, <2>3 DEF FrameOK, BoundOK, SeenOK, Applying
  <2>9. TempsOK(u, T)
    BY <1>2, <2>3, <2>4 DEF FrameOK, TempsOK
  <2>10. WrittenOK(p, u, disk, writer)
    BY <1>1, <1>2, NothingWritten DEF FrameOK, CommittedOK, Planning
  <2>10a. HeldOK(p, u, disk, U)
    <3>1. f.committed = {} /\ disk[g] = Held(p, f, g)
      BY <1>1, <1>2, <1>5 DEF FrameOK, CommittedOK, Held
    <3>2. /\ f.committed \subseteq Operations(p, f)
          /\ \A x \in ReadList(f) : x \in U \/ disk[x] = Held(p, f, x)
      BY <1>1, <1>2, <3>1 DEF FrameOK, HeldOK, Succeeding, Applying
    <3>3. /\ \A x : Held(p, u, x) = Held(p, f, x)
          /\ ReadList(u) = ReadList(f)
      BY <2>3, SamePlan, SameHeld
    <3>4. u.pc = "check" => Operations(p, u) \subseteq u.left
      BY <1>2, <2>3, <2>5, CommitListOK
    <3>5. QED
      BY <1>1, <2>3, <2>5, <3>1, <3>2, <3>3, <3>4
         DEF HeldOK, Succeeding, Applying, Committing
  <2>11. FrameOK(p, u, T, disk, writer, U)
    BY <2>6, <2>7, <2>8, <2>9, <2>10, <2>10a DEF FrameOK
  <2>12. frame' = [frame EXCEPT ![p] = u]
    BY <1>5 DEF u
  <2>13. QED
    BY <1>1, <2>1, <2>3, <2>11, <2>12, SeeingStep
<1>6. CASE frame' = [frame EXCEPT ![p] = Undo(f)] /\ UNCHANGED temps
  <2>1. Undo(f) \in Frame /\ FrameOK(p, Undo(f), temps[p], disk, writer, U)
    BY <1>1, <1>2, UndoOK
  <2>2. temps' = [temps EXCEPT ![p] = temps[p]] /\ temps[p] \in TempFiles
    BY <1>6, SameTemps
  <2>3. QED
    BY <1>1, <1>6, <2>1, <2>2, SeeingStep
<1>7. QED
  BY <1>5, <1>6 DEF Stage, Move

LEMMA CheckKeeps ==
  ASSUME Inv, NEW p \in Process, Check(p)
  PROVE  Inv'
<1> DEFINE f == frame[p]
           g == NextFile(p, f)
           U == unseen[p] \ {g}
<1>1. /\ f.pc = "check" /\ Sees(p, g)
      /\ UNCHANGED <<disk, package, temps, edits, writer, overlap>>
  BY DEF Check
<1>2. f \in Frame /\ FrameOK(p, f, temps[p], disk, writer, unseen[p])
  BY FrameAt
<1>3. /\ f.left # {} /\ f.left \subseteq CommitList(p, f)
      /\ Writes(p, f) \subseteq f.committed \cup f.left
      /\ f.left \cap Adopted(p, f) # {} => Manifest \in f.left
  BY <1>1, <1>2 DEF FrameOK, LeftOK, Phases, Undoing, Committing
<1>4. g \in f.left /\ g \in File
  BY <1>2, <1>3, NextType
<1>5. temps' = [temps EXCEPT ![p] = temps[p]] /\ temps[p] \in TempFiles
  BY <1>1, SameTemps
<1>6. CASE disk[g] # f.read[g]
  <2>1. frame' = [frame EXCEPT ![p] = Undo(f)]
    BY <1>6 DEF Check, Move
  <2>2. Undo(f) \in Frame /\ FrameOK(p, Undo(f), temps[p], disk, writer, U)
    BY <1>1, <1>2, UndoOK
  <2>3. QED
    BY <1>1, <1>5, <2>1, <2>2, SeeingStep
<1>7. CASE disk[g] = f.read[g]
  <2> DEFINE u == IF g \in Adopted(p, f) THEN [f EXCEPT !.left = @ \ {g}]
                                         ELSE [f EXCEPT !.pc = "rename"]
  <2>1. frame' = [frame EXCEPT ![p] = u]
    BY <1>7 DEF Check, Move
  <2>2. CommitList(p, f) \subseteq Operations(p, f) \cup Adopted(p, f)
    BY <1>2, CommitListOK
  <2>3. NextFile(p, f) = g
    OBVIOUS
  <2> HIDE DEF g
  <2>4. /\ u \in Frame /\ u.version = f.version /\ u.read = f.read
        /\ u.digest = f.digest /\ u.committed = f.committed
        /\ u.failed = f.failed /\ u.broken = f.broken
        /\ \/ u.pc = "check" /\ u.left = f.left \ {g} /\ g \in Adopted(p, f)
           \/ u.pc = "rename" /\ u.left = f.left /\ g \notin Adopted(p, f)
    BY <1>1, <1>2 DEF Frame, Phases
  <2> HIDE DEF u
  <2>5. /\ Operations(p, u) = Operations(p, f) /\ Writes(p, u) = Writes(p, f)
        /\ CommitList(p, u) = CommitList(p, f) /\ Adopted(p, u) = Adopted(p, f)
        /\ u.pc = "rename" => NextFile(p, u) = g
    BY <2>3, <2>4, SamePlan, SameNext
  <2>6. LeftOK(p, u)
    <3>1. CASE u.pc = "check" /\ u.left = f.left \ {g} /\ g \in Adopted(p, f)
      <4>1. g \notin Writes(p, f) /\ g # Manifest /\ Manifest \in u.left
        BY <1>2, <1>3, <1>4, <3>1, PlanType, CommitListOK
      <4>2. QED
        BY <1>3, <2>4, <2>5, <3>1, <4>1
           DEF LeftOK, Phases, Undoing, Committing
    <3>2. CASE u.pc = "rename" /\ u.left = f.left /\ g \notin Adopted(p, f)
      <4>1. NextFile(p, u) \in Operations(p, u)
        BY <1>3, <1>4, <2>2, <2>5, <3>2
      <4>2. QED
        BY <1>3, <2>4, <2>5, <3>2, <4>1
           DEF LeftOK, Phases, Undoing, Committing
    <3>3. QED
      BY <2>4, <3>1, <3>2
  <2>7. CommittedOK(u)
    BY <1>1, <1>2, <2>4 DEF FrameOK, CommittedOK, Planning, Applying, Undoing
  <2>8. BoundOK(u)
    BY <1>1, <1>2, <2>4 DEF FrameOK, BoundOK, Applying
  <2>9. SeenOK(p, u, disk, U)
    BY <1>7, <2>4, <2>5 DEF SeenOK
  <2>10. TempsOK(u, temps[p])
    BY <1>1, <1>2, <2>4 DEF FrameOK, TempsOK
  <2>11. WrittenOK(p, u, disk, writer)
    <3>1. \A h : Planned(p, u, h) = Planned(p, f, h)
      BY <2>4, SamePlan
    <3>2. WrittenOK(p, f, disk, writer) /\ writer[Manifest] # p
      BY <1>1, <1>2 DEF FrameOK, WrittenOK
    <3>3. QED
      BY <2>4, <3>1, <3>2 DEF WrittenOK
  <2>11a. HeldOK(p, u, disk, U)
    <3>1. /\ f.committed \subseteq Operations(p, f)
          /\ \A x \in ReadList(f) : x \in unseen[p] \/ disk[x] = Held(p, f, x)
          /\ Operations(p, f) \subseteq f.committed \cup f.left
          /\ f.committed \cap f.left = {}
      BY <1>1, <1>2 DEF FrameOK, HeldOK, Succeeding, Applying, Committing
    <3>2. /\ \A x : Held(p, u, x) = Held(p, f, x)
          /\ ReadList(u) = ReadList(f)
      BY <2>4, SamePlan, SameHeld
    <3>3. disk[g] = Held(p, f, g)
      BY <1>4, <1>7, <3>1 DEF Held
    <3>4. Operations(p, f) \subseteq f.committed \cup u.left
      <4>1. g \in Adopted(p, f) => g \notin Operations(p, f)
        BY <1>2, PlanType, CommitListOK DEF Operations
      <4>2. QED
        BY <2>4, <3>1, <4>1
    <3>5. QED
      BY <1>1, <2>4, <2>5, <3>1, <3>2, <3>3, <3>4
         DEF HeldOK, Succeeding, Applying, Committing
  <2>12. FrameOK(p, u, temps[p], disk, writer, U)
    BY <2>6, <2>7, <2>8, <2>9, <2>10, <2>11, <2>11a DEF FrameOK
  <2>13. QED
    BY <1>1, <1>5, <2>1, <2>4, <2>12, SeeingStep
<1>8. QED
  BY <1>6, <1>7

LEMMA RenameKeeps ==
  ASSUME Inv, NEW p \in Process, Rename(p)
  PROVE  Inv'
<1> DEFINE f == frame[p]
           g == NextFile(p, f)
           done == [f EXCEPT !.committed = @ \cup {g}]
           u == IF f.left = {g} THEN End(done, "cleanup")
                ELSE Goto(done, "check", f.left \ {g})
           v == Planned(p, f, g)
<1>1. f.pc = "rename" /\ UNCHANGED <<package, edits, overlap>>
  BY DEF Rename
<1>2. f \in Frame /\ FrameOK(p, f, temps[p], disk, writer, unseen[p])
  BY FrameAt
<1>3. /\ f.left # {} /\ f.left \subseteq CommitList(p, f)
      /\ Writes(p, f) \subseteq f.committed \cup f.left
      /\ f.left \cap Adopted(p, f) # {} => Manifest \in f.left
      /\ g \in Operations(p, f)
  BY <1>1, <1>2 DEF FrameOK, LeftOK, Phases, Undoing, Committing
<1>4. g \in f.left /\ g \in File /\ (g = Manifest => f.left = {Manifest})
  BY <1>2, <1>3, NextType
<1>5. CASE /\ disk' = [disk EXCEPT ![g] = v]
           /\ writer' = [writer EXCEPT ![g] = p]
           /\ temps' = [temps EXCEPT ![p] = @ \ {<<"stage", g>>}]
           /\ frame' = [frame EXCEPT ![p] = u]
           /\ WritesTo(p, g)
  <2> DEFINE T == temps[p] \ {<<"stage", g>>}
  <2>1. temps' = [temps EXCEPT ![p] = T] /\ T \in TempFiles
    BY <1>5, FrameAt DEF TempFiles
  <2>2. [disk EXCEPT ![g] = v] \in Files
    <3>1. g = Manifest => v \in Entries
      BY <1>2, PlanType DEF Planned
    <3>2. g # Manifest => v \in Content
      BY <1>2, <1>3, PlanType DEF Planned, Operations
    <3>3. disk \in Files
      BY FrameAt
    <3>4. QED
      BY <1>4, <3>1, <3>2, <3>3, FilesExcept
  <2>3. /\ disk'[g] = v /\ writer'[g] = p
        /\ \A h \in File : h # g => disk'[h] = disk[h] /\ writer'[h] = writer[h]
    BY <1>4, <1>5, FrameAt, FilesType DEF Inv, TypeOK
  <2> HIDE DEF g, v
  <2>4. /\ u \in Frame /\ u.version = f.version /\ u.read = f.read
        /\ u.digest = f.digest /\ u.committed = f.committed \cup {g}
        /\ u.failed = f.failed /\ u.broken = f.broken
        /\ \/ u.pc = "cleanup" /\ f.left = {g}
           \/ u.pc = "check" /\ u.left = f.left \ {g} /\ f.left # {g}
    <3>1. /\ done \in Frame /\ done.version = f.version /\ done.read = f.read
          /\ done.digest = f.digest /\ done.committed = f.committed \cup {g}
          /\ done.failed = f.failed /\ done.broken = f.broken
      BY <1>2, <1>4 DEF Frame
    <3> HIDE DEF done
    <3>2. f.left \ {g} \in SUBSET File /\ {} \in SUBSET File
      BY <1>2 DEF Frame
    <3>3. CASE f.left = {g}
      <4>1. u = Goto(done, "cleanup", {})
        BY <3>3 DEF End
      <4>2. QED
        BY <3>1, <3>2, <3>3, <4>1, EndType DEF Phases
    <3>4. CASE f.left # {g}
      <4>1. u = Goto(done, "check", f.left \ {g})
        BY <3>4
      <4>2. QED
        BY <3>1, <3>2, <3>4, <4>1, EndType DEF Phases
    <3>5. QED
      BY <3>3, <3>4
  <2> HIDE DEF u, done
  <2>5. /\ Operations(p, u) = Operations(p, f) /\ Writes(p, u) = Writes(p, f)
        /\ CommitList(p, u) = CommitList(p, f) /\ Adopted(p, u) = Adopted(p, f)
        /\ \A h : Planned(p, u, h) = Planned(p, f, h)
    BY <2>4, SamePlan
  <2>6. LeftOK(p, u)
    <3>1. CASE u.pc = "cleanup"
      BY <3>1 DEF LeftOK, Phases, Undoing, Committing
    <3>2. CASE u.pc = "check" /\ u.left = f.left \ {g} /\ f.left # {g}
      <4>1. u.left # {} /\ g # Manifest
        BY <1>4, <3>2
      <4>2. QED
        BY <1>3, <2>4, <2>5, <3>2, <4>1
           DEF LeftOK, Phases, Undoing, Committing
    <3>3. QED
      BY <2>4, <3>1, <3>2
  <2>7. CommittedOK(u)
    BY <1>1, <1>2, <2>4 DEF FrameOK, CommittedOK, Planning, Applying, Undoing
  <2>8. BoundOK(u) /\ SeenOK(p, u, disk', unseen[p] \ {g})
    BY <1>1, <1>2, <2>4 DEF FrameOK, BoundOK, SeenOK, Applying
  <2>9. TempsOK(u, T)
    BY <1>2, <2>4 DEF FrameOK, TempsOK
  <2>10. WrittenOK(p, u, disk', writer')
    <3>1. ASSUME NEW h \in File, writer'[h] = p
          PROVE  h \in u.committed /\ disk'[h] = Planned(p, u, h)
      <4>1. CASE h = g
        BY <2>3, <2>4, <2>5, <4>1 DEF v
      <4>2. CASE h # g
        BY <1>2, <2>3, <2>4, <2>5, <3>1, <4>2 DEF FrameOK, WrittenOK
      <4>3. QED
        BY <4>1, <4>2
    <3>2. ASSUME writer'[Manifest] = p
          PROVE  /\ u.pc \in {"cleanup", "applied", "crashed"}
                 /\ ~u.failed /\ Writes(p, u) \subseteq u.committed
      <4>1. writer[Manifest] # p
        BY <1>1, <1>2 DEF FrameOK, WrittenOK
      <4>2. g = Manifest
        BY <2>3, <3>2, <4>1 DEF File
      <4>3. f.left = {g} /\ Manifest \notin Writes(p, f)
        BY <1>2, <1>4, <4>2, CommitListOK
      <4>4. ~f.failed
        BY <1>1, <1>2 DEF FrameOK, CommittedOK, Applying
      <4>5. QED
        BY <1>3, <2>4, <2>5, <4>3, <4>4
    <3>3. QED
      BY <3>1, <3>2 DEF WrittenOK
  <2>10a. HeldOK(p, u, disk', unseen[p] \ {g})
    <3>1. /\ f.committed \subseteq Operations(p, f)
          /\ \A x \in ReadList(f) : x \in unseen[p] \/ disk[x] = Held(p, f, x)
          /\ Operations(p, f) \subseteq f.committed \cup f.left
          /\ f.committed \cap f.left = {}
      BY <1>1, <1>2 DEF FrameOK, HeldOK, Succeeding, Applying, Committing
    <3>2. ReadList(u) = ReadList(f) /\ ReadList(f) \subseteq File
      BY <1>2, <2>4, SamePlan, PlanType
    <3>3. ASSUME NEW x \in ReadList(u), x \notin unseen[p] \ {g}
          PROVE  disk'[x] = Held(p, u, x)
      <4>1. CASE x = g
        BY <2>3, <2>4, <2>5, <4>1 DEF v, Held
      <4>2. CASE x # g
        BY <2>3, <2>4, <2>5, <3>1, <3>2, <3>3, <4>2 DEF Held
      <4>3. QED
        BY <4>1, <4>2
    <3>4. /\ u.committed \subseteq Operations(p, u)
          /\ Operations(p, f) \subseteq u.committed \cup (f.left \ {g})
          /\ u.committed \cap (f.left \ {g}) = {}
      BY <1>3, <2>4, <2>5, <3>1
    <3>5. QED
      BY <2>4, <2>5, <3>3, <3>4 DEF HeldOK, Succeeding, Applying, Committing
  <2>11. FrameOK(p, u, T, disk', writer', unseen[p] \ {g})
    BY <2>6, <2>7, <2>8, <2>9, <2>10, <2>10a DEF FrameOK
  <2> HIDE DEF T
  <2>12. /\ disk' = [disk EXCEPT ![g] = v] /\ writer' = [writer EXCEPT ![g] = p]
         /\ frame' = [frame EXCEPT ![p] = u] /\ WritesTo(p, g)
    BY <1>5
  <2>13. QED
    BY <1>1, <1>4, <2>1, <2>2, <2>4, <2>11, <2>12, WriteStep
<1>6. CASE /\ frame' = [frame EXCEPT ![p] = Undo(f)]
           /\ UNCHANGED <<disk, writer, temps, unseen>>
  <2>1. Undo(f) \in Frame /\ FrameOK(p, Undo(f), temps[p], disk, writer, unseen[p])
    BY <1>1, <1>2, UndoOK
  <2>2. temps' = [temps EXCEPT ![p] = temps[p]] /\ temps[p] \in TempFiles
    BY <1>6, SameTemps
  <2>3. /\ unseen' = [unseen EXCEPT ![p] = unseen[p]]
        /\ unseen[p] \in SUBSET File /\ overlap' \in BOOLEAN
    BY <1>1, <1>6 DEF Inv, TypeOK
  <2>4. QED
    BY <1>1, <1>6, <2>1, <2>2, <2>3, QuietStep
<1>7. QED
  BY <1>5, <1>6 DEF Rename, Move

LEMMA UndoneType ==
  ASSUME NEW f \in Frame, NEW g
  PROVE  LET u == Undone(f, g)
         IN  /\ u \in Frame /\ u.left = f.left
             /\ u.version = f.version /\ u.read = f.read /\ u.digest = f.digest
             /\ u.committed = f.committed \ {g}
             /\ u.failed = f.failed /\ u.broken = f.broken
             /\ u.pc = IF f.committed \ {g} = {} THEN "cleanup" ELSE "rollback"
<1>1. f.committed \ {g} \in SUBSET File
  BY DEF Frame
<1>2. QED
  BY <1>1 DEF Undone, Frame, Phases

\* A file whose content is no longer p's, or is somebody else's, is let go.
LEMMA UndoneOK ==
  ASSUME NEW p \in Process, NEW f \in Frame, NEW T, NEW D, NEW W, NEW U,
         NEW E, NEW X, NEW V, NEW g,
         FrameOK(p, f, T, D, W, U), f.pc \in Undoing,
         \A h \in File : X[h] = p => W[h] = p /\ h # g /\ E[h] = D[h]
  PROVE  Undone(f, g) \in Frame /\ FrameOK(p, Undone(f, g), T, E, X, V)
<1> DEFINE u == Undone(f, g)
<1>1. /\ u \in Frame /\ u.left = f.left
      /\ u.version = f.version /\ u.read = f.read /\ u.digest = f.digest
      /\ u.committed = f.committed \ {g}
      /\ u.failed = f.failed /\ u.broken = f.broken
      /\ u.pc = IF f.committed \ {g} = {} THEN "cleanup" ELSE "rollback"
  BY UndoneType
<1> HIDE DEF u
<1>2. LeftOK(p, u)
  BY <1>1 DEF LeftOK, Phases, Undoing, Committing
<1>3. CommittedOK(u)
  BY <1>1 DEF FrameOK, CommittedOK, Planning, Applying, Undoing
<1>4. BoundOK(u) /\ SeenOK(p, u, E, V)
  BY <1>1 DEF BoundOK, SeenOK, Applying
<1>5. TempsOK(u, T)
  BY <1>1 DEF FrameOK, TempsOK, Undoing
<1>6. WrittenOK(p, u, E, X)
  <2>1. \A h : Planned(p, u, h) = Planned(p, f, h)
    BY <1>1, SamePlan
  <2>2. /\ \A h \in File : W[h] = p => h \in f.committed /\ D[h] = Planned(p, f, h)
        /\ W[Manifest] # p /\ Manifest \in File
    BY DEF FrameOK, WrittenOK, Undoing, File
  <2>3. QED
    BY <1>1, <2>1, <2>2 DEF WrittenOK
<1>6a. HeldOK(p, u, E, V)
  BY <1>1 DEF FrameOK, CommittedOK, HeldOK, Succeeding, Applying, Committing, Undoing
<1>7. FrameOK(p, u, T, E, X, V)
  BY <1>2, <1>3, <1>4, <1>5, <1>6, <1>6a DEF FrameOK
<1>8. QED
  BY <1>1, <1>7 DEF u

LEMMA RollbackKeeps ==
  ASSUME Inv, NEW p \in Process, Rollback(p)
  PROVE  Inv'
<1> DEFINE f == frame[p]
           g == LastCommitted(f)
           u == [f EXCEPT !.pc = "restore"]
           U == unseen[p] \ {g}
<1>1. /\ f.pc = "rollback" /\ Sees(p, g)
      /\ UNCHANGED <<disk, package, temps, edits, writer, overlap>>
  BY DEF Rollback
<1>2. f \in Frame /\ FrameOK(p, f, temps[p], disk, writer, unseen[p])
  BY FrameAt
<1>3. temps' = [temps EXCEPT ![p] = temps[p]] /\ temps[p] \in TempFiles
  BY <1>1, SameTemps
<1>4. CASE disk[g] = Planned(p, f, g)
  <2>1. frame' = [frame EXCEPT ![p] = u]
    BY <1>4 DEF Rollback, Move
  <2>2. /\ u \in Frame /\ u.version = f.version /\ u.read = f.read
        /\ u.committed = f.committed /\ u.pc = "restore"
        /\ u.failed = f.failed /\ u.broken = f.broken
    BY <1>2 DEF Frame, Phases
  <2> HIDE DEF u
  <2>3. \A h : Planned(p, u, h) = Planned(p, f, h)
    BY <2>2, SamePlan
  <2>4. LastCommitted(u) = g
    BY <2>2 DEF LastCommitted
  <2>5. LeftOK(p, u) /\ BoundOK(u)
    BY <2>2 DEF LeftOK, BoundOK, Phases, Undoing, Committing, Applying
  <2>6. CommittedOK(u)
    BY <1>1, <1>2, <2>2 DEF FrameOK, CommittedOK, Planning, Applying, Undoing
  <2>7. SeenOK(p, u, disk, U)
    BY <1>4, <2>2, <2>3, <2>4 DEF SeenOK
  <2>8. TempsOK(u, temps[p])
    BY <1>1, <1>2, <2>2 DEF FrameOK, TempsOK, Undoing
  <2>9. WrittenOK(p, u, disk, writer)
    BY <1>1, <1>2, <2>2, <2>3 DEF FrameOK, WrittenOK, File
  <2>9a. HeldOK(p, u, disk, U)
    BY <2>2 DEF HeldOK, Succeeding, Applying, Committing
  <2>10. FrameOK(p, u, temps[p], disk, writer, U)
    BY <2>5, <2>6, <2>7, <2>8, <2>9, <2>9a DEF FrameOK
  <2>11. QED
    BY <1>1, <1>3, <2>1, <2>2, <2>10, SeeingStep
<1>5. CASE disk[g] # Planned(p, f, g)
  <2>1. frame' = [frame EXCEPT ![p] = Undone(f, g)]
    BY <1>5 DEF Rollback, Move
  <2>2. \A h \in File : writer[h] = p => h # g /\ disk[h] = disk[h]
    BY <1>2, <1>5 DEF FrameOK, WrittenOK
  <2>3. f.pc \in Undoing
    BY <1>1 DEF Undoing
  <2> HIDE DEF g
  <2>4. /\ Undone(f, g) \in Frame
        /\ FrameOK(p, Undone(f, g), temps[p], disk, writer, U)
    BY <1>2, <2>2, <2>3, UndoneOK
  <2>5. QED
    BY <1>1, <1>3, <2>1, <2>4, SeeingStep
<1>6. QED
  BY <1>4, <1>5

LEMMA RestoreKeeps ==
  ASSUME Inv, NEW p \in Process, Restore(p)
  PROVE  Inv'
<1> DEFINE f == frame[p]
           g == LastCommitted(f)
           v == f.read[g]
<1>1. f.pc = "restore" /\ UNCHANGED <<package, edits, overlap>>
  BY DEF Restore
<1>2. f \in Frame /\ FrameOK(p, f, temps[p], disk, writer, unseen[p])
  BY FrameAt
<1>3. g \in File
  BY <1>1, <1>2, LastIn DEF FrameOK, CommittedOK, Undoing, LastCommitted, Frame
<1>4. CASE /\ disk' = [disk EXCEPT ![g] = v]
           /\ writer' = [writer EXCEPT ![g] = NoEntry]
           /\ frame' = [frame EXCEPT ![p] = Undone(f, g)]
           /\ WritesTo(p, g) /\ UNCHANGED temps
  <2>1. temps' = [temps EXCEPT ![p] = temps[p]] /\ temps[p] \in TempFiles
    BY <1>4, SameTemps
  <2>2. disk \in Files /\ f.read \in Files
    BY <1>2, FrameAt DEF Frame
  <2>3. /\ g = Manifest => v \in Entries \cup {Absent}
        /\ g # Manifest => v \in Content \cup {Absent}
    BY <1>3, <2>2, FilesType DEF File
  <2>4. writer'[g] # p /\ \A h \in File : h # g => disk'[h] = disk[h]
                                          /\ writer'[h] = writer[h]
    BY <1>3, <1>4, <2>2, FilesType, Constants DEF Inv, TypeOK
  <2>5. f.pc \in Undoing
    BY <1>1 DEF Undoing
  <2> HIDE DEF g, v
  <2>6. [disk EXCEPT ![g] = v] \in Files
    BY <1>3, <2>2, <2>3, FilesExcept
  <2>7. \A h \in File : writer'[h] = p => writer[h] = p /\ h # g /\ disk'[h] = disk[h]
    BY <2>4
  <2>8. /\ Undone(f, g) \in Frame
        /\ FrameOK(p, Undone(f, g), temps[p], disk', writer', unseen[p] \ {g})
    BY <1>2, <2>5, <2>7, UndoneOK
  <2>9. QED
    BY <1>1, <1>3, <1>4, <2>1, <2>6, <2>8, WriteStep
<1>5. CASE /\ temps' \in {temps, [temps EXCEPT ![p] = @ \cup {<<"undo", g>>}]}
           /\ frame' = [frame EXCEPT ![p] = [End(f, "cleanup") EXCEPT !.broken = TRUE]]
           /\ UNCHANGED <<disk, writer, unseen>>
  <2> DEFINE u == [End(f, "cleanup") EXCEPT !.broken = TRUE]
  <2>1. PICK T \in TempFiles : temps' = [temps EXCEPT ![p] = T]
    <3>1. temps = [temps EXCEPT ![p] = temps[p]] /\ temps[p] \in TempFiles
      BY DEF Inv, TypeOK, TempFiles
    <3>2. temps[p] \cup {<<"undo", g>>} \in TempFiles
      BY <1>3, <3>1 DEF TempFiles
    <3>3. QED
      BY <1>5, <3>1, <3>2
  <2>2. /\ u \in Frame /\ u.version = f.version /\ u.read = f.read
        /\ u.committed = f.committed /\ u.pc = "cleanup"
        /\ u.failed = f.failed /\ u.broken = TRUE
    BY <1>2 DEF End, Goto, Frame, Phases
  <2>3. frame' = [frame EXCEPT ![p] = u]
    BY <1>5
  <2> HIDE DEF u
  <2>4. \A h : Planned(p, u, h) = Planned(p, f, h)
    BY <2>2, SamePlan
  <2>5. LeftOK(p, u) /\ BoundOK(u) /\ SeenOK(p, u, disk, unseen[p])
    BY <2>2 DEF LeftOK, BoundOK, SeenOK, Phases, Undoing, Committing, Applying
  <2>6. CommittedOK(u)
    BY <1>1, <1>2, <2>2 DEF FrameOK, CommittedOK, Planning, Applying, Undoing
  <2>7. TempsOK(u, T)
    BY <2>2 DEF TempsOK
  <2>8. WrittenOK(p, u, disk, writer)
    BY <1>1, <1>2, <2>2, <2>4 DEF FrameOK, WrittenOK, File
  <2>8a. HeldOK(p, u, disk, unseen[p])
    BY <1>1, <1>2, <2>2
       DEF FrameOK, CommittedOK, HeldOK, Succeeding, Applying, Committing, Undoing
  <2>9. FrameOK(p, u, T, disk, writer, unseen[p])
    BY <2>5, <2>6, <2>7, <2>8, <2>8a DEF FrameOK
  <2>10. /\ unseen' = [unseen EXCEPT ![p] = unseen[p]]
         /\ unseen[p] \in SUBSET File /\ overlap' \in BOOLEAN
    BY <1>1, <1>5 DEF Inv, TypeOK
  <2>11. QED
    BY <1>1, <1>5, <2>1, <2>2, <2>3, <2>9, <2>10, QuietStep
<1>6. QED
  BY <1>4, <1>5 DEF Restore, Move

\* A step of p that ends it, one way or the other.
LEMMA CleanupKeeps ==
  ASSUME Inv, NEW p \in Process, Cleanup(p)
  PROVE  Inv'
<1> DEFINE f == frame[p]
           l == IF f.failed THEN "failed" ELSE "applied"
           u == End(f, l)
           T == {t \in temps[p] : t[1] = "undo"}
<1>1. /\ f.pc = "cleanup" /\ frame' = [frame EXCEPT ![p] = u]
      /\ temps' = [temps EXCEPT ![p] = T]
      /\ UNCHANGED <<disk, package, edits, writer, unseen, overlap>>
  BY DEF Cleanup, Move
<1>2. f \in Frame /\ FrameOK(p, f, temps[p], disk, writer, unseen[p])
  BY FrameAt
<1>3. /\ u \in Frame /\ u.version = f.version /\ u.read = f.read
      /\ u.committed = f.committed /\ u.pc = l
      /\ u.failed = f.failed /\ u.broken = f.broken
  BY <1>2 DEF End, Goto, Frame, Settled
<1>4. T \in TempFiles /\ (f.broken \/ T = {})
  BY <1>2, FrameAt DEF FrameOK, TempsOK, TempFiles
<1> HIDE DEF u, T
<1>5. LeftOK(p, u) /\ BoundOK(u) /\ SeenOK(p, u, disk, unseen[p])
  BY <1>3 DEF LeftOK, BoundOK, SeenOK, Phases, Undoing, Committing, Applying
<1>6. CommittedOK(u)
  BY <1>1, <1>2, <1>3 DEF FrameOK, CommittedOK, Planning, Applying, Undoing
<1>7. TempsOK(u, T)
  BY <1>3, <1>4 DEF TempsOK
<1>8. WrittenOK(p, u, disk, writer)
  <2>1. /\ \A h : Planned(p, u, h) = Planned(p, f, h)
        /\ Writes(p, u) = Writes(p, f)
    BY <1>3, SamePlan
  <2>2. QED
    BY <1>2, <1>3, <2>1 DEF FrameOK, WrittenOK
<1>8a. HeldOK(p, u, disk, unseen[p])
  <2>1. /\ \A x : Held(p, u, x) = Held(p, f, x)
        /\ ReadList(u) = ReadList(f) /\ Operations(p, u) = Operations(p, f)
    BY <1>3, SamePlan, SameHeld
  <2>2. QED
    BY <1>1, <1>2, <1>3, <2>1
       DEF FrameOK, HeldOK, Succeeding, Applying, Committing
<1>9. FrameOK(p, u, T, disk, writer, unseen[p])
  BY <1>5, <1>6, <1>7, <1>8, <1>8a DEF FrameOK
<1>10. /\ unseen' = [unseen EXCEPT ![p] = unseen[p]]
       /\ unseen[p] \in SUBSET File /\ overlap' \in BOOLEAN
  BY <1>1 DEF Inv, TypeOK
<1>11. QED
  BY <1>1, <1>3, <1>4, <1>9, <1>10, QuietStep

LEMMA CrashKeeps ==
  ASSUME Inv, NEW p \in Process, Crash(p)
  PROVE  Inv'
<1> DEFINE f == frame[p]
           u == [f EXCEPT !.pc = "crashed"]
<1>1. /\ f.pc \in Phases /\ frame' = [frame EXCEPT ![p] = u]
      /\ UNCHANGED <<disk, package, temps, edits, writer, unseen, overlap>>
  BY DEF Crash, Move, Active
<1>2. f \in Frame /\ FrameOK(p, f, temps[p], disk, writer, unseen[p])
  BY FrameAt
<1>3. /\ u \in Frame /\ u.version = f.version /\ u.read = f.read
      /\ u.committed = f.committed /\ u.pc = "crashed"
      /\ u.failed = f.failed /\ u.broken = f.broken
  BY <1>2 DEF Frame, Settled
<1> HIDE DEF u
<1>4. LeftOK(p, u) /\ BoundOK(u) /\ SeenOK(p, u, disk, unseen[p])
  BY <1>3 DEF LeftOK, BoundOK, SeenOK, Phases, Undoing, Committing, Applying
<1>5. CommittedOK(u)
  BY <1>2, <1>3 DEF FrameOK, CommittedOK, Planning, Applying, Undoing
<1>6. TempsOK(u, temps[p])
  BY <1>2, <1>3 DEF FrameOK, TempsOK
<1>7. WrittenOK(p, u, disk, writer)
  <2>1. /\ \A h : Planned(p, u, h) = Planned(p, f, h)
        /\ Writes(p, u) = Writes(p, f)
    BY <1>3, SamePlan
  <2>2. QED
    BY <1>2, <1>3, <2>1 DEF FrameOK, WrittenOK
<1>7a. HeldOK(p, u, disk, unseen[p])
  BY <1>3 DEF HeldOK, Succeeding, Applying, Committing
<1>8. FrameOK(p, u, temps[p], disk, writer, unseen[p])
  BY <1>4, <1>5, <1>6, <1>7, <1>7a DEF FrameOK
<1>9. /\ unseen' = [unseen EXCEPT ![p] = unseen[p]]
      /\ unseen[p] \in SUBSET File /\ overlap' \in BOOLEAN
  BY <1>1 DEF Inv, TypeOK
<1>10. temps' = [temps EXCEPT ![p] = temps[p]] /\ temps[p] \in TempFiles
  BY <1>1, SameTemps
<1>11. QED
  BY <1>1, <1>3, <1>8, <1>9, <1>10, QuietStep

LEMMA EditKeeps ==
  ASSUME Inv, NEW a \in Asset, Edit(a)
  PROVE  Inv'
<1>1. PICK c \in Edits \ {disk[a]} : disk' = [disk EXCEPT ![a] = c]
  BY DEF Edit
<1>2. /\ edits < MaxEdits /\ edits' = edits + 1
      /\ writer' = [writer EXCEPT ![a] = User]
      /\ unseen' = [q \in Process |-> unseen[q] \cup {a}]
      /\ UNCHANGED <<package, frame, temps, overlap>>
  BY DEF Edit
<1>3. a \in File /\ a # Manifest /\ c \in Content \cup {Absent}
  BY Constants DEF File
<1>4. disk \in Files /\ writer \in [File -> Process \cup {User, NoEntry}]
  BY DEF Inv, TypeOK
<1>5. [disk EXCEPT ![a] = c] \in Files
  BY <1>3, <1>4, FilesExcept
<1>6. edits' \in 0 .. MaxEdits
  BY <1>2, Constants DEF Inv, TypeOK
<1>7. unseen' \in [Process -> SUBSET File]
  BY <1>2, <1>3 DEF Inv, TypeOK
<1>8. TypeOK'
  BY <1>1, <1>2, <1>5, <1>6, <1>7 DEF Inv, TypeOK
<1>9. ASSUME NEW q \in Process
      PROVE  FrameOK(q, frame'[q], temps'[q], disk', writer', unseen'[q])
  <2>1. User # q /\ User \in Process \cup {User, NoEntry}
    BY Constants
  <2>2. /\ frame[q] \in Frame
        /\ FrameOK(q, frame[q], temps[q], disk, writer, unseen[q])
    BY FrameAt
  <2>3. FrameOK(q, frame[q], temps[q], [disk EXCEPT ![a] = c],
                [writer EXCEPT ![a] = User], unseen[q] \cup {a})
    BY <1>3, <1>4, <2>1, <2>2, OthersWrite
  <2>4. QED
    BY <1>1, <1>2, <2>3
<1>10. QED
  BY <1>8, <1>9 DEF Inv, FramesOK

LEMMA InstallKeeps ==
  ASSUME Inv, Install
  PROVE  Inv'
BY DEF Inv, TypeOK, FramesOK, Install

LEMMA InitInv == Init => Inv
<1> SUFFICES ASSUME Init PROVE Inv
  OBVIOUS
<1> DEFINE none == [g \in File |-> Absent]
<1>1. none \in Files
  BY DEF Files, File, Value
<1>2. TypeOK
  <2> DEFINE idle == [pc |-> "idle", left |-> {}, version |-> 1, read |-> none,
                      digest |-> [version |-> 1, read |-> none],
                      committed |-> {}, failed |-> FALSE, broken |-> FALSE]
  <2>1. idle \in Frame
    BY <1>1, Constants DEF Frame
  <2>2. frame = [p \in Process |-> idle]
    BY DEF Init
  <2> HIDE DEF idle
  <2>3. frame \in [Process -> Frame]
    BY <2>1, <2>2
  <2>4. disk \in Files /\ package \in Version /\ edits \in 0 .. MaxEdits
    BY Constants DEF Init
  <2>5. /\ temps \in [Process -> SUBSET ({"stage", "undo"} \X File)]
        /\ writer \in [File -> Process \cup {User, NoEntry}]
        /\ unseen \in [Process -> SUBSET File] /\ overlap \in BOOLEAN
    BY DEF Init
  <2>6. QED
    BY <2>3, <2>4, <2>5 DEF TypeOK
<1>3. ASSUME NEW p \in Process
      PROVE  FrameOK(p, frame[p], temps[p], disk, writer, unseen[p])
  <2>1. /\ frame[p].pc = "idle" /\ frame[p].committed = {}
        /\ frame[p].failed = FALSE /\ frame[p].broken = FALSE
        /\ temps[p] = {} /\ \A g \in File : writer[g] # p
    BY Constants DEF Init
  <2>2. Manifest \in File
    BY DEF File
  <2>3. QED
    BY <2>1, <2>2
       DEF FrameOK, LeftOK, CommittedOK, BoundOK, TempsOK, WrittenOK, SeenOK,
           HeldOK, Succeeding, Phases, Planning, Applying, Committing, Undoing
<1>4. QED
  BY <1>2, <1>3 DEF Inv, FramesOK

LEMMA NextInv == Inv /\ [Next]_vars => Inv'
<1> SUFFICES ASSUME Inv, [Next]_vars PROVE Inv'
  OBVIOUS
<1>1. ASSUME NEW p \in Process, Start(p) \/ Step(p) \/ Crash(p) PROVE Inv'
  BY <1>1, StartKeeps, ReadKeeps, VerifyKeeps, StageKeeps, CheckKeeps,
     RenameKeeps, RollbackKeeps, RestoreKeeps, CleanupKeeps, CrashKeeps DEF Step
<1>2. ASSUME UNCHANGED vars PROVE Inv'
  BY <1>2 DEF vars, Inv, TypeOK, FramesOK
<1>3. QED
  BY <1>1, <1>2, EditKeeps, InstallKeeps DEF Next

\* The invariant of `ark upgrade`: whoever reads, edits, fails or dies in
\* whatever order, every run's frame stays sound.
THEOREM UpgradeInductive == Spec => []Inv
BY InitInv, NextInv, PTL DEF Spec

-----------------------------------------------------------------------------
(* What it says of the files.                                              *)

\* All or nothing, for every project, package and number of runs: an apply that
\* failed has left nothing behind and one that succeeded has put its whole plan
\* in place, neither with a temporary file; and, crashes included, a manifest a
\* run wrote vouches for files it has replaced, with the content it planned.
THEOREM CommitIsAtomicAlways == Spec => []CommitIsAtomic
<1>1. ASSUME Inv PROVE CommitIsAtomic
  <2>1. TypeOK
    BY <1>1 DEF Inv
  <2>2. ASSUME NEW p \in Process, frame[p].pc = "failed", ~frame[p].broken,
               NEW g \in File
        PROVE  writer[g] # p
    BY <1>1, <2>2, FrameAt DEF FrameOK, CommittedOK, WrittenOK
  <2>3. ASSUME NEW p \in Process, writer[Manifest] = p
        PROVE  /\ Writes(p, frame[p]) \subseteq frame[p].committed
               /\ frame[p].pc \in {"cleanup", "applied", "crashed"}
    BY <1>1, <2>3, FrameAt DEF FrameOK, WrittenOK
  <2>4. ASSUME NEW p \in Process,
               frame[p].pc \in {"blocked", "refused", "applied", "failed"}
        PROVE  temps[p] = {} \/ frame[p].broken
    BY <1>1, <2>4, FrameAt DEF FrameOK, TempsOK, Undoing
  <2>5. ASSUME NEW p \in Process, frame[p].pc = "applied"
        PROVE  Operations(p, frame[p]) \subseteq frame[p].committed
    BY <1>1, <2>5, FrameAt DEF FrameOK, HeldOK, Succeeding, Applying
  <2>6. ASSUME NEW p \in Process, NEW g \in File, writer[g] = p
        PROVE  disk[g] = Planned(p, frame[p], g)
    BY <1>1, <2>6, FrameAt DEF FrameOK, WrittenOK
  <2>7. QED
    BY <2>1, <2>2, <2>3, <2>4, <2>5, <2>6
       DEF CommitIsAtomic, FailedLeavesNothing, AppliedIsWhole, ManifestIsCommitPoint,
           TemporariesAreRemoved, WritesArePlanned
<1>2. QED
  BY <1>1, UpgradeInductive, PTL

\* Nobody moves a run but its own steps.
LEMMA OwnFrame ==
  ASSUME Inv, NEW p \in Process, [Next]_vars, frame'[p] # frame[p]
  PROVE  Start(p) \/ Step(p) \/ Crash(p)
<1>1. ASSUME NEW q \in Process, q # p, Start(q) \/ Step(q) \/ Crash(q) PROVE FALSE
  <2>1. \E u : frame' = [frame EXCEPT ![q] = u]
    BY <1>1 DEF Start, Step, Crash, Read, Verify, Stage, Check, Rename, Rollback,
                Restore, Cleanup, Move
  <2>2. QED
    BY <1>1, <2>1 DEF Inv, TypeOK
<1>2. QED
  BY <1>1 DEF Next, Edit, Install, vars

\* Only a rename commits a file, and only the next one.
LEMMA CommitsNext ==
  ASSUME Inv, NEW p \in Process, NEW g \in File, [Next]_vars, Commits(p, g)
  PROVE  g = NextFile(p, frame[p]) /\ frame[p].pc = "rename"
<1> DEFINE f == frame[p]
<1>1. /\ f.pc = "rename" /\ frame'[p] # f /\ f \in Frame
      /\ g \in frame'[p].committed \ f.committed
  BY FrameAt DEF Commits
<1>2. Start(p) \/ Step(p) \/ Crash(p)
  BY <1>1, OwnFrame
<1>3. ASSUME Crash(p) PROVE FALSE
  BY <1>1, <1>3 DEF Crash, Move, Inv, TypeOK, Frame
<1>4. Rename(p)
  BY <1>1, <1>2, <1>3 DEF Start, Step, Read, Verify, Stage, Check, Rollback,
                          Restore, Cleanup
<1> DEFINE done == [f EXCEPT !.committed = @ \cup {NextFile(p, f)}]
<1>5. \/ frame'[p] = Undo(f)
      \/ frame'[p] = End(done, "cleanup")
      \/ frame'[p] = Goto(done, "check", f.left \ {NextFile(p, f)})
  BY <1>4 DEF Rename, Move, Inv, TypeOK
<1>6. CASE frame'[p] = Undo(f)
  BY <1>1, <1>6, UndoType
<1>7. CASE frame'[p] # Undo(f)
  <2>1. \A l, list : Goto(done, l, list).committed = f.committed \cup {NextFile(p, f)}
    BY <1>1 DEF Frame, Goto
  <2>2. frame'[p].committed = f.committed \cup {NextFile(p, f)}
    BY <1>5, <1>7, <2>1 DEF End
  <2>3. QED
    BY <1>1, <2>2
<1>8. QED
  BY <1>6, <1>7

\* Only a restoring rename undoes a commit.
LEMMA UndoesLast ==
  ASSUME Inv, NEW p \in Process, NEW g \in File, [Next]_vars, Undoes(p, g)
  PROVE  g = LastCommitted(frame[p]) /\ frame[p].pc = "restore"
<1> DEFINE f == frame[p]
<1>1. /\ f.pc = "restore" /\ frame'[p] # f /\ f \in Frame
      /\ g \in f.committed \ frame'[p].committed
      /\ ~frame'[p].broken
  BY FrameAt DEF Undoes
<1>2. Start(p) \/ Step(p) \/ Crash(p)
  BY <1>1, OwnFrame
<1>3. ASSUME Crash(p) PROVE FALSE
  BY <1>1, <1>3 DEF Crash, Move, Inv, TypeOK, Frame
<1>4. Restore(p)
  BY <1>1, <1>2, <1>3 DEF Start, Step, Read, Verify, Stage, Check, Rename,
                          Rollback, Cleanup
<1>5. \/ frame'[p] = Undone(f, LastCommitted(f))
      \/ frame'[p] = [End(f, "cleanup") EXCEPT !.broken = TRUE]
  BY <1>4 DEF Restore, Move, Inv, TypeOK
<1>6. CASE frame'[p] = Undone(f, LastCommitted(f))
  <2>1. frame'[p].committed = f.committed \ {LastCommitted(f)}
    BY <1>1, <1>6, UndoneType
  <2>2. QED
    BY <1>1, <2>1
<1>7. CASE frame'[p] = [End(f, "cleanup") EXCEPT !.broken = TRUE]
  BY <1>1, <1>7 DEF End, Goto, Frame
<1>8. QED
  BY <1>5, <1>6, <1>7

\* Without consent, only what the package shipped is planned to be replaced.
LEMMA WritesShipped ==
  ASSUME Inv, NEW p \in Process, p \notin Accept, NEW a \in Asset,
         a \in Writes(p, frame[p]), disk[a] = frame[p].read[a]
  PROVE  Shipped(p, a)
<1> DEFINE f == frame[p]
<1>1. WillApply(p, f, a)
  BY DEF Writes
<1>2. CASE State(f, a) = "missing"
  BY <1>1, <1>2 DEF WillApply, State, Shipped
<1>3. CASE State(f, a) = "current"
  BY <1>3 DEF State, Shipped
<1>4. CASE State(f, a) = "stale"
  BY <1>4 DEF State, Shipped
<1>5. QED
  BY <1>1, <1>2, <1>3, <1>4 DEF WillApply

\* What a user wrote or deleted is replaced only as the preview showed it, and
\* without consent only if it is what the package shipped; a rollback takes back
\* what the run itself wrote: whoever else edits, upgrades or dies meanwhile.
THEOREM EditsAreKeptAlways == Spec => EditsAreKept
<1>1. ASSUME Inv, [Next]_vars, NEW p \in Process, NEW g \in File, g \notin unseen[p]
      PROVE  /\ Commits(p, g) => AsPreviewed(p, g)
             /\ Commits(p, g) /\ g \in Asset /\ p \notin Accept /\ writer[g] = User
                  => Shipped(p, g)
             /\ Undoes(p, g) => disk[g] = Planned(p, frame[p], g)
  <2> DEFINE f == frame[p]
  <2>1. f \in Frame /\ FrameOK(p, f, temps[p], disk, writer, unseen[p])
    BY <1>1, FrameAt
  <2>2. ASSUME Commits(p, g)
        PROVE  /\ disk[g] = f.read[g] /\ f.read = f.digest.read
               /\ g \in Operations(p, f)
    <3>1. g = NextFile(p, f) /\ f.pc = "rename"
      BY <1>1, <2>2, CommitsNext
    <3>2. QED
      BY <1>1, <2>1, <3>1 DEF FrameOK, SeenOK, BoundOK, LeftOK, Applying
  <2>3. ASSUME Commits(p, g), g \in Asset, p \notin Accept PROVE Shipped(p, g)
    <3>1. g \in Writes(p, f)
      BY <2>2, <2>3, Constants DEF Operations
    <3>2. QED
      BY <1>1, <2>2, <2>3, <3>1, WritesShipped
  <2>4. ASSUME Undoes(p, g) PROVE disk[g] = Planned(p, f, g)
    <3>1. g = LastCommitted(f) /\ f.pc = "restore"
      BY <1>1, <2>4, UndoesLast
    <3>2. QED
      BY <1>1, <2>1, <3>1 DEF FrameOK, SeenOK
  <2>5. QED
    BY <2>2, <2>3, <2>4 DEF AsPreviewed
<1>2. ASSUME Inv, [Next]_vars
      PROVE  [\A p \in Process, g \in File : g \notin unseen[p] =>
                /\ Commits(p, g) => AsPreviewed(p, g)
                /\ Commits(p, g) /\ g \in Asset /\ p \notin Accept /\ writer[g] = User
                     => Shipped(p, g)
                /\ Undoes(p, g) => disk[g] = Planned(p, frame[p], g)]_vars
  BY <1>1, <1>2
<1>3. QED
  BY <1>2, UpgradeInductive, PTL DEF Spec, EditsAreKept
-----------------------------------------------------------------------------
(* An apply leaves nothing to do.                                          *)

\* What the next upgrade reads once p has applied its plan: the manifest p
\* meant to write, and every asset as p wrote or left it.
LEMMA AfterApply ==
  ASSUME Inv, NEW p \in Process, frame[p].pc = "applied", unseen[p] = {},
         package = frame[p].version
  PROVE  LET f == frame[p]
             n == Now(p)
         IN  /\ n.version = f.version
             /\ n.read[Manifest] = NextManifest(p, f)
             /\ \A a \in Catalog(f) :
                  n.read[a] = IF a \in Writes(p, f) THEN Target(f, a) ELSE f.read[a]
<1> DEFINE f == frame[p]
           n == Now(p)
<1>1. f \in Frame /\ FrameOK(p, f, temps[p], disk, writer, unseen[p])
  BY FrameAt
<1>2. /\ f.committed = Operations(p, f)
      /\ \A g \in ReadList(f) : disk[g] = Held(p, f, g)
  BY <1>1 DEF FrameOK, HeldOK, Succeeding, Applying
<1>3. /\ n.version = f.version
      /\ n.read[Manifest] = disk[Manifest]
      /\ \A a \in Catalog(f) : n.read[a] = disk[a]
  <2>1. n = [f EXCEPT !.version = f.version, !.read =
               [g \in File |-> IF g = Manifest \/ g \in Catalog(f)
                                 THEN disk[g] ELSE Absent]]
    BY DEF Now, Catalog
  <2>2. Manifest \in File /\ Catalog(f) \subseteq File
    BY <1>1, PlanType DEF File
  <2>3. QED
    BY <1>1, <2>1, <2>2 DEF Frame
<1>4. Manifest \in ReadList(f) /\ Catalog(f) \subseteq ReadList(f)
  BY DEF ReadList
<1>5. disk[Manifest] = NextManifest(p, f)
  <2>1. Manifest \notin Writes(p, f)
    BY <1>1, CommitListOK
  <2>2. QED
    BY <1>2, <1>4, <2>1 DEF Held, Operations, Planned, ManifestChanged
<1>6. ASSUME NEW a \in Catalog(f)
      PROVE  disk[a] = IF a \in Writes(p, f) THEN Target(f, a) ELSE f.read[a]
  <2>1. a # Manifest
    BY <1>1, PlanType, Constants
  <2>2. QED
    BY <1>2, <1>4, <2>1 DEF Held, Operations, Planned
<1>7. QED
  BY <1>3, <1>5, <1>6

\* Once an apply succeeded, and while nobody else touches its files or the
\* package, another upgrade finds nothing to write: whatever the project held,
\* whoever consented, and however the runs before it ended.
THEOREM ApplyIsIdempotentAlways == Spec => []ApplyIsIdempotent
<1>1. ASSUME Inv, NEW p \in Process, frame[p].pc = "applied", unseen[p] = {},
             package = frame[p].version
      PROVE  Writes(p, Now(p)) = {} /\ ~ManifestChanged(p, Now(p))
  <2> DEFINE f == frame[p]
             n == Now(p)
             M == NextManifest(p, f)
  <2>1. /\ n.version = f.version /\ n.read[Manifest] = M
        /\ \A a \in Catalog(f) :
             n.read[a] = IF a \in Writes(p, f) THEN Target(f, a) ELSE f.read[a]
    BY <1>1, AfterApply
  <2>2. f \in Frame
    BY <1>1, FrameAt
  <2>3. M \in Entries /\ M # Absent
    BY <2>2, PlanType, Constants
  <2> HIDE DEF n
  <2>4. /\ Catalog(n) = Catalog(f) /\ Catalog(f) \subseteq Asset
        /\ \A a : Target(n, a) = Target(f, a) /\ Recorded(n, a) = M[a]
    BY <2>1, <2>2, <2>3, PlanType DEF Catalog, Target, Recorded, EntryOf
  <2>5. ASSUME NEW a \in Catalog(f)
        PROVE  ~WillApply(p, n, a) /\ NextManifest(p, n)[a] = M[a]
    <3>1. a \in Asset /\ Target(f, a) # Absent
      BY <2>2, <2>4, TemplateType, Constants DEF Frame, Catalog, Target
    <3>2. CASE WillApply(p, f, a)
      <4>1. n.read[a] = Target(f, a) /\ M[a] = Target(f, a)
        BY <2>1, <3>1, <3>2 DEF Writes, NextManifest
      <4>2. State(n, a) = "current"
        BY <2>4, <3>1, <4>1 DEF State
      <4>3. ~WillApply(p, n, a)
        BY <2>4, <4>1, <4>2 DEF WillApply
      <4>4. QED
        BY <2>4, <3>1, <4>1, <4>2, <4>3 DEF NextManifest
    <3>3. CASE ~WillApply(p, f, a) /\ State(f, a) = "current"
      <4>1. n.read[a] = f.read[a] /\ M[a] = f.read[a]
        BY <2>1, <3>1, <3>3 DEF Writes, NextManifest
      <4>2. State(n, a) = "current"
        BY <2>4, <3>3, <4>1 DEF State
      <4>3. ~WillApply(p, n, a)
        BY <2>4, <3>3, <4>1, <4>2 DEF WillApply
      <4>4. QED
        BY <2>4, <3>1, <4>1, <4>2, <4>3 DEF NextManifest
    <3>4. CASE ~WillApply(p, f, a) /\ State(f, a) # "current"
      <4>1. n.read[a] = f.read[a] /\ M[a] = Recorded(f, a)
        BY <2>1, <3>1, <3>4 DEF Writes, NextManifest
      <4>2. State(n, a) = State(f, a)
        BY <2>4, <4>1 DEF State
      <4>3. ~WillApply(p, n, a)
        BY <2>4, <3>4, <4>1, <4>2 DEF WillApply
      <4>4. QED
        BY <2>4, <3>1, <3>4, <4>1, <4>2, <4>3 DEF NextManifest
    <3>5. QED
      BY <3>2, <3>3, <3>4
  <2>6. ASSUME NEW a \in Asset, a \notin Catalog(f)
        PROVE  NextManifest(p, n)[a] = M[a]
    BY <2>4, <2>6 DEF NextManifest
  <2>7. NextManifest(p, n) = M
    <3>1. NextManifest(p, n) = [a \in Asset |-> NextManifest(p, n)[a]]
      BY DEF NextManifest
    <3>2. M = [a \in Asset |-> M[a]]
      BY DEF NextManifest
    <3>3. \A a \in Asset : NextManifest(p, n)[a] = M[a]
      BY <2>5, <2>6
    <3> HIDE DEF M
    <3>4. QED
      BY <3>1, <3>2, <3>3
  <2>8. Writes(p, n) = {} /\ ~ManifestChanged(p, n)
    BY <2>1, <2>4, <2>5, <2>7 DEF Writes, ManifestChanged
  <2>9. QED
    BY <2>8 DEF n
<1>2. ASSUME Inv PROVE ApplyIsIdempotent
  BY <1>1, <1>2 DEF ApplyIsIdempotent
<1>3. QED
  BY <1>2, UpgradeInductive, PTL
-----------------------------------------------------------------------------
(* The next upgrade has nothing to ask: the invariant.                     *)

\* Nobody has edited a file so far, and no two upgrades were under way at once.
Undisturbed == UneditedProject /\ edits = 0 /\ ~overlap

\* While p is under way, the project is what p has read, or replaced.
Holding(p, f, D) ==
  /\ f.pc \in {"preview", "plan"} => \A g \in ReadList(f) \ f.left : D[g] = f.read[g]
  /\ f.pc \in Applying \cup Undoing => /\ \A g \in ReadList(f) : D[g] = Held(p, f, g)
                                       /\ f.committed \subseteq Catalog(f)

\* Content c of asset a, recorded as r, is the recorded one up to a version
\* stamp, or one of the processes Q, whose frames are F, has committed it.
Explained(F, Q, a, r, c) ==
  r # NoEntry =>
    /\ c # Absent
    /\ \/ Identity[c] = Identity[r]
       \/ \E q \in Q : /\ a \in F[q].committed
                       /\ Identity[c] = Identity[Target(F[q], a)]

Unedited(F, D) ==
  \A a \in Asset : Explained(F, Process, a, EntryOf(D[Manifest], a), D[a])

\* What p would restore is explained without p.
Restorable(F, p) ==
  F[p].pc \in Applying \cup Undoing =>
    \A a \in Catalog(F[p]) :
      Explained(F, Process \ {p}, a, EntryOf(F[p].read[Manifest], a), F[p].read[a])

\* One upgrade at a time, in a project nobody else writes to.
Continues(F, D) ==
  /\ \A p, q \in Process : F[p].pc \in Phases /\ F[q].pc \in Phases => p = q
  /\ Unedited(F, D)
  /\ \A p \in Process : Holding(p, F[p], D) /\ Restorable(F, p)

Continuing == Undisturbed => Continues(frame, disk)

\* What is explained stays so while p commits more, or has committed nothing.
LEMMA StillExplained ==
  ASSUME NEW F \in [Process -> Frame], NEW p \in Process, NEW u \in Frame,
         NEW Q \in SUBSET Process, NEW a, NEW r, NEW c,
         Explained(F, Q, a, r, c),
         p \in Q /\ a \in F[p].committed =>
           a \in u.committed /\ u.version = F[p].version
  PROVE  Explained([F EXCEPT ![p] = u], Q, a, r, c)
<1> DEFINE G == [F EXCEPT ![p] = u]
<1>1. ASSUME NEW q \in Q, a \in F[q].committed,
             Identity[c] = Identity[Target(F[q], a)]
      PROVE  /\ a \in G[q].committed
             /\ Identity[c] = Identity[Target(G[q], a)]
  <2>1. CASE q = p
    <3>1. G[q] = u /\ u.version = F[q].version /\ a \in u.committed
      BY <1>1, <2>1
    <3>2. Target(u, a) = Target(F[q], a)
      BY <3>1 DEF Target
    <3>3. QED
      BY <1>1, <3>1, <3>2
  <2>2. CASE q # p
    <3>1. G[q] = F[q]
      BY <2>2
    <3>2. QED
      BY <1>1, <3>1
  <2>3. QED
    BY <2>1, <2>2
<1> HIDE DEF G
<1>2. Explained(G, Q, a, r, c)
  BY <1>1 DEF Explained
<1>3. QED
  BY <1>2 DEF G

\* It is enough to look at the one process that is under way.
LEMMA OwnStep ==
  ASSUME NEW F \in [Process -> Frame], NEW p \in Process, NEW u \in Frame, NEW E,
         \A q \in Process : F[q].pc \in Phases => q = p,
         Unedited([F EXCEPT ![p] = u], E),
         Holding(p, u, E),
         u.pc \in Applying \cup Undoing =>
           \A a \in Catalog(u) :
             Explained(F, Process \ {p}, a, EntryOf(u.read[Manifest], a), u.read[a])
  PROVE  Continues([F EXCEPT ![p] = u], E)
<1> DEFINE G == [F EXCEPT ![p] = u]
<1>1. G[p] = u /\ \A q \in Process : q # p => G[q] = F[q]
  OBVIOUS
<1>2. \A q \in Process : G[q].pc \in Phases => q = p
  BY <1>1
<1>3. \A a, r, c : Explained(F, Process \ {p}, a, r, c)
                     => Explained(G, Process \ {p}, a, r, c)
  BY StillExplained
<1> HIDE DEF G
<1>4. ASSUME NEW q \in Process PROVE Holding(q, G[q], E) /\ Restorable(G, q)
  <2>1. CASE q = p
    BY <1>1, <1>3, <2>1 DEF Restorable
  <2>2. CASE q # p
    <3>1. G[q].pc \notin Phases
      BY <1>2, <2>2
    <3>2. QED
      BY <3>1 DEF Holding, Restorable, Phases, Applying, Undoing
  <2>3. QED
    BY <2>1, <2>2
<1>5. Unedited(G, E)
  BY DEF G
<1>6. Continues(G, E)
  BY <1>2, <1>4, <1>5 DEF Continues
<1>7. QED
  BY <1>6 DEF G

\* A step of p that neither reads nor writes the project.
Carries(f, u) ==
  /\ u \in Frame
  /\ u.version = f.version /\ u.read = f.read /\ u.committed = f.committed
  /\ u.pc \notin {"preview", "plan"}
  /\ u.pc \in Applying \cup Undoing => f.pc \in Applying \cup Undoing

LEMMA CarriedContinues ==
  ASSUME Inv, Continues(frame, disk), NEW p \in Process, Active(p), NEW u,
         Carries(frame[p], u), frame' = [frame EXCEPT ![p] = u], disk' = disk
  PROVE  Continues(frame', disk')
<1> DEFINE f == frame[p]
<1>1. frame \in [Process -> Frame] /\ u \in Frame /\ f \in Frame
  BY FrameAt DEF Inv, TypeOK, Carries
<1>2. \A q \in Process : frame[q].pc \in Phases => q = p
  BY DEF Continues, Active
<1>3. Unedited([frame EXCEPT ![p] = u], disk)
  <2>1. u.version = f.version /\ u.committed = f.committed
    BY DEF Carries
  <2>2. \A a \in Asset : Explained(frame, Process, a, EntryOf(disk[Manifest], a), disk[a])
    BY DEF Continues, Unedited
  <2>3. QED
    BY <1>1, <2>1, <2>2, StillExplained DEF Unedited
<1>4. ReadList(u) = ReadList(f) /\ Catalog(u) = Catalog(f)
  BY DEF Carries, ReadList, Catalog
<1>5. Holding(p, u, disk)
  <2>1. \A g : Held(p, u, g) = Held(p, f, g)
    BY SameHeld DEF Carries
  <2>2. Holding(p, f, disk)
    BY DEF Continues
  <2>3. QED
    BY <1>4, <2>1, <2>2 DEF Holding, Carries
<1>6. u.pc \in Applying \cup Undoing =>
        \A a \in Catalog(u) :
          Explained(frame, Process \ {p}, a, EntryOf(u.read[Manifest], a), u.read[a])
  <2>1. Restorable(frame, p)
    BY DEF Continues
  <2>2. QED
    BY <1>4, <2>1 DEF Restorable, Carries
<1>7. QED
  BY <1>1, <1>2, <1>3, <1>5, <1>6, OwnStep

\* The next file of a phase is dealt with.
LEMMA AdvanceCarries ==
  ASSUME NEW f \in Frame, NEW g, NEW u, f.pc \in Applying, Carries(f, u)
  PROVE  Carries(f, Advance(f, g, u))
<1> DEFINE h == [f EXCEPT !.left = @ \ {g}]
<1>1. Carries(f, h)
  BY DEF Carries, Frame, Applying
<1>2. QED
  BY <1>1 DEF Advance

LEMMA EndCarries ==
  ASSUME NEW f \in Frame, NEW l \in Phases \cup Settled, NEW list \in SUBSET File,
         l \notin {"preview", "plan"},
         l \in Applying \cup Undoing => f.pc \in Applying \cup Undoing
  PROVE  Carries(f, Goto(f, l, list))
<1> DEFINE u == Goto(f, l, list)
<1>1. /\ u \in Frame /\ u.pc = l /\ u.version = f.version /\ u.read = f.read
      /\ u.committed = f.committed
  BY EndType
<1> HIDE DEF u
<1>2. Carries(f, u)
  BY <1>1 DEF Carries
<1>3. QED
  BY <1>2 DEF u

LEMMA UndoCarries ==
  ASSUME NEW f \in Frame, f.pc \in Applying
  PROVE  Carries(f, Undo(f))
<1> DEFINE u == Undo(f)
<1>1. /\ u \in Frame /\ u.version = f.version /\ u.read = f.read
      /\ u.committed = f.committed
      /\ u.pc = IF f.committed = {} THEN "cleanup" ELSE "rollback"
  BY UndoType
<1> HIDE DEF u
<1>2. Carries(f, u)
  BY <1>1 DEF Carries
<1>3. QED
  BY <1>2 DEF u

LEMMA VerifyContinues ==
  ASSUME Inv, Continues(frame, disk), NEW p \in Process, Verify(p)
  PROVE  Continues(frame', disk')
<1> DEFINE f == frame[p]
           g == NextFile(p, f)
           o == IF Operations(p, f) = {} THEN End(f, "cleanup")
                ELSE Goto(f, "stage", Operations(p, f))
           u == IF disk[g] = f.read[g] THEN Advance(f, g, o) ELSE End(f, "failed")
<1>1. f.pc = "verify" /\ frame' = [frame EXCEPT ![p] = u] /\ disk' = disk
  BY DEF Verify, Move
<1>2. f \in Frame /\ Operations(p, f) \in SUBSET File /\ {} \in SUBSET File
  BY FrameAt, PlanType
<1>3. Active(p) /\ f.pc \in Applying
  BY <1>1 DEF Active, Phases, Applying
<1>4. Carries(f, End(f, "cleanup")) /\ Carries(f, End(f, "failed"))
      /\ Carries(f, Goto(f, "stage", Operations(p, f)))
  BY <1>2, <1>3, EndCarries DEF End, Phases, Settled, Applying, Undoing
<1>5. Carries(f, o)
  BY <1>4
<1> HIDE DEF o, g
<1>6. Carries(f, Advance(f, g, o))
  BY <1>2, <1>3, <1>5, AdvanceCarries
<1>7. Carries(f, u)
  BY <1>4, <1>6
<1> HIDE DEF u
<1>8. QED
  BY <1>1, <1>3, <1>7, CarriedContinues

LEMMA StageContinues ==
  ASSUME Inv, Continues(frame, disk), NEW p \in Process, Stage(p)
  PROVE  Continues(frame', disk')
<1> DEFINE f == frame[p]
           g == NextFile(p, f)
           o == Goto(f, "check", CommitList(p, f))
<1>1. /\ f.pc = "stage" /\ disk' = disk
      /\ \/ frame' = [frame EXCEPT ![p] = Advance(f, g, o)]
         \/ frame' = [frame EXCEPT ![p] = Undo(f)]
  BY DEF Stage, Move
<1>2. f \in Frame /\ CommitList(p, f) \in SUBSET File
  BY FrameAt, PlanType
<1>3. Active(p) /\ f.pc \in Applying
  BY <1>1 DEF Active, Phases, Applying
<1>4. Carries(f, o)
  BY <1>2, <1>3, EndCarries DEF Phases, Applying, Undoing
<1> HIDE DEF o, g
<1>5. Carries(f, Advance(f, g, o)) /\ Carries(f, Undo(f))
  BY <1>2, <1>3, <1>4, AdvanceCarries, UndoCarries
<1>6. QED
  BY <1>1, <1>3, <1>5, CarriedContinues

LEMMA CheckContinues ==
  ASSUME Inv, Continues(frame, disk), NEW p \in Process, Check(p)
  PROVE  Continues(frame', disk')
<1> DEFINE f == frame[p]
           g == NextFile(p, f)
           u == [f EXCEPT !.left = @ \ {g}]
           w == [f EXCEPT !.pc = "rename"]
<1>1. /\ f.pc = "check" /\ disk' = disk
      /\ \/ frame' = [frame EXCEPT ![p] = Undo(f)]
         \/ frame' = [frame EXCEPT ![p] = u]
         \/ frame' = [frame EXCEPT ![p] = w]
  BY DEF Check, Move
<1>2. f \in Frame
  BY FrameAt
<1>3. Active(p) /\ f.pc \in Applying
  BY <1>1 DEF Active, Phases, Applying
<1> HIDE DEF g
<1>4. Carries(f, u) /\ Carries(f, w)
  BY <1>2, <1>3 DEF Carries, Frame, Phases, Applying, Undoing
<1>5. Carries(f, Undo(f))
  BY <1>2, <1>3, UndoCarries
<1> HIDE DEF u, w
<1>6. QED
  BY <1>1, <1>3, <1>4, <1>5, CarriedContinues

\* With nobody else about, a committed file is still as p wrote it.
LEMMA RollbackContinues ==
  ASSUME Inv, Continues(frame, disk), NEW p \in Process, Rollback(p)
  PROVE  Continues(frame', disk')
<1> DEFINE f == frame[p]
           g == LastCommitted(f)
           u == [f EXCEPT !.pc = "restore"]
<1>1. f.pc = "rollback" /\ disk' = disk
  BY DEF Rollback
<1>2. f \in Frame /\ FrameOK(p, f, temps[p], disk, writer, unseen[p])
  BY FrameAt
<1>3. Active(p) /\ f.pc \in Applying \cup Undoing
  BY <1>1 DEF Active, Phases, Undoing
<1>4. g \in f.committed
  BY <1>1, <1>2, LastIn DEF FrameOK, CommittedOK, Undoing, LastCommitted, Frame
<1>5. disk[g] = Planned(p, f, g)
  <2>1. Holding(p, f, disk)
    BY DEF Continues
  <2>2. g \in ReadList(f) /\ disk[g] = Held(p, f, g)
    BY <1>3, <1>4, <2>1 DEF Holding, ReadList
  <2>3. QED
    BY <1>4, <2>2 DEF Held
<1>6. frame' = [frame EXCEPT ![p] = u]
  BY <1>5 DEF Rollback, Move
<1>7. Carries(f, u)
  BY <1>2, <1>3 DEF Carries, Frame, Phases, Undoing
<1> HIDE DEF u
<1>8. QED
  BY <1>1, <1>3, <1>6, <1>7, CarriedContinues

LEMMA CleanupContinues ==
  ASSUME Inv, Continues(frame, disk), NEW p \in Process, Cleanup(p) \/ Crash(p)
  PROVE  Continues(frame', disk')
<1> DEFINE f == frame[p]
           l == IF f.failed THEN "failed" ELSE "applied"
           u == End(f, l)
           w == [f EXCEPT !.pc = "crashed"]
<1>1. /\ Active(p) /\ disk' = disk
      /\ \/ frame' = [frame EXCEPT ![p] = u]
         \/ frame' = [frame EXCEPT ![p] = w]
  BY DEF Cleanup, Crash, Move, Active, Phases
<1>2. f \in Frame /\ {} \in SUBSET File
  BY FrameAt
<1>3. Carries(f, u)
  <2>1. l \in {"failed", "applied"}
    OBVIOUS
  <2> HIDE DEF l
  <2>2. QED
    BY <1>2, <2>1, EndCarries DEF End, Settled, Applying, Undoing
<1>4. Carries(f, w)
  BY <1>2 DEF Carries, Frame, Settled, Applying, Undoing
<1> HIDE DEF u, w
<1>5. QED
  BY <1>1, <1>3, <1>4, CarriedContinues

\* Only one upgrade comes to be under way: no other one was.
LEMMA StartContinues ==
  ASSUME Inv, Continues(frame, disk), NEW p \in Process, Start(p), ~overlap'
  PROVE  Continues(frame', disk')
<1> DEFINE f == frame[p]
           g == [f EXCEPT !.version = package,
                          !.read = [h \in File |-> Absent]]
           l == IF f.pc = "idle" THEN "preview" ELSE "plan"
           u == Goto(g, l, ReadList(g))
<1>1. f.pc \in {"idle", "previewed"} /\ frame' = [frame EXCEPT ![p] = u]
  BY DEF Start, Move
<1>1a. disk' = disk /\ \A q \in Process : frame[q].pc \notin Phases
  BY DEF Start, Active
<1>2. [h \in File |-> Absent] \in Files
  BY DEF Files, File, Value
<1>3. f \in Frame /\ g \in Frame
  BY <1>2, FrameAt DEF Frame, Inv, TypeOK
<1>4. /\ u.pc = l /\ u.left = ReadList(g) /\ u.version = g.version
      /\ u.committed = f.committed /\ u \in Frame
  BY <1>3, PlanType DEF Goto, Frame, Phases
<1>5. f.committed = {}
  BY <1>1, FrameAt DEF FrameOK, CommittedOK, Planning
<1>6. ReadList(u) = u.left
  BY <1>4 DEF ReadList, Catalog
<1>7. frame \in [Process -> Frame]
  BY DEF Inv, TypeOK
<1> HIDE DEF u, g
<1>8. Unedited([frame EXCEPT ![p] = u], disk)
  <2>1. \A a \in Asset : Explained(frame, Process, a, EntryOf(disk[Manifest], a), disk[a])
    BY DEF Continues, Unedited
  <2>2. QED
    BY <1>4, <1>5, <1>7, <2>1, StillExplained DEF Unedited
<1>9. Holding(p, u, disk) /\ u.pc \notin Applying \cup Undoing
  BY <1>4, <1>6 DEF Holding, Applying, Undoing
<1>10. QED
  BY <1>1, <1>1a, <1>4, <1>7, <1>8, <1>9, OwnStep

\* What p plans from is the project as it is, which is explained without p.
LEMMA ReadContinues ==
  ASSUME Inv, Continues(frame, disk), NEW p \in Process, Read(p)
  PROVE  Continues(frame', disk')
<1> DEFINE f == frame[p]
           g == NextRead(f)
           h == [f EXCEPT !.read[g] = disk[g]]
           u == Advance(h, g, Decide(p, h))
<1>1. /\ f.pc \in {"preview", "plan"} /\ frame' = [frame EXCEPT ![p] = u]
      /\ disk' = disk
  BY DEF Read, Move
<1>2. f \in Frame /\ FrameOK(p, f, temps[p], disk, writer, unseen[p])
  BY FrameAt
<1>3. f.left # {} /\ f.left \subseteq ReadList(f) /\ f.committed = {}
  BY <1>1, <1>2 DEF FrameOK, LeftOK, CommittedOK, Planning, Phases, Undoing
<1>4. g \in f.left /\ g \in File
  BY <1>2, <1>3, NextType
<1>5. h \in Frame /\ h.left = f.left /\ h.pc = f.pc /\ h.version = f.version
      /\ h.committed = f.committed
  <2>1. f.read \in Files /\ disk \in Files
    BY <1>2, FrameAt DEF Frame
  <2>2. [f.read EXCEPT ![g] = disk[g]] \in Files
    BY <1>4, <2>1, FilesType, FilesExcept DEF File
  <2>3. QED
    BY <1>2, <2>2 DEF Frame
<1>6. h.read[g] = disk[g] /\ \A x \in File : x # g => h.read[x] = f.read[x]
  BY <1>2, <1>4, FilesType DEF Frame
<1>7. /\ ReadList(h) = ReadList(f) /\ ReadList(f) \subseteq File
      /\ Manifest \in ReadList(f)
  BY <1>2, <1>5, PlanType DEF ReadList, Catalog
<1>8. \A x \in ReadList(f) \ (f.left \ {g}) : disk[x] = h.read[x]
  <2>1. Holding(p, f, disk)
    BY DEF Continues
  <2>2. \A x \in ReadList(f) \ f.left : disk[x] = f.read[x]
    BY <1>1, <2>1 DEF Holding
  <2>3. QED
    BY <1>6, <1>7, <2>2
<1> HIDE DEF h, g
<1>9. /\ u \in Frame /\ u.version = f.version /\ u.committed = {} /\ u.read = h.read
      /\ \/ u.pc \in {"preview", "plan"} /\ u.left = f.left \ {g}
         \/ u.pc \in {"previewed", "blocked", "refused"}
         \/ u.pc = "verify" /\ f.left = {g}
  <2>1. CASE h.left = {g}
    <3>1. u = Decide(p, h)
      BY <2>1 DEF Advance
    <3>2. QED
      BY <1>1, <1>3, <1>5, <2>1, <3>1, DecideType
  <2>2. CASE h.left # {g}
    <3>1. u = [h EXCEPT !.left = @ \ {g}]
      BY <2>2 DEF Advance
    <3>2. QED
      BY <1>1, <1>3, <1>5, <3>1 DEF Frame
  <2>3. QED
    BY <2>1, <2>2
<1> HIDE DEF u
<1>10. ReadList(u) = ReadList(f)
  BY <1>9 DEF ReadList, Catalog
<1>11. frame \in [Process -> Frame] /\ \A q \in Process : frame[q].pc \in Phases => q = p
  BY <1>1 DEF Continues, Phases, Inv, TypeOK
<1>12. \A a \in Asset : Explained(frame, Process, a, EntryOf(disk[Manifest], a), disk[a])
  BY DEF Continues, Unedited
<1>13. Unedited([frame EXCEPT ![p] = u], disk)
  BY <1>3, <1>9, <1>11, <1>12, StillExplained DEF Unedited
<1>14. Holding(p, u, disk)
  <2>1. \A x : Held(p, u, x) = u.read[x]
    BY <1>9 DEF Held
  <2>2. QED
    BY <1>8, <1>9, <1>10, <2>1 DEF Holding, Applying, Undoing
<1>15. ASSUME u.pc \in Applying \cup Undoing, NEW a \in Catalog(u)
       PROVE  Explained(frame, Process \ {p}, a, EntryOf(u.read[Manifest], a), u.read[a])
  <2>1. f.left = {g}
    BY <1>9, <1>15 DEF Applying, Undoing
  <2>2. a \in ReadList(f) /\ a \in Asset
    BY <1>9, <1>10, PlanType DEF ReadList
  <2>3. u.read[a] = disk[a] /\ u.read[Manifest] = disk[Manifest]
    BY <1>7, <1>8, <1>9, <2>1, <2>2
  <2>4. Explained(frame, Process, a, EntryOf(disk[Manifest], a), disk[a])
    BY <1>12, <2>2
  <2>5. QED
    BY <1>3, <2>3, <2>4 DEF Explained
<1>16. QED
  BY <1>1, <1>9, <1>11, <1>13, <1>14, <1>15, OwnStep

\* A replaced asset is explained by p's commit; the manifest records what p
\* wrote or found, and repeats the rest.
LEMMA RenameContinues ==
  ASSUME Inv, Continues(frame, disk), NEW p \in Process, Rename(p)
  PROVE  Continues(frame', disk')
<1> DEFINE f == frame[p]
           g == NextFile(p, f)
           done == [f EXCEPT !.committed = @ \cup {g}]
           u == IF f.left = {g} THEN End(done, "cleanup")
                ELSE Goto(done, "check", f.left \ {g})
<1>1. f.pc = "rename"
  BY DEF Rename
<1>2. f \in Frame /\ FrameOK(p, f, temps[p], disk, writer, unseen[p])
  BY FrameAt
<1>3. /\ f.left # {} /\ f.left \subseteq CommitList(p, f)
      /\ Writes(p, f) \subseteq f.committed \cup f.left
      /\ g \in Operations(p, f)
  BY <1>1, <1>2 DEF FrameOK, LeftOK, Phases, Undoing, Committing
<1>4. g \in f.left /\ g \in File /\ (g = Manifest => f.left = {Manifest})
  BY <1>2, <1>3, NextType
<1>5. /\ f.committed \subseteq Operations(p, f) /\ f.committed \cap f.left = {}
  BY <1>1, <1>2 DEF FrameOK, HeldOK, Succeeding, Applying, Committing
<1>6. Active(p) /\ f.pc \in Applying
  BY <1>1 DEF Active, Phases, Applying
<1>7. /\ \A x \in ReadList(f) : disk[x] = Held(p, f, x)
      /\ f.committed \subseteq Catalog(f) /\ Catalog(f) \subseteq Asset
  <2>1. Holding(p, f, disk)
    BY DEF Continues
  <2>2. QED
    BY <1>2, <1>6, <2>1, PlanType DEF Holding
<1>8. CASE frame' = [frame EXCEPT ![p] = Undo(f)] /\ disk' = disk
  BY <1>2, <1>6, <1>8, UndoCarries, CarriedContinues
<1>9. CASE /\ disk' = [disk EXCEPT ![g] = Planned(p, f, g)]
           /\ frame' = [frame EXCEPT ![p] = u]
  <2>1. /\ disk'[g] = Planned(p, f, g)
        /\ \A x \in File : x # g => disk'[x] = disk[x]
    BY <1>4, <1>9, FrameAt, FilesType
  <2> HIDE DEF g
  <2>2. /\ u \in Frame /\ u.version = f.version /\ u.read = f.read
        /\ u.committed = f.committed \cup {g}
        /\ u.pc = "cleanup" \/ (u.pc = "check" /\ f.left # {g})
    <3>1. /\ done \in Frame /\ done.version = f.version /\ done.read = f.read
          /\ done.committed = f.committed \cup {g}
      BY <1>2, <1>4 DEF Frame
    <3> HIDE DEF done
    <3>2. f.left \ {g} \in SUBSET File /\ {} \in SUBSET File
      BY <1>2 DEF Frame
    <3>3. CASE f.left = {g}
      <4>1. u = Goto(done, "cleanup", {})
        BY <3>3 DEF End
      <4>2. QED
        BY <3>1, <3>2, <4>1, EndType DEF Phases
    <3>4. CASE f.left # {g}
      <4>1. u = Goto(done, "check", f.left \ {g})
        BY <3>4
      <4>2. QED
        BY <3>1, <3>2, <3>4, <4>1, EndType DEF Phases
    <3>5. QED
      BY <3>3, <3>4
  <2> HIDE DEF u, done
  <2>3. ReadList(u) = ReadList(f) /\ Catalog(u) = Catalog(f)
    BY <2>2 DEF ReadList, Catalog
  <2>4. /\ frame \in [Process -> Frame] /\ frame[p] = f
        /\ \A q \in Process : frame[q].pc \in Phases => q = p
    BY <1>6 DEF Continues, Active, Inv, TypeOK
  <2>5. \A a \in Asset : Explained(frame, Process, a, EntryOf(disk[Manifest], a), disk[a])
    BY DEF Continues, Unedited
  <2> DEFINE G == [frame EXCEPT ![p] = u]
  <2>6. \A a \in Asset : Explained(G, Process, a, EntryOf(disk[Manifest], a), disk[a])
    BY <2>2, <2>4, <2>5, StillExplained
  <2>7. G[p] = u
    BY <2>4
  <2>8. CASE g = Manifest
    <3>1. u.pc = "cleanup"
      BY <1>4, <2>2, <2>8
    <3>2. disk'[Manifest] = NextManifest(p, f)
      BY <2>1, <2>8 DEF Planned
    <3>3. NextManifest(p, f) \in Entries /\ NextManifest(p, f) # Absent
      BY <1>2, PlanType, Constants
    <3>4. Manifest \notin f.committed /\ Writes(p, f) \subseteq f.committed
      BY <1>2, <1>3, <1>4, <1>5, <2>8, PlanType, Constants
    <3>5. Manifest \in ReadList(f) /\ Catalog(f) \subseteq ReadList(f)
      BY DEF ReadList
    <3>6. disk[Manifest] = f.read[Manifest]
      BY <1>7, <3>4, <3>5 DEF Held
    <3>7. ASSUME NEW a \in Asset
          PROVE  Explained(G, Process, a, EntryOf(disk'[Manifest], a), disk'[a])
      <4>1. disk'[a] = disk[a] /\ a # Manifest
        BY <2>1, <2>8, Constants DEF File
      <4>2. EntryOf(disk'[Manifest], a) = NextManifest(p, f)[a]
        BY <3>2, <3>3 DEF EntryOf
      <4>3. EntryOf(disk[Manifest], a) = Recorded(f, a)
        BY <3>6 DEF Recorded, EntryOf
      <4>4. CASE a \in Catalog(f) /\ WillApply(p, f, a)
        <5>1. NextManifest(p, f)[a] = Target(f, a) /\ a \in Writes(p, f)
          BY <4>4 DEF NextManifest, Writes
        <5>2. disk[a] = Target(f, a)
          BY <1>7, <3>4, <3>5, <4>1, <4>4, <5>1 DEF Held, Planned
        <5>3. Target(f, a) # Absent
          BY <1>2, <5>1, PlanType, Constants
        <5>4. QED
          BY <4>1, <4>2, <5>1, <5>2, <5>3 DEF Explained
      <4>5. CASE a \in Catalog(f) /\ ~WillApply(p, f, a) /\ State(f, a) = "current"
        <5>1. NextManifest(p, f)[a] = f.read[a] /\ f.read[a] # Absent
          BY <4>5 DEF NextManifest, State
        <5>2. a \notin f.committed
          BY <1>5, <4>1, <4>5 DEF Operations, Writes
        <5>3. disk[a] = f.read[a]
          BY <1>7, <3>5, <4>5, <5>2 DEF Held
        <5>4. QED
          BY <4>1, <4>2, <5>1, <5>3 DEF Explained
      <4>6. CASE /\ a \in Catalog(f) => ~WillApply(p, f, a) /\ State(f, a) # "current"
        <5>1. NextManifest(p, f)[a] = Recorded(f, a)
          BY <4>6 DEF NextManifest
        <5>2. QED
          BY <2>6, <4>1, <4>2, <4>3, <5>1
      <4>7. QED
        BY <4>4, <4>5, <4>6
    <3>8. Unedited(G, disk')
      BY <3>7 DEF Unedited
    <3>9. Holding(p, u, disk') /\ u.pc \notin Applying \cup Undoing
      BY <3>1 DEF Holding, Applying, Undoing
    <3> HIDE DEF G
    <3>10. Continues([frame EXCEPT ![p] = u], disk')
      BY <2>2, <2>4, <3>8, <3>9, OwnStep DEF G
    <3>11. QED
      BY <1>9, <3>10 DEF u, g
  <2>9. CASE g # Manifest
    <3>1. g \in Writes(p, f) /\ g \in Catalog(f) /\ g \in Asset
      BY <1>2, <1>3, <2>9, PlanType DEF Operations, Writes
    <3>2. disk'[g] = Target(f, g) /\ Target(f, g) # Absent
      BY <1>2, <2>1, <2>9, <3>1, PlanType, Constants DEF Planned
    <3>3. disk'[Manifest] = disk[Manifest]
      BY <2>1, <2>9 DEF File
    <3>4. ASSUME NEW a \in Asset
          PROVE  Explained(G, Process, a, EntryOf(disk'[Manifest], a), disk'[a])
      <4>1. CASE a = g
        <5>1. a \in G[p].committed /\ Target(G[p], a) = Target(f, a)
          BY <2>2, <2>7, <4>1 DEF Target
        <5>2. QED
          BY <3>2, <4>1, <5>1 DEF Explained
      <4>2. CASE a # g
        <5>1. disk'[a] = disk[a]
          BY <2>1, <4>2 DEF File
        <5>2. QED
          BY <2>6, <3>3, <5>1
      <4>3. QED
        BY <4>1, <4>2
    <3>5. Unedited(G, disk')
      BY <3>4 DEF Unedited
    <3>6. Holding(p, u, disk')
      <4>1. ASSUME NEW x \in ReadList(f) PROVE disk'[x] = Held(p, u, x)
        <5>1. Planned(p, u, x) = Planned(p, f, x) /\ x \in File
          BY <1>2, <2>2, SamePlan, PlanType
        <5>2. disk[x] = Held(p, f, x)
          BY <1>7
        <5>3. QED
          BY <2>1, <2>2, <5>1, <5>2 DEF Held
      <4>2. u.committed \subseteq Catalog(u)
        BY <1>7, <2>2, <2>3, <3>1
      <4>3. QED
        BY <2>2, <2>3, <4>1, <4>2 DEF Holding
    <3>7. ASSUME NEW a \in Catalog(u)
          PROVE  Explained(frame, Process \ {p}, a, EntryOf(u.read[Manifest], a), u.read[a])
      <4>1. Restorable(frame, p)
        BY DEF Continues
      <4>2. QED
        BY <1>6, <2>2, <2>3, <4>1 DEF Restorable
    <3> HIDE DEF G
    <3>8. Continues([frame EXCEPT ![p] = u], disk')
      BY <2>2, <2>4, <3>5, <3>6, <3>7, OwnStep DEF G
    <3>9. QED
      BY <1>9, <3>8 DEF u, g
  <2>10. QED
    BY <2>8, <2>9
<1>10. QED
  BY <1>8, <1>9 DEF Rename, Move

\* What is put back is what p read, which was explained without p.
LEMMA RestoreContinues ==
  ASSUME Inv, Continues(frame, disk), NEW p \in Process, Restore(p)
  PROVE  Continues(frame', disk')
<1> DEFINE f == frame[p]
           g == LastCommitted(f)
           u == Undone(f, g)
           w == [End(f, "cleanup") EXCEPT !.broken = TRUE]
<1>1. f.pc = "restore"
  BY DEF Restore
<1>2. f \in Frame /\ FrameOK(p, f, temps[p], disk, writer, unseen[p])
  BY FrameAt
<1>3. Active(p) /\ f.pc \in Applying \cup Undoing
  BY <1>1 DEF Active, Phases, Undoing
<1>4. g \in f.committed /\ g \in File
  BY <1>1, <1>2, LastIn DEF FrameOK, CommittedOK, Undoing, LastCommitted, Frame
<1>5. /\ \A x \in ReadList(f) : disk[x] = Held(p, f, x)
      /\ f.committed \subseteq Catalog(f) /\ Catalog(f) \subseteq Asset
  <2>1. Holding(p, f, disk)
    BY DEF Continues
  <2>2. QED
    BY <1>2, <1>3, <2>1, PlanType DEF Holding
<1>6. CASE frame' = [frame EXCEPT ![p] = w] /\ disk' = disk
  <2>1. Carries(f, w)
    BY <1>2 DEF Carries, End, Goto, Frame, Phases, Applying, Undoing
  <2> HIDE DEF w
  <2>2. QED
    BY <1>3, <1>6, <2>1, CarriedContinues
<1>7. CASE /\ disk' = [disk EXCEPT ![g] = f.read[g]]
           /\ frame' = [frame EXCEPT ![p] = u]
  <2>1. /\ disk'[g] = f.read[g]
        /\ \A x \in File : x # g => disk'[x] = disk[x]
    BY <1>4, <1>7, FrameAt, FilesType
  <2> HIDE DEF g
  <2>2. /\ u \in Frame /\ u.version = f.version /\ u.read = f.read
        /\ u.committed = f.committed \ {g}
        /\ u.pc \in {"cleanup", "rollback"}
    BY <1>2, UndoneType
  <2> HIDE DEF u
  <2>3. ReadList(u) = ReadList(f) /\ Catalog(u) = Catalog(f)
    BY <2>2 DEF ReadList, Catalog
  <2>4. /\ frame \in [Process -> Frame] /\ frame[p] = f
        /\ \A q \in Process : frame[q].pc \in Phases => q = p
    BY <1>3 DEF Continues, Active, Inv, TypeOK
  <2>5. \A a \in Asset : Explained(frame, Process, a, EntryOf(disk[Manifest], a), disk[a])
    BY DEF Continues, Unedited
  <2>6. /\ g \in Catalog(f) /\ g \in Asset /\ g # Manifest
        /\ Manifest \in ReadList(f) /\ Manifest \notin f.committed
    BY <1>4, <1>5, Constants DEF ReadList
  <2>7. disk'[Manifest] = disk[Manifest] /\ disk[Manifest] = f.read[Manifest]
    BY <1>5, <2>1, <2>6 DEF Held, File
  <2>8. \A a \in Catalog(f) :
          Explained(frame, Process \ {p}, a, EntryOf(f.read[Manifest], a), f.read[a])
    <3>1. Restorable(frame, p)
      BY DEF Continues
    <3>2. QED
      BY <1>3, <3>1 DEF Restorable
  <2> DEFINE G == [frame EXCEPT ![p] = u]
  <2>9. ASSUME NEW a \in Asset
        PROVE  Explained(G, Process, a, EntryOf(disk'[Manifest], a), disk'[a])
    <3>1. CASE a = g
      <4>1. Explained(frame, Process \ {p}, a, EntryOf(disk'[Manifest], a), disk'[a])
        BY <2>1, <2>6, <2>7, <2>8, <3>1
      <4>2. Explained(G, Process \ {p}, a, EntryOf(disk'[Manifest], a), disk'[a])
        BY <2>2, <2>4, <4>1, StillExplained
      <4> HIDE DEF G
      <4>3. QED
        BY <4>2 DEF Explained
    <3>2. CASE a # g
      <4>1. disk'[a] = disk[a]
        BY <2>1, <3>2 DEF File
      <4>2. a \in frame[p].committed => a \in u.committed /\ u.version = frame[p].version
        BY <2>2, <2>4, <3>2
      <4>3. Explained(frame, Process, a, EntryOf(disk'[Manifest], a), disk'[a])
        BY <2>5, <2>7, <4>1
      <4>4. QED
        BY <2>2, <2>4, <4>2, <4>3, StillExplained
    <3>3. QED
      BY <3>1, <3>2
  <2>10. Unedited(G, disk')
    BY <2>9 DEF Unedited
  <2>11. Holding(p, u, disk')
    <3>1. ASSUME NEW x \in ReadList(f) PROVE disk'[x] = Held(p, u, x)
      <4>1. Planned(p, u, x) = Planned(p, f, x) /\ x \in File
        BY <1>2, <2>2, SamePlan, PlanType
      <4>2. disk[x] = Held(p, f, x)
        BY <1>5
      <4>3. QED
        BY <2>1, <2>2, <4>1, <4>2 DEF Held
    <3>2. u.committed \subseteq Catalog(u)
      BY <1>5, <2>2, <2>3
    <3>3. QED
      BY <2>2, <2>3, <3>1, <3>2 DEF Holding
  <2>12. \A a \in Catalog(u) :
           Explained(frame, Process \ {p}, a, EntryOf(u.read[Manifest], a), u.read[a])
    BY <2>2, <2>3, <2>8
  <2> HIDE DEF G
  <2>13. Continues([frame EXCEPT ![p] = u], disk')
    BY <2>2, <2>4, <2>10, <2>11, <2>12, OwnStep DEF G
  <2>14. QED
    BY <1>7, <2>13 DEF u, g
<1>8. QED
  BY <1>6, <1>7 DEF Restore, Move

LEMMA InitContinuing == Init => Continuing
<1> SUFFICES ASSUME Init, Undisturbed PROVE Continues(frame, disk)
  BY DEF Continuing
<1>1. \A p \in Process : frame[p].pc = "idle"
  BY DEF Init
<1>2. disk = Disk
  BY DEF Init
<1>3. Unedited(frame, disk)
  BY <1>2 DEF Unedited, Explained, Undisturbed, UneditedProject
<1>4. \A p \in Process : Holding(p, frame[p], disk) /\ Restorable(frame, p)
  BY <1>1 DEF Holding, Restorable, Applying, Undoing
<1>5. QED
  BY <1>1, <1>3, <1>4 DEF Continues, Phases

LEMMA NextContinuing == Inv /\ Continuing /\ [Next]_vars => Continuing'
<1> SUFFICES ASSUME Inv, Continuing, [Next]_vars, Undisturbed'
             PROVE  Continues(frame', disk')
  BY DEF Continuing
<1>1. edits' = 0 /\ ~overlap' /\ UneditedProject
  BY DEF Undisturbed, UneditedProject
<1>2. ASSUME NEW a \in Asset, Edit(a) PROVE FALSE
  <2>1. edits' = edits + 1 /\ edits \in Nat
    BY <1>2, Constants DEF Edit, Inv, TypeOK
  <2>2. QED
    BY <1>1, <2>1
<1>3. edits' = edits /\ (overlap => overlap')
  <2>1. ASSUME NEW p \in Process, Start(p) PROVE edits' = edits /\ (overlap => overlap')
    BY <2>1 DEF Start
  <2>2. ASSUME NEW p \in Process, Step(p) PROVE edits' = edits /\ overlap' = overlap
    BY <2>2 DEF Step, Read, Verify, Stage, Check, Rename, Rollback, Restore, Cleanup
  <2>3. ASSUME NEW p \in Process, Crash(p) PROVE edits' = edits /\ overlap' = overlap
    BY <2>3 DEF Crash
  <2>4. ASSUME Install \/ UNCHANGED vars PROVE edits' = edits /\ overlap' = overlap
    BY <2>4 DEF Install, vars
  <2>5. QED
    BY <1>2, <2>1, <2>2, <2>3, <2>4 DEF Next
<1>4. Continues(frame, disk)
  BY <1>1, <1>3 DEF Continuing, Undisturbed
<1>5. ASSUME NEW p \in Process, Start(p) PROVE Continues(frame', disk')
  BY <1>1, <1>4, <1>5, StartContinues
<1>6. ASSUME NEW p \in Process, Step(p) PROVE Continues(frame', disk')
  BY <1>4, <1>6, ReadContinues, VerifyContinues, StageContinues, CheckContinues,
     RenameContinues, RollbackContinues, RestoreContinues, CleanupContinues DEF Step
<1>7. ASSUME NEW p \in Process, Crash(p) PROVE Continues(frame', disk')
  BY <1>4, <1>7, CleanupContinues
<1>8. ASSUME Install \/ UNCHANGED vars PROVE Continues(frame', disk')
  <2>1. frame' = frame /\ disk' = disk
    BY <1>8 DEF Install, vars
  <2>2. QED
    BY <1>4, <2>1
<1>9. QED
  BY <1>2, <1>5, <1>6, <1>7, <1>8 DEF Next

\* As long as nobody edits a file and upgrades do not overlap, the project is
\* what its manifest says, or what a run of the same or an earlier package left.
THEOREM ContinuingInductive == Spec => [](Inv /\ Continuing)
<1>1. Init => Inv /\ Continuing
  BY InitInv, InitContinuing
<1>2. Inv /\ Continuing /\ [Next]_vars => (Inv /\ Continuing)'
  BY NextInv, NextContinuing
<1>3. QED
  BY <1>1, <1>2, PTL DEF Spec

\* A crash at any point, and an apply that fails, leave a project the next
\* upgrade of that package completes without consent; what was applied, it
\* finds in order: for every package, project and number of upgrades.
THEOREM NextUpgradeContinuesAlways == Spec => []NextUpgradeContinues
<1>1. ASSUME Inv, Continuing, UneditedProject, edits = 0, ~overlap,
             \A p \in Process : frame[p].version = package,
             NEW p \in Process, NEW a \in Catalog(Now(p))
      PROVE  ~NeedsConsent(Now(p), a) /\ State(Now(p), a) # "customized"
  <2> DEFINE f == frame[p]
             n == Now(p)
  <2>1. f \in Frame /\ f.version = package /\ package \in Version
    BY <1>1, FrameAt DEF Inv, TypeOK
  <2>2. DOMAIN Template[package] \subseteq Asset
    BY <2>1, TemplateType
  <2>3. /\ n.version = package
        /\ n.read = [g \in File |-> IF g = Manifest \/ g \in DOMAIN Template[package]
                                      THEN disk[g] ELSE Absent]
    BY <2>1 DEF Now, Frame
  <2>4. Catalog(n) = DOMAIN Template[package]
    BY <2>3 DEF Catalog
  <2>5. /\ a \in Asset /\ n.read[a] = disk[a] /\ n.read[Manifest] = disk[Manifest]
        /\ \A c : Target(n, c) = Template[package][c]
    BY <1>1, <2>2, <2>3, <2>4 DEF File, Target
  <2> HIDE DEF n
  <2>6. Recorded(n, a) = EntryOf(disk[Manifest], a)
    BY <2>5 DEF Recorded, EntryOf
  <2>7. Explained(frame, Process, a, EntryOf(disk[Manifest], a), disk[a])
    BY <1>1, <2>5 DEF Continuing, Undisturbed, Continues, Unedited
  <2>8. \A q \in Process : Target(frame[q], a) = Target(n, a)
    BY <1>1, <2>5 DEF Target
  <2>9. Recorded(n, a) # NoEntry =>
          /\ n.read[a] # Absent
          /\ \/ Identity[n.read[a]] = Identity[Recorded(n, a)]
             \/ Identity[n.read[a]] = Identity[Target(n, a)]
    BY <2>5, <2>6, <2>7, <2>8 DEF Explained
  <2>10. ~NeedsConsent(n, a) /\ State(n, a) # "customized"
    BY <2>9 DEF NeedsConsent, State
  <2>11. QED
    BY <2>10 DEF n
<1>2. ASSUME Inv, Continuing PROVE UneditedNeedsNoConsent
  BY <1>1, <1>2 DEF UneditedNeedsNoConsent
<1>3. QED
  BY <1>2, ContinuingInductive, ApplyIsIdempotentAlways, PTL DEF NextUpgradeContinues
===============================================================================
