-------------------------------- MODULE Reshape --------------------------------
(***************************************************************************)
(* The doctor's sensor for one domain concept that is spread over large    *)
(* clusters of files, the one pilot it proposes to consolidate it, and the *)
(* memory of what an adopter decided about such proposals                  *)
(* (bin/lib/physical-cohesion.mjs, bin/lib/reshape-decisions.mjs,          *)
(* bin/lib/doctor-advisories.mjs).  The doctor keeps nothing between two   *)
(* calls: the card is a function of the tree, the decisions file and the   *)
(* day.  The actions are those of whoever works on the project.            *)
(*                                                                         *)
(* A file is its path, the sequence of the names on it without the         *)
(* extension; what a name means (its first meaningful token) is given.     *)
(* m[c][a] are the files of concept c that are anchored at directory a.    *)
(***************************************************************************)
EXTENDS Naturals, FiniteSets, SequencesExt

CONSTANTS
  Means,          \* what a name means: the first meaningful token in it, or None
  Framework,      \* the names a framework gives to files: route, page, handler
  Skipped,        \* the names of directories that mean nothing: src, app, server
  NameOrder,      \* concepts in the order of their names
  AnchorRank,     \* directory -> its place in the order of path strings
  ClusterMin, MirrorMin, MirrorAnchors, MaxFindings, MaxAnchors, PilotFloor, \* the sensor's thresholds
  Starting,       \* trees to start from
  Added,          \* files that may appear
  MaxEdits, Days, \* bounds: what the project's people do, and how long
  None, Broken

VARIABLES
  tree,           \* the governed files
  decisions,      \* .ark/reshape-decisions.json: None, Broken or a set of entries
  today,
  said,           \* history: what was decided last about a concept where it was
  moved,          \* history: the places to which pilots moved files
  changes         \* how much was done

vars == <<tree, decisions, today, said, moved, changes>>

-----------------------------------------------------------------------------
\* The directories on the path of f that could be its concept, by position.
Telling(f) == {i \in 1..(Len(f) - 1) : f[i] \notin Skipped /\ Means[f[i]] # None}

\* A file a framework named belongs to the topmost telling directory and is
\* anchored above it; any other file belongs to what its own name says.
ClassifyPhysical(f) ==
  CASE Last(f) \notin Framework /\ Means[Last(f)] # None ->
         [concept |-> Means[Last(f)], anchor |-> Front(f)]
    [] Last(f) \in Framework /\ Telling(f) # {} ->
         LET top == CHOOSE i \in Telling(f) : \A j \in Telling(f) : i <= j
         IN  [concept |-> Means[f[top]], anchor |-> SubSeq(f, 1, top - 1)]
    [] OTHER -> None

ClustersOf(class) ==
  LET told == {f \in DOMAIN class : class[f] # None}
      of(c) == {f \in told : class[f].concept = c}
  IN [c \in {class[f].concept : f \in told} |->
        [a \in {class[f].anchor : f \in of(c)} |-> {f \in of(c) : class[f].anchor = a}]]
Clusters == ClustersOf([f \in tree |-> ClassifyPhysical(f)])
Anchors(m, c) == IF c \in DOMAIN m THEN DOMAIN m[c] ELSE {}

Count(m, c, a) == Cardinality(m[c][a])
MaxCluster(m, c) == LET a == CHOOSE a \in DOMAIN m[c] : \A b \in DOMAIN m[c] : Count(m, c, b) <= Count(m, c, a) IN Count(m, c, a)
Big(m, c) == {a \in DOMAIN m[c] : Count(m, c, a) >= MirrorMin}
Exploded(m) == {c \in DOMAIN m : MaxCluster(m, c) >= ClusterMin \/ Cardinality(Big(m, c)) >= MirrorAnchors}

\* The findings shown: the largest cluster first, equal ones by name, cut off.
Ranked(m, found) ==
  SortSeq(SelectSeq(NameOrder, LAMBDA c : c \in found), LAMBDA c, d : MaxCluster(m, c) > MaxCluster(m, d))
Findings(m) ==
  LET all == Ranked(m, Exploded(m)) IN SubSeq(all, 1, IF Len(all) < MaxFindings THEN Len(all) ELSE MaxFindings)

-----------------------------------------------------------------------------
FixedByConvention(a) == \E i \in DOMAIN a : a[i] \in {"app", "pages"}
TargetDir(c) == <<"src", "features", c>>
Movable(m, c) == {a \in DOMAIN m[c] : ~FixedByConvention(a) /\ ~IsPrefix(TargetDir(c), a)}

Smaller(m, c, a, b) ==
  \/ Count(m, c, a) < Count(m, c, b)
  \/ Count(m, c, a) = Count(m, c, b) /\ AnchorRank[a] < AnchorRank[b]
\* The smallest anchor worth a pilot, otherwise the largest there is.
PilotAnchor(m, c) ==
  LET worth == {a \in Movable(m, c) : Count(m, c, a) >= PilotFloor}
  IN  IF worth # {}
      THEN CHOOSE a \in worth : \A b \in worth \ {a} : Smaller(m, c, a, b)
      ELSE CHOOSE a \in Movable(m, c) : \A b \in Movable(m, c) \ {a} : Smaller(m, c, b, a)
Moves(c, files) == [f \in files |-> Append(TargetDir(c), Last(f))]

-----------------------------------------------------------------------------
\* Two entries on one target make the whole file invalid; an invalid file
\* decides nothing.
SameTarget(d, e) == d.concept = e.concept /\ d.anchors = e.anchors
LoadReshapeDecisions ==
  IF decisions \in {None, Broken} \/ \E d, e \in decisions : d # e /\ SameTarget(d, e) THEN {} ELSE decisions

\* An entry that does not name every place of its concept is stale.
LifecycleStatus(m, d) ==
  CASE d.anchors # Anchors(m, d.concept) -> "stale"
    [] d.anchors = Anchors(m, d.concept) /\ d.reviewBy = None -> "undated"
    [] d.anchors = Anchors(m, d.concept) /\ d.reviewBy = Broken -> "malformed"
    [] OTHER -> IF d.reviewBy < today THEN "expired" ELSE "current"
Current(m) == {d \in LoadReshapeDecisions : LifecycleStatus(m, d) \in {"undated", "current"}}
Suppressed(m) == {d.concept : d \in {x \in Current(m) : x.verdict \in {"deferred", "rejected"}}}

\* Mutant: a verdict is bound to the places the finding displays.
DisplayedTarget(m, c) ==
  {a \in Big(m, c) : Cardinality({b \in Big(m, c) : Smaller(m, c, a, b)}) < MaxAnchors}
\* What a verdict is bound to: every place the concept is in.
DecisionTarget(m, c) == Anchors(m, c)

\* The first finding that is not suppressed decides: if nothing of it can be
\* moved there is no pilot, whatever comes after it.
Card(m, open) ==
  IF open = <<>> \/ Movable(m, Head(open)) = {} THEN None
  ELSE [concept |-> Head(open), anchors |-> DecisionTarget(m, Head(open)),
        moves |-> Moves(Head(open), m[Head(open)][PilotAnchor(m, Head(open))])]
Pilot(m) == Card(m, SelectSeq(Findings(m), LAMBDA c : c \notin Suppressed(m)))

-----------------------------------------------------------------------------
Init ==
  /\ tree \in Starting
  /\ decisions = None /\ today = 1 /\ said = {} /\ moved = {} /\ changes = 0

Did(n) == changes + n <= MaxEdits /\ changes' = changes + n
Grow ==
  /\ Did(1) /\ \E f \in Added \ tree : tree' = tree \cup {f}
  /\ UNCHANGED <<decisions, today, said, moved>>
Shrink ==
  /\ Did(1) /\ \E f \in Added \cap tree : tree' = tree \ {f} /\ moved' = moved \ {f}
  /\ UNCHANGED <<decisions, today, said>>

\* The moves of one card, as far as their targets are free and distinct.
Apply(moves) ==
  LET from == DOMAIN moves to == Range(moves) IN
  /\ Cardinality(to) = Cardinality(from) /\ to \cap (tree \ from) = {}
  /\ tree' = (tree \ from) \cup to /\ moved' = (moved \ from) \cup to
Follow ==
  /\ \E card \in {Pilot(Clusters)} : card # None /\ Apply(card.moves)
  /\ UNCHANGED <<decisions, today, said, changes>>

\* A verdict on the card, beside the old ones or over that on the same target.
Record(card, verdict, reviewBy, over) ==
  LET entry == [concept |-> card.concept, anchors |-> card.anchors, verdict |-> verdict, reviewBy |-> reviewBy]
      old == IF decisions \in {None, Broken} THEN {} ELSE decisions
      kept == {s \in said : s.concept # card.concept \/ s.places # Anchors(Clusters, card.concept)}
  IN /\ decisions' = {d \in old : over => ~SameTarget(d, entry)} \cup {entry}
     /\ said' = kept \cup {[concept |-> card.concept, places |-> Anchors(Clusters, card.concept),
                            verdict |-> verdict, until |-> reviewBy]}
Decide ==
  /\ Did(1)
  /\ \E card \in {Pilot(Clusters)} :
       /\ card # None
       /\ \E verdict \in {"accepted", "deferred", "rejected"}, reviewBy \in {None, Broken, 1}, over \in BOOLEAN :
            Record(card, verdict, reviewBy, over)
  /\ UNCHANGED <<tree, today, moved>>
\* The file is deleted, or left in a form that does not load.
Spoil ==
  /\ decisions \notin {None, Broken} /\ Did(1)
  /\ \E left \in {None, Broken} : decisions' = left
  /\ said' = {} /\ UNCHANGED <<tree, today, moved>>
NextDay == today < Days /\ today' = today + 1 /\ UNCHANGED <<tree, decisions, said, moved, changes>>

Next == Grow \/ Shrink \/ Follow \/ Decide \/ Spoil \/ NextDay
Spec == Init /\ [][Next]_vars

-----------------------------------------------------------------------------
\* A file that a pilot put in its place is not asked to move again, so that
\* following the cards comes to an end.  This fails for files a framework
\* named: under src/features they belong to a concept "features" of their own.
DoneIsDone(moves) == \A f \in DOMAIN moves : f \in moved => Last(f) \in Framework

\* Nothing under app/ or pages/ is asked to move, except a file that a
\* framework named beneath a directory that has told its concept already.
ConventionIsKept(moves) ==
  \A f \in DOMAIN moves : \A i \in 1..(Len(f) - 1) :
    f[i] \in {"app", "pages"} => Last(f) \in Framework /\ \E j \in Telling(f) : j < i

\* Two files of one card go to one place only if a framework named both.
TargetsAreDistinct(moves) ==
  \A f, g \in DOMAIN moves : f # g /\ moves[f] = moves[g] => Last(f) \in Framework

\* What was decided about the concepts where they are now, and is not up for review.
Silenced(m) ==
  {s.concept : s \in {x \in said : /\ x.places = Anchors(m, x.concept) /\ x.verdict # "accepted"
                                   /\ x.until # Broken /\ (x.until = None \/ x.until >= today)}}
Readable == decisions # Broken /\ (decisions # None => \A d, e \in decisions : SameTarget(d, e) => d = e)

\* Whoever deferred or rejected a card is not shown it again, however the
\* number of files changes, until the places change, the day of review has
\* passed or the file cannot be read; and nothing else silences a finding: one
\* that nobody silenced is proposed, except behind another such finding of
\* which nothing is left to move, perhaps because it was consolidated.
VerdictsAreHeeded(m, card, silenced) ==
  /\ card # None => card.concept \notin silenced
  /\ \A i \in DOMAIN Findings(m) :
       Findings(m)[i] \notin silenced =>
         \E c \in {Findings(m)[j] : j \in 1..i} \ silenced :
           \/ card # None /\ card.concept = c
           \/ \A f \in UNION Range(m[c]) :
                IsPrefix(TargetDir(c), f) \/ \E i1 \in 1..(Len(f) - 1) : f[i1] \in {"app", "pages"}

Sound(m, card) ==
  /\ card # None =>
       DoneIsDone(card.moves) /\ ConventionIsKept(card.moves) /\ TargetsAreDistinct(card.moves)
  /\ VerdictsAreHeeded(m, card, IF Readable THEN Silenced(m) ELSE {})
ReshapeIsSound == \A m \in {Clusters} : Sound(m, Pilot(m))
===============================================================================
