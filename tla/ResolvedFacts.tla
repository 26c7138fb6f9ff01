----------------------------- MODULE ResolvedFacts -----------------------------
(***************************************************************************)
(* The facts every verdict rests on (bin/lib/resolved-candidate-facts and  *)
(* bin/lib/scan-files): what one read of the disk, overlaid with changes   *)
(* that are not written yet, says of the project, through directory links; *)
(* and the sealed payload that carries them to another process             *)
(* (src/domain/resolvedCandidateFacts.ts).  A hash is the value it is      *)
(* taken of.                                                               *)
(***************************************************************************)
EXTENDS Naturals, FiniteSets, SequencesExt

CONSTANTS
  RealOf,            \* directory, as the sequence of its names -> where it really is
  Outside,           \* a place outside the project
  PathRank,          \* directory -> its place in the order of path strings
  Skipped,           \* names no walk enters
  Governable,        \* names of source files that are not tests
  Sibling,           \* specifier "./b" -> b
  Aliased,           \* specifier -> the file that the paths of a mapped tsconfig give it
  Package, Throwing, \* specifiers of installed packages; those the resolver throws at
  Dynamic,           \* an import without a literal specifier
  Ambient, ArkLike, Unsafe, \* words for capabilities, intents by their form, and casts and suppressions
  Prefixed,          \* intent prefix -> the words it declares
  Configs, Starting, Requests, \* configurations, disks and sets of changes to start from
  None

VARIABLES config, disk, collected, written, payload, forged, verdict
vars == <<config, disk, collected, written, payload, forged, verdict>>

Dirs == DOMAIN RealOf
At(n) == <<RealOf[n[1]], n[2]>>
Exists(d, n) == At(n) \in DOMAIN d.files
Above(d) == {SubSeq(d, 1, k) : k \in 0 .. Len(d)}
Smallest(names) == CHOOSE n \in names : \A m \in names : PathRank[n[1]] <= PathRank[m[1]]
IsIncluded(c, d) == \E e \in c.include : IsPrefix(e, d)
IsExcluded(c, d) == \E x \in c.exclude : IsPrefix(x, d)
InScope(c, d) == IsIncluded(c, d) /\ ~IsExcluded(c, d)

-----------------------------------------------------------------------------
\* The walk from one included directory: it meets the directories of those it
\* entered, and enters each real directory once, under the name it met first.
Step(entry, w, d) ==
  IF d # entry /\ ~(d # <<>> /\ Front(d) \in w.entered /\ Last(d) \notin Skipped) THEN w
  ELSE [met |-> w.met \cup {d},
        entered |-> IF \E x \in w.entered : RealOf[x] = RealOf[d] THEN w.entered ELSE w.entered \cup {d}]
Walk(d, entry) == FoldLeft(LAMBDA w, x : Step(entry, w, x), [met |-> {}, entered |-> {}], d.order)

\* Files are discovered under names in scope; a real file goes by the smallest.
Met(c, d) == UNION {Walk(d, e).met : e \in c.include}
Entered(c, d) == {x \in UNION {Walk(d, e).entered : e \in c.include} : ~IsExcluded(c, x)}
Discovered(c, d) == {n \in Entered(c, d) \X Governable : Exists(d, n)}
CanonicalOf(discovered) ==
  [r \in {At(n) : n \in discovered} |-> Smallest({n \in discovered : At(n) = r})]
DirectoryAliases(c, d, discovered) == Met(c, d) \cup UNION {Above(n[1]) : n \in discovered}

\* Mutant: a change is filed under the name it was asked for by.
RequestedPath(c, d, discovered, n) == n
\* The name a change is filed under: that of the file it overwrites, else the
\* smallest name in scope that reaches the same place.
CanonicalOverlayPath(c, d, discovered, n) ==
  LET real == At(n)
      canonical == CanonicalOf(discovered)
      through == {a \in DirectoryAliases(c, d, discovered) \X Above(real[1]) : RealOf[a[1]] = a[2]}
      dirs == {n[1], real[1]} \cup {a[1] \o SubSeq(real[1], Len(a[2]) + 1, Len(real[1])) : a \in through}
      candidates == {<<x, n[2]>> : x \in {y \in dirs : InScope(c, y)}}
  IN IF real \in DOMAIN canonical THEN canonical[real]
     ELSE IF candidates = {} THEN n ELSE Smallest(candidates)

\* The tree with the changes over it, or a refusal.
Named(c, d, discovered, changes) ==
  [ch \in changes |->
     IF RealOf[ch.path[1]] = Outside THEN ch.path ELSE CanonicalOverlayPath(c, d, discovered, ch.path)]
Refused(c, d, changes, named) ==
  \/ \E x \in Met(c, d) : RealOf[x] = Outside
  \/ \E ch \in changes : RealOf[ch.path[1]] = Outside
  \/ \E a, b \in changes : a # b /\ named[a] = named[b]
Overlaid(c, d, changes, scanned, named) ==
  LET over == {ch \in changes : ch.to # None /\ named[ch][2] \in Governable /\ InScope(c, named[ch][1])}
      gone == {named[ch] : ch \in {x \in changes : x.to = None}}
  IN [refused |-> Refused(c, d, changes, named), named |-> named,
      files |-> [n \in (scanned \ gone) \cup {named[ch] : ch \in over} |->
                   IF \E ch \in over : named[ch] = n THEN (CHOOSE ch \in over : named[ch] = n).to ELSE d.files[At(n)]]]
CandidateFiles(c, d, changes) ==
  LET discovered == Discovered(c, d) IN
  Overlaid(c, d, changes, Range(CanonicalOf(discovered)), Named(c, d, discovered, changes))

-----------------------------------------------------------------------------
\* The module host: names of files and of changes that TypeScript is to see,
\* and names it must not see, before it asks the disk.
Known(d, candidate, changes) ==
  LET files == DOMAIN candidate.files
      placed == {ch \in changes : ch.to # None}
      changed == {candidate.named[ch] : ch \in placed} \cup {ch.path : ch \in placed}
  IN [n \in files \cup changed \cup {At(f) : f \in {x \in files : Exists(d, x)}} |->
        IF n \in changed THEN candidate.named[CHOOSE ch \in placed : n \in {ch.path, candidate.named[ch]}]
        ELSE IF n \in files THEN n ELSE CHOOSE f \in files : Exists(d, f) /\ At(f) = n]
Deleted(d, candidate, changes) ==
  LET names == UNION {{ch.path, candidate.named[ch]} : ch \in {x \in changes : x.to = None}} IN
  names \cup {At(n) : n \in {x \in names : Exists(d, x)}}
Host(d, candidate, changes) ==
  [disk |-> d, known |-> Known(d, candidate, changes), deleted |-> Deleted(d, candidate, changes)]
FileExists(host, n) == n \notin host.deleted /\ (n \in DOMAIN host.known \/ Exists(host.disk, n))
CandidatePath(host, n) ==
  CASE n \in DOMAIN host.known -> host.known[n]
    [] n \notin DOMAIN host.known /\ At(n) \in DOMAIN host.known -> host.known[At(n)]
    [] OTHER -> At(n)

\* The tsconfig of a file is the nearest one above its name.
NearestTsconfig(d, n) ==
  LET with == {x \in Above(n[1]) : d.settings[RealOf[x]] # None} IN
  IF with = {} THEN None ELSE CHOOSE x \in with : \A y \in with : Len(y) <= Len(x)
SettingsFor(d, n) == LET x == NearestTsconfig(d, n) IN IF x = None THEN None ELSE d.settings[RealOf[x]]

\* TypeScript's resolution of a specifier, and the fallback of a relative one.
Means(d, from, s) ==
  CASE s \in DOMAIN Sibling -> <<from[1], Sibling[s]>>
    [] s \in DOMAIN Aliased /\ s \notin Throwing /\ SettingsFor(d, from) = "mapped" -> Aliased[s]
    [] OTHER -> None
ResolveDependency(host, from, s) ==
  LET n == Means(host.disk, from, s) IN
  CASE s = Dynamic -> [resolution |-> "dynamic", target |-> None]
    [] s \in Package \ Throwing -> [resolution |-> "resolved-external", target |-> None]
    [] n # None /\ FileExists(host, n) -> [resolution |-> "resolved-project", target |-> CandidatePath(host, n)]
    [] OTHER -> [resolution |-> "unresolved", target |-> None]

-----------------------------------------------------------------------------
\* The facts.
Requirements(c) == [include |-> c.include, exclude |-> c.exclude, globals |-> c.globals, prefixes |-> c.prefixes]

DeclaredIntent(c, word) == word \in ArkLike \/ \E p \in c.prefixes : word \in Prefixed[p]
PolicyFacts(c, files) ==
  [uses |-> {<<n, w>> \in (DOMAIN files) \X UNION {files[n].words : n \in DOMAIN files} :
               w \in files[n].words /\ w \in Ambient \cup c.globals},
   intents |-> {<<n, w>> \in (DOMAIN files) \X UNION {files[n].words : n \in DOMAIN files} :
                  w \in files[n].words /\ DeclaredIntent(c, w)},
   safety |-> {<<n, w>> \in (DOMAIN files) \X (Unsafe \cup {Dynamic}) : w \in files[n].words \cup files[n].imports},
   shapes |-> {n \in DOMAIN files : files[n].shape}]
Dependency(files, host, from, s) ==
  LET r == ResolveDependency(host, from, s) IN
  [from |-> from, specifier |-> IF s = Dynamic THEN None ELSE s, resolution |-> r.resolution, target |-> r.target,
   pure |-> files[from].types, typeOnly |-> r.target \in DOMAIN files /\ files[r.target].types]
CompilerReasons(d, files) ==
  {<<"TSCONFIG_PARSE_FAILURE", x>> : x \in {y \in {NearestTsconfig(d, n) : n \in DOMAIN files} \ {None} :
                                              d.settings[RealOf[y]] = "broken"}}
Reasons(d, files) ==
  CompilerReasons(d, files)
  \cup {<<"PARSE_FAILURE", n>> : n \in {x \in DOMAIN files : files[x].broken}}
  \cup {<<"MODULE_RESOLUTION_FAILURE", n>> : n \in {x \in DOMAIN files : files[x].imports \cap Throwing # {}}}
FileFact(files, n) ==
  [path |-> n, content |-> files[n], invalid |-> files[n].broken, diagnostics |-> IF files[n].broken THEN 1 ELSE 0]
UnavailableFacts(c) ==
  [completeness |-> "unavailable", reasons |-> {<<"RESOLVER_UNAVAILABLE", None>>}, requirements |-> Requirements(c),
   compiler |-> {}, files |-> {}, dependencies |-> {}, policy |-> PolicyFacts(c, <<>>)]
AvailableFacts(c, d, files, host, reasons) ==
  [completeness |-> IF reasons = {} THEN "complete" ELSE "partial", reasons |-> reasons,
   requirements |-> Requirements(c),
   compiler |-> {<<x, d.settings[RealOf[x]]>> : x \in {NearestTsconfig(d, n) : n \in DOMAIN files} \ {None}},
   files |-> {FileFact(files, n) : n \in DOMAIN files},
   dependencies |-> UNION {{Dependency(files, host, n, s) : s \in files[n].imports} : n \in DOMAIN files},
   policy |-> PolicyFacts(c, files)]
FactsOf(c, d, changes, candidate) ==
  IF candidate.refused THEN UnavailableFacts(c)
  ELSE AvailableFacts(c, d, candidate.files, Host(d, candidate, changes), Reasons(d, candidate.files))
ResolveCandidateFacts(c, d, changes) == FactsOf(c, d, changes, CandidateFiles(c, d, changes))

-----------------------------------------------------------------------------
\* The payload: what may be created and loaded.
TreeOf(facts) == {<<f.path, f.content>> : f \in facts.files}
Seal(facts) == [facts |-> facts, tree |-> TreeOf(facts), hash |-> facts]

ReasonsExplain(facts) == facts.completeness = "complete" <=> facts.reasons = {}
FilesParse(facts) ==
  /\ \A f, g \in facts.files : f.path = g.path => f = g
  /\ \A f \in facts.files : f.invalid <=> f.diagnostics # 0
  /\ facts.completeness = "complete" => \A f \in facts.files : ~f.invalid
DependenciesParse(facts) ==
  \A x \in facts.dependencies :
    /\ x.resolution = "resolved-project" <=> x.target # None
    /\ x.resolution # "dynamic" => x.specifier # None
    /\ \E f \in facts.files : f.path = x.from
UsesParse(facts) ==
  \A x \in facts.policy.uses \cup facts.policy.intents \cup facts.policy.safety : \E f \in facts.files : f.path = x[1]
Parses(facts) == ReasonsExplain(facts) /\ FilesParse(facts) /\ DependenciesParse(facts) /\ UsesParse(facts)
Loads(p) == Parses(p.facts) /\ p.hash = p.facts /\ p.tree = TreeOf(p.facts)
Verdict(p, c) ==
  CASE ~Loads(p) -> "refused"
    [] Loads(p) /\ p.facts.requirements # Requirements(c) -> "unavailable"
    [] OTHER -> p.facts.completeness

-----------------------------------------------------------------------------
Init ==
  /\ config \in Configs /\ disk \in Starting
  /\ collected = None /\ written = FALSE /\ payload = None /\ forged = "no" /\ verdict = None

Collect ==
  /\ collected = None
  /\ \E changes \in Requests :
       LET facts == ResolveCandidateFacts(config, disk, changes) IN
       /\ collected' = [config |-> config, disk |-> disk, changes |-> changes, facts |-> facts]
       /\ payload' = Seal(facts)
  /\ UNCHANGED <<config, disk, written, forged, verdict>>

\* The changes are written as they were asked for.
After(d, changes) ==
  LET touched == {At(ch.path) : ch \in changes}
      kept == (DOMAIN d.files \ touched) \cup {At(ch.path) : ch \in {x \in changes : x.to # None}} IN
  [d EXCEPT !.files = [r \in kept |-> IF r \in touched THEN (CHOOSE ch \in changes : At(ch.path) = r).to ELSE d.files[r]]]
Write ==
  /\ collected # None /\ collected.changes # {} /\ ~written /\ collected.facts.completeness # "unavailable"
  /\ disk' = After(disk, collected.changes) /\ written' = TRUE
  /\ UNCHANGED <<config, collected, payload, forged, verdict>>

Reconfigure ==
  /\ collected # None /\ collected.changes = {} /\ config = collected.config /\ forged = "no" /\ verdict = None
  /\ config' \in Configs \ {config}
  /\ UNCHANGED <<disk, collected, written, payload, forged, verdict>>

\* One part of the payload is overwritten, its tree hash with it or not, and then
\* its hash taken anew; bound: the configuration moves or the payload is edited.
Forgeries(facts) ==
  {[facts EXCEPT !.completeness = x] : x \in {"complete", "partial"}}
  \cup {[facts EXCEPT !.reasons = {}]} \cup {[facts EXCEPT !.reasons = {}, !.completeness = "complete"]}
  \cup {[facts EXCEPT !.files = @ \ {f}] : f \in facts.files}
  \cup {[facts EXCEPT !.files = (@ \ {f}) \cup {[f EXCEPT !.diagnostics = 1 - @]}] : f \in facts.files}
  \cup {[facts EXCEPT !.files = (@ \ {f}) \cup {[f EXCEPT !.diagnostics = 0, !.invalid = FALSE]}] : f \in facts.files}
  \cup {[facts EXCEPT !.files = @ \cup {[f EXCEPT !.diagnostics = 1, !.invalid = TRUE]}] : f \in facts.files}
  \cup {[facts EXCEPT !.dependencies = @ \ {x}] : x \in facts.dependencies}
  \cup {[facts EXCEPT !.dependencies = (@ \ {x}) \cup {[x EXCEPT !.target = t]}] : x \in facts.dependencies,
        t \in {None} \cup {f.path : f \in facts.files}}
  \cup {[facts EXCEPT !.dependencies = (@ \ {x}) \cup {[x EXCEPT !.resolution = "dynamic"]}] : x \in facts.dependencies}
  \cup {[facts EXCEPT !.policy.uses = {}]}
  \cup {[facts EXCEPT !.requirements = Requirements(c)] : c \in Configs}
Forge ==
  /\ collected # None /\ collected.changes = {} /\ config = collected.config /\ forged = "no" /\ verdict = None
  /\ \E facts \in Forgeries(payload.facts) \ {payload.facts} :
       \E p \in {[payload EXCEPT !.facts = facts], [payload EXCEPT !.facts = facts, !.tree = TreeOf(facts)]} : payload' = p
  /\ forged' = "edited"
  /\ UNCHANGED <<config, disk, collected, written, verdict>>
Rehash ==
  /\ forged = "edited" /\ verdict = None
  /\ payload' = Seal(payload.facts) /\ forged' = "rehashed"
  /\ UNCHANGED <<config, disk, collected, written, verdict>>
Analyze ==
  /\ collected # None /\ collected.changes = {} /\ verdict = None
  /\ verdict' = Verdict(payload, config)
  /\ UNCHANGED <<config, disk, collected, written, payload, forged>>
Next == Collect \/ Write \/ Reconfigure \/ Forge \/ Rehash \/ Analyze
Spec == Init /\ [][Next]_vars

-----------------------------------------------------------------------------
\* What was said of changes before they were written is what the tree says of
\* itself afterwards, for changes the code can foresee: the scan enters the
\* place, and calls a new file there by the smallest name in scope, or no name
\* is in scope and the real one is used; and the two names the resolver is told
\* are all that a file which comes or goes has.
NamesOf(n) == {<<x, n[2]>> : x \in {y \in Dirs : RealOf[y] = RealOf[n[1]]}}
Foreseen(c, d, ch) ==
  LET inScope == {x \in NamesOf(ch.path) : InScope(c, x[1])}
      scanned == {x \in NamesOf(ch.path) : x[1] \in Entered(c, d)}
  IN /\ IF inScope = {} THEN ch.path = At(ch.path)
        ELSE scanned # {} /\ (Exists(d, ch.path) \/ Smallest(inScope) \in scanned)
     /\ \/ ch.to # None /\ Exists(d, ch.path)
        \/ NamesOf(ch.path) \subseteq {ch.path} \cup {Smallest(x) : x \in {scanned} \ {{}}}
PredictionHolds ==
  written /\ (\A ch \in collected.changes : Foreseen(collected.config, collected.disk, ch))
    => collected.facts = ResolveCandidateFacts(collected.config, disk, {})

\* A payload nobody edited loads; one that does was collected, or hashed anew;
\* and no verdict is complete on facts the configuration in force would not
\* have collected, nor on a broken file.
VerdictIsFounded ==
  verdict # None =>
    /\ forged = "no" => verdict # "refused"
    /\ forged = "edited" => verdict = "refused"
    /\ verdict = "complete" =>
         /\ payload.facts.reasons = {} /\ \A f \in payload.facts.files : ~f.invalid
         /\ \A x \in payload.facts.dependencies : \E f \in payload.facts.files : f.path = x.from
         /\ forged = "no" => payload.facts = ResolveCandidateFacts(config, collected.disk, {})

FactsAreSound == PredictionHolds /\ VerdictIsFounded
===============================================================================
