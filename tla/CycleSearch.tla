----------------------------- MODULE CycleSearch -----------------------------
(***************************************************************************)
(* detectArchitectureCycles of src/src/kernel/graphEvaluate.ts, one call   *)
(* of connect or one target of one call per step: the import cycles that   *)
(* fail an architecture check.                                             *)
(***************************************************************************)
EXTENDS Naturals, FiniteSets, SequencesExt

CONSTANTS
  Files,     \* governed files, a set of numbers: the sort order
  Outside    \* files that can be imported and are not governed

VARIABLES
  graph,       \* graph[f]: the files f imports values from
  counter,     \* index
  indices, low,
  stack,
  calls,       \* the active calls of connect: file and targets left
  components   \* the cycles reported so far
vars == <<graph, counter, indices, low, stack, calls, components>>

Unseen == Cardinality(Files)      \* no index yet
OnStack(f) == f \in Range(stack)
Sorted(S) == SetToSortSeq(S, LAMBDA a, b : a < b)
Lesser(a, b) == IF a < b THEN a ELSE b

Init ==
  /\ graph \in [Files -> SUBSET (Files \cup Outside)] /\ \A f \in Files : f \notin graph[f]
  /\ Cardinality({f \in Files : graph[f] \cap Outside # {}}) <= 1   \* bound on the instance
  /\ counter = 0
  /\ indices = [f \in Files |-> Unseen] /\ low = [f \in Files |-> Unseen]
  /\ stack = <<>> /\ calls = <<>> /\ components = {}

Targets(f) == Sorted(graph[f] \cap Files)

Connect(f) ==
  /\ indices' = [indices EXCEPT ![f] = counter]
  /\ low' = [low EXCEPT ![f] = counter]
  /\ counter' = counter + 1
  /\ stack' = Append(stack, f)
  /\ calls' = Append(calls, [file |-> f, targets |-> Targets(f)])
  /\ UNCHANGED <<graph, components>>

\* The outer loop: the first file without an index, in sort order.
NextRoot ==
  /\ calls = <<>>
  /\ \E f \in Files :
       /\ indices[f] = Unseen
       /\ \A g \in Files : g < f => indices[g] # Unseen
       /\ Connect(f)

Active == Last(calls)
Current == Head(Active.targets)

Descend ==
  /\ calls # <<>> /\ Active.targets # <<>>
  /\ indices[Current] = Unseen
  /\ Connect(Current)

StillOpen(f) == OnStack(f)

LookBack ==
  /\ calls # <<>> /\ Active.targets # <<>>
  /\ indices[Current] # Unseen
  /\ low' = IF StillOpen(Current)
              THEN [low EXCEPT ![Active.file] = Lesser(@, indices[Current])] ELSE low
  /\ calls' = [calls EXCEPT ![Len(calls)].targets = Tail(@)]
  /\ UNCHANGED <<graph, counter, indices, stack, components>>

\* Mutant: a caller does not learn how far back its callee reached.
KeepMark(caller, f) == low[caller]
CallerMark(caller, f) == Lesser(low[caller], low[f])

IsCycle(component) == Cardinality(component) > 1

\* The end of a call: close the component, then the caller takes the lower mark.
Return ==
  /\ calls # <<>> /\ Active.targets = <<>>
  /\ LET f == Active.file
         root == low[f] = indices[f]
         at == SelectInSeq(stack, LAMBDA g : g = f)
         component == Range(SubSeq(stack, at, Len(stack)))
     IN /\ stack' = IF root THEN SubSeq(stack, 1, at - 1) ELSE stack
        /\ components' = IF root /\ IsCycle(component)
                           THEN components \cup {component} ELSE components
        /\ IF Len(calls) = 1
             THEN calls' = <<>> /\ UNCHANGED low
             ELSE LET caller == calls[Len(calls) - 1].file IN
                  /\ calls' = [Front(calls) EXCEPT ![Len(calls) - 1].targets = Tail(@)]
                  /\ low' = [low EXCEPT ![caller] = CallerMark(caller, f)]
  /\ UNCHANGED <<graph, counter, indices>>

Step == NextRoot \/ Descend \/ LookBack \/ Return
Done == calls = <<>> /\ \A f \in Files : indices[f] # Unseen
Next == Step \/ (Done /\ UNCHANGED vars)
Spec == Init /\ [][Next]_vars

-----------------------------------------------------------------------------
\* The reference: files that reach one another.
RECURSIVE Closure(_)
Closure(S) == LET more == S \cup (Files \cap UNION {graph[f] : f \in S}) IN IF more = S THEN S ELSE Closure(more)
Reach(f) == Closure(graph[f] \cap Files)
Cycle(f) == {g \in Reach(f) : f \in Reach(g)}
Cycles == {Cycle(f) : f \in {g \in Files : Cycle(g) # {}}}

\* Numbers, stacks and calls keep their shape (type invariant).
TypeOK ==
  /\ counter \in 0..Cardinality(Files)
  /\ indices \in [Files -> 0..Unseen] /\ low \in [Files -> 0..Unseen]
  /\ stack \in Seq(Files) /\ components \subseteq SUBSET Files
  /\ \A i \in DOMAIN calls : calls[i].file \in Files /\ Range(calls[i].targets) \subseteq Files

\* A file that left the stack has its whole cycle reported, and nothing that is
\* not a cycle is ever reported: at any moment of the search, not only at the end.
FinishedIsClassified ==
  /\ components \subseteq Cycles
  /\ \A f \in Files : indices[f] # Unseen /\ ~OnStack(f) /\ Cycle(f) # {}
       => Cycle(f) \in components

\* The stack holds what may still close a cycle: every file on it reaches the
\* file of the innermost active call or one above it that is being visited.
StackIsOpen ==
  \A i \in DOMAIN stack : \E c \in DOMAIN calls :
    calls[c].file = stack[i] \/ calls[c].file \in Reach(stack[i])

\* What the search reports can be relied on while it runs and when it is done.
CyclesAreExact == TypeOK /\ FinishedIsClassified /\ StackIsOpen
=============================================================================
