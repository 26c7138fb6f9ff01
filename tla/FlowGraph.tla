------------------------------ MODULE FlowGraph ------------------------------
(***************************************************************************)
(* src/src/kernel/graph: the dependency graph of a running kernel, filled  *)
(* by three writers (declared dependencies, declared productions, observed *)
(* event flows) and searched for cycles by detectViolations.               *)
(***************************************************************************)
EXTENDS Naturals, SequencesExt

CONSTANTS
  Node,
  Kind,       \* of an edge: "declared", "produces" or "observed"
  MaxEdges    \* bound on the instance
VARIABLES
  nodes,   \* in order of registration
  edges    \* in order of registration
vars == <<nodes, edges>>

Init == nodes = <<>> /\ edges = <<>>

EnsureNode(ns, n) == IF n \in Range(ns) THEN ns ELSE Append(ns, n)

Exists(edge) == edge \in Range(edges)

\* registerDependency, registerEventFlow
Register(from, to, kind) ==
  LET edge == [from |-> from, to |-> to, kind |-> kind] IN
  /\ Len(edges) < MaxEdges
  /\ nodes' = EnsureNode(EnsureNode(nodes, from), to)
  /\ edges' = IF Exists(edge) THEN edges ELSE Append(edges, edge)

Next == \E from, to \in Node, kind \in Kind : Register(from, to, kind)
Spec == Init /\ [][Next]_vars

-----------------------------------------------------------------------------
\* findSimpleCycles

Neighbours(n) == LET out == SelectSeq(edges, LAMBDA e : e.from = n)
                 IN [i \in DOMAIN out |-> out[i].to]
Sources == FoldLeft(LAMBDA ns, e : EnsureNode(ns, e.from), <<>>, edges)

Pop(stack) == Front(stack)

ClosesCycle(stack, n) == n \in Range(stack)

RECURSIVE Dfs(_, _)
Dfs(search, n) ==
  LET entered == [search EXCEPT !.visited = @ \cup {n}, !.stack = Append(@, n)]
      Look(s, m) ==
        IF m \notin s.visited THEN Dfs(s, m)
        ELSE IF ~ClosesCycle(s.stack, m) THEN s
        ELSE LET start == SelectInSeq(s.stack, LAMBDA k : k = m)
                 cycle == Append(SubSeq(s.stack, start, Len(s.stack)), m)
             IN  [s EXCEPT !.cycles = @ \cup {cycle}]
      left == FoldLeft(Look, entered, Neighbours(n))
  IN  [left EXCEPT !.stack = Pop(@)]

FindSimpleCycles ==
  LET Root(s, n) == IF n \in s.visited THEN s ELSE Dfs(s, n)
      nothing == [visited |-> {}, stack |-> <<>>, cycles |-> {}]
  IN  FoldLeft(Root, nothing, Sources).cycles

-----------------------------------------------------------------------------
Step(S) == S \cup {m \in Node : \E n \in S, e \in Range(edges) : e.from = n /\ e.to = m}
Successors(n) == {m \in Node : \E e \in Range(edges) : e.from = n /\ e.to = m}
RECURSIVE Closure(_)
Closure(S) == IF Step(S) = S THEN S ELSE Closure(Step(S))
Tangle(n) == {m \in Closure(Successors(n)) : n \in Closure(Successors(m))}

\* Nodes and edges keep their shape and are listed once (type invariant).
TypeOK ==
  /\ nodes \in Seq(Node) /\ edges \in Seq([from : Node, to : Node, kind : Kind])
  /\ IsInjective(nodes) /\ IsInjective(edges)
  /\ \A e \in Range(edges) : {e.from, e.to} \subseteq Range(nodes)

\* Whatever the order of registration, every tangle of the graph (nodes that
\* reach one another, or a node that reaches itself) is named by a reported cycle.
EveryTangleIsNamed ==
  \A n \in Range(nodes) : Tangle(n) # {} =>
    \E c \in FindSimpleCycles : Range(c) \subseteq Tangle(n)

\* A reported cycle is a closed walk along registered edges that meets no node
\* twice: what is reported can be followed, and nothing acyclic is reported.
ReportedCycleIsAWalk ==
  \A c \in FindSimpleCycles :
    /\ c[1] = Last(c) /\ Len(c) > 1 /\ IsInjective(Front(c))
    /\ \A i \in 1 .. Len(c) - 1 : c[i + 1] \in Successors(c[i])

\* The three together: what detectViolations says of cycles can be relied on.
CyclesAreNamed == TypeOK /\ EveryTangleIsNamed /\ ReportedCycleIsAWalk
=============================================================================
