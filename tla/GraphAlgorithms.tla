-------------------------- MODULE GraphAlgorithms --------------------------
(* The graph type of the algorithms crate and its algorithms (graphs.rs),   *)
(* with the processor that runs them over an edge list                      *)
(* (algorithm_engine.rs).  A graph is built one edge or node at a time, and *)
(* every algorithm is a function of the graph built so far.                 *)
(*                                                                          *)
(* Weights are natural numbers: the code takes any f64, and neither         *)
(* Dijkstra nor A* is meant for negative ones.  A heap of reversed pairs is *)
(* the set of its pairs: a node is pushed again only with a smaller key, so *)
(* that no pair is there twice.                                             *)
EXTENDS Integers, Sequences, FiniteSets, SequencesExt, FiniteSetsExt, Functions, Absent

CONSTANTS Node,           \* the node numbers of the input
          Weight,         \* the weights of its edges
          MaxLines        \* bound: lines of the input

VARIABLES graph, lines
graphVars == <<graph, lines>>

EmptyGraph(directed) == [adj |-> <<>>, count |-> 0, directed |-> directed]

Neighbors(g, n) == IF n \in DOMAIN g.adj THEN g.adj[n] ELSE <<>>
Targets(g, n) == [i \in DOMAIN Neighbors(g, n) |-> Neighbors(g, n)[i][1]]
Linked(adj, from, to, weight) ==
  [n \in DOMAIN adj \cup {from} |->
     (IF n \in DOMAIN adj THEN adj[n] ELSE <<>>)
       \o (IF n = from THEN <<<<to, weight>>>> ELSE <<>>)]
AddEdge(g, from, to, weight) ==
  LET one == Linked(g.adj, from, to, weight)
  IN [g EXCEPT !.count = Max({@, from + 1, to + 1}),
               !.adj = IF g.directed THEN one ELSE Linked(one, to, from, weight)]
AddNode(g, n) ==
  [g EXCEPT !.count = Max({@, n + 1}),
            !.adj = [m \in DOMAIN @ \cup {n} |-> IF m \in DOMAIN @ THEN @[m] ELSE <<>>]]
\* nodes(): only the nodes the adjacency map has a key for
Nodes(g) == SetToSortSeq(DOMAIN g.adj, <)
NodeCount(g) ==
  Max({g.count} \cup {n + 1 : n \in DOMAIN g.adj}
        \cup UNION {{t + 1 : t \in Range(Targets(g, n))} : n \in DOMAIN g.adj})
EdgesOf(g) ==
  FlattenSeq([i \in DOMAIN Nodes(g) |->
    [j \in DOMAIN Neighbors(g, Nodes(g)[i]) |->
       <<Nodes(g)[i], Neighbors(g, Nodes(g)[i])[j][1], Neighbors(g, Nodes(g)[i])[j][2]>>]])
Transpose(g) ==
  FoldLeft(LAMBDA t, e : AddEdge(t, e[2], e[1], e[3]),
           FoldLeft(AddNode, EmptyGraph(TRUE), Nodes(g)), EdgesOf(g))

----------------------------------------------------------------------------
(* Traversals *)

RECURSIVE BfsFrom(_, _, _, _)
BfsFrom(g, queue, visited, order) ==
  IF queue = <<>> THEN order
  ELSE LET found == FoldLeft(LAMBDA f, n : IF n \in visited \cup Range(f) THEN f ELSE Append(f, n),
                             <<>>, Targets(g, Head(queue)))
       IN BfsFrom(g, Tail(queue) \o found, visited \cup Range(found), Append(order, Head(queue)))
Bfs(g, start) == BfsFrom(g, <<start>>, {start}, <<>>)

RECURSIVE DfsRecursive(_, _, _)
DfsRecursive(g, n, order) ==
  IF n \in Range(order) THEN order
  ELSE FoldLeft(LAMBDA o, m : DfsRecursive(g, m, o), Append(order, n), Targets(g, n))
Dfs(g, start) == DfsRecursive(g, start, <<>>)

----------------------------------------------------------------------------
(* Strongly connected components *)

RECURSIVE StrongConnect(_, _, _)
StrongConnect(g, n, s) ==
  LET Lower(t, m, v) == [t EXCEPT !.low[m] = Min({@, v})]
      Look(t, m) ==
        IF m \notin DOMAIN t.index
        THEN LET u == StrongConnect(g, m, t) IN Lower(u, n, u.low[m])
        ELSE IF m \in Range(t.stack) THEN Lower(t, n, t.index[m]) ELSE t
      entered == [next |-> s.next + 1,
                  index |-> [m \in DOMAIN s.index \cup {n} |-> IF m = n THEN s.next ELSE s.index[m]],
                  low |-> [m \in DOMAIN s.low \cup {n} |-> IF m = n THEN s.next ELSE s.low[m]],
                  stack |-> Append(s.stack, n), sccs |-> s.sccs]
      done == FoldLeft(Look, entered, Targets(g, n))
      base == CHOOSE i \in DOMAIN done.stack : done.stack[i] = n
  IN IF done.low[n] # done.index[n] THEN done
     ELSE [done EXCEPT !.stack = SubSeq(@, 1, base - 1),
                       !.sccs = Append(@, Range(SubSeq(done.stack, base, Len(done.stack))))]
TarjanScc(g) ==
  FoldLeft(LAMBDA s, n : IF n \in DOMAIN s.index THEN s ELSE StrongConnect(g, n, s),
           [next |-> 0, index |-> <<>>, low |-> <<>>, stack |-> <<>>, sccs |-> <<>>],
           Nodes(g)).sccs

\* dfs1: nodes in the order they are left
RECURSIVE LeaveOrder(_, _, _)
LeaveOrder(g, n, s) ==
  IF n \in s.visited THEN s
  ELSE LET below == FoldLeft(LAMBDA t, m : LeaveOrder(g, m, t),
                             [s EXCEPT !.visited = @ \cup {n}], Targets(g, n))
       IN [below EXCEPT !.order = Append(@, n)]
\* dfs2: what is newly assigned from n
RECURSIVE Gather(_, _, _)
Gather(g, n, assigned) ==
  IF n \in assigned THEN assigned
  ELSE FoldLeft(LAMBDA a, m : Gather(g, m, a), assigned \cup {n}, Targets(g, n))
Components(g, order) ==
  LET Assign(s, n) ==
        IF n \in s.assigned THEN s
        ELSE LET all == Gather(g, n, s.assigned)
             IN [assigned |-> all, sccs |-> Append(s.sccs, all \ s.assigned)]
  IN FoldLeft(Assign, [assigned |-> {}, sccs |-> <<>>], order).sccs
KosarajuScc(g) ==
  Components(Transpose(g),
    Reverse(FoldLeft(LAMBDA s, n : LeaveOrder(g, n, s), [visited |-> {}, order |-> <<>>], Nodes(g)).order))

----------------------------------------------------------------------------
(* Shortest paths *)

Known(d, n) == n \in DOMAIN d
Put(d, n, v) == [m \in DOMAIN d \cup {n} |-> IF m = n THEN v ELSE d[m]]
LeastOf(heap) ==
  CHOOSE x \in heap : \A y \in heap : x[1] < y[1] \/ (x[1] = y[1] /\ x[2] <= y[2])

RelaxOnce(s, n, d, e) ==
  IF Known(s.dist, e[1]) THEN s
  ELSE [dist |-> Put(s.dist, e[1], d + e[2]), prev |-> Put(s.prev, e[1], n),
        heap |-> s.heap \cup {<<d + e[2], e[1]>>}]
\* an edge out of a node popped at distance d
Relax(s, n, d, e) ==
  IF Known(s.dist, e[1]) /\ d + e[2] >= s.dist[e[1]] THEN s
  ELSE [dist |-> Put(s.dist, e[1], d + e[2]), prev |-> Put(s.prev, e[1], n),
        heap |-> s.heap \cup {<<d + e[2], e[1]>>}]
RECURSIVE DijkstraLoop(_, _)
DijkstraLoop(g, s) ==
  IF s.heap = {} THEN s
  ELSE LET top == LeastOf(s.heap)
           popped == [s EXCEPT !.heap = @ \ {top}]
       IN DijkstraLoop(g, IF top[1] > s.dist[top[2]] THEN popped
                          ELSE FoldLeft(LAMBDA t, e : Relax(t, top[2], top[1], e), popped,
                                        Neighbors(g, top[2])))
Single(n, v) == [m \in {n} |-> v]
Dijkstra(g, start) ==
  DijkstraLoop(g, [dist |-> Single(start, 0), prev |-> <<>>, heap |-> {<<0, start>>}])

RECURSIVE BackFrom(_, _)
BackFrom(prev, path) ==
  IF Known(prev, Head(path)) THEN BackFrom(prev, <<prev[Head(path)]>> \o path) ELSE path
ShortestPath(g, start, goal) ==
  LET s == Dijkstra(g, start)
  IN IF Known(s.dist, goal) THEN [dist |-> s.dist[goal], path |-> BackFrom(s.prev, <<goal>>)]
     ELSE Nothing

\* estimate[n]: what the heuristic says of n and the goal
RECURSIVE AStarLoop(_, _, _, _)
AStarLoop(g, estimate, goal, s) ==
  IF s.open = {} THEN Nothing
  ELSE LET top == LeastOf(s.open)
           n == top[2]
           Better(t, e) ==
             LET tentative == t.score[n] + e[2]
             IN IF Known(t.score, e[1]) /\ tentative >= t.score[e[1]] THEN t
                ELSE [score |-> Put(t.score, e[1], tentative), from |-> Put(t.from, e[1], n),
                      open |-> t.open \cup {<<tentative + estimate[e[1]], e[1]>>}]
       IN IF n = goal THEN [dist |-> s.score[goal], path |-> BackFrom(s.from, <<goal>>)]
          ELSE AStarLoop(g, estimate, goal,
                 FoldLeft(Better, [s EXCEPT !.open = @ \ {top}], Neighbors(g, n)))
AStar(g, start, goal, estimate) ==
  AStarLoop(g, estimate, goal,
            [score |-> Single(start, 0), from |-> <<>>, open |-> {<<estimate[start], start>>}])

----------------------------------------------------------------------------
(* PageRank with exact fractions: after k rounds the ranks are the numbers  *)
(* returned over the unit n * (n * D * q)^k, with damping p / q and D a     *)
(* multiple of every out-degree.  Only nodes() has a rank.                  *)

DistinctTargets(g, u) == Cardinality(Range(Targets(g, u)))
OutDegree(g, u) == Len(g.adj[u])
RankRound(g, p, q, D, r) ==
  LET keys == DOMAIN g.adj
      n == Cardinality(keys)
      In(u, v) == Cardinality({i \in DOMAIN Targets(g, u) : Targets(g, u)[i] = v})
      dangling == FoldFunctionOnSet(LAMBDA x, y : x + y, 0, r.rank, {u \in keys : g.adj[u] = <<>>})
      flow == [u \in keys |-> IF g.adj[u] = <<>> THEN 0 ELSE n * (D \div OutDegree(g, u)) * r.rank[u]]
  IN [unit |-> r.unit * n * D * q,
      rank |-> [v \in keys |->
        r.unit * D * (q - p)
          + p * FoldFunction(LAMBDA x, y : x + y, 0, [u \in keys |-> In(u, v) * flow[u]])
          + p * D * dangling]]
RECURSIVE PageRank(_, _, _, _, _)
PageRank(g, p, q, D, iterations) ==
  IF iterations = 0 THEN [unit |-> Cardinality(DOMAIN g.adj), rank |-> [v \in DOMAIN g.adj |-> 1]]
  ELSE RankRound(g, p, q, D, PageRank(g, p, q, D, iterations - 1))

----------------------------------------------------------------------------
(* The processor: each request builds a directed graph from the lines it    *)
(* reads, and every traversal starts at node 0, whether the input names it  *)
(* or not.                                                                  *)

NoGraph == "no graph nodes found"
Fails(g) == NodeCount(g) = 0
RunBfs(g) == IF Fails(g) THEN NoGraph ELSE Bfs(g, 0)
RunDfs(g) == IF Fails(g) THEN NoGraph ELSE Dfs(g, 0)
RunDijkstra(g) == IF Fails(g) THEN NoGraph ELSE Dijkstra(g, 0).dist
RunTarjan(g) == IF Fails(g) THEN NoGraph ELSE TarjanScc(g)
RunPagerank(g) == IF Fails(g) THEN NoGraph ELSE PageRank(g, 1, 2, 12, 2)
Apart(a, b) == IF a > b THEN a - b ELSE b - a
RunAStar(g) ==
  IF Fails(g) THEN NoGraph
  ELSE LET goal == NodeCount(g) - 1 IN AStar(g, 0, goal, [n \in 0..goal |-> Apart(n, goal)])

GraphInit == graph = EmptyGraph(TRUE) /\ lines = 0
\* a line whose weight is missing or does not parse has weight 1
EdgeListToGraph ==
  /\ lines < MaxLines
  /\ lines' = lines + 1
  /\ \E from, to \in Node, weight \in Weight : graph' = AddEdge(graph, from, to, weight)
GraphNext == EdgeListToGraph

----------------------------------------------------------------------------
(* Reference definitions *)

\* the reference: least weights by relaxing every edge once per node
RECURSIVE Best(_, _, _)
Best(g, d, rounds) ==
  IF rounds = 0 THEN d
  ELSE Best(g, FoldLeft(LAMBDA b, e : IF Known(b, e[1])
                                         /\ (~Known(b, e[2]) \/ b[e[1]] + e[3] < b[e[2]])
                                      THEN Put(b, e[2], b[e[1]] + e[3]) ELSE b, d, EdgesOf(g)),
            rounds - 1)
LeastWeights(g, start) == Best(g, Single(start, 0), NodeCount(g))
Mentioned(g) == DOMAIN g.adj \cup UNION {Range(Targets(g, n)) : n \in DOMAIN g.adj}
ReachOf(g) == [n \in Mentioned(g) |-> DOMAIN LeastWeights(g, n)]
Weighed(g, path) ==
  FoldLeft(LAMBDA w, i : w + Min({e[2] : e \in {x \in Range(Neighbors(g, path[i])) : x[1] = path[i + 1]}}),
           0, [i \in 1..(Len(path) - 1) |-> i])

\* The ranks add up to one as long as every node an edge leads to is one of nodes(); an edge to
\* a node without a key of its own loses the rank it carries, and rank is never created.
RankIsConserved ==
  lines > 0 =>
    LET r == RunPagerank(graph)
        total == FoldFunction(LAMBDA x, y : x + y, 0, r.rank)
    IN /\ total <= r.unit
       /\ (total = r.unit) = (Mentioned(graph) = DOMAIN graph.adj)

\* The traversals, the shortest paths and the components are about the same graph: both
\* traversals visit what is reachable once, Dijkstra's distances are the least ones and its path
\* has that weight, both component algorithms return the classes of mutual reachability, each
\* once and Tarjan's sinks first, and the ranks add up as RankIsConserved says.  A* finds a path
\* when there is one, of no more weight than it says; the weight is the least one under an
\* estimate that is never more than what is left, which no estimate and the exact one are, and
\* which the processor's, the difference of the node numbers, is only on some graphs.
GraphAnswersAgree ==
  LET reach == ReachOf(graph)
      goal == NodeCount(graph) - 1
      short == ShortestPath(graph, 0, goal)
      left == [n \in 0..goal |-> IF n \notin DOMAIN reach \/ goal \notin reach[n] THEN 99
                                ELSE LeastWeights(graph, n)[goal]]
      FoundBy(estimate, a) ==
        /\ (a = Nothing) = (short = Nothing)
        /\ a # Nothing => short.dist <= Weighed(graph, a.path) /\ Weighed(graph, a.path) <= a.dist
        /\ a # Nothing /\ (\A n \in 0..goal : estimate[n] <= left[n]) => a.dist = short.dist
      classes == {{m \in reach[n] : n \in reach[m]} : n \in Mentioned(graph)}
      sinksFirst == TarjanScc(graph)
  IN lines > 0 =>
     /\ IsInjective(Bfs(graph, 0)) /\ Range(Bfs(graph, 0)) = DOMAIN LeastWeights(graph, 0)
     /\ IsInjective(Dfs(graph, 0)) /\ Range(Dfs(graph, 0)) = Range(Bfs(graph, 0))
     /\ RunDijkstra(graph) = LeastWeights(graph, 0)
     /\ (short # Nothing => Weighed(graph, short.path) = short.dist)
     /\ \A estimate \in {[n \in 0..goal |-> 0], left} : FoundBy(estimate, AStar(graph, 0, goal, estimate))
     /\ FoundBy([n \in 0..goal |-> Apart(n, goal)], RunAStar(graph))
     /\ Range(sinksFirst) = classes /\ IsInjective(sinksFirst)
     /\ Range(KosarajuScc(graph)) = classes /\ IsInjective(KosarajuScc(graph))
     /\ \A i, j \in DOMAIN sinksFirst : i < j =>
          \A m \in sinksFirst[i], n \in sinksFirst[j] : n \notin reach[m]
     /\ RankIsConserved

=============================================================================
