----------------------------- MODULE MCWorkflow -----------------------------
EXTENDS Workflow

(* Two models of one provider; the first has a pool of two keys.           *)
Chain == {1, 2}
OneProvider == [e \in Chain |-> "p"]
Pool == [e \in Chain |-> IF e = 1 THEN 2 ELSE 1]
Short == <<1>>
Long == <<1>>

Nodes == {1, 2, 3}
Fits == [n \in {0} \cup Nodes |-> CASE n = 0 -> {} [] n = 2 -> {1} [] OTHER -> {1, 2}]

(* The first node of a plan has a contract and the third a pinned worker.  *)
Graph(deps) ==
  [nodes |-> DOMAIN deps, blank |-> {}, deps |-> deps,
   pin |-> [n \in DOMAIN deps |-> IF n = 3 THEN 2 ELSE Nobody],
   asks |-> [n \in DOMAIN deps |-> IF n = 1 THEN "verdict" ELSE "nothing"]]

(* Every graph on three nodes, the cyclic ones included, behind a node     *)
(* nobody can take: these are ordered and then abandoned at that node.     *)
Ordered ==
  {Graph([n \in {0} \cup Nodes |-> IF n = 0 THEN {} ELSE deps[n]]) :
     deps \in {d \in [Nodes -> SUBSET Nodes] : \A n \in Nodes : n \notin d[n]}}

(* A chain that starts with the last node, a dependency outside the plan,  *)
(* one of a node on itself, a contract that wants an input and a node of   *)
(* an empty title.                                                         *)
Driven ==
  {Graph(<<{3}, {1}, {}>>), Graph(<<{3}, {}>>), Graph(<<{1}>>),
   [Graph(<<{}, {1}>>) EXCEPT !.asks = <<"input", "nothing">>],
   [Graph(<<{}>>) EXCEPT !.blank = {1}]}

Graphs == Ordered \cup Driven
=============================================================================
