------------------------ MODULE Orchestration_proofs ------------------------
(***************************************************************************)
(* Proofs about Orchestration for every set of runs, plans and workers,    *)
(* any number of tasks on the board and any edits by its other holders.    *)
(***************************************************************************)
EXTENDS Orchestration, FiniteSetTheorems, SequenceTheorems, TLAPS

-----------------------------------------------------------------------------
(* The helpers *)

\* A nonempty set of naturals has a smallest element, and First is it.
LEMMA FirstExists ==
  ASSUME NEW S \in SUBSET Nat, S # {}
  PROVE  First(S) \in S /\ \A y \in S : First(S) <= y
<1>1. PICK x \in S : \A y \in S : <<y, x>> \notin OpToRel(<, Nat)
  BY WFMin, NatLessThanWellFounded, Zenon
<1>2. \A y \in S : y \in Nat /\ x \in Nat /\ ~(y < x)
  BY <1>1 DEF OpToRel
<1>3. \A y \in S : x <= y
  BY <1>2
<1> QED BY <1>3 DEF First

NoRepeats(s) == \A i, j \in 1 .. Len(s) : s[i] = s[j] => i = j

\* One more node at the end of an order.
LEMMA PlacedAppend ==
  ASSUME NEW s \in Seq(Node), NEW x \in Node
  PROVE  /\ Append(s, x) \in Seq(Node)
         /\ Placed(Append(s, x)) = Placed(s) \cup {x}
         /\ NoRepeats(s) /\ x \notin Placed(s) => NoRepeats(Append(s, x))
<1>1. /\ Append(s, x) \in Seq(Node) /\ Len(Append(s, x)) = Len(s) + 1 /\ Len(s) \in Nat
      /\ Append(s, x)[Len(s) + 1] = x
      /\ \A i \in 1 .. Len(s) : Append(s, x)[i] = s[i]
  OBVIOUS
<1>2. Placed(Append(s, x)) \subseteq Placed(s) \cup {x}
  BY <1>1 DEF Placed
<1>3. Placed(s) \cup {x} \subseteq Placed(Append(s, x))
  <2>1. Len(s) + 1 \in 1 .. Len(Append(s, x))
    BY <1>1
  <2>2. \A i \in 1 .. Len(s) : i \in 1 .. Len(Append(s, x))
    BY <1>1
  <2> QED BY <1>1, <2>1, <2>2 DEF Placed
<1>4. ASSUME NoRepeats(s), x \notin Placed(s) PROVE NoRepeats(Append(s, x))
  <2> SUFFICES ASSUME NEW i \in 1 .. Len(s) + 1, NEW j \in 1 .. Len(s) + 1,
                      Append(s, x)[i] = Append(s, x)[j]
               PROVE  i = j
    BY <1>1 DEF NoRepeats
  <2>1. CASE i \in 1 .. Len(s) /\ j \in 1 .. Len(s)
    BY <1>1, <1>4, <2>1 DEF NoRepeats
  <2>2. CASE i \notin 1 .. Len(s) \/ j \notin 1 .. Len(s)
    <3>1. \A k \in 1 .. Len(s) : s[k] # x
      BY <1>4 DEF Placed
    <3>2. \A k \in 1 .. Len(s) + 1 : k \notin 1 .. Len(s) => k = Len(s) + 1
      BY <1>1
    <3> QED BY <1>1, <2>2, <3>1, <3>2
  <2> QED BY <2>1, <2>2
<1> QED BY <1>1, <1>2, <1>3, <1>4

\* One node less at the beginning.
LEMMA PlacedTail ==
  ASSUME NEW s \in Seq(Node), s # <<>>
  PROVE  /\ Tail(s) \in Seq(Node) /\ Head(s) \in Node /\ Head(s) \in Placed(s)
         /\ Placed(s) = Placed(Tail(s)) \cup {Head(s)}
         /\ NoRepeats(s) => NoRepeats(Tail(s)) /\ Head(s) \notin Placed(Tail(s))
<1>1. /\ Len(s) \in Nat /\ Len(s) >= 1 /\ Tail(s) \in Seq(Node) /\ Len(Tail(s)) = Len(s) - 1
      /\ Head(s) = s[1] /\ s[1] \in Node
      /\ \A i \in 1 .. Len(s) - 1 : Tail(s)[i] = s[i + 1]
  OBVIOUS
<1>2. Placed(Tail(s)) \cup {Head(s)} \subseteq Placed(s)
  <2>1. 1 \in 1 .. Len(s) /\ \A i \in 1 .. Len(s) - 1 : i + 1 \in 1 .. Len(s)
    BY <1>1
  <2> QED BY <1>1, <2>1 DEF Placed
<1>3. Placed(s) \subseteq Placed(Tail(s)) \cup {Head(s)}
  <2> SUFFICES ASSUME NEW i \in 1 .. Len(s)
               PROVE  s[i] \in Placed(Tail(s)) \cup {Head(s)}
    BY DEF Placed
  <2>1. CASE i = 1
    BY <1>1, <2>1
  <2>2. CASE i # 1
    <3>1. i - 1 \in 1 .. Len(Tail(s)) /\ Tail(s)[i - 1] = s[i]
      BY <1>1, <2>2
    <3> QED BY <3>1 DEF Placed
  <2> QED BY <2>1, <2>2
<1>4. ASSUME NoRepeats(s) PROVE NoRepeats(Tail(s)) /\ Head(s) \notin Placed(Tail(s))
  <2>1. ASSUME NEW i \in 1 .. Len(Tail(s)), NEW j \in 1 .. Len(Tail(s)), Tail(s)[i] = Tail(s)[j]
        PROVE  i = j
    <3>1. i + 1 \in 1 .. Len(s) /\ j + 1 \in 1 .. Len(s) /\ s[i + 1] = s[j + 1]
      BY <1>1, <2>1
    <3>2. i + 1 = j + 1
      BY <1>4, <3>1 DEF NoRepeats
    <3> QED BY <3>2
  <2>2. ASSUME NEW i \in 1 .. Len(Tail(s)) PROVE Tail(s)[i] # Head(s)
    <3>1. i + 1 \in 1 .. Len(s) /\ 1 \in 1 .. Len(s) /\ Tail(s)[i] = s[i + 1] /\ i + 1 # 1
      BY <1>1
    <3> QED BY <1>1, <1>4, <3>1 DEF NoRepeats
  <2> QED BY <2>1, <2>2 DEF NoRepeats, Placed
<1> QED BY <1>1, <1>2, <1>3, <1>4

-----------------------------------------------------------------------------
(* The board *)

TaskRecord == [status : Status, assignee : Worker \cup {Nobody}]

\* What every step leaves true of the board: it only grows, and a task that
\* is Done stays Done.
Grows(b, c) ==
  /\ c \in Seq(TaskRecord) /\ Len(c) <= MaxTasks /\ Len(b) <= Len(c)
  /\ \A t \in 1 .. Len(b) : b[t].status = "Done" => c[t].status = "Done"

BoardOK(b) == b \in Seq(TaskRecord) /\ Len(b) <= MaxTasks

LEMMA BoardSame == ASSUME BoardOK(board), UNCHANGED board PROVE Grows(board, board')
BY DEF BoardOK, Grows

LEMMA BoardAppend ==
  ASSUME BoardOK(board), NEW w \in Worker \cup {Nobody}, Len(board) < MaxTasks,
         board' = Append(board, [status |-> "Pending", assignee |-> w])
  PROVE  Grows(board, board') /\ Len(board') = Len(board) + 1
<1>1. [status |-> "Pending", assignee |-> w] \in TaskRecord
  BY DEF TaskRecord, Status
<1>2. board \in Seq(TaskRecord) /\ Len(board) \in Nat
  BY DEF BoardOK
<1>3. /\ board' \in Seq(TaskRecord) /\ Len(board') = Len(board) + 1
      /\ \A t \in 1 .. Len(board) : board'[t] = board[t]
  BY <1>1, <1>2
<1>4. Len(board') <= MaxTasks
  BY <1>2, <1>3, FlowAssumption
<1> QED BY <1>2, <1>3, <1>4 DEF Grows

\* A task is replaced: the board grows when a Done one stays Done.
LEMMA BoardExcept ==
  ASSUME BoardOK(board), NEW t \in 1 .. Len(board), NEW v \in TaskRecord,
         board[t].status = "Done" => v.status = "Done",
         board' = [board EXCEPT ![t] = v]
  PROVE  Grows(board, board') /\ Len(board') = Len(board) /\ board'[t] = v
<1>1. board \in Seq(TaskRecord) /\ Len(board) \in Nat
  BY DEF BoardOK
<1>2. /\ board' \in Seq(TaskRecord) /\ Len(board') = Len(board)
      /\ \A u \in 1 .. Len(board) : board'[u] = IF u = t THEN v ELSE board[u]
  BY <1>1
<1> QED BY <1>1, <1>2 DEF Grows, BoardOK

\* A status the board accepts.
LEMMA BoardStatus ==
  ASSUME BoardOK(board), NEW t \in Task, NEW status \in Status, MaySet(t, status),
         SetStatus(t, status)
  PROVE  Grows(board, board') /\ Len(board') = Len(board) /\ board'[t].status = status
<1> DEFINE v == [board[t] EXCEPT !.status = status]
<1>1. board[t] \in TaskRecord /\ t \in 1 .. Len(board)
  BY DEF Task, BoardOK
<1>2. v \in TaskRecord /\ v.status = status
  BY <1>1 DEF TaskRecord
<1>3. board' = [board EXCEPT ![t] = v]
  BY DEF SetStatus
<1>4. board[t].status = "Done" => status = "Done"
  BY DEF MaySet, CanTransition
<1> HIDE DEF v
<1> QED BY <1>1, <1>2, <1>3, <1>4, BoardExcept

\* The other holders of the bridge.
LEMMA BoardOthers == ASSUME BoardOK(board), Others PROVE Grows(board, board')
<1>1. ASSUME NEW t \in Task, NEW status \in Status, UpdateTask(t, status)
      PROVE  Grows(board, board')
  BY <1>1, BoardStatus DEF UpdateTask, MaySet
<1>2. ASSUME NEW t \in Task, NEW from \in Worker, NEW to \in Worker, HandOff(t, from, to)
      PROVE  Grows(board, board')
  <2>1. [status |-> "Handed", assignee |-> to] \in TaskRecord /\ t \in 1 .. Len(board)
    BY DEF TaskRecord, Status, Task
  <2> QED BY <1>2, <2>1, BoardExcept DEF HandOff
<1>3. ASSUME NEW t \in Task, NEW w \in Worker \cup {Nobody}, Assign(t, w)
      PROVE  Grows(board, board')
  <2> DEFINE v == [board[t] EXCEPT !.assignee = w]
  <2>1. board[t] \in TaskRecord /\ t \in 1 .. Len(board)
    BY DEF Task, BoardOK
  <2>2. v \in TaskRecord /\ v.status = board[t].status
    BY <2>1 DEF TaskRecord
  <2>3. board' = [board EXCEPT ![t] = v]
    BY <1>3 DEF Assign
  <2> HIDE DEF v
  <2> QED BY <2>1, <2>2, <2>3, BoardExcept
<1>4. ASSUME NEW w \in Worker \cup {Nobody}, CreateTask(w) PROVE Grows(board, board')
  BY <1>4, BoardAppend DEF CreateTask
<1>5. ASSUME UNCHANGED board PROVE Grows(board, board')
  BY <1>5, BoardSame
<1> QED BY <1>1, <1>2, <1>3, <1>4, <1>5 DEF Others, Register, Deregister, Heartbeat, Attend

-----------------------------------------------------------------------------
(* A run *)

Walk == {"next", "ok", "error"} \cup Staffing \cup Busy

RunRecord ==
  [pc : {"idle", "order", "next"} \cup Staffing \cup Busy \cup Over, plan : Plans,
   left : Seq(Node), who : Worker \cup {Nobody}, todo : SUBSET Worker,
   cands : SUBSET (Worker \X Nat), task : 0 .. MaxTasks,
   deep : BOOLEAN, done : SUBSET (Node \X Nat), failed : SUBSET Node,
   accepted : SUBSET Node, refused : SUBSET Node]

\* A run is at work on a task of the board b, for a worker.
WorksOn(v, b) ==
  /\ v.pc \in Busy => v.task \in 1 .. Len(b)
  /\ v.pc \in Staffing \cup Busy => v.left # <<>>
  /\ v.pc \in {"count", "create"} \cup Busy => v.who \in Worker

\* Before the walk nothing is done, and the order is one of the plan's nodes.
Prepared(v) ==
  /\ v.pc \notin Walk => v.done = {} /\ v.failed = {} /\ v.accepted = {} /\ v.refused = {}
  /\ v.pc = "order" => NoRepeats(v.left) /\ Placed(v.left) \subseteq v.plan.nodes

\* In the walk every node is completed, failed or still to be walked.
Divided(v) ==
  v.pc \in Walk =>
    /\ NoRepeats(v.left)
    /\ v.plan.nodes = Placed(v.left) \cup v.accepted \cup v.failed
    /\ Placed(v.left) \cap (v.accepted \cup v.failed) = {}
    /\ v.pc = "ok" => v.left = <<>>

\* What a run notes of a node and what became of the node's turn.
Settled(v) ==
  /\ v.accepted = {d[1] : d \in v.done}
  /\ v.accepted \cap v.failed = {} /\ v.refused \subseteq v.failed
  /\ \A n \in v.accepted \cup v.refused : n \in v.plan.nodes /\ v.plan.deps[n] \subseteq v.accepted
  /\ \A n \in v.failed : n \in v.refused \/ v.plan.deps[n] \cap v.failed # {}

IsDone(b, d) == d[2] \in 1 .. Len(b) /\ b[d[2]].status = "Done"

\* What the board b says of the nodes a run has completed, and of the
\* dependencies of the one it works on.
OnBoard(v, b) ==
  /\ \A d \in v.done : IsDone(b, d)
  /\ v.pc \in Staffing \cup Busy =>
       \A n \in v.plan.deps[Head(v.left)] : \E d \in v.done : d[1] = n

Fine(v, b) ==
  v \in RunRecord /\ WorksOn(v, b) /\ Prepared(v) /\ Divided(v) /\ Settled(v) /\ OnBoard(v, b)

\* The board may grow under a run.
LEMMA FineGrows ==
  ASSUME BoardOK(board), Grows(board, board'), NEW v, Fine(v, board)
  PROVE  Fine(v, board')
<1>1. Len(board) \in Nat /\ Len(board') \in Nat /\ Len(board) <= Len(board')
  BY DEF BoardOK, Grows
<1>2. 1 .. Len(board) \subseteq 1 .. Len(board')
  BY <1>1
<1>3. WorksOn(v, board')
  BY <1>2 DEF Fine, WorksOn
<1>4. OnBoard(v, board')
  BY <1>2 DEF Fine, OnBoard, IsDone, Grows
<1> QED BY <1>3, <1>4 DEF Fine

-----------------------------------------------------------------------------
(* What a run's own steps do to it *)

LEMMA PlanFacts ==
  ASSUME NEW p \in Plans
  PROVE  /\ p.nodes \subseteq Node /\ p.nodes \subseteq Nat
         /\ \A n \in p.nodes : p.deps[n] \subseteq Node
<1>1. PICK nodes \in SUBSET Node : p \in Plan(nodes)
  BY FlowAssumption
<1>2. p.nodes = nodes /\ p.deps \in [nodes -> SUBSET Node]
  BY <1>1 DEF Plan
<1> QED BY <1>2, FlowAssumption

RunsOK == run \in [Runs -> RunRecord]

\* The workers a run has to look at for a node of its plan.
LEMMA ListedAreWorkers ==
  ASSUME NEW r \in Runs, run[r] \in RunRecord, N(r) \in run[r].plan.nodes
  PROVE  Listed(r) \in SUBSET Worker
<1>1. PICK nodes \in SUBSET Node : run[r].plan \in Plan(nodes)
  BY FlowAssumption DEF RunRecord
<1>2. run[r].plan.pin \in [nodes -> Worker \cup {Nobody}] /\ N(r) \in nodes /\ N(r) \in Node
  BY <1>1 DEF Plan
<1>3. Pin(r) \in Worker \cup {Nobody}
  BY <1>2 DEF Pin
<1>4. Fit[N(r)] \in SUBSET Worker
  BY <1>2, FlowAssumption
<1> QED BY <1>3, <1>4 DEF Listed

\* A step of run r: no other run changes, and r is as it should be afterwards.
Moves(r) ==
  /\ run' = [run EXCEPT ![r] = run'[r]] /\ Fine(run'[r], board')
  /\ Grows(board, board')

\* It is enough to look at the record a step gives to r.
LEMMA MovesTo ==
  ASSUME RunsOK, BoardOK(board), NEW r \in Runs, NEW v, run' = [run EXCEPT ![r] = v],
         Fine(v, board'), Grows(board, board')
  PROVE  Moves(r)
BY DEF RunsOK, Moves

LEMMA FreshRecord ==
  ASSUME NEW pc \in {"invalid", "order"}, NEW p \in Plans, NEW deep \in BOOLEAN
  PROVE  [Fresh EXCEPT !.pc = pc, !.plan = p, !.deep = deep] \in RunRecord
<1>1. /\ <<>> \in Seq(Node) /\ 0 \in 0 .. MaxTasks /\ (CHOOSE x \in Plans : TRUE) \in Plans
      /\ FALSE \in BOOLEAN /\ {} \in SUBSET (Node \X Nat) /\ {} \in SUBSET (Worker \X Nat)
  BY FlowAssumption
<1>2. Fresh \in RunRecord
  BY <1>1 DEF Fresh, RunRecord
<1> HIDE DEF Fresh
<1>3. \A u \in RunRecord : [u EXCEPT !.pc = pc] \in RunRecord
  BY DEF RunRecord, Over
<1>4. \A u \in RunRecord : [u EXCEPT !.plan = p] \in RunRecord
  BY SMTT(30) DEF RunRecord
<1>5. \A u \in RunRecord : [u EXCEPT !.deep = deep] \in RunRecord
  BY SMTT(30) DEF RunRecord
<1>6. [Fresh EXCEPT !.pc = pc, !.plan = p, !.deep = deep] =
        [[[Fresh EXCEPT !.pc = pc] EXCEPT !.plan = p] EXCEPT !.deep = deep]
  BY <1>2 DEF RunRecord
<1> QED BY <1>2, <1>3, <1>4, <1>5, <1>6

LEMMA StartMoves ==
  ASSUME RunsOK, BoardOK(board), NEW r \in Runs, Starts(r)
  PROVE  Moves(r)
<1>1. PICK p \in Plans, depth \in {MaxDepth, MaxDepth + 1} : Start(r, p, depth)
  BY DEF Starts
<1> DEFINE v == [Fresh EXCEPT
       !.pc = IF depth > MaxDepth \/ Dangling(p) THEN "invalid" ELSE "order",
       !.plan = p, !.deep = depth > MaxDepth]
<1>2. (depth > MaxDepth) \in BOOLEAN /\ 0 \in 0 .. MaxTasks
  BY FlowAssumption
<1>3. v \in RunRecord
  <2>1. (IF depth > MaxDepth \/ Dangling(p) THEN "invalid" ELSE "order") \in {"invalid", "order"}
    OBVIOUS
  <2> QED BY <1>2, <2>1, FreshRecord
<1>4. /\ v.pc \in {"invalid", "order"} /\ v.left = <<>> /\ v.done = {} /\ v.failed = {}
      /\ v.accepted = {} /\ v.refused = {}
  BY DEF Fresh
<1>5. run' = [run EXCEPT ![r] = v] /\ board' = board
  BY <1>1 DEF Start
<1> HIDE DEF v
<1>6. NoRepeats(v.left) /\ Placed(v.left) = {}
  BY <1>4 DEF NoRepeats, Placed
<1>7. WorksOn(v, board) /\ Prepared(v) /\ Divided(v) /\ Settled(v) /\ OnBoard(v, board)
  BY <1>4, <1>6 DEF WorksOn, Prepared, Divided, Settled, OnBoard, Walk, Staffing, Busy
<1>8. Fine(v, board')
  BY <1>3, <1>5, <1>7 DEF Fine
<1> QED BY <1>5, <1>8, BoardSame, MovesTo

LEMMA PlaceMoves ==
  ASSUME RunsOK, BoardOK(board), NEW r \in Runs, Fine(run[r], board), Place(r)
  PROVE  Moves(r)
<1> DEFINE u == run[r]
           x == First(Ready(u.plan, u.left))
           v == [u EXCEPT !.left = Append(u.left, x)]
<1>1. u \in RunRecord /\ u.pc = "order" /\ Ready(u.plan, u.left) # {}
  BY DEF Place, At, Fine
<1>2. u.left \in Seq(Node) /\ u.plan \in Plans
  BY <1>1 DEF RunRecord
<1>3. x \in u.plan.nodes \ Placed(u.left) /\ x \in Node
  <2>1. Ready(u.plan, u.left) \in SUBSET Nat /\ u.plan.nodes \subseteq Node
    BY <1>2, PlanFacts DEF Ready
  <2>2. x \in Ready(u.plan, u.left)
    BY <1>1, <2>1, FirstExists
  <2> QED BY <2>1, <2>2 DEF Ready
<1>4. run' = [run EXCEPT ![r] = v] /\ board' = board
  BY DEF Place, RunsOK
<1>5. /\ v \in RunRecord /\ v.left = Append(u.left, x) /\ v.pc = u.pc /\ v.plan = u.plan
      /\ v.done = u.done /\ v.failed = u.failed /\ v.accepted = u.accepted /\ v.refused = u.refused
  <2>1. Append(u.left, x) \in Seq(Node)
    BY <1>2, <1>3, PlacedAppend
  <2> HIDE DEF x
  <2> QED BY <1>1, <2>1 DEF RunRecord
<1>6. Prepared(u) /\ Settled(u) /\ OnBoard(u, board)
  BY DEF Fine
<1> HIDE DEF u, v, x
<1>7. Prepared(v)
  BY <1>1, <1>2, <1>3, <1>5, <1>6, PlacedAppend DEF Prepared, Walk, Staffing, Busy
<1>8. WorksOn(v, board) /\ Divided(v) /\ Settled(v) /\ OnBoard(v, board)
  BY <1>1, <1>5, <1>6 DEF WorksOn, Divided, Settled, OnBoard, Walk, Staffing, Busy
<1>9. Fine(v, board')
  BY <1>4, <1>5, <1>7, <1>8 DEF Fine
<1> QED BY <1>4, <1>9, BoardSame, MovesTo

\* A run that only moves on to another place of the code.
LEMMA OrderEndsMoves ==
  ASSUME RunsOK, BoardOK(board), NEW r \in Runs, Fine(run[r], board), OrderEnds(r)
  PROVE  Moves(r)
<1> DEFINE u == run[r]
           v == [u EXCEPT !.pc = IF Placed(u.left) = u.plan.nodes THEN "next" ELSE "invalid"]
<1>1. u \in RunRecord /\ u.pc = "order"
  BY DEF OrderEnds, At, Fine
<1>2. run' = [run EXCEPT ![r] = v] /\ board' = board
  BY DEF OrderEnds, RunsOK
<1>3. /\ v \in RunRecord /\ v.left = u.left /\ v.plan = u.plan
      /\ v.pc = IF Placed(u.left) = u.plan.nodes THEN "next" ELSE "invalid"
      /\ v.done = u.done /\ v.failed = u.failed /\ v.accepted = u.accepted /\ v.refused = u.refused
  BY <1>1 DEF RunRecord, Over
<1>4. Prepared(u) /\ Settled(u) /\ OnBoard(u, board)
  BY DEF Fine
<1> HIDE DEF u, v
<1>5. u.done = {} /\ u.failed = {} /\ u.accepted = {} /\ u.refused = {} /\ NoRepeats(u.left)
  BY <1>1, <1>4 DEF Prepared, Walk, Staffing, Busy
<1>6. v.pc \in {"next", "invalid"} /\ (v.pc = "next" => Placed(u.left) = u.plan.nodes)
  BY <1>3
<1>7. WorksOn(v, board) /\ Prepared(v) /\ Divided(v) /\ Settled(v) /\ OnBoard(v, board)
  BY <1>3, <1>5, <1>6 DEF WorksOn, Prepared, Divided, Settled, OnBoard, Walk, Staffing, Busy
<1>8. Fine(v, board')
  BY <1>2, <1>3, <1>7 DEF Fine
<1> QED BY <1>2, <1>8, BoardSame, MovesTo
LEMMA InheritMoves ==
  ASSUME RunsOK, BoardOK(board), NEW r \in Runs, Fine(run[r], board), Inherit(r)
  PROVE  Moves(r)
<1> DEFINE u == run[r]
           n == Head(u.left)
           v == [u EXCEPT !.left = Tail(u.left), !.failed = u.failed \cup {n}]
<1>1. /\ u \in RunRecord /\ u.pc = "next" /\ u.left # <<>>
      /\ u.plan.deps[n] \cap u.failed # {}
  BY DEF Inherit, Walking, Cut, Deps, N, At, Fine
<1>2. u.left \in Seq(Node) /\ u.plan \in Plans
  BY <1>1 DEF RunRecord
<1>3. run' = [run EXCEPT ![r] = v] /\ board' = board
  BY DEF Inherit, RunsOK, N
<1>4. Prepared(u) /\ Divided(u) /\ Settled(u) /\ OnBoard(u, board)
  BY DEF Fine
<1>5. Tail(u.left) \in Seq(Node) /\ n \in Node
  BY <1>1, <1>2, PlacedTail
<1>6. /\ v \in RunRecord /\ v.left = Tail(u.left) /\ v.pc = "next" /\ v.plan = u.plan
      /\ v.done = u.done /\ v.failed = u.failed \cup {n}
      /\ v.accepted = u.accepted /\ v.refused = u.refused
  <2> HIDE DEF n
  <2> QED BY <1>1, <1>5 DEF RunRecord
<1>7. /\ NoRepeats(u.left) /\ n \in Placed(u.left) /\ n \notin Placed(Tail(u.left))
      /\ Placed(u.left) = Placed(Tail(u.left)) \cup {n} /\ NoRepeats(Tail(u.left))
  BY <1>1, <1>2, <1>4, PlacedTail DEF Divided, Walk
<1> HIDE DEF u, v, n
<1>8. Divided(v)
  BY <1>1, <1>4, <1>6, <1>7 DEF Divided, Walk
<1>9. Settled(v)
  <2>1. n \notin u.accepted
    BY <1>1, <1>4, <1>7 DEF Divided, Walk
  <2> QED BY <1>1, <1>4, <1>6, <2>1 DEF Settled
<1>10. WorksOn(v, board) /\ Prepared(v) /\ OnBoard(v, board)
  BY <1>1, <1>4, <1>6 DEF WorksOn, Prepared, OnBoard, Walk, Staffing, Busy
<1>11. Fine(v, board')
  BY <1>3, <1>6, <1>8, <1>9, <1>10 DEF Fine
<1> QED BY <1>3, <1>11, BoardSame, MovesTo

\* A run that goes on at another place, with a worker perhaps and something
\* to choose one from, and changes nothing else.
LEMMA PlaceOnly ==
  ASSUME NEW b, NEW u, Fine(u, b), u.pc \in Walk, NEW pc \in Walk \ {"ok"},
         NEW w \in Worker \cup {Nobody}, NEW todo \in SUBSET Worker,
         NEW cands \in SUBSET (Worker \X Nat),
         pc \in Busy => u.pc \in Busy,
         pc \in {"count", "create"} \cup Busy => w \in Worker,
         pc \in Staffing \cup Busy =>
           /\ u.left # <<>>
           /\ \A n \in u.plan.deps[Head(u.left)] : \E d \in u.done : d[1] = n,
         NEW v, v = [u EXCEPT !.pc = pc, !.who = w, !.todo = todo, !.cands = cands]
  PROVE  Fine(v, b)
<1>1. u \in RunRecord
  BY DEF Fine
<1>2. /\ v \in RunRecord /\ v.left = u.left /\ v.pc = pc /\ v.who = w /\ v.plan = u.plan
      /\ v.task = u.task /\ v.done = u.done /\ v.failed = u.failed
      /\ v.accepted = u.accepted /\ v.refused = u.refused
  BY ZenonT(60), <1>1 DEF RunRecord, Walk, Over
<1>3. WorksOn(v, b)
  BY <1>2 DEF WorksOn, Fine
<1>4. Prepared(v)
  BY <1>2 DEF Prepared, Fine, Walk, Staffing, Busy
<1>5. Divided(v)
  BY <1>2 DEF Divided, Fine
<1>6. Settled(v)
  BY <1>2 DEF Settled, Fine
<1>7. OnBoard(v, b)
  BY <1>2 DEF OnBoard, Fine
<1> QED BY <1>2, <1>3, <1>4, <1>5, <1>6, <1>7 DEF Fine

\* The same of a step that chooses a worker, or gives up.
LEMMA GoesOn ==
  ASSUME RunsOK, BoardOK(board), NEW r \in Runs, Fine(run[r], board), run[r].pc \in Walk,
         NEW pc \in {"select", "count", "create", "error"}, NEW w \in Worker \cup {Nobody},
         NEW todo \in SUBSET Worker, NEW cands \in SUBSET (Worker \X Nat),
         pc = "count" \/ pc = "create" => w \in Worker,
         pc # "error" =>
           /\ run[r].left # <<>>
           /\ \A n \in run[r].plan.deps[Head(run[r].left)] : \E d \in run[r].done : d[1] = n,
         run' = [run EXCEPT ![r] =
                   [run[r] EXCEPT !.pc = pc, !.who = w, !.todo = todo, !.cands = cands]],
         UNCHANGED board
  PROVE  Moves(r)
<1> DEFINE u == run[r]
           v == [u EXCEPT !.pc = pc, !.who = w, !.todo = todo, !.cands = cands]
<1>1. run' = [run EXCEPT ![r] = v]
  OBVIOUS
<1>2. v = [u EXCEPT !.pc = pc, !.who = w, !.todo = todo, !.cands = cands]
  OBVIOUS
<1>3. /\ pc \in Walk \ {"ok"} /\ pc \notin Busy
      /\ pc \in {"count", "create"} \cup Busy => pc = "count" \/ pc = "create"
      /\ pc \in Staffing \cup Busy => pc # "error"
  BY DEF Walk, Staffing, Busy
<1> HIDE DEF u, v
<1>4. Fine(v, board)
  BY <1>2, <1>3, PlaceOnly DEF u
<1> QED BY <1>1, <1>4, BoardSame, MovesTo

\* What is known of a run in the choice of a worker.
LEMMA StaffingFacts ==
  ASSUME NEW b, NEW u, Fine(u, b), u.pc \in Staffing
  PROVE  /\ u \in RunRecord /\ u.pc \in Walk /\ u.left # <<>>
         /\ u.who \in Worker \cup {Nobody} /\ u.todo \in SUBSET Worker
         /\ u.cands \in SUBSET (Worker \X Nat)
         /\ \A n \in u.plan.deps[Head(u.left)] : \E d \in u.done : d[1] = n
BY DEF Fine, RunRecord, Walk, WorksOn, OnBoard

LEMMA CheckDepsMoves ==
  ASSUME RunsOK, BoardOK(board), NEW r \in Runs, Fine(run[r], board), CheckDeps(r)
  PROVE  Moves(r)
<1>1. /\ run[r].pc = "next" /\ run[r].left # <<>> /\ run[r] \in RunRecord /\ run[r].pc \in Walk
      /\ run[r].who \in Worker \cup {Nobody} /\ run[r].todo \in SUBSET Worker
      /\ run[r].cands \in SUBSET (Worker \X Nat) /\ UNCHANGED board
  BY DEF CheckDeps, Walking, At, Fine, RunRecord, Walk
<1>2. ASSUME DepsDone(r), run' = [run EXCEPT ![r].pc = "select", ![r].todo = Listed(r)]
      PROVE  Moves(r)
  <2>1. Listed(r) \in SUBSET Worker
    <3>1. run[r].left \in Seq(Node) /\ Placed(run[r].left) \subseteq run[r].plan.nodes
      BY <1>1 DEF RunRecord, Fine, Divided, Walk
    <3>2. N(r) \in run[r].plan.nodes
      BY <1>1, <3>1, PlacedTail DEF N
    <3> QED BY <1>1, <3>2, ListedAreWorkers
  <2>2. \A n \in run[r].plan.deps[Head(run[r].left)] : \E d \in run[r].done : d[1] = n
    BY <1>2 DEF DepsDone, Deps, N
  <2> HIDE DEF Listed
  <2>3. run' = [run EXCEPT ![r] = [run[r] EXCEPT !.pc = "select", !.who = run[r].who,
                  !.todo = Listed(r), !.cands = run[r].cands]]
    BY <1>1, <1>2 DEF RunsOK, RunRecord
  <2> QED BY <1>1, <2>1, <2>2, <2>3, GoesOn
<1>3. ASSUME run' = [run EXCEPT ![r].pc = "error"] PROVE Moves(r)
  <2>1. run' = [run EXCEPT ![r] = [run[r] EXCEPT !.pc = "error", !.who = run[r].who,
                  !.todo = run[r].todo, !.cands = run[r].cands]]
    BY <1>1, <1>3 DEF RunsOK, RunRecord
  <2> QED BY <1>1, <2>1, GoesOn
<1> QED BY <1>2, <1>3 DEF CheckDeps

LEMMA LookMoves ==
  ASSUME RunsOK, BoardOK(board), NEW r \in Runs, Fine(run[r], board), Look(r)
  PROVE  Moves(r)
<1> DEFINE u == run[r]
           w == First(u.todo)
           pc == IF Pin(r) = Nobody THEN "count" ELSE "create"
<1>1. u.pc = "select" /\ u.todo # {} /\ UNCHANGED board
  BY DEF Look, At
<1>2. /\ u \in RunRecord /\ u.pc \in Walk /\ u.left # <<>>
      /\ u.who \in Worker \cup {Nobody} /\ u.todo \in SUBSET Worker
      /\ u.cands \in SUBSET (Worker \X Nat)
      /\ \A n \in u.plan.deps[Head(u.left)] : \E d \in u.done : d[1] = n
  BY <1>1, StaffingFacts DEF Staffing
<1>3. w \in Worker /\ u.todo \ {w} \in SUBSET Worker
  BY <1>1, <1>2, FirstExists, FlowAssumption
<1>4. pc \in {"count", "create"}
  OBVIOUS
<1> HIDE DEF w, pc
<1>5. ASSUME run' = [run EXCEPT ![r].pc = pc, ![r].todo = @ \ {w}, ![r].who = w]
      PROVE  Moves(r)
  <2>1. run' = [run EXCEPT ![r] = [run[r] EXCEPT !.pc = pc, !.who = w,
                  !.todo = u.todo \ {w}, !.cands = u.cands]]
    BY <1>2, <1>5 DEF RunsOK, RunRecord
  <2> QED BY ZenonT(60), <1>1, <1>2, <1>3, <1>4, <2>1, GoesOn
<1>6. ASSUME run' = [run EXCEPT ![r].todo = @ \ {w}] PROVE Moves(r)
  <2>1. [u EXCEPT !.todo = u.todo \ {w}] =
          [u EXCEPT !.pc = "select", !.who = u.who, !.todo = u.todo \ {w}, !.cands = u.cands]
    <3> HIDE DEF u
    <3> QED BY <1>1, <1>2 DEF RunRecord
  <2>2. run' = [run EXCEPT ![r] = [run[r] EXCEPT !.pc = "select", !.who = u.who,
                  !.todo = u.todo \ {w}, !.cands = u.cands]]
    BY <1>6, <2>1 DEF RunsOK
  <2> QED BY ZenonT(60), <1>1, <1>2, <1>3, <2>2, GoesOn
<1> QED BY <1>5, <1>6 DEF Look, w, pc

LEMMA CountMoves ==
  ASSUME RunsOK, BoardOK(board), NEW r \in Runs, Fine(run[r], board), Count(r)
  PROVE  Moves(r)
<1> DEFINE u == run[r]
           c == <<u.who, InFlight(u.who)>>
<1>1. u.pc = "count" /\ UNCHANGED board
  BY DEF Count, At
<1>2. /\ u \in RunRecord /\ u.pc \in Walk /\ u.left # <<>>
      /\ u.todo \in SUBSET Worker /\ u.cands \in SUBSET (Worker \X Nat)
      /\ \A n \in u.plan.deps[Head(u.left)] : \E d \in u.done : d[1] = n
  BY <1>1, StaffingFacts DEF Staffing
<1>3. u.who \in Worker
  BY <1>1 DEF Fine, WorksOn
<1>4. InFlight(u.who) \in Nat
  <2>1. Len(board) \in Nat
    BY DEF BoardOK
  <2>2. IsFiniteSet(1 .. Len(board))
    BY <2>1, FS_Interval
  <2>3. {t \in Task : board[t].assignee = u.who /\ board[t].status # "Done"} \subseteq 1 .. Len(board)
    BY DEF Task
  <2> QED BY <2>2, <2>3, FS_Subset, FS_CardinalityType DEF InFlight
<1>5. u.cands \cup {c} \in SUBSET (Worker \X Nat)
  BY <1>2, <1>3, <1>4
<1>6. run' = [run EXCEPT ![r].pc = "select", ![r].cands = @ \cup {c}]
  BY DEF Count
<1> HIDE DEF c
<1>7. run' = [run EXCEPT ![r] = [run[r] EXCEPT !.pc = "select", !.who = u.who,
                !.todo = u.todo, !.cands = u.cands \cup {c}]]
  BY <1>2, <1>6 DEF RunsOK, RunRecord
<1> DEFINE cands == u.cands \cup {c}
           w == u.who
           todo == u.todo
<1>8. /\ w \in Worker /\ w \in Worker \cup {Nobody} /\ todo \in SUBSET Worker
      /\ cands \in SUBSET (Worker \X Nat)
      /\ run' = [run EXCEPT ![r] =
           [run[r] EXCEPT !.pc = "select", !.who = w, !.todo = todo, !.cands = cands]]
  BY <1>2, <1>3, <1>5, <1>7
<1> HIDE DEF w, todo, cands
<1> QED BY <1>1, <1>2, <1>8, GoesOn

\* Among the candidates there is a least load, so one of them is taken.
LEMMA IdlestExists ==
  ASSUME NEW cands \in SUBSET (Worker \X Nat), cands # {}
  PROVE  First(Idlest(cands)) \in Worker
<1> DEFINE loads == {c[2] : c \in cands}
<1>1. loads \in SUBSET Nat /\ loads # {}
  OBVIOUS
<1>2. First(loads) \in loads /\ \A y \in loads : First(loads) <= y
  BY <1>1, FirstExists
<1>3. PICK c \in cands : c[2] = First(loads)
  BY <1>2
<1>4. \A e \in cands : c[2] <= e[2]
  BY <1>2, <1>3
<1>5. c[1] \in Idlest(cands)
  BY <1>4 DEF Idlest
<1>6. Idlest(cands) \in SUBSET Worker
  BY DEF Idlest
<1>7. Idlest(cands) \in SUBSET Nat
  BY <1>6, FlowAssumption
<1> QED BY <1>5, <1>6, <1>7, FirstExists

LEMMA ChooseMoves ==
  ASSUME RunsOK, BoardOK(board), NEW r \in Runs, Fine(run[r], board), Choose(r)
  PROVE  Moves(r)
<1> DEFINE u == run[r]
           w == First(Idlest(u.cands))
<1>1. u.pc = "select" /\ u.cands # {} /\ UNCHANGED board
  BY DEF Choose, At
<1>2. /\ u \in RunRecord /\ u.pc \in Walk /\ u.left # <<>>
      /\ u.todo \in SUBSET Worker /\ u.cands \in SUBSET (Worker \X Nat)
      /\ \A n \in u.plan.deps[Head(u.left)] : \E d \in u.done : d[1] = n
  BY <1>1, StaffingFacts DEF Staffing
<1>3. w \in Worker
  BY <1>1, <1>2, IdlestExists
<1>4. run' = [run EXCEPT ![r].pc = "create", ![r].who = w, ![r].cands = {}]
  BY DEF Choose
<1> HIDE DEF w
<1>5. run' = [run EXCEPT ![r] = [run[r] EXCEPT !.pc = "create", !.who = w,
                !.todo = u.todo, !.cands = {}]]
  BY <1>2, <1>4 DEF RunsOK, RunRecord
<1>6. {} \in SUBSET (Worker \X Nat)
  OBVIOUS
<1> QED BY ZenonT(60), <1>1, <1>2, <1>3, <1>5, <1>6, GoesOn

\* Nobody to take, or a task the board does not create.
LEMMA GivesUpMoves ==
  ASSUME RunsOK, BoardOK(board), NEW r \in Runs, Fine(run[r], board), NoWorker(r) \/ Untitled(r)
  PROVE  Moves(r)
<1>1. /\ run[r].pc \in Staffing /\ UNCHANGED board
      /\ run' = [run EXCEPT ![r].pc = "error"]
  BY DEF NoWorker, Untitled, At, Staffing
<1>2. /\ run[r] \in RunRecord /\ run[r].pc \in Walk
      /\ run[r].who \in Worker \cup {Nobody} /\ run[r].todo \in SUBSET Worker
      /\ run[r].cands \in SUBSET (Worker \X Nat)
  BY <1>1, StaffingFacts
<1>3. run' = [run EXCEPT ![r] = [run[r] EXCEPT !.pc = "error", !.who = run[r].who,
                !.todo = run[r].todo, !.cands = run[r].cands]]
  BY <1>1, <1>2 DEF RunsOK, RunRecord
<1> DEFINE w == run[r].who
           todo == run[r].todo
           cands == run[r].cands
<1>4. /\ w \in Worker \cup {Nobody} /\ todo \in SUBSET Worker
      /\ cands \in SUBSET (Worker \X Nat)
      /\ run' = [run EXCEPT ![r] =
           [run[r] EXCEPT !.pc = "error", !.who = w, !.todo = todo, !.cands = cands]]
  BY <1>2, <1>3
<1> HIDE DEF w, todo, cands
<1> QED BY <1>1, <1>2, <1>4, GoesOn

LEMMA ExecuteMoves ==
  ASSUME RunsOK, BoardOK(board), NEW r \in Runs, Fine(run[r], board), Execute(r)
  PROVE  Moves(r)
<1> DEFINE u == run[r]
           v == [u EXCEPT !.pc = "executing", !.who = u.who, !.todo = u.todo, !.cands = u.cands]
<1>1. u.pc = "assigned" /\ u \in RunRecord /\ WorksOn(u, board) /\ OnBoard(u, board)
  BY DEF Execute, At, Fine
<1>2. /\ u.who \in Worker /\ u.left # <<>> /\ v = [u EXCEPT !.pc = "executing"]
      /\ u.todo \in SUBSET Worker /\ u.cands \in SUBSET (Worker \X Nat)
      /\ \A n \in u.plan.deps[Head(u.left)] : \E d \in u.done : d[1] = n
  BY <1>1 DEF RunRecord, WorksOn, OnBoard, Busy
<1>3. run' = [run EXCEPT ![r] = v] /\ board' = board
  BY <1>2 DEF Execute, RunsOK
<1>4. Fine(v, board)
  BY <1>1, <1>2, PlaceOnly DEF Walk, Staffing, Busy
<1> QED BY <1>3, <1>4, BoardSame, MovesTo
LEMMA FinishMoves ==
  ASSUME RunsOK, BoardOK(board), NEW r \in Runs, Fine(run[r], board), Finish(r)
  PROVE  Moves(r)
<1> DEFINE u == run[r]
           v == [u EXCEPT !.pc = "ok"]
<1>1. u.pc = "next" /\ u.left = <<>> /\ u \in RunRecord
  BY DEF Finish, At, Fine
<1>2. run' = [run EXCEPT ![r] = v] /\ board' = board
  BY DEF Finish, RunsOK
<1>3. /\ v \in RunRecord /\ v.left = u.left /\ v.pc = "ok" /\ v.plan = u.plan
      /\ v.done = u.done /\ v.failed = u.failed
      /\ v.accepted = u.accepted /\ v.refused = u.refused
  BY <1>1 DEF RunRecord, Over
<1>4. Prepared(u) /\ Divided(u) /\ Settled(u) /\ OnBoard(u, board)
  BY DEF Fine
<1> HIDE DEF u, v
<1>5. WorksOn(v, board) /\ Prepared(v) /\ Divided(v) /\ Settled(v) /\ OnBoard(v, board)
  BY <1>1, <1>3, <1>4 DEF WorksOn, Prepared, Divided, Settled, OnBoard, Walk, Staffing, Busy
<1>6. Fine(v, board')
  BY <1>2, <1>3, <1>5 DEF Fine
<1> QED BY <1>2, <1>6, BoardSame, MovesTo

LEMMA CreateMoves ==
  ASSUME RunsOK, BoardOK(board), NEW r \in Runs, Fine(run[r], board), Create(r)
  PROVE  Moves(r)
<1> DEFINE u == run[r]
           t == Len(board) + 1
           v == [u EXCEPT !.pc = "activate", !.task = t]
<1>1. u.pc = "create" /\ u \in RunRecord
  BY DEF Create, At, Fine
<1>2. run' = [run EXCEPT ![r] = v] /\ u.who \in Worker
  BY <1>1 DEF Create, RunsOK, Fine, WorksOn
<1>3. Grows(board, board') /\ Len(board') = t /\ Len(board) \in Nat
  BY <1>2, BoardAppend DEF Create, BoardOK
<1>4. t \in 1 .. Len(board') /\ t \in 0 .. MaxTasks
  BY <1>3, FlowAssumption DEF Grows
<1>5. /\ v \in RunRecord /\ v.left = u.left /\ v.pc = "activate" /\ v.plan = u.plan
      /\ v.who = u.who /\ v.task = t /\ v.done = u.done /\ v.failed = u.failed
      /\ v.accepted = u.accepted /\ v.refused = u.refused
  <2> HIDE DEF t
  <2> QED BY <1>1, <1>4 DEF RunRecord, Busy
<1>6. Fine(u, board')
  BY <1>3, FineGrows
<1> HIDE DEF u, v, t
<1>7. /\ WorksOn(v, board') /\ Prepared(v) /\ Divided(v) /\ Settled(v)
      /\ OnBoard(v, board')
  BY <1>1, <1>4, <1>5, <1>6 DEF Fine, WorksOn, Prepared, Divided, Settled, OnBoard, Walk, Staffing, Busy
<1>8. Fine(v, board')
  BY <1>5, <1>7 DEF Fine
<1> QED BY <1>2, <1>3, <1>8, MovesTo

LEMMA ActivateMoves ==
  ASSUME RunsOK, BoardOK(board), NEW r \in Runs, Fine(run[r], board), Activate(r)
  PROVE  Moves(r)
<1> DEFINE u == run[r]
           v(pc) == [u EXCEPT !.pc = pc, !.who = u.who, !.todo = u.todo, !.cands = u.cands]
<1>1. u.pc = "activate" /\ u \in RunRecord /\ WorksOn(u, board)
  BY DEF Activate, At, Fine
<1>2. /\ u.who \in Worker /\ u.task \in Task /\ \A pc : v(pc) = [u EXCEPT !.pc = pc]
      /\ u.todo \in SUBSET Worker /\ u.cands \in SUBSET (Worker \X Nat)
  BY <1>1 DEF RunRecord, WorksOn, Task, Busy
<1>3. CASE MaySet(u.task, "Active")
  <2>1. SetStatus(u.task, "Active") /\ run' = [run EXCEPT ![r] = v("assigned")]
    BY <1>2, <1>3 DEF Activate, RunsOK
  <2>2. Grows(board, board')
    BY <1>2, <1>3, <2>1, BoardStatus DEF Status
  <2>3. Fine(u, board')
    BY <2>2, FineGrows
  <2>4. /\ u.left # <<>>
        /\ \A n \in u.plan.deps[Head(u.left)] : \E d \in u.done : d[1] = n
    BY <1>1, <2>3 DEF Fine, WorksOn, OnBoard, Busy
  <2> DEFINE w == v("assigned")
  <2>5. w = [u EXCEPT !.pc = "assigned", !.who = u.who, !.todo = u.todo, !.cands = u.cands]
    OBVIOUS
  <2> HIDE DEF u, w, v
  <2>6. Fine(w, board')
    BY <1>1, <1>2, <2>3, <2>4, <2>5, PlaceOnly DEF Walk, Staffing, Busy
  <2> QED BY <2>1, <2>2, <2>6, MovesTo DEF w
<1>4. CASE ~MaySet(u.task, "Active")
  <2>1. board' = board /\ run' = [run EXCEPT ![r] = v("error")]
    BY <1>2, <1>4 DEF Activate, RunsOK
  <2>2. Fine(v("error"), board)
    BY <1>1, <1>2, PlaceOnly DEF Walk, Staffing, Busy
  <2> QED BY <2>1, <2>2, BoardSame, MovesTo
<1> QED BY <1>3, <1>4
\* Both ends of a node's turn take it out of what is left to walk.
LEMMA NextNodeFacts ==
  ASSUME NEW b, NEW u, Fine(u, b), u.pc \in Staffing \cup Busy
  PROVE  /\ u \in RunRecord /\ u.left \in Seq(Node) /\ Tail(u.left) \in Seq(Node)
         /\ Head(u.left) \in Node /\ Head(u.left) \in u.plan.nodes
         /\ Head(u.left) \notin u.accepted \cup u.failed
         /\ NoRepeats(Tail(u.left)) /\ Head(u.left) \notin Placed(Tail(u.left))
         /\ Placed(u.left) = Placed(Tail(u.left)) \cup {Head(u.left)}
         /\ u.plan.deps[Head(u.left)] \subseteq u.accepted
<1>1. u \in RunRecord /\ WorksOn(u, b) /\ Divided(u) /\ Settled(u) /\ OnBoard(u, b)
  BY DEF Fine
<1>2. u.left \in Seq(Node) /\ u.left # <<>>
  BY <1>1 DEF RunRecord, WorksOn
<1>3. NoRepeats(u.left)
  BY <1>1 DEF Divided, Walk
<1>4. /\ Tail(u.left) \in Seq(Node) /\ Head(u.left) \in Node /\ Head(u.left) \in Placed(u.left)
      /\ Placed(u.left) = Placed(Tail(u.left)) \cup {Head(u.left)}
      /\ NoRepeats(Tail(u.left)) /\ Head(u.left) \notin Placed(Tail(u.left))
  BY <1>2, <1>3, PlacedTail
<1>5. /\ Placed(u.left) \subseteq u.plan.nodes
      /\ Placed(u.left) \cap (u.accepted \cup u.failed) = {}
  BY <1>1 DEF Divided, Walk
<1>6. u.plan.deps[Head(u.left)] \subseteq u.accepted
  BY <1>1 DEF OnBoard, Settled
<1> QED BY <1>1, <1>2, <1>4, <1>5, <1>6

LEMMA CutBranchMoves ==
  ASSUME RunsOK, BoardOK(board), NEW r \in Runs, Fine(run[r], board), At(r, "executing"),
         CutBranch(r)
  PROVE  Moves(r)
<1> DEFINE u == run[r]
           n == Head(u.left)
           v == [u EXCEPT !.pc = "next", !.left = Tail(u.left), !.who = Nobody, !.task = 0,
                          !.failed = u.failed \cup {n}, !.refused = u.refused \cup {n}]
<1>1. u.pc = "executing"
  BY DEF At
<1>2. /\ u \in RunRecord /\ Tail(u.left) \in Seq(Node) /\ n \in Node /\ n \in u.plan.nodes
      /\ n \notin u.accepted \cup u.failed
      /\ NoRepeats(Tail(u.left)) /\ n \notin Placed(Tail(u.left))
      /\ Placed(u.left) = Placed(Tail(u.left)) \cup {n} /\ u.plan.deps[n] \subseteq u.accepted
  BY <1>1, NextNodeFacts DEF Busy
<1>3. run' = [run EXCEPT ![r] = v] /\ board' = board
  BY <1>2 DEF CutBranch, NextNode, N, RunsOK, RunRecord
<1>4. 0 \in 0 .. MaxTasks
  BY FlowAssumption
<1>5. /\ v \in RunRecord /\ v.left = Tail(u.left) /\ v.pc = "next" /\ v.plan = u.plan
      /\ v.done = u.done /\ v.failed = u.failed \cup {n}
      /\ v.accepted = u.accepted /\ v.refused = u.refused \cup {n}
  <2> HIDE DEF n
  <2> QED BY <1>2, <1>4 DEF RunRecord
<1>6. Prepared(u) /\ Divided(u) /\ Settled(u) /\ OnBoard(u, board)
  BY DEF Fine
<1> HIDE DEF u, v, n
<1>7. Divided(v)
  BY <1>1, <1>2, <1>5, <1>6 DEF Divided, Walk, Staffing, Busy
<1>8. Settled(v)
  BY <1>2, <1>5, <1>6 DEF Settled
<1>9. WorksOn(v, board) /\ Prepared(v) /\ OnBoard(v, board)
  BY <1>5, <1>6 DEF WorksOn, Prepared, OnBoard, Walk, Staffing, Busy
<1>10. Fine(v, board')
  BY <1>3, <1>5, <1>7, <1>8, <1>9 DEF Fine
<1> QED BY <1>3, <1>10, BoardSame, MovesTo

LEMMA AcceptMoves ==
  ASSUME RunsOK, BoardOK(board), NEW r \in Runs, Fine(run[r], board), Accept(r)
  PROVE  Moves(r)
<1> DEFINE u == run[r]
           n == Head(u.left)
           v == [u EXCEPT !.pc = "next", !.left = Tail(u.left), !.who = Nobody, !.task = 0,
                          !.done = u.done \cup {<<n, u.task>>},
                          !.accepted = u.accepted \cup {n}]
<1>1. u.pc = "executing" /\ MaySet(u.task, "Done") /\ SetStatus(u.task, "Done")
  BY DEF Accept, At
<1>2. /\ u \in RunRecord /\ Tail(u.left) \in Seq(Node) /\ n \in Node /\ n \in u.plan.nodes
      /\ n \notin u.accepted \cup u.failed
      /\ NoRepeats(Tail(u.left)) /\ n \notin Placed(Tail(u.left))
      /\ Placed(u.left) = Placed(Tail(u.left)) \cup {n} /\ u.plan.deps[n] \subseteq u.accepted
  BY <1>1, NextNodeFacts DEF Busy
<1>3. u.task \in 1 .. Len(board) /\ u.task \in Task /\ u.task \in Nat
  BY <1>1 DEF Fine, WorksOn, Busy, Task, BoardOK
<1>4. run' = [run EXCEPT ![r] = v]
  BY <1>2 DEF Accept, NextNode, N, RunsOK, RunRecord
<1>5. Grows(board, board') /\ Len(board') = Len(board) /\ board'[u.task].status = "Done"
  BY <1>1, <1>3, BoardStatus DEF Status
<1>6. 0 \in 0 .. MaxTasks /\ <<n, u.task>> \in Node \X Nat
  BY <1>2, <1>3, FlowAssumption
<1>7. /\ v \in RunRecord /\ v.left = Tail(u.left) /\ v.pc = "next" /\ v.plan = u.plan
      /\ v.done = u.done \cup {<<n, u.task>>} /\ v.failed = u.failed
      /\ v.accepted = u.accepted \cup {n} /\ v.refused = u.refused
  <2> HIDE DEF n
  <2> QED BY <1>2, <1>6 DEF RunRecord
<1>8. Fine(u, board')
  BY <1>5, FineGrows
<1>9. Prepared(u) /\ Divided(u) /\ Settled(u) /\ OnBoard(u, board')
  BY <1>8 DEF Fine
<1> HIDE DEF u, v, n
<1>10. Divided(v)
  BY <1>1, <1>2, <1>7, <1>9 DEF Divided, Walk, Staffing, Busy
<1>11. Settled(v)
  <2>1. <<n, u.task>>[1] = n
    OBVIOUS
  <2>2. v.accepted = {d[1] : d \in v.done}
    <3>1. u.accepted = {d[1] : d \in u.done}
      BY <1>9 DEF Settled
    <3>2. ASSUME NEW x PROVE x \in v.accepted <=> \E d \in v.done : x = d[1]
      BY <1>7, <2>1, <3>1
    <3> QED BY <3>2
  <2>3. v.accepted \cap v.failed = {} /\ v.refused \subseteq v.failed
    BY <1>2, <1>7, <1>9 DEF Settled
  <2>4. \A m \in v.accepted \cup v.refused : m \in v.plan.nodes /\ v.plan.deps[m] \subseteq v.accepted
    BY <1>2, <1>7, <1>9 DEF Settled
  <2>5. \A m \in v.failed : m \in v.refused \/ v.plan.deps[m] \cap v.failed # {}
    BY <1>7, <1>9 DEF Settled
  <2> QED BY <2>2, <2>3, <2>4, <2>5 DEF Settled
<1>12. OnBoard(v, board')
  <2>1. IsDone(board', <<n, u.task>>)
    BY <1>3, <1>5 DEF IsDone
  <2> QED BY <1>7, <1>9, <2>1 DEF OnBoard, Staffing, Busy
<1>13. WorksOn(v, board') /\ Prepared(v)
  BY <1>7 DEF WorksOn, Prepared, Walk, Staffing, Busy
<1>14. Fine(v, board')
  BY <1>7, <1>10, <1>11, <1>12, <1>13 DEF Fine
<1> QED BY <1>4, <1>5, <1>14, MovesTo
-----------------------------------------------------------------------------
(* The invariant *)

FlowInv ==
  /\ BoardOK(board) /\ presence \in [Worker -> Presence] /\ edits \in 0 .. MaxEdits
  /\ RunsOK /\ \A r \in Runs : Fine(run[r], board)

LEMMA FlowInvInit == FlowInit => FlowInv
<1> SUFFICES ASSUME FlowInit PROVE FlowInv
  OBVIOUS
<1>1. /\ <<>> \in Seq(Node) /\ 0 \in 0 .. MaxTasks /\ (CHOOSE x \in Plans : TRUE) \in Plans
      /\ 0 \in 0 .. MaxEdits /\ MaxTasks >= 0
  BY FlowAssumption
<1>2. Fresh \in RunRecord
  BY <1>1 DEF Fresh, RunRecord
<1>3. /\ Fresh.pc = "idle" /\ Fresh.done = {} /\ Fresh.failed = {}
      /\ Fresh.accepted = {} /\ Fresh.refused = {}
  BY DEF Fresh
<1> HIDE DEF Fresh
<1>4. Fine(Fresh, <<>>)
  BY <1>2, <1>3 DEF Fine, WorksOn, Prepared, Divided, Settled, OnBoard, Walk, Staffing, Busy
<1>5. BoardOK(board)
  BY <1>1 DEF FlowInit, BoardOK
<1>6. presence \in [Worker -> Presence]
  BY DEF FlowInit, Presence
<1> QED BY <1>1, <1>2, <1>4, <1>5, <1>6 DEF FlowInit, FlowInv, RunsOK

\* A step of one run, by whatever other changes it is accompanied.
LEMMA MovesKeep ==
  ASSUME FlowInv, NEW r \in Runs, Moves(r), UNCHANGED <<presence, edits>>
  PROVE  FlowInv'
<1>1. RunsOK'
  BY DEF FlowInv, RunsOK, Moves, Fine
<1>2. BoardOK(board')
  BY DEF Moves, Grows, BoardOK
<1>3. ASSUME NEW q \in Runs PROVE Fine(run'[q], board')
  <2>1. CASE q = r
    BY <2>1 DEF Moves
  <2>2. CASE q # r
    <3>1. run'[q] = run[q]
      BY <2>2 DEF Moves, FlowInv, RunsOK
    <3>2. Fine(run[q], board')
      BY FineGrows DEF FlowInv, Moves
    <3> QED BY <3>1, <3>2
  <2> QED BY <2>1, <2>2
<1> QED BY <1>1, <1>2, <1>3 DEF FlowInv

\* An edit by another holder, or none at all.
LEMMA OthersKeep ==
  ASSUME FlowInv, Others \/ UNCHANGED flowVars
  PROVE  FlowInv'
<1>1. Grows(board, board')
  BY BoardOthers, BoardSame DEF FlowInv, flowVars
<1>2. BoardOK(board')
  BY <1>1 DEF Grows, BoardOK
<1>3. run' = run
  BY DEF Others, flowVars, UpdateTask, HandOff, Assign, CreateTask, Register, Deregister,
         Heartbeat, Attend, Edit
<1>4. \A r \in Runs : Fine(run'[r], board')
  BY <1>1, <1>3, FineGrows DEF FlowInv
<1>5. edits' \in 0 .. MaxEdits
  <2>1. edits' = edits \/ (edits < MaxEdits /\ edits' = edits + 1)
    BY DEF Others, flowVars, UpdateTask, HandOff, Assign, CreateTask, Register, Deregister,
           Heartbeat, Attend, Edit
  <2> QED BY <2>1, FlowAssumption DEF FlowInv
<1>6. presence' \in [Worker -> Presence]
  <2>1. ASSUME NEW w \in Worker, NEW old, NEW new \in Presence, Attend(w, old, new)
        PROVE  presence' \in [Worker -> Presence]
    BY <2>1 DEF Attend, FlowInv
  <2>2. ASSUME NEW w \in Worker, Register(w) \/ Deregister(w)
        PROVE  presence' \in [Worker -> Presence]
    BY <2>1, <2>2 DEF Register, Deregister, Presence
  <2>3. ASSUME NEW w \in Worker, NEW late \in BOOLEAN, Heartbeat(w, late)
        PROVE  presence' \in [Worker -> Presence]
    BY <2>1, <2>3 DEF Heartbeat, Presence
  <2>4. ASSUME UNCHANGED presence PROVE presence' \in [Worker -> Presence]
    BY <2>4 DEF FlowInv
  <2> QED BY <2>2, <2>3, <2>4 DEF Others, flowVars, UpdateTask, HandOff, Assign, CreateTask
<1>7. RunsOK'
  BY <1>3 DEF FlowInv, RunsOK
<1> QED BY <1>2, <1>4, <1>5, <1>6, <1>7 DEF FlowInv

LEMMA FlowInvStep == FlowInv /\ [FlowNext]_flowVars => FlowInv'
<1> SUFFICES ASSUME FlowInv, [FlowNext]_flowVars PROVE FlowInv'
  OBVIOUS
<1> USE DEF FlowInv
<1>1. ASSUME NEW r \in Runs, Starts(r) PROVE FlowInv'
  BY <1>1, StartMoves, MovesKeep DEF Starts, Start
<1>2. ASSUME NEW r \in Runs, Place(r) PROVE FlowInv'
  BY <1>2, PlaceMoves, MovesKeep DEF Place
<1>3. ASSUME NEW r \in Runs, OrderEnds(r) PROVE FlowInv'
  BY <1>3, OrderEndsMoves, MovesKeep DEF OrderEnds
<1>4. ASSUME NEW r \in Runs, Inherit(r) PROVE FlowInv'
  BY <1>4, InheritMoves, MovesKeep DEF Inherit
<1>5. ASSUME NEW r \in Runs, CheckDeps(r) \/ Look(r) \/ Count(r) PROVE FlowInv'
  <2>1. Moves(r)
    BY <1>5, CheckDepsMoves, LookMoves, CountMoves
  <2> QED BY <1>5, <2>1, MovesKeep DEF CheckDeps, Look, Count
<1>6. ASSUME NEW r \in Runs, Create(r) PROVE FlowInv'
  BY <1>6, CreateMoves, MovesKeep DEF Create
<1>7. ASSUME NEW r \in Runs, Activate(r) PROVE FlowInv'
  BY <1>7, ActivateMoves, MovesKeep DEF Activate
<1>8. ASSUME NEW r \in Runs, Finish(r) PROVE FlowInv'
  BY <1>8, FinishMoves, MovesKeep DEF Finish
<1>9. ASSUME NEW r \in Runs, Choose(r) \/ NoWorker(r) \/ Untitled(r) PROVE FlowInv'
  <2>1. Moves(r)
    BY <1>9, ChooseMoves, GivesUpMoves
  <2> QED BY <1>9, <2>1, MovesKeep DEF Choose, NoWorker, Untitled
<1>10. ASSUME NEW r \in Runs, Execute(r) PROVE FlowInv'
  BY <1>10, ExecuteMoves, MovesKeep DEF Execute
<1>11. ASSUME NEW r \in Runs, Accept(r) PROVE FlowInv'
  BY <1>11, AcceptMoves, MovesKeep DEF Accept
<1>12. ASSUME NEW r \in Runs, Refuse(r) \/ ExecutorFails(r) PROVE FlowInv'
  BY <1>12, CutBranchMoves, MovesKeep DEF Refuse, ExecutorFails, CutBranch
<1> QED
  BY <1>1, <1>2, <1>3, <1>4, <1>5, <1>6, <1>7, <1>8, <1>9, <1>10, <1>11, <1>12, OthersKeep
  DEF FlowNext, Drive, Delivers
-----------------------------------------------------------------------------
(* The theorems *)

LEMMA FlowInvHolds == FlowSpec => []FlowInv
BY FlowInvInit, FlowInvStep, PTL DEF FlowSpec

\* The board, the registry and the runs are of their types; every task a run
\* names is on the board.
THEOREM FlowTypeCorrect == FlowSpec => []FlowTypeOK
<1>1. FlowInv => FlowTypeOK
  <2> SUFFICES ASSUME FlowInv PROVE FlowTypeOK
    OBVIOUS
  <2>1. board \in Seq([status : Status, assignee : Worker \cup {Nobody}]) /\ Len(board) <= MaxTasks
    BY DEF FlowInv, BoardOK, TaskRecord
  <2>2. ASSUME NEW r \in Runs
        PROVE  /\ run[r] \in RunRecord /\ run[r].done \in SUBSET (Node \X Task)
               /\ run[r].pc \in Busy => run[r].task \in Task
               /\ run[r].pc \in Staffing \cup Busy => run[r].left # <<>>
               /\ run[r].pc \in {"count", "create"} \cup Busy => run[r].who \in Worker
    <3>1. Fine(run[r], board)
      BY DEF FlowInv
    <3>2. run[r] \in RunRecord /\ run[r].done \in SUBSET (Node \X Nat)
      BY <3>1 DEF Fine, RunRecord
    <3>3. \A d \in run[r].done : d[2] \in Task
      BY <3>1 DEF Fine, OnBoard, IsDone, Task
    <3>4. run[r].done \in SUBSET (Node \X Task)
      BY <3>2, <3>3
    <3> QED BY <3>1, <3>2, <3>4 DEF Fine, WorksOn, Task
  <2>3. run \in [Runs ->
       [pc : {"idle", "order", "next"} \cup Staffing \cup Busy \cup Over, plan : Plans,
        left : Seq(Node), who : Worker \cup {Nobody}, todo : SUBSET Worker,
        cands : SUBSET (Worker \X Nat), task : 0 .. MaxTasks,
        deep : BOOLEAN, done : SUBSET (Node \X Task), failed : SUBSET Node,
        accepted : SUBSET Node, refused : SUBSET Node]]
    BY <2>2 DEF FlowInv, RunsOK, RunRecord
  <2> QED BY <2>1, <2>2, <2>3 DEF FlowInv, FlowTypeOK
<1> QED BY <1>1, FlowInvHolds, PTL

\* No node is worked on before its dependencies are Done on the shared board,
\* and what is Done there stays so under every edit of its other holders.
THEOREM NothingOnUnfinished == FlowSpec => []DepsAreDone
<1>1. FlowInv => DepsAreDone
  <2> SUFFICES ASSUME FlowInv, NEW r \in Runs
               PROVE  /\ \A d \in run[r].done :
                           /\ board[d[2]].status = "Done"
                           /\ \A n \in run[r].plan.deps[d[1]] : \E e \in run[r].done : e[1] = n
                      /\ run[r].pc \in Staffing \cup Busy => DepsDone(r)
    BY DEF DepsAreDone
  <2>1. Fine(run[r], board)
    BY DEF FlowInv
  <2>2. ASSUME NEW d \in run[r].done PROVE board[d[2]].status = "Done"
    BY <2>1 DEF Fine, OnBoard, IsDone
  <2>3. ASSUME NEW d \in run[r].done, NEW n \in run[r].plan.deps[d[1]]
        PROVE  \E e \in run[r].done : e[1] = n
    BY <2>1 DEF Fine, Settled
  <2>4. ASSUME run[r].pc \in Staffing \cup Busy PROVE DepsDone(r)
    BY <2>1, <2>2, <2>4 DEF Fine, OnBoard, DepsDone, Deps, N
  <2> QED BY <2>2, <2>3, <2>4
<1> QED BY <1>1, FlowInvHolds, PTL

\* A run reports every node as completed or failed, fails exactly the nodes
\* that were refused or have a failed dependency, and gives the executor no
\* turn of a failed branch.
THEOREM ReportsAreRight == FlowSpec => []ReportIsRight
<1>1. FlowInv => ReportIsRight
  <2> SUFFICES ASSUME FlowInv, NEW r \in Runs, Fine(run[r], board)
               PROVE  /\ At(r, "ok") =>
                           /\ run[r].plan.nodes = Completed(r) \cup run[r].failed
                           /\ \A n \in run[r].failed :
                                n \in run[r].refused \/ run[r].plan.deps[n] \cap run[r].failed # {}
                      /\ Completed(r) = run[r].accepted
                      /\ run[r].accepted \cap run[r].failed = {} /\ run[r].refused \subseteq run[r].failed
                      /\ \A n \in run[r].accepted \cup run[r].refused :
                           run[r].plan.deps[n] \subseteq run[r].accepted
    BY DEF ReportIsRight, FlowInv
  <2>1. Settled(run[r]) /\ Divided(run[r]) /\ Completed(r) = run[r].accepted
    BY DEF Fine, Settled, Completed
  <2>2. At(r, "ok") => run[r].plan.nodes = run[r].accepted \cup run[r].failed
    BY <2>1 DEF At, Divided, Walk, Placed
  <2> QED BY <2>1, <2>2 DEF Settled
<1> QED BY <1>1, FlowInvHolds, PTL

-----------------------------------------------------------------------------
(* The order *)

\* What stands before place i, and an order that takes, at every place, the
\* smallest of the nodes that may stand there.
Upto(s, i) == {s[j] : j \in 1 .. i - 1}
Greedy(p, s) ==
  \A i \in 1 .. Len(s) :
    /\ s[i] \in p.nodes \ Upto(s, i) /\ p.deps[s[i]] \subseteq Upto(s, i)
    /\ \A n \in p.nodes \ Upto(s, i) : p.deps[n] \subseteq Upto(s, i) => s[i] <= n

Size(p) == Cardinality(p.nodes)

LEMMA SizeFacts == ASSUME NEW p \in Plans PROVE IsFiniteSet(p.nodes) /\ Size(p) \in Nat
<1>1. IsFiniteSet(p.nodes)
  BY PlanFacts, FlowAssumption, FS_Subset
<1> QED BY <1>1, FS_CardinalityType DEF Size

\* A linear order has no repetition, and every node in it.
LEMMA LinearFacts ==
  ASSUME NEW p \in Plans, NEW s \in Linear(p)
  PROVE  /\ s \in [1 .. Size(p) -> p.nodes]
         /\ \A i, j \in 1 .. Size(p) : s[i] = s[j] => i = j
         /\ \A i \in 1 .. Size(p) : p.deps[s[i]] \subseteq Upto(s, i)
         /\ \A n \in p.nodes : \E i \in 1 .. Size(p) : s[i] = n
<1>1. /\ s \in [1 .. Size(p) -> p.nodes] /\ DOMAIN s = 1 .. Size(p)
      /\ \A i, j \in 1 .. Size(p) : s[i] = s[j] => i = j
      /\ \A i \in 1 .. Size(p) : p.deps[s[i]] \subseteq Upto(s, i)
  BY DEF Linear, Size, Upto
<1>2. s \in Injection(1 .. Size(p), p.nodes)
  BY <1>1 DEF Injection, IsInjective
<1>3. Cardinality(1 .. Size(p)) = Cardinality(p.nodes)
  BY SizeFacts, FS_Interval DEF Size
<1>4. s \in Surjection(1 .. Size(p), p.nodes)
  BY <1>2, <1>3, SizeFacts, FS_Injection
<1> QED BY <1>1, <1>4 DEF Surjection

\* The first place at which something holds.
LEMMA FirstPlace ==
  ASSUME NEW n \in Nat, NEW S \in SUBSET (1 .. n), S # {}
  PROVE  /\ First(S) \in S /\ First(S) \in 1 .. n
         /\ \A j \in 1 .. First(S) - 1 : j \in 1 .. n /\ j \notin S
<1>1. S \in SUBSET Nat
  OBVIOUS
<1>2. First(S) \in S /\ \A y \in S : First(S) <= y
  BY <1>1, FirstExists
<1>3. First(S) \in 1 .. n
  BY <1>2
<1>4. ASSUME NEW j \in 1 .. First(S) - 1 PROVE j \in 1 .. n /\ j \notin S
  BY <1>2, <1>3, <1>4
<1> QED BY <1>2, <1>3, <1>4

\* When no node may be placed any more and some are not, there is no order.
LEMMA StuckHasNone ==
  ASSUME NEW p \in Plans, NEW s \in Seq(Node), Placed(s) \subseteq p.nodes,
         Placed(s) # p.nodes, Ready(p, s) = {}
  PROVE  Linear(p) = {}
<1> SUFFICES ASSUME NEW u \in Linear(p) PROVE FALSE
  OBVIOUS
<1> DEFINE S == {i \in 1 .. Size(p) : u[i] \notin Placed(s)}
           i == First(S)
<1>1. /\ Size(p) \in Nat /\ u \in [1 .. Size(p) -> p.nodes]
      /\ \A k \in 1 .. Size(p) : p.deps[u[k]] \subseteq Upto(u, k)
      /\ \A n \in p.nodes : \E k \in 1 .. Size(p) : u[k] = n
  BY SizeFacts, LinearFacts
<1>2. S # {} /\ S \in SUBSET (1 .. Size(p))
  <2>1. PICK n \in p.nodes : n \notin Placed(s)
    OBVIOUS
  <2>2. PICK k \in 1 .. Size(p) : u[k] = n
    BY <1>1
  <2>3. k \in S
    BY <2>1, <2>2
  <2> QED BY <2>3
<1>3. i \in S /\ \A j \in 1 .. i - 1 : j \in 1 .. Size(p) /\ j \notin S
  <2> HIDE DEF S
  <2> QED BY <1>1, <1>2, FirstPlace
<1>4. i \in 1 .. Size(p) /\ u[i] \notin Placed(s) /\ \A j \in 1 .. i - 1 : u[j] \in Placed(s)
  BY <1>3
<1> HIDE DEF S, i
<1>5. u[i] \in p.nodes /\ p.deps[u[i]] \subseteq Placed(s)
  BY <1>1, <1>4 DEF Upto
<1> QED BY <1>4, <1>5 DEF Ready

\* Nor is there one when a node depends on itself or on none of the plan's.
LEMMA DanglingHasNone ==
  ASSUME NEW p \in Plans, Dangling(p)
  PROVE  Linear(p) = {}
<1> SUFFICES ASSUME NEW u \in Linear(p) PROVE FALSE
  OBVIOUS
<1>1. PICK n \in p.nodes : ~(p.deps[n] \subseteq p.nodes \ {n})
  BY DEF Dangling
<1>2. /\ Size(p) \in Nat /\ u \in [1 .. Size(p) -> p.nodes]
      /\ \A i, j \in 1 .. Size(p) : u[i] = u[j] => i = j
      /\ \A k \in 1 .. Size(p) : p.deps[u[k]] \subseteq Upto(u, k)
  BY SizeFacts, LinearFacts
<1>3. PICK i \in 1 .. Size(p) : u[i] = n
  BY <1>1, LinearFacts
<1>4. \A j \in 1 .. i - 1 : j \in 1 .. Size(p) /\ j # i
  BY <1>2
<1>5. Upto(u, i) \subseteq p.nodes \ {n}
  BY <1>2, <1>3, <1>4 DEF Upto
<1> QED BY <1>1, <1>2, <1>3, <1>5

\* The next place of a greedy order.
LEMMA GreedyAppend ==
  ASSUME NEW p \in Plans, NEW s \in Seq(Node), Greedy(p, s), Ready(p, s) # {}
  PROVE  Greedy(p, Append(s, First(Ready(p, s))))
<1> DEFINE x == First(Ready(p, s))
           t == Append(s, x)
<1>1. x \in Ready(p, s) /\ \A y \in Ready(p, s) : x <= y
  <2>1. Ready(p, s) \in SUBSET Nat
    BY PlanFacts DEF Ready
  <2> QED BY <2>1, FirstExists
<1>2. x \in Node
  BY <1>1, PlanFacts DEF Ready
<1> HIDE DEF x
<1>3. /\ Len(s) \in Nat /\ Len(t) = Len(s) + 1 /\ t[Len(s) + 1] = x
      /\ \A i \in 1 .. Len(s) : t[i] = s[i]
  BY <1>2
<1> HIDE DEF t
<1>4. ASSUME NEW i \in 1 .. Len(s) + 1 PROVE Upto(t, i) = Upto(s, i)
  <2>1. \A j \in 1 .. i - 1 : j \in 1 .. Len(s)
    BY <1>3
  <2> QED BY <1>3, <2>1 DEF Upto
<1>5. Upto(s, Len(s) + 1) = Placed(s)
  <2>1. Len(s) + 1 - 1 = Len(s)
    BY <1>3
  <2> QED BY <2>1 DEF Upto, Placed
<1>6. ASSUME NEW i \in 1 .. Len(t)
      PROVE  /\ t[i] \in p.nodes \ Upto(t, i) /\ p.deps[t[i]] \subseteq Upto(t, i)
             /\ \A n \in p.nodes \ Upto(t, i) : p.deps[n] \subseteq Upto(t, i) => t[i] <= n
  <2>1. i \in 1 .. Len(s) + 1 /\ Upto(t, i) = Upto(s, i)
    BY <1>3, <1>4
  <2>2. CASE i \in 1 .. Len(s)
    BY <1>3, <2>1, <2>2 DEF Greedy
  <2>3. CASE i \notin 1 .. Len(s)
    <3>1. i = Len(s) + 1
      BY <1>3, <2>1, <2>3
    <3>2. t[i] = x /\ Upto(t, i) = Placed(s)
      BY <1>3, <1>5, <2>1, <3>1
    <3> QED BY <1>1, <3>2 DEF Ready
  <2> QED BY <2>2, <2>3
<1>7. Greedy(p, t)
  BY <1>6 DEF Greedy
<1> QED BY <1>7 DEF t, x

\* A greedy order of all the nodes is a linear one, and before all others: at
\* the first place where another one differs, that one has a node which might
\* have stood here too.
LEMMA GreedyIsFirst ==
  ASSUME NEW p \in Plans, NEW s \in Seq(Node), Len(s) = Size(p), Greedy(p, s)
  PROVE  s \in Linear(p) /\ \A u \in Linear(p) : u = s \/ Before(s, u)
<1>1. Size(p) \in Nat /\ s \in [1 .. Size(p) -> Node] /\ DOMAIN s = 1 .. Size(p)
  BY SizeFacts, LenProperties
<1>2. \A i \in 1 .. Size(p) : s[i] \in p.nodes \ Upto(s, i) /\ p.deps[s[i]] \subseteq Upto(s, i)
  BY DEF Greedy
<1>3. s \in [1 .. Size(p) -> p.nodes]
  BY <1>1, <1>2
<1>4. ASSUME NEW i \in 1 .. Size(p), NEW j \in 1 .. Size(p), s[i] = s[j] PROVE i = j
  <2>1. ASSUME NEW k \in 1 .. Size(p), NEW l \in 1 .. Size(p), k < l PROVE s[k] # s[l]
    <3>1. k \in 1 .. l - 1
      BY <1>1, <2>1
    <3> QED BY <1>2, <3>1 DEF Upto
  <2> QED BY <1>1, <1>4, <2>1
<1>5. s \in Linear(p)
  BY <1>1, <1>2, <1>3, <1>4 DEF Linear, Size, Upto
<1>6. ASSUME NEW u \in Linear(p), u # s PROVE Before(s, u)
  <2> DEFINE S == {k \in 1 .. Size(p) : u[k] # s[k]}
             i == First(S)
  <2>1. /\ u \in [1 .. Size(p) -> p.nodes]
        /\ \A k, l \in 1 .. Size(p) : u[k] = u[l] => k = l
        /\ \A k \in 1 .. Size(p) : p.deps[u[k]] \subseteq Upto(u, k)
    BY LinearFacts
  <2>2. S # {} /\ S \in SUBSET (1 .. Size(p))
    BY <1>3, <1>6, <2>1
  <2>3. i \in S /\ i \in 1 .. Size(p) /\ \A j \in 1 .. i - 1 : j \in 1 .. Size(p) /\ j \notin S
    <3> HIDE DEF S
    <3> QED BY <1>1, <2>2, FirstPlace
  <2>4. u[i] # s[i] /\ \A j \in 1 .. i - 1 : u[j] = s[j]
    BY <2>3
  <2> HIDE DEF S, i
  <2>5. Upto(u, i) = Upto(s, i)
    BY <2>4 DEF Upto
  <2>6. u[i] \in p.nodes \ Upto(u, i)
    <3>1. \A j \in 1 .. i - 1 : j # i
      BY <1>1, <2>3
    <3> QED BY <2>1, <2>3, <3>1 DEF Upto
  <2>7. s[i] <= u[i]
    BY <2>1, <2>3, <2>5, <2>6 DEF Greedy
  <2>8. s[i] < u[i]
    <3>1. s[i] \in Nat /\ u[i] \in Nat
      BY <1>3, <2>1, <2>3, PlanFacts
    <3> QED BY <2>4, <2>7, <3>1
  <2> QED BY <1>1, <2>3, <2>4, <2>8 DEF Before
<1> QED BY <1>5, <1>6

\* While a run orders its plan the order is greedy; a run is refused for its
\* depth or because there is no order; a run that has the whole order before
\* it has the greedy one.
Ordered(v) ==
  /\ v.pc = "order" => ~v.deep /\ Greedy(v.plan, v.left)
  /\ v.pc = "invalid" => v.deep \/ Linear(v.plan) = {}
  /\ v.pc = "next" /\ Len(v.left) = Size(v.plan) => ~v.deep /\ Greedy(v.plan, v.left)

\* What a run has before it never grows beyond its plan.
LEMMA LeftFits ==
  ASSUME NEW b, NEW v, Fine(v, b), v.pc \in Walk
  PROVE  v.left \in Seq(Node) /\ v.plan \in Plans /\ Len(v.left) <= Size(v.plan)
<1> DEFINE s == v.left
           p == v.plan
<1>1. s \in Seq(Node) /\ p \in Plans /\ NoRepeats(s) /\ Placed(s) \subseteq p.nodes
  BY DEF Fine, RunRecord, Divided
<1> HIDE DEF s, p
<1>2. Len(s) \in Nat /\ s \in [1 .. Len(s) -> Node] /\ DOMAIN s = 1 .. Len(s)
  BY <1>1, LenProperties
<1>3. s \in [1 .. Len(s) -> p.nodes]
  BY <1>1, <1>2 DEF Placed
<1>4. s \in Injection(1 .. Len(s), p.nodes)
  BY <1>1, <1>2, <1>3 DEF NoRepeats, Injection, IsInjective
<1>5. Cardinality(1 .. Len(s)) <= Cardinality(p.nodes)
  BY <1>1, <1>4, SizeFacts, FS_Injection
<1>6. Cardinality(1 .. Len(s)) = Len(s)
  BY SMTT(30), <1>2, FS_Interval
<1> QED BY <1>1, <1>5, <1>6 DEF Size, s, p

\* A step that gets a run away from "next", or one node on, keeps it ordered.
LEMMA WalksOn ==
  ASSUME NEW b, NEW u, Fine(u, b), u.pc \in Walk, NEW v,
         \/ v.pc \in Walk \ {"next"}
         \/ v.pc = "next" /\ u.left # <<>> /\ v.left = Tail(u.left) /\ v.plan = u.plan
  PROVE  Ordered(v)
<1>1. CASE v.pc \in Walk \ {"next"}
  BY <1>1 DEF Ordered, Walk, Staffing, Busy
<1>2. CASE v.pc = "next" /\ u.left # <<>> /\ v.left = Tail(u.left) /\ v.plan = u.plan
  <2>1. u.left \in Seq(Node) /\ u.plan \in Plans /\ Len(u.left) <= Size(u.plan)
    BY LeftFits
  <2>2. Len(u.left) \in Nat /\ Len(Tail(u.left)) = Len(u.left) - 1
    BY <1>2, <2>1
  <2>3. Size(u.plan) \in Nat
    BY <2>1, SizeFacts
  <2> QED BY <1>2, <2>1, <2>2, <2>3 DEF Ordered
<1> QED BY <1>1, <1>2

LEMMA StartOrdered ==
  ASSUME RunsOK, NEW r \in Runs, Starts(r)
  PROVE  Ordered(run'[r])
<1>1. PICK p \in Plans, depth \in {MaxDepth, MaxDepth + 1} : Start(r, p, depth)
  BY DEF Starts
<1> DEFINE bad == depth > MaxDepth \/ Dangling(p)
           v == [Fresh EXCEPT !.pc = IF bad THEN "invalid" ELSE "order",
                   !.plan = p, !.deep = depth > MaxDepth]
<1>2. run'[r] = v
  BY <1>1 DEF Start, RunsOK
<1>3. /\ v.pc = (IF bad THEN "invalid" ELSE "order") /\ v.plan = p
      /\ v.deep = (depth > MaxDepth) /\ v.left = <<>>
  BY DEF Fresh
<1>4. Dangling(p) => Linear(p) = {}
  BY DanglingHasNone
<1> HIDE DEF v
<1>5. Greedy(p, <<>>)
  BY DEF Greedy
<1>6. CASE bad
  <2>1. v.deep \/ Linear(p) = {}
    BY <1>3, <1>4, <1>6
  <2> QED BY <1>2, <1>3, <1>6, <2>1 DEF Ordered
<1>7. CASE ~bad
  <2>1. ~v.deep
    BY <1>3, <1>7
  <2> QED BY <1>2, <1>3, <1>5, <1>7, <2>1 DEF Ordered
<1> QED BY <1>6, <1>7

LEMMA PlaceOrdered ==
  ASSUME RunsOK, NEW r \in Runs, Fine(run[r], board), Ordered(run[r]), Place(r)
  PROVE  Ordered(run'[r])
<1> DEFINE u == run[r]
           x == First(Ready(u.plan, u.left))
           v == [u EXCEPT !.left = Append(u.left, x)]
<1>1. u \in RunRecord /\ u.pc = "order" /\ Ready(u.plan, u.left) # {} /\ ~u.deep
  BY DEF Place, At, Fine, Ordered
<1>2. u.left \in Seq(Node) /\ u.plan \in Plans /\ Greedy(u.plan, u.left)
  BY <1>1 DEF RunRecord, Ordered
<1>3. Greedy(u.plan, Append(u.left, x))
  BY <1>1, <1>2, GreedyAppend
<1>4. run'[r] = v
  BY DEF Place, RunsOK
<1>5. v.left = Append(u.left, x) /\ v.pc = "order" /\ v.plan = u.plan /\ v.deep = u.deep
  BY <1>1 DEF RunRecord
<1> HIDE DEF u, v, x
<1> QED BY <1>1, <1>3, <1>4, <1>5 DEF Ordered

LEMMA OrderEndsOrdered ==
  ASSUME RunsOK, NEW r \in Runs, Fine(run[r], board), Ordered(run[r]), OrderEnds(r)
  PROVE  Ordered(run'[r])
<1> DEFINE u == run[r]
           all == Placed(u.left) = u.plan.nodes
           v == [u EXCEPT !.pc = IF all THEN "next" ELSE "invalid"]
<1>1. u \in RunRecord /\ u.pc = "order" /\ Ready(u.plan, u.left) = {} /\ ~u.deep
  BY DEF OrderEnds, At, Fine, Ordered
<1>2. /\ u.left \in Seq(Node) /\ u.plan \in Plans /\ Greedy(u.plan, u.left)
      /\ Placed(u.left) \subseteq u.plan.nodes
  BY <1>1 DEF RunRecord, Ordered, Fine, Prepared
<1>3. ~all => Linear(u.plan) = {}
  BY <1>1, <1>2, StuckHasNone
<1>4. run'[r] = v
  BY DEF OrderEnds, RunsOK
<1>5. /\ v.pc = (IF all THEN "next" ELSE "invalid")
      /\ v.left = u.left /\ v.plan = u.plan /\ v.deep = u.deep
  BY <1>1 DEF RunRecord
<1> HIDE DEF u, v, all
<1>6. CASE all
  BY <1>1, <1>2, <1>4, <1>5, <1>6 DEF Ordered
<1>7. CASE ~all
  BY <1>3, <1>4, <1>5, <1>7 DEF Ordered
<1> QED BY <1>6, <1>7

\* Every other step of a run leaves the order or takes a node off it.
Walks(r) ==
  \/ Inherit(r) \/ CheckDeps(r) \/ Look(r) \/ Count(r) \/ Choose(r) \/ NoWorker(r)
  \/ Create(r) \/ Untitled(r) \/ Activate(r)
  \/ Execute(r) \/ Accept(r) \/ Refuse(r) \/ ExecutorFails(r) \/ Finish(r)

LEMMA WalkOrdered ==
  ASSUME RunsOK, NEW r \in Runs, Fine(run[r], board), Walks(r)
  PROVE  Ordered(run'[r])
<1> DEFINE u == run[r]
           v == run'[r]
<1> USE DEF At, Walk, Staffing, Busy
<1>0. u \in RunRecord /\ RunsOK
  BY DEF RunsOK
<1>1. CASE Inherit(r)
  <2>1. u.pc = "next" /\ u.left # <<>>
    BY <1>1 DEF Inherit, Walking
  <2>2. v.pc = "next" /\ v.left = Tail(u.left) /\ v.plan = u.plan
    BY <1>0, <1>1, <2>1 DEF Inherit, RunsOK, RunRecord
  <2> HIDE DEF u, v
  <2> QED BY <2>1, <2>2, WalksOn DEF u, v
<1>2. CASE Accept(r) \/ Refuse(r) \/ ExecutorFails(r)
  <2>1. u.pc = "executing" /\ u.left # <<>>
    BY <1>2 DEF Accept, Refuse, ExecutorFails, Fine, WorksOn
  <2>2. v.pc = "next" /\ v.left = Tail(u.left) /\ v.plan = u.plan
    <3> DEFINE n == Head(u.left)
               a == [u EXCEPT !.pc = "next", !.left = Tail(u.left), !.who = Nobody, !.task = 0,
                              !.done = u.done \cup {<<n, u.task>>},
                              !.accepted = u.accepted \cup {n}]
               c == [u EXCEPT !.pc = "next", !.left = Tail(u.left), !.who = Nobody, !.task = 0,
                              !.failed = u.failed \cup {n}, !.refused = u.refused \cup {n}]
    <3>1. /\ a.pc = "next" /\ a.left = Tail(u.left) /\ a.plan = u.plan
          /\ c.pc = "next" /\ c.left = Tail(u.left) /\ c.plan = u.plan
      <4> HIDE DEF n
      <4> QED BY <1>0 DEF RunRecord
    <3>2. CASE Accept(r)
      <4>1. run' = [run EXCEPT ![r] = a]
        BY <1>0, <3>2 DEF Accept, NextNode, N, RunsOK, RunRecord
      <4>2. v = a
        BY <1>0, <4>1 DEF RunsOK
      <4> QED BY <3>1, <4>2
    <3>3. CASE Refuse(r) \/ ExecutorFails(r)
      <4>1. run' = [run EXCEPT ![r] = c]
        BY <1>0, <3>3 DEF Refuse, ExecutorFails, CutBranch, NextNode, N, RunsOK, RunRecord
      <4>2. v = c
        BY <1>0, <4>1 DEF RunsOK
      <4> QED BY <3>1, <4>2
    <3> QED BY <1>2, <3>2, <3>3
  <2> HIDE DEF u, v
  <2> QED BY <2>1, <2>2, WalksOn DEF u, v
<1>3. CASE CheckDeps(r) \/ Look(r) \/ Count(r) \/ Choose(r)
  <2>1. u.pc \in Walk /\ v.pc \in Staffing \cup {"error"}
    BY <1>0, <1>3 DEF CheckDeps, Look, Count, Choose, Walking, RunsOK, RunRecord
  <2> QED BY <2>1, WalksOn
<1>4. CASE NoWorker(r) \/ Untitled(r) \/ Finish(r)
  <2>1. u.pc \in Walk /\ v.pc \in {"error", "ok"}
    BY <1>0, <1>4 DEF NoWorker, Untitled, Finish, RunsOK, RunRecord
  <2> QED BY <2>1, WalksOn
<1>5. CASE Create(r) \/ Activate(r) \/ Execute(r)
  <2>1. u.pc \in Walk /\ v.pc \in Busy \cup {"error"}
    BY <1>0, <1>5 DEF Create, Activate, Execute, RunsOK, RunRecord
  <2> QED BY <2>1, WalksOn
<1> QED BY <1>1, <1>2, <1>3, <1>4, <1>5 DEF Walks

OrderInv == FlowInv /\ \A r \in Runs : Ordered(run[r])

LEMMA OrderInvInit == FlowInit => OrderInv
<1> SUFFICES ASSUME FlowInit, NEW r \in Runs PROVE Ordered(run[r])
  BY FlowInvInit DEF OrderInv
<1>1. run[r].pc = "idle"
  BY DEF FlowInit, Fresh
<1> QED BY <1>1 DEF Ordered

LEMMA OrderInvStep == OrderInv /\ [FlowNext]_flowVars => OrderInv'
<1> SUFFICES ASSUME OrderInv, [FlowNext]_flowVars PROVE OrderInv'
  OBVIOUS
<1>0. RunsOK /\ \A r \in Runs : Fine(run[r], board) /\ Ordered(run[r])
  BY DEF OrderInv, FlowInv
<1>1. ASSUME NEW r \in Runs, Starts(r) \/ Place(r) \/ OrderEnds(r) \/ Walks(r)
      PROVE  /\ Ordered(run'[r])
             /\ \A q \in Runs \ {r} : run'[q] = run[q]
  <2>1. Ordered(run'[r])
    BY <1>0, <1>1, StartOrdered, PlaceOrdered, OrderEndsOrdered, WalkOrdered
  <2>2. \A q \in Runs \ {r} : run'[q] = run[q]
    BY <1>0, <1>1 DEF RunsOK, Starts, Start, Place, OrderEnds, Walks, Inherit, CheckDeps, Look, Count,
       Choose, NoWorker, Create, Untitled,
       Activate, Execute, Accept, Refuse, ExecutorFails, CutBranch, Finish
  <2> QED BY <2>1, <2>2
<1>2. ASSUME \E r \in Runs : Starts(r) \/ Place(r) \/ OrderEnds(r) \/ Walks(r)
      PROVE  \A q \in Runs : Ordered(run'[q])
  BY <1>0, <1>1, <1>2
<1>3. ASSUME Others \/ UNCHANGED flowVars
      PROVE  \A q \in Runs : Ordered(run'[q])
  <2>1. run' = run
    BY <1>3 DEF Others, flowVars, UpdateTask, HandOff, Assign, CreateTask, Register, Deregister,
       Heartbeat, Attend, Edit
  <2> QED BY <1>0, <2>1
<1>4. \A r \in Runs : Ordered(run'[r])
  BY <1>2, <1>3 DEF FlowNext, Drive, Delivers, Walks
<1> QED BY <1>4, FlowInvStep DEF OrderInv

\* Of all the orders of a plan in which every node comes after its
\* dependencies a run walks the lexicographically smallest, and validate and
\* topo_order refuse a plan only if there is none or it is nested too deep.
THEOREM WalksTheSmallestOrder == FlowSpec => []OrderIsRight
<1>1. OrderInv => OrderIsRight
  <2> SUFFICES ASSUME OrderInv, NEW r \in Runs
               PROVE  LET p == run[r].plan
                      IN  /\ At(r, "invalid") => run[r].deep \/ Linear(p) = {}
                          /\ At(r, "next") /\ run[r].left # <<>>
                               /\ Len(run[r].left) = Cardinality(p.nodes) =>
                               /\ ~run[r].deep /\ run[r].left \in Linear(p)
                               /\ \A s \in Linear(p) : s = run[r].left \/ Before(run[r].left, s)
    BY DEF OrderIsRight
  <2>1. Fine(run[r], board) /\ Ordered(run[r])
    BY DEF OrderInv, FlowInv
  <2>2. run[r].left \in Seq(Node) /\ run[r].plan \in Plans
    BY <2>1 DEF Fine, RunRecord
  <2>3. At(r, "invalid") => run[r].deep \/ Linear(run[r].plan) = {}
    BY <2>1 DEF Ordered, At
  <2>4. ASSUME At(r, "next"), Len(run[r].left) = Cardinality(run[r].plan.nodes)
        PROVE  /\ ~run[r].deep /\ run[r].left \in Linear(run[r].plan)
               /\ \A s \in Linear(run[r].plan) : s = run[r].left \/ Before(run[r].left, s)
    <3>1. ~run[r].deep /\ Greedy(run[r].plan, run[r].left) /\ Len(run[r].left) = Size(run[r].plan)
      BY <2>1, <2>4 DEF Ordered, At, Size
    <3> QED BY <2>2, <3>1, GreedyIsFirst
  <2> QED BY <2>3, <2>4
<1> QED BY <1>1, OrderInvInit, OrderInvStep, PTL DEF FlowSpec
=============================================================================
