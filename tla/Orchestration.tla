--------------------------- MODULE Orchestration ---------------------------
(* The orchestrator of the family bridge: it validates a plan, orders its  *)
(* nodes and drives them one at a time through the task board, asking an   *)
(* executor for each node's deliverable.                                   *)
(*                                                                         *)
(* Board and registry are shared with every other holder of the bridge,    *)
(* and each of their operations is one critical section, so the steps of a *)
(* run interleave with the edits the other holders make.                   *)
EXTENDS Integers, FiniteSets, Sequences

CONSTANTS
  Runs,         \* concurrent runs of the orchestrator on one bridge
  Node,         \* node identifiers, in the order of NodeId
  Plans,        \* the plans a run may be given
  Worker,       \* agent identifiers, in the order of AgentId
  Fit,          \* Node -> the workers with the node's role and capabilities
  Nobody,       \* no assignee
  MaxDepth,     \* MAX_DELEGATION_DEPTH
  MaxTasks,     \* the largest number of tasks on the board
  MaxEdits      \* the largest number of edits by other holders

(* A plan names its nodes, those of an empty title, the dependencies of    *)
(* each, the worker a node is pinned to, if any, and what its capability   *)
(* contract asks: nothing, a verdict on the deliverable, or an input the   *)
(* executor is never given.                                                *)
Plan(nodes) ==
  [nodes : {nodes}, blank : SUBSET nodes, deps : [nodes -> SUBSET Node],
   pin : [nodes -> Worker \cup {Nobody}],
   asks : [nodes -> {"nothing", "verdict", "input"}]]

ASSUME FlowAssumption ==
  /\ Node \subseteq Nat /\ IsFiniteSet(Node)
  /\ Worker \subseteq Nat /\ IsFiniteSet(Worker) /\ Nobody \notin Worker
  /\ Fit \in [Node -> SUBSET Worker]
  /\ MaxDepth \in Nat /\ MaxTasks \in Nat /\ MaxEdits \in Nat
  /\ Plans # {} /\ \A p \in Plans : \E nodes \in SUBSET Node : p \in Plan(nodes)

VARIABLES
  board,        \* the tasks, in the order they were created
  presence,     \* what the registry says of every agent
  run,          \* what every run is doing
  edits         \* counts the other holders' edits

flowVars == <<board, presence, run, edits>>

Status == {"Pending", "Active", "Done", "Handed"}
Presence == {"gone", "unknown", "online", "offline"}
First(S) == CHOOSE x \in S : \A y \in S : x <= y
Task == 1 .. Len(board)

(* TaskStatus::can_transition_to.                                          *)
CanTransition_Reopens(from, to) ==
  <<from, to>> \in {"Pending"} \X {"Active", "Handed", "Done"}
    \cup {"Active", "Done"} \X {"Done", "Handed"} \cup {"Handed"} \X {"Active", "Done"}

CanTransition(from, to) ==
  <<from, to>> \in {"Pending"} \X {"Active", "Handed", "Done"}
    \cup {"Active"} \X {"Done", "Handed"} \cup {"Handed"} \X {"Active", "Done"}

MaySet(t, status) == board[t].status = status \/ CanTransition(board[t].status, status)
SetStatus(t, status) == board' = [board EXCEPT ![t].status = status]

-----------------------------------------------------------------------------
(* OrchestrationPlan: what validate looks at and what topo_order goes by.  *)
Dangling(p) == \E n \in p.nodes : ~(p.deps[n] \subseteq p.nodes \ {n})

(* The nodes that may be placed after s: not placed yet, and with every    *)
(* dependency placed (an in-degree of zero).                               *)
Placed(s) == {s[i] : i \in 1 .. Len(s)}
Ready_Any(p, s) == {n \in p.nodes \ Placed(s) :
                      p.deps[n] = {} \/ p.deps[n] \cap Placed(s) # {}}
Ready(p, s) == {n \in p.nodes \ Placed(s) : p.deps[n] \subseteq Placed(s)}

-----------------------------------------------------------------------------
(* A run.  left is the order, then what is still to be walked of it; done  *)
(* is the task of every completed node and failed the nodes whose branch   *)
(* is cut; todo are the workers select_worker has still to look at and     *)
(* cands its candidates, each with the load it was seen with; deep,        *)
(* accepted and refused are history: whether the depth was past the budget *)
(* and what became of the turns the executor was given.                    *)
Fresh ==
  [pc |-> "idle", plan |-> CHOOSE p \in Plans : TRUE, left |-> <<>>, who |-> Nobody,
   todo |-> {}, cands |-> {}, task |-> 0, deep |-> FALSE, done |-> {}, failed |-> {}, accepted |-> {}, refused |-> {}]

Staffing == {"select", "count", "create"}
Busy == {"activate", "assigned", "executing"}
Over == {"ok", "error", "invalid"}
At(r, pc) == run[r].pc = pc
N(r) == Head(run[r].left)

(* The holder that starts the runs has registered its workers and sent a   *)
(* heartbeat for each.                                                     *)
FlowInit ==
  /\ board = <<>>
  /\ presence = [w \in Worker |-> "online"]
  /\ run = [r \in Runs |-> Fresh]
  /\ edits = 0

(* run_nested_with: the depth budget is checked first, then the plan's     *)
(* dependencies.                                                           *)
Start(r, p, depth) ==
  /\ At(r, "idle")
  /\ run' = [run EXCEPT ![r] = [Fresh EXCEPT
       !.pc = IF depth > MaxDepth \/ Dangling(p) THEN "invalid" ELSE "order",
       !.plan = p, !.deep = depth > MaxDepth]]
  /\ UNCHANGED <<board, presence, edits>>

(* Kahn's algorithm: of the ready nodes, the smallest is next.             *)
Place(r) ==
  /\ At(r, "order") /\ Ready(run[r].plan, run[r].left) # {}
  /\ run' = [run EXCEPT ![r].left = Append(@, First(Ready(run[r].plan, @)))]
  /\ UNCHANGED <<board, presence, edits>>

(* No node is ready: the order is complete, or the plan has a cycle.       *)
OrderEnds(r) ==
  /\ At(r, "order") /\ Ready(run[r].plan, run[r].left) = {}
  /\ run' = [run EXCEPT ![r].pc =
       IF Placed(run[r].left) = run[r].plan.nodes THEN "next" ELSE "invalid"]
  /\ UNCHANGED <<board, presence, edits>>

Walking(r) == At(r, "next") /\ run[r].left # <<>>
Deps(r) == run[r].plan.deps[N(r)]
Cut(r) == Deps(r) \cap run[r].failed # {}
DepsDone(r) == \A n \in Deps(r) : \E d \in run[r].done : d[1] = n /\ board[d[2]].status = "Done"

(* A dependency failed: the node inherits the failure.                     *)
Inherit_Forgets(r) ==
  /\ Walking(r) /\ Cut(r)
  /\ run' = [run EXCEPT ![r].left = Tail(@)]
  /\ UNCHANGED <<board, presence, edits>>

Inherit(r) ==
  /\ Walking(r) /\ Cut(r)
  /\ run' = [run EXCEPT ![r].left = Tail(@), ![r].failed = @ \cup {N(r)}]
  /\ UNCHANGED <<board, presence, edits>>

(* Every dependency is Done on the board, or the run ends with an error;   *)
(* what is Done stays Done, so that to look at them one by one is to look  *)
(* at them at once.  The workers to look at are the pinned one, or those   *)
(* on the registry's list who fit.                                         *)
Pin(r) == run[r].plan.pin[N(r)]
Listed(r) == IF Pin(r) = Nobody THEN {w \in Fit[N(r)] : presence[w] # "gone"} ELSE {Pin(r)}

CheckDeps(r) ==
  /\ Walking(r) /\ ~Cut(r)
  /\ \/ DepsDone(r) /\ run' = [run EXCEPT ![r].pc = "select", ![r].todo = Listed(r)]
     \/ ~DepsDone(r) /\ run' = [run EXCEPT ![r].pc = "error"]
  /\ UNCHANGED <<board, presence, edits>>

(* liveness_at of the next one: a pinned worker who is online is taken, of *)
(* another the tasks are counted; the list is in the order of AgentId.     *)
Look(r) ==
  LET w == First(run[r].todo)
  IN  /\ At(r, "select") /\ run[r].todo # {}
      /\ \/ /\ presence[w] = "online"
            /\ run' = [run EXCEPT ![r].pc = IF Pin(r) = Nobody THEN "count" ELSE "create",
                                  ![r].todo = @ \ {w}, ![r].who = w]
         \/ presence[w] # "online" /\ run' = [run EXCEPT ![r].todo = @ \ {w}]
      /\ UNCHANGED <<board, presence, edits>>

(* list_for_assignee, under the board's lock and not the registry's.       *)
InFlight(w) == Cardinality({t \in Task : board[t].assignee = w /\ board[t].status # "Done"})

Count(r) ==
  /\ At(r, "count")
  /\ run' = [run EXCEPT ![r].pc = "select",
                        ![r].cands = @ \cup {<<run[r].who, InFlight(run[r].who)>>}]
  /\ UNCHANGED <<board, presence, edits>>

(* Of the candidates with the fewest tasks, the smallest.                  *)
Idlest(cands) == {c[1] : c \in {d \in cands : \A e \in cands : d[2] <= e[2]}}

Choose(r) ==
  /\ At(r, "select") /\ run[r].todo = {} /\ run[r].cands # {}
  /\ run' = [run EXCEPT ![r].pc = "create", ![r].who = First(Idlest(run[r].cands)),
                        ![r].cands = {}]
  /\ UNCHANGED <<board, presence, edits>>

(* The pinned worker is not online or nobody fits: the whole run ends.     *)
NoWorker(r) ==
  /\ At(r, "select") /\ run[r].todo = {} /\ run[r].cands = {}
  /\ run' = [run EXCEPT ![r].pc = "error"]
  /\ UNCHANGED <<board, presence, edits>>

(* TaskBoard::create refuses an empty title, which ends the run as well.   *)
Create(r) ==
  /\ At(r, "create") /\ N(r) \notin run[r].plan.blank /\ Len(board) < MaxTasks
  /\ board' = Append(board, [status |-> "Pending", assignee |-> run[r].who])
  /\ run' = [run EXCEPT ![r].pc = "activate", ![r].task = Len(board) + 1]
  /\ UNCHANGED <<presence, edits>>

Untitled(r) ==
  /\ At(r, "create") /\ N(r) \in run[r].plan.blank
  /\ run' = [run EXCEPT ![r].pc = "error"]
  /\ UNCHANGED <<board, presence, edits>>

(* Pending to Active, unless another holder was faster.                    *)
Activate(r) ==
  /\ At(r, "activate")
  /\ IF MaySet(run[r].task, "Active")
     THEN SetStatus(run[r].task, "Active") /\ run' = [run EXCEPT ![r].pc = "assigned"]
     ELSE run' = [run EXCEPT ![r].pc = "error"] /\ UNCHANGED board
  /\ UNCHANGED <<presence, edits>>

(* STEP_ASSIGNED is published and the executor is given the turn.          *)
Execute(r) ==
  /\ At(r, "assigned")
  /\ run' = [run EXCEPT ![r].pc = "executing"]
  /\ UNCHANGED <<board, presence, edits>>

(* deliverable_accepted: a one-off contract is proposed with an empty      *)
(* input, accepted and fulfilled.                                          *)
MayAccept(r) == run[r].plan.asks[N(r)] # "input"
MayRefuse(r) == run[r].plan.asks[N(r)] # "nothing"

NextNode(r) == [run[r] EXCEPT !.pc = "next", !.left = Tail(@), !.who = Nobody, !.task = 0]

Accept(r) ==
  /\ At(r, "executing") /\ MayAccept(r)
  /\ MaySet(run[r].task, "Done")
  /\ SetStatus(run[r].task, "Done")
  /\ run' = [run EXCEPT ![r] = [NextNode(r) EXCEPT
               !.done = @ \cup {<<N(r), run[r].task>>}, !.accepted = @ \cup {N(r)}]]
  /\ UNCHANGED <<presence, edits>>

(* The deliverable breaches the contract or the executor returns an error: *)
(* STEP_FAILED is published and the task stays on the board as it is.      *)
CutBranch(r) ==
  /\ run' = [run EXCEPT ![r] = [NextNode(r) EXCEPT
               !.failed = @ \cup {N(r)}, !.refused = @ \cup {N(r)}]]
  /\ UNCHANGED <<board, presence, edits>>

Refuse(r) == At(r, "executing") /\ MayRefuse(r) /\ CutBranch(r)
ExecutorFails(r) == At(r, "executing") /\ CutBranch(r)

(* Every node was walked: WORKFLOW_DONE is published, failures or not.     *)
Finish(r) ==
  /\ At(r, "next") /\ run[r].left = <<>>
  /\ run' = [run EXCEPT ![r].pc = "ok"]
  /\ UNCHANGED <<board, presence, edits>>

-----------------------------------------------------------------------------
(* What the other holders of the bridge do.                                *)
Edit == edits < MaxEdits /\ edits' = edits + 1 /\ UNCHANGED run

UpdateTask(t, status) ==
  /\ Edit /\ board[t].status # status /\ CanTransition(board[t].status, status)
  /\ SetStatus(t, status) /\ UNCHANGED presence

HandOff(t, from, to) ==
  /\ Edit /\ from # to /\ board[t].status # "Done" /\ board[t].assignee = from
  /\ board' = [board EXCEPT ![t] = [status |-> "Handed", assignee |-> to]]
  /\ UNCHANGED presence

(* assign looks at no status, so a Done task changes hands too.            *)
Assign(t, w) ==
  /\ Edit /\ board[t].assignee # w
  /\ board' = [board EXCEPT ![t].assignee = w] /\ UNCHANGED presence

CreateTask(w) ==
  /\ Edit /\ Len(board) < MaxTasks
  /\ board' = Append(board, [status |-> "Pending", assignee |-> w]) /\ UNCHANGED presence

(* Registering again replaces the description, its heartbeat included; a   *)
(* heartbeat is late when a run's now is past the registry's timeout.      *)
Attend(w, old, new) ==
  /\ Edit /\ presence[w] \in old
  /\ presence' = [presence EXCEPT ![w] = new] /\ UNCHANGED board

Register(w) == Attend(w, Presence, "unknown")
Deregister(w) == Attend(w, Presence \ {"gone"}, "gone")
Heartbeat(w, late) == Attend(w, Presence \ {"gone"}, IF late THEN "offline" ELSE "online")

Others ==
  \/ \E t \in Task, status \in Status : UpdateTask(t, status)
  \/ \E t \in Task, from \in Worker, to \in Worker : HandOff(t, from, to)
  \/ \E t \in Task, w \in Worker \cup {Nobody} : Assign(t, w)
  \/ \E w \in Worker \cup {Nobody} : CreateTask(w)
  \/ \E w \in Worker : Register(w) \/ Deregister(w)
  \/ \E w \in Worker, late \in BOOLEAN : Heartbeat(w, late)

(* The steps a run takes without the executor.                             *)
Drive(r) ==
  \/ Place(r) \/ OrderEnds(r) \/ Inherit(r)
  \/ CheckDeps(r) \/ Look(r) \/ Count(r) \/ Choose(r) \/ NoWorker(r)
  \/ Create(r) \/ Untitled(r) \/ Activate(r) \/ Finish(r)

Starts(r) == \E p \in Plans, depth \in {MaxDepth, MaxDepth + 1} : Start(r, p, depth)
Delivers(r) == Accept(r) \/ Refuse(r)

FlowNext ==
  \/ \E r \in Runs : Starts(r) \/ Drive(r) \/ Execute(r) \/ Delivers(r) \/ ExecutorFails(r)
  \/ Others

FlowSpec == FlowInit /\ [][FlowNext]_flowVars
-----------------------------------------------------------------------------
(* Type correctness of the board, the registry and the runs: a run works   *)
(* on a node only while it holds a worker, and every task a run names is   *)
(* on the board.                                                           *)
FlowTypeOK ==
  /\ board \in Seq([status : Status, assignee : Worker \cup {Nobody}])
  /\ Len(board) <= MaxTasks
  /\ presence \in [Worker -> Presence]
  /\ edits \in 0 .. MaxEdits
  /\ run \in [Runs ->
       [pc : {"idle", "order", "next"} \cup Staffing \cup Busy \cup Over, plan : Plans,
        left : Seq(Node), who : Worker \cup {Nobody}, todo : SUBSET Worker,
        cands : SUBSET (Worker \X Nat), task : 0 .. MaxTasks,
        deep : BOOLEAN, done : SUBSET (Node \X Task), failed : SUBSET Node,
        accepted : SUBSET Node, refused : SUBSET Node]]
  /\ \A r \in Runs :
       /\ run[r].pc \in Busy => run[r].task \in Task
       /\ run[r].pc \in Staffing \cup Busy => run[r].left # <<>>
       /\ run[r].pc \in {"count", "create"} \cup Busy => run[r].who \in Worker

(* topo_order against its definition: of all the orders of the plan's      *)
(* nodes in which every node comes after its dependencies, the run walks   *)
(* the lexicographically smallest, and validate and topo_order refuse a    *)
(* plan exactly when it has no such order (a cycle, a dangling dependency) *)
(* or is nested too deep.                                                  *)
Linear(p) ==
  {s \in [1 .. Cardinality(p.nodes) -> p.nodes] :
     /\ \A i, j \in DOMAIN s : s[i] = s[j] => i = j
     /\ \A i \in DOMAIN s : p.deps[s[i]] \subseteq {s[j] : j \in 1 .. i - 1}}

Before(s, u) ==
  \E i \in DOMAIN s : s[i] < u[i] /\ \A j \in 1 .. i - 1 : s[j] = u[j]

OrderIsRight ==
  \A r \in Runs :
    LET p == run[r].plan
    IN  /\ At(r, "invalid") => run[r].deep \/ Linear(p) = {}
        /\ At(r, "next") /\ run[r].left # <<>> /\ Len(run[r].left) = Cardinality(p.nodes) =>
             /\ ~run[r].deep /\ run[r].left \in Linear(p)
             /\ \A s \in Linear(p) : s = run[r].left \/ Before(run[r].left, s)

(* Nothing is built on an unfinished dependency: the tasks of a completed  *)
(* node and of its dependencies are Done on the shared board and stay so,  *)
(* whatever the other holders of the bridge do to it, and so are those of  *)
(* every dependency of the node that is being worked on.                   *)
DepsAreDone ==
  \A r \in Runs :
    /\ \A d \in run[r].done :
         /\ board[d[2]].status = "Done"
         /\ \A n \in run[r].plan.deps[d[1]] : \E e \in run[r].done : e[1] = n
    /\ run[r].pc \in Staffing \cup Busy => DepsDone(r)

(* What a run reports: every node of the plan is either completed or       *)
(* failed, and failed are exactly those whose own turn was refused and     *)
(* those that have a failed dependency; no turn of a failed branch is ever *)
(* given to the executor.                                                  *)
Completed(r) == {d[1] : d \in run[r].done}

ReportIsRight ==
  \A r \in Runs :
    /\ At(r, "ok") =>
         /\ run[r].plan.nodes = Completed(r) \cup run[r].failed
         /\ \A n \in run[r].failed :
              n \in run[r].refused \/ run[r].plan.deps[n] \cap run[r].failed # {}
    /\ Completed(r) = run[r].accepted
    /\ run[r].accepted \cap run[r].failed = {} /\ run[r].refused \subseteq run[r].failed
    /\ \A n \in run[r].accepted \cup run[r].refused :
         run[r].plan.deps[n] \subseteq run[r].accepted
=============================================================================
