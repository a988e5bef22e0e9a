------------------------ MODULE ActionRuntime_proofs ------------------------
(***************************************************************************)
(* Proofs that ActionRuntime keeps its promises for every number of keys,  *)
(* tasks and approvals, every capacity, window and lifetime, and every     *)
(* subset of the write failures.                                           *)
(*                                                                         *)
(* The inductive invariant says what the call in progress knows at each of *)
(* its points (CallInv, TaskInv), and how the five places that remember an *)
(* approval or a task agree between calls.                                 *)
(***************************************************************************)
EXTENDS ActionRuntime, FiniteSetTheorems, TLAPS

\* What an outbox row says about the executor calls made under its key.
FiredInv ==
  \A s \in Slots :
    /\ fired[s] <= 1
    /\ outbox[s].phase = "free" => fired[s] = 0
    /\ outbox[s].phase = "committed" =>
         /\ outbox[s].result \in {"Done", "Failed"} => fired[s] = 1
         /\ outbox[s].result \in {"NeedsApproval", "quarantine"} => fired[s] = 0

\* The key a call works under is in progress until the call commits, and the
\* call knows whether its effect went out.
CallInv ==
  /\ op.pc \in {"submit", "insert", "consume", "quarantine"} /\ op.slot # None
       => outbox[op.slot] = Intent /\ fired[op.slot] = 0
  /\ op.pc \in {"exec", "execApproved"} /\ op.slot # None
       => outbox[op.slot] = Intent /\ fired[op.slot] = 1
  /\ op.pc \in {"snapshot", "commit", "commitApproved"} /\ op.slot # None
       => /\ outbox[op.slot] = Intent
          /\ op.result \in {"Done", "Failed"} => fired[op.slot] = 1
          /\ op.result = "NeedsApproval" => fired[op.slot] = 0
  /\ op.pc = "insert" => op.result = "NeedsApproval"
  /\ op.pc \in {"snapshot", "commit", "commitApproved"} => op.result # "quarantine"
  /\ op.pc = "commitApproved" => op.result # "NeedsApproval"

\* An identifier that was not handed out is unknown everywhere, to the call in
\* progress too.
FreshInv ==
  /\ \A t \in Tasks \ used :
       /\ outbox[t] = Free
       /\ pending[t] = None
       /\ ledger[t].state = "absent"
       /\ taskMem[t] = "Absent"
       /\ taskDisk[t] = "Absent"
       /\ t \notin revoked
  /\ op.task \in used \cup {None}
  /\ op.todo \subseteq used

\* The two copies of an approval, and what revoking it leaves behind.
ApprovalInv ==
  /\ \A t \in Tasks : IsPending(t) /\ ledger[t].state = "granted"
                        => ledger[t].expires = pending[t]
  /\ \A t \in revoked : ~IsPending(t) \/ outbox[t].phase # "free"
  /\ op.pc = "insert" => op.task \notin revoked
  /\ op.pc = "consume" => op.task \notin revoked
  /\ op.pc \in {"consume", "execApproved", "commitApproved", "remove"}
       => IsPending(op.task)

\* A task that was run without an approval has none.
AutoRun(t) == /\ outbox[t].phase = "free"
              /\ ~IsPending(t)
              /\ ledger[t].state = "absent"

\* The queue in memory and the snapshots on disk.
TaskInv ==
  /\ \A t \in Tasks : taskDisk[t] \in {"Done", "Failed"}
                        => outbox[t] = Committed(taskDisk[t], t) \/ AutoRun(t)
  /\ \A t \in Tasks : IsPending(t) => taskDisk[t] \notin Terminal
  /\ op.pc = "down" => taskMem = [t \in Tasks |-> "Absent"]
  /\ op.pc \in {"insert", "exec", "snapshot"} => taskDisk[op.task] = "Absent"
  /\ op.pc = "insert" => taskMem[op.task] = "NeedsApproval"
  /\ op.pc \in {"exec", "execApproved"} => taskMem[op.task] = "Running"
  /\ op.pc = "exec" => AutoRun(op.task)
  /\ op.pc = "snapshot" => /\ op.result \in {"Done", "Failed", "NeedsApproval"}
                           /\ taskMem[op.task] = op.result
                           /\ op.result # "NeedsApproval" => AutoRun(op.task)
  /\ op.pc = "commitApproved" /\ op.result # "error" => taskMem[op.task] = op.result
  /\ op.pc = "commitApproved" => op.result \in {"Done", "Failed", "error"}
  /\ op.pc \in {"remove", "settle"} =>
       /\ op.result \in {"Done", "Failed"}
       /\ taskMem[op.task] = op.result
       /\ outbox[op.task] = Committed(op.result, op.task)
  /\ op.pc \in {"settle", "cancel"} =>
       ~IsPending(op.task) /\ taskDisk[op.task] \notin Terminal

\* The pending records are finitely many.
CapacityInv == IsFiniteSet(PendingSet) /\ Cardinality(PendingSet) <= Capacity

\* The limiter remembers every grant that a window reaching now may still hold,
\* and no window holds too many.
RateInv ==
  /\ IsFiniteSet(grants)
  /\ hits \subseteq grants
  /\ \A g \in grants : g.at <= now
  /\ \A g \in grants \ hits : g.at + Window < now
  /\ \A from \in Nat :
       Cardinality({g \in grants : from <= g.at /\ g.at <= from + Window}) <= MaxPerWindow

Safe == TypeOK /\ FiredInv /\ CallInv
IInv == Safe /\ FreshInv /\ ApprovalInv /\ TaskInv

-----------------------------------------------------------------------------
(* Type correctness *)

\* The values the code writes are in the ranges.
LEMMA Ranges ==
  /\ Free \in OutboxRows /\ Intent \in OutboxRows
  /\ \A r \in Results, t \in Tasks \cup {None} : Committed(r, t) \in OutboxRows
  /\ {"error", "quarantine", "NeedsApproval", "Done", "Failed"} \subseteq Results
  /\ {"Absent", "Running", "NeedsApproval", "Done", "Failed", "Cancelled"} \subseteq Statuses
BY DEF OutboxRows, Results, Statuses

\* A call that moves on keeps its slot and its task.
LEMMA GotoFields == ASSUME op \in Calls, NEW p \in PCs, Goto(p)
                    PROVE  /\ op' \in Calls /\ op'.pc = p /\ op'.slot = op.slot
                           /\ op'.task = op.task /\ op'.result = op.result /\ op'.todo = op.todo
BY DEF Goto, Calls

\* The same, when the call also sets what it is going to commit.
LEMMA GotoWithFields == ASSUME op \in Calls, NEW p \in PCs, NEW r \in Results, GotoWith(p, r)
                        PROVE  /\ op' \in Calls /\ op'.pc = p /\ op'.slot = op.slot
                               /\ op'.task = op.task /\ op'.result = r /\ op'.todo = op.todo
BY DEF GotoWith, Calls

\* Where the calls that have several continuations go.
LEMMA InsertMoves == ASSUME OpTypeOK, SubmitInsert
                     PROVE  /\ op.pc = "insert"
                            /\ op'.slot = op.slot /\ op'.task = op.task /\ op'.todo = op.todo
                            /\ \/ op'.pc = "snapshot" /\ op'.result = op.result
                               \/ op'.pc = "commit" /\ op'.result = "error"
BY Ranges, GotoFields, GotoWithFields DEF SubmitInsert, OpTypeOK, At, PCs

\* The submission goes on to its commit, with an error if the snapshot failed.
LEMMA SnapshotMoves == ASSUME OpTypeOK, SubmitSnapshot
                       PROVE  /\ op.pc = "snapshot" /\ op'.pc = "commit"
                              /\ op'.slot = op.slot /\ op'.task = op.task /\ op'.todo = op.todo
                              /\ op'.result \in {op.result, "error"}
BY Ranges, GotoFields, GotoWithFields DEF SubmitSnapshot, OpTypeOK, At, PCs

\* An executor answers with a status, which the task takes, or with an error.
LEMMA FinalizeMoves ==
  ASSUME OpTypeOK, NEW next \in PCs, NEW onError \in PCs, Finalize(next, onError)
  PROVE  /\ op'.slot = op.slot /\ op'.task = op.task /\ op'.todo = op.todo
         /\ \/ /\ op'.pc = next /\ op'.result \in {"Done", "Failed"}
               /\ taskMem' = [taskMem EXCEPT ![op.task] = op'.result]
            \/ op'.pc = onError /\ op'.result = "error" /\ taskMem' = taskMem
BY Ranges, GotoWithFields DEF Finalize, OpTypeOK

\* A call that is given up leaves all of this alone, and nobody is in a call then.
LEMMA DropLeaves == ASSUME Drop
                    PROVE  /\ op' = Idle /\ op'.pc = "idle"
                           /\ op.pc \notin {"idle", "down"}
                           /\ UNCHANGED <<outbox, pending, queueTorn, hits, now, grants, fired, revoked>>
BY DEF Drop, DropWaiting, DropQueued, DropConsumed, DropWritten, DropCancelled,
   At, Return, Idle, Op, durable, queue, volatile, history

\* A task that was queued before the call was given up is a new one.
LEMMA DropMemory ==
  ASSUME Drop
  PROVE  \/ used' = used /\ taskMem' = taskMem
         \/ /\ \E t \in Tasks \ used, s \in {"Planned", "Ready", "Running"} :
                 used' = used \cup {t} /\ taskMem' = [taskMem EXCEPT ![t] = s]
            /\ ledger' = ledger /\ taskDisk' = taskDisk
         \/ /\ used' = used /\ op.pc = "consume" /\ CanTransition(taskMem[op.task], "Running")
            /\ taskMem' = [taskMem EXCEPT ![op.task] = "Running"]
         \/ /\ used' = used /\ op.pc = "cancel" /\ CanTransition(taskMem[op.task], "Cancelled")
            /\ taskMem' = [taskMem EXCEPT ![op.task] = "Cancelled"]
BY DEF Drop, DropWaiting, DropQueued, DropConsumed, DropWritten, DropCancelled,
   At, durable, queue, volatile, history

\* An approval can only be consumed by the call, and a row only be written by it.
LEMMA DropRecords ==
  ASSUME Drop
  PROVE  /\ \/ ledger' = ledger
            \/ op.pc = "consume" /\ ledger' = [ledger EXCEPT ![op.task].state = "consumed"]
         /\ \/ taskDisk' = taskDisk
            \/ /\ op.pc \in {"snapshot", "settle"}
               /\ taskDisk' = [taskDisk EXCEPT ![op.task] = taskMem[op.task]]
            \/ op.pc = "cancel" /\ taskDisk' = [taskDisk EXCEPT ![op.task] = "Cancelled"]
BY DEF Drop, DropWaiting, DropQueued, DropConsumed, DropWritten, DropCancelled,
   At, durable, queue, volatile, history

\* The call in progress stays well formed.
LEMMA CallTyped == ASSUME OpTypeOK, [Next]_vars
                   PROVE  OpTypeOK'
<1> USE ConstAssumption, Ranges DEF OpTypeOK, Calls, PCs, Slots, At, Goto, GotoWith, Return,
        Idle, Down, Op
<1>1. ASSUME NEW k \in Keys, SubmitIntent(k) PROVE OpTypeOK'
  BY <1>1 DEF SubmitIntent
<1>2. CASE SubmitDirect
  BY <1>2 DEF SubmitDirect
<1>3. CASE SubmitUnknownSkill
  BY <1>3 DEF SubmitUnknownSkill
<1>4. ASSUME NEW t \in Tasks, SubmitRateLimited(t) PROVE OpTypeOK'
  BY <1>4 DEF SubmitRateLimited
<1>5. ASSUME NEW t \in Tasks, SubmitGrant(t) PROVE OpTypeOK'
  BY <1>5 DEF SubmitGrant
<1>6. CASE SubmitInsert
  <2>1. op.pc = "insert" /\ (Goto("snapshot") \/ GotoWith("commit", "error"))
    BY <1>6 DEF SubmitInsert, At
  <2> HIDE DEF Goto, GotoWith, At
  <2>2. QED
    BY <2>1, GotoFields, GotoWithFields DEF PCs
<1>7. ASSUME NEW t \in Tasks, SubmitExecute(t) PROVE OpTypeOK'
  BY <1>7 DEF SubmitExecute
<1>8. CASE SubmitFinalize
  <2>1. op.pc = "exec" /\ \E r \in Results : GotoWith("snapshot", r) \/ GotoWith("commit", r)
    BY <1>8 DEF SubmitFinalize, At, Finalize
  <2> HIDE DEF Goto, GotoWith, At
  <2>2. QED
    BY <2>1, GotoFields, GotoWithFields DEF PCs
<1>9. CASE SubmitSnapshot
  <2>1. op.pc = "snapshot" /\ (Goto("commit") \/ GotoWith("commit", "error"))
    BY <1>9 DEF SubmitSnapshot, At
  <2> HIDE DEF Goto, GotoWith, At
  <2>2. QED
    BY <2>1, GotoFields, GotoWithFields DEF PCs
<1>10. CASE SubmitCommit
  BY <1>10 DEF SubmitCommit
<1>11. ASSUME NEW t \in Tasks, ApproveIntent(t) PROVE OpTypeOK'
  BY <1>11 DEF ApproveIntent
<1>12. CASE ApproveExecute
  BY <1>12 DEF ApproveExecute
<1>13. CASE ApproveRefused
  BY <1>13 DEF ApproveRefused
<1>14. CASE ApproveFinalize
  <2>1. op.pc = "execApproved" /\ \E r \in Results : GotoWith("commitApproved", r)
    BY <1>14 DEF ApproveFinalize, At, Finalize
  <2> HIDE DEF Goto, GotoWith, At
  <2>2. QED
    BY <2>1, GotoFields, GotoWithFields DEF PCs
<1>15. CASE ApproveCommit
  BY <1>15 DEF ApproveCommit
<1>16. CASE ApproveRemove
  BY <1>16 DEF ApproveRemove
<1>17. CASE ApproveSnapshot
  BY <1>17 DEF ApproveSnapshot
<1>18. ASSUME NEW t \in Tasks, DenyRemove(t) PROVE OpTypeOK'
  BY <1>18 DEF DenyRemove
<1>19. CASE CancelTask
  BY <1>19 DEF CancelTask
<1>20. ASSUME NEW t \in Tasks, AbortBegin(t) PROVE OpTypeOK'
  BY <1>20 DEF AbortBegin
<1>21. CASE AbortQuarantine
  BY <1>21 DEF AbortQuarantine
<1>22. CASE AbortDrop
  BY <1>22, SMTT(30) DEF AbortDrop
<1>23. CASE EvictBegin
  BY <1>23 DEF EvictBegin, PendingSet
<1>24. ASSUME NEW t \in Tasks, EvictNext(t) PROVE OpTypeOK'
  BY <1>24 DEF EvictNext
<1>25. CASE Tick
  BY <1>25 DEF Tick
<1>26. CASE Crash
  BY <1>26 DEF Crash
<1>27. CASE Restart
  BY <1>27 DEF Restart
<1>29. CASE Drop
  BY <1>29, DropLeaves
<1>28. CASE UNCHANGED vars
  BY <1>28 DEF vars
<1> QED
  BY <1>1, <1>2, <1>3, <1>4, <1>5, <1>6, <1>7, <1>8, <1>9, <1>10, <1>11, <1>12, <1>13, <1>14,
     <1>15, <1>16, <1>17, <1>18, <1>19, <1>20, <1>21, <1>22, <1>23, <1>24, <1>25, <1>26, <1>27,
     <1>28, <1>29
  DEF Next, Submit, Approve, Withdraw

\* An outbox in which one row is replaced is one.
LEMMA OutboxUpdate == ASSUME outbox \in [Slots -> OutboxRows], NEW s, NEW row \in OutboxRows,
                             outbox' = outbox \/ outbox' = [outbox EXCEPT ![s] = row]
                      PROVE  outbox' \in [Slots -> OutboxRows]
OBVIOUS

\* What record_committed stores is a row of the outbox.
LEMMA OutcomeRows == ASSUME NEW r \in Results, NEW t \in Tasks \cup {None}
                     PROVE  OutcomeRow(r, t) \in OutboxRows
BY Ranges DEF OutcomeRow

\* A consumed approval is still one.
LEMMA ConsumedTyped ==
  ASSUME ledger \in [Tasks -> [state : {"absent", "granted", "consumed"}, expires : Nat]],
         NEW t \in Tasks,
         ledger' = [ledger EXCEPT ![t].state = "consumed"]
  PROVE  ledger' \in [Tasks -> [state : {"absent", "granted", "consumed"}, expires : Nat]]
<1>1. [ledger[t] EXCEPT !.state = "consumed"]
        \in [state : {"absent", "granted", "consumed"}, expires : Nat]
  OBVIOUS
<1> QED
  BY <1>1

\* The stores, the queue and the history stay in their ranges.
LEMMA StateTyped == ASSUME TypeOK, [Next]_vars
                    PROVE  TypeOK'
<1> USE ConstAssumption, Ranges, CallTyped DEF TypeOK, Slots, durable, queue, volatile, history,
        At, Landed
<1>1. ASSUME NEW k \in Keys, SubmitIntent(k) PROVE TypeOK'
  BY <1>1 DEF SubmitIntent, OpTypeOK, Writes
<1>2. CASE SubmitDirect
  BY <1>2 DEF SubmitDirect
<1>3. CASE SubmitUnknownSkill
  BY <1>3 DEF SubmitUnknownSkill
<1>4. ASSUME NEW t \in Tasks, SubmitRateLimited(t) PROVE TypeOK'
  BY <1>4 DEF SubmitRateLimited, InWindow
<1>5. ASSUME NEW t \in Tasks, SubmitGrant(t) PROVE TypeOK'
  <2>1. hits' \subseteq [task : Tasks, at : Nat] /\ grants' \subseteq [task : Tasks, at : Nat]
    BY <1>5 DEF SubmitGrant, LimiterRecords, InWindow
  <2>2. ledger' \in [Tasks -> [state : {"absent", "granted", "consumed"}, expires : Nat]]
    BY <1>5 DEF SubmitGrant, Granted
  <2>3. QED
    BY <1>5, <2>1, <2>2 DEF SubmitGrant
<1>6. CASE SubmitInsert
  BY <1>6 DEF SubmitInsert
<1>7. ASSUME NEW t \in Tasks, SubmitExecute(t) PROVE TypeOK'
  <2>1. fired' \in [Slots -> Nat]
    BY <1>7 DEF SubmitExecute, OpTypeOK, Calls
  <2>2. QED
    BY <1>7, <2>1, SMTT(30) DEF SubmitExecute
<1>8. CASE SubmitFinalize
  BY <1>8 DEF SubmitFinalize, Finalize
<1>9. CASE SubmitSnapshot
  BY ZenonT(60), <1>9 DEF SubmitSnapshot, Snapshot
<1>10. CASE SubmitCommit
  <2>1. op.result \in Results /\ op.task \in Tasks \cup {None}
    BY <1>10 DEF SubmitCommit, OpTypeOK, Calls
  <2>2. outbox' = outbox \/ outbox' = [outbox EXCEPT ![op.slot] = OutcomeRow(op.result, op.task)]
    BY <1>10 DEF SubmitCommit
  <2>3. outbox' \in [Slots -> OutboxRows]
    BY <2>1, <2>2, OutcomeRows, OutboxUpdate
  <2>4. QED
    BY <1>10, <2>3 DEF SubmitCommit
<1>11. ASSUME NEW t \in Tasks, ApproveIntent(t) PROVE TypeOK'
  BY <1>11 DEF ApproveIntent
<1>12. CASE ApproveExecute
  <2>1. ledger' \in [Tasks -> [state : {"absent", "granted", "consumed"}, expires : Nat]]
    <3>1. op.task \in Tasks /\ ledger' = [ledger EXCEPT ![op.task].state = "consumed"]
      BY <1>12 DEF ApproveExecute, OpTypeOK
    <3> QED
      BY <3>1, ConsumedTyped
  <2>2. fired' \in [Slots -> Nat]
    BY <1>12 DEF ApproveExecute, OpTypeOK, Calls
  <2>3. taskMem' \in [Tasks -> Statuses]
    BY <1>12 DEF ApproveExecute
  <2>4. QED
    BY <1>12, <2>1, <2>2, <2>3 DEF ApproveExecute
<1>13. CASE ApproveRefused
  <2>1. op.task \in Tasks
    BY <1>13 DEF ApproveRefused, OpTypeOK
  <2>2. ledger' = ledger \/ ledger' = [ledger EXCEPT ![op.task].state = "consumed"]
    BY <1>13 DEF ApproveRefused
  <2>3. ledger' \in [Tasks -> [state : {"absent", "granted", "consumed"}, expires : Nat]]
    BY <2>1, <2>2, ConsumedTyped
  <2>4. QED
    BY <1>13, <2>3 DEF ApproveRefused
<1>14. CASE ApproveFinalize
  BY <1>14 DEF ApproveFinalize, Finalize
<1>15. CASE ApproveCommit
  <2>1. op.result \in Results /\ op.task \in Tasks \cup {None}
    BY <1>15 DEF ApproveCommit, OpTypeOK, Calls
  <2>2. outbox' = outbox \/ outbox' = [outbox EXCEPT ![op.slot] = OutcomeRow(op.result, op.task)]
    BY <1>15 DEF ApproveCommit
  <2>3. outbox' \in [Slots -> OutboxRows]
    BY <2>1, <2>2, OutcomeRows, OutboxUpdate
  <2>4. QED
    BY <1>15, <2>3 DEF ApproveCommit
<1>16. CASE ApproveRemove
  BY <1>16 DEF ApproveRemove
<1>17. CASE ApproveSnapshot
  BY <1>17 DEF ApproveSnapshot, Snapshot
<1>18. ASSUME NEW t \in Tasks, DenyRemove(t) PROVE TypeOK'
  BY <1>18 DEF DenyRemove
<1>19. CASE CancelTask
  BY <1>19, SMTT(30) DEF CancelTask, Snapshot
<1>20. ASSUME NEW t \in Tasks, AbortBegin(t) PROVE TypeOK'
  BY <1>20 DEF AbortBegin
<1>21. CASE AbortQuarantine
  <2>1. outbox' = outbox \/ outbox' = [outbox EXCEPT ![op.slot] = Committed("quarantine", None)]
    BY <1>21 DEF AbortQuarantine
  <2>2. Committed("quarantine", None) \in OutboxRows
    OBVIOUS
  <2>3. outbox' \in [Slots -> OutboxRows]
    BY <2>1, <2>2, OutboxUpdate
  <2>4. QED
    BY <1>21, <2>3 DEF AbortQuarantine
<1>22. CASE AbortDrop
  <2>1. op.task \in Tasks
    BY <1>22 DEF AbortDrop, OpTypeOK
  <2>2. pending' \in [Tasks -> Nat \cup {None}] /\ revoked' \subseteq Tasks
    BY <1>22, <2>1 DEF AbortDrop
  <2>3. QED
    BY <1>22, <2>2 DEF AbortDrop
<1>23. CASE EvictBegin
  BY <1>23 DEF EvictBegin, PendingSet
<1>24. ASSUME NEW t \in Tasks, EvictNext(t) PROVE TypeOK'
  BY <1>24 DEF EvictNext
<1>25. CASE Tick
  BY <1>25 DEF Tick
<1>26. CASE Crash
  BY <1>26 DEF Crash, Forget, NotGranted
<1>27. CASE Restart
  BY <1>27 DEF Restart, IsPending, Granted, NotGranted
<1>29. CASE Drop
  <2>1. op.pc \in {"consume", "snapshot", "settle", "cancel"} => op.task \in Tasks
    BY DEF OpTypeOK
  <2>2. taskMem' \in [Tasks -> Statuses] /\ used' \subseteq Tasks
    <3>1. {"Planned", "Ready", "Running", "Cancelled"} \subseteq Statuses
      BY DEF Statuses
    <3>2. CASE used' = used /\ taskMem' = taskMem
      BY <3>2
    <3>3. ASSUME NEW t \in Tasks \ used, NEW w \in {"Planned", "Ready", "Running"},
                 used' = used \cup {t}, taskMem' = [taskMem EXCEPT ![t] = w]
          PROVE  taskMem' \in [Tasks -> Statuses] /\ used' \subseteq Tasks
      BY <3>1, <3>3
    <3>4. ASSUME used' = used, NEW w \in {"Running", "Cancelled"},
                 taskMem' = [taskMem EXCEPT ![op.task] = w]
          PROVE  taskMem' \in [Tasks -> Statuses] /\ used' \subseteq Tasks
      BY <3>1, <3>4
    <3> HIDE DEF TypeOK
    <3> QED
      BY <1>29, <3>1, <3>2, <3>3, <3>4, DropMemory
  <2>3. ledger' \in [Tasks -> [state : {"absent", "granted", "consumed"}, expires : Nat]]
    BY <1>29, <2>1, DropRecords, ConsumedTyped
  <2>4. taskDisk' \in [Tasks -> Statuses]
    BY <1>29, <2>1, DropRecords
  <2> QED
    BY <1>29, <2>2, <2>3, <2>4, DropLeaves
<1>28. CASE UNCHANGED vars
  BY <1>28 DEF vars
<1> QED
  BY <1>1, <1>2, <1>3, <1>4, <1>5, <1>6, <1>7, <1>8, <1>9, <1>10, <1>11, <1>12, <1>13, <1>14,
     <1>15, <1>16, <1>17, <1>18, <1>19, <1>20, <1>21, <1>22, <1>23, <1>24, <1>25, <1>26, <1>27,
     <1>28, <1>29
  DEF Next, Submit, Approve, Withdraw

\* The initial state is typed.
LEMMA InitTyped == Init => TypeOK
<1> SUFFICES ASSUME Init PROVE TypeOK
  OBVIOUS
<1> USE ConstAssumption, Ranges DEF Init
<1>1. OpTypeOK
  BY DEF OpTypeOK, Calls, PCs, Idle, Op
<1>2. QED
  BY <1>1 DEF TypeOK, NotGranted, Slots

\* Every variable stays in its range and a call in progress knows its slot and
\* its task where the code uses them.
THEOREM TypeCorrect == Spec => []TypeOK
<1>1. TypeOK /\ UNCHANGED vars => TypeOK'
  BY StateTyped
<1> QED
  BY InitTyped, StateTyped, PTL DEF Spec

-----------------------------------------------------------------------------
(* One effect per key *)

\* A key that was not started has no row.
LEMMA NotStarted == ASSUME TypeOK, NEW s \in Slots, Lookup(s) = "NotStarted"
                    PROVE  outbox[s] = Free
BY DEF TypeOK, Lookup, OutboxRows, Free, Intent, Committed

\* Every step keeps what is known about the keys.
LEMMA SlotStep == ASSUME Safe, [Next]_vars
                  PROVE  FiredInv' /\ CallInv'
<1> USE ConstAssumption, StateTyped DEF Safe, TypeOK, OpTypeOK, Calls, FiredInv, CallInv, Slots,
        At, Goto, GotoWith,
        Return, Idle, Down, Op, Landed, durable, history, Free, Intent, Committed
<1>1. ASSUME NEW k \in Keys, SubmitIntent(k) PROVE FiredInv' /\ CallInv'
  BY <1>1 DEF SubmitIntent, Lookup, OutboxRows
<1>2. CASE SubmitDirect
  BY <1>2 DEF SubmitDirect
<1>3. CASE SubmitUnknownSkill
  BY <1>3 DEF SubmitUnknownSkill
<1>4. ASSUME NEW t \in Tasks, SubmitRateLimited(t) PROVE FiredInv' /\ CallInv'
  BY <1>4 DEF SubmitRateLimited
<1>5. ASSUME NEW t \in Tasks, SubmitGrant(t) PROVE FiredInv' /\ CallInv'
  BY <1>5 DEF SubmitGrant
<1>6. CASE SubmitInsert
  <2>1. op.pc = "insert" /\ (Goto("snapshot") \/ GotoWith("commit", "error"))
    BY <1>6 DEF SubmitInsert
  <2>2. outbox' = outbox /\ fired' = fired
    BY <1>6 DEF SubmitInsert
  <2> HIDE DEF Goto, GotoWith
  <2>3. QED
    BY <2>1, <2>2, Ranges, GotoFields, GotoWithFields DEF PCs
<1>7. ASSUME NEW t \in Tasks, SubmitExecute(t) PROVE FiredInv' /\ CallInv'
  BY <1>7 DEF SubmitExecute
<1>8. CASE SubmitFinalize
  <2>1. /\ op.pc = "exec"
        /\ \E r \in {"Done", "Failed", "error"} : GotoWith("snapshot", r) \/ GotoWith("commit", r)
    BY <1>8 DEF SubmitFinalize, Finalize
  <2>2. outbox' = outbox /\ fired' = fired
    BY <1>8 DEF SubmitFinalize, Finalize
  <2> HIDE DEF Goto, GotoWith
  <2>3. QED
    BY <2>1, <2>2, Ranges, GotoFields, GotoWithFields DEF PCs
<1>9. CASE SubmitSnapshot
  <2>1. op.pc = "snapshot" /\ (Goto("commit") \/ GotoWith("commit", "error"))
    BY <1>9 DEF SubmitSnapshot
  <2>2. outbox' = outbox /\ fired' = fired
    BY <1>9 DEF SubmitSnapshot
  <2> HIDE DEF Goto, GotoWith
  <2>3. QED
    BY <2>1, <2>2, Ranges, GotoFields, GotoWithFields DEF PCs
<1>10. CASE SubmitCommit
  BY <1>10 DEF SubmitCommit, OutcomeRow
<1>11. ASSUME NEW t \in Tasks, ApproveIntent(t) PROVE FiredInv' /\ CallInv'
  BY <1>11 DEF ApproveIntent, Lookup, OutboxRows
<1>12. CASE ApproveExecute
  BY <1>12 DEF ApproveExecute
<1>13. CASE ApproveRefused
  BY <1>13 DEF ApproveRefused
<1>14. CASE ApproveFinalize
  <2>1. op.pc = "execApproved" /\ (\E r \in {"Done", "Failed", "error"} : GotoWith("commitApproved", r))
    BY <1>14 DEF ApproveFinalize, Finalize
  <2>2. outbox' = outbox /\ fired' = fired
    BY <1>14 DEF ApproveFinalize, Finalize
  <2> HIDE DEF Goto, GotoWith
  <2>3. QED
    BY <2>1, <2>2, Ranges, GotoFields, GotoWithFields DEF PCs
<1>15. CASE ApproveCommit
  BY <1>15 DEF ApproveCommit, OutcomeRow
<1>16. CASE ApproveRemove
  BY <1>16 DEF ApproveRemove
<1>17. CASE ApproveSnapshot
  BY <1>17 DEF ApproveSnapshot
<1>18. ASSUME NEW t \in Tasks, DenyRemove(t) PROVE FiredInv' /\ CallInv'
  BY <1>18 DEF DenyRemove
<1>19. CASE CancelTask
  BY <1>19 DEF CancelTask
<1>20. ASSUME NEW t \in Tasks, AbortBegin(t) PROVE FiredInv' /\ CallInv'
  BY <1>20 DEF AbortBegin, Lookup, OutboxRows
<1>21. CASE AbortQuarantine
  BY <1>21 DEF AbortQuarantine
<1>22. CASE AbortDrop
  BY <1>22 DEF AbortDrop
<1>23. CASE EvictBegin
  BY <1>23 DEF EvictBegin
<1>24. ASSUME NEW t \in Tasks, EvictNext(t) PROVE FiredInv' /\ CallInv'
  BY SMTT(30), <1>24 DEF EvictNext
<1>25. CASE Tick
  BY <1>25 DEF Tick
<1>26. CASE Crash
  BY <1>26 DEF Crash
<1>27. CASE Restart
  BY <1>27 DEF Restart
<1>29. CASE Drop
  BY <1>29, DropLeaves
<1>28. CASE UNCHANGED vars
  BY <1>28 DEF vars
<1> QED
  BY <1>1, <1>2, <1>3, <1>4, <1>5, <1>6, <1>7, <1>8, <1>9, <1>10, <1>11, <1>12, <1>13, <1>14,
     <1>15, <1>16, <1>17, <1>18, <1>19, <1>20, <1>21, <1>22, <1>23, <1>24, <1>25, <1>26, <1>27,
     <1>28, <1>29
  DEF Next, Submit, Approve, Withdraw

\* No key has a row at the start, and none has fired.
LEMMA InitSlots == Init => FiredInv /\ CallInv
BY ConstAssumption DEF Init, FiredInv, CallInv, Idle, Op, Free

\* The part of the invariant that is about keys: it needs no other part.
LEMMA AlwaysSafe == Spec => []Safe
<1>1. Init => Safe
  BY InitTyped, InitSlots DEF Safe
<1>2. Safe /\ [Next]_vars => Safe'
  BY StateTyped, SlotStep DEF Safe
<1> QED
  BY <1>1, <1>2, PTL DEF Spec

\* The executor is called at most once under a dispatch key and at most once
\* for an approval, over retries, failed writes, crashes and restarts
\* (submit_task_idempotent, approve).
THEOREM DispatchedOnce == Spec => []AtMostOnceDispatch
<1>1. Safe => AtMostOnceDispatch
  BY DEF Safe, FiredInv, AtMostOnceDispatch
<1> QED
  BY <1>1, AlwaysSafe, PTL

\* A committed row says what happened: a completed key fired once, a key whose
\* submission awaits approval or was quarantined did not fire.
THEOREM OutboxTruthful == Spec => []OutboxTellsTheTruth
<1>1. Safe => OutboxTellsTheTruth
  BY DEF Safe, FiredInv, OutboxTellsTheTruth
<1> QED
  BY <1>1, AlwaysSafe, PTL

-----------------------------------------------------------------------------
(* The runtime implements AtMostOnce *)

\* An outbox that does not change, or that opens a key, answers nothing new.
LEMMA NoNewAnswer == ASSUME TypeOK, fired' = fired, NEW s \in Slots,
                            outbox' = outbox \/ (/\ outbox[s].phase = "free"
                                                 /\ outbox' = [outbox EXCEPT ![s] = Intent])
                     PROVE  UNCHANGED AMO!vars
<1>1. \A r \in Slots : Outcome(r)' = Outcome(r)
  <2>1. CASE outbox' = outbox
    BY <2>1 DEF Outcome
  <2>2. CASE outbox[s].phase = "free" /\ outbox' = [outbox EXCEPT ![s] = Intent]
    <3>1. outbox'[s].phase = "intent" /\ \A r \in Slots \ {s} : outbox'[r] = outbox[r]
      BY <2>2 DEF TypeOK, Intent
    <3> QED
      BY <2>2, <3>1 DEF Outcome
  <2> QED
    BY <2>1, <2>2
<1> QED
  BY <1>1 DEF AMO!vars

\* The executor call of a key in progress is the abstract Fire.
LEMMA FireStep == ASSUME Safe, NEW s \in Slots, outbox[s] = Intent, fired[s] = 0,
                         fired' = [fired EXCEPT ![s] = @ + 1], outbox' = outbox
                  PROVE  AMO!Next
<1>1. \A r \in Slots : Outcome(r)' = Outcome(r)
  BY DEF Outcome
<1>2. Outcome(s) = <<>>
  BY DEF Outcome, Intent
<1>3. fired' = [fired EXCEPT ![s] = 1]
  BY DEF Safe, TypeOK
<1> QED
  BY <1>1, <1>2, <1>3 DEF AMO!Next, AMO!Fire

\* The commit of a key in progress is the abstract Settle.
LEMMA SettleStep == ASSUME Safe, NEW s \in Slots, outbox[s] = Intent, fired' = fired,
                           NEW r \in Results, NEW t \in Tasks \cup {None},
                           outbox' = [outbox EXCEPT ![s] = Committed(r, t)]
                    PROVE  AMO!Next
<1> DEFINE answer == [q \in Slots |-> Outcome(q)]
<1>1. Outcome(s) = <<>>
  BY DEF Outcome, Intent
<1>2. \A q \in Slots : Outcome(q)' = IF q = s THEN <<r, t>> ELSE Outcome(q)
  BY DEF Outcome, Committed, Safe, TypeOK
<1>3. answer' = [answer EXCEPT ![s] = <<r, t>>]
  BY <1>2
<1>4. <<r, t>> \in Results \X (Tasks \cup {None}) /\ answer'[s] = <<r, t>>
  BY <1>2
<1> QED
  BY <1>1, <1>3, <1>4 DEF AMO!Next, AMO!Settle

\* Every step is an abstract step or leaves the abstract variables alone.
LEMMA AMOStep == ASSUME Safe, [Next]_vars
                 PROVE  [AMO!Next]_(AMO!vars)
<1>1. TypeOK /\ OpTypeOK
  BY DEF Safe, TypeOK
<1> USE ConstAssumption DEF At, durable, history, Slots
<1>2. ASSUME outbox' = outbox, fired' = fired PROVE UNCHANGED AMO!vars
  BY <1>2 DEF AMO!vars, Outcome
<1>3. ASSUME NEW k \in Keys, SubmitIntent(k) PROVE [AMO!Next]_(AMO!vars)
  <2>1. outbox[k].phase = "free" /\ outbox' = [outbox EXCEPT ![k] = Intent] /\ fired' = fired
    BY <1>3, <1>1, NotStarted DEF SubmitIntent, Free
  <2> QED
    BY <1>1, <2>1, NoNewAnswer
<1>4. ASSUME NEW t \in Tasks, SubmitExecute(t) PROVE [AMO!Next]_(AMO!vars)
  <2>1. CASE op.slot = None
    BY <1>4, <2>1, <1>2 DEF SubmitExecute
  <2>2. CASE op.slot # None
    <3>1. op.slot \in Slots /\ outbox[op.slot] = Intent /\ fired[op.slot] = 0
      BY <1>4, <1>1, <2>2 DEF SubmitExecute, OpTypeOK, Safe, CallInv
    <3>2. outbox' = outbox /\ fired' = [fired EXCEPT ![op.slot] = @ + 1]
      BY <1>4, <2>2 DEF SubmitExecute
    <3> QED
      BY <3>1, <3>2, FireStep
  <2> QED
    BY <2>1, <2>2
<1>5. CASE SubmitCommit
  <2>1. CASE outbox' = outbox
    BY <1>5, <2>1, <1>2 DEF SubmitCommit
  <2>2. CASE outbox' # outbox
    <3>1. op.slot \in Slots /\ outbox[op.slot] = Intent /\ op.result \in Results
          /\ op.task \in Tasks \cup {None}
      BY <1>5, <1>1, <2>2 DEF SubmitCommit, OpTypeOK, Calls, Safe, CallInv
    <3>2. fired' = fired /\ outbox' = [outbox EXCEPT ![op.slot] = OutcomeRow(op.result, op.task)]
      BY <1>5, <2>2 DEF SubmitCommit
    <3>3. \E t \in Tasks \cup {None} : OutcomeRow(op.result, op.task) = Committed(op.result, t)
      BY <3>1 DEF OutcomeRow
    <3> QED
      BY <3>1, <3>2, <3>3, SettleStep
  <2> QED
    BY <2>1, <2>2
<1>6. ASSUME NEW t \in Tasks, ApproveIntent(t) PROVE [AMO!Next]_(AMO!vars)
  <2>1. outbox[t].phase = "free" /\ outbox' = [outbox EXCEPT ![t] = Intent] /\ fired' = fired
    BY <1>6, <1>1, NotStarted DEF ApproveIntent, Free
  <2> QED
    BY <1>1, <2>1, NoNewAnswer
<1>7. CASE ApproveExecute
  <2>1. op.slot \in Slots /\ outbox[op.slot] = Intent /\ fired[op.slot] = 0
    BY <1>7, <1>1 DEF ApproveExecute, OpTypeOK, Safe, CallInv
  <2>2. outbox' = outbox /\ fired' = [fired EXCEPT ![op.slot] = @ + 1]
    BY <1>7 DEF ApproveExecute
  <2> QED
    BY <2>1, <2>2, FireStep
<1>8. CASE ApproveCommit
  <2>1. CASE outbox' = outbox
    BY <1>8, <2>1, <1>2 DEF ApproveCommit
  <2>2. CASE outbox' # outbox
    <3>1. op.slot \in Slots /\ outbox[op.slot] = Intent /\ op.result \in Results
          /\ op.task \in Tasks \cup {None}
      BY <1>8, <1>1, <2>2 DEF ApproveCommit, OpTypeOK, Calls, Safe, CallInv
    <3>2. fired' = fired /\ outbox' = [outbox EXCEPT ![op.slot] = OutcomeRow(op.result, op.task)]
      BY <1>8, <2>2 DEF ApproveCommit
    <3>3. \E t \in Tasks \cup {None} : OutcomeRow(op.result, op.task) = Committed(op.result, t)
      BY <3>1 DEF OutcomeRow
    <3> QED
      BY <3>1, <3>2, <3>3, SettleStep
  <2> QED
    BY <2>1, <2>2
<1>9. ASSUME NEW t \in Tasks, AbortBegin(t) PROVE [AMO!Next]_(AMO!vars)
  <2>1. /\ fired' = fired
        /\ outbox' = outbox \/ (outbox[t].phase = "free" /\ outbox' = [outbox EXCEPT ![t] = Intent])
    BY <1>9, <1>1, NotStarted DEF AbortBegin, Free
  <2> QED
    BY <1>1, <2>1, NoNewAnswer
<1>10. CASE AbortQuarantine
  <2>1. CASE outbox' = outbox
    BY <1>10, <2>1, <1>2 DEF AbortQuarantine
  <2>2. CASE outbox' # outbox
    <3>1. op.slot \in Slots /\ outbox[op.slot] = Intent
      BY <1>10, <1>1 DEF AbortQuarantine, OpTypeOK, Safe, CallInv
    <3>2. fired' = fired /\ outbox' = [outbox EXCEPT ![op.slot] = Committed("quarantine", None)]
      BY <1>10, <2>2 DEF AbortQuarantine
    <3> QED
      BY <3>1, <3>2, SettleStep, Ranges
  <2> QED
    BY <2>1, <2>2
<1>11. CASE \/ SubmitDirect
            \/ SubmitUnknownSkill
            \/ \E t \in Tasks : SubmitRateLimited(t)
            \/ \E t \in Tasks : SubmitGrant(t)
            \/ SubmitInsert
            \/ SubmitFinalize
            \/ SubmitSnapshot
            \/ ApproveRefused
            \/ ApproveFinalize
            \/ ApproveRemove
            \/ ApproveSnapshot
            \/ \E t \in Tasks : DenyRemove(t)
            \/ CancelTask
            \/ AbortDrop
            \/ EvictBegin
            \/ \E t \in Tasks : EvictNext(t)
            \/ Drop
            \/ Tick
            \/ Crash
            \/ Restart
            \/ UNCHANGED vars
  BY <1>2, <1>11, DropLeaves DEF Finalize, vars, SubmitDirect, SubmitUnknownSkill, SubmitRateLimited,
     SubmitGrant, SubmitInsert, SubmitFinalize, SubmitSnapshot, ApproveRefused, ApproveFinalize,
     ApproveRemove, ApproveSnapshot, DenyRemove, CancelTask, AbortDrop, EvictBegin, EvictNext,
     Tick, Crash, Restart
<1> QED
  BY <1>3, <1>4, <1>5, <1>6, <1>7, <1>8, <1>9, <1>10, <1>11 DEF Next, Submit, Approve, Withdraw

\* Every behaviour of the runtime, with its journals, crashes and failed writes,
\* is a behaviour of AtMostOnce: what a key answers it answers for ever, and
\* its effect is not called after that.
THEOREM Implements == Spec => ImplementsAtMostOnce
<1>1. Init => AMO!Init
  BY DEF Init, AMO!Init, Outcome, Free
<1>2. Safe /\ [Next]_vars => [AMO!Next]_(AMO!vars)
  BY AMOStep
<1> QED
  BY <1>1, <1>2, AlwaysSafe, PTL DEF Spec, ImplementsAtMostOnce, AMO!Spec

-----------------------------------------------------------------------------
(* An approval that is gone stays gone *)

\* An identifier that was not handed out stays unknown.
LEMMA FreshStep == ASSUME TypeOK, FreshInv, [Next]_vars
                   PROVE  FreshInv'
<1> USE ConstAssumption, StateTyped DEF TypeOK, OpTypeOK, Calls, FreshInv, Slots, At, Goto,
        GotoWith,
        Return, Idle, Down, Op, Landed, durable, queue, volatile, history, IsPending
<1>1. ASSUME NEW k \in Keys, SubmitIntent(k) PROVE FreshInv'
  BY <1>1 DEF SubmitIntent
<1>2. CASE SubmitDirect
  BY <1>2 DEF SubmitDirect
<1>3. CASE SubmitUnknownSkill
  BY <1>3 DEF SubmitUnknownSkill
<1>4. ASSUME NEW t \in Tasks, SubmitRateLimited(t) PROVE FreshInv'
  BY <1>4 DEF SubmitRateLimited
<1>5. ASSUME NEW t \in Tasks, SubmitGrant(t) PROVE FreshInv'
  BY <1>5 DEF SubmitGrant, LimiterRecords
<1>6. CASE SubmitInsert
  <2>1. op'.task = op.task /\ op'.todo = op.todo
    BY <1>6, InsertMoves
  <2>2. pending' = pending \/ pending' = [pending EXCEPT ![op.task] = ledger[op.task].expires]
    BY <1>6 DEF SubmitInsert
  <2>3. op.task \in used /\ UNCHANGED <<outbox, queue, volatile, history>>
    BY <1>6 DEF SubmitInsert
  <2> QED
    BY <2>1, <2>2, <2>3
<1>7. ASSUME NEW t \in Tasks, SubmitExecute(t) PROVE FreshInv'
  BY <1>7 DEF SubmitExecute
<1>8. CASE SubmitFinalize
  <2>1. Finalize("snapshot", "commit") /\ op.task \in used
    BY <1>8 DEF SubmitFinalize
  <2>2. /\ op'.task = op.task /\ op'.todo = op.todo
        /\ \/ \E s \in {"Done", "Failed"} : taskMem' = [taskMem EXCEPT ![op.task] = s]
           \/ taskMem' = taskMem
    BY <2>1, FinalizeMoves DEF PCs
  <2>3. UNCHANGED <<durable, ledger, history>>
    BY <2>1 DEF Finalize
  <2> QED
    BY <2>1, <2>2, <2>3
<1>9. CASE SubmitSnapshot
  <2>1. op'.task = op.task /\ op'.todo = op.todo
    BY <1>9, SnapshotMoves
  <2>2. taskDisk' = taskDisk \/ taskDisk' = [taskDisk EXCEPT ![op.task] = taskMem[op.task]]
    BY <1>9 DEF SubmitSnapshot, Snapshot
  <2>3. op.task \in used /\ UNCHANGED <<outbox, pending, volatile, history>>
    BY <1>9 DEF SubmitSnapshot
  <2> QED
    BY <2>1, <2>2, <2>3
<1>10. CASE SubmitCommit
  BY <1>10 DEF SubmitCommit, OutcomeRow
<1>11. ASSUME NEW t \in Tasks, ApproveIntent(t) PROVE FreshInv'
  BY <1>11 DEF ApproveIntent
<1>12. CASE ApproveExecute
  BY <1>12 DEF ApproveExecute
<1>13. CASE ApproveRefused
  BY <1>13 DEF ApproveRefused
<1>14. CASE ApproveFinalize
  <2>1. Finalize("commitApproved", "commitApproved") /\ op.task \in used
    BY <1>14 DEF ApproveFinalize
  <2>2. /\ op'.task = op.task /\ op'.todo = op.todo
        /\ \/ \E s \in {"Done", "Failed"} : taskMem' = [taskMem EXCEPT ![op.task] = s]
           \/ taskMem' = taskMem
    BY <2>1, FinalizeMoves DEF PCs
  <2>3. UNCHANGED <<durable, ledger, history>>
    BY <2>1 DEF Finalize
  <2> QED
    BY <2>1, <2>2, <2>3
<1>15. CASE ApproveCommit
  BY <1>15 DEF ApproveCommit, OutcomeRow
<1>16. CASE ApproveRemove
  <2>1. op'.task \in {op.task, None} /\ op'.todo \in {op.todo, {}}
    BY <1>16 DEF ApproveRemove
  <2>2. pending' = pending \/ pending' = [pending EXCEPT ![op.task] = None]
    BY <1>16 DEF ApproveRemove
  <2>3. UNCHANGED <<outbox, taskDisk, taskMem, ledger, used, revoked>>
    BY <1>16 DEF ApproveRemove
  <2> QED
    BY <2>1, <2>2, <2>3
<1>17. CASE ApproveSnapshot
  BY <1>17 DEF ApproveSnapshot, Snapshot
<1>18. ASSUME NEW t \in Tasks, DenyRemove(t) PROVE FreshInv'
  BY <1>18 DEF DenyRemove
<1>19. CASE CancelTask
  BY <1>19 DEF CancelTask, Snapshot
<1>20. ASSUME NEW t \in Tasks, AbortBegin(t) PROVE FreshInv'
  BY <1>20 DEF AbortBegin
<1>21. CASE AbortQuarantine
  BY <1>21 DEF AbortQuarantine
<1>22. CASE AbortDrop
  BY SMTT(30), <1>22 DEF AbortDrop
<1>23. CASE EvictBegin
  BY <1>23 DEF EvictBegin, PendingSet
<1>24. ASSUME NEW t \in Tasks, EvictNext(t) PROVE FreshInv'
  BY <1>24 DEF EvictNext
<1>25. CASE Tick
  BY <1>25 DEF Tick
<1>26. CASE Crash
  BY <1>26 DEF Crash, Forget, NotGranted
<1>27. CASE Restart
  BY <1>27 DEF Restart, NotGranted, Granted
<1>29. CASE Drop
  <2>1. op.pc \in {"consume", "snapshot", "settle", "cancel"} => op.task \in used
    OBVIOUS
  <2> QED
    BY <1>29, <2>1, DropLeaves, DropMemory, DropRecords
<1>28. CASE UNCHANGED vars
  BY <1>28 DEF vars
<1> QED
  BY <1>1, <1>2, <1>3, <1>4, <1>5, <1>6, <1>7, <1>8, <1>9, <1>10, <1>11, <1>12, <1>13, <1>14,
     <1>15, <1>16, <1>17, <1>18, <1>19, <1>20, <1>21, <1>22, <1>23, <1>24, <1>25, <1>26, <1>27,
     <1>28, <1>29
  DEF Next, Submit, Approve, Withdraw

\* Every step keeps the two copies of an approval in agreement.
LEMMA ApprovalStep == ASSUME TypeOK, CallInv, FreshInv, ApprovalInv, [Next]_vars
                      PROVE  ApprovalInv'
<1> USE ConstAssumption, StateTyped DEF TypeOK, OpTypeOK, Calls, FreshInv, ApprovalInv, CallInv,
        Slots, At, Goto, GotoWith,
        Return, Idle, Down, Op, Landed, durable, queue, volatile, history, IsPending,
        Free, Intent, Committed
<1>1. ASSUME NEW k \in Keys, SubmitIntent(k) PROVE ApprovalInv'
  BY <1>1 DEF SubmitIntent
<1>2. CASE SubmitDirect
  BY <1>2 DEF SubmitDirect
<1>3. CASE SubmitUnknownSkill
  BY <1>3 DEF SubmitUnknownSkill
<1>4. ASSUME NEW t \in Tasks, SubmitRateLimited(t) PROVE ApprovalInv'
  BY <1>4 DEF SubmitRateLimited
<1>5. ASSUME NEW t \in Tasks, SubmitGrant(t) PROVE ApprovalInv'
  BY <1>5 DEF SubmitGrant, Granted
<1>6. CASE SubmitInsert
  <2>1. op'.task = op.task /\ op'.pc \in {"snapshot", "commit"}
    BY <1>6, InsertMoves
  <2>2. pending' = pending \/ pending' = [pending EXCEPT ![op.task] = ledger[op.task].expires]
    BY <1>6 DEF SubmitInsert
  <2>3. op.pc = "insert" /\ op.task \in Tasks /\ UNCHANGED <<outbox, queue, volatile, history>>
    BY <1>6 DEF SubmitInsert
  <2> QED
    BY SMTT(30), <2>1, <2>2, <2>3
<1>7. ASSUME NEW t \in Tasks, SubmitExecute(t) PROVE ApprovalInv'
  BY <1>7 DEF SubmitExecute
<1>8. CASE SubmitFinalize
  <2>1. Finalize("snapshot", "commit") /\ op.pc = "exec"
    BY <1>8 DEF SubmitFinalize
  <2>2. op'.task = op.task /\ op'.pc \in {"snapshot", "commit"}
    BY <2>1, FinalizeMoves DEF PCs
  <2>3. UNCHANGED <<durable, ledger, history>>
    BY <2>1 DEF Finalize
  <2> QED
    BY <2>1, <2>2, <2>3
<1>9. CASE SubmitSnapshot
  <2>1. op'.task = op.task /\ op'.pc = "commit"
    BY <1>9, SnapshotMoves
  <2>2. UNCHANGED <<outbox, pending, volatile, history>>
    BY <1>9 DEF SubmitSnapshot
  <2> QED
    BY <2>1, <2>2
<1>10. CASE SubmitCommit
  BY <1>10 DEF SubmitCommit, OutcomeRow
<1>11. ASSUME NEW t \in Tasks, ApproveIntent(t) PROVE ApprovalInv'
  <2>1. outbox[t] = Free /\ t \notin revoked
    BY <1>11, NotStarted DEF ApproveIntent
  <2> QED
    BY <1>11, <2>1 DEF ApproveIntent
<1>12. CASE ApproveExecute
  BY <1>12 DEF ApproveExecute, Consumable
<1>13. CASE ApproveRefused
  BY <1>13 DEF ApproveRefused, Consumable
<1>14. CASE ApproveFinalize
  <2>1. Finalize("commitApproved", "commitApproved") /\ op.pc = "execApproved"
    BY <1>14 DEF ApproveFinalize
  <2>2. op'.task = op.task /\ op'.pc \in {"commitApproved", "commitApproved"}
    BY <2>1, FinalizeMoves DEF PCs
  <2>3. UNCHANGED <<durable, ledger, history>>
    BY <2>1 DEF Finalize
  <2> QED
    BY <2>1, <2>2, <2>3
<1>15. CASE ApproveCommit
  BY SMTT(30), <1>15 DEF ApproveCommit, OutcomeRow
<1>16. CASE ApproveRemove
  BY <1>16 DEF ApproveRemove
<1>17. CASE ApproveSnapshot
  BY <1>17 DEF ApproveSnapshot
<1>18. ASSUME NEW t \in Tasks, DenyRemove(t) PROVE ApprovalInv'
  BY <1>18 DEF DenyRemove
<1>19. CASE CancelTask
  BY <1>19 DEF CancelTask
<1>20. ASSUME NEW t \in Tasks, AbortBegin(t) PROVE ApprovalInv'
  BY <1>20 DEF AbortBegin
<1>21. CASE AbortQuarantine
  BY <1>21 DEF AbortQuarantine
<1>22. CASE AbortDrop
  BY <1>22, SMTT(30) DEF AbortDrop
<1>23. CASE EvictBegin
  BY <1>23 DEF EvictBegin, PendingSet
<1>24. ASSUME NEW t \in Tasks, EvictNext(t) PROVE ApprovalInv'
  BY <1>24 DEF EvictNext
<1>25. CASE Tick
  BY <1>25 DEF Tick
<1>26. CASE Crash
  BY <1>26 DEF Crash, Forget, NotGranted
<1>27. CASE Restart
  BY <1>27 DEF Restart, NotGranted, Granted
<1>29. CASE Drop
  <2>1. \/ ledger' = ledger
        \/ op.task \in Tasks /\ ledger' = [ledger EXCEPT ![op.task].state = "consumed"]
    BY <1>29, DropRecords
  <2>2. \A t \in Tasks : ledger'[t].state = "granted" => ledger'[t] = ledger[t]
    BY <2>1
  <2> QED
    BY <1>29, <2>2, DropLeaves
<1>28. CASE UNCHANGED vars
  BY <1>28 DEF vars
<1> QED
  BY <1>1, <1>2, <1>3, <1>4, <1>5, <1>6, <1>7, <1>8, <1>9, <1>10, <1>11, <1>12, <1>13, <1>14,
     <1>15, <1>16, <1>17, <1>18, <1>19, <1>20, <1>21, <1>22, <1>23, <1>24, <1>25, <1>26, <1>27,
     <1>28, <1>29
  DEF Next, Submit, Approve, Withdraw

\* There is no approval at the start.
LEMMA InitApprovals == Init => FreshInv /\ ApprovalInv
<1> SUFFICES ASSUME Init PROVE FreshInv /\ ApprovalInv
  OBVIOUS
<1> USE DEF Init, Idle, Op
<1>1. FreshInv
  BY DEF FreshInv, NotGranted, Slots
<1>2. ApprovalInv
  BY DEF ApprovalInv, IsPending
<1> QED
  BY <1>1, <1>2

\* What is known about approvals, in one invariant.
AInv == Safe /\ FreshInv /\ ApprovalInv

\* All of what is known about keys and approvals holds in every reachable state.
LEMMA AlwaysAInv == Spec => []AInv
<1>1. Init => AInv
  BY InitTyped, InitSlots, InitApprovals DEF AInv, Safe
<1>2. AInv /\ [Next]_vars => AInv'
  BY StateTyped, SlotStep, FreshStep, ApprovalStep DEF AInv, Safe
<1> QED
  BY <1>1, <1>2, PTL DEF Spec

\* Only two steps call an executor: one under a dispatch key or no key, one for
\* the approval it consumes.
LEMMA WhoFires == ASSUME TypeOK, [Next]_vars, NEW t \in Tasks, fired'[t] # fired[t]
                  PROVE  ApproveExecute /\ op.task = t
<1> USE ConstAssumption DEF durable, volatile, history
<1>1. CASE fired' = fired
  BY <1>1
<1>2. ASSUME NEW u \in Tasks, SubmitExecute(u) PROVE FALSE
  <2>1. op.slot \in Keys \cup {None}
    BY <1>2 DEF SubmitExecute, TypeOK, OpTypeOK, At
  <2> QED
    BY <1>2, <2>1 DEF SubmitExecute, TypeOK, Slots
<1>3. CASE ApproveExecute
  BY <1>3 DEF ApproveExecute, TypeOK, OpTypeOK, At, Slots
<1>4. fired' = fired \/ ApproveExecute \/ \E u \in Tasks : SubmitExecute(u)
  BY DropLeaves DEF Next, Submit, Approve, Withdraw, vars, Finalize, SubmitIntent, SubmitDirect,
         SubmitUnknownSkill, SubmitRateLimited, SubmitGrant, SubmitInsert, SubmitFinalize,
         SubmitSnapshot, SubmitCommit, ApproveIntent, ApproveRefused, ApproveFinalize,
         ApproveCommit, ApproveRemove, ApproveSnapshot, DenyRemove, CancelTask, AbortBegin,
         AbortQuarantine, AbortDrop, EvictBegin, EvictNext, Tick, Crash, Restart
<1> QED
  BY <1>1, <1>2, <1>3, <1>4

\* Once an approval is durably denied, evicted or quarantined, its action is not
\* executed, in this process or after any restart (deny_pending,
\* abort_pending_after_continuation_failure, evict_expired, with_durable_stores).
THEOREM NothingRevokedFires == Spec => RevokedNeverFires
<1>1. AInv /\ [Next]_vars => [\A t \in revoked : fired'[t] = fired[t]]_vars
  <2> SUFFICES ASSUME AInv, [Next]_vars, NEW t \in revoked, fired'[t] # fired[t]
               PROVE  FALSE
    OBVIOUS
  <2>1. ApproveExecute /\ op.task = t
    BY WhoFires DEF AInv, Safe, TypeOK
  <2> QED
    BY <2>1 DEF ApproveExecute, AInv, ApprovalInv, At
<1> QED
  BY <1>1, AlwaysAInv, PTL DEF Spec, RevokedNeverFires

\* An approved action is executed while its record is on disk, has not expired
\* and was not revoked: the ledger's copy and the store's copy agree whenever
\* run_after_approval consults the first.
THEOREM FiresOnlyWhilePending == Spec => FiresWhilePendingOnDisk
<1>1. AInv /\ [Next]_vars
        => [\A t \in Tasks : fired'[t] # fired[t] =>
              /\ IsPending(t) /\ ~Expired(pending[t])
              /\ t \notin revoked]_vars
  <2> SUFFICES ASSUME AInv, [Next]_vars, NEW t \in Tasks, fired'[t] # fired[t]
               PROVE  IsPending(t) /\ ~Expired(pending[t]) /\ t \notin revoked
    OBVIOUS
  <2>1. ApproveExecute /\ op.task = t
    BY WhoFires DEF AInv, Safe
  <2>2. IsPending(t) /\ t \notin revoked
    BY <2>1 DEF ApproveExecute, AInv, ApprovalInv, At
  <2>3. ledger[t].state = "granted" /\ ~Expired(ledger[t].expires)
    BY <2>1 DEF ApproveExecute, Consumable
  <2> QED
    BY <2>2, <2>3 DEF AInv, ApprovalInv
<1> QED
  BY <1>1, AlwaysAInv, PTL DEF Spec, FiresWhilePendingOnDisk

-----------------------------------------------------------------------------
(* The task queue and its snapshots *)

\* Every step keeps the queue, its snapshots and the outbox in agreement.
LEMMA TaskStep == ASSUME AInv, TaskInv, [Next]_vars
                  PROVE  TaskInv'
<1> USE ConstAssumption, StateTyped DEF AInv, Safe, TypeOK, OpTypeOK, Calls, FreshInv,
        ApprovalInv, CallInv, TaskInv, AutoRun,
        Slots, At, Goto, GotoWith, Return, Idle, Down, Op, Landed, durable, queue, volatile, history,
        IsPending, Free, Intent, Committed, Terminal
<1>1. ASSUME NEW k \in Keys, SubmitIntent(k) PROVE TaskInv'
  BY <1>1 DEF SubmitIntent
<1>2. CASE SubmitDirect
  BY <1>2 DEF SubmitDirect
<1>3. CASE SubmitUnknownSkill
  BY <1>3 DEF SubmitUnknownSkill
<1>4. ASSUME NEW t \in Tasks, SubmitRateLimited(t) PROVE TaskInv'
  BY <1>4 DEF SubmitRateLimited
<1>5. ASSUME NEW t \in Tasks, SubmitGrant(t) PROVE TaskInv'
  BY <1>5 DEF SubmitGrant, Granted
<1>6. CASE SubmitInsert
  <2>1. /\ op'.task = op.task
        /\ (op'.pc = "snapshot" /\ op'.result = op.result) \/ op'.pc = "commit"
    BY <1>6, InsertMoves
  <2>2. pending' = pending \/ pending' = [pending EXCEPT ![op.task] = ledger[op.task].expires]
    BY <1>6 DEF SubmitInsert
  <2>3. op.pc = "insert" /\ op.task \in Tasks /\ UNCHANGED <<outbox, queue, volatile, history>>
    BY <1>6 DEF SubmitInsert
  <2> QED
    BY <2>1, <2>2, <2>3
<1>7. ASSUME NEW t \in Tasks, SubmitExecute(t) PROVE TaskInv'
  BY <1>7 DEF SubmitExecute
<1>8. CASE SubmitFinalize
  <2>1. Finalize("snapshot", "commit") /\ op.pc = "exec" /\ op.task \in Tasks
    BY <1>8 DEF SubmitFinalize
  <2>2. /\ op'.task = op.task
        /\ \/ /\ op'.pc = "snapshot" /\ op'.result \in {"Done", "Failed"}
              /\ taskMem' = [taskMem EXCEPT ![op.task] = op'.result]
           \/ op'.pc = "commit" /\ op'.result = "error" /\ taskMem' = taskMem
    BY <2>1, FinalizeMoves DEF PCs
  <2>3. UNCHANGED <<durable, ledger, history>>
    BY <2>1 DEF Finalize
  <2> QED
    BY <2>1, <2>2, <2>3
<1>9. CASE SubmitSnapshot
  <2>1. op'.task = op.task /\ op'.pc = "commit" /\ op.pc = "snapshot" /\ op.task \in Tasks
    BY <1>9, SnapshotMoves
  <2>2. UNCHANGED <<outbox, pending, volatile, history>>
    BY <1>9 DEF SubmitSnapshot
  <2>3. taskDisk' = taskDisk \/ taskDisk' = [taskDisk EXCEPT ![op.task] = taskMem[op.task]]
    BY <1>9 DEF SubmitSnapshot, Snapshot
  <2> QED
    BY <2>1, <2>2, <2>3
<1>10. CASE SubmitCommit
  BY <1>10 DEF SubmitCommit, OutcomeRow
<1>11. ASSUME NEW t \in Tasks, ApproveIntent(t) PROVE TaskInv'
  BY <1>11 DEF ApproveIntent
<1>12. CASE ApproveExecute
  BY <1>12 DEF ApproveExecute, Consumable
<1>13. CASE ApproveRefused
  BY <1>13 DEF ApproveRefused, Consumable
<1>14. CASE ApproveFinalize
  <2>1. Finalize("commitApproved", "commitApproved") /\ op.pc = "execApproved" /\ op.task \in Tasks
    BY <1>14 DEF ApproveFinalize
  <2>2. /\ op'.task = op.task
        /\ \/ /\ op'.pc = "commitApproved" /\ op'.result \in {"Done", "Failed"}
              /\ taskMem' = [taskMem EXCEPT ![op.task] = op'.result]
           \/ op'.pc = "commitApproved" /\ op'.result = "error" /\ taskMem' = taskMem
    BY <2>1, FinalizeMoves DEF PCs
  <2>3. UNCHANGED <<durable, ledger, history>>
    BY <2>1 DEF Finalize
  <2> QED
    BY <2>1, <2>2, <2>3
<1>15. CASE ApproveCommit
  BY <1>15 DEF ApproveCommit, OutcomeRow
<1>16. CASE ApproveRemove
  BY <1>16 DEF ApproveRemove
<1>17. CASE ApproveSnapshot
  BY <1>17 DEF ApproveSnapshot, Snapshot
<1>18. ASSUME NEW t \in Tasks, DenyRemove(t) PROVE TaskInv'
  BY <1>18 DEF DenyRemove
<1>19. CASE CancelTask
  BY <1>19 DEF CancelTask, Snapshot
<1>20. ASSUME NEW t \in Tasks, AbortBegin(t) PROVE TaskInv'
  <2>1. op'.pc \in {"quarantine", "drop"}
    BY <1>20 DEF AbortBegin
  <2>2. outbox' = outbox \/ outbox' = [outbox EXCEPT ![t] = Intent]
    BY <1>20 DEF AbortBegin
  <2>3. outbox' # outbox => outbox[t] = Free
    BY <1>20, NotStarted DEF AbortBegin
  <2>4. ledger[t].state # "absent" /\ UNCHANGED <<pending, taskDisk, taskMem, ledger>>
    BY <1>20 DEF AbortBegin
  <2> QED
    BY <2>1, <2>2, <2>3, <2>4
<1>21. CASE AbortQuarantine
  BY <1>21 DEF AbortQuarantine
<1>22. CASE AbortDrop
  BY <1>22, SMTT(30) DEF AbortDrop
<1>23. CASE EvictBegin
  BY <1>23 DEF EvictBegin, PendingSet
<1>24. ASSUME NEW t \in Tasks, EvictNext(t) PROVE TaskInv'
  BY SMTT(30), <1>24 DEF EvictNext
<1>25. CASE Tick
  BY <1>25 DEF Tick
<1>26. CASE Crash
  BY <1>26 DEF Crash, Forget, NotGranted
<1>27. CASE Restart
  BY <1>27 DEF Restart, NotGranted, Granted
<1>29. CASE Drop
  BY <1>29, DropLeaves, DropMemory, DropRecords
<1>28. CASE UNCHANGED vars
  BY <1>28 DEF vars
<1> QED
  BY <1>1, <1>2, <1>3, <1>4, <1>5, <1>6, <1>7, <1>8, <1>9, <1>10, <1>11, <1>12, <1>13, <1>14,
     <1>15, <1>16, <1>17, <1>18, <1>19, <1>20, <1>21, <1>22, <1>23, <1>24, <1>25, <1>26, <1>27,
     <1>28, <1>29
  DEF Next, Submit, Approve, Withdraw

\* There is no task at the start.
LEMMA InitTasks == Init => TaskInv
BY DEF Init, TaskInv, Idle, Op, IsPending

\* The inductive invariant holds in every reachable state.
LEMMA AlwaysIInv == Spec => []IInv
<1>1. Init => IInv
  BY InitTyped, InitSlots, InitApprovals, InitTasks DEF IInv, Safe
<1>2. IInv /\ [Next]_vars => IInv'
  BY StateTyped, SlotStep, FreshStep, ApprovalStep, TaskStep DEF IInv, AInv, Safe
<1> QED
  BY <1>1, <1>2, PTL DEF Spec

\* A snapshot never says Done or Failed before the commit of the approval is
\* durable, nor anything else than that commit (approve's order of writes).
THEOREM QueueAgrees == Spec => []QueueAgreesWithOutbox
<1>1. IInv => QueueAgreesWithOutbox
  BY DEF IInv, TaskInv, AutoRun, QueueAgreesWithOutbox
<1> QED
  BY <1>1, AlwaysIInv, PTL

\* A finished task keeps its status whatever call follows: the state machine of
\* the queue refuses it, and no call snapshots a task whose last snapshot is final.
THEOREM FinishedStaysFinished == Spec => TerminalIsFinal
<1>1. IInv /\ [Next]_vars
        => [\A t \in Tasks :
              /\ taskDisk[t] \in Terminal => taskDisk'[t] = taskDisk[t]
              /\ taskMem[t] \in Terminal /\ op'.pc # "down" => taskMem'[t] = taskMem[t]]_vars
  <2> SUFFICES ASSUME IInv, [Next]_vars, NEW t \in Tasks
               PROVE  /\ taskDisk[t] \in Terminal => taskDisk'[t] = taskDisk[t]
                      /\ taskMem[t] \in Terminal /\ op'.pc # "down" => taskMem'[t] = taskMem[t]
    OBVIOUS
  <2>1. taskDisk' = taskDisk \/ \E s \in Statuses :
          /\ op.pc \in {"snapshot", "settle", "cancel"}
          /\ taskDisk' = [taskDisk EXCEPT ![op.task] = s]
    BY Ranges, DropRecords DEF Next, Submit, Approve, Withdraw, vars, Finalize, SubmitIntent, SubmitDirect,
         SubmitUnknownSkill, SubmitRateLimited, SubmitGrant, SubmitExecute, SubmitInsert,
         SubmitFinalize, SubmitSnapshot, SubmitCommit, ApproveIntent, ApproveExecute,
         ApproveRefused, ApproveFinalize, ApproveCommit, ApproveRemove, ApproveSnapshot,
         DenyRemove, CancelTask, AbortBegin, AbortQuarantine, AbortDrop, EvictBegin, EvictNext,
         Tick, Crash, Restart, durable, queue, volatile, history, Snapshot, At,
         IInv, Safe, TypeOK, OpTypeOK
  <2>2. taskDisk[t] \in Terminal => taskDisk'[t] = taskDisk[t]
    BY <2>1 DEF IInv, Safe, TypeOK, OpTypeOK, TaskInv, Terminal
  <2>3. ASSUME taskMem[t] \in Terminal, op'.pc # "down"
        PROVE  taskMem'[t] = taskMem[t]
    <3>1. op.pc # "down"
      BY <2>3 DEF IInv, TaskInv, Terminal
    <3>2. t \in used
      BY <2>3 DEF IInv, FreshInv, Terminal
    <3>3. CASE taskMem' = taskMem
      BY <3>3
    <3>4. CASE \E u \in Tasks : SubmitRateLimited(u) \/ SubmitGrant(u) \/ SubmitExecute(u)
      BY <3>2, <3>4 DEF SubmitRateLimited, SubmitGrant, SubmitExecute, IInv, Safe, TypeOK
    <3>5. CASE SubmitFinalize \/ ApproveFinalize
      BY <2>3, <3>5 DEF SubmitFinalize, ApproveFinalize, Finalize, At, IInv, Safe, TypeOK,
                        TaskInv, Terminal
    <3>6. CASE ApproveExecute
      BY <2>3, <3>6 DEF ApproveExecute, CanTransition, IInv, Safe, TypeOK
    <3>7. CASE CancelTask
      BY <2>3, <3>7 DEF CancelTask, CanTransition, IInv, Safe, TypeOK
    <3>9. CASE Drop
      BY <2>3, <3>2, <3>9, DropMemory DEF CanTransition, IInv, Safe, TypeOK
    <3>8. \/ taskMem' = taskMem \/ SubmitFinalize \/ ApproveFinalize \/ ApproveExecute \/ CancelTask
          \/ Drop
          \/ \E u \in Tasks : SubmitRateLimited(u) \/ SubmitGrant(u) \/ SubmitExecute(u)
          \/ op.pc = "down" \/ op'.pc = "down"
      BY DEF Next, Submit, Approve, Withdraw, vars, SubmitIntent, SubmitDirect,
         SubmitUnknownSkill, SubmitInsert, SubmitSnapshot, SubmitCommit, ApproveIntent,
         ApproveRefused, ApproveCommit, ApproveRemove, ApproveSnapshot, DenyRemove, AbortBegin,
         AbortQuarantine, AbortDrop, EvictBegin, EvictNext, Tick, Crash, Restart, volatile,
         At, Down, Op
    <3> QED
      BY <2>3, <3>1, <3>3, <3>4, <3>5, <3>6, <3>7, <3>8, <3>9
  <2> QED
    BY <2>2, <2>3
<1> QED
  BY <1>1, AlwaysIInv, PTL DEF Spec, TerminalIsFinal

-----------------------------------------------------------------------------
(* The capacity of the pending store and the rate limiter *)

\* A store of pending records that does not grow stays within its capacity.
LEMMA CapacityShrinks == ASSUME CapacityInv, PendingSet' \subseteq PendingSet
                         PROVE  CapacityInv'
<1>1. IsFiniteSet(PendingSet') /\ Cardinality(PendingSet') <= Cardinality(PendingSet)
  BY FS_Subset DEF CapacityInv
<1>2. Cardinality(PendingSet) \in Nat /\ Cardinality(PendingSet') \in Nat
  BY <1>1, FS_CardinalityType DEF CapacityInv
<1> QED
  BY <1>1, <1>2, ConstAssumption DEF CapacityInv

\* Only an insertion lets the store grow, by one record, and below capacity.
LEMMA CapacityStep == ASSUME TypeOK, CapacityInv, [Next]_vars
                      PROVE  CapacityInv'
<1>1. CASE PendingSet' \subseteq PendingSet
  BY <1>1, CapacityShrinks
<1>2. ASSUME SubmitInsert, ~(Cardinality(PendingSet) >= Capacity)
      PROVE  CapacityInv'
  <2>1. PendingSet' \subseteq PendingSet \cup {op.task}
    BY <1>2 DEF SubmitInsert, PendingSet, IsPending, TypeOK
  <2>2. /\ IsFiniteSet(PendingSet \cup {op.task})
        /\ Cardinality(PendingSet \cup {op.task}) <= Cardinality(PendingSet) + 1
    <3>1. IsFiniteSet(PendingSet) /\ Cardinality(PendingSet) \in Nat
      BY FS_CardinalityType DEF CapacityInv
    <3>2. /\ IsFiniteSet(PendingSet \cup {op.task})
          /\ Cardinality(PendingSet \cup {op.task})
               = IF op.task \in PendingSet THEN Cardinality(PendingSet) ELSE Cardinality(PendingSet) + 1
      BY <3>1, FS_AddElement
    <3> QED
      BY <3>1, <3>2
  <2>3. IsFiniteSet(PendingSet') /\ Cardinality(PendingSet') <= Cardinality(PendingSet \cup {op.task})
    BY <2>1, <2>2, FS_Subset
  <2>4. /\ Cardinality(PendingSet) \in Nat /\ Cardinality(PendingSet') \in Nat
        /\ Cardinality(PendingSet \cup {op.task}) \in Nat
    BY <2>2, <2>3, FS_CardinalityType DEF CapacityInv
  <2> QED
    BY <1>2, <2>2, <2>3, <2>4, ConstAssumption DEF CapacityInv
<1>3. \/ PendingSet' \subseteq PendingSet
      \/ SubmitInsert /\ ~(Cardinality(PendingSet) >= Capacity)
  BY DropLeaves DEF Next, Submit, Approve, Withdraw, vars, Finalize, SubmitIntent, SubmitDirect,
         SubmitUnknownSkill, SubmitRateLimited, SubmitGrant, SubmitExecute, SubmitInsert,
         SubmitFinalize, SubmitSnapshot, SubmitCommit, ApproveIntent, ApproveExecute,
         ApproveRefused, ApproveFinalize, ApproveCommit, ApproveRemove, ApproveSnapshot,
         DenyRemove, CancelTask, AbortBegin, AbortQuarantine, AbortDrop, EvictBegin, EvictNext,
         Tick, Crash, Restart, durable, PendingSet, IsPending, TypeOK
<1> QED
  BY <1>1, <1>2, <1>3

\* The capacity bounds the records on disk, whatever appends fail and however
\* often the process restarts (PendingApprovalStore::insert).
THEOREM CapacityHolds == Spec => []WithinCapacity
<1>1. Init => CapacityInv
  <2> SUFFICES ASSUME Init PROVE CapacityInv
    OBVIOUS
  <2>1. PendingSet = {}
    BY DEF Init, PendingSet, IsPending
  <2> QED
    BY <2>1, FS_EmptySet, ConstAssumption DEF CapacityInv
<1>2. TypeOK /\ CapacityInv /\ [Next]_vars => CapacityInv'
  BY CapacityStep
<1>3. CapacityInv => WithinCapacity
  BY DEF CapacityInv, WithinCapacity
<1> QED
  BY <1>1, <1>2, <1>3, TypeCorrect, PTL DEF Spec

\* Grants counted from an instant on are those the limiter counts now, and the new one.
LEMMA RateStep == ASSUME TypeOK, RateInv, [Next]_vars
                  PROVE  RateInv'
<1> USE ConstAssumption DEF TypeOK
<1>1. ASSUME hits' = hits, grants' = grants, now' \in Nat, now' >= now
      PROVE  RateInv'
  <2>1. \A g \in grants : g.at \in Nat
    OBVIOUS
  <2>2. /\ \A g \in grants : g.at <= now'
        /\ \A g \in grants \ hits : g.at + Window < now'
    BY <1>1, <2>1 DEF RateInv
  <2> QED
    BY <1>1, <2>2 DEF RateInv
<1>2. ASSUME NEW t \in Tasks, SubmitRateLimited(t)
      PROVE  RateInv'
  BY <1>2 DEF SubmitRateLimited, InWindow, RateInv
<1>3. ASSUME NEW t \in Tasks, SubmitGrant(t)
      PROVE  RateInv'
  <2> DEFINE new == [task |-> t, at |-> now]
             W(from, S) == {g \in S : from <= g.at /\ g.at <= from + Window}
  <2>1. /\ hits' = InWindow \cup {new} /\ grants' = grants \cup {new} /\ now' = now
        /\ Cardinality(InWindow) < MaxPerWindow
    BY <1>3 DEF SubmitGrant, LimiterRecords
  <2>2. /\ IsFiniteSet(grants) /\ InWindow \subseteq grants /\ IsFiniteSet(InWindow)
        /\ Cardinality(InWindow) \in Nat
    BY FS_Subset, FS_CardinalityType DEF RateInv, InWindow
  <2>3. IsFiniteSet(grants') /\ hits' \subseteq grants'
    BY <2>1, <2>2, FS_AddElement
  <2>4. /\ \A g \in grants' : g.at <= now'
        /\ \A g \in grants' \ hits' : g.at + Window < now'
    BY <2>1 DEF RateInv, InWindow
  <2>5. ASSUME NEW from \in Nat
        PROVE  Cardinality(W(from, grants')) <= MaxPerWindow
    <3>1. CASE from <= now /\ now <= from + Window
      <4>1. W(from, grants') \subseteq InWindow \cup {new}
        BY <2>1, <3>1 DEF RateInv, InWindow
      <4>2. /\ IsFiniteSet(InWindow \cup {new})
            /\ Cardinality(InWindow \cup {new})
                 = IF new \in InWindow THEN Cardinality(InWindow) ELSE Cardinality(InWindow) + 1
        BY <2>2, FS_AddElement
      <4>3. /\ IsFiniteSet(W(from, grants'))
            /\ Cardinality(W(from, grants')) <= Cardinality(InWindow \cup {new})
        BY <4>1, <4>2, FS_Subset
      <4>4. Cardinality(W(from, grants')) \in Nat
        BY <4>3, FS_CardinalityType
      <4> QED
        BY <2>1, <2>2, <4>2, <4>3, <4>4
    <3>2. CASE ~(from <= now /\ now <= from + Window)
      <4>1. W(from, grants') = W(from, grants)
        BY <2>1, <3>2
      <4> QED
        BY <4>1 DEF RateInv
    <3> QED
      BY <3>1, <3>2
  <2> QED
    BY <2>3, <2>4, <2>5 DEF RateInv
<1>4. ASSUME hits' = {}, grants' = {}
      PROVE  RateInv'
  <2>1. \A from \in Nat : {g \in grants' : from <= g.at /\ g.at <= from + Window} = {}
    BY <1>4
  <2> QED
    BY <1>4, <2>1, FS_EmptySet DEF RateInv
<1>5. Tick => hits' = hits /\ grants' = grants /\ now' \in Nat /\ now' >= now
  BY DEF Tick, volatile, history
<1>6. Crash => hits' = {} /\ grants' = {}
  BY DEF Crash, Forget
<1>7. \/ hits' = hits /\ grants' = grants /\ now' = now
      \/ \E t \in Tasks : SubmitRateLimited(t) \/ SubmitGrant(t)
      \/ Tick \/ Crash
  BY DropLeaves DEF Next, Submit, Approve, Withdraw, vars, Finalize, SubmitIntent, SubmitDirect,
         SubmitUnknownSkill, SubmitExecute, SubmitInsert, SubmitFinalize, SubmitSnapshot,
         SubmitCommit, ApproveIntent, ApproveExecute, ApproveRefused, ApproveFinalize,
         ApproveCommit, ApproveRemove, ApproveSnapshot, DenyRemove, CancelTask, AbortBegin,
         AbortQuarantine, AbortDrop, EvictBegin, EvictNext, Restart, volatile, history
<1> QED
  BY <1>1, <1>2, <1>3, <1>4, <1>5, <1>6, <1>7

\* Within one process no window of the limiter's length holds more grants than
\* it allows, although the limiter drops what has left its own window
\* (DangerousToolRateLimiter::check_and_record).
THEOREM RateLimitHolds == Spec => []WithinRateLimit
<1>1. Init => RateInv
  <2> SUFFICES ASSUME Init PROVE RateInv
    OBVIOUS
  <2>1. hits = {} /\ grants = {}
    BY DEF Init
  <2>2. \A from \in Nat : {g \in grants : from <= g.at /\ g.at <= from + Window} = {}
    BY <2>1
  <2> QED
    BY <2>1, <2>2, FS_EmptySet, ConstAssumption DEF RateInv
<1>2. TypeOK /\ RateInv /\ [Next]_vars => RateInv'
  BY RateStep
<1>3. RateInv => WithinRateLimit
  BY ConstAssumption DEF RateInv, WithinRateLimit
<1> QED
  BY <1>1, <1>2, <1>3, TypeCorrect, PTL DEF Spec

-----------------------------------------------------------------------------
(* What can leave an approval without its task *)

\* A process that takes calls has the task of every approval it would list.
Queued == \A t \in Tasks : IsPending(t) /\ op.pc # "down" => taskMem[t] # "Absent"

\* The disk has it too, but for the submission that is about to write it.
Snapshotted ==
  \A t \in Tasks : IsPending(t) => taskDisk[t] # "Absent" \/ (op.pc = "snapshot" /\ op.task = t)

\* A record is inserted for the task that a submission has just made.
LEMMA InsertsOwnTask ==
  ASSUME TypeOK, [Next]_vars, NEW t \in Tasks, ~IsPending(t), IsPending(t)'
  PROVE  SubmitInsert /\ op.task = t
<1> USE DEF TypeOK, OpTypeOK, IsPending, durable
<1>1. ASSUME SubmitInsert PROVE op.task = t
  <2>1. pending' = pending \/ pending' = [pending EXCEPT ![op.task] = ledger[op.task].expires]
    BY <1>1 DEF SubmitInsert
  <2> QED BY <2>1
<1>2. ASSUME Submit, ~SubmitInsert PROVE FALSE
  BY <1>2 DEF Submit, SubmitIntent, SubmitDirect, SubmitUnknownSkill, SubmitRateLimited,
     SubmitGrant, SubmitExecute, SubmitFinalize, Finalize, SubmitSnapshot, SubmitCommit
<1>3. ASSUME Approve PROVE FALSE
  BY <1>3 DEF Approve, ApproveIntent, ApproveExecute, ApproveRefused, ApproveFinalize, Finalize,
     ApproveCommit, ApproveRemove, ApproveSnapshot
<1>4. ASSUME Withdraw PROVE FALSE
  BY <1>4 DEF Withdraw, DenyRemove, AbortBegin, EvictNext, CancelTask, AbortQuarantine, AbortDrop,
     EvictBegin
<1>5. ASSUME Drop \/ Tick \/ Crash \/ Restart \/ UNCHANGED vars PROVE FALSE
  BY <1>5, DropLeaves DEF Tick, Crash, Restart, vars
<1> QED BY <1>1, <1>2, <1>3, <1>4, <1>5 DEF Next

\* Only the death of the process empties the queue, only its start fills it
\* from the disk.
LEMMA TasksStay ==
  ASSUME TypeOK, [Next]_vars, ~Crash, ~Restart
  PROVE  \A t \in Tasks : taskMem[t] # "Absent" => taskMem'[t] # "Absent"
<1> USE DEF TypeOK, OpTypeOK, volatile
<1>1. CASE Submit
  BY <1>1 DEF Submit, SubmitIntent, SubmitDirect, SubmitUnknownSkill, SubmitRateLimited,
     SubmitGrant, SubmitExecute, SubmitInsert, SubmitFinalize, Finalize, SubmitSnapshot, SubmitCommit
<1>2. CASE Approve
  BY <1>2 DEF Approve, ApproveIntent, ApproveExecute, ApproveRefused, ApproveFinalize, Finalize,
     ApproveCommit, ApproveRemove, ApproveSnapshot
<1>3. CASE Withdraw
  BY <1>3 DEF Withdraw, DenyRemove, AbortBegin, EvictNext, CancelTask, AbortQuarantine, AbortDrop,
     EvictBegin
<1>4. CASE Tick \/ UNCHANGED vars
  BY <1>4 DEF Tick, vars
<1>5. CASE Drop
  BY <1>5, DropMemory
<1> QED BY <1>1, <1>2, <1>3, <1>4, <1>5 DEF Next

\* A snapshot, once written, says that there is a task.
LEMMA SnapshotsStay ==
  ASSUME IInv, [Next]_vars
  PROVE  \A t \in Tasks : taskDisk[t] # "Absent" => taskDisk'[t] # "Absent"
<1> USE DEF IInv, Safe, TypeOK, OpTypeOK, queue, durable
<1>1. op.pc \in {"snapshot", "settle"} => taskMem[op.task] # "Absent"
  BY DEF TaskInv
<1>2. ASSUME NEW t, NEW s, NEW w, Snapshot(t, s, w), s # "Absent"
      PROVE  \A u \in Tasks : taskDisk[u] # "Absent" => taskDisk'[u] # "Absent"
  BY <1>2 DEF Snapshot
<1>3. CASE SubmitSnapshot \/ ApproveSnapshot \/ CancelTask
  BY <1>1, <1>2, <1>3 DEF SubmitSnapshot, ApproveSnapshot, CancelTask, At
<1>5. CASE Drop
  BY <1>1, <1>5, DropRecords
<1>4. ASSUME ~(SubmitSnapshot \/ ApproveSnapshot \/ CancelTask \/ Drop) PROVE taskDisk' = taskDisk
  <2>1. CASE Submit
    BY <1>4, <2>1 DEF Submit, SubmitIntent, SubmitDirect, SubmitUnknownSkill, SubmitRateLimited,
       SubmitGrant, SubmitExecute, SubmitInsert, SubmitFinalize, Finalize, SubmitCommit
  <2>2. CASE Approve
    BY <1>4, <2>2 DEF Approve, ApproveIntent, ApproveExecute, ApproveRefused, ApproveFinalize,
       Finalize, ApproveCommit, ApproveRemove
  <2>3. CASE Withdraw
    BY <1>4, <2>3 DEF Withdraw, DenyRemove, AbortBegin, EvictNext, AbortQuarantine, AbortDrop,
       EvictBegin
  <2>4. CASE Tick \/ Crash \/ Restart \/ UNCHANGED vars
    BY <2>4 DEF Tick, Crash, Restart, vars
  <2> QED BY <1>4, <2>1, <2>2, <2>3, <2>4 DEF Next
<1> QED BY <1>3, <1>4, <1>5

\* Only a crash takes the process down.
LEMMA StaysUp ==
  ASSUME TypeOK, [Next]_vars, ~Crash, op.pc # "down" PROVE op'.pc # "down"
<1>1. OpTypeOK /\ op \in Calls
  BY DEF TypeOK, OpTypeOK
<1>2. ASSUME NEW p \in PCs \ {"down"}, NEW r \in Results, Goto(p) \/ GotoWith(p, r) \/ Return
      PROVE  op'.pc # "down"
  BY <1>1, <1>2, GotoFields, GotoWithFields DEF Return, Idle, Op
<1>3. CASE SubmitInsert \/ SubmitSnapshot
  BY <1>1, <1>3, InsertMoves, SnapshotMoves
<1>4. CASE SubmitFinalize \/ ApproveFinalize
  <2>1. PICK next \in PCs \ {"down"}, onError \in PCs \ {"down"} : Finalize(next, onError)
    BY <1>4 DEF SubmitFinalize, ApproveFinalize, PCs
  <2> QED BY <1>1, <2>1, FinalizeMoves
<1>5. CASE Submit /\ ~(SubmitInsert \/ SubmitSnapshot \/ SubmitFinalize)
  <2>1. CASE SubmitUnknownSkill \/ SubmitCommit \/ \E t \in Tasks : SubmitRateLimited(t)
    <3>1. GotoWith("commit", "error") \/ Return
      BY <2>1 DEF SubmitUnknownSkill, SubmitCommit, SubmitRateLimited
    <3> QED BY <1>2, <3>1 DEF PCs, Results
  <2>2. CASE \E t \in Tasks : SubmitGrant(t) \/ SubmitExecute(t)
    BY <1>1, <2>2 DEF SubmitGrant, SubmitExecute, Calls
  <2>3. CASE SubmitDirect \/ \E k \in Keys : SubmitIntent(k)
    BY <2>3 DEF SubmitDirect, SubmitIntent, Op
  <2> QED BY <1>5, <2>1, <2>2, <2>3 DEF Submit
<1>6. CASE ApproveExecute \/ ApproveRefused \/ ApproveCommit \/ ApproveRemove \/ ApproveSnapshot
  <2>1. \/ Goto("execApproved") \/ GotoWith("commitApproved", "error") \/ Goto("remove")
        \/ Goto("settle") \/ Return
    BY <1>6 DEF ApproveExecute, ApproveRefused, ApproveCommit, ApproveRemove, ApproveSnapshot
  <2> QED BY <1>2, <2>1 DEF PCs, Results
<1>7. CASE \E t \in Tasks : ApproveIntent(t)
  BY <1>7 DEF ApproveIntent, Op, At
<1>8. CASE Withdraw
  BY <1>1, <1>8 DEF Withdraw, DenyRemove, AbortBegin, EvictNext, CancelTask, AbortQuarantine,
     AbortDrop, EvictBegin, Goto, Return, Idle, Op, Calls
<1>9. CASE Drop \/ Tick \/ Restart \/ UNCHANGED vars
  BY <1>9, DropLeaves DEF Tick, Restart, vars, Idle, Op
<1> QED BY <1>3, <1>4, <1>5, <1>6, <1>7, <1>8, <1>9 DEF Next, Submit, Approve

\* Only a start brings it back.
LEMMA DownOnlyTicks ==
  ASSUME [Next]_vars, ~Restart, op.pc = "down" PROVE op'.pc = "down"
BY DropLeaves DEF Next, Submit, Approve, Withdraw, SubmitIntent, SubmitDirect, SubmitUnknownSkill,
   SubmitRateLimited, SubmitGrant, SubmitExecute, SubmitInsert, SubmitFinalize, SubmitSnapshot,
   SubmitCommit, ApproveIntent, ApproveExecute, ApproveRefused, ApproveFinalize, ApproveCommit,
   ApproveRemove, ApproveSnapshot, DenyRemove, AbortBegin, EvictNext, CancelTask, AbortQuarantine,
   AbortDrop, EvictBegin, Tick, Crash, At, vars

\* Within a process a record is never listed without its task.
LEMMA QueuedStep ==
  ASSUME IInv, Queued, [Next]_vars, ~Crash, ~Restart, op.pc # "down"
  PROVE  Queued'
<1> SUFFICES ASSUME NEW t \in Tasks, IsPending(t)' PROVE taskMem'[t] # "Absent"
  BY DEF Queued
<1>0. TypeOK /\ TaskInv
  BY DEF IInv, Safe
<1>1. CASE IsPending(t)
  BY <1>0, <1>1, TasksStay DEF Queued
<1>2. CASE ~IsPending(t)
  <2>1. SubmitInsert /\ op.task = t
    BY <1>0, <1>2, InsertsOwnTask
  <2>2. taskMem[t] # "Absent"
    BY <1>0, <2>1 DEF SubmitInsert, At, TaskInv
  <2> QED BY <1>0, <2>2, TasksStay
<1> QED BY <1>1, <1>2

\* A submission that writes its record goes on to write the snapshot, and
\* neither write leaves the task behind.
LEMMA SnapshottedStep ==
  ASSUME Faults = {}, IInv, Snapshotted, [Next]_vars, (Crash \/ Drop) => ~At("snapshot")
  PROVE  Snapshotted'
<1> SUFFICES ASSUME NEW t \in Tasks, IsPending(t)'
             PROVE  taskDisk'[t] # "Absent" \/ (op'.pc = "snapshot" /\ op'.task = t)
  BY DEF Snapshotted
<1>0. TypeOK /\ OpTypeOK /\ TaskInv
  BY DEF IInv, Safe, TypeOK
<1>1. CASE ~IsPending(t)
  <2>1. SubmitInsert /\ op.task = t
    BY <1>0, <1>1, InsertsOwnTask
  <2>2. pending' # pending
    BY <1>1 DEF IsPending
  <2>3. Goto("snapshot")
    BY <2>1, <2>2 DEF SubmitInsert, Writes
  <2> QED BY <1>0, <2>1, <2>3, GotoFields DEF OpTypeOK, PCs
<1>2. CASE IsPending(t) /\ taskDisk[t] # "Absent"
  BY <1>2, SnapshotsStay
<1>3. CASE op.pc = "snapshot" /\ op.task = t
  <2>1. CASE SubmitSnapshot
    <3>1. Snapshot(t, taskMem[t], "ok")
      BY <1>3, <2>1 DEF SubmitSnapshot, Writes
    <3>2. taskMem[t] # "Absent"
      BY <1>0, <1>3 DEF TaskInv
    <3> QED BY <1>0, <3>1, <3>2 DEF Snapshot, Landed, TypeOK
  <2>2. CASE UNCHANGED vars
    BY <1>3, <2>2 DEF vars
  <2> QED
    BY <1>3, <2>1, <2>2
    DEF Next, Submit, Approve, Withdraw, SubmitIntent, SubmitDirect, SubmitUnknownSkill,
        SubmitRateLimited, SubmitGrant, SubmitExecute, SubmitInsert, SubmitFinalize, SubmitCommit,
        ApproveIntent, ApproveExecute, ApproveRefused, ApproveFinalize, ApproveCommit,
        ApproveRemove, ApproveSnapshot, DenyRemove, AbortBegin, EvictNext, CancelTask,
        AbortQuarantine, AbortDrop, EvictBegin, Tick, Restart, At
<1> QED BY <1>1, <1>2, <1>3 DEF Snapshotted

\* An approval the operator can see has its task as long as the process lives,
\* whichever of its writes fail: an orphan is made by a restart.
THEOREM NoOrphanInOneProcess == Spec /\ [][~Crash]_vars => []PendingHasTask
<1> DEFINE Inv == IInv /\ Queued /\ op.pc # "down"
<1>1. Init => Inv
  BY InitTyped, InitSlots, InitApprovals, InitTasks
  DEF Init, IInv, Safe, Queued, Idle, Op, IsPending
<1>2. Inv /\ [Next]_vars /\ [~Crash]_vars => Inv'
  <2> SUFFICES ASSUME Inv, [Next]_vars, [~Crash]_vars PROVE Inv'
    OBVIOUS
  <2>1. IInv'
    BY StateTyped, SlotStep, FreshStep, ApprovalStep, TaskStep DEF IInv, AInv, Safe
  <2>2. CASE UNCHANGED vars
    BY <2>1, <2>2 DEF vars, Queued, IsPending
  <2>3. CASE ~Crash
    <3>1. ~Restart
      BY DEF Restart, At
    <3>2. op'.pc # "down"
      BY <2>3, <3>1, StaysUp DEF IInv, Safe, TypeOK
    <3> QED BY <2>1, <2>3, <3>1, <3>2, QueuedStep
  <2> QED BY <2>2, <2>3
<1>3. Inv => PendingHasTask
  BY DEF Queued, PendingHasTask, PendingSet, At
<1> QED BY <1>1, <1>2, <1>3, PTL DEF Spec

\* With no failed write an orphan is made by a submission that ends between the
\* record and the snapshot of its task (submit_task_as), be it by a crash or by
\* the caller giving it up: a process that dies elsewhere later only shows it.
THEOREM OrphanNeedsTheGap ==
  ASSUME Faults = {}
  PROVE  Spec /\ [][(Crash \/ Drop) => ~At("snapshot")]_vars => []PendingHasTask
<1> DEFINE Inv == IInv /\ Queued /\ Snapshotted
<1>1. Init => Inv
  BY InitTyped, InitSlots, InitApprovals, InitTasks
  DEF Init, IInv, Safe, Queued, Snapshotted, Idle, Op, IsPending
<1>2. Inv /\ [Next]_vars /\ [(Crash \/ Drop) => ~At("snapshot")]_vars => Inv'
  <2> SUFFICES ASSUME Inv, [Next]_vars, [(Crash \/ Drop) => ~At("snapshot")]_vars PROVE Inv'
    OBVIOUS
  <2>1. IInv'
    BY StateTyped, SlotStep, FreshStep, ApprovalStep, TaskStep DEF IInv, AInv, Safe
  <2>2. CASE UNCHANGED vars
    BY <2>1, <2>2 DEF vars, Queued, Snapshotted, IsPending
  <2>3. ASSUME (Crash \/ Drop) => ~At("snapshot") PROVE Queued' /\ Snapshotted'
    <3>1. Snapshotted'
      BY <2>3, SnapshottedStep
    <3>2. CASE Crash
      BY <3>1, <3>2 DEF Crash, Down, Op, Queued
    <3>3. CASE Restart
      BY <3>1, <3>3 DEF Restart, Queued, Snapshotted, At, IsPending, durable
    <3>4. CASE ~Crash /\ ~Restart
      <4>1. CASE op.pc # "down"
        BY <3>1, <3>4, <4>1, QueuedStep
      <4>2. CASE op.pc = "down"
        BY <3>1, <3>4, <4>2, DownOnlyTicks DEF Queued
      <4> QED BY <4>1, <4>2
    <3> QED BY <3>1, <3>2, <3>3, <3>4
  <2> QED BY <2>1, <2>2, <2>3
<1>3. Inv => PendingHasTask
  BY DEF Queued, PendingHasTask, PendingSet, At
<1> QED BY <1>1, <1>2, <1>3, PTL DEF Spec
=============================================================================
