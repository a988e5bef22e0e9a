--------------------------- MODULE ActionRuntime ---------------------------
(***************************************************************************)
(* familyclaw-actions: the ActionRuntime facade with its durable stores.   *)
(*                                                                         *)
(* One runtime sits behind a mutex, so one call runs at a time; what makes *)
(* it hard is that every call writes several files and the process may die *)
(* between any two writes.  A call is therefore split at its durable       *)
(* writes and at the executor call, `op' is the call in progress, Crash    *)
(* may happen in every state, and wherever a call awaits its caller may    *)
(* give it up (Drop).                                                      *)
(*                                                                         *)
(* Durable state: the dispatch outbox, the pending-approval store and the  *)
(* task queue's snapshots.  Volatile state: the pipeline's task queue, the *)
(* approval ledger and the rate limiter's hits.                            *)
(*                                                                         *)
(* A task, the action it performs and the approval granted for it are      *)
(* created together by one submission and are one-to-one, so one value of  *)
(* Tasks stands for all three; t is also the outbox key "approval-{t}".    *)
(***************************************************************************)
EXTENDS Naturals, FiniteSets

CONSTANTS
  Keys,          (* the callers' dispatch keys, e.g. "turn-3-dispatch-0"    *)
  Tasks,         (* task = action = approval identifiers                    *)
  None,          (* no key, no task                                         *)
  Capacity,      (* PendingCapacity                                         *)
  MaxPerWindow,  (* DangerousToolRateLimiter.max_per_window                 *)
  Window,        (* DangerousToolRateLimiter.window_secs                    *)
  Ttl,           (* lifetime of an approval                                 *)
  Faults,        (* how a durable write may fail: subset of lost, unsynced  *)
  TearsQueue,    (* TRUE: a crash or a failed write may tear a queue row    *)
  MaxTime        (* bound of the model: the clock stops here                *)

ASSUME ConstAssumption ==
  /\ Keys \cap Tasks = {}
  /\ None \notin Keys \cup Tasks
  /\ Capacity \in Nat /\ MaxPerWindow \in Nat
  /\ Window \in Nat /\ Ttl \in Nat /\ MaxTime \in Nat
  /\ None \notin Nat
  /\ Faults \subseteq {"lost", "unsynced"}
  /\ TearsQueue \in BOOLEAN

Slots == Keys \cup Tasks    \* every key the outbox may hold

VARIABLES
  outbox,    (* durable: dispatch_outbox.jsonl, replayed per key            *)
  pending,   (* durable: task -> expiry in pending_approvals.jsonl, or None *)
  taskDisk,  (* durable: task -> status of its last snapshot row            *)
  queueTorn, (* durable: action_tasks.jsonl holds a row that does not parse *)
  taskMem,   (* volatile: the pipeline's TaskQueue                          *)
  ledger,    (* volatile: ApprovalLedger                                    *)
  hits,      (* volatile: the rate limiter's records in the window          *)
  now,       (* the clock the callers inject                                *)
  op,        (* the call in progress                                        *)
  used,      (* identifiers handed out so far (they are never reused)       *)
  grants,    (* history: approvals this process granted, and when           *)
  fired,     (* history: executor invocations per outbox key                *)
  revoked    (* history: approvals durably denied, evicted or quarantined   *)

queue    == <<taskDisk, queueTorn>>
durable  == <<outbox, pending, queue>>
volatile == <<taskMem, ledger, hits>>
history  == <<used, grants, fired, revoked>>
vars == <<outbox, pending, taskDisk, queueTorn, taskMem, ledger, hits, now, op,
          used, grants, fired, revoked>>

Statuses == {"Absent", "Planned", "Ready", "Running", "NeedsApproval",
             "Blocked", "Suspended", "Done", "Failed", "Cancelled"}
Terminal == {"Done", "Failed", "Cancelled"}

\* Results an outbox row can carry: the status of a finished dispatch, or an
\* error (stored so that a replay returns the same error), or the quarantine.
Results == {"Done", "Failed", "NeedsApproval", "error", "quarantine"}

Free            == [phase |-> "free", result |-> "none", task |-> None]
Intent          == [phase |-> "intent", result |-> "none", task |-> None]
Committed(r, t) == [phase |-> "committed", result |-> r, task |-> t]

OutboxRows == {Free, Intent} \cup
              {Committed(r, t) : r \in Results, t \in Tasks \cup {None}}

\* Mutant of Lookup: an intent without a commit counts as never started.
Lookup_RetriesIntent(s) ==
  IF outbox[s].phase = "committed" THEN "Committed" ELSE "NotStarted"

\* DispatchOutboxStore::lookup
Lookup(s) == CASE outbox[s].phase = "committed" -> "Committed"
               [] outbox[s].phase = "intent"    -> "InProgress"
               [] OTHER                         -> "NotStarted"

PCs == {"down", "idle", "submit", "insert", "exec", "snapshot", "commit",
        "consume", "execApproved", "commitApproved", "remove", "settle",
        "cancel", "quarantine", "drop", "evict"}

\* slot: the outbox key the call works under (None for a keyless submission);
\* task: the task it is about; result: what it is going to commit;
\* todo: the expired approvals an eviction still has to tombstone.
Op(pc, s, t, r, todo) ==
  [pc |-> pc, slot |-> s, task |-> t, result |-> r, todo |-> todo]
Idle == Op("idle", None, None, "none", {})
Down == Op("down", None, None, "none", {})

At(pc)  == op.pc = pc
Goto(pc) == op' = [op EXCEPT !.pc = pc]
GotoWith(pc, r) == op' = [op EXCEPT !.pc = pc, !.result = r]
Return  == op' = Idle

\* An append to a durable file ends in one of three ways: it succeeds, it
\* fails and leaves nothing, or it fails (the fsync does) with the row in the
\* file.  A failed append is an error to the caller either way.
Writes    == {"ok"} \cup Faults
Landed(w) == w # "lost"

\* DurableTaskQueue::append of task t in state s.  The row is not synced, and a
\* write that fails may leave part of it in the file.
Snapshot(t, s, w) ==
  /\ taskDisk' = IF Landed(w) THEN [taskDisk EXCEPT ![t] = s] ELSE taskDisk
  /\ queueTorn' \in {queueTorn, queueTorn \/ (TearsQueue /\ ~Landed(w))}

\* Mutant of CanTransition: a finished task can still be cancelled.
CanTransition_CancelFinished(from, to) ==
  \/ to = "Cancelled" /\ from # "Absent"
  \/ from \in {"Planned", "Blocked", "Suspended"} /\ to = "Ready"
  \/ from \in {"Ready", "NeedsApproval"} /\ to = "Running"
  \/ from = "Running" /\ to \in {"Done", "Failed", "NeedsApproval"}

\* TaskStatus::can_transition_to
CanTransition(from, to) ==
  /\ from \notin Terminal \cup {"Absent"}
  /\ \/ to = "Cancelled"
     \/ from \in {"Planned", "Blocked", "Suspended"} /\ to = "Ready"
     \/ from \in {"Ready", "NeedsApproval"} /\ to = "Running"
     \/ from = "Running" /\ to \in {"Done", "Failed", "NeedsApproval",
                                    "Blocked", "Suspended"}

NotGranted == [state |-> "absent", expires |-> 0]
Granted(e) == [state |-> "granted", expires |-> e]

\* Approval::is_expired
Expired(e) == now > e

IsPending(t) == pending[t] # None
PendingSet   == {t \in Tasks : IsPending(t)}

Init ==
  /\ outbox = [s \in Slots |-> Free]
  /\ pending = [t \in Tasks |-> None]
  /\ taskDisk = [t \in Tasks |-> "Absent"]
  /\ queueTorn = FALSE
  /\ taskMem = [t \in Tasks |-> "Absent"]
  /\ ledger = [t \in Tasks |-> NotGranted]
  /\ hits = {}
  /\ now = 0
  /\ op = Idle
  /\ used = {}
  /\ grants = {}
  /\ fired = [s \in Slots |-> 0]
  /\ revoked = {}

-----------------------------------------------------------------------------
(* submit_task_idempotent and submit_task_as *)

\* lookup, then record_intent.  A committed or an in-progress key returns
\* without touching anything, and so does an intent append that fails, except
\* that its row may be in the file.
SubmitIntent(k) ==
  /\ At("idle")
  /\ Lookup(k) = "NotStarted"
  /\ \E w \in Writes :
       /\ Landed(w)
       /\ outbox' = [outbox EXCEPT ![k] = Intent]
       /\ IF w = "ok" THEN op' = Op("submit", k, None, "none", {})
                      ELSE UNCHANGED op
  /\ UNCHANGED <<pending, queue, volatile, now, history>>

\* submit_task, called without a key: no outbox row guards it.
SubmitDirect ==
  /\ At("idle")
  /\ op' = Op("submit", None, None, "none", {})
  /\ UNCHANGED <<durable, volatile, now, history>>

\* Mutant of InWindow: a record as old as the window is no longer counted.
InWindow_OffByOne == {h \in hits : h.at + Window > now}

\* The records the rate limiter still counts at time `now'.
InWindow == {h \in hits : h.at + Window >= now}

LimiterRecords(t) ==
  /\ hits' = InWindow \cup {[task |-> t, at |-> now]}
  /\ grants' = grants \cup {[task |-> t, at |-> now]}

\* No executor is registered for the skill: the error is the outcome.
SubmitUnknownSkill ==
  /\ At("submit")
  /\ GotoWith("commit", "error")
  /\ UNCHANGED <<durable, volatile, now, history>>

\* Whether the skill needs an approval is in its manifest, and which skill a key
\* is used for is the caller's choice.  Pipeline::run stops a risky task at
\* NeedsApproval; then the rate limiter is asked.  When it refuses, the task
\* stays where the pipeline left it.
SubmitRateLimited(t) ==
  /\ At("submit")
  /\ t \notin used
  /\ Cardinality(InWindow) >= MaxPerWindow
  /\ used' = used \cup {t}
  /\ taskMem' = [taskMem EXCEPT ![t] = "NeedsApproval"]
  /\ hits' = InWindow
  /\ GotoWith("commit", "error")
  /\ UNCHANGED <<durable, ledger, now, grants, fired, revoked>>

\* Mutant of SubmitGrant: the record that is about to be inserted does not say
\* which task it is for.
SubmitGrant_NoTask(t) ==
  /\ At("submit")
  /\ t \notin used
  /\ Cardinality(InWindow) < MaxPerWindow
  /\ used' = used \cup {t}
  /\ LimiterRecords(t)
  /\ op' = [op EXCEPT !.pc = "insert", !.result = "NeedsApproval"]
  /\ UNCHANGED <<durable, taskMem, ledger, now, fired, revoked>>

\* The limiter lets it through: the approval is granted and bound to the task.
SubmitGrant(t) ==
  /\ At("submit")
  /\ t \notin used
  /\ Cardinality(InWindow) < MaxPerWindow
  /\ used' = used \cup {t}
  /\ taskMem' = [taskMem EXCEPT ![t] = "NeedsApproval"]
  /\ LimiterRecords(t)
  /\ ledger' = [ledger EXCEPT ![t] = Granted(now + Ttl)]
  /\ op' = [op EXCEPT !.pc = "insert", !.task = t, !.result = "NeedsApproval"]
  /\ UNCHANGED <<durable, now, fired, revoked>>

\* Mutant of SubmitInsert: one record too many fits.
SubmitInsert_OffByOne ==
  /\ At("insert")
  /\ Cardinality(PendingSet) <= Capacity
  /\ pending' = [pending EXCEPT ![op.task] = ledger[op.task].expires]
  /\ Goto("snapshot")
  /\ UNCHANGED <<outbox, queue, volatile, now, history>>

\* pending.insert: refused at capacity, else one row.  On any error the grant
\* and the queued task are left behind.
SubmitInsert ==
  /\ At("insert")
  /\ IF Cardinality(PendingSet) >= Capacity
     THEN GotoWith("commit", "error") /\ UNCHANGED pending
     ELSE \E w \in Writes :
            /\ pending' = IF Landed(w)
                          THEN [pending EXCEPT ![op.task] = ledger[op.task].expires]
                          ELSE pending
            /\ IF w = "ok" THEN Goto("snapshot") ELSE GotoWith("commit", "error")
  /\ UNCHANGED <<outbox, queue, volatile, now, history>>

\* An auto-run task goes Planned, Ready, Running and its executor is called.
SubmitExecute(t) ==
  /\ At("submit")
  /\ t \notin used
  /\ used' = used \cup {t}
  /\ taskMem' = [taskMem EXCEPT ![t] = "Running"]
  /\ fired' = IF op.slot = None THEN fired ELSE [fired EXCEPT ![op.slot] = @ + 1]
  /\ op' = [op EXCEPT !.pc = "exec", !.task = t]
  /\ UNCHANGED <<durable, ledger, hits, now, grants, revoked>>

\* execute_and_finalize's tail: the executor answered with a status, or with
\* an error that leaves the task Running.
Finalize(next, onError) ==
  /\ \/ \E s \in {"Done", "Failed"} :
          /\ taskMem' = [taskMem EXCEPT ![op.task] = s]
          /\ GotoWith(next, s)
     \/ GotoWith(onError, "error") /\ UNCHANGED taskMem
  /\ UNCHANGED <<durable, ledger, hits, now, history>>

SubmitFinalize == At("exec") /\ Finalize("snapshot", "commit")

\* snapshot_task_if_durable on the submission path; its failure turns the
\* submission into an error although the approval or the effect is out.
SubmitSnapshot ==
  /\ At("snapshot")
  /\ \E w \in Writes :
       /\ Snapshot(op.task, taskMem[op.task], w)
       /\ IF w = "ok" THEN Goto("commit") ELSE GotoWith("commit", "error")
  /\ UNCHANGED <<outbox, pending, volatile, now, history>>

\* What record_committed stores: the error row carries the nil task.
OutcomeRow(r, t) == IF r = "error" THEN Committed(r, None) ELSE Committed(r, t)

SubmitCommit ==
  /\ At("commit")
  /\ \E w \in Writes :
       outbox' = IF op.slot # None /\ Landed(w)
                 THEN [outbox EXCEPT ![op.slot] = OutcomeRow(op.result, op.task)]
                 ELSE outbox
  /\ Return
  /\ UNCHANGED <<pending, queue, volatile, now, history>>

-----------------------------------------------------------------------------
(* approve *)

\* Mutants of ApproveIntent: the in-memory grant is enough, whatever the store
\* says; the outbox is not asked.
ApproveIntent_FromLedger(t) ==
  /\ At("idle")
  /\ ledger[t].state = "granted"
  /\ Lookup(t) = "NotStarted"
  /\ taskMem[t] # "Absent"
  /\ outbox' = [outbox EXCEPT ![t] = Intent]
  /\ op' = Op("consume", t, t, "none", {})
  /\ UNCHANGED <<pending, queue, volatile, now, history>>

ApproveIntent_NoLookup(t) ==
  /\ At("idle")
  /\ IsPending(t)
  /\ taskMem[t] # "Absent"
  /\ outbox' = [outbox EXCEPT ![t] = Intent]
  /\ op' = Op("consume", t, t, "none", {})
  /\ UNCHANGED <<pending, queue, volatile, now, history>>

\* The pending record, the outbox key and the task are looked up, in this
\* order; a missing record or task, a settled or an unsettled key, or a skill
\* that is no longer registered returns without touching anything.
ApproveIntent(t) ==
  /\ At("idle")
  /\ IsPending(t)
  /\ Lookup(t) = "NotStarted"
  /\ taskMem[t] # "Absent"
  /\ \E w \in Writes :
       /\ Landed(w)
       /\ outbox' = [outbox EXCEPT ![t] = Intent]
       /\ IF w = "ok" THEN op' = Op("consume", t, t, "none", {})
                      ELSE UNCHANGED op
  /\ UNCHANGED <<pending, queue, volatile, now, history>>

\* ApprovalLedger::consume: present, not expired, not consumed.
Consumable(t) == ledger[t].state = "granted" /\ ~Expired(ledger[t].expires)

\* run_after_approval: consume the approval, transition to Running, call the
\* executor.
ApproveExecute ==
  /\ At("consume")
  /\ Consumable(op.task)
  /\ CanTransition(taskMem[op.task], "Running")
  /\ ledger' = [ledger EXCEPT ![op.task].state = "consumed"]
  /\ taskMem' = [taskMem EXCEPT ![op.task] = "Running"]
  /\ fired' = [fired EXCEPT ![op.slot] = @ + 1]
  /\ Goto("execApproved")
  /\ UNCHANGED <<durable, hits, now, used, grants, revoked>>

\* The approval cannot be consumed, or it can but the task may not run (then
\* it is consumed all the same).
ApproveRefused ==
  /\ At("consume")
  /\ ~(Consumable(op.task) /\ CanTransition(taskMem[op.task], "Running"))
  /\ ledger' = IF Consumable(op.task)
               THEN [ledger EXCEPT ![op.task].state = "consumed"]
               ELSE ledger
  /\ GotoWith("commitApproved", "error")
  /\ UNCHANGED <<durable, taskMem, hits, now, history>>

ApproveFinalize ==
  At("execApproved") /\ Finalize("commitApproved", "commitApproved")

\* Mutant of ApproveCommit: a failed append does not stop the call.
ApproveCommit_IgnoresFailure ==
  /\ At("commitApproved")
  /\ \E w \in Writes :
       outbox' = IF Landed(w)
                 THEN [outbox EXCEPT ![op.slot] = OutcomeRow(op.result, op.task)]
                 ELSE outbox
  /\ IF op.result # "error" THEN Goto("remove") ELSE Return
  /\ UNCHANGED <<pending, queue, volatile, now, history>>

\* record_committed.  After an error outcome, or when the append fails, the
\* call returns here and the pending record stays.
ApproveCommit ==
  /\ At("commitApproved")
  /\ \E w \in Writes :
       /\ outbox' = IF Landed(w)
                    THEN [outbox EXCEPT ![op.slot] = OutcomeRow(op.result, op.task)]
                    ELSE outbox
       /\ IF w = "ok" /\ op.result # "error" THEN Goto("remove") ELSE Return
  /\ UNCHANGED <<pending, queue, volatile, now, history>>

ApproveRemove ==
  /\ At("remove")
  /\ \E w \in Writes :
       /\ pending' = IF Landed(w) THEN [pending EXCEPT ![op.task] = None] ELSE pending
       /\ IF w = "ok" THEN Goto("settle") ELSE Return
  /\ UNCHANGED <<outbox, queue, volatile, now, history>>

ApproveSnapshot ==
  /\ At("settle")
  /\ \E w \in Writes : Snapshot(op.task, taskMem[op.task], w)
  /\ Return
  /\ UNCHANGED <<outbox, pending, volatile, now, history>>

-----------------------------------------------------------------------------
(* deny_pending, abort_pending_after_continuation_failure, evict_expired *)

\* pending.get and pending.remove: the outbox is not asked.
DenyRemove(t) ==
  /\ At("idle")
  /\ IsPending(t)
  /\ \E w \in Writes :
       /\ Landed(w)
       /\ pending' = [pending EXCEPT ![t] = None]
       /\ IF w = "ok" THEN op' = Op("cancel", None, t, "none", {})
                      ELSE UNCHANGED op
  /\ revoked' = revoked \cup {t}
  /\ UNCHANGED <<outbox, queue, volatile, now, used, grants, fired>>

\* The tail of deny and abort: cancel the task and snapshot it, unless the
\* state machine refuses or the task is not there.
CancelTask ==
  /\ At("cancel")
  /\ IF CanTransition(taskMem[op.task], "Cancelled")
     THEN /\ taskMem' = [taskMem EXCEPT ![op.task] = "Cancelled"]
          /\ \E w \in Writes : Snapshot(op.task, "Cancelled", w)
     ELSE UNCHANGED <<taskMem, queue>>
  /\ Return
  /\ UNCHANGED <<outbox, pending, ledger, hits, now, history>>

\* Mutant of AbortBegin: the quarantine is written over whatever is there.
AbortBegin_Overwrites(t) ==
  /\ At("idle")
  /\ ledger[t].state # "absent"
  /\ op' = Op("quarantine", t, t, "quarantine", {})
  /\ UNCHANGED <<durable, volatile, now, history>>

\* The agent aborts an approval its own process was granted.  The quarantine
\* goes to the outbox first; a settled or an in-progress key is left alone.
AbortBegin(t) ==
  /\ At("idle")
  /\ ledger[t].state # "absent"
  /\ IF Lookup(t) = "NotStarted"
     THEN \E w \in Writes :
            /\ outbox' = IF Landed(w) THEN [outbox EXCEPT ![t] = Intent] ELSE outbox
            /\ revoked' = IF Landed(w) THEN revoked \cup {t} ELSE revoked
            /\ op' = Op(IF w = "ok" THEN "quarantine" ELSE "drop", t, t,
                        "quarantine", {})
     ELSE /\ op' = Op("drop", t, t, "none", {})
          /\ UNCHANGED <<outbox, revoked>>
  /\ UNCHANGED <<pending, queue, volatile, now, used, grants, fired>>

AbortQuarantine ==
  /\ At("quarantine")
  /\ \E w \in Writes :
       outbox' = IF Landed(w)
                 THEN [outbox EXCEPT ![op.slot] = Committed("quarantine", None)]
                 ELSE outbox
  /\ Goto("drop")
  /\ UNCHANGED <<pending, queue, volatile, now, history>>

\* Attempted whatever became of the quarantine.
AbortDrop ==
  /\ At("drop")
  /\ IF IsPending(op.task)
     THEN \E w \in Writes :
            /\ pending' = IF Landed(w) THEN [pending EXCEPT ![op.task] = None] ELSE pending
            /\ revoked' = IF Landed(w) THEN revoked \cup {op.task} ELSE revoked
            /\ IF w = "ok" THEN Goto("cancel") ELSE Return
     ELSE Return /\ UNCHANGED <<pending, revoked>>
  /\ UNCHANGED <<outbox, queue, volatile, now, used, grants, fired>>

\* The expired records are collected once, then tombstoned one row at a time
\* in the order of a hash map; the first append that fails ends the call.
EvictBegin ==
  /\ At("idle")
  /\ LET expired == {t \in PendingSet : Expired(pending[t])}
     IN /\ expired # {}
        /\ op' = Op("evict", None, None, "none", expired)
  /\ UNCHANGED <<durable, volatile, now, history>>

EvictNext(t) ==
  /\ At("evict")
  /\ t \in op.todo
  /\ \E w \in Writes :
       /\ pending' = IF Landed(w) THEN [pending EXCEPT ![t] = None] ELSE pending
       /\ revoked' = IF Landed(w) THEN revoked \cup {t} ELSE revoked
       /\ IF w = "ok" /\ op.todo # {t}
          THEN op' = [op EXCEPT !.todo = @ \ {t}]
          ELSE Return
  /\ UNCHANGED <<outbox, queue, volatile, now, used, grants, fired>>

-----------------------------------------------------------------------------
(* A call given up at an await: the watchdog's hard cap drops a turn's future, *)
(* a closed connection that of an operator's call.  What the call had done so  *)
(* far stays done, in this process as well as on disk.                         *)

\* Nothing was done since the last step: the executor's answer, a lock or the
\* file is still being waited for.
DropWaiting ==
  /\ op.pc \in {"submit", "exec", "snapshot", "consume", "execApproved", "settle", "cancel"}
  /\ Return
  /\ UNCHANGED <<durable, volatile, now, history>>

\* Pipeline::run: the task is queued already.
DropQueued(t) ==
  /\ At("submit")
  /\ t \notin used
  /\ used' = used \cup {t}
  /\ \E s \in {"Planned", "Ready", "Running"} : taskMem' = [taskMem EXCEPT ![t] = s]
  /\ Return
  /\ UNCHANGED <<durable, ledger, hits, now, grants, fired, revoked>>

\* run_after_approval: the approval is consumed already, and the task may be
\* Running, but the executor has not been called.
DropConsumed ==
  /\ At("consume")
  /\ Consumable(op.task)
  /\ ledger' = [ledger EXCEPT ![op.task].state = "consumed"]
  /\ \/ UNCHANGED taskMem
     \/ /\ CanTransition(taskMem[op.task], "Running")
        /\ taskMem' = [taskMem EXCEPT ![op.task] = "Running"]
  /\ Return
  /\ UNCHANGED <<durable, hits, now, history>>

\* DurableTaskQueue::append: the row is in the file already.
DropWritten ==
  /\ op.pc \in {"snapshot", "settle"}
  /\ taskDisk' = [taskDisk EXCEPT ![op.task] = taskMem[op.task]]
  /\ Return
  /\ UNCHANGED <<outbox, pending, queueTorn, volatile, now, history>>

\* The tail of deny and abort: the task is Cancelled already, with or without
\* its row.
DropCancelled ==
  /\ At("cancel")
  /\ CanTransition(taskMem[op.task], "Cancelled")
  /\ taskMem' = [taskMem EXCEPT ![op.task] = "Cancelled"]
  /\ taskDisk' \in {taskDisk, [taskDisk EXCEPT ![op.task] = "Cancelled"]}
  /\ Return
  /\ UNCHANGED <<outbox, pending, queueTorn, ledger, hits, now, history>>

Drop == \/ DropWaiting \/ DropConsumed \/ DropWritten \/ DropCancelled
        \/ \E t \in Tasks : DropQueued(t)

-----------------------------------------------------------------------------
(* the clock, the crash and with_durable_stores *)

\* Callers read the clock before they call; a call keeps that instant.
Tick ==
  /\ At("idle") \/ At("down")
  /\ now < MaxTime
  /\ now' = now + 1
  /\ UNCHANGED <<durable, volatile, op, history>>

\* What a process that starts again does not have.
Forget == /\ taskMem' = [t \in Tasks |-> "Absent"]
          /\ ledger' = [t \in Tasks |-> NotGranted]
          /\ hits' = {}
          /\ grants' = {}

\* Death during a snapshot may leave part of its row.
Crash ==
  /\ ~At("down")
  /\ op' = Down
  /\ Forget
  /\ queueTorn' \in {queueTorn, queueTorn \/ (TearsQueue /\ op.pc \in {"snapshot", "settle", "cancel"})}
  /\ UNCHANGED <<outbox, pending, taskDisk, now, used, fired, revoked>>

\* Mutant of Restart: reinstated approvals get a new lease.
Restart_FreshTtl ==
  /\ At("down")
  /\ ~queueTorn
  /\ taskMem' = taskDisk
  /\ ledger' = [t \in Tasks |-> IF IsPending(t) THEN Granted(now + Ttl) ELSE NotGranted]
  /\ op' = Idle
  /\ UNCHANGED <<durable, hits, now, history>>

\* reload refuses a file with a row that does not parse; otherwise the last
\* snapshots are the queue and the pending records are reinstated, not yet
\* consumed, in the ledger.
Restart ==
  /\ At("down")
  /\ ~queueTorn
  /\ taskMem' = taskDisk
  /\ ledger' = [t \in Tasks |-> IF IsPending(t) THEN Granted(pending[t]) ELSE NotGranted]
  /\ op' = Idle
  /\ UNCHANGED <<durable, hits, now, history>>

-----------------------------------------------------------------------------
Submit  == \/ \E k \in Keys : SubmitIntent(k)
           \/ SubmitDirect
           \/ SubmitUnknownSkill
           \/ \E t \in Tasks : SubmitRateLimited(t) \/ SubmitGrant(t) \/ SubmitExecute(t)
           \/ SubmitInsert \/ SubmitFinalize \/ SubmitSnapshot \/ SubmitCommit

Approve == \/ \E t \in Tasks : ApproveIntent(t)
           \/ ApproveExecute \/ ApproveRefused \/ ApproveFinalize
           \/ ApproveCommit \/ ApproveRemove \/ ApproveSnapshot

Withdraw == \/ \E t \in Tasks : DenyRemove(t) \/ AbortBegin(t) \/ EvictNext(t)
            \/ CancelTask \/ AbortQuarantine \/ AbortDrop \/ EvictBegin

Next == Submit \/ Approve \/ Withdraw \/ Drop \/ Tick \/ Crash \/ Restart

Spec == Init /\ [][Next]_vars
-----------------------------------------------------------------------------
(* Properties *)

Calls == [pc : PCs, slot : Slots \cup {None}, task : Tasks \cup {None},
          result : Results \cup {"none"}, todo : SUBSET Tasks]

OpTypeOK ==
  /\ op \in Calls
  /\ op.pc \in {"insert", "exec", "snapshot", "cancel"} => op.task \in Tasks
  /\ op.pc \in {"submit", "insert", "exec", "snapshot", "commit"}
       => op.slot \in Keys \cup {None}
  /\ op.pc \in {"consume", "execApproved", "commitApproved", "remove", "settle",
                "quarantine", "drop"} => op.task \in Tasks /\ op.slot = op.task
  /\ op.pc \in {"insert", "snapshot", "commit", "commitApproved", "remove"}
       => op.result \in Results

\* Every variable stays in its range; a call knows its slot and its task
\* whenever the code at its point uses them.
TypeOK ==
  /\ outbox \in [Slots -> OutboxRows]
  /\ pending \in [Tasks -> Nat \cup {None}]
  /\ taskDisk \in [Tasks -> Statuses]
  /\ queueTorn \in BOOLEAN
  /\ taskMem \in [Tasks -> Statuses]
  /\ ledger \in [Tasks -> [state : {"absent", "granted", "consumed"}, expires : Nat]]
  /\ hits \subseteq [task : Tasks, at : Nat]
  /\ grants \subseteq [task : Tasks, at : Nat]
  /\ now \in Nat
  /\ used \subseteq Tasks
  /\ fired \in [Slots -> Nat]
  /\ revoked \subseteq Tasks
  /\ OpTypeOK

\* The external effect behind a dispatch key or an approval goes out at most
\* once, over any number of retries, crashes and restarts
\* (submit_task_idempotent, approve: intent -> effect -> committed).
AtMostOnceDispatch == \A s \in Slots : fired[s] <= 1

\* What the outbox remembers is what happened: a key without a row has not
\* fired, a completed one has fired exactly once, and a submission stored as
\* awaiting approval or a quarantined approval has not fired.
OutboxTellsTheTruth ==
  \A s \in Slots :
    /\ outbox[s].phase = "free" => fired[s] = 0
    /\ outbox[s].phase = "committed" =>
         /\ outbox[s].result \in {"Done", "Failed"} => fired[s] = 1
         /\ outbox[s].result \in {"NeedsApproval", "quarantine"} => fired[s] = 0

\* Once an approval has been denied, evicted or quarantined on disk its action
\* is never executed, in this process or after a restart.
RevokedNeverFires ==
  [][\A t \in revoked : fired'[t] = fired[t]]_vars

\* An approved action runs while its durable pending record exists and has not
\* expired: the ledger that is asked and the record on disk are two copies.
FiresWhilePendingOnDisk ==
  [][\A t \in Tasks : fired'[t] # fired[t] =>
       /\ IsPending(t) /\ ~Expired(pending[t])
       /\ t \notin revoked]_vars

\* A finished status in the durable queue agrees with the outbox: an approved
\* task is never recorded Done or Failed before its commit is durable, nor with
\* another outcome.
QueueAgreesWithOutbox ==
  \A t \in Tasks :
    (taskDisk[t] \in {"Done", "Failed"} /\ outbox[t].phase # "free")
      => outbox[t] = Committed(taskDisk[t], t)

\* A finished task is final: no later call reopens or reclassifies it, in the
\* queue of this process or in the snapshots a restart reads.
TerminalIsFinal ==
  [][\A t \in Tasks :
       /\ taskDisk[t] \in Terminal => taskDisk'[t] = taskDisk[t]
       /\ taskMem[t] \in Terminal /\ op'.pc # "down" => taskMem'[t] = taskMem[t]]_vars

\* The capacity bounds what is on disk, across restarts and failed removals.
WithinCapacity == Cardinality(PendingSet) <= Capacity

\* Within one process no window, wherever it starts, holds more grants than
\* the limiter allows, although the limiter forgets what has left its window.
WithinRateLimit ==
  \A from \in 0..MaxTime :
    Cardinality({g \in grants : from <= g.at /\ g.at <= from + Window}) <= MaxPerWindow

\* An approval the operator can see can be approved: its task is in the queue
\* whenever the runtime takes calls.
PendingHasTask ==
  At("idle") => \A t \in PendingSet : taskMem[t] # "Absent"

\* The abstract specification this runtime implements: quarantine and commit
\* are answers, an intent alone is not.
Outcome(s) == IF outbox[s].phase = "committed"
              THEN <<outbox[s].result, outbox[s].task>> ELSE <<>>

AMO == INSTANCE AtMostOnce
         WITH Answers <- Results \X (Tasks \cup {None}), NoAnswer <- <<>>,
              fired <- fired, answer <- [s \in Slots |-> Outcome(s)]

ImplementsAtMostOnce == AMO!Spec

\* A runtime that went down comes back: with_durable_stores reads its own files.
RestartSpec == Spec /\ WF_vars(Restart)
RestartSucceeds == At("down") ~> At("idle")

=============================================================================
