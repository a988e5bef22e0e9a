----------------------------- MODULE AgentTurns -----------------------------
(***************************************************************************)
(* familyclaw-agent: the turns of several agents ("beings") that share one *)
(* ActionRuntime, one durable journal and one bus, as the runtime wires    *)
(* them on its persistent path; the operator's approve and deny arrive     *)
(* from the gateway.                                                       *)
(*                                                                         *)
(* A being handles one bus message at a time; what makes it hard is that a *)
(* turn awaits the model, the executor and the runtime's lock, that the    *)
(* watchdog may drop it at any of them, that the process may die between   *)
(* any two steps, and that the operator and the other beings go on         *)
(* meanwhile.  `act[a]' says where being a is; Crash may happen anywhere.  *)
(*                                                                         *)
(* What ActionRuntime models in detail is one write here: its files are    *)
(* maps, and only the write failures named in Faults are kept.  A tool     *)
(* call and the approval it may need are one value of Calls.  An episode   *)
(* is one run of the tool loop: turn number n, or the continuation of the  *)
(* suspended call c; its k-th dispatch has the outbox key <<n or c, k>>.   *)
(***************************************************************************)
EXTENDS Naturals, Sequences

CONSTANTS
  Beings,      (* the agents on the bus                                     *)
  Durable,     (* those whose resumable store is a journal (the primary)    *)
  Calls,       (* tool calls, which are also approval identifiers           *)
  Risky,       (* the calls whose skill needs a human approval              *)
  None,        (* no call, no being, no message                             *)
  MaxCalls,    (* calls of one episode: rounds and per-tool budgets         *)
  MaxTurn,     (* bound of the model: the last turn number                  *)
  MaxInbox,    (* bound of the model: messages waiting for a being          *)
  MaxMessages, (* bound of the model: what users say, in all                *)
  Watchdog,    (* TRUE: a turn may reach the watchdog's hard cap            *)
  Faults       (* writes that may fail: outbox, put, pending, resumable, row *)

ASSUME TurnAssumption ==
  /\ Durable \subseteq Beings /\ Risky \subseteq Calls
  /\ MaxCalls \in Nat /\ MaxTurn \in Nat /\ MaxInbox \in Nat
  /\ MaxMessages \in Nat
  /\ None \notin Calls \cup Beings \cup Nat
  /\ Calls \cap Nat = {}
  /\ Watchdog \in BOOLEAN
  /\ Faults \subseteq {"outbox", "put", "pending", "resumable", "row"}

Messages == 1..MaxMessages
Numbers  == 0..MaxTurn
Episodes == Numbers \cup Calls
Keys     == Episodes \X {k \in 0..MaxCalls : k < MaxCalls}
Slots    == Keys \cup Calls          \* a call's own slot is "approval-{c}"

Issue    == [by : Beings, key : Keys, answer : Calls \cup {None}]

ASSUME SlotAssumption == Keys \cap Calls = {} /\ None \notin Issue

VARIABLES
  outbox,    (* durable: per slot, the last row and the call it is about    *)
  pending,   (* durable: approvals that wait for the operator               *)
  expired,   (* those of them whose lifetime is over                        *)
  resum,     (* per being: the calls with a ResumableTurn in its store      *)
  rows,      (* durable: one more than the highest turn row in the journal  *)
  memory,    (* per being: what MemoryStore holds under each turn_key       *)
  lock,      (* who holds the Mutex<ActionRuntime> over an await            *)
  inbox,     (* per being: the mailbox of its actor                         *)
  turn,      (* per being: turn_counter                                     *)
  act,       (* per being: what it is doing                                 *)
  said,      (* the number of the last message a user said                  *)
  fired,     (* history: executor invocations per slot                      *)
  issued,    (* history: per call, who made it, where, and whose answer it got *)
  told,      (* history: <<a, c>>: a finished asking for the approval c, and *)
             (* did not ask again and have that undone                       *)
  continued, (* history: how often a continued its turn after approval c    *)
  accepted,  (* history: approvals asked for that the gateway then answered  *)
             (* 200 to, in this process                                      *)
  denied,    (* history: approvals the operator denied                      *)
  cut        (* history: <<a, n>>: turn n of a ended without being counted  *)

stores  == <<outbox, pending, expired, resum, rows, memory>>
history == <<said, fired, issued, told, continued, accepted, denied, cut>>
vars == <<outbox, pending, expired, resum, rows, memory, lock, inbox, turn, act,
          said, fired, issued, told, continued, accepted, denied, cut>>

Row(p, c) == [phase |-> p, call |-> c]
Free == Row("free", None)

\* "fed": executed, or an error, and either way text for the model;
\* "ask": awaiting approval; "done", "error", "quarantine": approval slots.
Final  == {"fed", "ask", "done", "error", "quarantine"}
Phases == Final \cup {"free", "intent"}

Item(kind, body) == [kind |-> kind, body |-> body]
Chats   == [kind : {"chat"}, body : Messages]
Signals == [kind : {"resume"}, body : Calls]      \* BusMessage::ResumeApproval
Orders  == [kind : {"approve"}, body : Calls]     \* the operator's APPROVE in a chat
Items   == Chats \cup Signals \cup Orders

PCs == {"idle", "remember", "think", "submit", "run", "commit", "persist", "suspend",
        "resume", "approve", "approveRun", "approveCommit", "approveRemove", "inject", "answer"}

\* turning: handle_turn is on the stack (a signal's continuation has no turn);
\* item: the message; src, k: episode and dispatch index; call: the call in hand.
Act(pc, turning, item, src, k, call) ==
  [pc |-> pc, turning |-> turning, item |-> item, src |-> src, k |-> k, call |-> call]
Idle == Act("idle", FALSE, None, None, 0, None)

At(a, pc)   == act[a].pc = pc
Goto(a, pc) == act' = [act EXCEPT ![a].pc = pc]

\* The loop or the continuation is over: a turn still has its reply to send
\* (a fallback text after an error), a signal has nobody to answer.
Leave(a) == act' = [act EXCEPT ![a] = IF @.turning THEN [@ EXCEPT !.pc = "answer"] ELSE Idle]

\* Mutant of FeedBack: the dispatch index is reset with every round.
FeedBack_ResetsIndex(a) == act' = [act EXCEPT ![a].pc = "think", ![a].k = 0]

\* The result goes to the model, which is asked again; the dispatch index runs
\* on over all rounds.
FeedBack(a) == act' = [act EXCEPT ![a].pc = "think", ![a].k = @ + 1]

Key(a)  == <<act[a].src, act[a].k>>
Unlocked == lock = None

Init ==
  /\ outbox = [s \in Slots |-> Free]
  /\ pending = {} /\ expired = {}
  /\ resum = [a \in Beings |-> {}]
  /\ rows = 0
  /\ memory = [a \in Beings |-> [n \in Numbers |-> None]]
  /\ lock = None
  /\ inbox = [a \in Beings |-> <<>>]
  /\ turn = [a \in Beings |-> 0]
  /\ act = [a \in Beings |-> Idle]
  /\ said = 0
  /\ fired = [s \in Slots |-> 0]
  /\ issued = [c \in Calls |-> None]
  /\ told = {} /\ accepted = {} /\ denied = {} /\ cut = {}
  /\ continued = [a \in Beings |-> [c \in Calls |-> 0]]

-----------------------------------------------------------------------------
(* The bus, the gateway and the clock. *)

\* ResonanceBus broadcasts: every being gets every message.
Broadcast(i) ==
  /\ \A a \in Beings : Len(inbox[a]) < MaxInbox
  /\ inbox' = [a \in Beings |-> Append(inbox[a], i)]

\* A channel's message, pumped to the bus.
Say ==
  /\ said < MaxMessages
  /\ said' = said + 1
  /\ Broadcast(Item("chat", said + 1))
  /\ UNCHANGED <<stores, lock, turn, act, fired, issued, told, continued, accepted, denied, cut>>

\* The operator types APPROVE c in a chat.
Order(c) ==
  /\ c \in pending
  /\ Broadcast(Item("approve", c))
  /\ UNCHANGED <<stores, lock, turn, act, history>>

\* POST approve: a read-only look at the pending store (404, 410), then the
\* signal to everybody; 200 before anything has run.
ApprovePending(c) ==
  /\ Unlocked
  /\ c \in pending \ expired
  /\ Broadcast(Item("resume", c))
  /\ accepted' = IF \E a \in Durable : <<a, c>> \in told THEN accepted \cup {c} ELSE accepted
  /\ UNCHANGED <<stores, lock, turn, act, said, fired, issued, told, continued, denied, cut>>

\* POST deny: deny_pending under the lock.  The suspended turn's record stays
\* in its store.
DenyPending(c) ==
  /\ Unlocked
  /\ c \in pending
  /\ pending' = pending \ {c}
  /\ denied' = denied \cup {c}
  /\ UNCHANGED <<outbox, expired, resum, rows, memory, lock, inbox, turn, act, said, fired,
                 issued, told, continued, accepted, cut>>

Expire(c) ==
  /\ c \in pending \ expired
  /\ expired' = expired \cup {c}
  /\ UNCHANGED <<outbox, pending, resum, rows, memory, lock, inbox, turn, act, history>>

-----------------------------------------------------------------------------
(* handle_turn_with_origin: the turn row, the memory, then the tool loop. *)

\* The actor takes a message and the turn's row is appended.  The journal is
\* shared, the counter is the being's own.
BeginTurn(a) ==
  /\ At(a, "idle")
  /\ inbox[a] # <<>> /\ Head(inbox[a]).kind \in {"chat", "approve"}
  /\ turn[a] \in Numbers
  /\ inbox' = [inbox EXCEPT ![a] = Tail(@)]
  /\ rows' = IF rows <= turn[a] THEN turn[a] + 1 ELSE rows
  /\ act' = [act EXCEPT ![a] = Act("remember", TRUE, Head(inbox[a]), turn[a], 0, None)]
  /\ UNCHANGED <<outbox, pending, expired, resum, memory, lock, turn, history>>

\* The row cannot be written: the turn is an error before it has begun.
BeginTurnFails(a) ==
  /\ "row" \in Faults
  /\ At(a, "idle")
  /\ inbox[a] # <<>> /\ Head(inbox[a]).kind \in {"chat", "approve"}
  /\ inbox' = [inbox EXCEPT ![a] = Tail(@)]
  /\ UNCHANGED <<stores, lock, turn, act, history>>

\* MemoryStore::add drops a memory whose turn_key it has seen.  An APPROVE goes
\* on as a resumption, anything else to the model.
Remember(a) ==
  /\ At(a, "remember")
  /\ memory' = IF memory[a][act[a].src] = None
               THEN [memory EXCEPT ![a][act[a].src] = act[a].item.body] ELSE memory
  /\ act' = [act EXCEPT ![a] =
       IF @.item.kind = "approve" THEN [@ EXCEPT !.pc = "resume", !.call = act[a].item.body]
                                  ELSE [@ EXCEPT !.pc = "think"]]
  /\ UNCHANGED <<outbox, pending, expired, resum, rows, lock, inbox, turn, history>>

\* The memory cannot be written: the turn is an error and is not counted.
RememberFails(a) ==
  /\ At(a, "remember")
  /\ act' = [act EXCEPT ![a] = Idle]
  /\ cut' = cut \cup {<<a, turn[a]>>}
  /\ UNCHANGED <<stores, lock, inbox, turn, said, fired, issued, told, continued, accepted, denied>>

\* The model asks for a tool: a fresh call, if the budgets allow it.
ThinkCall(a, c) ==
  /\ At(a, "think")
  /\ issued[c] = None
  /\ act[a].k < MaxCalls
  /\ issued' = [issued EXCEPT ![c] = [by |-> a, key |-> Key(a), answer |-> None]]
  /\ act' = [act EXCEPT ![a] = [@ EXCEPT !.pc = "submit", !.call = c]]
  /\ UNCHANGED <<stores, lock, inbox, turn, said, fired, told, continued, accepted, denied, cut>>

\* The model answers, fails, or the rounds are used up.
ThinkAnswer(a) ==
  /\ At(a, "think")
  /\ Leave(a)
  /\ UNCHANGED <<stores, lock, inbox, turn, history>>

\* submit_task_idempotent, key unknown: the intent, under the runtime's lock.
SubmitFresh(a) ==
  /\ At(a, "submit") /\ Unlocked
  /\ outbox[Key(a)].phase = "free"
  /\ outbox' = [outbox EXCEPT ![Key(a)] = Row("intent", None)]
  /\ lock' = a
  /\ Goto(a, "run")
  /\ UNCHANGED <<pending, expired, resum, rows, memory, inbox, turn, history>>

\* What a dispatch with outcome r means to the loop.
Dispatched(a, r) ==
  IF r.phase = "ask"
  THEN act' = [act EXCEPT ![a] = [@ EXCEPT !.pc = "persist", !.call = r.call]]
  ELSE FeedBack(a)

\* Mutant of SubmitKnown: a call waits for the intent it finds to be committed.
SubmitKnown_Waits(a) ==
  /\ At(a, "submit") /\ Unlocked
  /\ outbox[Key(a)].phase \notin {"free", "intent"}
  /\ issued' = [issued EXCEPT ![act[a].call].answer = outbox[Key(a)].call]
  /\ Dispatched(a, outbox[Key(a)])
  /\ UNCHANGED <<stores, lock, inbox, turn, said, fired, told, continued, accepted, denied, cut>>

\* The key has an outcome already, or an intent: the stored outcome, or an
\* error, is this call's answer too.
SubmitKnown(a) ==
  /\ At(a, "submit") /\ Unlocked
  /\ outbox[Key(a)].phase # "free"
  /\ issued' = [issued EXCEPT ![act[a].call].answer = outbox[Key(a)].call]
  /\ Dispatched(a, outbox[Key(a)])
  /\ UNCHANGED <<stores, lock, inbox, turn, said, fired, told, continued, accepted, denied, cut>>

\* Auto-run: the executor.  Risky: the approval is granted and pending, or is
\* refused because the being asks too often or too many approvals wait.
Run(a) ==
  /\ At(a, "run")
  /\ IF act[a].call \in Risky
     THEN pending' \in {pending, pending \cup {act[a].call}} /\ UNCHANGED fired
     ELSE fired' = [fired EXCEPT ![Key(a)] = @ + 1] /\ UNCHANGED pending
  /\ Goto(a, "commit")
  /\ UNCHANGED <<outbox, expired, resum, rows, memory, lock, inbox, turn, said, issued, told,
                 continued, accepted, denied, cut>>

\* The outcome is committed, the refusal as an error, the lock released and the
\* dispatch row journaled: if that fails the turn gives up, and an approval it
\* was granted stays pending.
Commit(a) ==
  /\ At(a, "commit")
  /\ LET c == act[a].call
         r == Row(IF c \in pending THEN "ask" ELSE "fed", c)
     IN /\ outbox' = [outbox EXCEPT ![Key(a)] = r]
        /\ issued' = [issued EXCEPT ![c].answer = c]
        /\ Dispatched(a, r) \/ ("row" \in Faults /\ act[a].src \in Numbers /\ Leave(a))
  /\ lock' = None
  /\ UNCHANGED <<pending, expired, resum, rows, memory, inbox, turn, said, fired, told, continued,
                 accepted, denied, cut>>

\* abort_pending_after_continuation_failure and resumable.remove: each write is
\* attempted, whatever became of the ones before it.
Rollback(a, c) ==
  /\ outbox' \in
       IF outbox[c].phase # "free" THEN {outbox}
       ELSE {[outbox EXCEPT ![c] = Row("quarantine", c)]} \cup
            (IF "outbox" \in Faults THEN {outbox, [outbox EXCEPT ![c] = Row("intent", None)]} ELSE {})
  /\ pending' \in {pending \ {c}} \cup (IF "pending" \in Faults THEN {pending} ELSE {})
  /\ resum' \in {[resum EXCEPT ![a] = @ \ {c}]}
               \cup (IF "resumable" \in Faults THEN {resum} ELSE {})

\* Mutant of PersistRefused: a failed write is not rolled back.
PersistRefused_NoRollback(a) ==
  /\ At(a, "persist") /\ Unlocked
  /\ act[a].call \notin pending \/ "put" \in Faults
  /\ Goto(a, "suspend")
  /\ UNCHANGED <<stores, lock, inbox, turn, history>>

\* persist_resumable_or_abort_pending, under the runtime's lock.  A turn that
\* finds its record in the store does not write it again.
Persist(a) ==
  /\ At(a, "persist")
  /\ \/ act[a].turning /\ act[a].src \in Numbers /\ act[a].call \in resum[a]
     \/ Unlocked /\ act[a].call \in pending
  /\ resum' = [resum EXCEPT ![a] = @ \cup {act[a].call}]
  /\ Goto(a, "suspend")
  /\ UNCHANGED <<outbox, pending, expired, rows, memory, lock, inbox, turn, history>>

\* The approval is gone, or the record cannot be written: both are undone, and
\* if the being had asked for it before, that is void.
PersistRefused(a) ==
  /\ At(a, "persist") /\ Unlocked
  /\ ~(act[a].turning /\ act[a].src \in Numbers /\ act[a].call \in resum[a])
  /\ act[a].call \notin pending \/ "put" \in Faults
  /\ Rollback(a, act[a].call)
  /\ Leave(a)
  /\ told' = told \ {<<a, act[a].call>>}
  /\ UNCHANGED <<expired, rows, memory, lock, inbox, turn, said, fired, issued, continued,
                 accepted, denied, cut>>

\* The user, or the operator's list, has the approval.  A turn that suspends is
\* over and counted; the reply it sends is the request.
Suspend(a) ==
  /\ At(a, "suspend")
  /\ told' = told \cup {<<a, act[a].call>>}
  /\ IF act[a].turning /\ act[a].src \in Numbers
     THEN act' = [act EXCEPT ![a] = Idle] /\ turn' = [turn EXCEPT ![a] = @ + 1]
     ELSE Leave(a) /\ UNCHANGED turn
  /\ UNCHANGED <<stores, lock, inbox, said, fired, issued, continued, accepted, denied, cut>>

\* The turn's "-think" row cannot be written: a fallback reply instead.
SuspendFails(a) ==
  /\ At(a, "suspend")
  /\ "row" \in Faults /\ act[a].src \in Numbers
  /\ Leave(a)
  /\ UNCHANGED <<stores, lock, inbox, turn, history>>

\* Mutant of Answer: a turn that replied is counted twice.
Answer_CountsTwice(a) ==
  /\ At(a, "answer")
  /\ turn' = [turn EXCEPT ![a] = @ + 2]
  /\ act' = [act EXCEPT ![a] = Idle]
  /\ UNCHANGED <<stores, lock, inbox, history>>

\* The reply is sent and the turn counted.
Answer(a) ==
  /\ At(a, "answer")
  /\ turn' = [turn EXCEPT ![a] = @ + 1]
  /\ act' = [act EXCEPT ![a] = Idle]
  /\ UNCHANGED <<stores, lock, inbox, history>>

-----------------------------------------------------------------------------
(* handle_resume_signal, resume_approved and ActionRuntime::approve. *)

ReceiveSignal(a) ==
  /\ At(a, "idle")
  /\ inbox[a] # <<>> /\ Head(inbox[a]).kind = "resume"
  /\ inbox' = [inbox EXCEPT ![a] = Tail(@)]
  /\ act' = [act EXCEPT ![a] =
               Act("resume", FALSE, Head(inbox[a]), None, 0, Head(inbox[a]).body)]
  /\ UNCHANGED <<stores, lock, turn, history>>

\* Mutant of Resume: the record is taken out before the approval is consumed.
Resume_TakesRecord(a) ==
  /\ At(a, "resume")
  /\ IF act[a].call \in resum[a] \ expired THEN Goto(a, "approve") ELSE Leave(a)
  /\ resum' = [resum EXCEPT ![a] = @ \ {act[a].call}]
  /\ UNCHANGED <<outbox, pending, expired, rows, memory, lock, inbox, turn, history>>

\* Only the owner has the record; an expired one is refused.  No side effect.
Resume(a) ==
  /\ At(a, "resume")
  /\ IF act[a].call \in resum[a] \ expired THEN Goto(a, "approve") ELSE Leave(a)
  /\ UNCHANGED <<stores, lock, inbox, turn, history>>

\* Mutant of ApproveIntent: it trusts the suspended turn's record and does not
\* ask the pending store.
ApproveIntent_TrustsRecord(a) ==
  /\ At(a, "approve") /\ Unlocked
  /\ outbox[act[a].call].phase = "free"
  /\ outbox' = [outbox EXCEPT ![act[a].call] = Row("intent", None)]
  /\ lock' = a
  /\ Goto(a, "approveRun")
  /\ UNCHANGED <<pending, expired, resum, rows, memory, inbox, turn, history>>

\* Mutant of ApproveIntent: an intent without a commit is tried again.
ApproveIntent_RetriesIntent(a) ==
  /\ At(a, "approve") /\ Unlocked
  /\ act[a].call \in pending
  /\ outbox[act[a].call].phase \in {"free", "intent"}
  /\ outbox' = [outbox EXCEPT ![act[a].call] = Row("intent", None)]
  /\ lock' = a
  /\ Goto(a, "approveRun")
  /\ UNCHANGED <<pending, expired, resum, rows, memory, inbox, turn, history>>

\* The approval is pending and its key unknown: the intent, under the lock.
ApproveIntent(a) ==
  /\ At(a, "approve") /\ Unlocked
  /\ act[a].call \in pending
  /\ outbox[act[a].call].phase = "free"
  /\ outbox' = [outbox EXCEPT ![act[a].call] = Row("intent", None)]
  /\ lock' = a
  /\ Goto(a, "approveRun")
  /\ UNCHANGED <<pending, expired, resum, rows, memory, inbox, turn, history>>

\* Pending still, though it has run: the stored outcome is returned.
ApproveAgain(a) ==
  /\ At(a, "approve") /\ Unlocked
  /\ act[a].call \in pending
  /\ outbox[act[a].call].phase = "done"
  /\ Goto(a, "inject")
  /\ UNCHANGED <<stores, lock, inbox, turn, history>>

\* Not pending, half done, failed or quarantined: an error, only logged.
ApproveRefused(a) ==
  /\ At(a, "approve") /\ Unlocked
  /\ act[a].call \notin pending \/ outbox[act[a].call].phase \notin {"free", "done"}
  /\ Leave(a)
  /\ UNCHANGED <<stores, lock, inbox, turn, history>>

\* run_after_approval: the executor, or a refusal (the approval expired since).
ApproveRun(a) ==
  /\ At(a, "approveRun")
  /\ fired' = [fired EXCEPT ![act[a].call] = @ + 1]
  /\ Goto(a, "approveCommit")
  /\ UNCHANGED <<stores, lock, inbox, turn, said, issued, told, continued, accepted, denied, cut>>

\* A refusal is committed as an error and the pending record stays.
ApproveRunRefused(a) ==
  /\ At(a, "approveRun")
  /\ act[a].call \in expired
  /\ outbox' = [outbox EXCEPT ![act[a].call] = Row("error", act[a].call)]
  /\ lock' = None
  /\ Leave(a)
  /\ UNCHANGED <<pending, expired, resum, rows, memory, inbox, turn, history>>

\* record_committed; an execution error is stored as one, and ends the call.
ApproveCommit(a) ==
  /\ At(a, "approveCommit")
  /\ \E p \in {"done", "error"} :
       /\ outbox' = [outbox EXCEPT ![act[a].call] = Row(p, act[a].call)]
       /\ IF p = "done" THEN Goto(a, "approveRemove") /\ UNCHANGED lock
                        ELSE Leave(a) /\ lock' = None
  /\ UNCHANGED <<pending, expired, resum, rows, memory, inbox, turn, history>>

\* pending.remove; if it fails, so does approve, and the turn stays suspended.
ApproveRemove(a) ==
  /\ At(a, "approveRemove")
  /\ \/ pending' = pending \ {act[a].call} /\ Goto(a, "inject")
     \/ "pending" \in Faults /\ Leave(a) /\ UNCHANGED pending
  /\ lock' = None
  /\ UNCHANGED <<outbox, expired, resum, rows, memory, inbox, turn, history>>

\* Mutant of Inject: the suspended turn's record is kept until the end.
Inject_KeepsRecord(a) ==
  /\ At(a, "inject") /\ Unlocked
  /\ continued' = [continued EXCEPT ![a][act[a].call] = @ + 1]
  /\ act' = [act EXCEPT ![a] = [@ EXCEPT !.pc = "think", !.src = act[a].call, !.k = 0]]
  /\ UNCHANGED <<stores, lock, inbox, turn, said, fired, issued, told, accepted, denied, cut>>

\* The result joins the restored messages, the record is removed (a failure is
\* only logged), and the loop goes on with a full budget.
Inject(a) ==
  /\ At(a, "inject") /\ Unlocked
  /\ resum' \in {[resum EXCEPT ![a] = @ \ {act[a].call}]}
               \cup (IF "resumable" \in Faults THEN {resum} ELSE {})
  /\ continued' = [continued EXCEPT ![a][act[a].call] = @ + 1]
  /\ act' = [act EXCEPT ![a] = [@ EXCEPT !.pc = "think", !.src = act[a].call, !.k = 0]]
  /\ UNCHANGED <<outbox, pending, expired, rows, memory, lock, inbox, turn, said, fired, issued,
                 told, accepted, denied, cut>>

-----------------------------------------------------------------------------
(* The watchdog and the death of the process. *)

\* The hard cap drops the future of the turn where it awaits: the lock is
\* released, what is written stays, the turn is not counted.
Drop(a) ==
  /\ Watchdog
  /\ act[a].turning
  /\ act[a].pc \in {"remember", "think", "submit", "run", "commit", "persist", "approve",
                    "approveRun", "approveCommit", "inject", "answer"}
  /\ act' = [act EXCEPT ![a] = Idle]
  /\ lock' = IF lock = a THEN None ELSE lock
  /\ cut' = cut \cup {<<a, turn[a]>>}
  /\ UNCHANGED <<stores, inbox, turn, said, fired, issued, told, continued, accepted, denied>>

\* Mutant of Crash: the counter starts at the number of the last turn row.
Crash_LastRow ==
  /\ act' = [a \in Beings |-> Idle]
  /\ inbox' = [a \in Beings |-> <<>>]
  /\ lock' = None
  /\ turn' = [a \in Beings |-> IF rows = 0 THEN 0 ELSE rows - 1]
  /\ resum' = [a \in Beings |-> IF a \in Durable THEN resum[a] ELSE {}]
  /\ memory' = [a \in Beings |-> IF a \in Durable THEN memory[a] ELSE [n \in Numbers |-> None]]
  /\ accepted' = {}
  /\ UNCHANGED <<outbox, pending, expired, rows, said, fired, issued, told, continued, denied, cut>>

\* The process dies and build_family starts it again: mailboxes and memory are
\* gone, the files are read back, resume_live counts from the journal.
Crash ==
  /\ act' = [a \in Beings |-> Idle]
  /\ inbox' = [a \in Beings |-> <<>>]
  /\ lock' = None
  /\ turn' = [a \in Beings |-> rows]
  /\ resum' = [a \in Beings |-> IF a \in Durable THEN resum[a] ELSE {}]
  /\ memory' = [a \in Beings |-> IF a \in Durable THEN memory[a] ELSE [n \in Numbers |-> None]]
  /\ accepted' = {}
  /\ UNCHANGED <<outbox, pending, expired, rows, said, fired, issued, told, continued, denied, cut>>

Outside == \/ Say
           \/ \E c \in Calls : Order(c) \/ ApprovePending(c) \/ DenyPending(c) \/ Expire(c)

\* What needs nobody else, and what waits for the runtime's lock.
Local(a)  == \/ BeginTurn(a) \/ BeginTurnFails(a) \/ Remember(a) \/ RememberFails(a) \/ ThinkAnswer(a)
             \/ \E c \in Calls : ThinkCall(a, c)
             \/ Run(a) \/ Commit(a) \/ Suspend(a) \/ SuspendFails(a) \/ Answer(a)
             \/ ReceiveSignal(a) \/ Resume(a)
             \/ ApproveRun(a) \/ ApproveRunRefused(a) \/ ApproveCommit(a) \/ ApproveRemove(a)
Locked(a) == \/ SubmitFresh(a) \/ SubmitKnown(a) \/ Persist(a) \/ PersistRefused(a)
             \/ ApproveIntent(a) \/ ApproveAgain(a) \/ ApproveRefused(a) \/ Inject(a)

Next == \/ Outside \/ Crash
        \/ \E a \in Beings : Local(a) \/ Locked(a) \/ Drop(a)

Spec == Init /\ [][Next]_vars

\* A being's task is scheduled, its awaits return (the model and the executors
\* have timeouts), and the runtime's Mutex is FIFO.
Fairness == \A a \in Beings : WF_vars(Local(a)) /\ SF_vars(Locked(a))
FairSpec == Spec /\ Fairness

-----------------------------------------------------------------------------
\* Every variable stays in its range.
TypeOK ==
  /\ outbox \in [Slots -> [phase : Phases, call : Calls \cup {None}]]
  /\ pending \subseteq Calls /\ expired \subseteq Calls
  /\ resum \in [Beings -> SUBSET Calls]
  /\ rows \in 0..(MaxTurn + 1)
  /\ memory \in [Beings -> [Numbers -> Messages \cup Calls \cup {None}]]
  /\ lock \in Beings \cup {None}
  /\ inbox \in [Beings -> Seq(Items)]
  /\ turn \in [Beings -> 0..(MaxTurn + 1)]
  /\ act \in [Beings -> [pc : PCs, turning : BOOLEAN, item : Items \cup {None},
                         src : Episodes \cup {None}, k : 0..MaxCalls, call : Calls \cup {None}]]
  /\ said \in 0..MaxMessages
  /\ fired \in [Slots -> Nat]
  /\ issued \in [Calls -> Issue \cup {None}]
  /\ told \subseteq Beings \X Calls
  /\ continued \in [Beings -> [Calls -> Nat]]
  /\ accepted \subseteq Calls /\ denied \subseteq Calls
  /\ cut \subseteq Beings \X Numbers

\* One run at a time inside the runtime: whoever is in a critical section of
\* it holds its lock, whatever was dropped or has died meanwhile.
Critical(a) == act[a].pc \in {"run", "commit", "approveRun", "approveCommit", "approveRemove"}
MutualExclusion == \A a \in Beings : Critical(a) <=> lock = a

\* What a being with a durable store has asked the operator for, and is still
\* pending, can be resumed: its suspended turn is in the store, across crashes,
\* write failures and other beings.  (A record that outlives its approval,
\* because the process died before pending.remove, is of a turn that went on.)
AskedIsRecoverable ==
  \A a \in Durable, c \in pending :
    <<a, c>> \in told => c \in resum[a] \/ continued[a][c] > 0

\* A suspended turn goes on only after its action has run, and only once
\* however often the operator approves and the process restarts, as long as its
\* record can be removed; unless a turn of the being was cut short: the next one
\* has its number, finds the stored request under its key and suspends on the
\* same approval again.
ContinuedOnce ==
  \A a \in Beings, c \in Calls :
    /\ continued[a][c] > 0 => fired[c] = 1
    /\ continued[a][c] > 1 => \E n \in Numbers : <<a, n>> \in cut

\* A being that gets the stored answer of another of its own calls has been
\* in that episode before.
Repeated(a, e) == IF e \in Numbers THEN <<a, e>> \in cut ELSE continued[a][e] > 1
AnswersOwnCalls ==
  \A c, d \in Calls :
    (/\ issued[c] # None /\ issued[c].answer = d /\ c # d
     /\ issued[d] # None /\ issued[d].by = issued[c].by)
      => Repeated(issued[c].by, issued[c].key[1])

\* The comment in the tool loop: "every step gets a unique, deterministic
\* name".  A call is answered by what it did, not by another call's outcome.
CallsGetTheirOwnAnswer ==
  \A c \in Calls : issued[c] # None => issued[c].answer \in {c, None}

\* When the reply goes out the message is in memory under the turn's key,
\* unless an earlier turn of that number was cut short: restarts never reuse
\* a number, also when other beings write turn rows in the same journal.
AnsweredIsRemembered ==
  \A a \in Beings :
    At(a, "answer") /\ <<a, turn[a]>> \notin cut
      => memory[a][turn[a]] = act[a].item.body

\* An approval that was denied never runs, also when it was approved first and
\* the signal is on its way.
DeniedNeverRuns ==
  [][\A c \in denied : fired'[c] = fired[c]]_vars

\* A being that has begun comes to an end of what it is doing.
TurnsEnd == \A a \in Beings : ~At(a, "idle") ~> At(a, "idle")

\* An approval that a durable being asked for and the gateway said is being
\* resumed is performed, unless it is denied, expires, its run was cut off
\* in the middle, it was asked for again and that was undone (and its own record
\* of the pending store may outlive that), or the process dies and the signal
\* with it.
ApprovalIsServed ==
  \A c \in Calls :
    c \in accepted ~> (fired[c] = 1 \/ c \notin pending \/ c \in expired
                        \/ outbox[c].phase \in {"intent", "quarantine"} \/ c \notin accepted
                        \/ ~\E a \in Durable : <<a, c>> \in told)

\* The outbox as its callers see it: every dispatch key and every approval
\* fires at most once and keeps its answer, with several beings at it.
Outcome(s) == IF outbox[s].phase \in {"free", "intent"} THEN None
              ELSE IF s \in Calls THEN outbox[s].phase ELSE outbox[s].call

AMO == INSTANCE AtMostOnce
         WITH Answers <- Calls \cup {"done", "error", "quarantine"}, NoAnswer <- None,
              fired <- fired, answer <- [s \in Slots |-> Outcome(s)]

ImplementsAtMostOnce == AMO!Spec
=============================================================================
