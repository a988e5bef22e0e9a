-------------------------- MODULE Scheduler_proofs --------------------------
(***************************************************************************)
(* Proofs about Scheduler for every set of tasks and operators, every      *)
(* interval and cron expression, and any number of restarts and requests.  *)
(***************************************************************************)
EXTENDS Scheduler, SequenceTheorems, WellFoundedInduction, TLAPS

-----------------------------------------------------------------------------
(* The firing keys *)

\* Within one process the loop's outbox is the dispatch outbox of AtMostOnce.
AMO == INSTANCE AtMostOnce WITH
         Answers <- {"done", "error"}, NoAnswer <- None, answer <- outbox

\* The loop and the memory of its outbox.
LoopShape == loop = [pc |-> loop.pc, at |-> loop.at, batch |-> loop.batch]

Running(s) == loop.pc = "commit" /\ Slot = s

\* A window's key has run when it has an outcome or its run is going on, and
\* otherwise it has not.
RunInv ==
  /\ LoopShape /\ epoch \in Nat
  /\ outbox \in [Slots -> {None, "done", "error"}]
  /\ fired \in [Slots -> Nat]
  /\ \A s \in Slots : Running(s) => outbox[s] = None
  /\ \A s \in Slots : fired[s] = IF outbox[s] # None \/ Running(s) THEN 1 ELSE 0

LEMMA ContinueShape ==
  ASSUME NEW at, NEW b
  PROVE  /\ Continue(at, b).pc \in {"sleep", "submit"}
         /\ Continue(at, b) = [pc |-> Continue(at, b).pc, at |-> Continue(at, b).at,
                               batch |-> Continue(at, b).batch]
BY DEF Continue, Asleep

LEMMA AfterErrorShape ==
  /\ AfterError.pc \in {"sleep", "submit"}
  /\ AfterError = [pc |-> AfterError.pc, at |-> AfterError.at, batch |-> AfterError.batch]
<1>1. CASE shared
  BY <1>1, ContinueShape DEF AfterError
<1>2. CASE ~shared
  BY <1>2 DEF AfterError, Asleep
<1> QED BY <1>1, <1>2

\* A step that leaves the outbox alone and does not begin or end a run.
LEMMA Waits ==
  ASSUME RunInv, UNCHANGED <<epoch, outbox, fired>>, LoopShape', loop.pc # "commit", loop'.pc # "commit"
  PROVE  RunInv' /\ UNCHANGED AMO!vars
BY DEF RunInv, Running, AMO!vars

LEMMA SubmitRuns ==
  ASSUME RunInv, Submit PROVE RunInv' /\ (AMO!Next \/ UNCHANGED AMO!vars)
<1>1. CASE outbox[Slot] = None
  <2>1. /\ loop' = [loop EXCEPT !.pc = "commit"] /\ fired' = [fired EXCEPT ![Slot] = @ + 1]
        /\ UNCHANGED <<epoch, outbox, list>> /\ loop.pc = "submit"
    BY <1>1 DEF Submit, live
  <2>2. LoopShape' /\ loop'.pc = "commit" /\ loop'.batch = loop.batch /\ loop'.at = loop.at
    BY <2>1 DEF RunInv, LoopShape
  <2>3. Slot' = Slot
    BY <2>1, <2>2 DEF Slot, Key, Due
  <2>4. Slot \in Slots => fired[Slot] = 0
    BY <1>1, <2>1 DEF RunInv, Running
  <2>6. /\ fired \in [Slots -> Nat]
        /\ \A s \in Slots : fired'[s] = IF s = Slot THEN 1 ELSE fired[s]
    BY <2>1, <2>4 DEF RunInv
  <2>5. fired' \in [Slots -> Nat]
    <3>1. \A s \in Slots : fired'[s] \in Nat
      BY <2>6
    <3>2. fired' = [s \in Slots |-> fired'[s]]
      BY <2>1, <2>6
    <3> QED BY <3>1, <3>2
  <2>7. RunInv'
    BY <1>1, <2>1, <2>2, <2>3, <2>5, <2>6 DEF RunInv, Running
  <2>8. CASE Slot \in Slots
    <3>1. fired' = [fired EXCEPT ![Slot] = 1]
      BY <2>1, <2>4, <2>6, <2>8
    <3> QED BY <1>1, <2>1, <2>4, <2>7, <2>8, <3>1 DEF AMO!Next, AMO!Fire
  <2>9. CASE Slot \notin Slots
    <3>1. fired' = fired
      BY <2>1, <2>9 DEF RunInv
    <3> QED BY <2>1, <2>7, <3>1 DEF AMO!vars
  <2> QED BY <2>8, <2>9
<1>2. CASE outbox[Slot] # None
  <2>1. /\ loop' = (IF outbox[Slot] = "done" THEN [loop EXCEPT !.pc = "record"] ELSE AfterError)
        /\ UNCHANGED <<epoch, outbox, fired>> /\ loop.pc = "submit"
    BY <1>2 DEF Submit
  <2>2. LoopShape' /\ loop'.pc # "commit"
    <3>1. CASE outbox[Slot] = "done"
      BY <2>1, <3>1 DEF RunInv, LoopShape
    <3>2. CASE outbox[Slot] # "done"
      <4>1. loop' = AfterError
        BY <2>1, <3>2
      <4> QED BY <4>1, AfterErrorShape DEF LoopShape
    <3> QED BY <3>1, <3>2
  <2> QED BY <2>1, <2>2, Waits
<1> QED BY <1>1, <1>2

LEMMA OutcomeSettles ==
  ASSUME RunInv, loop.pc = "commit", NEW r \in {"done", "error"}, UNCHANGED <<epoch, fired>>,
         outbox' = [outbox EXCEPT ![Slot] = r], LoopShape', loop'.pc # "commit"
  PROVE  RunInv' /\ (AMO!Next \/ UNCHANGED AMO!vars)
<1>1. None \notin {"done", "error"}
  BY SchedulerAssumption
<1>2. /\ outbox' \in [Slots -> {None, "done", "error"}]
      /\ \A s \in Slots : outbox'[s] = IF s = Slot THEN r ELSE outbox[s]
  BY DEF RunInv
<1>3. RunInv'
  BY <1>1, <1>2 DEF RunInv, Running
<1>4. CASE Slot \in Slots
  <2>1. outbox[Slot] = None /\ outbox'[Slot] = r
    BY <1>2, <1>4 DEF RunInv, Running
  <2> QED BY <1>3, <1>4, <2>1 DEF AMO!Next, AMO!Settle
<1>5. CASE Slot \notin Slots
  <2>1. outbox' = outbox
    BY <1>5 DEF RunInv
  <2> QED BY <1>3, <2>1 DEF AMO!vars
<1> QED BY <1>4, <1>5

LEMMA RunInvStep ==
  ASSUME RunInv, [Next]_vars
  PROVE  RunInv' /\ (epoch' = epoch => (AMO!Next \/ UNCHANGED AMO!vars))
<1>1. CASE Submit
  BY <1>1, SubmitRuns
<1>2. CASE Succeeds
  <2>1. LoopShape' /\ loop'.pc = "record"
    BY <1>2 DEF Succeeds, RunInv, LoopShape
  <2> QED BY <1>2, <2>1, OutcomeSettles DEF Succeeds
<1>3. CASE Fails
  <2>1. LoopShape' /\ loop'.pc # "commit"
    BY <1>3, AfterErrorShape DEF Fails, LoopShape
  <2> QED BY <1>3, <2>1, OutcomeSettles DEF Fails, history
<1>4. CASE Tick \/ Record
  <2>1. \E at, b : loop' = Continue(at, b)
    BY <1>4 DEF Tick, Record
  <2>2. LoopShape' /\ loop'.pc # "commit" /\ loop.pc # "commit"
    BY <1>4, <2>1, ContinueShape DEF LoopShape, Tick, Record
  <2> QED BY <1>4, <2>2, Waits DEF Tick, Record, history
<1>5. CASE Stop
  <2>1. LoopShape' /\ loop'.pc # "commit" /\ loop.pc # "commit"
    BY <1>5 DEF Stop, RunInv, LoopShape
  <2> QED BY <1>5, <2>1, Waits DEF Stop, history
<1>6. CASE Restart
  <2>1. LoopShape' /\ loop'.pc = "sleep"
    BY <1>6 DEF Restart, Asleep, LoopShape
  <2>2. epoch' # epoch /\ epoch' \in Nat
    BY <1>6 DEF Restart, RunInv
  <2>3. outbox' = [s \in Slots |-> None] /\ fired' = [s \in Slots |-> 0]
    BY <1>6 DEF Restart
  <2>4. RunInv'
    BY <2>1, <2>2, <2>3 DEF RunInv, Running
  <2> QED BY <2>2, <2>4
<1>7. CASE Saves \/ Orders \/ Clock \/ UNCHANGED vars
  <2>1. UNCHANGED <<epoch, loop, outbox, fired, list>>
    BY <1>7 DEF Saves, Orders, Clock, vars, history, live, Load, Save, SaveFails, Toggle, Schedule
  <2> QED BY <2>1 DEF RunInv, LoopShape, Running, Slot, Key, Due, AMO!vars
<1> QED BY <1>1, <1>2, <1>3, <1>4, <1>5, <1>6, <1>7 DEF Next, Steps

LEMMA RunInvInit == ASSUME Init PROVE RunInv /\ AMO!Init
BY SchedulerAssumption DEF Init, RunInv, LoopShape, Running, Asleep, AMO!Init

(***************************************************************************)
(* Within one process a window that was served is not served again and     *)
(* keeps its answer, whatever the clock, the kill switch and the errors of *)
(* other tasks do; only a restart, which starts the loop with an empty     *)
(* outbox, forgets.  The same invariant keeps the error of a window that   *)
(* failed, which is why RetriesNextTick is refuted.                        *)
(***************************************************************************)
THEOREM WindowOnce == Spec => ServedOnce
<1>1. Init => RunInv
  BY RunInvInit
<1>2. RunInv /\ [Next]_vars => RunInv'
  BY RunInvStep
<1>3. RunInv /\ [Next]_vars =>
        \A s \in Slots : (epoch' = epoch /\ outbox[s] = "done") =>
           fired[s] = 1 /\ fired'[s] = 1 /\ outbox'[s] = "done"
  <2> SUFFICES ASSUME RunInv, [Next]_vars, epoch' = epoch, NEW s \in Slots, outbox[s] = "done"
               PROVE  fired[s] = 1 /\ fired'[s] = 1 /\ outbox'[s] = "done"
    OBVIOUS
  <2>1. outbox[s] # None
    BY SchedulerAssumption
  <2>2. fired[s] = 1
    BY <2>1 DEF RunInv
  <2>3. AMO!Next \/ UNCHANGED AMO!vars
    BY RunInvStep
  <2>4. outbox'[s] = outbox[s]
    <3>1. CASE UNCHANGED AMO!vars
      BY <3>1 DEF AMO!vars
    <3>2. ASSUME NEW u \in Slots, AMO!Fire(u) PROVE outbox'[s] = outbox[s]
      BY <3>2 DEF AMO!Fire
    <3>3. ASSUME NEW u \in Slots, AMO!Settle(u) PROVE outbox'[s] = outbox[s]
      BY <2>1, <3>3 DEF AMO!Settle, RunInv
    <3> QED BY <2>3, <3>1, <3>2, <3>3 DEF AMO!Next
  <2>5. RunInv' /\ outbox'[s] # None
    BY <2>1, <2>4, RunInvStep
  <2>6. fired'[s] = 1
    BY <2>5 DEF RunInv
  <2> QED BY <2>2, <2>4, <2>6
<1> QED BY <1>1, <1>2, <1>3, PTL DEF Spec, ServedOnce

-----------------------------------------------------------------------------
(* agency.json *)

Requests == [pc : {"idle", "load", "save"}, task : Tasks, on : BOOLEAN, cfg : Configs]

FileTypes ==
  /\ epoch \in Epochs /\ clash \in BOOLEAN
  /\ list \in Seq(Tasks) /\ enabled \in [Tasks -> BOOLEAN]
  /\ file \in Configs
  /\ req \in [Writers -> Requests]
  /\ Busy(Skill) => req[Skill].task \in Stable

\* An operator is at work on t: flag and file may differ until it has saved.
Pending(t) == \E o \in Operators : Busy(o) /\ req[o].task = t

Agrees(t) == enabled[t] = (Id(t) \notin file.disabled)

\* While writers take turns: one at a time, on a fresh copy of the file, for
\* the flag they set.
InTurn ==
  /\ \A v, w \in Writers : Busy(v) /\ Busy(w) => v = w
  /\ \A w \in Writers : req[w].pc = "save" => req[w].cfg = file
  /\ \A o \in Operators : Busy(o) => enabled[req[o].task] = req[o].on
  /\ \A t \in ToSet(list) : Agrees(t) \/ Pending(t)

FileInv == FileTypes /\ (~clash => InTurn)

LEMMA IdsDiffer == \A t, u : Id(t) = Id(u) => t = u
BY DEF Id

LEMMA IdsTyped == ASSUME epoch \in Epochs PROVE \A t \in Tasks : Id(t) \in Ids
BY SchedulerAssumption DEF Id, Ids, Epochs

LEMMA ListedTasks ==
  ASSUME NEW s \in Seq(Tasks) PROVE ToSet(s) \subseteq Tasks
BY DEF ToSet

LEMMA IdleTyped == Idle \in Requests /\ Idle.pc = "idle"
BY SchedulerAssumption DEF Idle, Requests, Config, Configs

LEMMA ListedTyped ==
  ASSUME NEW f \in Configs PROVE Listed(f) \in Seq(Tasks)
<1>1. f.scheduled \in Seq(Stable)
  BY DEF Configs
<1>2. f.scheduled \in Seq(Tasks)
  BY <1>1 DEF Stable
<1> QED BY <1>2, SchedulerAssumption DEF Listed

\* A process that has just read the file agrees with it.
LEMMA BootAgrees ==
  ASSUME NEW f \in Configs, NEW e \in Epochs
  PROVE  /\ Flags(Listed(f), f, e) \in [Tasks -> BOOLEAN]
         /\ \A t \in ToSet(Listed(f)) :
              Flags(Listed(f), f, e)[t] = (<<t, IF t = Dream THEN e ELSE 0>> \notin f.disabled)
<1>1. ToSet(Listed(f)) \subseteq Tasks
  BY ListedTyped, ListedTasks
<1> QED BY <1>1 DEF Flags

LEMMA FileInvInit == ASSUME Init PROVE FileInv
<1>1. file \in Configs
  <2>1. Config({}, <<>>) \in Configs
    BY DEF Config, Configs
  <2>2. ASSUME NEW t \in Stable, NEW d \in SUBSET Stable
        PROVE  Config(d \X {0}, <<t>>) \in Configs
    <3>1. 0 \in Epochs /\ Stable \subseteq Tasks
      BY SchedulerAssumption DEF Epochs, Stable
    <3>2. d \X {0} \in SUBSET Ids
      BY <3>1 DEF Ids
    <3>3. <<t>> \in Seq(Stable)
      OBVIOUS
    <3> QED BY <3>2, <3>3 DEF Config, Configs
  <2> QED BY <2>1, <2>2 DEF Init, Found
<1>2. 0 \in Epochs
  BY SchedulerAssumption DEF Epochs
<1>3. \A w \in Writers : req[w] = Idle
  BY DEF Init
<1>4. FileTypes
  BY <1>1, <1>2, <1>3, ListedTyped, BootAgrees, IdleTyped
  DEF Init, FileTypes, Busy, Writers
<1>5. \A t \in ToSet(list) : Agrees(t)
  BY <1>1, <1>2, BootAgrees DEF Init, Agrees, Id
<1>6. \A w \in Writers : ~Busy(w) /\ req[w].pc # "save"
  BY <1>3, IdleTyped DEF Busy
<1> QED BY <1>4, <1>5, <1>6 DEF FileInv, InTurn, Writers

\* What a process starts from, when it cannot read the file.
LEMMA DefaultsTyped == Config({}, <<>>) \in Configs
BY DEF Config, Configs

\* The state of the file and its writers.
filed == <<epoch, list, enabled, file, req, clash>>

LEMMA FileInvUnchanged == ASSUME FileInv, UNCHANGED filed PROVE FileInv'
BY DEF FileInv, FileTypes, InTurn, filed, Busy, Pending, Agrees, Id

LEMMA FileInvRestart == ASSUME FileInv, Restart PROVE FileInv'
<1>1. PICK f \in {file, Config({}, <<>>)} :
        list' = Listed(f) /\ enabled' = Flags(list', f, epoch') /\ clash' = (f # file)
  BY DEF Restart
<1>2. /\ file' = file /\ file \in Configs /\ f \in Configs /\ epoch' \in Epochs
      /\ clash' \in BOOLEAN /\ req' = [w \in Writers |-> Idle]
  BY <1>1, DefaultsTyped, SchedulerAssumption DEF Restart, FileInv, FileTypes, Epochs
<1>3. \A w \in Writers : req'[w] = Idle
  BY <1>2
<1>4. Skill \in Writers
  BY DEF Writers
<1>5. FileTypes'
  BY <1>1, <1>2, <1>3, <1>4, ListedTyped, BootAgrees, IdleTyped DEF FileTypes, Busy
<1>6. \A w \in Writers : ~Busy(w)' /\ req'[w].pc # "save"
  BY <1>3, IdleTyped DEF Busy
<1>7. ASSUME ~clash' PROVE InTurn'
  <2>1. f = file
    BY <1>1, <1>7
  <2>2. \A t \in ToSet(list') : Agrees(t)'
    BY <1>1, <1>2, <2>1, BootAgrees DEF Agrees, Id
  <2> QED BY <1>6, <2>2 DEF InTurn, Writers
<1> QED BY <1>5, <1>7 DEF FileInv

\* What an order leaves: w, alone, is about to load the file.
LEMMA OrderAlone ==
  ASSUME FileInv, NEW w \in Writers, NEW r \in Requests, r.pc = "load",
         ~Busy(w), req' = [req EXCEPT ![w] = r], clash' = (clash \/ Others(w)), ~clash'
  PROVE  /\ InTurn /\ \A v \in Writers : ~Busy(v)
         /\ \A v \in Writers : Busy(v)' => v = w
         /\ \A v \in Writers : req'[v].pc # "save"
         /\ req'[w] = r
<1>1. ~clash /\ ~Others(w)
  BY DEF FileInv, FileTypes
<1>2. \A v \in Writers : ~Busy(v)
  BY <1>1 DEF Others
<1>3. \A v \in Writers : req'[v] = IF v = w THEN r ELSE req[v]
  BY DEF FileInv, FileTypes
<1> QED BY <1>1, <1>2, <1>3 DEF FileInv, Busy

LEMMA FileInvToggle ==
  ASSUME FileInv, NEW o \in Operators, NEW t \in Tasks, NEW on \in BOOLEAN, Toggle(o, t, on)
  PROVE  FileInv'
<1> DEFINE r == [req[o] EXCEPT !.pc = "load", !.task = t, !.on = on]
<1>1. /\ o \in Writers /\ o # Skill /\ req[o] \in Requests
  BY SchedulerAssumption DEF Writers, FileInv, FileTypes
<1>2. r \in Requests /\ r.pc = "load" /\ r.task = t /\ r.on = on
  BY <1>1 DEF Requests
<1>3. /\ req' = [req EXCEPT ![o] = r] /\ clash' = (clash \/ Others(o)) /\ ~Busy(o)
      /\ enabled' = [enabled EXCEPT ![t] = on] /\ UNCHANGED <<epoch, list, file>>
  BY DEF Toggle
<1> HIDE DEF r
<1>4. FileTypes'
  <2>1. req' \in [Writers -> Requests] /\ req'[Skill] = req[Skill]
    BY <1>1, <1>2, <1>3 DEF FileInv, FileTypes
  <2>2. enabled' \in [Tasks -> BOOLEAN] /\ clash' \in BOOLEAN
    BY <1>3 DEF FileInv, FileTypes, Others, Busy
  <2> QED BY <1>3, <2>1, <2>2 DEF FileInv, FileTypes, Busy
<1>5. ASSUME ~clash' PROVE InTurn'
  <2>1. /\ InTurn /\ \A v \in Writers : ~Busy(v)
        /\ \A v \in Writers : Busy(v)' => v = o
        /\ \A v \in Writers : req'[v].pc # "save"
        /\ req'[o] = r
    BY <1>1, <1>2, <1>3, <1>5, OrderAlone
  <2>2. enabled'[t] = on /\ \A u \in Tasks : u # t => enabled'[u] = enabled[u]
    BY <1>3 DEF FileInv, FileTypes
  <2>3. \A p \in Operators : Busy(p)' => enabled'[req'[p].task] = req'[p].on
    BY <1>2, <2>1, <2>2 DEF Writers
  <2>4. Pending(t)'
    BY <1>2, <2>1 DEF Pending, Busy
  <2>5. ASSUME NEW u \in ToSet(list), u # t PROVE Agrees(u)'
    <3>1. Agrees(u) /\ u \in Tasks
      BY <2>1, <2>5, ListedTasks DEF InTurn, Pending, Writers, FileInv, FileTypes
    <3> QED BY <1>3, <2>2, <2>5, <3>1 DEF Agrees, Id
  <2> QED BY <1>3, <2>1, <2>3, <2>4, <2>5 DEF InTurn
<1> QED BY <1>4, <1>5 DEF FileInv

LEMMA FileInvSchedule ==
  ASSUME FileInv, NEW t \in Tasks, Schedule(t) PROVE FileInv'
<1> DEFINE r == [req[Skill] EXCEPT !.pc = "load", !.task = t]
<1>1. Skill \in Writers /\ Skill \notin Operators /\ req[Skill] \in Requests
  BY SchedulerAssumption DEF Writers, FileInv, FileTypes
<1>2. r \in Requests /\ r.pc = "load" /\ r.task = t
  BY <1>1 DEF Requests
<1>3. /\ req' = [req EXCEPT ![Skill] = r] /\ clash' = (clash \/ Others(Skill)) /\ ~Busy(Skill)
      /\ UNCHANGED <<epoch, list, enabled, file>> /\ t \in Stable
  BY DEF Schedule, live, Stable
<1> HIDE DEF r
<1>4. FileTypes'
  <2>1. req' \in [Writers -> Requests] /\ req'[Skill] = r
    BY <1>1, <1>2, <1>3 DEF FileInv, FileTypes
  <2>2. clash' \in BOOLEAN
    BY <1>3 DEF FileInv, FileTypes, Others, Busy
  <2> QED BY <1>2, <1>3, <2>1, <2>2 DEF FileInv, FileTypes, Busy
<1>5. ASSUME ~clash' PROVE InTurn'
  <2>1. /\ InTurn /\ \A v \in Writers : ~Busy(v)
        /\ \A v \in Writers : Busy(v)' => v = Skill
        /\ \A v \in Writers : req'[v].pc # "save"
    BY <1>1, <1>2, <1>3, <1>5, OrderAlone
  <2>2. ASSUME NEW u \in ToSet(list) PROVE Agrees(u)'
    <3>1. Agrees(u)
      BY <2>1 DEF InTurn, Pending, Writers
    <3> QED BY <1>3, <3>1 DEF Agrees, Id
  <2>3. \A p \in Operators : ~Busy(p)'
    BY <1>1, <2>1 DEF Writers
  <2> QED BY <1>3, <2>1, <2>2, <2>3 DEF InTurn
<1> QED BY <1>4, <1>5 DEF FileInv

LEMMA FileInvLoad ==
  ASSUME FileInv, NEW w \in Writers, Load(w) PROVE FileInv'
<1> DEFINE r == [req[w] EXCEPT !.pc = "save", !.cfg = file]
<1>1. req[w] \in Requests /\ file \in Configs
  BY DEF FileInv, FileTypes
<1>2. /\ r \in Requests /\ r.pc = "save" /\ r.cfg = file
      /\ r.task = req[w].task /\ r.on = req[w].on
  BY <1>1 DEF Requests
<1>3. /\ req' = [req EXCEPT ![w] = r] /\ req[w].pc = "load"
      /\ UNCHANGED <<epoch, list, enabled, file, clash>>
  BY DEF Load, live
<1> HIDE DEF r
<1>4. \A v \in Writers : req'[v] = IF v = w THEN r ELSE req[v]
  BY <1>3 DEF FileInv, FileTypes
<1>5. \A v \in Writers : /\ Busy(v)' = Busy(v)
                         /\ req'[v].task = req[v].task /\ req'[v].on = req[v].on
  BY <1>2, <1>3, <1>4 DEF Busy
<1>6. FileTypes'
  <2>1. req' \in [Writers -> Requests]
    BY <1>2, <1>3 DEF FileInv, FileTypes
  <2>2. Skill \in Writers
    BY DEF Writers
  <2> QED BY <1>3, <1>5, <2>1, <2>2 DEF FileInv, FileTypes
<1>7. ASSUME ~clash' PROVE InTurn'
  <2>1. InTurn
    BY <1>3, <1>7 DEF FileInv
  <2>2. \A v \in Writers : req'[v].pc = "save" => req'[v].cfg = file'
    BY <1>2, <1>3, <1>4, <2>1 DEF InTurn
  <2>3. \A t \in ToSet(list) : Agrees(t)' \/ Pending(t)'
    BY <1>3, <1>5, <2>1 DEF InTurn, Agrees, Pending, Id, Writers
  <2>4. \A o \in Operators : Busy(o)' => enabled'[req'[o].task] = req'[o].on
    BY <1>3, <1>5, <2>1 DEF InTurn, Writers
  <2>5. \A v, u \in Writers : Busy(v)' /\ Busy(u)' => v = u
    BY <1>5, <2>1 DEF InTurn
  <2> QED BY <1>3, <2>2, <2>3, <2>4, <2>5 DEF InTurn
<1> QED BY <1>6, <1>7 DEF FileInv

\* What a writer that ends leaves of the requests.
LEMMA EndsTyped ==
  ASSUME FileInv, NEW w \in Writers, req' = [req EXCEPT ![w] = Idle]
  PROVE  /\ req' \in [Writers -> Requests]
         /\ \A v \in Writers : req'[v] = IF v = w THEN Idle ELSE req[v]
         /\ Busy(Skill)' => req'[Skill].task \in Stable
<1>1. /\ req' \in [Writers -> Requests]
      /\ \A v \in Writers : req'[v] = IF v = w THEN Idle ELSE req[v]
  BY IdleTyped DEF FileInv, FileTypes
<1> QED BY <1>1, IdleTyped DEF FileInv, FileTypes, Busy, Writers

LEMMA ChangedTyped ==
  ASSUME FileInv, NEW w \in Writers, req[w].pc = "save"
  PROVE  /\ Changed(w) \in Configs
         /\ w = Skill => Changed(w).disabled = req[w].cfg.disabled
         /\ w # Skill => Changed(w).disabled = IF req[w].on THEN req[w].cfg.disabled \ {Id(req[w].task)}
                                               ELSE req[w].cfg.disabled \cup {Id(req[w].task)}
<1>1. req[w] \in Requests /\ Id(req[w].task) \in Ids
  BY IdsTyped DEF FileInv, FileTypes, Requests
<1>2. PICK c \in Configs : c = req[w].cfg
  BY <1>1 DEF Requests
<1>3. PICK d \in SUBSET Ids, q \in Seq(Stable) : c = [disabled |-> d, scheduled |-> q]
  BY DEF Configs
<1>4. CASE w = Skill
  <2>1. req[w].task \in Stable
    BY <1>4 DEF FileInv, FileTypes, Busy
  <2>2. PICK n \in Seq(Stable) :
          n = IF req[w].task \in ToSet(q) THEN q ELSE Append(q, req[w].task)
    <3>1. Append(q, req[w].task) \in Seq(Stable)
      BY <2>1
    <3> QED BY <3>1
  <2>3. Changed(w) = [c EXCEPT !.scheduled = n]
    BY <1>2, <1>3, <1>4, <2>2 DEF Changed
  <2> QED BY <1>2, <1>3, <1>4, <2>3 DEF Configs
<1>5. CASE w # Skill
  <2>1. PICK n \in SUBSET Ids :
          n = IF req[w].on THEN d \ {Id(req[w].task)} ELSE d \cup {Id(req[w].task)}
    BY <1>1
  <2>2. Changed(w) = [c EXCEPT !.disabled = n]
    BY <1>2, <1>3, <1>5, <2>1 DEF Changed
  <2> QED BY <1>2, <1>3, <1>5, <2>1, <2>2 DEF Configs
<1> QED BY <1>4, <1>5

LEMMA FileInvSave ==
  ASSUME FileInv, NEW w \in Writers, Save(w) PROVE FileInv'
<1>1. /\ req' = [req EXCEPT ![w] = Idle] /\ req[w].pc = "save" /\ file' = Changed(w)
      /\ UNCHANGED <<epoch, list, enabled, clash>>
  BY DEF Save, live
<1>2. \A v \in Writers : req'[v] = IF v = w THEN Idle ELSE req[v]
  BY <1>1, EndsTyped
<1>3. FileTypes'
  BY <1>1, EndsTyped, ChangedTyped DEF FileInv, FileTypes
<1>4. ASSUME ~clash' PROVE InTurn'
  <2>1. InTurn /\ Busy(w)
    BY <1>1, <1>4 DEF FileInv, Busy
  <2>2. \A v \in Writers : ~Busy(v)' /\ req'[v].pc # "save"
    BY <1>2, <2>1, IdleTyped DEF InTurn, Busy
  <2>3. req[w].cfg = file
    BY <1>1, <2>1 DEF InTurn
  <2>4. ASSUME NEW t \in ToSet(list) PROVE Agrees(t)'
    <3>1. Id(t)' = Id(t) /\ enabled'[t] = enabled[t]
      BY <1>1 DEF Id
    <3>2. CASE w = Skill
      <4>1. \A o \in Operators : ~Busy(o)
        BY <2>1, <3>2, SchedulerAssumption DEF InTurn, Writers
      <4>2. Agrees(t)
        BY <2>1, <2>4, <4>1 DEF InTurn, Pending
      <4>3. file'.disabled = file.disabled
        BY <1>1, <2>3, <3>2, ChangedTyped
      <4> QED BY <3>1, <4>2, <4>3 DEF Agrees
    <3>3. CASE w # Skill
      <4>1. /\ w \in Operators /\ enabled[req[w].task] = req[w].on /\ req[w].on \in BOOLEAN
            /\ \A o \in Operators : Busy(o) => o = w
        BY <2>1, <3>3 DEF InTurn, Writers, FileInv, FileTypes, Requests
      <4>2. file'.disabled = IF req[w].on THEN file.disabled \ {Id(req[w].task)}
                             ELSE file.disabled \cup {Id(req[w].task)}
        BY <1>1, <2>3, <3>3, ChangedTyped
      <4>3. CASE t = req[w].task
        BY <3>1, <4>1, <4>2, <4>3 DEF Agrees
      <4>4. CASE t # req[w].task
        <5>1. Agrees(t)
          BY <2>1, <2>4, <4>1, <4>4 DEF InTurn, Pending
        <5>2. Id(t) # Id(req[w].task)
          BY <4>4, IdsDiffer
        <5> QED BY <3>1, <4>2, <5>1, <5>2 DEF Agrees
      <4> QED BY <4>3, <4>4
    <3> QED BY <3>2, <3>3
  <2> QED BY <1>1, <2>2, <2>4 DEF InTurn, Writers
<1> QED BY <1>3, <1>4 DEF FileInv

LEMMA FileInvFails ==
  ASSUME FileInv, NEW w \in Writers, SaveFails(w) PROVE FileInv'
<1>1. /\ req' = [req EXCEPT ![w] = Idle] /\ clash' = TRUE
      /\ UNCHANGED <<epoch, list, enabled, file>>
  BY DEF SaveFails, live
<1> QED BY <1>1, EndsTyped DEF FileInv, FileTypes

LEMMA FileInvStep ==
  ASSUME FileInv, [Next]_vars PROVE FileInv'
<1>1. CASE Saves
  BY <1>1, FileInvLoad, FileInvSave, FileInvFails DEF Saves
<1>2. CASE Orders
  BY <1>2, FileInvToggle, FileInvSchedule DEF Orders
<1>3. CASE Restart
  BY <1>3, FileInvRestart
<1>4. CASE Steps \/ Stop \/ Clock \/ UNCHANGED vars
  <2>1. UNCHANGED filed
    BY <1>4 DEF Steps, Stop, Clock, vars, filed, live, disk, history,
                Tick, Submit, Succeeds, Fails, Record
  <2> QED BY <2>1, FileInvUnchanged
<1> QED BY <1>1, <1>2, <1>3, <1>4 DEF Next

(***************************************************************************)
(* agency.json agrees with the live flags the operators set, whatever the  *)
(* loop and the clock do meanwhile, as long as in this process no writer   *)
(* failed or overlapped with another: load, change and save are not one    *)
(* step, and what makes them right is only that they take turns.           *)
(***************************************************************************)
THEOREM FileKeepsUp == Spec => []FileAgrees
<1>1. Init => FileInv
  BY FileInvInit
<1>2. FileInv /\ [Next]_vars => FileInv'
  BY FileInvStep
<1>3. FileInv => FileAgrees
  BY DEF FileInv, InTurn, FileAgrees, Agrees, Pending, Writers
<1> QED BY <1>1, <1>2, <1>3, PTL DEF Spec

(***************************************************************************)
(* A task from agency.json that is switched off is still off when the next *)
(* process has started, with the file or without it, if no writer of the   *)
(* file was at work, had failed or had overlapped with another.  The dream *)
(* task, whose id is drawn anew by every process, is the one exception     *)
(* (the run that refutes KillSwitchSurvivesRestart shows it).              *)
(***************************************************************************)
THEOREM OffStaysOff ==
  Spec => [][(epoch' # epoch /\ ~clash /\ \A w \in Writers : ~Busy(w)) =>
               \A t \in ToSet(list) \ {Dream} : ~enabled[t] => ~enabled'[t]]_vars
<1>1. FileInv /\ [Next]_vars =>
        ((epoch' # epoch /\ ~clash /\ \A w \in Writers : ~Busy(w)) =>
           \A t \in ToSet(list) \ {Dream} : ~enabled[t] => ~enabled'[t])
  <2> SUFFICES ASSUME FileInv, [Next]_vars, epoch' # epoch, ~clash,
                      \A w \in Writers : ~Busy(w),
                      NEW t \in ToSet(list) \ {Dream}, ~enabled[t]
               PROVE  ~enabled'[t]
    OBVIOUS
  <2>1. Restart
    BY DEF Next, Steps, Stop, Saves, Orders, Clock, vars, live, disk, history,
           Tick, Submit, Succeeds, Fails, Record, Load, Save, SaveFails, Toggle, Schedule
  <2>2. t \in Tasks /\ Id(t) \in file.disabled /\ Id(t) = <<t, 0>>
    BY ListedTasks DEF FileInv, FileTypes, InTurn, Agrees, Pending, Writers, Id
  <2>3. PICK f \in {file, Config({}, <<>>)} :
          list' = Listed(f) /\ enabled' = Flags(list', f, epoch')
    BY <2>1 DEF Restart
  <2>4. CASE f = file
    BY <2>2, <2>3, <2>4 DEF Flags
  <2>5. CASE f = Config({}, <<>>)
    <3>1. list' = <<Dream>>
      BY <2>3, <2>5, SchedulerAssumption DEF Listed, Config
    <3>2. t \notin ToSet(list')
      BY <3>1 DEF ToSet
    <3> QED BY <2>2, <2>3, <3>2 DEF Flags
  <2> QED BY <2>3, <2>4, <2>5
<1> QED BY <1>1, FileInvInit, FileInvStep, PTL DEF Spec

-----------------------------------------------------------------------------
(* What a tick has collected *)

\* A nonempty set of naturals has a smallest element, and Min is it.
LEMMA MinExists ==
  ASSUME NEW S \in SUBSET Nat, S # {}
  PROVE  Min(S) \in S
<1>1. PICK x \in S : \A y \in S : <<y, x>> \notin OpToRel(<, Nat)
  BY WFMin, NatLessThanWellFounded, Zenon
<1>2. \A y \in S : y \in Nat /\ x \in Nat /\ ~(y < x)
  BY <1>1 DEF OpToRel
<1>3. \A y \in S : x <= y
  BY <1>2
<1> QED BY <1>3 DEF Min

\* The last occurrence of a cron expression, if there has been one.
LEMMA LatestExists ==
  ASSUME NEW t \in Tasks, NEW n \in Times, Past(t, n) # {}
  PROVE  Latest(Past(t, n)) \in Times /\ Latest(Past(t, n)) <= n
<1> DEFINE S == Past(t, n)
           T == {MaxTime - m : m \in S}
<1>0. MaxTime \in Nat /\ n \in Nat /\ S \subseteq Times /\ \A m \in S : m <= n
  BY SchedulerAssumption DEF Past, Times
<1>1. T \subseteq Nat /\ T # {}
  <2>1. \A m \in S : MaxTime - m \in Nat /\ MaxTime - m \in T
    <3>1. \A m \in 0..MaxTime : MaxTime - m \in Nat
      BY <1>0
    <3> QED BY <1>0, <3>1 DEF Times
  <2> QED BY <2>1
<1>2. PICK x \in T : \A y \in T : <<y, x>> \notin OpToRel(<, Nat)
  <2> HIDE DEF T
  <2> QED BY <1>1, WFMin, NatLessThanWellFounded, Zenon
<1>3. \A y \in T : ~(y < x)
  BY <1>1, <1>2 DEF OpToRel
<1>4. PICK m \in S : x = MaxTime - m
  OBVIOUS
<1>5. ASSUME NEW k \in S PROVE k <= m
  <2>1. MaxTime - k \in T /\ ~(MaxTime - k < MaxTime - m)
    BY <1>3, <1>4
  <2>2. k \in Nat /\ m \in Nat
    BY <1>0 DEF Times
  <2> HIDE DEF S, T
  <2> QED BY <1>0, <2>1, <2>2
<1>6. Latest(S) \in S
  BY <1>5 DEF Latest
<1> QED BY <1>0, <1>6

\* The loop's part of the type invariant.
LoopTypes ==
  /\ shared \in BOOLEAN /\ now \in Times
  /\ list \in Seq(Tasks) /\ enabled \in [Tasks -> BOOLEAN]
  /\ lastFired \in [Tasks -> Times \cup {None}]
  /\ ranAt \in [Tasks -> Times \cup {None}]
  /\ since \in [Tasks -> Nat]
  /\ writes \in 0..MaxWrites
  /\ LoopShape
  /\ loop.pc \in {"sleep", "submit", "commit", "record", "stopped"}
  /\ loop.at \in Times
  /\ loop.batch \subseteq DOMAIN list
  /\ (loop.pc \in {"submit", "commit", "record"}) = (loop.batch # {})

DueSince(t) == IF t \in Cron THEN DueCron(t, loop.at) ELSE DueInterval(t, loop.at)
Served(t)   == lastFired[t] = loop.at /\ outbox[Key(t)] = "done"
HasWindow(t) == t \in Cron => Past(t, loop.at) # {}

\* What is left of a tick is still due when its turn comes, whatever happened
\* since it was collected; a second entry of the same task finds its key.
BatchInv  == \A i \in loop.batch : HasWindow(list[i]) /\ (DueSince(list[i]) \/ Served(list[i]))
RecordInv == loop.pc = "record" => outbox[Slot] = "done"

\* last_fired is not behind the last successful run, but for the one that is
\* about to be recorded.
Spaces(t)     == t \in Cron \/ Interval[t] # 0
Unrecorded(t) == loop.pc = "record" /\ Due = t /\ ranAt[t] = loop.at
Noted(t)      == lastFired[t] # None /\ ranAt[t] <= lastFired[t]
RanInv == \A t \in Tasks : Spaces(t) /\ ranAt[t] # None => Noted(t) \/ Unrecorded(t)

\* A task that ran after it was switched off: its key is known by now.
Asked(t) == outbox[Key(t)] # None \/ (loop.pc = "commit" /\ Due = t)
OffInv ==
  \A t \in Tasks :
    ~enabled[t] => /\ since[t] <= 1
                   /\ since[t] = 1 => \A i \in loop.batch : list[i] = t => Asked(t)

TickInv == LoopTypes /\ BatchInv /\ RecordInv /\ RanInv /\ OffInv

\* Whose turn it is.
LEMMA TurnOf ==
  ASSUME LoopTypes, loop.pc \in {"submit", "commit", "record"}
  PROVE  /\ Min(loop.batch) \in loop.batch /\ Due \in Tasks
         /\ Rest \subseteq loop.batch
<1>1. DOMAIN list \subseteq Nat /\ \A i \in DOMAIN list : list[i] \in Tasks
  BY DEF LoopTypes
<1>2. loop.batch \in SUBSET Nat /\ loop.batch # {}
  BY <1>1 DEF LoopTypes
<1> QED BY <1>1, <1>2, MinExists DEF LoopTypes, Due, Rest

\* The key of an entry that has a window.
LEMMA KeyTyped ==
  ASSUME LoopTypes, NEW t \in Tasks, HasWindow(t)
  PROVE  Key(t) \in Slots
<1>1. loop.at \in Times /\ loop.at \in Nat
  BY SchedulerAssumption DEF LoopTypes, Times
<1>2. CASE t \in Cron
  BY <1>1, <1>2, LatestExists DEF HasWindow, Key, Window, Slots
<1>3. CASE t \notin Cron
  <2>1. PICK k \in Nat : k > 0 /\ Window(t, loop.at) = loop.at \div k
    BY <1>3, SchedulerAssumption DEF Window
  <2>2. loop.at \div k \in Nat /\ loop.at \div k <= loop.at
    BY <1>1, <2>1
  <2> QED BY <1>1, <2>1, <2>2, SchedulerAssumption DEF Key, Slots, Times
<1> QED BY <1>2, <1>3

LEMMA SlotTyped ==
  ASSUME LoopTypes, BatchInv, loop.pc \in {"submit", "commit", "record"}
  PROVE  Slot \in Slots
BY TurnOf, KeyTyped DEF BatchInv, Slot, Due

\* A step after which the loop has no more to do than before, and knows as much
\* of the keys.
Onward ==
  /\ list' = list
  /\ loop'.batch \subseteq loop.batch
  /\ loop'.batch # {} => loop'.at = loop.at

LEMMA SameKeys ==
  ASSUME Onward, loop'.batch # {}
  PROVE  /\ \A t : Key(t)' = Key(t)
         /\ \A t : HasWindow(t)' = HasWindow(t)
BY DEF Onward, Key, HasWindow

\* Giving up the turn of one entry, or all of them.
LEMMA TurnEnds ==
  ASSUME LoopTypes, loop.pc \in {"submit", "commit", "record"}, list' = list,
         loop' = Continue(loop.at, Rest) \/ loop' = Asleep
  PROVE  /\ Onward /\ LoopShape'
         /\ loop'.pc \in {"sleep", "submit"}
         /\ (loop'.pc = "submit") = (loop'.batch # {})
         /\ loop'.at \in Times /\ loop'.batch \subseteq DOMAIN list
         /\ Min(loop.batch) \notin loop'.batch
<1>1. Rest \subseteq loop.batch /\ 0 \in Times
  BY TurnOf, SchedulerAssumption DEF Times
<1>2. Min(loop.batch) \notin Rest
  BY DEF Rest
<1> HIDE DEF Rest
<1>3. CASE loop' = Asleep
  BY <1>1, <1>3 DEF Asleep, Onward, LoopShape
<1>4. CASE Rest # {} /\ loop' = [pc |-> "submit", at |-> loop.at, batch |-> Rest]
  BY <1>1, <1>2, <1>4 DEF Onward, LoopShape, LoopTypes
<1> QED BY <1>3, <1>4 DEF Continue

LEMMA GivesUp ==
  AfterError = Continue(loop.at, Rest) \/ AfterError = Asleep
BY DEF AfterError

\* What the kill switch needs of a step that does not start a run.
LEMMA OffKept ==
  ASSUME TickInv, Onward, UNCHANGED <<enabled, since>>,
         \A t \in Tasks : loop'.batch # {} /\ Asked(t) => Asked(t)'
  PROVE  OffInv'
<1>1. \A i \in loop'.batch : i \in loop.batch
  BY DEF Onward
<1> QED BY <1>1 DEF TickInv, OffInv, Onward

\* What the spacing needs of a step that runs and records nothing.
LEMMA SpacingKept ==
  ASSUME TickInv, Onward, UNCHANGED <<lastFired, ranAt>>,
         \A s \in Slots : outbox[s] = "done" => outbox'[s] = "done",
         loop.pc = "record" => UNCHANGED loop
  PROVE  BatchInv' /\ RanInv'
<1>1. BatchInv'
  <2> SUFFICES ASSUME NEW i \in loop'.batch, NEW t, t = list'[i]
               PROVE  HasWindow(t)' /\ (DueSince(t)' \/ Served(t)')
    BY DEF BatchInv
  <2>1. /\ i \in loop.batch /\ t = list[i] /\ t \in Tasks
        /\ HasWindow(t) /\ (DueSince(t) \/ Served(t))
        /\ loop'.at = loop.at
    BY DEF Onward, TickInv, BatchInv, LoopTypes
  <2>2. HasWindow(t)' /\ Key(t)' = Key(t) /\ Key(t) \in Slots
    BY <2>1, SameKeys, KeyTyped DEF TickInv, HasWindow, Key
  <2>3. DueSince(t) => DueSince(t)'
    BY <2>1 DEF DueSince, DueCron, DueInterval
  <2>4. Served(t) => Served(t)'
    BY <2>1, <2>2 DEF Served
  <2> QED BY <2>1, <2>2, <2>3, <2>4
<1>2. RanInv'
  BY DEF TickInv, RanInv, Noted, Unrecorded, Due, Onward
<1> QED BY <1>1, <1>2

\* The variables of the loop and its tasks.
looped == <<list, enabled, lastFired, outbox, loop, ranAt, since>>

LEMMA TickInvIdle ==
  ASSUME TickInv, UNCHANGED looped, shared' \in BOOLEAN, now' \in Times, writes' \in 0..MaxWrites
  PROVE  TickInv'
<1>1. LoopTypes'
  BY DEF TickInv, LoopTypes, LoopShape, looped
<1>2. /\ list' = list /\ enabled' = enabled /\ lastFired' = lastFired /\ outbox' = outbox
      /\ loop' = loop /\ ranAt' = ranAt /\ since' = since
  BY DEF looped
<1>3. \A t : Key(t)' = Key(t) /\ HasWindow(t)' = HasWindow(t) /\ DueSince(t)' = DueSince(t)
             /\ Served(t)' = Served(t) /\ Asked(t)' = Asked(t) /\ Noted(t)' = Noted(t)
             /\ Unrecorded(t)' = Unrecorded(t)
  BY <1>2 DEF Key, HasWindow, DueSince, DueCron, DueInterval, Served, Asked, Noted, Unrecorded, Due
<1>4. BatchInv' /\ RanInv' /\ OffInv'
  BY <1>2, <1>3 DEF TickInv, BatchInv, RanInv, OffInv
<1>5. RecordInv'
  BY <1>2 DEF TickInv, RecordInv, Slot, Key, Due
<1> QED BY <1>1, <1>4, <1>5 DEF TickInv

LEMMA TickInvTick ==
  ASSUME TickInv, Tick PROVE TickInv'
<1>1. /\ loop.pc = "sleep" /\ now \in Times
      /\ loop' = Continue(now, CollectDue(now))
      /\ UNCHANGED <<shared, now, list, enabled, lastFired, outbox, writes, ranAt, since>>
  BY DEF Tick, live, history, TickInv, LoopTypes
<1>2. \/ loop' = Asleep
      \/ /\ CollectDue(now) # {}
         /\ loop' = [pc |-> "submit", at |-> now, batch |-> CollectDue(now)]
  BY <1>1 DEF Continue
<1>3. CollectDue(now) \subseteq DOMAIN list /\ 0 \in Times
  BY SchedulerAssumption DEF CollectDue, Times
<1>4. LoopTypes' /\ loop'.pc \in {"sleep", "submit"}
  <2>1. LoopShape' /\ loop'.pc \in {"sleep", "submit"} /\ loop'.at \in Times
        /\ loop'.batch \subseteq DOMAIN list
        /\ (loop'.pc = "submit") = (loop'.batch # {})
    BY <1>1, <1>2, <1>3 DEF LoopShape, Asleep
  <2> QED BY <1>1, <2>1 DEF TickInv, LoopTypes
<1>5. \A i \in loop'.batch : i \in DOMAIN list /\ loop'.at = now /\ Decide(list[i], now)
  <2>1. CASE loop' = Asleep
    BY <2>1 DEF Asleep
  <2>2. CASE loop' = [pc |-> "submit", at |-> now, batch |-> CollectDue(now)]
    BY <2>2 DEF CollectDue
  <2> QED BY <1>2, <2>1, <2>2
<1>6. BatchInv'
  <2> SUFFICES ASSUME NEW i \in loop'.batch, NEW t, t = list'[i]
               PROVE  HasWindow(t)' /\ DueSince(t)'
    BY DEF BatchInv
  <2> QED BY <1>1, <1>5 DEF Decide, HasWindow, DueSince, DueCron, DueInterval
<1>7. OffInv'
  <2>1. ASSUME NEW t \in Tasks, ~enabled[t], NEW i \in loop'.batch, list[i] = t PROVE FALSE
    BY <1>5, <2>1 DEF Decide
  <2> QED BY <1>1, <2>1 DEF TickInv, OffInv
<1>8. RanInv' /\ RecordInv'
  BY <1>1, <1>4 DEF TickInv, RanInv, RecordInv, Noted, Unrecorded
<1> QED BY <1>4, <1>6, <1>7, <1>8 DEF TickInv

LEMMA TickInvSubmit ==
  ASSUME TickInv, RunInv, Submit PROVE TickInv'
<1>0. /\ loop.pc = "submit" /\ LoopTypes /\ LoopShape
      /\ UNCHANGED <<shared, now, list, enabled, lastFired, outbox, writes, ranAt>>
  BY DEF Submit, live, TickInv, LoopTypes
<1>t. Due \in Tasks /\ Slot \in Slots
  BY <1>0, TurnOf, SlotTyped DEF TickInv
<1>1. CASE outbox[Slot] = None
  <2>1. /\ loop' = [loop EXCEPT !.pc = "commit"]
        /\ since' = [since EXCEPT ![Due] = IF enabled[Due] THEN 0 ELSE @ + 1]
    BY <1>1 DEF Submit
  <2>2. LoopShape' /\ loop'.pc = "commit" /\ loop'.at = loop.at /\ loop'.batch = loop.batch
    BY <1>0, <2>1 DEF LoopShape
  <2>3. since' \in [Tasks -> Nat]
    <3>1. since \in [Tasks -> Nat]
      BY <1>0 DEF LoopTypes
    <3>2. PICK n \in Nat : n = IF enabled[Due] THEN 0 ELSE since[Due] + 1
      BY <1>t, <3>1
    <3> QED BY <2>1, <3>1, <3>2
  <2>4. LoopTypes'
    BY <1>0, <2>2, <2>3 DEF LoopTypes
  <2>5. BatchInv' /\ RanInv'
    BY <1>0, <2>2, SpacingKept DEF Onward
  <2>6. RecordInv'
    BY <2>2 DEF RecordInv
  <2>7. OffInv'
    <3> SUFFICES ASSUME NEW t \in Tasks, ~enabled[t]
                 PROVE  /\ since'[t] <= 1
                        /\ since'[t] = 1 => \A i \in loop'.batch : list[i] = t => Asked(t)'
      BY <1>0 DEF OffInv
    <3>1. CASE t = Due
      <4>1. since[t] = 0
        <5>1. Min(loop.batch) \in loop.batch /\ list[Min(loop.batch)] = t
          BY <1>0, <3>1, TurnOf DEF Due
        <5>2. outbox[Key(t)] = None
          BY <1>1, <3>1 DEF Slot
        <5>3. since[t] <= 1 /\ since[t] # 1
          BY <1>0, <5>1, <5>2 DEF TickInv, OffInv, Asked
        <5> QED BY <1>0, <5>3 DEF LoopTypes
      <4>2. since'[t] = 1
        BY <1>0, <2>1, <3>1, <4>1 DEF LoopTypes
      <4>3. Asked(t)'
        BY <1>0, <2>2, <3>1 DEF Asked, Due
      <4> QED BY <4>2, <4>3
    <3>2. CASE t # Due
      <4>1. since'[t] = since[t]
        BY <1>0, <2>1, <3>2 DEF LoopTypes
      <4>2. Asked(t) => Asked(t)'
        BY <1>0, <2>2 DEF Asked, Key, Due
      <4> QED BY <2>2, <4>1, <4>2 DEF TickInv, OffInv
    <3> QED BY <3>1, <3>2
  <2> QED BY <2>4, <2>5, <2>6, <2>7 DEF TickInv
<1>2. CASE outbox[Slot] # None
  <2>1. UNCHANGED since /\ loop' = IF outbox[Slot] = "done" THEN [loop EXCEPT !.pc = "record"]
                                   ELSE AfterError
    BY <1>2 DEF Submit
  <2>2. /\ LoopShape' /\ Onward /\ loop'.at \in Times
        /\ loop'.pc \in {"sleep", "submit", "record"}
        /\ (loop'.pc \in {"submit", "record"}) = (loop'.batch # {})
    <3>1. CASE outbox[Slot] = "done"
      BY <1>0, <2>1, <3>1 DEF LoopShape, LoopTypes, Onward
    <3>2. CASE outbox[Slot] # "done"
      BY <1>0, <2>1, <3>2, GivesUp, TurnEnds
    <3> QED BY <3>1, <3>2
  <2>3. LoopTypes'
    BY <1>0, <2>1, <2>2 DEF LoopTypes, Onward
  <2>4. BatchInv' /\ RanInv'
    BY <1>0, <2>2, SpacingKept
  <2>5. OffInv'
    <3>1. \A t \in Tasks : loop'.batch # {} /\ Asked(t) => Asked(t)'
      BY <1>0, <2>2, SameKeys DEF Asked
    <3> QED BY <1>0, <2>1, <2>2, <3>1, OffKept
  <2>6. RecordInv'
    <3>1. CASE outbox[Slot] = "done"
      <4>1. loop'.at = loop.at /\ loop'.batch = loop.batch
        BY <1>0, <2>1, <3>1 DEF LoopShape
      <4>2. Slot' = Slot
        BY <1>0, <4>1 DEF Slot, Key, Due
      <4> QED BY <1>0, <3>1, <4>2 DEF RecordInv
    <3>2. CASE outbox[Slot] # "done"
      <4>1. loop'.pc # "record"
        BY <1>0, <2>1, <3>2, GivesUp, TurnEnds
      <4> QED BY <4>1 DEF RecordInv
    <3> QED BY <3>1, <3>2
  <2> QED BY <2>3, <2>4, <2>5, <2>6 DEF TickInv
<1> QED BY <1>1, <1>2

\* The outcome of a run, a success or an error, is known under its key.
LEMMA OffOutcome ==
  ASSUME TickInv, loop.pc = "commit", Onward, UNCHANGED <<enabled, since>>,
         NEW r \in {"done", "error"}, outbox' = [outbox EXCEPT ![Slot] = r],
         outbox \in [Slots -> {None, "done", "error"}]
  PROVE  OffInv'
<1>1. Slot \in Slots /\ None \notin {"done", "error"}
  BY SlotTyped, SchedulerAssumption DEF TickInv
<1>2. ASSUME NEW t \in Tasks, loop'.batch # {}, Asked(t) PROVE Asked(t)'
  <2>1. Key(t)' = Key(t)
    BY <1>2, SameKeys
  <2>2. CASE Key(t) = Slot
    BY <1>1, <2>1, <2>2 DEF Asked
  <2>3. CASE Key(t) # Slot
    <3>1. outbox[Key(t)] # None
      BY <1>2, <2>3 DEF Asked, Slot
    <3>2. outbox'[Key(t)] = outbox[Key(t)]
      BY <2>3
    <3> QED BY <2>1, <3>1, <3>2 DEF Asked
  <2> QED BY <2>2, <2>3
<1> QED BY <1>2, OffKept

LEMMA TickInvFails ==
  ASSUME TickInv, RunInv, Fails PROVE TickInv'
<1>0. /\ loop.pc = "commit" /\ LoopTypes /\ outbox' = [outbox EXCEPT ![Slot] = "error"]
      /\ loop' = AfterError
      /\ UNCHANGED <<shared, now, list, enabled, lastFired, writes, ranAt, since>>
  BY DEF Fails, live, history, TickInv
<1>1. /\ Onward /\ LoopShape' /\ loop'.pc \in {"sleep", "submit"}
      /\ (loop'.pc = "submit") = (loop'.batch # {})
      /\ loop'.at \in Times /\ loop'.batch \subseteq DOMAIN list
  BY <1>0, GivesUp, TurnEnds
<1>2. LoopTypes'
  BY <1>0, <1>1 DEF LoopTypes
<1>3. Slot \in Slots /\ outbox[Slot] = None /\ outbox \in [Slots -> {None, "done", "error"}]
  BY <1>0, SlotTyped DEF TickInv, RunInv, Running
<1>4. \A s \in Slots : outbox[s] = "done" => outbox'[s] = "done"
  BY <1>0, <1>3, SchedulerAssumption
<1>5. BatchInv' /\ RanInv'
  BY <1>0, <1>1, <1>4, SpacingKept
<1>6. OffInv'
  BY <1>0, <1>1, <1>3, OffOutcome
<1>7. RecordInv'
  BY <1>1 DEF RecordInv
<1> QED BY <1>2, <1>5, <1>6, <1>7 DEF TickInv

\* A task that runs is due by what was recorded when its run began.
LEMMA RunIsDue ==
  ASSUME TickInv, RunInv, loop.pc = "commit"
  PROVE  /\ Due \in Tasks /\ Slot \in Slots /\ outbox[Slot] = None
         /\ HasWindow(Due) /\ DueSince(Due)
<1>1. Due \in Tasks /\ Slot \in Slots /\ outbox[Slot] = None
  BY TurnOf, SlotTyped DEF TickInv, RunInv, Running
<1>2. HasWindow(Due) /\ (DueSince(Due) \/ Served(Due))
  BY TurnOf DEF TickInv, BatchInv, Due
<1> QED BY <1>1, <1>2, SchedulerAssumption DEF Served, Slot

LEMMA TickInvSucceeds ==
  ASSUME TickInv, RunInv, Succeeds PROVE TickInv'
<1>0. /\ loop.pc = "commit" /\ LoopTypes /\ LoopShape
      /\ outbox' = [outbox EXCEPT ![Slot] = "done"]
      /\ ranAt' = [ranAt EXCEPT ![Due] = loop.at]
      /\ loop' = [loop EXCEPT !.pc = "record"]
      /\ UNCHANGED <<shared, now, list, enabled, lastFired, writes, since>>
  BY DEF Succeeds, live, TickInv, LoopTypes
<1>1. LoopShape' /\ loop'.pc = "record" /\ loop'.at = loop.at /\ loop'.batch = loop.batch
  BY <1>0 DEF LoopShape
<1>2. /\ Due' = Due /\ Slot' = Slot /\ Onward
      /\ \A t : Key(t)' = Key(t) /\ HasWindow(t)' = HasWindow(t) /\ DueSince(t)' = DueSince(t)
  BY <1>0, <1>1 DEF Due, Slot, Key, Onward, HasWindow, DueSince, DueCron, DueInterval
<1>3. Due \in Tasks /\ Slot \in Slots /\ outbox \in [Slots -> {None, "done", "error"}]
  BY <1>0, RunIsDue DEF RunInv
<1>4. LoopTypes'
  <2>1. ranAt' \in [Tasks -> Times \cup {None}]
    BY <1>0 DEF LoopTypes
  <2> QED BY <1>0, <1>1, <2>1 DEF LoopTypes
<1>5. BatchInv'
  <2> SUFFICES ASSUME NEW i \in loop'.batch, NEW t, t = list'[i]
               PROVE  HasWindow(t)' /\ (DueSince(t)' \/ Served(t)')
    BY DEF BatchInv
  <2>1. /\ t \in Tasks /\ HasWindow(t) /\ (DueSince(t) \/ Served(t))
    BY <1>0, <1>1 DEF TickInv, BatchInv, LoopTypes
  <2>2. Key(t) \in Slots
    BY <1>0, <2>1, KeyTyped
  <2>3. Served(t) => Served(t)'
    BY <1>0, <1>1, <1>2, <1>3, <2>2 DEF Served
  <2> QED BY <1>2, <2>1, <2>3
<1>6. RecordInv'
  BY <1>0, <1>2, <1>3 DEF RecordInv
<1>7. RanInv'
  <2> SUFFICES ASSUME NEW t \in Tasks, Spaces(t), ranAt'[t] # None
               PROVE  Noted(t)' \/ Unrecorded(t)'
    BY DEF RanInv, Spaces
  <2>1. CASE t = Due
    BY <1>0, <1>1, <1>2, <1>3, <2>1 DEF Unrecorded, LoopTypes
  <2>2. CASE t # Due
    <3>1. ranAt'[t] = ranAt[t]
      BY <1>0, <2>2 DEF LoopTypes
    <3>2. Noted(t)
      BY <1>0, <3>1 DEF TickInv, RanInv, Unrecorded
    <3> QED BY <1>0, <3>1, <3>2 DEF Noted
  <2> QED BY <2>1, <2>2
<1>8. OffInv'
  BY <1>0, <1>2, <1>3, OffOutcome
<1> QED BY <1>4, <1>5, <1>6, <1>7, <1>8 DEF TickInv

LEMMA TickInvRecord ==
  ASSUME TickInv, RunInv, Record PROVE TickInv'
<1>0. /\ loop.pc = "record" /\ LoopTypes
      /\ lastFired' = [lastFired EXCEPT ![Due] = loop.at]
      /\ loop' = Continue(loop.at, Rest)
      /\ UNCHANGED <<shared, now, list, enabled, outbox, writes, ranAt, since>>
  BY DEF Record, history, TickInv
<1>1. /\ Onward /\ LoopShape' /\ loop'.pc \in {"sleep", "submit"}
      /\ (loop'.pc = "submit") = (loop'.batch # {})
      /\ loop'.at \in Times /\ loop'.batch \subseteq DOMAIN list
  BY <1>0, TurnEnds
<1>2. /\ Due \in Tasks /\ outbox[Slot] = "done"
      /\ HasWindow(Due) /\ (DueSince(Due) \/ Served(Due))
  BY <1>0, TurnOf DEF TickInv, BatchInv, RecordInv, Due
<1>3. /\ lastFired' \in [Tasks -> Times \cup {None}]
      /\ \A t \in Tasks : lastFired'[t] = IF t = Due THEN loop.at ELSE lastFired[t]
  BY <1>0 DEF LoopTypes
<1>4. LoopTypes'
  BY <1>0, <1>1, <1>3 DEF LoopTypes
<1>5. BatchInv'
  <2> SUFFICES ASSUME NEW i \in loop'.batch, NEW t, t = list'[i]
               PROVE  HasWindow(t)' /\ (DueSince(t)' \/ Served(t)')
    BY DEF BatchInv
  <2>1. /\ t \in Tasks /\ HasWindow(t) /\ (DueSince(t) \/ Served(t)) /\ loop'.at = loop.at
    BY <1>0, <1>1 DEF TickInv, BatchInv, LoopTypes, Onward
  <2>2. HasWindow(t)' /\ Key(t)' = Key(t)
    BY <1>0, <2>1 DEF HasWindow, Key
  <2>3. CASE t = Due
    <3>1. outbox'[Key(t)] = "done"
      BY <1>0, <1>2, <2>3 DEF Slot
    <3>2. Served(t)'
      BY <1>3, <2>1, <2>2, <2>3, <3>1 DEF Served
    <3> QED BY <2>2, <3>2
  <2>4. CASE t # Due
    <3>1. lastFired'[t] = lastFired[t]
      BY <1>3, <2>1, <2>4
    <3>2. DueSince(t) => DueSince(t)'
      BY <2>1, <3>1 DEF DueSince, DueCron, DueInterval
    <3>3. Served(t) => Served(t)'
      BY <1>0, <2>1, <2>2, <3>1 DEF Served
    <3> QED BY <2>1, <2>2, <3>2, <3>3
  <2> QED BY <2>3, <2>4
<1>6. RecordInv'
  BY <1>1 DEF RecordInv
<1>7. RanInv'
  <2> SUFFICES ASSUME NEW t \in Tasks, Spaces(t), ranAt[t] # None PROVE Noted(t)'
    BY <1>0 DEF RanInv, Spaces
  <2>1. Noted(t) \/ Unrecorded(t)
    BY DEF TickInv, RanInv
  <2>2. CASE t # Due
    BY <1>0, <1>3, <2>1, <2>2 DEF Unrecorded, Noted
  <2>3. CASE t = Due
    <3>1. /\ ranAt[t] \in Nat /\ loop.at \in Times /\ loop.at \in Nat /\ loop.at # None
          /\ lastFired[t] # None => lastFired[t] \in Nat
      <4>1. ranAt[t] \in Times /\ loop.at \in Times /\ lastFired[t] \in Times \cup {None}
        BY <1>0 DEF LoopTypes
      <4>2. Times \subseteq Nat /\ None \notin Nat
        BY SchedulerAssumption DEF Times
      <4> QED BY <4>1, <4>2
    <3>2. ranAt[t] <= loop.at
      <4>1. CASE Unrecorded(t)
        BY <3>1, <4>1 DEF Unrecorded
      <4>2. CASE Noted(t) /\ Served(t)
        BY <4>2 DEF Noted, Served
      <4>3. CASE Noted(t) /\ DueSince(t) /\ t \in Cron
        <5>1. lastFired[t] < Latest(Past(t, loop.at)) /\ Past(t, loop.at) # {}
          BY <4>3 DEF DueSince, DueCron, Noted
        <5>2. Latest(Past(t, loop.at)) \in Nat /\ Latest(Past(t, loop.at)) <= loop.at
          BY <3>1, <5>1, LatestExists DEF Times
        <5> QED BY <3>1, <4>3, <5>1, <5>2 DEF Noted
      <4>4. CASE Noted(t) /\ DueSince(t) /\ t \notin Cron
        <5>1. Interval[t] \in Nat /\ Interval[t] # 0
          BY <4>4, SchedulerAssumption DEF Spaces
        <5>2. loop.at >= lastFired[t] + Interval[t]
          BY <4>4, <5>1 DEF DueSince, DueInterval, Noted
        <5> QED BY <3>1, <4>4, <5>1, <5>2 DEF Noted
      <4> QED BY <1>2, <2>1, <2>3, <4>1, <4>2, <4>3, <4>4
    <3> QED BY <1>0, <1>3, <2>3, <3>1, <3>2 DEF Noted
  <2> QED BY <2>2, <2>3
<1>8. OffInv'
  <2>1. \A t \in Tasks : loop'.batch # {} /\ Asked(t) => Asked(t)'
    BY <1>0, <1>1, SameKeys DEF Asked
  <2> QED BY <1>0, <1>1, <2>1, OffKept
<1> QED BY <1>4, <1>5, <1>6, <1>7, <1>8 DEF TickInv

LEMMA TickInvToggle ==
  ASSUME TickInv, NEW o \in Operators, NEW t \in Tasks, NEW on \in BOOLEAN, Toggle(o, t, on)
  PROVE  TickInv'
<1>1. /\ writes \in 0..MaxWrites /\ writes < MaxWrites /\ writes' = writes + 1
      /\ enabled' = [enabled EXCEPT ![t] = on]
      /\ since' = IF enabled[t] /\ ~on THEN [since EXCEPT ![t] = 0] ELSE since
      /\ UNCHANGED <<shared, now, list, lastFired, outbox, loop, ranAt>>
  BY DEF Toggle, TickInv, LoopTypes
<1>2. /\ enabled' \in [Tasks -> BOOLEAN] /\ since' \in [Tasks -> Nat]
      /\ \A u \in Tasks : enabled'[u] = IF u = t THEN on ELSE enabled[u]
      /\ \A u \in Tasks : since'[u] = IF u = t /\ enabled[t] /\ ~on THEN 0 ELSE since[u]
  BY <1>1 DEF TickInv, LoopTypes
<1>3. writes' \in 0..MaxWrites
  BY <1>1, SchedulerAssumption
<1>4. LoopTypes'
  BY <1>1, <1>2, <1>3 DEF TickInv, LoopTypes, LoopShape
<1>5. \A u : Key(u)' = Key(u) /\ HasWindow(u)' = HasWindow(u) /\ DueSince(u)' = DueSince(u)
             /\ Served(u)' = Served(u) /\ Asked(u)' = Asked(u) /\ Noted(u)' = Noted(u)
             /\ Unrecorded(u)' = Unrecorded(u)
  BY <1>1 DEF Key, HasWindow, DueSince, DueCron, DueInterval, Served, Asked, Noted, Unrecorded, Due
<1>6. BatchInv' /\ RanInv'
  BY <1>1, <1>5 DEF TickInv, BatchInv, RanInv
<1>7. RecordInv'
  BY <1>1 DEF TickInv, RecordInv, Slot, Key, Due
<1>8. OffInv'
  <2> SUFFICES ASSUME NEW u \in Tasks, ~enabled'[u]
               PROVE  /\ since'[u] <= 1
                      /\ since'[u] = 1 => \A i \in loop.batch : list[i] = u => Asked(u)
    BY <1>1, <1>5 DEF OffInv
  <2>1. CASE u # t
    <3>1. ~enabled[u] /\ since'[u] = since[u]
      BY <1>2, <2>1, Zenon
    <3> QED BY <3>1 DEF TickInv, OffInv
  <2>2. CASE u = t /\ enabled[t]
    <3>1. ~on
      BY <1>2, <2>2, Zenon
    <3>2. since'[u] = 0
      BY <1>2, <2>2, <3>1
    <3> QED BY <3>2
  <2>3. CASE u = t /\ ~enabled[t]
    <3>1. since'[u] = since[u]
      BY <1>2, <2>3
    <3> QED BY <2>3, <3>1 DEF TickInv, OffInv
  <2> QED BY <2>1, <2>2, <2>3
<1> QED BY <1>4, <1>6, <1>7, <1>8 DEF TickInv

LEMMA TickInvRestart ==
  ASSUME TickInv, FileInv, Restart PROVE TickInv'
<1>1. \E f \in Configs : list' = Listed(f) /\ enabled' = Flags(Listed(f), f, epoch')
  BY DefaultsTyped DEF Restart, FileInv, FileTypes
<1>2. /\ loop' = Asleep /\ lastFired' = [t \in Tasks |-> None] /\ ranAt' = [t \in Tasks |-> None]
      /\ since' = [t \in Tasks |-> 0] /\ UNCHANGED <<shared, now, writes>> /\ epoch' \in Epochs
  BY SchedulerAssumption DEF Restart, FileInv, FileTypes, Epochs
<1>3. list' \in Seq(Tasks) /\ enabled' \in [Tasks -> BOOLEAN]
  BY <1>2, <1>1, ListedTyped, BootAgrees
<1>4. /\ LoopShape' /\ loop'.pc = "sleep" /\ loop'.at \in Times /\ loop'.batch = {}
  BY <1>2, SchedulerAssumption DEF Asleep, LoopShape, Times
<1>5. LoopTypes'
  BY <1>2, <1>3, <1>4 DEF TickInv, LoopTypes
<1> QED BY <1>2, <1>4, <1>5 DEF TickInv, BatchInv, RecordInv, RanInv, OffInv

LEMMA TickInvInit ==
  ASSUME Init PROVE TickInv
<1>1. LoopTypes
  <2>1. list \in Seq(Tasks) /\ enabled \in [Tasks -> BOOLEAN]
    BY FileInvInit DEF FileInv, FileTypes
  <2>2. 0 \in Times /\ 0 \in 0..MaxWrites
    BY SchedulerAssumption DEF Times
  <2> QED BY <2>1, <2>2 DEF Init, LoopTypes, LoopShape, Asleep
<1>2. loop.pc = "sleep" /\ loop.batch = {}
  BY DEF Init, Asleep
<1> QED BY <1>1, <1>2 DEF Init, TickInv, BatchInv, RecordInv, RanInv, OffInv

LEMMA TickInvStep ==
  ASSUME TickInv, RunInv, FileInv, [Next]_vars PROVE TickInv'
<1>1. CASE Steps
  BY <1>1, TickInvTick, TickInvSubmit, TickInvSucceeds, TickInvFails, TickInvRecord DEF Steps
<1>2. CASE Stop
  <2>1. /\ LoopTypes /\ LoopShape /\ loop.pc = "sleep"
        /\ loop' = [loop EXCEPT !.pc = "stopped"]
        /\ UNCHANGED <<shared, now, list, enabled, lastFired, outbox, writes, ranAt, since>>
    BY <1>2 DEF Stop, live, history, TickInv, LoopTypes
  <2>2. LoopShape' /\ loop'.pc = "stopped" /\ loop'.at = loop.at /\ loop'.batch = loop.batch
    BY <2>1 DEF LoopShape
  <2>3. loop.batch = {} /\ LoopTypes'
    BY <2>1, <2>2 DEF LoopTypes
  <2> QED BY <2>1, <2>2, <2>3
          DEF TickInv, BatchInv, RecordInv, RanInv, OffInv, Noted, Unrecorded
<1>3. CASE Saves \/ UNCHANGED vars
  <2>1. UNCHANGED looped /\ UNCHANGED <<shared, now, writes>>
    BY <1>3 DEF Saves, Load, Save, SaveFails, vars, live, history, looped
  <2> QED BY <2>1, TickInvIdle DEF TickInv, LoopTypes
<1>4. CASE \E o \in Operators, t \in Tasks, on \in BOOLEAN : Toggle(o, t, on)
  BY <1>4, TickInvToggle
<1>5. CASE \E t \in Tasks : Schedule(t)
  <2>1. UNCHANGED looped /\ UNCHANGED <<shared, now>> /\ writes < MaxWrites /\ writes' = writes + 1
    BY <1>5 DEF Schedule, live, history, looped
  <2>2. writes' \in 0..MaxWrites
    BY <2>1, SchedulerAssumption DEF TickInv, LoopTypes
  <2> QED BY <2>1, <2>2, TickInvIdle DEF TickInv, LoopTypes
<1>6. CASE Clock
  <2>1. UNCHANGED looped /\ UNCHANGED <<shared, writes>> /\ now' \in Times
    BY <1>6 DEF Clock, live, history, looped
  <2> QED BY <2>1, TickInvIdle DEF TickInv, LoopTypes
<1>7. CASE Restart
  BY <1>7, TickInvRestart
<1> QED BY <1>1, <1>2, <1>3, <1>4, <1>5, <1>6, <1>7 DEF Next, Orders

IInv == RunInv /\ FileInv /\ TickInv

LEMMA Inductive == Spec => []IInv
<1>1. Init => IInv
  BY RunInvInit, FileInvInit, TickInvInit DEF IInv
<1>2. IInv /\ [Next]_vars => IInv'
  BY RunInvStep, FileInvStep, TickInvStep DEF IInv
<1> QED BY <1>1, <1>2, PTL DEF Spec

\* Every variable keeps its type; the loop is in a tick exactly while entries of
\* the list are left of it.
THEOREM TypeCorrect == Spec => []TypeOK
<1>1. IInv => TypeOK
  <2> SUFFICES ASSUME IInv PROVE TypeOK
    OBVIOUS
  <2>1. RunInv /\ FileTypes /\ LoopTypes
    BY DEF IInv, FileInv, TickInv
  <2>2. loop \in [pc : {"sleep", "submit", "commit", "record", "stopped"},
                  at : Times, batch : SUBSET DOMAIN list]
    BY <2>1 DEF LoopTypes, LoopShape
  <2> QED BY <2>1, <2>2 DEF TypeOK, RunInv, FileTypes, LoopTypes, Requests
<1> QED BY <1>1, Inductive, PTL

(***************************************************************************)
(* However toggles and the loop interleave, a task that is switched off    *)
(* runs at most once more: the tick in progress has collected it, and the  *)
(* key of its window is known once it has run.                             *)
(***************************************************************************)
THEOREM SwitchedOffRunsOnce == Spec => []OffRunsOnceMore
<1>1. IInv => OffRunsOnceMore
  BY DEF IInv, TickInv, OffInv, OffRunsOnceMore
<1> QED BY <1>1, Inductive, PTL

(***************************************************************************)
(* Successful runs of a task are an interval, or a cron occurrence, apart, *)
(* although the decision that a task is due and its run are two steps and  *)
(* the clock may be set back between any of them.                          *)
(***************************************************************************)
THEOREM RunsAreSpaced == Spec => Spaced
<1>1. IInv /\ [Next]_vars =>
        \A t \in Tasks :
          (ranAt'[t] # ranAt[t] /\ epoch' = epoch /\ ranAt[t] # None) =>
             IF t \in Cron THEN ranAt[t] < Window(t, ranAt'[t])
             ELSE Interval[t] = 0 \/ ranAt'[t] >= ranAt[t] + Interval[t]
  <2> SUFFICES ASSUME IInv, [Next]_vars, NEW t \in Tasks,
                      ranAt'[t] # ranAt[t], epoch' = epoch, ranAt[t] # None
               PROVE  IF t \in Cron THEN ranAt[t] < Window(t, ranAt'[t])
                      ELSE Interval[t] = 0 \/ ranAt'[t] >= ranAt[t] + Interval[t]
    OBVIOUS
  <2>1. Succeeds
    <3>1. ~Restart
      BY DEF Restart, IInv, RunInv
    <3> QED BY <3>1 DEF Next, Steps, Stop, Saves, Orders, Clock, vars, live, disk, history,
                        Tick, Submit, Fails, Record, Load, Save, SaveFails, Toggle, Schedule
  <2>2. LoopTypes /\ TickInv /\ RunInv
    BY DEF IInv, TickInv
  <2>3. /\ loop.pc = "commit" /\ ranAt' = [ranAt EXCEPT ![Due] = loop.at]
    BY <2>1 DEF Succeeds
  <2>4. t = Due /\ ranAt'[t] = loop.at
    BY <2>2, <2>3 DEF LoopTypes
  <2>5. HasWindow(t) /\ DueSince(t)
    BY <2>2, <2>3, <2>4, RunIsDue
  <2>6. /\ ranAt[t] \in Nat /\ loop.at \in Nat /\ loop.at \in Times
        /\ lastFired[t] # None => lastFired[t] \in Nat
        /\ Interval[t] \in Nat
    BY <2>2, SchedulerAssumption DEF LoopTypes, Times
  <2>7. Spaces(t) => Noted(t)
    BY <2>2, <2>3 DEF TickInv, RanInv, Unrecorded
  <2>8. CASE t \in Cron
    <3>1. lastFired[t] < Latest(Past(t, loop.at)) /\ Past(t, loop.at) # {} /\ Noted(t)
      BY <2>5, <2>7, <2>8 DEF DueSince, DueCron, Noted, Spaces
    <3>2. Latest(Past(t, loop.at)) \in Nat
      BY <2>6, <3>1, LatestExists DEF Times
    <3>3. ranAt[t] < Latest(Past(t, loop.at))
      BY <2>6, <3>1, <3>2 DEF Noted
    <3> QED BY <2>4, <2>8, <3>3 DEF Window
  <2>9. CASE t \notin Cron /\ Interval[t] # 0
    <3>1. Noted(t) /\ loop.at >= lastFired[t] + Interval[t]
      BY <2>5, <2>7, <2>9 DEF DueSince, DueInterval, Noted, Spaces
    <3> QED BY <2>4, <2>6, <2>9, <3>1 DEF Noted
  <2> QED BY <2>8, <2>9
<1> QED BY <1>1, Inductive, PTL DEF Spec, Spaced
=============================================================================
