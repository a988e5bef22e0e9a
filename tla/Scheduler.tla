------------------------------ MODULE Scheduler ------------------------------
(***************************************************************************)
(* familyclaw-scheduler as the runtime starts it: the tick loop, the       *)
(* scheduler it shares with the operator's kill switch, and agency.json,   *)
(* which the kill switch and the schedule_task skill both rewrite.         *)
(*                                                                         *)
(* The loop holds the scheduler's lock only to collect what is due and to  *)
(* record what was fired; while a skill runs, operators toggle tasks and   *)
(* the wall clock moves, in either direction.  The loop's ActionRuntime is *)
(* its own and keeps its outbox in memory: the next process knows nothing  *)
(* of the windows this one has fired.                                      *)
(* With shared = FALSE the loop is `run', which owns its scheduler and     *)
(* gives up a tick at its first error; nobody else is there then.          *)
(***************************************************************************)
EXTENDS Naturals, Sequences, FiniteSetsExt, SequencesExt

CONSTANTS
  Tasks,       (* scheduled tasks                                           *)
  Dream,       (* the task the runtime registers itself, under a random id  *)
  Interval,    (* per task: seconds between firings                         *)
  Cron,        (* the tasks with a cron expression instead                  *)
  Occurs,      (* per task: when its cron expression occurs                 *)
  Operators,   (* requests to POST /scheduler/tasks/{id}                    *)
  Skill,       (* the schedule_task skill                                   *)
  None,        (* no time, no file                                          *)
  MaxTime,     (* bound of the model: the clock                             *)
  MaxRestarts, (* bound of the model: restarts of the process               *)
  MaxWrites    (* bound of the model: toggles and schedule_task calls      *)

ASSUME SchedulerAssumption ==
  /\ Dream \in Tasks /\ Cron \subseteq Tasks
  /\ MaxTime \in Nat /\ MaxRestarts \in Nat /\ MaxWrites \in Nat
  /\ Interval \in [Tasks -> Nat]
  /\ Occurs \in [Tasks -> SUBSET (0..MaxTime)]
  /\ None \notin Nat \cup {"done", "error"} /\ Skill \notin Operators

Times   == 0..MaxTime
Epochs  == 0..MaxRestarts
Ids     == Tasks \X Epochs
Slots   == Tasks \X Times
Writers == Operators \cup {Skill}

VARIABLES
  shared,    (* run_shared, not run                                         *)
  now,       (* the wall clock                                              *)
  epoch,     (* which process this is                                       *)
  list,      (* the registered tasks, in order                              *)
  enabled,   (* per task: ScheduledTask::enabled                            *)
  lastFired, (* per task: last_fired                                        *)
  outbox,    (* per slot: what the loop's runtime remembers                 *)
  loop,      (* the tick loop: pc, time of the tick, what is left of it:
                positions of list                                           *)
  file,      (* agency.json                                                 *)
  req,       (* per writer: pc, task, wanted flag, what it loaded           *)
  writes,    (* toggles and schedule_task calls so far                      *)
  fired,     (* history: runs per slot, in this process                     *)
  ranAt,     (* history: tick of the last successful run, in this process   *)
  since,     (* history: runs begun since the task was switched off         *)
  clash      (* history: in this process writers overlapped, or one failed,
                or the file could not be read at the start                  *)

live == <<list, enabled, lastFired>>
disk == <<file, req, clash>>
history == <<fired, ranAt, since>>
vars == <<shared, now, epoch, list, enabled, lastFired, outbox, loop, file,
          req, writes, fired, ranAt, since, clash>>

\* A task read from agency.json keeps its id; ScheduledTask::new draws one.
Id(t) == <<t, IF t = Dream THEN epoch ELSE 0>>

Config(disabled, scheduled) == [disabled |-> disabled, scheduled |-> scheduled]
Idle  == [pc |-> "idle", task |-> Dream, on |-> FALSE, cfg |-> Config({}, <<>>)]
Asleep == [pc |-> "sleep", at |-> 0, batch |-> {}]

-----------------------------------------------------------------------------
(* Due decisions.                                                           *)

Past(t, n) == {m \in Occurs[t] : m <= n}
Latest(S)  == CHOOSE m \in S : \A k \in S : k <= m

\* The window of a firing key: the interval's bucket, or the cron occurrence.
Window(t, n) == IF t \in Cron THEN Latest(Past(t, n))
                ELSE n \div (IF Interval[t] = 0 THEN 1 ELSE Interval[t])

DueCron(t, n) == /\ Past(t, n) # {}
                 /\ lastFired[t] = None \/ lastFired[t] < Latest(Past(t, n))

DueInterval(t, n) == \/ Interval[t] = 0
                     \/ lastFired[t] = None
                     \/ n >= lastFired[t] + Interval[t]

\* Nothing in the runtime sets expire_after_idle, so no task is idle-expired.
Decide(t, n) == /\ enabled[t]
                /\ IF t \in Cron THEN DueCron(t, n) ELSE DueInterval(t, n)

\* Mutant of CollectDue: the kill switch is not looked at.
CollectDue_IgnoresSwitch(n) ==
  {i \in DOMAIN list : IF list[i] \in Cron THEN DueCron(list[i], n)
                       ELSE DueInterval(list[i], n)}

\* The due tasks, as their places in the list, which a process never changes.
CollectDue(n) == {i \in DOMAIN list : Decide(list[i], n)}

-----------------------------------------------------------------------------
(* Boot: the dream task, then agency.json's tasks, then its disabled list.  *)

Listed(f) == <<Dream>> \o f.scheduled
Flags(l, f, e) ==
  [t \in Tasks |-> /\ t \in ToSet(l)
                   /\ <<t, IF t = Dream THEN e ELSE 0>> \notin f.disabled]

\* What the process may find: a file of an earlier process, or none.
Stable == Tasks \ {Dream}
Found  == \/ file = Config({}, <<>>)
          \/ \E t \in Stable, d \in SUBSET Stable : file = Config(d \X {0}, <<t>>)

Init ==
  /\ shared \in BOOLEAN /\ now = 0 /\ epoch = 0
  /\ Found
  /\ list = Listed(file) /\ enabled = Flags(list, file, 0)
  /\ lastFired = [t \in Tasks |-> None]
  /\ outbox = [s \in Slots |-> None]
  /\ loop = Asleep
  /\ req = [w \in Writers |-> Idle]
  /\ writes = 0
  /\ fired = [s \in Slots |-> 0]
  /\ ranAt = [t \in Tasks |-> None]
  /\ since = [t \in Tasks |-> 0]
  /\ clash = FALSE

\* The process ends, anywhere, and another one starts from the file, or from
\* the defaults when it cannot read it.
Restart ==
  /\ epoch < MaxRestarts
  /\ epoch' = epoch + 1
  /\ \E f \in {file, Config({}, <<>>)} :
       /\ list' = Listed(f) /\ enabled' = Flags(list', f, epoch')
       /\ clash' = (f # file)
  /\ lastFired' = [t \in Tasks |-> None]
  /\ outbox' = [s \in Slots |-> None] /\ fired' = [s \in Slots |-> 0]
  /\ loop' = Asleep
  /\ req' = [w \in Writers |-> Idle]
  /\ ranAt' = [t \in Tasks |-> None]
  /\ since' = [t \in Tasks |-> 0]
  /\ UNCHANGED <<shared, now, file, writes>>

\* NTP and people set the clock back as well.
Clock == /\ now' \in {now + 1, now - 1} \cap Times
         /\ UNCHANGED <<shared, epoch, live, outbox, loop, disk, writes, history>>

-----------------------------------------------------------------------------
(* The tick loop.                                                           *)

\* The shutdown signal is seen between ticks only.
Stop == /\ loop.pc = "sleep"
        /\ loop' = [loop EXCEPT !.pc = "stopped"]
        /\ UNCHANGED <<shared, now, epoch, live, outbox, disk, writes, history>>

Continue(at, rest) == IF rest = {} THEN Asleep
                      ELSE [pc |-> "submit", at |-> at, batch |-> rest]

\* The ticker fires, the clock is read and the due tasks are copied out.
Tick == /\ loop.pc = "sleep"
        /\ loop' = Continue(now, CollectDue(now))
        /\ UNCHANGED <<shared, now, epoch, live, outbox, disk, writes, history>>

\* What is left is served in the order of the list.
Due  == list[Min(loop.batch)]
Rest == loop.batch \ {Min(loop.batch)}

\* The key a task is submitted under, and the one it is the turn of.
Key(t) == <<t, Window(t, loop.at)>>
Slot   == Key(Due)

\* Mutant of AfterError: `run_shared' gives up its tick as `run' does.
AfterError_GivesUp == Asleep

\* Mutant of AfterError: an empty batch is not noticed.
AfterError_StaysOnEmpty == [loop EXCEPT !.pc = "submit", !.batch = Rest]

\* run_shared goes on with the next task; tick returns the error, so run's
\* loop waits for the next tick.
AfterError == IF shared THEN Continue(loop.at, Rest) ELSE Asleep

\* submit_task_idempotent looks the key up: an unknown one is run, and its
\* effect goes out.
Submit ==
  /\ loop.pc = "submit"
  /\ IF outbox[Slot] = None
     THEN /\ loop' = [loop EXCEPT !.pc = "commit"]
          /\ fired' = [fired EXCEPT ![Slot] = @ + 1]
          /\ since' = [since EXCEPT ![Due] = IF enabled[Due] THEN 0 ELSE @ + 1]
     ELSE /\ loop' = IF outbox[Slot] = "done" THEN [loop EXCEPT !.pc = "record"]
                     ELSE AfterError
          /\ UNCHANGED <<fired, since>>
  /\ UNCHANGED <<shared, now, epoch, live, outbox, disk, writes, ranAt>>

\* The outcome is committed under the key, errors as well.
Succeeds ==
  /\ loop.pc = "commit"
  /\ outbox' = [outbox EXCEPT ![Slot] = "done"]
  /\ ranAt' = [ranAt EXCEPT ![Due] = loop.at]
  /\ loop' = [loop EXCEPT !.pc = "record"]
  /\ UNCHANGED <<shared, now, epoch, live, disk, writes, fired, since>>

Fails ==
  /\ loop.pc = "commit"
  /\ outbox' = [outbox EXCEPT ![Slot] = "error"]
  /\ loop' = AfterError
  /\ UNCHANGED <<shared, now, epoch, live, disk, writes, history>>

\* record_fired, with the time the tick began.
Record ==
  /\ loop.pc = "record"
  /\ lastFired' = [lastFired EXCEPT ![Due] = loop.at]
  /\ loop' = Continue(loop.at, Rest)
  /\ UNCHANGED <<shared, now, epoch, list, enabled, outbox, disk, writes, history>>

-----------------------------------------------------------------------------
(* agency.json: load, change, save.                                         *)

Busy(w)   == req[w].pc # "idle"
Others(w) == \E v \in Writers \ {w} : Busy(v)

\* Mutant of Toggle: switching a task on makes it due at once.
Toggle_ResetsInterval(o, t, on) ==
  /\ shared /\ ~Busy(o) /\ writes < MaxWrites
  /\ t \in ToSet(list)
  /\ enabled' = [enabled EXCEPT ![t] = on]
  /\ lastFired' = [lastFired EXCEPT ![t] = None]
  /\ since' = IF enabled[t] /\ ~on THEN [since EXCEPT ![t] = 0] ELSE since
  /\ req' = [req EXCEPT ![o] = [@ EXCEPT !.pc = "load", !.task = t, !.on = on]]
  /\ writes' = writes + 1
  /\ clash' = (clash \/ Others(o))
  /\ UNCHANGED <<shared, now, epoch, list, outbox, loop, file,
                 fired, ranAt>>

\* The kill switch: the live flag under the lock, then the file without it.
Toggle(o, t, on) ==
  /\ shared /\ ~Busy(o) /\ writes < MaxWrites
  /\ t \in ToSet(list)
  /\ enabled' = [enabled EXCEPT ![t] = on]
  /\ since' = IF enabled[t] /\ ~on THEN [since EXCEPT ![t] = 0] ELSE since
  /\ req' = [req EXCEPT ![o] = [@ EXCEPT !.pc = "load", !.task = t, !.on = on]]
  /\ writes' = writes + 1
  /\ clash' = (clash \/ Others(o))
  /\ UNCHANGED <<shared, now, epoch, list, lastFired, outbox, loop, file,
                 fired, ranAt>>

\* An approved schedule_task call.
Schedule(t) ==
  /\ shared /\ ~Busy(Skill) /\ writes < MaxWrites
  /\ t # Dream
  /\ req' = [req EXCEPT ![Skill] = [@ EXCEPT !.pc = "load", !.task = t]]
  /\ writes' = writes + 1
  /\ clash' = (clash \/ Others(Skill))
  /\ UNCHANGED <<shared, now, epoch, live, outbox, loop, file, history>>

Load(w) ==
  /\ req[w].pc = "load"
  /\ req' = [req EXCEPT ![w] = [@ EXCEPT !.pc = "save", !.cfg = file]]
  /\ UNCHANGED <<shared, now, epoch, live, outbox, loop, file, writes, history, clash>>

\* Mutant of Changed: the switch only ever adds to the disabled list.
Changed_NeverRemoves(w) ==
  LET r == req[w] IN
  IF w = Skill
  THEN [r.cfg EXCEPT !.scheduled = IF r.task \in ToSet(@) THEN @ ELSE Append(@, r.task)]
  ELSE [r.cfg EXCEPT !.disabled = @ \cup {Id(r.task)}]

\* AgencyConfig::set, or upsert_scheduled_task, on what was loaded.
Changed(w) ==
  LET r == req[w] IN
  IF w = Skill
  THEN [r.cfg EXCEPT !.scheduled = IF r.task \in ToSet(@) THEN @ ELSE Append(@, r.task)]
  ELSE [r.cfg EXCEPT !.disabled = IF r.on THEN @ \ {Id(r.task)} ELSE @ \cup {Id(r.task)}]

\* The temporary file is written and renamed over the old one.
Save(w) ==
  /\ req[w].pc = "save"
  /\ file' = Changed(w)
  /\ req' = [req EXCEPT ![w] = Idle]
  /\ UNCHANGED <<shared, now, epoch, live, outbox, loop, writes, history, clash>>

\* An I/O error, or another writer renamed the one temporary file both use;
\* the route logs it and keeps the live flag, the skill returns the error.
SaveFails(w) ==
  /\ Busy(w)
  /\ req' = [req EXCEPT ![w] = Idle]
  /\ clash' = TRUE
  /\ UNCHANGED <<shared, now, epoch, live, outbox, loop, file, writes, history>>

-----------------------------------------------------------------------------
Steps  == Tick \/ Submit \/ Succeeds \/ Fails \/ Record
Saves  == \E w \in Writers : Load(w) \/ Save(w) \/ SaveFails(w)
Orders == \/ \E o \in Operators, t \in Tasks, on \in BOOLEAN : Toggle(o, t, on)
          \/ \E t \in Tasks : Schedule(t)

Next == Steps \/ Stop \/ Saves \/ Orders \/ Clock \/ Restart

Spec == Init /\ [][Next]_vars

\* The loop is a spawned task the executor polls, and a skill's run ends.
Fairness == WF_vars(Steps)
FairSpec == Spec /\ Fairness

-----------------------------------------------------------------------------
(* Types.                                                                   *)

Configs == [disabled : SUBSET Ids, scheduled : Seq(Stable)]

TypeOK ==
  /\ shared \in BOOLEAN /\ now \in Times /\ epoch \in Epochs
  /\ list \in Seq(Tasks) /\ enabled \in [Tasks -> BOOLEAN]
  /\ lastFired \in [Tasks -> Times \cup {None}]
  /\ outbox \in [Slots -> {None, "done", "error"}]
  /\ loop \in [pc : {"sleep", "submit", "commit", "record", "stopped"},
               at : Times, batch : SUBSET DOMAIN list]
  /\ (loop.pc \in {"submit", "commit", "record"}) = (loop.batch # {})
  /\ file \in Configs
  /\ req \in [Writers -> [pc : {"idle", "load", "save"}, task : Tasks,
                          on : BOOLEAN, cfg : Configs]]
  /\ writes \in 0..MaxWrites
  /\ fired \in [Slots -> Nat]
  /\ ranAt \in [Tasks -> Times \cup {None}]
  /\ since \in [Tasks -> Nat]
  /\ clash \in BOOLEAN

(***************************************************************************)
(* The kill switch takes effect at the next tick: of the tasks a tick has  *)
(* already collected, one that is then switched off still runs, but at     *)
(* most once, however the toggles and the loop interleave.                *)
(***************************************************************************)
OffRunsOnceMore == \A t \in Tasks : ~enabled[t] => since[t] <= 1

(***************************************************************************)
(* agency.json agrees with what the operators were told: when no writer is *)
(* at work, and in this process none failed or overlapped with another and *)
(* the file could be read, every live flag is the one it would restore.    *)
(***************************************************************************)
FileAgrees ==
  (~clash /\ \A w \in Writers : ~Busy(w)) =>
     \A t \in ToSet(list) : enabled[t] = (Id(t) \notin file.disabled)

(***************************************************************************)
(* Two successful runs of a task in one process are an interval apart, or  *)
(* belong to different cron occurrences, whatever toggles, failed runs and *)
(* steps of the clock lie between them.  A task of interval zero is due at *)
(* every tick.                                                             *)
(***************************************************************************)
Spaced ==
  [][\A t \in Tasks :
       (ranAt'[t] # ranAt[t] /\ epoch' = epoch /\ ranAt[t] # None) =>
          IF t \in Cron THEN ranAt[t] < Window(t, ranAt'[t])
          ELSE Interval[t] = 0 \/ ranAt'[t] >= ranAt[t] + Interval[t]]_vars

\* A run of the current window failed.  Its key keeps the error, so the task,
\* although due, is not run again until its window is over: this is what the
\* code does, and not what dispatch.rs says (RetriesNextTick).
Failed(t) == outbox[<<t, Window(t, now)>>] = "error"
Wanted(t) == t \in ToSet(list) /\ Decide(t, now)
Ahead(t)  == {u \in Tasks : \E i, j \in DOMAIN list : i < j /\ list[i] = u /\ list[j] = t}

(***************************************************************************)
(* A task that is due is served, even if others fail: it stops being due,  *)
(* its own run of this window has failed, or the loop is told to stop.     *)
(* With `run' instead of run_shared, a failing task ahead of it in the     *)
(* list may also keep it from being served.  What happens to a task after  *)
(* its own failure is RetriesNextTick's matter.                            *)
(***************************************************************************)
DueIsServed ==
  \A t \in Tasks :
    Wanted(t) ~> \/ ~Wanted(t) \/ Failed(t) \/ loop.pc = "stopped"
                 \/ ~shared /\ \E u \in Ahead(t) : Failed(u)

(***************************************************************************)
(* Against what dispatch.rs says of Scheduler::tick: "a transient error    *)
(* doesn't `consume' the interval: the task retries on the next tick".     *)
(* A tick of `run' that comes to a task whose run failed would run it      *)
(* again.                                                                  *)
(***************************************************************************)
RetriesNextTick ==
  [][(/\ ~shared /\ loop.pc = "submit" /\ loop' # loop /\ epoch' = epoch
      /\ outbox[Slot] = "error") => fired'[Slot] = fired[Slot] + 1]_vars

(***************************************************************************)
(* A window that was served is not served again by the same process: its   *)
(* skill is not run once more, and what it answered is kept.  Across       *)
(* processes nothing of the kind holds, because the loop's outbox is in    *)
(* memory, although dispatch.rs counts on it "even across a process crash". *)
(***************************************************************************)
ServedOnce ==
  [][\A s \in Slots : (epoch' = epoch /\ outbox[s] = "done") =>
       fired[s] = 1 /\ fired'[s] = 1 /\ outbox'[s] = "done"]_vars

(***************************************************************************)
(* Against what persistence.rs says of the kill switch: "if an operator    *)
(* stopped a task, it must remain stopped after a restart as well".        *)
(***************************************************************************)
KillSwitchSurvivesRestart ==
  [][(epoch' # epoch /\ ~clash /\ ~clash' /\ \A w \in Writers : ~Busy(w)) =>
       \A t \in ToSet(list) : ~enabled[t] => ~enabled'[t]]_vars
=============================================================================
