------------------------------ MODULE LlmChain ------------------------------
(* LlmFailover: the ordered chain of models an answer is asked from.       *)
(*                                                                         *)
(* Every entry of the chain is a model of a provider with a pool of keys,  *)
(* a cursor into the pool and a health record.  A call asks the healthy    *)
(* entries in order (first pass) and, when none of them answers, every     *)
(* entry whatever its health (second pass).  The entries are behind a      *)
(* mutex that is held for one synchronous step at a time and never while   *)
(* a provider is being asked, so calls of several callers interleave       *)
(* between the steps below.                                                *)
EXTENDS Integers, FiniteSets

CONSTANTS
  Callers,      \* who calls complete() on this chain
  Entry,        \* the positions of the chain, tried in ascending order
  Provider,     \* Entry -> the provider of the model
  KeysOf,       \* Entry -> the number of keys in the entry's pool
  Rungs,        \* the number of rungs of both cooldown ladders
  Wait,         \* 1..Rungs -> COOLDOWN_LADDER
  AuthWait,     \* 1..Rungs -> AUTH_COOLDOWN_LADDER
  Hints,        \* the cooldown_hint()s of the retryable errors, 0 for None
  MaxTime       \* the last instant of the clock

ASSUME ChainAssumption ==
  /\ Entry \subseteq Nat /\ IsFiniteSet(Entry) /\ Entry # {}
  /\ KeysOf \in [Entry -> Nat \ {0}]
  /\ Rungs \in Nat \ {0} /\ MaxTime \in Nat
  /\ Wait \in [1 .. Rungs -> Nat] /\ AuthWait \in [1 .. Rungs -> Nat]
  /\ Hints \subseteq Nat

VARIABLES
  clock,     \* the time the cooldowns are measured against
  cursor,    \* key_cursor of every entry: the key its client is built with
  health,    \* EntryHealth of every entry
  call       \* what every caller's complete() is doing

chainVars == <<clock, cursor, health, call>>

KeysIn(e) == 1 .. KeysOf[e]
Keys == UNION {KeysIn(e) : e \in Entry}
Healthy == [until |-> 0, strike |-> 0, auth |-> 0]
IsCooled(e) == health[e].until > clock
Least(S) == CHOOSE x \in S : \A y \in S : x <= y
Longest(a, b) == IF a >= b THEN a ELSE b

(* The next rung of a ladder: a counter past the last one stays there.     *)
Up(strike) == IF strike < Rungs THEN strike + 1 ELSE Rungs

(* A call.  todo is what is left of the snapshot of the pass and client    *)
(* the key every client of the snapshot was built with; tried is           *)
(* tried_keys.  first, asked and refused are history: the entries that     *)
(* were healthy when the call began, the entries it has asked, and the     *)
(* keys of every entry it has seen refused.                                *)
Resting ==
  [pc |-> "idle", pass |-> 1, todo |-> {}, client |-> [e \in Entry |-> 1],
   tried |-> {}, first |-> {}, asked |-> {}, refused |-> {}]

Ended == {"ok", "failed", "fatal"}
Waiting(c) == call[c].pc = "ask" /\ call[c].todo # {}
Current(c) == Least(call[c].todo)

ChainInit ==
  /\ clock = 0
  /\ cursor = [e \in Entry |-> 1]
  /\ health = [e \in Entry |-> Healthy]
  /\ call = [c \in Callers |-> Resting]

Tick ==
  /\ clock < MaxTime
  /\ clock' = clock + 1
  /\ UNCHANGED <<cursor, health, call>>

(* complete: the first pass, over the clients of the healthy entries.      *)
Snapshot == {e \in Entry : ~IsCooled(e)}

BeginCall_AsksAll(c) ==
  /\ call[c].pc = "idle"
  /\ call' = [call EXCEPT ![c] =
       [Resting EXCEPT !.pc = "ask", !.todo = Entry, !.client = cursor,
                       !.first = Snapshot]]
  /\ UNCHANGED <<clock, cursor, health>>

BeginCall(c) ==
  /\ call[c].pc = "idle"
  /\ call' = [call EXCEPT ![c] =
       [Resting EXCEPT !.pc = "ask", !.todo = Snapshot, !.client = cursor,
                       !.first = Snapshot]]
  /\ UNCHANGED <<clock, cursor, health>>

(* The first pass is over: a new snapshot of every entry, cooled or not.   *)
SecondPass_HealthyOnly(c) ==
  /\ call[c].pc = "ask" /\ call[c].pass = 1 /\ call[c].todo = {}
  /\ call' = [call EXCEPT ![c].pass = 2, ![c].todo = Snapshot,
                          ![c].client = cursor]
  /\ UNCHANGED <<clock, cursor, health>>

SecondPass(c) ==
  /\ call[c].pc = "ask" /\ call[c].pass = 1 /\ call[c].todo = {}
  /\ call' = [call EXCEPT ![c].pass = 2, ![c].todo = Entry,
                          ![c].client = cursor]
  /\ UNCHANGED <<clock, cursor, health>>

(* The second pass is over as well: complete returns the last error.       *)
GiveUp(c) ==
  /\ call[c].pc = "ask" /\ call[c].pass = 2 /\ call[c].todo = {}
  /\ call' = [call EXCEPT ![c].pc = "failed"]
  /\ UNCHANGED <<clock, cursor, health>>

(* The provider answers: record_success.                                   *)
Answers(c) ==
  /\ Waiting(c)
  /\ health' = [health EXCEPT ![Current(c)] = Healthy]
  /\ call' = [call EXCEPT ![c].pc = "ok", ![c].asked = @ \cup {Current(c)}]
  /\ UNCHANGED <<clock, cursor>>

(* The loop goes on with the next entry of the snapshot.                   *)
Onward(c) ==
  [call[c] EXCEPT !.todo = @ \ {Current(c)}, !.tried = {},
                  !.asked = @ \cup {Current(c)}]

(* A parse error or a call of an invalid tool: no other model is asked.    *)
FailsForGood(c) ==
  /\ Waiting(c)
  /\ call' = [call EXCEPT ![c].pc = "fatal", ![c].asked = @ \cup {Current(c)}]
  /\ UNCHANGED <<clock, cursor, health>>

(* A rate limit, an overload, a timeout, a transport error or no content.  *)
FailsForNow(c, hint) ==
  /\ Waiting(c)
  /\ LET e == Current(c)
         s == Up(health[e].strike)
     IN  health' = [health EXCEPT ![e].strike = s,
                      ![e].until = clock + Longest(hint, Wait[s])]
  /\ call' = [call EXCEPT ![c] = Onward(c)]
  /\ UNCHANGED <<clock, cursor>>

(* Not found: the model is gone, its siblings and its keys are not.        *)
ModelGone(c) ==
  /\ Waiting(c)
  /\ LET e == Current(c)
         s == Up(health[e].auth)
     IN  health' = [health EXCEPT ![e].auth = s, ![e].until = clock + AuthWait[s]]
  /\ call' = [call EXCEPT ![c] = Onward(c)]
  /\ UNCHANGED <<clock, cursor>>

(* cool_provider: every entry of the provider, because the key is shared.  *)
CoolProvider(p) ==
  [e \in Entry |->
     IF Provider[e] = p
     THEN [health[e] EXCEPT !.auth = Up(@), !.until = clock + AuthWait[Up(health[e].auth)]]
     ELSE health[e]]

(* The keys of the pool this lap has not tried.  record_failure notes the  *)
(* entry's cursor, which is the refused client's key only as long as no    *)
(* other call has moved it.                                                *)
Tried_NextKey(c) == call[c].tried \cup {cursor[Current(c)], cursor[Current(c)] + 1}
Tried(c) == call[c].tried \cup {cursor[Current(c)]}
Untried_PastTheLast(c) == (1 .. KeysOf[Current(c)] + 1) \ Tried(c)
Untried(c) == KeysIn(Current(c)) \ Tried(c)
Refused(c) == call[c].refused \cup {<<Current(c), call[c].client[Current(c)]>>}

(* The key is refused and the pool has another: the entry switches to it.  *)
SwitchKey_ForgetsLap(c) ==
  /\ Waiting(c) /\ Untried(c) # {}
  /\ cursor' = [cursor EXCEPT ![Current(c)] = Least(Untried(c))]
  /\ call' = [call EXCEPT ![c].pc = "retry", ![c].tried = {},
                          ![c].asked = @ \cup {Current(c)},
                          ![c].refused = Refused(c)]
  /\ UNCHANGED <<clock, health>>

SwitchKey(c) ==
  /\ Waiting(c) /\ Untried(c) # {}
  /\ cursor' = [cursor EXCEPT ![Current(c)] = Least(Untried(c))]
  /\ call' = [call EXCEPT ![c].pc = "retry", ![c].tried = Tried(c),
                          ![c].asked = @ \cup {Current(c)},
                          ![c].refused = Refused(c)]
  /\ UNCHANGED <<clock, health>>

(* RetrySameEntry: the entry's client is read again, with a lock of its own. *)
RetryEntry(c) ==
  /\ call[c].pc = "retry"
  /\ call' = [call EXCEPT ![c].pc = "ask",
                          ![c].client[Current(c)] = cursor[Current(c)]]
  /\ UNCHANGED <<clock, cursor, health>>

(* The key is refused and it was the last: the provider is cooled.         *)
PoolExhausted(c) ==
  /\ Waiting(c) /\ Untried(c) = {}
  /\ health' = CoolProvider(Provider[Current(c)])
  /\ call' = [call EXCEPT ![c] = [Onward(c) EXCEPT !.refused = Refused(c)]]
  /\ UNCHANGED <<clock, cursor>>

(* The caller takes the result.                                            *)
Collect(c) ==
  /\ call[c].pc \in Ended
  /\ call' = [call EXCEPT ![c] = Resting]
  /\ UNCHANGED <<clock, cursor, health>>

(* One step of a call of c that is under way.                              *)
CallStep(c) ==
  \/ SecondPass(c) \/ GiveUp(c) \/ Answers(c) \/ FailsForGood(c)
  \/ \E hint \in Hints : FailsForNow(c, hint)
  \/ ModelGone(c) \/ SwitchKey(c) \/ RetryEntry(c) \/ PoolExhausted(c)

ChainNext ==
  \/ Tick
  \/ \E c \in Callers : BeginCall(c) \/ CallStep(c) \/ Collect(c)

ChainSpec == ChainInit /\ [][ChainNext]_chainVars

-----------------------------------------------------------------------------
(* Type correctness of the chain's state; in particular a strike never     *)
(* indexes past the ladder (ladder_at) and a cursor never leaves its pool. *)
ChainTypeOK ==
  /\ clock \in 0 .. MaxTime
  /\ cursor \in [Entry -> Keys] /\ \A e \in Entry : cursor[e] \in KeysIn(e)
  /\ health \in [Entry -> [until : Nat, strike : 0 .. Rungs, auth : 0 .. Rungs]]
  /\ call \in [Callers ->
       [pc : {"idle", "ask", "retry"} \cup Ended, pass : {1, 2},
        todo : SUBSET Entry, client : [Entry -> Keys], tried : SUBSET Keys,
        first : SUBSET Entry, asked : SUBSET Entry, refused : SUBSET (Entry \X Keys)]]
  /\ \A c \in Callers : call[c].pc = "retry" => call[c].todo # {}

(* "The family never goes without an answer even if every entry is cooling *)
(* down": complete returns a retryable error only after it has asked every *)
(* entry of the chain during this very call, the cooled ones included.     *)
AllAskedBeforeGivingUp ==
  \A c \in Callers : call[c].pc = "failed" => call[c].asked = Entry

(* An entry that was cooling down when the call began is a last resort: it *)
(* is asked after every entry that was healthy then.  One that is cooled   *)
(* down during the call, by its provider, is still asked in its turn.      *)
CooledIsLastResort ==
  \A c \in Callers :
    Waiting(c) /\ Current(c) \notin call[c].first => call[c].first \subseteq call[c].asked

(* One refused key says nothing of the model: the other models of the      *)
(* provider are cooled only once the call has had every key of the entry's *)
(* pool refused.  With two callers on one chain this does not hold (see    *)
(* Tried), which is why an agent and an executor own their chain.          *)
PoolTriedBeforeCooling ==
  [][\A c \in Callers : \A e \in Entry :
       Waiting(c) /\ call'[c] # call[c] /\ e # Current(c) /\ health'[e] # health[e]
         => {Current(c)} \X KeysIn(Current(c)) \subseteq call'[c].refused]_chainVars
=============================================================================
