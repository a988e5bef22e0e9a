-------------------------- MODULE AgentTurns_proofs --------------------------
(***************************************************************************)
(* Proofs about AgentTurns for every set of beings and calls, any budget,  *)
(* and every set of write failures.                                        *)
(***************************************************************************)
EXTENDS AgentTurns, SequenceTheorems, TLAPS

-----------------------------------------------------------------------------
(* What a step does to the being that takes it *)

ActRecord ==
  [pc : PCs, turning : BOOLEAN, item : Items \cup {None},
   src : Episodes \cup {None}, k : 0..MaxCalls, call : Calls \cup {None}]

ActsOK == act \in [Beings -> ActRecord]

\* Being a goes on with v; the others stay where they are.
Gets(a, v) ==
  /\ act' \in [Beings -> ActRecord] /\ act'[a] = v
  /\ \A b \in Beings \ {a} : act'[b] = act[b]

\* The same turn or signal goes on at another place.
GoesTo(a, pc, src, k, call) ==
  /\ act' \in [Beings -> ActRecord]
  /\ \A b \in Beings \ {a} : act'[b] = act[b]
  /\ act'[a].pc = pc /\ act'[a].src = src /\ act'[a].k = k /\ act'[a].call = call
  /\ act'[a].turning = act[a].turning /\ act'[a].item = act[a].item

LEMMA GetsWhat ==
  ASSUME ActsOK, NEW a \in Beings, NEW v \in ActRecord, act' = [act EXCEPT ![a] = v]
  PROVE  Gets(a, v)
BY DEF ActsOK, Gets

LEMMA GetsGoes ==
  ASSUME NEW a \in Beings, NEW v, Gets(a, v),
         v.turning = act[a].turning, v.item = act[a].item
  PROVE  GoesTo(a, v.pc, v.src, v.k, v.call)
BY DEF Gets, GoesTo

LEMMA IdleRecord == Idle \in ActRecord
BY TurnAssumption DEF Idle, Act, ActRecord, PCs

LEMMA GotoGoes ==
  ASSUME ActsOK, NEW a \in Beings, NEW pc \in PCs, Goto(a, pc)
  PROVE  GoesTo(a, pc, act[a].src, act[a].k, act[a].call)
BY DEF ActsOK, Goto, GoesTo, ActRecord

LEMMA LeaveGoes ==
  ASSUME ActsOK, NEW a \in Beings, Leave(a)
  PROVE  \/ act[a].turning /\ GoesTo(a, "answer", act[a].src, act[a].k, act[a].call)
         \/ ~act[a].turning /\ Gets(a, Idle)
<1>1. CASE act[a].turning
  <2>1. Goto(a, "answer") /\ "answer" \in PCs
    BY <1>1 DEF Leave, Goto, ActsOK, PCs
  <2> QED BY <1>1, <2>1, GotoGoes
<1>2. CASE ~act[a].turning
  <2>1. act' = [act EXCEPT ![a] = Idle]
    BY <1>2 DEF Leave
  <2> QED BY <1>2, <2>1, IdleRecord, GetsWhat
<1> QED BY <1>1, <1>2

LEMMA FeedBackGoes ==
  ASSUME ActsOK, NEW a \in Beings, act[a].k < MaxCalls, FeedBack(a)
  PROVE  GoesTo(a, "think", act[a].src, act[a].k + 1, act[a].call)
<1>1. act[a].k \in 0..MaxCalls /\ act[a].k + 1 \in 0..MaxCalls
  BY TurnAssumption DEF ActsOK, ActRecord
<1> DEFINE v == [act[a] EXCEPT !.pc = "think", !.k = act[a].k + 1]
<1>2. act[a] \in ActRecord /\ act' = [act EXCEPT ![a] = v]
  BY DEF ActsOK, FeedBack, ActRecord
<1>3. /\ v \in ActRecord /\ v.pc = "think" /\ v.src = act[a].src /\ v.k = act[a].k + 1
      /\ v.call = act[a].call /\ v.turning = act[a].turning /\ v.item = act[a].item
  BY <1>1, <1>2 DEF ActRecord, PCs
<1> HIDE DEF v
<1>4. Gets(a, v)
  BY <1>2, <1>3, GetsWhat
<1> QED BY <1>3, <1>4, GetsGoes

LEMMA DispatchedGoes ==
  ASSUME ActsOK, NEW a \in Beings, act[a].k < MaxCalls, NEW r, Dispatched(a, r),
         r.phase = "ask" => r.call \in Calls
  PROVE  \/ r.phase = "ask" /\ GoesTo(a, "persist", act[a].src, act[a].k, r.call)
         \/ r.phase # "ask" /\ GoesTo(a, "think", act[a].src, act[a].k + 1, act[a].call)
<1>1. CASE r.phase = "ask"
  <2> DEFINE v == [act[a] EXCEPT !.pc = "persist", !.call = r.call]
  <2>1. act[a] \in ActRecord /\ act' = [act EXCEPT ![a] = v]
    BY <1>1 DEF ActsOK, Dispatched
  <2>2. /\ v \in ActRecord /\ v.pc = "persist" /\ v.src = act[a].src /\ v.k = act[a].k
        /\ v.call = r.call /\ v.turning = act[a].turning /\ v.item = act[a].item
    BY <1>1, <2>1 DEF ActRecord, PCs
  <2> HIDE DEF v
  <2>3. Gets(a, v)
    BY <2>1, <2>2, GetsWhat
  <2> QED BY <1>1, <2>2, <2>3, GetsGoes
<1>2. CASE r.phase # "ask"
  BY <1>2, FeedBackGoes DEF Dispatched
<1> QED BY <1>1, <1>2

-----------------------------------------------------------------------------
(* Types *)

\* What each place of a turn knows.
ActOK(a) ==
  /\ act[a].pc = "idle" => act[a] = Idle
  /\ act[a].turning => /\ turn[a] \in Numbers /\ act[a].item \in Items
                       /\ act[a].item.kind \in {"chat", "approve"}
  /\ act[a].src \in Numbers => act[a].turning /\ act[a].src = turn[a]
  /\ act[a].pc = "remember" => act[a].src \in Numbers
  /\ act[a].pc \in {"think", "submit", "run", "commit", "persist", "suspend"}
       => act[a].src \in Episodes
  /\ act[a].pc \in {"submit", "run", "commit"} =>
       /\ act[a].k < MaxCalls /\ act[a].call \in Calls /\ issued[act[a].call] # None
       /\ issued[act[a].call].by = a /\ issued[act[a].call].key = Key(a)
  /\ act[a].pc \in {"persist", "suspend", "resume", "approve", "approveRun", "approveCommit",
                    "approveRemove", "inject"} => act[a].call \in Calls
  /\ act[a].pc = "answer" => act[a].turning

Typed ==
  /\ outbox \in [Slots -> [phase : Phases, call : Calls \cup {None}]]
  /\ pending \subseteq Calls /\ expired \subseteq Calls
  /\ resum \in [Beings -> SUBSET Calls]
  /\ rows \in 0..(MaxTurn + 1)
  /\ memory \in [Beings -> [Numbers -> Messages \cup Calls \cup {None}]]
  /\ lock \in Beings \cup {None}
  /\ inbox \in [Beings -> Seq(Items)]
  /\ turn \in [Beings -> 0..(MaxTurn + 1)]
  /\ said \in 0..MaxMessages
  /\ fired \in [Slots -> Nat]
  /\ issued \in [Calls -> Issue \cup {None}]
  /\ told \subseteq Beings \X Calls
  /\ continued \in [Beings -> [Calls -> Nat]]
  /\ accepted \subseteq Calls /\ denied \subseteq Calls
  /\ cut \subseteq Beings \X Numbers

\* A request for approval in the outbox names the approval.
AskHasCall == \A s \in Slots : outbox[s].phase = "ask" => outbox[s].call \in Calls

TypeInv == Typed /\ ActsOK /\ AskHasCall /\ \A a \in Beings : ActOK(a)

LEMMA ItemFacts ==
  ASSUME NEW i \in Items
  PROVE  /\ i.kind = "chat" => i.body \in Messages
         /\ i.kind \in {"approve", "resume"} => i.body \in Calls
         /\ i.kind \in {"chat", "approve", "resume"}
BY DEF Items, Chats, Signals, Orders

LEMMA KeyFacts ==
  ASSUME NEW a \in Beings, ActsOK, ActOK(a), act[a].pc \in {"submit", "run", "commit"}
  PROVE  Key(a) \in Keys /\ Key(a) \in Slots /\ act[a].call \in Calls
BY DEF ActsOK, ActRecord, ActOK, Key, Keys, Slots

LEMMA HeadFacts ==
  ASSUME Typed, NEW a \in Beings, inbox[a] # <<>>
  PROVE  Head(inbox[a]) \in Items /\ Tail(inbox[a]) \in Seq(Items)
<1>1. inbox[a] \in Seq(Items)
  BY DEF Typed
<1> QED BY <1>1

\* The message that starts a being's turn or continuation.
LEMMA BeginTurnGets ==
  ASSUME TypeInv, NEW a \in Beings, BeginTurn(a)
  PROVE  /\ Gets(a, Act("remember", TRUE, Head(inbox[a]), turn[a], 0, None))
         /\ Head(inbox[a]) \in Items /\ Head(inbox[a]).kind \in {"chat", "approve"}
<1>1. Head(inbox[a]) \in Items /\ turn[a] \in Numbers
  BY HeadFacts DEF BeginTurn, TypeInv
<1>2. Act("remember", TRUE, Head(inbox[a]), turn[a], 0, None) \in ActRecord
  BY <1>1, TurnAssumption DEF Act, ActRecord, PCs, Episodes
<1> QED BY <1>1, <1>2, GetsWhat DEF BeginTurn, TypeInv

LEMMA ReceiveSignalGets ==
  ASSUME TypeInv, NEW a \in Beings, ReceiveSignal(a)
  PROVE  /\ Gets(a, Act("resume", FALSE, Head(inbox[a]), None, 0, Head(inbox[a]).body))
         /\ Head(inbox[a]) \in Items /\ Head(inbox[a]).body \in Calls
<1>1. Head(inbox[a]) \in Items /\ Head(inbox[a]).body \in Calls
  BY HeadFacts, ItemFacts DEF ReceiveSignal, TypeInv
<1>2. Act("resume", FALSE, Head(inbox[a]), None, 0, Head(inbox[a]).body) \in ActRecord
  BY <1>1, TurnAssumption DEF Act, ActRecord, PCs
<1> QED BY <1>1, <1>2, GetsWhat DEF ReceiveSignal, TypeInv

LEMMA RememberGoes ==
  ASSUME TypeInv, NEW a \in Beings, Remember(a)
  PROVE  \/ /\ act[a].item.kind = "approve" /\ act[a].item.body \in Calls
            /\ GoesTo(a, "resume", act[a].src, act[a].k, act[a].item.body)
         \/ GoesTo(a, "think", act[a].src, act[a].k, act[a].call)
<1>1. act[a] \in ActRecord /\ act[a].item \in Items
  BY DEF Remember, TypeInv, ActsOK, ActOK, At
<1>2. CASE act[a].item.kind = "approve"
  <2> DEFINE v == [act[a] EXCEPT !.pc = "resume", !.call = act[a].item.body]
  <2>1. act' = [act EXCEPT ![a] = v] /\ act[a].item.body \in Calls
    BY <1>1, <1>2, ItemFacts DEF Remember
  <2>2. /\ v \in ActRecord /\ v.pc = "resume" /\ v.src = act[a].src /\ v.k = act[a].k
        /\ v.call = act[a].item.body /\ v.turning = act[a].turning /\ v.item = act[a].item
    BY <1>1, <2>1 DEF ActRecord, PCs
  <2> HIDE DEF v
  <2>3. Gets(a, v)
    BY <2>1, <2>2, GetsWhat DEF TypeInv
  <2> QED BY <1>2, <2>1, <2>2, <2>3, GetsGoes
<1>3. CASE act[a].item.kind # "approve"
  <2>1. Goto(a, "think") /\ "think" \in PCs
    BY <1>3 DEF Remember, Goto, TypeInv, ActsOK, PCs
  <2> QED BY <2>1, GotoGoes DEF TypeInv
<1> QED BY <1>2, <1>3

LEMMA ThinkCallGoes ==
  ASSUME TypeInv, NEW a \in Beings, NEW c \in Calls, ThinkCall(a, c)
  PROVE  GoesTo(a, "submit", act[a].src, act[a].k, c)
<1> DEFINE v == [act[a] EXCEPT !.pc = "submit", !.call = c]
<1>1. act[a] \in ActRecord /\ act' = [act EXCEPT ![a] = v]
  BY DEF ThinkCall, TypeInv, ActsOK
<1>2. /\ v \in ActRecord /\ v.pc = "submit" /\ v.src = act[a].src /\ v.k = act[a].k
      /\ v.call = c /\ v.turning = act[a].turning /\ v.item = act[a].item
  BY <1>1 DEF ActRecord, PCs
<1> HIDE DEF v
<1>3. Gets(a, v)
  BY <1>1, <1>2, GetsWhat DEF TypeInv
<1> QED BY <1>2, <1>3, GetsGoes

LEMMA InjectGoes ==
  ASSUME TypeInv, NEW a \in Beings, Inject(a)
  PROVE  act[a].call \in Calls /\ GoesTo(a, "think", act[a].call, 0, act[a].call)
<1> DEFINE v == [act[a] EXCEPT !.pc = "think", !.src = act[a].call, !.k = 0]
<1>1. act[a] \in ActRecord /\ act' = [act EXCEPT ![a] = v] /\ act[a].call \in Calls
  BY DEF Inject, At, TypeInv, ActsOK, ActOK
<1>2. 0 \in 0..MaxCalls /\ act[a].call \in Episodes
  BY <1>1, TurnAssumption DEF Episodes
<1>3. /\ v \in ActRecord /\ v.pc = "think" /\ v.src = act[a].call /\ v.k = 0
      /\ v.call = act[a].call /\ v.turning = act[a].turning /\ v.item = act[a].item
  BY <1>1, <1>2 DEF ActRecord, PCs
<1> HIDE DEF v
<1>4. Gets(a, v)
  BY <1>1, <1>3, GetsWhat DEF TypeInv
<1> QED BY <1>1, <1>3, <1>4, GetsGoes

\* What has been issued stays as it was issued.
IssuedStays ==
  \A c \in Calls : issued[c] # None =>
    issued'[c] # None /\ issued'[c].by = issued[c].by /\ issued'[c].key = issued[c].key

Knows == ActsOK /\ \A a \in Beings : ActOK(a)

LEMMA OthersKnow ==
  ASSUME TypeInv, IssuedStays, NEW a \in Beings, turn'[a] = turn[a], act'[a] = act[a]
  PROVE  ActOK(a)'
BY DEF TypeInv, ActOK, IssuedStays, Key

\* A step that goes on at another place of the same turn.
LEMMA GoesKnows ==
  ASSUME TypeInv, IssuedStays, UNCHANGED turn, NEW a \in Beings,
         NEW pc \in PCs \ {"idle", "remember"}, NEW src, NEW k, NEW call,
         GoesTo(a, pc, src, k, call),
         src = act[a].src \/ src \in Calls,
         pc \in {"think", "submit", "run", "commit", "persist", "suspend"} => src \in Episodes,
         pc \in {"submit", "run", "commit"} =>
           /\ k < MaxCalls /\ call \in Calls /\ issued'[call] # None
           /\ issued'[call].by = a /\ issued'[call].key = <<src, k>>,
         pc \in {"persist", "suspend", "resume", "approve", "approveRun", "approveCommit",
                "approveRemove", "inject"} => call \in Calls,
         pc = "answer" => act[a].turning
  PROVE  Knows'
<1>1. ActsOK'
  BY DEF GoesTo, ActsOK
<1>2. ASSUME NEW b \in Beings, b # a PROVE ActOK(b)'
  BY <1>2, OthersKnow DEF GoesTo
<1>3. ActOK(a)'
  <2>1. src \in Calls => src \notin Numbers
    BY TurnAssumption DEF Numbers
  <2>2. ActOK(a)
    BY DEF TypeInv
  <2> QED BY <2>1, <2>2 DEF ActOK, GoesTo, Key
<1> QED BY <1>1, <1>2, <1>3 DEF Knows

LEMMA IdleKnows ==
  ASSUME TypeInv, IssuedStays, NEW a \in Beings, \A b \in Beings \ {a} : turn'[b] = turn[b],
         Gets(a, Idle)
  PROVE  Knows'
<1>1. ActsOK'
  BY DEF Gets, ActsOK
<1>2. ASSUME NEW b \in Beings, b # a PROVE ActOK(b)'
  BY <1>2, OthersKnow DEF Gets
<1>3. ActOK(a)'
  <2>1. act'[a] = Idle /\ None \notin Numbers
    BY TurnAssumption DEF Gets, Numbers
  <2> QED BY <2>1 DEF ActOK, Idle, Act
<1> QED BY <1>1, <1>2, <1>3 DEF Knows

LEMMA LeaveKnows ==
  ASSUME TypeInv, IssuedStays, UNCHANGED turn, NEW a \in Beings, Leave(a)
  PROVE  Knows'
<1>1. CASE act[a].turning /\ GoesTo(a, "answer", act[a].src, act[a].k, act[a].call)
  BY <1>1, GoesKnows DEF PCs
<1>2. CASE Gets(a, Idle)
  BY <1>2, IdleKnows
<1> QED BY <1>1, <1>2, LeaveGoes DEF TypeInv

\* A step that changes only the place.
LEMMA GotoKnows ==
  ASSUME TypeInv, IssuedStays, UNCHANGED turn, NEW a \in Beings,
         NEW pc \in PCs \ {"idle", "remember", "answer"}, Goto(a, pc),
         pc \in {"think", "submit", "run", "commit", "persist", "suspend"} => act[a].src \in Episodes,
         pc \in {"submit", "run", "commit"} => act[a].pc \in {"submit", "run", "commit"},
         pc \in {"persist", "suspend", "resume", "approve", "approveRun", "approveCommit",
                "approveRemove", "inject"} => act[a].call \in Calls
  PROVE  Knows'
<1>1. GoesTo(a, pc, act[a].src, act[a].k, act[a].call)
  BY GotoGoes DEF TypeInv
<1>2. act[a].pc \in {"submit", "run", "commit"} =>
        /\ act[a].k < MaxCalls /\ act[a].call \in Calls /\ issued'[act[a].call] # None
        /\ issued'[act[a].call].by = a
        /\ issued'[act[a].call].key = <<act[a].src, act[a].k>>
  BY SMTT(30) DEF TypeInv, ActOK, IssuedStays, Key
<1> QED BY <1>1, <1>2, GoesKnows

\* The outcome of a dispatch, whoever left it under the key.
LEMMA DispatchedKnows ==
  ASSUME TypeInv, IssuedStays, UNCHANGED turn, NEW a \in Beings,
         act[a].pc \in {"submit", "run", "commit"}, NEW r, Dispatched(a, r),
         r.phase = "ask" => r.call \in Calls
  PROVE  Knows'
<1>1. act[a].k < MaxCalls /\ act[a].src \in Episodes
  BY DEF TypeInv, ActOK
<1>2. CASE r.phase = "ask" /\ GoesTo(a, "persist", act[a].src, act[a].k, r.call)
  BY <1>1, <1>2, GoesKnows DEF PCs
<1>3. CASE GoesTo(a, "think", act[a].src, act[a].k + 1, act[a].call)
  BY <1>1, <1>3, GoesKnows DEF PCs
<1> QED BY <1>1, <1>2, <1>3, DispatchedGoes DEF TypeInv

\* The answer is the only thing about a call that a later step may change.
LEMMA AnswerStays ==
  ASSUME TypeInv, NEW a \in Beings, act[a].pc \in {"submit", "run", "commit"},
         NEW d \in Calls \cup {None}, issued' = [issued EXCEPT ![act[a].call].answer = d]
  PROVE  IssuedStays /\ issued'[act[a].call].answer = d
         /\ \A c \in Calls \ {act[a].call} : issued'[c] = issued[c]
<1>1. act[a].call \in Calls /\ issued[act[a].call] # None
  BY DEF TypeInv, ActOK
<1>2. issued[act[a].call] \in Issue
  BY <1>1 DEF TypeInv, Typed
<1>3. \A c \in Calls \ {act[a].call} : issued'[c] = issued[c]
  BY DEF TypeInv, Typed
<1>4. /\ issued'[act[a].call] = [issued[act[a].call] EXCEPT !.answer = d]
      /\ issued'[act[a].call] # None
  <2>1. issued'[act[a].call] = [issued[act[a].call] EXCEPT !.answer = d]
    BY <1>1 DEF TypeInv, Typed
  <2>2. [issued[act[a].call] EXCEPT !.answer = d] \in Issue
    BY <1>2 DEF Issue
  <2> QED BY <2>1, <2>2, SlotAssumption
<1>5. /\ issued'[act[a].call].by = issued[act[a].call].by
      /\ issued'[act[a].call].key = issued[act[a].call].key
      /\ issued'[act[a].call].answer = d
  BY <1>2, <1>4 DEF Issue
<1> QED BY <1>3, <1>4, <1>5 DEF IssuedStays

LEMMA IssuedStep == ASSUME TypeInv, Next PROVE IssuedStays
<1>1. ASSUME NEW a \in Beings, NEW c \in Calls, ThinkCall(a, c) PROVE IssuedStays
  BY <1>1 DEF ThinkCall, IssuedStays, TypeInv, Typed
<1>2. ASSUME NEW a \in Beings, SubmitKnown(a) PROVE IssuedStays
  <2>1. outbox[Key(a)].call \in Calls \cup {None}
    BY <1>2, KeyFacts DEF SubmitKnown, At, TypeInv, Typed
  <2> QED BY <1>2, <2>1, AnswerStays DEF SubmitKnown, At
<1>3. ASSUME NEW a \in Beings, Commit(a) PROVE IssuedStays
  <2>1. act[a].call \in Calls
    BY <1>3 DEF Commit, At, TypeInv, ActOK
  <2> QED BY <1>3, <2>1, AnswerStays DEF Commit, At
<1>4. ASSUME UNCHANGED issued PROVE IssuedStays
  BY <1>4 DEF IssuedStays
<1>5. ASSUME NEW a \in Beings, Local(a) \/ Locked(a) \/ Drop(a) PROVE IssuedStays
  <2>1. ASSUME Local(a) PROVE IssuedStays
    BY <2>1, <1>1, <1>3, <1>4 DEF Local, history, BeginTurn, BeginTurnFails, Remember, RememberFails,
       ThinkAnswer, Run, Suspend, SuspendFails, Answer, ReceiveSignal, Resume, ApproveRun,
       ApproveRunRefused, ApproveCommit, ApproveRemove
  <2>2. ASSUME Locked(a) PROVE IssuedStays
    BY <2>2, <1>2, <1>4 DEF Locked, history, SubmitFresh, Persist, PersistRefused, ApproveIntent,
       ApproveAgain, ApproveRefused, Inject
  <2> QED BY <1>5, <2>1, <2>2, <1>4 DEF Drop
<1>6. ASSUME Outside \/ Crash PROVE IssuedStays
  BY <1>6, <1>4 DEF Outside, history, Say, Order, ApprovePending, DenyPending, Expire, Crash
<1> QED BY <1>5, <1>6 DEF Next

\* Every step leaves every being with what its place must know.
LEMMA LocalKnows ==
  ASSUME TypeInv, IssuedStays, NEW a \in Beings, Local(a) PROVE Knows'
<1> USE DEF At, TypeInv
<1>1. CASE BeginTurn(a)
  <2>1. Head(inbox[a]) \in Items /\ Head(inbox[a]).kind \in {"chat", "approve"}
    BY <1>1, BeginTurnGets
  <2>2. Gets(a, Act("remember", TRUE, Head(inbox[a]), turn[a], 0, None))
    BY <1>1, BeginTurnGets
  <2>3. turn[a] \in Numbers /\ turn' = turn
    BY <1>1 DEF BeginTurn
  <2>4. ActOK(a)'
    BY <2>1, <2>2, <2>3 DEF Gets, ActOK, Act
  <2>5. \A b \in Beings \ {a} : ActOK(b)'
    BY <2>2, <2>3, OthersKnow DEF Gets
  <2> QED BY <2>2, <2>4, <2>5 DEF Knows, ActsOK, Gets
<1>2. CASE BeginTurnFails(a)
  BY <1>2, OthersKnow DEF BeginTurnFails, Knows, ActsOK
<1>3. CASE Remember(a)
  <2>1. act[a].src \in Episodes /\ turn' = turn
    BY <1>3 DEF Remember, ActOK, Episodes
  <2> QED BY <1>3, <2>1, RememberGoes, GoesKnows DEF PCs
<1>4. CASE RememberFails(a)
  BY <1>4, IdleRecord, GetsWhat, IdleKnows DEF RememberFails
<1>5. CASE ThinkAnswer(a)
  BY <1>5, LeaveKnows DEF ThinkAnswer
<1>6. ASSUME NEW c \in Calls, ThinkCall(a, c) PROVE Knows'
  <2>1. GoesTo(a, "submit", act[a].src, act[a].k, c) /\ act[a].src \in Episodes /\ turn' = turn
    BY <1>6, ThinkCallGoes DEF ThinkCall, ActOK
  <2>2. /\ act[a].k < MaxCalls /\ issued'[c] # None /\ issued'[c].by = a
        /\ issued'[c].key = <<act[a].src, act[a].k>>
    <3>1. /\ issued'[c] = [by |-> a, key |-> Key(a), answer |-> None]
          /\ act[a].k < MaxCalls
      BY <1>6 DEF ThinkCall, Typed
    <3>2. act[a].k \in Nat /\ Key(a) \in Keys
      BY <2>1, <3>1 DEF ActsOK, ActRecord, Key, Keys
    <3>3. issued'[c] \in Issue
      BY <3>1, <3>2 DEF Issue
    <3>4. issued'[c] # None
      BY <3>3, SlotAssumption
    <3> QED BY <3>1, <3>4 DEF Key
  <2> QED BY <2>1, <2>2, GoesKnows DEF PCs
<1>7. CASE Run(a)
  BY <1>7, GotoKnows DEF Run, ActOK, PCs
<1>8. CASE Commit(a)
  <2> DEFINE r == Row(IF act[a].call \in pending THEN "ask" ELSE "fed", act[a].call)
  <2>1. act[a].call \in Calls /\ r.call = act[a].call /\ turn' = turn
    BY <1>8 DEF Commit, ActOK, Row
  <2>2. Dispatched(a, r) \/ Leave(a)
    BY <1>8 DEF Commit
  <2> HIDE DEF r
  <2> QED BY <1>8, <2>1, <2>2, DispatchedKnows, LeaveKnows DEF Commit
<1>9. CASE Suspend(a)
  <2>1. CASE act[a].turning /\ act[a].src \in Numbers
    <3>1. act' = [act EXCEPT ![a] = Idle] /\ turn' = [turn EXCEPT ![a] = @ + 1]
      BY <1>9, <2>1 DEF Suspend
    <3>2. \A b \in Beings \ {a} : turn'[b] = turn[b]
      BY <3>1 DEF Typed
    <3> QED BY <3>1, <3>2, IdleRecord, GetsWhat, IdleKnows
  <2>2. CASE ~(act[a].turning /\ act[a].src \in Numbers)
    BY <1>9, <2>2, LeaveKnows DEF Suspend
  <2> QED BY <2>1, <2>2
<1>10. CASE SuspendFails(a)
  BY <1>10, LeaveKnows DEF SuspendFails
<1>11. CASE Answer(a)
  <2>1. \A b \in Beings \ {a} : turn'[b] = turn[b]
    BY <1>11 DEF Answer, Typed
  <2> QED BY <1>11, <2>1, IdleRecord, GetsWhat, IdleKnows DEF Answer
<1>12. CASE ReceiveSignal(a)
  <2>1. Gets(a, Act("resume", FALSE, Head(inbox[a]), None, 0, Head(inbox[a]).body))
    BY <1>12, ReceiveSignalGets
  <2>2. Head(inbox[a]).body \in Calls /\ turn' = turn /\ None \notin Numbers
    <3>1. Head(inbox[a]).body \in Calls
      BY <1>12, ReceiveSignalGets
    <3>2. None \notin Numbers
      BY TurnAssumption DEF Numbers
    <3> QED BY <1>12, <3>1, <3>2 DEF ReceiveSignal
  <2>3. ActOK(a)'
    BY <2>1, <2>2 DEF Gets, ActOK, Act
  <2>4. \A b \in Beings \ {a} : ActOK(b)'
    BY <2>1, <2>2, OthersKnow DEF Gets
  <2> QED BY <2>1, <2>3, <2>4 DEF Knows, ActsOK, Gets
<1>13. CASE Resume(a)
  BY <1>13, LeaveKnows, GotoKnows DEF Resume, ActOK, PCs
<1>14. CASE ApproveRun(a)
  BY <1>14, GotoKnows DEF ApproveRun, ActOK, PCs
<1>15. CASE ApproveRunRefused(a)
  BY <1>15, LeaveKnows DEF ApproveRunRefused
<1>16. CASE ApproveCommit(a)
  <2>1. turn' = turn /\ (Goto(a, "approveRemove") \/ Leave(a))
    BY <1>16 DEF ApproveCommit
  <2> QED BY <1>16, <2>1, GotoKnows, LeaveKnows DEF ApproveCommit, ActOK, PCs
<1>17. CASE ApproveRemove(a)
  <2>1. turn' = turn /\ (Goto(a, "inject") \/ Leave(a))
    BY <1>17 DEF ApproveRemove
  <2> QED BY <1>17, <2>1, GotoKnows, LeaveKnows DEF ApproveRemove, ActOK, PCs
<1> QED
  BY <1>1, <1>2, <1>3, <1>4, <1>5, <1>6, <1>7, <1>8, <1>9, <1>10, <1>11, <1>12, <1>13, <1>14,
     <1>15, <1>16, <1>17 DEF Local

LEMMA LockedKnows ==
  ASSUME TypeInv, IssuedStays, NEW a \in Beings, Locked(a) PROVE Knows'
<1> USE DEF At, TypeInv
<1>1. CASE SubmitFresh(a)
  BY <1>1, GotoKnows DEF SubmitFresh, ActOK, PCs
<1>2. CASE SubmitKnown(a)
  <2>1. Key(a) \in Slots
    BY <1>2, KeyFacts DEF SubmitKnown
  <2>2. outbox[Key(a)].phase = "ask" => outbox[Key(a)].call \in Calls
    BY <2>1 DEF AskHasCall
  <2> QED BY <1>2, <2>2, DispatchedKnows DEF SubmitKnown
<1>3. CASE Persist(a)
  BY <1>3, GotoKnows DEF Persist, ActOK, PCs
<1>4. CASE PersistRefused(a)
  BY <1>4, LeaveKnows DEF PersistRefused
<1>5. CASE ApproveIntent(a)
  BY <1>5, GotoKnows DEF ApproveIntent, ActOK, PCs
<1>6. CASE ApproveAgain(a)
  BY <1>6, GotoKnows DEF ApproveAgain, ActOK, PCs
<1>7. CASE ApproveRefused(a)
  BY <1>7, LeaveKnows DEF ApproveRefused
<1>8. CASE Inject(a)
  <2>1. act[a].call \in Calls /\ GoesTo(a, "think", act[a].call, 0, act[a].call) /\ turn' = turn
    BY <1>8, InjectGoes DEF Inject
  <2>2. act[a].call \in Episodes
    BY <2>1 DEF Episodes
  <2> QED BY <2>1, <2>2, GoesKnows DEF PCs
<1> QED BY <1>1, <1>2, <1>3, <1>4, <1>5, <1>6, <1>7, <1>8 DEF Locked

LEMMA KnowsStep ==
  ASSUME TypeInv, [Next]_vars PROVE Knows'
<1>1. CASE Next
  <2>0. IssuedStays
    BY <1>1, IssuedStep
  <2>1. ASSUME NEW a \in Beings, Drop(a) PROVE Knows'
    BY <2>0, <2>1, IdleRecord, GetsWhat, IdleKnows DEF Drop, TypeInv
  <2>2. CASE Crash
    <3>1. act' = [a \in Beings |-> Idle] /\ None \notin Numbers
      BY <2>2, TurnAssumption DEF Crash, Numbers
    <3>2. ActsOK'
      BY <3>1, IdleRecord DEF ActsOK
    <3>3. \A a \in Beings : ActOK(a)'
      BY <3>1 DEF ActOK, Idle, Act
    <3> QED BY <3>2, <3>3 DEF Knows
  <2>3. CASE Outside
    <3>1. act' = act /\ turn' = turn
      BY <2>3 DEF Outside, Say, Order, ApprovePending, DenyPending, Expire
    <3> QED BY <2>0, <3>1, OthersKnow DEF Knows, ActsOK, TypeInv
  <2> QED BY <1>1, <2>0, <2>1, <2>2, <2>3, LocalKnows, LockedKnows DEF Next
<1>2. CASE UNCHANGED vars
  BY <1>2 DEF vars, Knows, ActsOK, ActOK, TypeInv, Key
<1> QED BY <1>1, <1>2

\* A counter that is raised is a counter.
LEMMA Raised ==
  ASSUME NEW S, NEW f \in [S -> Nat], NEW x \in S
  PROVE  [f EXCEPT ![x] = @ + 1] \in [S -> Nat]
OBVIOUS

LEMMA Replaced ==
  ASSUME NEW S, NEW T, NEW f \in [S -> T], NEW x, NEW y \in T
  PROVE  [f EXCEPT ![x] = y] \in [S -> T]
OBVIOUS

LEMMA RaisedAt ==
  ASSUME NEW S, NEW T, NEW f \in [S -> [T -> Nat]], NEW x \in S, NEW y \in T
  PROVE  /\ [f EXCEPT ![x][y] = @ + 1] \in [S -> [T -> Nat]]
         /\ \A u \in S, v \in T : [f EXCEPT ![x][y] = @ + 1][u][v] >= f[u][v]
OBVIOUS

\* Every step leaves the stores, the mailboxes and the history in their ranges.
LEMMA TypedLocal ==
  ASSUME TypeInv, NEW a \in Beings, Local(a) PROVE Typed'
<1> USE DEF At, TypeInv, Typed
<1>1. CASE BeginTurn(a)
  <2>1. Tail(inbox[a]) \in Seq(Items) /\ turn[a] \in Numbers
    BY <1>1, HeadFacts DEF BeginTurn
  <2>2. turn[a] + 1 \in 0..(MaxTurn + 1)
    BY <2>1, TurnAssumption DEF Numbers
  <2> QED BY <1>1, <2>1, <2>2 DEF BeginTurn, history
<1>2. CASE BeginTurnFails(a)
  <2>1. Tail(inbox[a]) \in Seq(Items)
    BY <1>2, HeadFacts DEF BeginTurnFails
  <2> QED BY <1>2, <2>1 DEF BeginTurnFails, stores, history
<1>3. CASE Remember(a)
  <2>1. act[a].item.body \in Messages \cup Calls /\ act[a].src \in Numbers
    BY <1>3, ItemFacts DEF Remember, ActOK
  <2>2. memory' \in [Beings -> [Numbers -> Messages \cup Calls \cup {None}]]
    BY <1>3, <2>1 DEF Remember
  <2> QED BY <1>3, <2>2 DEF Remember, history
<1>4. CASE RememberFails(a)
  <2>1. turn[a] \in Numbers
    BY <1>4 DEF RememberFails, ActOK
  <2> QED BY <1>4, <2>1 DEF RememberFails, stores
<1>5. CASE ThinkAnswer(a)
  BY <1>5 DEF ThinkAnswer, stores, history
<1>6. ASSUME NEW c \in Calls, ThinkCall(a, c) PROVE Typed'
  <2>1. act[a].src \in Episodes /\ act[a].k \in 0..MaxCalls /\ act[a].k < MaxCalls
    BY <1>6 DEF ThinkCall, ActOK, ActsOK, ActRecord
  <2>2. Key(a) \in Keys
    BY <2>1 DEF Key, Keys
  <2>3. [by |-> a, key |-> Key(a), answer |-> None] \in Issue
    BY <2>2 DEF Issue
  <2> QED BY <1>6, <2>3 DEF ThinkCall, stores
<1>7. CASE Run(a)
  <2>1. Key(a) \in Slots /\ act[a].call \in Calls
    BY <1>7, KeyFacts DEF Run
  <2>3. fired \in [Slots -> Nat] /\ pending \subseteq Calls
    OBVIOUS
  <2>2. pending' \subseteq Calls /\ fired' \in [Slots -> Nat]
    <3>1. CASE act[a].call \in Risky
      BY <1>7, <2>1, <2>3, <3>1 DEF Run
    <3>2. CASE act[a].call \notin Risky
      <4>1. fired' = [fired EXCEPT ![Key(a)] = @ + 1] /\ pending' = pending
        BY <1>7, <3>2 DEF Run
      <4> HIDE DEF TypeInv, Typed
      <4> QED BY <2>1, <2>3, <4>1, Raised
    <3> QED BY <3>1, <3>2
  <2> QED BY <1>7, <2>2 DEF Run
<1>8. CASE Commit(a)
  <2>1. Key(a) \in Slots /\ act[a].call \in Calls
    BY <1>8, KeyFacts DEF Commit
  <2>2. issued' \in [Calls -> Issue \cup {None}]
    <3>1. issued[act[a].call] \in Issue
      BY <1>8, <2>1 DEF Commit, ActOK
    <3>2. [issued[act[a].call] EXCEPT !.answer = act[a].call] \in Issue
      BY <2>1, <3>1 DEF Issue
    <3> QED BY <1>8, <3>2 DEF Commit
  <2>3. outbox' \in [Slots -> [phase : Phases, call : Calls \cup {None}]]
    BY <1>8, <2>1 DEF Commit, Row, Phases, Final
  <2> QED BY <1>8, <2>2, <2>3, TurnAssumption DEF Commit
<1>9. CASE Suspend(a)
  <2>1. act[a].call \in Calls
    BY <1>9 DEF Suspend, ActOK
  <2>2. turn' \in [Beings -> 0..(MaxTurn + 1)]
    <3>1. act[a].turning => turn[a] + 1 \in 0..(MaxTurn + 1)
      BY TurnAssumption DEF ActOK, Numbers
    <3>2. turn \in [Beings -> 0..(MaxTurn + 1)]
      OBVIOUS
    <3>3. turn' = turn \/ (act[a].turning /\ turn' = [turn EXCEPT ![a] = turn[a] + 1])
      <4> HIDE DEF TypeInv, Typed
      <4> QED BY <1>9 DEF Suspend
    <3> HIDE DEF TypeInv, Typed
    <3>4. CASE turn' = turn
      BY <3>2, <3>4
    <3>5. CASE act[a].turning /\ turn' = [turn EXCEPT ![a] = turn[a] + 1]
      BY <3>1, <3>2, <3>5, Replaced
    <3> QED BY <3>3, <3>4, <3>5
  <2>3. told' \subseteq Beings \X Calls
    BY <1>9, <2>1 DEF Suspend
  <2>4. UNCHANGED <<stores, lock, inbox, said, fired, issued, continued, accepted, denied, cut>>
    BY <1>9 DEF Suspend
  <2> QED BY <2>2, <2>3, <2>4 DEF stores
<1>10. CASE SuspendFails(a)
  BY <1>10 DEF SuspendFails, stores, history
<1>11. CASE Answer(a)
  <2>1. turn[a] + 1 \in 0..(MaxTurn + 1)
    BY <1>11, TurnAssumption DEF Answer, ActOK, Numbers
  <2> QED BY <1>11, <2>1 DEF Answer, stores, history
<1>12. CASE ReceiveSignal(a)
  <2>1. Tail(inbox[a]) \in Seq(Items)
    BY <1>12, HeadFacts DEF ReceiveSignal
  <2> QED BY <1>12, <2>1 DEF ReceiveSignal, stores, history
<1>13. CASE Resume(a)
  BY <1>13 DEF Resume, stores, history
<1>14. CASE ApproveRun(a)
  <2>1. act[a].call \in Slots
    BY <1>14 DEF ApproveRun, ActOK, Slots
  <2>2. fired \in [Slots -> Nat]
    OBVIOUS
  <2>3. fired' \in [Slots -> Nat]
    BY <1>14, <2>1, <2>2, Raised DEF ApproveRun
  <2> QED BY <1>14, <2>3 DEF ApproveRun, stores
<1>15. CASE ApproveRunRefused(a)
  <2>1. act[a].call \in Calls /\ act[a].call \in Slots
    BY <1>15 DEF ApproveRunRefused, ActOK, Slots
  <2> QED BY <1>15, <2>1 DEF ApproveRunRefused, Row, Phases, Final, history
<1>16. CASE ApproveCommit(a)
  <2>1. act[a].call \in Calls /\ act[a].call \in Slots
    BY <1>16 DEF ApproveCommit, ActOK, Slots
  <2>2. PICK p \in {"done", "error"} :
          /\ outbox' = [outbox EXCEPT ![act[a].call] = Row(p, act[a].call)]
          /\ (IF p = "done" THEN Goto(a, "approveRemove") /\ UNCHANGED lock
                            ELSE Leave(a) /\ lock' = None)
    BY <1>16 DEF ApproveCommit
  <2>3. outbox' \in [Slots -> [phase : Phases, call : Calls \cup {None}]]
    BY <2>1, <2>2 DEF Row, Phases, Final
  <2>4. lock' \in Beings \cup {None}
    BY <2>2
  <2> QED BY <1>16, <2>3, <2>4 DEF ApproveCommit, history
<1>17. CASE ApproveRemove(a)
  BY <1>17 DEF ApproveRemove, history
<1> QED
  BY <1>1, <1>2, <1>3, <1>4, <1>5, <1>6, <1>7, <1>8, <1>9, <1>10, <1>11, <1>12, <1>13, <1>14,
     <1>15, <1>16, <1>17 DEF Local

LEMMA TypedLocked ==
  ASSUME TypeInv, NEW a \in Beings, Locked(a) PROVE Typed'
<1> USE DEF At, TypeInv, Typed
<1>1. CASE SubmitFresh(a)
  <2>1. Key(a) \in Slots
    BY <1>1, KeyFacts DEF SubmitFresh
  <2> QED BY <1>1, <2>1 DEF SubmitFresh, Row, Phases, Final, history
<1>2. CASE SubmitKnown(a)
  <2>1. Key(a) \in Slots /\ act[a].call \in Calls
    BY <1>2, KeyFacts DEF SubmitKnown
  <2>2. issued[act[a].call] \in Issue /\ outbox[Key(a)].call \in Calls \cup {None}
    BY <1>2, <2>1 DEF SubmitKnown, ActOK
  <2>3. [issued[act[a].call] EXCEPT !.answer = outbox[Key(a)].call] \in Issue
    BY <2>2 DEF Issue
  <2>4. issued' \in [Calls -> Issue \cup {None}]
    BY <1>2, <2>3 DEF SubmitKnown
  <2> QED BY <1>2, <2>4 DEF SubmitKnown, stores
<1>3. CASE Persist(a)
  BY <1>3 DEF Persist, ActOK, history
<1>4. CASE PersistRefused(a)
  <2>1. act[a].call \in Calls /\ act[a].call \in Slots
    BY <1>4 DEF PersistRefused, ActOK, Slots
  <2>2. outbox' \in [Slots -> [phase : Phases, call : Calls \cup {None}]]
    <3>1. \/ outbox' = outbox \/ outbox' = [outbox EXCEPT ![act[a].call] = Row("quarantine", act[a].call)]
          \/ outbox' = [outbox EXCEPT ![act[a].call] = Row("intent", None)]
      BY <1>4 DEF PersistRefused, Rollback
    <3>2. /\ Row("quarantine", act[a].call) \in [phase : Phases, call : Calls \cup {None}]
          /\ Row("intent", None) \in [phase : Phases, call : Calls \cup {None}]
      BY <2>1 DEF Row, Phases, Final
    <3>3. ASSUME NEW r \in [phase : Phases, call : Calls \cup {None}],
                 outbox' = [outbox EXCEPT ![act[a].call] = r]
          PROVE  outbox' \in [Slots -> [phase : Phases, call : Calls \cup {None}]]
      BY <3>3
    <3> QED BY <3>1, <3>2, <3>3
  <2>3. pending' \subseteq Calls /\ told' \subseteq Beings \X Calls
    BY <1>4 DEF PersistRefused, Rollback
  <2>4. resum' \in [Beings -> SUBSET Calls]
    <3>1. resum' = resum \/ resum' = [resum EXCEPT ![a] = resum[a] \ {act[a].call}]
      BY <1>4 DEF PersistRefused, Rollback
    <3> QED BY ZenonT(60), <3>1
  <2> QED BY <1>4, <2>1, <2>2, <2>3, <2>4 DEF PersistRefused
<1>5. CASE ApproveIntent(a)
  <2>1. act[a].call \in Slots
    BY <1>5 DEF ApproveIntent, ActOK, Slots
  <2> QED BY <1>5, <2>1 DEF ApproveIntent, Row, Phases, Final, history
<1>6. CASE ApproveAgain(a)
  BY <1>6 DEF ApproveAgain, stores, history
<1>7. CASE ApproveRefused(a)
  BY <1>7 DEF ApproveRefused, stores, history
<1>8. CASE Inject(a)
  <2>1. act[a].call \in Calls
    BY <1>8, InjectGoes
  <2>2. resum' \in [Beings -> SUBSET Calls]
    <3>1. resum \in [Beings -> SUBSET Calls]
      OBVIOUS
    <3>2. resum' = resum \/ resum' = [resum EXCEPT ![a] = @ \ {act[a].call}]
      <4> HIDE DEF TypeInv, Typed
      <4> QED BY <1>8 DEF Inject
    <3> HIDE DEF TypeInv, Typed
    <3> QED BY <3>1, <3>2
  <2>4. continued \in [Beings -> [Calls -> Nat]]
    OBVIOUS
  <2>3. continued' \in [Beings -> [Calls -> Nat]]
    BY <1>8, <2>1, <2>4, RaisedAt DEF Inject
  <2> QED BY <1>8, <2>2, <2>3 DEF Inject
<1> QED BY <1>1, <1>2, <1>3, <1>4, <1>5, <1>6, <1>7, <1>8 DEF Locked

\* A broadcast puts one more message into every mailbox.
LEMMA BroadcastTyped ==
  ASSUME TypeInv, NEW i \in Items, Broadcast(i)
  PROVE  inbox' \in [Beings -> Seq(Items)]
BY DEF TypeInv, Typed, Broadcast

LEMMA TypedOutside ==
  ASSUME TypeInv, Outside PROVE Typed'
<1> USE DEF TypeInv, Typed
<1>1. CASE Say
  <2>1. Item("chat", said + 1) \in Items /\ said + 1 \in 0..MaxMessages
    BY <1>1, TurnAssumption DEF Say, Item, Items, Chats, Messages
  <2> QED BY <1>1, <2>1, BroadcastTyped DEF Say, stores
<1>2. ASSUME NEW c \in Calls, Order(c) PROVE Typed'
  <2>1. Item("approve", c) \in Items
    BY DEF Item, Items, Orders
  <2> QED BY <1>2, <2>1, BroadcastTyped DEF Order, stores, history
<1>3. ASSUME NEW c \in Calls, ApprovePending(c) PROVE Typed'
  <2>1. Item("resume", c) \in Items
    BY DEF Item, Items, Signals
  <2> QED BY <1>3, <2>1, BroadcastTyped DEF ApprovePending, stores
<1>4. ASSUME NEW c \in Calls, DenyPending(c) PROVE Typed'
  BY <1>4 DEF DenyPending
<1>5. ASSUME NEW c \in Calls, Expire(c) PROVE Typed'
  BY <1>5 DEF Expire, history
<1> QED BY <1>1, <1>2, <1>3, <1>4, <1>5 DEF Outside

LEMMA TypedStep == ASSUME TypeInv, [Next]_vars PROVE Typed'
<1>1. ASSUME NEW a \in Beings, Drop(a) PROVE Typed'
  <2>1. turn[a] \in Numbers
    BY <1>1 DEF Drop, TypeInv, ActOK
  <2> QED BY <1>1, <2>1, SMTT(30) DEF Drop, TypeInv, Typed, stores
<1>2. CASE Crash
  <2>1. <<>> \in Seq(Items)
    OBVIOUS
  <2>2. resum' \in [Beings -> SUBSET Calls]
    BY <1>2 DEF Crash, TypeInv, Typed
  <2>3. memory' \in [Beings -> [Numbers -> Messages \cup Calls \cup {None}]]
    BY <1>2 DEF Crash, TypeInv, Typed
  <2>4. inbox' \in [Beings -> Seq(Items)] /\ turn' \in [Beings -> 0..(MaxTurn + 1)]
    BY <1>2, <2>1 DEF Crash, TypeInv, Typed
  <2> QED BY <1>2, <2>2, <2>3, <2>4 DEF Crash, TypeInv, Typed
<1>3. CASE UNCHANGED vars
  BY <1>3 DEF vars, TypeInv, Typed
<1> QED BY <1>1, <1>2, <1>3, TypedOutside, TypedLocal, TypedLocked DEF Next

\* How a step changes the outbox: not at all, or one row of it.
RowsBecome(s, r) == s \in Slots /\ outbox' = [outbox EXCEPT ![s] = r]

LEMMA OutboxStep ==
  ASSUME TypeInv, [Next]_vars
  PROVE  \/ outbox' = outbox
         \/ \E a \in Beings :
              \/ SubmitFresh(a) /\ RowsBecome(Key(a), Row("intent", None))
              \/ /\ Commit(a)
                 /\ RowsBecome(Key(a), Row(IF act[a].call \in pending THEN "ask" ELSE "fed", act[a].call))
              \/ /\ PersistRefused(a) /\ outbox[act[a].call].phase = "free"
                 /\ \/ RowsBecome(act[a].call, Row("quarantine", act[a].call))
                    \/ RowsBecome(act[a].call, Row("intent", None))
              \/ ApproveIntent(a) /\ RowsBecome(act[a].call, Row("intent", None))
              \/ ApproveRunRefused(a) /\ RowsBecome(act[a].call, Row("error", act[a].call))
              \/ /\ ApproveCommit(a)
                 /\ \E p \in {"done", "error"} : RowsBecome(act[a].call, Row(p, act[a].call))
<1> USE DEF At, TypeInv, RowsBecome
<1>1. ASSUME NEW a \in Beings, Local(a)
      PROVE  \/ outbox' = outbox
             \/ /\ Commit(a)
                /\ RowsBecome(Key(a), Row(IF act[a].call \in pending THEN "ask" ELSE "fed", act[a].call))
             \/ ApproveRunRefused(a) /\ RowsBecome(act[a].call, Row("error", act[a].call))
             \/ /\ ApproveCommit(a)
                /\ \E p \in {"done", "error"} : RowsBecome(act[a].call, Row(p, act[a].call))
  <2>1. CASE Commit(a)
    BY <2>1, KeyFacts DEF Commit
  <2>2. CASE ApproveRunRefused(a)
    BY <2>2 DEF ApproveRunRefused, ActOK, Slots
  <2>3. CASE ApproveCommit(a)
    BY <2>3 DEF ApproveCommit, ActOK, Slots
  <2> QED
    BY <1>1, <2>1, <2>2, <2>3 DEF Local, stores, BeginTurn, BeginTurnFails, Remember, RememberFails,
       ThinkAnswer, ThinkCall, Run, Suspend, SuspendFails, Answer, ReceiveSignal, Resume, ApproveRun,
       ApproveRemove
<1>2. ASSUME NEW a \in Beings, Locked(a)
      PROVE  \/ outbox' = outbox
             \/ SubmitFresh(a) /\ RowsBecome(Key(a), Row("intent", None))
             \/ /\ PersistRefused(a) /\ outbox[act[a].call].phase = "free"
                /\ \/ RowsBecome(act[a].call, Row("quarantine", act[a].call))
                   \/ RowsBecome(act[a].call, Row("intent", None))
             \/ ApproveIntent(a) /\ RowsBecome(act[a].call, Row("intent", None))
  <2>1. CASE SubmitFresh(a)
    BY <2>1, KeyFacts DEF SubmitFresh
  <2>2. CASE PersistRefused(a)
    <3>1. act[a].call \in Slots
      BY <2>2 DEF PersistRefused, ActOK, Slots
    <3> QED BY <2>2, <3>1 DEF PersistRefused, Rollback
  <2>3. CASE ApproveIntent(a)
    BY <2>3 DEF ApproveIntent, ActOK, Slots
  <2> QED
    BY <1>2, <2>1, <2>2, <2>3 DEF Locked, stores, SubmitKnown, Persist, ApproveAgain, ApproveRefused,
       Inject
<1>3. ASSUME Outside \/ Crash \/ UNCHANGED vars \/ \E a \in Beings : Drop(a)
      PROVE  outbox' = outbox
  BY <1>3 DEF Outside, stores, vars, Say, Order, ApprovePending, DenyPending, Expire, Crash, Drop
<1> QED BY <1>1, <1>2, <1>3 DEF Next

LEMMA AskHasCallStep == ASSUME TypeInv, [Next]_vars PROVE AskHasCall'
<1>1. ASSUME NEW s, NEW r, RowsBecome(s, r), r.phase = "ask" => r.call \in Calls
      PROVE  AskHasCall'
  BY <1>1 DEF RowsBecome, AskHasCall, TypeInv, Typed
<1>2. ASSUME NEW a \in Beings, Commit(a) PROVE act[a].call \in Calls
  BY <1>2 DEF Commit, At, TypeInv, ActOK
<1>3. CASE outbox' = outbox
  BY <1>3 DEF AskHasCall, TypeInv
<1> QED BY <1>1, <1>2, <1>3, OutboxStep DEF Row

LEMMA TypeInvInit == Init => TypeInv
<1> SUFFICES ASSUME Init PROVE TypeInv
  OBVIOUS
<1> USE DEF Init
<1>1. 0 \in 0..(MaxTurn + 1) /\ 0 \in 0..MaxMessages /\ <<>> \in Seq(Items) /\ None \notin Numbers
  BY TurnAssumption DEF Numbers
<1>2. Free \in [phase : Phases, call : Calls \cup {None}] /\ Free.phase = "free"
  BY DEF Free, Row, Phases
<1>3. Typed
  BY <1>1, <1>2 DEF Typed
<1>4. ActsOK
  BY IdleRecord DEF ActsOK
<1>5. AskHasCall
  BY <1>2 DEF AskHasCall
<1>6. \A a \in Beings : ActOK(a)
  BY <1>1 DEF ActOK, Idle, Act
<1> QED BY <1>3, <1>4, <1>5, <1>6 DEF TypeInv

LEMMA TypeInvStep == TypeInv /\ [Next]_vars => TypeInv'
BY KnowsStep, TypedStep, AskHasCallStep DEF TypeInv, Knows

\* Every variable stays in its range, and at each place of a turn the being
\* has what the code there uses: its call, its key, its message.
THEOREM TypeCorrect == Spec => []TypeOK
<1>1. TypeInv => TypeOK
  BY DEF TypeInv, Typed, ActsOK, ActRecord, TypeOK
<1> QED BY <1>1, TypeInvInit, TypeInvStep, PTL DEF Spec

-----------------------------------------------------------------------------
(* The lock of the runtime *)

Sections == {"run", "commit", "approveRun", "approveCommit", "approveRemove"}

\* Being a is now at one of the places ps; the others stay where they are.
Moves(a, ps) == act'[a].pc \in ps /\ \A b \in Beings \ {a} : act'[b] = act[b]

LEMMA GetsMoves ==
  ASSUME NEW a \in Beings, NEW v, Gets(a, v) PROVE Moves(a, {v.pc})
BY DEF Gets, Moves

LEMMA GoesMoves ==
  ASSUME NEW a \in Beings, NEW pc, NEW src, NEW k, NEW c, GoesTo(a, pc, src, k, c)
  PROVE  Moves(a, {pc})
BY DEF GoesTo, Moves

LEMMA IdleMoves ==
  ASSUME TypeInv, NEW a \in Beings, act' = [act EXCEPT ![a] = Idle] PROVE Moves(a, {"idle"})
<1>1. Gets(a, Idle) /\ Idle.pc = "idle"
  BY IdleRecord, GetsWhat DEF TypeInv, Idle, Act
<1> QED BY <1>1 DEF Gets, Moves

LEMMA GotoMoves ==
  ASSUME TypeInv, NEW a \in Beings, NEW pc \in PCs, Goto(a, pc) PROVE Moves(a, {pc})
BY GotoGoes, GoesMoves DEF TypeInv

LEMMA LeaveMoves ==
  ASSUME TypeInv, NEW a \in Beings, Leave(a) PROVE Moves(a, {"answer", "idle"})
BY LeaveGoes, GoesMoves, GetsMoves DEF TypeInv, Moves, Idle, Act

LEMMA DispatchedMoves ==
  ASSUME TypeInv, NEW a \in Beings, act[a].pc \in {"submit", "run", "commit"},
         NEW r, Dispatched(a, r), r.phase = "ask" => r.call \in Calls
  PROVE  Moves(a, {"persist", "think"})
<1>1. act[a].k < MaxCalls
  BY DEF TypeInv, ActOK
<1> QED BY <1>1, DispatchedGoes, GoesMoves DEF TypeInv, Moves

\* Where each action leads.
LEMMA MovesOf ==
  ASSUME TypeInv, NEW a \in Beings
  PROVE  /\ BeginTurn(a) => Moves(a, {"remember"})
         /\ BeginTurnFails(a) => Moves(a, {"idle"})
         /\ Remember(a) => Moves(a, {"resume", "think"})
         /\ RememberFails(a) \/ Answer(a) \/ Drop(a) => Moves(a, {"idle"})
         /\ (ThinkAnswer(a) \/ SuspendFails(a) \/ ApproveRunRefused(a) \/ PersistRefused(a)
              \/ ApproveRefused(a)) => Moves(a, {"answer", "idle"})
         /\ \A c \in Calls : ThinkCall(a, c) => Moves(a, {"submit"})
         /\ SubmitFresh(a) => Moves(a, {"run"})
         /\ SubmitKnown(a) => Moves(a, {"persist", "think"})
         /\ Run(a) => Moves(a, {"commit"})
         /\ Commit(a) => Moves(a, {"persist", "think", "answer", "idle"})
         /\ Persist(a) => Moves(a, {"suspend"})
         /\ Suspend(a) => Moves(a, {"answer", "idle"})
         /\ ReceiveSignal(a) => Moves(a, {"resume"})
         /\ Resume(a) => Moves(a, {"approve", "answer", "idle"})
         /\ ApproveIntent(a) => Moves(a, {"approveRun"})
         /\ ApproveAgain(a) => Moves(a, {"inject"})
         /\ ApproveRun(a) => Moves(a, {"approveCommit"})
         /\ ApproveCommit(a) =>
              \/ Goto(a, "approveRemove") /\ Moves(a, {"approveRemove"}) /\ lock' = lock
              \/ Leave(a) /\ Moves(a, {"answer", "idle"}) /\ lock' = None
         /\ ApproveRemove(a) => Moves(a, {"inject", "answer", "idle"})
         /\ Inject(a) => Moves(a, {"think"})
<1> USE DEF At
<1>0. /\ \A pc \in PCs : Goto(a, pc) => Moves(a, {pc})
      /\ Leave(a) => Moves(a, {"answer", "idle"})
      /\ act' = [act EXCEPT ![a] = Idle] => Moves(a, {"idle"})
  BY GotoMoves, LeaveMoves, IdleMoves
<1>1. BeginTurn(a) => Moves(a, {"remember"})
  <2>1. BeginTurn(a) => Gets(a, Act("remember", TRUE, Head(inbox[a]), turn[a], 0, None))
    BY BeginTurnGets
  <2> QED BY <2>1 DEF Gets, Moves, Act
<1>2. BeginTurnFails(a) => Moves(a, {"idle"})
  BY DEF BeginTurnFails, Moves
<1>3. Remember(a) => Moves(a, {"resume", "think"})
  <2>1. Remember(a) => Moves(a, {"resume"}) \/ Moves(a, {"think"})
    BY RememberGoes, GoesMoves
  <2> QED BY <2>1 DEF Moves
<1>4. RememberFails(a) \/ Answer(a) \/ Drop(a) => Moves(a, {"idle"})
  BY <1>0 DEF RememberFails, Answer, Drop
<1>5. (ThinkAnswer(a) \/ SuspendFails(a) \/ ApproveRunRefused(a) \/ PersistRefused(a)
        \/ ApproveRefused(a)) => Moves(a, {"answer", "idle"})
  BY <1>0 DEF ThinkAnswer, SuspendFails, ApproveRunRefused, PersistRefused, ApproveRefused
<1>6. \A c \in Calls : ThinkCall(a, c) => Moves(a, {"submit"})
  BY ThinkCallGoes, GoesMoves
<1>7. SubmitFresh(a) => Moves(a, {"run"})
  BY <1>0 DEF SubmitFresh, PCs
<1>8. SubmitKnown(a) => Moves(a, {"persist", "think"})
  <2>1. SubmitKnown(a) /\ outbox[Key(a)].phase = "ask" => outbox[Key(a)].call \in Calls
    BY KeyFacts DEF SubmitKnown, TypeInv, AskHasCall
  <2> QED BY <2>1, DispatchedMoves DEF SubmitKnown
<1>9. Run(a) => Moves(a, {"commit"})
  BY <1>0 DEF Run, PCs
<1>10. Commit(a) => Moves(a, {"persist", "think", "answer", "idle"})
  <2>1. Commit(a) => act[a].call \in Calls
    BY KeyFacts DEF Commit, TypeInv
  <2>2. Commit(a) => Moves(a, {"persist", "think"}) \/ Moves(a, {"answer", "idle"})
    BY <1>0, <2>1, DispatchedMoves DEF Commit, Row
  <2> QED BY <2>2 DEF Moves
<1>11. Persist(a) => Moves(a, {"suspend"})
  BY <1>0 DEF Persist, PCs
<1>12. Suspend(a) => Moves(a, {"answer", "idle"})
  <2>1. Suspend(a) => Moves(a, {"idle"}) \/ Moves(a, {"answer", "idle"})
    BY <1>0 DEF Suspend
  <2> QED BY <2>1 DEF Moves
<1>13. ReceiveSignal(a) => Moves(a, {"resume"})
  <2>1. ReceiveSignal(a)
          => Gets(a, Act("resume", FALSE, Head(inbox[a]), None, 0, Head(inbox[a]).body))
    BY ReceiveSignalGets
  <2> QED BY <2>1 DEF Gets, Moves, Act
<1>14. Resume(a) => Moves(a, {"approve", "answer", "idle"})
  <2>1. Resume(a) => Moves(a, {"approve"}) \/ Moves(a, {"answer", "idle"})
    BY <1>0 DEF Resume, PCs
  <2> QED BY <2>1 DEF Moves
<1>15. ApproveIntent(a) => Moves(a, {"approveRun"})
  BY <1>0 DEF ApproveIntent, PCs
<1>16. ApproveAgain(a) => Moves(a, {"inject"})
  BY <1>0 DEF ApproveAgain, PCs
<1>17. ApproveRun(a) => Moves(a, {"approveCommit"})
  BY <1>0 DEF ApproveRun, PCs
<1>18. ApproveCommit(a) =>
         \/ Goto(a, "approveRemove") /\ Moves(a, {"approveRemove"}) /\ lock' = lock
         \/ Leave(a) /\ Moves(a, {"answer", "idle"}) /\ lock' = None
  <2>1. "approveRemove" \in PCs
    BY DEF PCs
  <2> QED BY <1>0, <2>1 DEF ApproveCommit
<1>19. ApproveRemove(a) => Moves(a, {"inject", "answer", "idle"})
  <2>1. ApproveRemove(a) => Moves(a, {"inject"}) \/ Moves(a, {"answer", "idle"})
    BY <1>0 DEF ApproveRemove, PCs
  <2> QED BY <2>1 DEF Moves
<1>20. Inject(a) => Moves(a, {"think"})
  BY InjectGoes, GoesMoves
<1> QED
  BY <1>1, <1>2, <1>3, <1>4, <1>5, <1>6, <1>7, <1>8, <1>9, <1>10, <1>11, <1>12, <1>13, <1>14,
     <1>15, <1>16, <1>17, <1>18, <1>19, <1>20

\* How a step goes in and out of the runtime's critical sections.
Apart(a)  == act[a].pc \notin Sections /\ Moves(a, PCs \ Sections) /\ lock' = lock
Enters(a) == act[a].pc \notin Sections /\ lock = None /\ Moves(a, Sections) /\ lock' = a
Inside(a) == act[a].pc \in Sections /\ Moves(a, Sections) /\ lock' = lock
Exits(a)  == act[a].pc \in Sections /\ Moves(a, PCs \ Sections) /\ lock' = None

LEMMA LocalPlaces ==
  ASSUME TypeInv, NEW a \in Beings, Local(a) PROVE Apart(a) \/ Inside(a) \/ Exits(a)
<1> USE DEF At, Sections, PCs, Moves
<1>1. CASE \/ BeginTurn(a) \/ BeginTurnFails(a) \/ Remember(a) \/ RememberFails(a)
           \/ ThinkAnswer(a) \/ \E c \in Calls : ThinkCall(a, c)
  BY <1>1, MovesOf DEF Apart, BeginTurn, BeginTurnFails, Remember, RememberFails, ThinkAnswer,
     ThinkCall
<1>2. CASE Suspend(a) \/ SuspendFails(a) \/ Answer(a) \/ ReceiveSignal(a) \/ Resume(a)
  BY <1>2, MovesOf DEF Apart, Suspend, SuspendFails, Answer, ReceiveSignal, Resume
<1>3. CASE Run(a) \/ ApproveRun(a)
  BY <1>3, MovesOf DEF Inside, Run, ApproveRun
<1>4. CASE Commit(a) \/ ApproveRunRefused(a) \/ ApproveRemove(a)
  BY <1>4, MovesOf DEF Exits, Commit, ApproveRunRefused, ApproveRemove
<1>5. CASE ApproveCommit(a)
  <2>1. act[a].pc = "approveCommit"
    BY <1>5 DEF ApproveCommit
  <2> QED BY <1>5, <2>1, MovesOf DEF Exits, Inside
<1> QED BY <1>1, <1>2, <1>3, <1>4, <1>5 DEF Local

LEMMA LockedPlaces ==
  ASSUME TypeInv, NEW a \in Beings, Locked(a) PROVE Apart(a) \/ Enters(a)
<1> USE DEF At, Sections, PCs, Moves
<1>1. CASE SubmitFresh(a) \/ ApproveIntent(a)
  BY <1>1, MovesOf DEF Enters, SubmitFresh, ApproveIntent, Unlocked
<1>2. CASE SubmitKnown(a) \/ Persist(a) \/ ApproveAgain(a)
  BY <1>2, MovesOf DEF Apart, SubmitKnown, Persist, ApproveAgain
<1>3. CASE PersistRefused(a) \/ ApproveRefused(a) \/ Inject(a)
  BY <1>3, MovesOf DEF Apart, PersistRefused, ApproveRefused, Inject
<1> QED BY <1>1, <1>2, <1>3 DEF Locked

LEMMA MutexStep == TypeInv /\ MutualExclusion /\ [Next]_vars => MutualExclusion'
<1> SUFFICES ASSUME TypeInv, MutualExclusion, [Next]_vars PROVE MutualExclusion'
  OBVIOUS
<1> USE DEF MutualExclusion, Critical
<1>0. None \notin Beings
  BY TurnAssumption
<1>1. ASSUME NEW a \in Beings, Local(a) \/ Locked(a) PROVE MutualExclusion'
  <2>1. Apart(a) \/ Inside(a) \/ Exits(a) \/ Enters(a)
    BY <1>1, LocalPlaces, LockedPlaces
  <2> QED BY <1>0, <2>1 DEF Apart, Inside, Exits, Enters, Moves, Sections
<1>2. ASSUME NEW a \in Beings, Drop(a) PROVE MutualExclusion'
  <2>1. Moves(a, {"idle"}) /\ lock' = IF lock = a THEN None ELSE lock
    BY <1>2, IdleMoves DEF Drop
  <2> QED BY <1>0, <2>1 DEF Moves
<1>3. CASE Crash
  BY <1>0, <1>3 DEF Crash, Idle, Act
<1>4. CASE Outside \/ UNCHANGED vars
  <2>1. act' = act /\ lock' = lock
    BY <1>4 DEF Outside, vars, Say, Order, ApprovePending, DenyPending, Expire
  <2> QED BY <2>1
<1> QED BY <1>1, <1>2, <1>3, <1>4 DEF Next

LEMMA MutexInit == Init => MutualExclusion
<1>1. None \notin Beings /\ Idle.pc = "idle"
  BY TurnAssumption DEF Idle, Act
<1> QED BY <1>1 DEF Init, MutualExclusion, Critical

\* One run at a time inside the runtime: a dropped turn or a dead process
\* releases the lock with the section it was in.
THEOREM OneAtATime == Spec => []MutualExclusion
BY TypeInvInit, TypeInvStep, MutexInit, MutexStep, PTL DEF Spec

-----------------------------------------------------------------------------
(* The outbox and the executors *)

\* What a being's place says of the slot it works on.
PlaceOK(a) ==
  /\ At(a, "run") => outbox[Key(a)].phase = "intent" /\ fired[Key(a)] = 0
  /\ At(a, "commit") => outbox[Key(a)].phase = "intent"
  /\ At(a, "approveRun") => outbox[act[a].call].phase = "intent" /\ fired[act[a].call] = 0
  /\ At(a, "approveCommit") => outbox[act[a].call].phase = "intent" /\ fired[act[a].call] = 1
  /\ act[a].pc \in {"approveRemove", "inject"} => outbox[act[a].call].phase = "done"

\* A slot that was never opened has not fired, one that is done has.
SlotOK(s) ==
  /\ fired[s] \in {0, 1}
  /\ outbox[s].phase = "free" => fired[s] = 0
  /\ outbox[s].phase = "done" => fired[s] = 1

FiredInv == (\A s \in Slots : SlotOK(s)) /\ (\A a \in Beings : PlaceOK(a))

Safe1 == TypeInv /\ MutualExclusion /\ FiredInv

\* The four things that happen to a slot.
Still == outbox' = outbox /\ fired' = fired
Opens(s) == /\ outbox[s].phase = "free" /\ fired' = fired
            /\ outbox' = [outbox EXCEPT ![s] = Row("intent", None)]
Fires(s) == /\ outbox[s].phase = "intent" /\ fired[s] = 0 /\ outbox' = outbox
            /\ fired' = [fired EXCEPT ![s] = 1]
Settles(s, p, c) == /\ outbox[s].phase \in {"free", "intent"} /\ fired' = fired
                    /\ p \in Final /\ c \in Calls /\ (p = "done" => fired[s] = 1)
                    /\ s \in Calls => p \in {"done", "error", "quarantine"}
                    /\ outbox' = [outbox EXCEPT ![s] = Row(p, c)]

SlotStep == \/ Still
            \/ \E s \in Slots : Opens(s) \/ Fires(s) \/ \E p \in Final, c \in Calls : Settles(s, p, c)

LEMMA SlotOKStep ==
  ASSUME Safe1, SlotStep PROVE \A s \in Slots : SlotOK(s)'
<1> USE DEF Safe1, TypeInv, Typed, FiredInv, SlotOK, Row, Final
<1>1. CASE Still
  BY <1>1 DEF Still
<1>2. ASSUME NEW s \in Slots, Opens(s) PROVE \A r \in Slots : SlotOK(r)'
  BY <1>2 DEF Opens
<1>3. ASSUME NEW s \in Slots, Fires(s) PROVE \A r \in Slots : SlotOK(r)'
  BY <1>3 DEF Fires
<1>4. ASSUME NEW s \in Slots, NEW p \in Final, NEW c \in Calls, Settles(s, p, c)
      PROVE  \A r \in Slots : SlotOK(r)'
  BY <1>4 DEF Settles
<1> QED BY <1>1, <1>2, <1>3, <1>4 DEF SlotStep

\* What a step of a being does to the slots, and that it does it alone.
LEMMA SlotsOf ==
  ASSUME Safe1, NEW a \in Beings
  PROVE  /\ SubmitFresh(a) => Key(a) \in Slots /\ Opens(Key(a))
         /\ Run(a) => Key(a) \in Slots /\ (Still \/ Fires(Key(a)))
         /\ Commit(a) => Key(a) \in Slots /\ \E p \in Final, c \in Calls : Settles(Key(a), p, c)
         /\ PersistRefused(a) => Still \/ (/\ act[a].call \in Slots
                                           /\ act[a].call \in Calls
                                           /\ \/ Opens(act[a].call)
                                              \/ Settles(act[a].call, "quarantine", act[a].call))
         /\ ApproveIntent(a) => act[a].call \in Slots /\ Opens(act[a].call)
         /\ ApproveRun(a) => act[a].call \in Slots /\ Fires(act[a].call)
         /\ ApproveRunRefused(a) =>
              act[a].call \in Slots /\ Settles(act[a].call, "error", act[a].call)
         /\ ApproveCommit(a) =>
              act[a].call \in Slots /\ \E p \in {"done", "error"} : Settles(act[a].call, p, act[a].call)
<1> USE DEF Safe1, TypeInv, Typed, At
<1>0. ActOK(a) /\ PlaceOK(a)
  BY DEF FiredInv
<1>1. SubmitFresh(a) => Key(a) \in Slots /\ Opens(Key(a))
  BY KeyFacts DEF SubmitFresh, Opens, history
<1>2. Run(a) => Key(a) \in Slots /\ (Still \/ Fires(Key(a)))
  BY <1>0, KeyFacts DEF Run, Still, Fires, PlaceOK
<1>3. Commit(a) => Key(a) \in Slots /\ \E p \in Final, c \in Calls : Settles(Key(a), p, c)
  <2> SUFFICES ASSUME Commit(a)
               PROVE  Key(a) \in Slots /\ \E p \in Final, c \in Calls : Settles(Key(a), p, c)
    OBVIOUS
  <2> DEFINE p == IF act[a].call \in pending THEN "ask" ELSE "fed"
  <2>1. Key(a) \in Slots /\ act[a].call \in Calls /\ outbox[Key(a)].phase = "intent"
    BY <1>0, KeyFacts DEF Commit, PlaceOK
  <2>2. p \in Final /\ p # "done" /\ outbox' = [outbox EXCEPT ![Key(a)] = Row(p, act[a].call)]
    BY DEF Commit, Final
  <2>3. fired' = fired /\ Key(a) \notin Calls
    BY KeyFacts, SlotAssumption DEF Commit
  <2> HIDE DEF p
  <2>4. Settles(Key(a), p, act[a].call)
    BY <2>1, <2>2, <2>3 DEF Settles
  <2> QED BY <2>1, <2>2, <2>4
<1>4. PersistRefused(a) => Still \/ (/\ act[a].call \in Slots /\ act[a].call \in Calls
                                     /\ \/ Opens(act[a].call)
                                        \/ Settles(act[a].call, "quarantine", act[a].call))
  <2> SUFFICES ASSUME PersistRefused(a), ~Still
               PROVE  /\ act[a].call \in Slots /\ act[a].call \in Calls
                      /\ Opens(act[a].call) \/ Settles(act[a].call, "quarantine", act[a].call)
    OBVIOUS
  <2>1. act[a].call \in Slots /\ act[a].call \in Calls /\ fired' = fired
    BY <1>0 DEF PersistRefused, ActOK, Slots
  <2>2. /\ outbox[act[a].call].phase = "free"
        /\ \/ outbox' = [outbox EXCEPT ![act[a].call] = Row("quarantine", act[a].call)]
           \/ outbox' = [outbox EXCEPT ![act[a].call] = Row("intent", None)]
    BY <2>1 DEF PersistRefused, Rollback, Still
  <2> QED BY <2>1, <2>2 DEF Opens, Settles, Final
<1>5. ApproveIntent(a) => act[a].call \in Slots /\ Opens(act[a].call)
  BY <1>0 DEF ApproveIntent, Opens, ActOK, Slots, history
<1>6. ApproveRun(a) => act[a].call \in Slots /\ Fires(act[a].call)
  <2> SUFFICES ASSUME ApproveRun(a) PROVE act[a].call \in Slots /\ Fires(act[a].call)
    OBVIOUS
  <2>1. /\ act[a].call \in Slots /\ outbox' = outbox
        /\ outbox[act[a].call].phase = "intent" /\ fired[act[a].call] = 0
    BY <1>0 DEF ApproveRun, PlaceOK, ActOK, Slots, stores
  <2>2. fired' = [fired EXCEPT ![act[a].call] = 1]
    BY <2>1 DEF ApproveRun
  <2> QED BY <2>1, <2>2 DEF Fires
<1>7. ApproveRunRefused(a) =>
        act[a].call \in Slots /\ Settles(act[a].call, "error", act[a].call)
  BY <1>0 DEF ApproveRunRefused, Settles, PlaceOK, Final, ActOK, Slots, history
<1>8. ApproveCommit(a) =>
        act[a].call \in Slots /\ \E p \in {"done", "error"} : Settles(act[a].call, p, act[a].call)
  BY <1>0 DEF ApproveCommit, Settles, PlaceOK, Final, ActOK, Slots, history
<1> QED BY <1>1, <1>2, <1>3, <1>4, <1>5, <1>6, <1>7, <1>8

\* Every other step leaves the slots alone.
SlotActions(a) == \/ SubmitFresh(a) \/ Run(a) \/ Commit(a) \/ PersistRefused(a) \/ ApproveIntent(a)
                  \/ ApproveRun(a) \/ ApproveRunRefused(a) \/ ApproveCommit(a)

LEMMA OthersStill ==
  ASSUME NEW a \in Beings, (Local(a) \/ Locked(a)) /\ ~SlotActions(a) PROVE Still
BY DEF Local, Locked, SlotActions, Still, stores, history, BeginTurn, BeginTurnFails, Remember,
   RememberFails, ThinkAnswer, ThinkCall, Suspend, SuspendFails, Answer, ReceiveSignal, Resume,
   ApproveRemove, SubmitKnown, Persist, ApproveAgain, ApproveRefused, Inject

LEMMA SystemStill ==
  ASSUME Outside \/ Crash \/ UNCHANGED vars \/ \E a \in Beings : Drop(a) PROVE Still
BY DEF Outside, Still, stores, vars, history, Say, Order, ApprovePending, DenyPending, Expire, Crash,
   Drop

LEMMA SlotsStep == ASSUME Safe1, [Next]_vars PROVE SlotStep
<1>1. ASSUME NEW a \in Beings, Local(a) \/ Locked(a) PROVE SlotStep
  <2>1. CASE ~SlotActions(a)
    BY <1>1, <2>1, OthersStill DEF SlotStep
  <2>2. CASE SlotActions(a)
    <3>1. "quarantine" \in Final /\ "error" \in Final /\ "done" \in Final
      BY DEF Final
    <3> QED BY <2>2, <3>1, SlotsOf DEF SlotActions, SlotStep, Settles
  <2> QED BY <2>1, <2>2
<1> QED BY <1>1, SystemStill DEF Next, SlotStep
LEMMA DoneStays ==
  ASSUME Safe1, SlotStep, NEW s \in Slots, outbox[s].phase = "done"
  PROVE  outbox'[s].phase = "done"
BY DEF SlotStep, Still, Opens, Fires, Settles, Safe1, TypeInv, Typed

\* A slot is touched under the lock: nobody else is in a section, and a turn
\* whose approval is done keeps it.
LEMMA OthersPlace ==
  ASSUME Safe1, [Next]_vars, NEW b \in Beings, act'[b] = act[b],
         Still \/ \E a \in Beings \ {b} : SlotActions(a)
  PROVE  PlaceOK(b)'
<1>1. CASE Still
  BY <1>1 DEF Still, Safe1, FiredInv, PlaceOK, At, Key
<1>2. ASSUME NEW a \in Beings \ {b}, SlotActions(a) PROVE PlaceOK(b)'
  <2>1. lock = None \/ lock = a
    BY <1>2 DEF SlotActions, SubmitFresh, Run, Commit, PersistRefused, ApproveIntent, ApproveRun,
       ApproveRunRefused, ApproveCommit, At, Unlocked, Safe1, MutualExclusion, Critical
  <2>2. ~Critical(b)
    BY <1>2, <2>1, TurnAssumption DEF Safe1, MutualExclusion
  <2>3. act[b].pc = "inject" => outbox'[act[b].call].phase = "done"
    BY SlotsStep, DoneStays DEF Safe1, FiredInv, PlaceOK, TypeInv, ActOK, Slots
  <2> QED BY <2>2, <2>3 DEF Critical, PlaceOK, At
<1> QED BY <1>1, <1>2

\* The place a being goes to fits the slot it has just changed.
LEMMA OwnPlace ==
  ASSUME Safe1, NEW a \in Beings, Local(a) \/ Locked(a) PROVE PlaceOK(a)'
<1> USE DEF At
<1>0. /\ ActOK(a) /\ PlaceOK(a) /\ TypeInv
      /\ outbox \in [Slots -> [phase : Phases, call : Calls \cup {None}]]
      /\ fired \in [Slots -> Nat]
  BY DEF Safe1, FiredInv, TypeInv, Typed
<1>1. CASE SubmitFresh(a)
  <2>1. GoesTo(a, "run", act[a].src, act[a].k, act[a].call)
    BY <1>0, <1>1, GotoGoes DEF SubmitFresh, TypeInv, PCs
  <2>2. Key(a)' = Key(a) /\ Key(a) \in Slots /\ Opens(Key(a))
    BY <1>1, <2>1, SlotsOf DEF GoesTo, Key
  <2>3. outbox'[Key(a)].phase = "intent" /\ fired'[Key(a)] = 0
    BY <1>0, <2>2 DEF Opens, Row, Safe1, FiredInv, SlotOK
  <2> QED BY <2>1, <2>2, <2>3 DEF GoesTo, PlaceOK
<1>2. CASE Run(a)
  <2>1. GoesTo(a, "commit", act[a].src, act[a].k, act[a].call)
    BY <1>0, <1>2, GotoGoes DEF Run, TypeInv, PCs
  <2>2. Key(a)' = Key(a) /\ outbox'[Key(a)].phase = "intent"
    BY <1>0, <1>2, <2>1 DEF GoesTo, Key, Run, PlaceOK
  <2> QED BY <2>1, <2>2 DEF GoesTo, PlaceOK
<1>3. CASE ApproveIntent(a)
  <2>1. GoesTo(a, "approveRun", act[a].src, act[a].k, act[a].call)
    BY <1>0, <1>3, GotoGoes DEF ApproveIntent, TypeInv, PCs
  <2>2. act[a].call \in Slots /\ Opens(act[a].call)
    BY <1>3, SlotsOf
  <2>3. outbox'[act[a].call].phase = "intent" /\ fired'[act[a].call] = 0
    BY <1>0, <2>2 DEF Opens, Row, Safe1, FiredInv, SlotOK
  <2> QED BY <2>1, <2>3 DEF GoesTo, PlaceOK
<1>4. CASE ApproveRun(a)
  <2>1. GoesTo(a, "approveCommit", act[a].src, act[a].k, act[a].call)
    BY <1>0, <1>4, GotoGoes DEF ApproveRun, TypeInv, PCs
  <2>2. act[a].call \in Slots /\ Fires(act[a].call)
    BY <1>4, SlotsOf
  <2>3. outbox'[act[a].call].phase = "intent" /\ fired'[act[a].call] = 1
    BY <1>0, <2>2 DEF Fires
  <2> QED BY <2>1, <2>3 DEF GoesTo, PlaceOK
<1>5. CASE ApproveCommit(a)
  <2>1. CASE Moves(a, {"answer", "idle"})
    BY <2>1 DEF Moves, PlaceOK
  <2>2. CASE ~Moves(a, {"answer", "idle"})
    <3>1. act[a].call \in Slots
      BY <1>5, SlotsOf
    <3>2. Goto(a, "approveRemove") /\ outbox' = [outbox EXCEPT ![act[a].call] = Row("done", act[a].call)]
      <4>1. PICK p \in {"done", "error"} :
              /\ outbox' = [outbox EXCEPT ![act[a].call] = Row(p, act[a].call)]
              /\ (IF p = "done" THEN Goto(a, "approveRemove") /\ UNCHANGED lock
                                ELSE Leave(a) /\ lock' = None)
        BY <1>5 DEF ApproveCommit
      <4>2. p = "done"
        BY <1>0, <2>2, <4>1, LeaveMoves
      <4> QED BY <4>1, <4>2
    <3>3. GoesTo(a, "approveRemove", act[a].src, act[a].k, act[a].call)
      BY <1>0, <3>2, GotoGoes DEF TypeInv, PCs
    <3>4. outbox'[act[a].call].phase = "done"
      BY <1>0, <3>1, <3>2 DEF Row
    <3> QED BY <3>3, <3>4 DEF GoesTo, PlaceOK
  <2> QED BY <2>1, <2>2
<1>6. CASE ApproveRemove(a) \/ ApproveAgain(a)
  <2>1. outbox' = outbox /\ act[a].call \in Slots /\ outbox[act[a].call].phase = "done"
    BY <1>0, <1>6 DEF ApproveRemove, ApproveAgain, stores, PlaceOK, ActOK, Slots
  <2>2. CASE Goto(a, "inject")
    <3>1. GoesTo(a, "inject", act[a].src, act[a].k, act[a].call)
      BY <1>0, <2>2, GotoGoes DEF TypeInv, PCs
    <3> QED BY <2>1, <3>1 DEF GoesTo, PlaceOK
  <2>3. CASE Leave(a)
    BY <1>0, <2>3, LeaveMoves DEF Moves, PlaceOK
  <2> QED BY <1>6, <2>2, <2>3 DEF ApproveRemove, ApproveAgain
<1>7. CASE \/ Commit(a) \/ SubmitKnown(a) \/ Persist(a) \/ PersistRefused(a)
           \/ ApproveRefused(a) \/ Inject(a) \/ BeginTurn(a) \/ BeginTurnFails(a) \/ Remember(a)
           \/ RememberFails(a) \/ ThinkAnswer(a) \/ \E c \in Calls : ThinkCall(a, c)
  <2>1. Moves(a, PCs \ (Sections \cup {"inject"}))
    BY <1>0, <1>7, MovesOf DEF Moves, PCs, Sections
  <2> QED BY <2>1 DEF Moves, PlaceOK, Sections
<1>8. CASE \/ Suspend(a) \/ SuspendFails(a) \/ Answer(a) \/ ReceiveSignal(a) \/ Resume(a)
           \/ ApproveRunRefused(a)
  <2>1. Moves(a, PCs \ (Sections \cup {"inject"}))
    BY <1>0, <1>8, MovesOf DEF Moves, PCs, Sections
  <2> QED BY <2>1 DEF Moves, PlaceOK, Sections
<1> QED
  BY <1>1, <1>2, <1>3, <1>4, <1>5, <1>6, <1>7, <1>8 DEF Local, Locked

LEMMA FiredInvStep == Safe1 /\ [Next]_vars => FiredInv'
<1> SUFFICES ASSUME Safe1, [Next]_vars PROVE FiredInv'
  OBVIOUS
<1>1. \A s \in Slots : SlotOK(s)'
  BY SlotsStep, SlotOKStep
<1>2. ASSUME NEW b \in Beings PROVE PlaceOK(b)'
  <2>1. ASSUME NEW a \in Beings, Local(a) \/ Locked(a) PROVE PlaceOK(b)'
    <3>1. CASE a = b
      BY <2>1, <3>1, OwnPlace
    <3>2. CASE a # b
      <4>1. act'[b] = act[b]
        BY <2>1, <3>2, LocalPlaces, LockedPlaces DEF Apart, Inside, Exits, Enters, Moves, Safe1
      <4>2. Still \/ SlotActions(a)
        BY <2>1, OthersStill
      <4> QED BY <3>2, <4>1, <4>2, OthersPlace
    <3> QED BY <3>1, <3>2
  <2>2. ASSUME NEW a \in Beings, Drop(a) PROVE PlaceOK(b)'
    <3>1. Moves(a, {"idle"}) /\ Still
      BY <2>2, MovesOf, SystemStill DEF Safe1
    <3> QED BY <3>1, OthersPlace DEF Moves, PlaceOK, At
  <2>3. CASE Crash
    BY <2>3 DEF Crash, PlaceOK, At, Idle, Act
  <2>4. CASE Outside \/ UNCHANGED vars
    <3>1. act' = act
      BY <2>4 DEF Outside, vars, Say, Order, ApprovePending, DenyPending, Expire
    <3> QED BY <2>4, <3>1, SystemStill, OthersPlace
  <2> QED BY <2>1, <2>2, <2>3, <2>4 DEF Next
<1> QED BY <1>1, <1>2 DEF FiredInv

LEMMA Safe1Init == Init => Safe1
<1> SUFFICES ASSUME Init PROVE Safe1
  OBVIOUS
<1>1. TypeInv /\ MutualExclusion
  BY TypeInvInit, MutexInit
<1>2. \A s \in Slots : SlotOK(s)
  BY DEF Init, SlotOK, Free, Row
<1>3. \A a \in Beings : PlaceOK(a)
  BY DEF Init, PlaceOK, At, Idle, Act
<1> QED BY <1>1, <1>2, <1>3 DEF Safe1, FiredInv

LEMMA Safe1Step == Safe1 /\ [Next]_vars => Safe1'
<1>1. Safe1 => TypeInv /\ MutualExclusion
  BY DEF Safe1
<1>2. Safe1' <=> TypeInv' /\ MutualExclusion' /\ FiredInv'
  BY DEF Safe1
<1> QED BY <1>1, <1>2, TypeInvStep, MutexStep, FiredInvStep

\* Every step of the beings is a step of the abstract outbox: the executor's
\* call fires a slot, the commit of its outcome settles it.
LEMMA AMOStep == ASSUME Safe1, SlotStep PROVE [AMO!Next]_(AMO!vars)
<1> USE DEF Safe1, TypeInv, Typed
<1> DEFINE answer == [s \in Slots |-> Outcome(s)]
<1>1. CASE Still
  <2>1. answer' = answer
    BY <1>1 DEF Still, Outcome
  <2> QED BY <1>1, <2>1 DEF Still, AMO!vars
<1>2. ASSUME NEW s \in Slots, Opens(s) PROVE [AMO!Next]_(AMO!vars)
  <2>1. \A r \in Slots : Outcome(r)' = Outcome(r)
    BY <1>2 DEF Opens, Outcome, Row
  <2> QED BY <1>2, <2>1 DEF Opens, AMO!vars
<1>3. ASSUME NEW s \in Slots, Fires(s) PROVE [AMO!Next]_(AMO!vars)
  <2>1. Outcome(s) = None /\ answer' = answer
    BY <1>3 DEF Fires, Outcome
  <2> QED BY <1>3, <2>1 DEF Fires, AMO!Next, AMO!Fire
<1>4. ASSUME NEW s \in Slots, NEW p \in Final, NEW c \in Calls, Settles(s, p, c)
      PROVE  [AMO!Next]_(AMO!vars)
  <2> DEFINE o == IF s \in Calls THEN p ELSE c
  <2>1. o \in Calls \cup {"done", "error", "quarantine"}
    BY <1>4 DEF Settles
  <2>2. Outcome(s) = None /\ fired' = fired
    BY <1>4 DEF Settles, Outcome
  <2>3. \A r \in Slots : Outcome(r)' = IF r = s THEN o ELSE Outcome(r)
    BY <1>4 DEF Settles, Outcome, Row, Final
  <2>4. answer' = [answer EXCEPT ![s] = o]
    BY <2>3
  <2>5. answer'[s] = o
    BY <2>3
  <2> QED BY <2>1, <2>2, <2>4, <2>5 DEF AMO!Next, AMO!Settle
<1> QED BY <1>1, <1>2, <1>3, <1>4 DEF SlotStep
\* Every dispatch key and every approval fires at most once and keeps its
\* answer, whatever the beings, the operator, the watchdog and the crashes do.
THEOREM ImplementsOutbox == Spec => ImplementsAtMostOnce
<1>1. Init => AMO!Init
  BY DEF Init, AMO!Init, Outcome, Free, Row
<1>2. Safe1 /\ [Next]_vars => [AMO!Next]_(AMO!vars)
  BY SlotsStep, AMOStep
<1> QED BY <1>1, <1>2, Safe1Init, Safe1Step, PTL DEF Spec, ImplementsAtMostOnce, AMO!Spec
-----------------------------------------------------------------------------
(* What the operator denied *)

\* A call on its way into the runtime is not an approval yet; one that is being
\* performed is pending still.
CallOK(a) ==
  /\ act[a].pc \in {"submit", "run"} => act[a].call \notin pending \cup denied
  /\ act[a].pc \in {"approveRun", "approveCommit", "approveRemove"} => act[a].call \in pending

DeniedInv ==
  /\ \A c \in pending \cup denied : issued[c] # None
  /\ denied \cap pending = {}
  /\ \A a \in Beings : CallOK(a)

Safe2 == Safe1 /\ DeniedInv

\* How the approvals change.
Kept       == pending' = pending /\ denied' = denied
Granted(c) == pending' = pending \cup {c} /\ denied' = denied
Removed(c) == pending' = pending \ {c} /\ (denied' = denied \/ (c \in pending /\ denied' = denied \cup {c}))

LEMMA ApprovalsOf ==
  ASSUME NEW a \in Beings, Local(a) \/ Locked(a)
  PROVE  \/ Kept
         \/ Run(a) /\ Granted(act[a].call)
         \/ PersistRefused(a) /\ Removed(act[a].call)
         \/ ApproveRemove(a) /\ Removed(act[a].call)
<1>1. CASE Run(a)
  BY <1>1 DEF Run, Kept, Granted
<1>2. CASE PersistRefused(a)
  BY <1>2 DEF PersistRefused, Rollback, Kept, Removed, history
<1>3. CASE ApproveRemove(a)
  BY <1>3 DEF ApproveRemove, Kept, Removed, history
<1>4. CASE \/ BeginTurn(a) \/ BeginTurnFails(a) \/ Remember(a) \/ RememberFails(a)
           \/ ThinkAnswer(a) \/ \E c \in Calls : ThinkCall(a, c)
  BY <1>4 DEF BeginTurn, BeginTurnFails, Remember, RememberFails, ThinkAnswer, ThinkCall, Kept,
     stores, history
<1>5. CASE \/ Commit(a) \/ Suspend(a) \/ SuspendFails(a) \/ Answer(a) \/ ReceiveSignal(a)
           \/ Resume(a) \/ ApproveRun(a) \/ ApproveRunRefused(a) \/ ApproveCommit(a)
  BY <1>5 DEF Commit, Suspend, SuspendFails, Answer, ReceiveSignal, Resume, ApproveRun,
     ApproveRunRefused, ApproveCommit, Kept, stores, history
<1>6. CASE \/ SubmitFresh(a) \/ SubmitKnown(a) \/ Persist(a) \/ ApproveIntent(a)
           \/ ApproveAgain(a) \/ ApproveRefused(a) \/ Inject(a)
  BY <1>6 DEF SubmitFresh, SubmitKnown, Persist, ApproveIntent, ApproveAgain, ApproveRefused, Inject,
     Kept, stores, history
<1> QED BY <1>1, <1>2, <1>3, <1>4, <1>5, <1>6 DEF Local, Locked

\* A change of the approvals by somebody else does not concern b's call.
LEMMA OthersCall ==
  ASSUME Safe2, NEW b \in Beings, act'[b] = act[b],
         \/ Kept
         \/ \E a \in Beings \ {b} : Run(a) /\ Granted(act[a].call)
         \/ lock = None /\ \E c \in Calls : Removed(c)
         \/ \E a \in Beings \ {b} : ApproveRemove(a) /\ Removed(act[a].call)
  PROVE  CallOK(b)'
<1> USE DEF Safe2, Safe1, DeniedInv, CallOK
<1>1. CASE Kept
  BY <1>1 DEF Kept
<1>2. ASSUME NEW a \in Beings \ {b}, Run(a), Granted(act[a].call) PROVE CallOK(b)'
  <2>1. issued[act[a].call].by = a
    BY <1>2 DEF Run, At, TypeInv, ActOK
  <2>2. act[b].pc \in {"submit", "run"} => act[a].call # act[b].call
    BY <2>1 DEF TypeInv, ActOK
  <2> QED BY <1>2, <2>2 DEF Granted
<1>3. ASSUME lock = None, NEW c \in Calls, Removed(c) PROVE CallOK(b)'
  <2>1. ~Critical(b)
    BY <1>3, TurnAssumption DEF MutualExclusion
  <2> QED BY <1>3, <2>1 DEF Removed, Critical
<1>4. ASSUME NEW a \in Beings \ {b}, ApproveRemove(a), Removed(act[a].call) PROVE CallOK(b)'
  <2>1. ~Critical(b)
    BY <1>4 DEF MutualExclusion, Critical, ApproveRemove, At
  <2> QED BY <1>4, <2>1 DEF Removed, Critical
<1> QED BY <1>1, <1>2, <1>3, <1>4

\* The call a being takes along to its next place.
LEMMA OwnCall ==
  ASSUME Safe2, NEW a \in Beings, Local(a) \/ Locked(a) PROVE CallOK(a)'
<1> USE DEF At
<1>0. ActOK(a) /\ CallOK(a) /\ TypeInv /\ ActsOK
  BY DEF Safe2, Safe1, DeniedInv, TypeInv
<1>1. ASSUME NEW c \in Calls, ThinkCall(a, c) PROVE CallOK(a)'
  <2>1. GoesTo(a, "submit", act[a].src, act[a].k, c) /\ issued[c] = None
    BY <1>0, <1>1, ThinkCallGoes DEF ThinkCall
  <2>2. Kept
    BY <1>1 DEF ThinkCall, Kept, stores
  <2> QED BY <2>1, <2>2 DEF GoesTo, CallOK, Kept, Safe2, DeniedInv
<1>2. CASE SubmitFresh(a)
  <2>1. GoesTo(a, "run", act[a].src, act[a].k, act[a].call)
    BY <1>0, <1>2, GotoGoes DEF SubmitFresh, PCs
  <2> QED BY <1>0, <1>2, <2>1 DEF GoesTo, CallOK, SubmitFresh, history
<1>3. CASE ApproveIntent(a)
  <2>1. GoesTo(a, "approveRun", act[a].src, act[a].k, act[a].call)
    BY <1>0, <1>3, GotoGoes DEF ApproveIntent, PCs
  <2> QED BY <1>3, <2>1 DEF GoesTo, CallOK, ApproveIntent
<1>4. CASE ApproveRun(a)
  <2>1. GoesTo(a, "approveCommit", act[a].src, act[a].k, act[a].call)
    BY <1>0, <1>4, GotoGoes DEF ApproveRun, PCs
  <2> QED BY <1>0, <1>4, <2>1 DEF GoesTo, CallOK, ApproveRun, stores
<1>5. CASE ApproveCommit(a)
  <2>1. CASE Moves(a, {"answer", "idle"})
    BY <2>1 DEF Moves, CallOK
  <2>2. CASE Goto(a, "approveRemove")
    <3>1. GoesTo(a, "approveRemove", act[a].src, act[a].k, act[a].call)
      BY <1>0, <2>2, GotoGoes DEF PCs
    <3> QED BY <1>0, <1>5, <3>1 DEF GoesTo, CallOK, ApproveCommit
  <2> QED BY <1>0, <1>5, <2>1, <2>2, MovesOf
<1>6. CASE \/ Commit(a) \/ Run(a) \/ SubmitKnown(a) \/ Persist(a) \/ PersistRefused(a)
           \/ ApproveRefused(a) \/ Inject(a) \/ BeginTurn(a) \/ BeginTurnFails(a) \/ Remember(a)
           \/ RememberFails(a) \/ ThinkAnswer(a)
  <2>1. Moves(a, PCs \ {"submit", "run", "approveRun", "approveCommit", "approveRemove"})
    BY <1>0, <1>6, MovesOf DEF Moves, PCs
  <2> QED BY <2>1 DEF Moves, CallOK
<1>7. CASE \/ Suspend(a) \/ SuspendFails(a) \/ Answer(a) \/ ReceiveSignal(a) \/ Resume(a)
           \/ ApproveRunRefused(a) \/ ApproveRemove(a) \/ ApproveAgain(a)
  <2>1. Moves(a, PCs \ {"submit", "run", "approveRun", "approveCommit", "approveRemove"})
    BY <1>0, <1>7, MovesOf DEF Moves, PCs
  <2> QED BY <2>1 DEF Moves, CallOK
<1> QED
  BY <1>1, <1>2, <1>3, <1>4, <1>5, <1>6, <1>7 DEF Local, Locked

\* What is pending or denied was asked for, and is not both.
LEMMA ApprovalsStep ==
  ASSUME Safe2, IssuedStays,
         \/ Kept
         \/ \E a \in Beings : Run(a) /\ Granted(act[a].call)
         \/ \E c \in Calls : Removed(c)
  PROVE  (\A c \in pending \cup denied : issued[c] # None)' /\ (denied \cap pending = {})'
<1> USE DEF Safe2, Safe1, DeniedInv, IssuedStays, TypeInv, Typed
<1>1. CASE Kept
  BY <1>1 DEF Kept
<1>2. ASSUME NEW a \in Beings, Run(a), Granted(act[a].call)
      PROVE  (\A c \in pending \cup denied : issued[c] # None)' /\ (denied \cap pending = {})'
  <2>1. act[a].call \in Calls /\ issued[act[a].call] # None /\ act[a].call \notin denied
    BY <1>2 DEF Run, At, ActOK, CallOK
  <2> QED BY <1>2, <2>1 DEF Granted
<1>3. ASSUME NEW c \in Calls, Removed(c)
      PROVE  (\A d \in pending \cup denied : issued[d] # None)' /\ (denied \cap pending = {})'
  BY <1>3 DEF Removed
<1> QED BY <1>1, <1>2, <1>3

LEMMA DeniedInvStep == Safe2 /\ [Next]_vars => DeniedInv'
<1> SUFFICES ASSUME Safe2, [Next]_vars PROVE DeniedInv'
  OBVIOUS
<1>0. TypeInv /\ MutualExclusion
  BY DEF Safe2, Safe1
<1>1. IssuedStays
  <2>1. CASE UNCHANGED vars
    BY <2>1 DEF vars, IssuedStays
  <2> QED BY <1>0, <2>1, IssuedStep
<1>2. ASSUME NEW a \in Beings, Local(a) \/ Locked(a) PROVE DeniedInv'
  <2>1. ASSUME NEW b \in Beings PROVE CallOK(b)'
    <3>1. CASE a = b
      BY <1>2, <3>1, OwnCall
    <3>2. CASE a # b
      <4>1. act'[b] = act[b]
        BY <1>0, <1>2, <3>2, LocalPlaces, LockedPlaces DEF Apart, Inside, Exits, Enters, Moves
      <4>2. PersistRefused(a) => act[a].call \in Calls /\ lock = None
        BY <1>0 DEF PersistRefused, TypeInv, ActOK, At, Unlocked
      <4> QED BY <1>2, <3>2, <4>1, <4>2, ApprovalsOf, OthersCall
    <3> QED BY <3>1, <3>2
  <2>2. PersistRefused(a) \/ ApproveRemove(a) => act[a].call \in Calls
    BY <1>0 DEF PersistRefused, ApproveRemove, TypeInv, ActOK, At
  <2> QED BY <1>1, <1>2, <2>1, <2>2, ApprovalsOf, ApprovalsStep DEF DeniedInv
<1>3. ASSUME NEW c \in Calls, DenyPending(c) PROVE DeniedInv'
  <2>1. lock = None /\ Removed(c) /\ act' = act
    BY <1>3 DEF DenyPending, Unlocked, Removed
  <2> QED BY <1>1, <2>1, OthersCall, ApprovalsStep DEF DeniedInv
<1>4. ASSUME Kept, \A b \in Beings : act'[b] = act[b] \/ act'[b].pc = "idle" PROVE DeniedInv'
  BY <1>1, <1>4, ApprovalsStep DEF DeniedInv, CallOK, Kept, Safe2
<1>5. CASE Say \/ (\E c \in Calls : Order(c) \/ ApprovePending(c) \/ Expire(c)) \/ UNCHANGED vars
  <2>1. Kept /\ act' = act
    BY <1>5 DEF Say, Order, ApprovePending, Expire, vars, stores, history, Kept
  <2> QED BY <1>4, <2>1
<1>6. ASSUME NEW a \in Beings, Drop(a) PROVE DeniedInv'
  <2>1. Kept /\ Moves(a, {"idle"})
    BY <1>0, <1>6, MovesOf DEF Drop, stores, Kept
  <2> QED BY <1>4, <2>1 DEF Moves
<1>7. CASE Crash
  <2>1. Kept /\ \A b \in Beings : act'[b].pc = "idle"
    BY <1>7 DEF Crash, Kept, Idle, Act
  <2> QED BY <1>4, <2>1
<1> QED BY <1>2, <1>3, <1>5, <1>6, <1>7 DEF Next, Outside

LEMMA Safe2Init == Init => Safe2
<1>1. Init => DeniedInv
  BY DEF Init, DeniedInv, CallOK, Idle, Act
<1> QED BY <1>1, Safe1Init DEF Safe2

LEMMA Safe2Step == Safe2 /\ [Next]_vars => Safe2'
<1>1. Safe2 => Safe1
  BY DEF Safe2
<1>2. Safe2' <=> Safe1' /\ DeniedInv'
  BY DEF Safe2
<1> QED BY <1>1, <1>2, Safe1Step, DeniedInvStep

\* An approval that was denied never runs: the executor is called for one only
\* while it is pending and the runtime's lock is held.
THEOREM DeniedIsFinal == Spec => DeniedNeverRuns
<1>1. Safe2 /\ [Next]_vars => [\A c \in denied : fired'[c] = fired[c]]_vars
  <2> SUFFICES ASSUME Safe2, Next, NEW c \in denied PROVE fired'[c] = fired[c]
    OBVIOUS
  <2>0. c \in Calls /\ fired \in [Slots -> Nat] /\ c \notin pending /\ Safe1
    BY DEF Safe2, Safe1, DeniedInv, TypeInv, Typed
  <2>1. ASSUME NEW a \in Beings, Run(a) PROVE fired'[c] = fired[c]
    <3>1. Key(a) \in Keys
      BY <2>0, <2>1, KeyFacts DEF Run, At, Safe1, TypeInv
    <3>2. Key(a) # c
      BY <2>0, <3>1, SlotAssumption
    <3>3. Still \/ Fires(Key(a))
      BY <2>0, <2>1, SlotsOf
    <3> QED BY <2>0, <3>2, <3>3 DEF Still, Fires, Slots
  <2>2. ASSUME NEW a \in Beings, ApproveRun(a) PROVE fired'[c] = fired[c]
    BY <2>0, <2>2 DEF ApproveRun, At, Safe2, DeniedInv, CallOK
  <2>3. ASSUME NEW a \in Beings, SlotActions(a), ~Run(a), ~ApproveRun(a) PROVE fired' = fired
    BY <2>0, <2>3, SlotsOf DEF SlotActions, Opens, Settles, Still
  <2>4. CASE Still
    BY <2>4 DEF Still
  <2> QED BY <2>1, <2>2, <2>3, <2>4, OthersStill, SystemStill DEF Next
<1> QED BY <1>1, Safe2Init, Safe2Step, PTL DEF Spec, DeniedNeverRuns
-----------------------------------------------------------------------------
(* What a being asked the operator for *)

\* The call got the outcome of its own dispatch.
Answered(c) == c \in Calls /\ issued[c] # None /\ issued[c].answer = c

\* An approval that is being stored or shown is one that was committed; a call
\* on its way has no answer yet.
AskOK(a) ==
  /\ act[a].pc \in {"submit", "run", "commit"} => issued[act[a].call].answer = None
  /\ act[a].pc \in {"persist", "suspend"} => Answered(act[a].call)

AskedInv ==
  /\ \A a \in Beings : AskOK(a)
  /\ \A s \in Slots : outbox[s].phase = "ask" => Answered(outbox[s].call)
  /\ \A p \in told : Answered(p[2])

LEMMA IssuedBy ==
  ASSUME NEW a \in Beings, Local(a) \/ Locked(a)
  PROVE  issued' = issued \/ (\E c \in Calls : ThinkCall(a, c)) \/ SubmitKnown(a) \/ Commit(a)
<1>1. CASE Local(a)
  BY <1>1 DEF Local, history, BeginTurn, BeginTurnFails, Remember, RememberFails, ThinkAnswer, Run,
     Suspend, SuspendFails, Answer, ReceiveSignal, Resume, ApproveRun, ApproveRunRefused,
     ApproveCommit, ApproveRemove
<1>2. CASE Locked(a)
  BY <1>2 DEF Locked, history, SubmitFresh, Persist, PersistRefused, ApproveIntent, ApproveAgain,
     ApproveRefused, Inject
<1> QED BY <1>1, <1>2

LEMMA IssuedOf ==
  ASSUME TypeInv, [Next]_vars
  PROVE  \/ issued' = issued
         \/ \E a \in Beings : \/ \E c \in Calls : ThinkCall(a, c)
                              \/ SubmitKnown(a) \/ Commit(a)
<1>1. ASSUME Outside \/ Crash \/ UNCHANGED vars \/ \E a \in Beings : Drop(a) PROVE issued' = issued
  BY <1>1 DEF Outside, vars, history, Say, Order, ApprovePending, DenyPending, Expire, Crash, Drop
<1> QED BY <1>1, IssuedBy DEF Next

\* The one call whose answer a step sets had none.
LEMMA AnswerSet ==
  ASSUME TypeInv, AskedInv, NEW a \in Beings, SubmitKnown(a) \/ Commit(a)
  PROVE  /\ act[a].call \in Calls /\ issued[act[a].call].answer = None
         /\ \A c \in Calls \ {act[a].call} : issued'[c] = issued[c]
         /\ Commit(a) => \A c \in Calls : c = act[a].call => Answered(c)'
<1>1. act[a].pc \in {"submit", "commit"} /\ act[a].call \in Calls /\ issued[act[a].call].answer = None
  BY DEF SubmitKnown, Commit, At, TypeInv, ActOK, AskedInv, AskOK
<1>2. CASE SubmitKnown(a)
  <2>1. outbox[Key(a)].call \in Calls \cup {None}
    BY <1>1, KeyFacts DEF TypeInv, Typed
  <2>2. \A c \in Calls \ {act[a].call} : issued'[c] = issued[c]
    BY <1>1, <1>2, <2>1, AnswerStays DEF SubmitKnown
  <2>3. ~Commit(a)
    BY <1>2 DEF SubmitKnown, Commit, At
  <2> QED BY <1>1, <2>2, <2>3
<1>3. CASE Commit(a)
  <2>1. /\ IssuedStays /\ issued'[act[a].call].answer = act[a].call
        /\ \A c \in Calls \ {act[a].call} : issued'[c] = issued[c]
    BY <1>1, <1>3, AnswerStays DEF Commit
  <2>2. issued[act[a].call] # None
    BY <1>1 DEF TypeInv, ActOK
  <2>3. issued'[act[a].call] # None
    BY <1>1, <2>1, <2>2 DEF IssuedStays
  <2> QED BY <1>1, <2>1, <2>3 DEF Answered
<1> QED BY <1>2, <1>3
LEMMA AnsweredStays ==
  ASSUME TypeInv, AskedInv, [Next]_vars, NEW c, Answered(c) PROVE Answered(c)'
<1>1. CASE issued' = issued
  BY <1>1 DEF Answered
<1>2. ASSUME NEW a \in Beings, NEW d \in Calls, ThinkCall(a, d) PROVE Answered(c)'
  BY <1>2 DEF ThinkCall, Answered, TypeInv, Typed
<1>3. ASSUME NEW a \in Beings, SubmitKnown(a) \/ Commit(a) PROVE Answered(c)'
  <2>1. c # act[a].call
    BY <1>3, AnswerSet, TurnAssumption DEF Answered
  <2> QED BY <1>3, <2>1, AnswerSet DEF Answered
<1> QED BY <1>1, <1>2, <1>3, IssuedOf

\* The places of the others, whatever a does to the call in its hand.
LEMMA OthersAsk ==
  ASSUME TypeInv, AskedInv, [Next]_vars, NEW b \in Beings, act'[b] = act[b],
         issued' = issued \/ \E a \in Beings \ {b} :
            (\E c \in Calls : ThinkCall(a, c)) \/ SubmitKnown(a) \/ Commit(a)
  PROVE  AskOK(b)'
<1>1. act[b].pc \in {"persist", "suspend"} => Answered(act[b].call)'
  <2> SUFFICES ASSUME act[b].pc \in {"persist", "suspend"} PROVE Answered(act[b].call)'
    OBVIOUS
  <2>1. Answered(act[b].call)
    BY DEF AskedInv, AskOK
  <2> QED BY <2>1, AnsweredStays DEF Answered
<1>2. act[b].pc \in {"submit", "run", "commit"} => issued'[act[b].call].answer = None
  <2> SUFFICES ASSUME act[b].pc \in {"submit", "run", "commit"}
               PROVE  issued'[act[b].call].answer = None
    OBVIOUS
  <2>1. /\ act[b].call \in Calls /\ issued[act[b].call] # None
        /\ issued[act[b].call].by = b /\ issued[act[b].call].answer = None
    BY DEF TypeInv, ActOK, AskedInv, AskOK
  <2>2. ASSUME NEW a \in Beings \ {b}, NEW c \in Calls, ThinkCall(a, c)
        PROVE  issued'[act[b].call] = issued[act[b].call]
    BY <2>1, <2>2 DEF ThinkCall, TypeInv, Typed
  <2>3. ASSUME NEW a \in Beings \ {b}, SubmitKnown(a) \/ Commit(a)
        PROVE  issued'[act[b].call] = issued[act[b].call]
    <3>1. act[a].call # act[b].call
      BY <2>1, <2>3 DEF SubmitKnown, Commit, At, TypeInv, ActOK
    <3> QED BY <2>1, <2>3, <3>1, AnswerSet
  <2> QED BY <2>1, <2>2, <2>3
<1> QED BY <1>1, <1>2 DEF AskOK, Answered

LEMMA OwnAsk ==
  ASSUME TypeInv, AskedInv, [Next]_vars, NEW a \in Beings, Local(a) \/ Locked(a) PROVE AskOK(a)'
<1> USE DEF At
<1>0. ActOK(a) /\ AskOK(a) /\ ActsOK
  BY DEF TypeInv, AskedInv
<1>1. ASSUME NEW c \in Calls, ThinkCall(a, c) PROVE AskOK(a)'
  <2>1. GoesTo(a, "submit", act[a].src, act[a].k, c)
    BY <1>1, ThinkCallGoes
  <2>2. issued'[c].answer = None
    BY <1>1 DEF ThinkCall, TypeInv, Typed
  <2> QED BY <2>1, <2>2 DEF GoesTo, AskOK
<1>2. CASE SubmitFresh(a) \/ Run(a)
  <2>1. Goto(a, "run") \/ Goto(a, "commit")
    BY <1>2 DEF SubmitFresh, Run
  <2>2. \/ GoesTo(a, "run", act[a].src, act[a].k, act[a].call)
        \/ GoesTo(a, "commit", act[a].src, act[a].k, act[a].call)
    BY <1>0, <2>1, GotoGoes DEF PCs
  <2>3. issued' = issued /\ act[a].pc \in {"submit", "run"}
    BY <1>2 DEF SubmitFresh, Run, history
  <2> QED BY <1>0, <2>2, <2>3 DEF GoesTo, AskOK
<1>3. ASSUME NEW r, Dispatched(a, r), act[a].pc \in {"submit", "commit"},
             r.phase = "ask" => r.call \in Calls /\ \A c \in Calls : c = r.call => Answered(c)'
      PROVE  AskOK(a)'
  <2>1. act[a].k < MaxCalls
    BY <1>0, <1>3 DEF ActOK
  <2>2. CASE r.phase = "ask" /\ GoesTo(a, "persist", act[a].src, act[a].k, r.call)
    BY <1>3, <2>2 DEF GoesTo, AskOK, Answered
  <2>3. CASE GoesTo(a, "think", act[a].src, act[a].k + 1, act[a].call)
    BY <2>3 DEF GoesTo, AskOK
  <2> QED BY <1>0, <1>3, <2>1, <2>2, <2>3, DispatchedGoes
<1>4. CASE SubmitKnown(a)
  <2>1. outbox[Key(a)].phase = "ask" => Answered(outbox[Key(a)].call)
    BY <1>4, KeyFacts DEF SubmitKnown, TypeInv, AskedInv
  <2>2. outbox[Key(a)].phase = "ask" =>
          outbox[Key(a)].call \in Calls /\ \A c \in Calls : c = outbox[Key(a)].call => Answered(c)'
    BY <2>1, AnsweredStays DEF Answered
  <2> QED BY <1>3, <1>4, <2>2 DEF SubmitKnown
<1>5. CASE Commit(a)
  <2> DEFINE r == Row(IF act[a].call \in pending THEN "ask" ELSE "fed", act[a].call)
  <2>1. Dispatched(a, r) \/ Leave(a)
    BY <1>5 DEF Commit
  <2>2. r.call = act[a].call /\ act[a].call \in Calls /\ \A c \in Calls : c = act[a].call => Answered(c)'
    BY <1>5, AnswerSet DEF Row
  <2> HIDE DEF r
  <2>3. CASE Dispatched(a, r)
    BY <1>3, <1>5, <2>2, <2>3 DEF Commit
  <2>4. CASE Leave(a)
    BY <2>4, LeaveMoves DEF Moves, AskOK
  <2> QED BY <2>1, <2>3, <2>4
<1>6. CASE Persist(a)
  <2>1. GoesTo(a, "suspend", act[a].src, act[a].k, act[a].call)
    BY <1>0, <1>6, GotoGoes DEF Persist, PCs
  <2>2. Answered(act[a].call) /\ issued' = issued
    BY <1>0, <1>6 DEF Persist, AskOK, history
  <2> QED BY <2>1, <2>2 DEF GoesTo, AskOK, Answered
<1>7. CASE \/ ApproveIntent(a) \/ ApproveRun(a) \/ ApproveCommit(a) \/ PersistRefused(a)
           \/ ApproveRefused(a) \/ Inject(a) \/ BeginTurn(a) \/ BeginTurnFails(a) \/ Remember(a)
           \/ RememberFails(a) \/ ThinkAnswer(a)
  <2>1. Moves(a, PCs \ {"submit", "run", "commit", "persist", "suspend"})
    BY <1>7, MovesOf DEF Moves, PCs
  <2> QED BY <2>1 DEF Moves, AskOK
<1>8. CASE \/ Suspend(a) \/ SuspendFails(a) \/ Answer(a) \/ ReceiveSignal(a) \/ Resume(a)
           \/ ApproveRunRefused(a) \/ ApproveRemove(a) \/ ApproveAgain(a)
  <2>1. Moves(a, PCs \ {"submit", "run", "commit", "persist", "suspend"})
    BY <1>8, MovesOf DEF Moves, PCs
  <2> QED BY <2>1 DEF Moves, AskOK
<1> QED BY <1>1, <1>2, <1>4, <1>5, <1>6, <1>7, <1>8 DEF Local, Locked
\* Who has asked for an approval is the being that suspends on it, until its
\* asking is undone.
LEMMA ToldOf ==
  ASSUME [Next]_vars
  PROVE  \/ told' = told
         \/ \E a \in Beings : Suspend(a) /\ told' = told \cup {<<a, act[a].call>>}
         \/ \E a \in Beings : PersistRefused(a) /\ told' = told \ {<<a, act[a].call>>}
<1>1. ASSUME NEW a \in Beings, Local(a)
      PROVE  told' = told \/ (Suspend(a) /\ told' = told \cup {<<a, act[a].call>>})
  BY <1>1 DEF Local, history, BeginTurn, BeginTurnFails, Remember, RememberFails, ThinkAnswer,
     ThinkCall, Run, Commit, Suspend, SuspendFails, Answer, ReceiveSignal, Resume, ApproveRun,
     ApproveRunRefused, ApproveCommit, ApproveRemove
<1>2. ASSUME NEW a \in Beings, Locked(a)
      PROVE  told' = told \/ (PersistRefused(a) /\ told' = told \ {<<a, act[a].call>>})
  BY <1>2 DEF Locked, history, SubmitFresh, SubmitKnown, Persist, PersistRefused, ApproveIntent,
     ApproveAgain, ApproveRefused, Inject
<1>3. ASSUME Outside \/ Crash \/ UNCHANGED vars \/ \E a \in Beings : Drop(a) PROVE told' = told
  BY <1>3 DEF Outside, vars, history, Say, Order, ApprovePending, DenyPending, Expire, Crash, Drop
<1> QED BY <1>1, <1>2, <1>3 DEF Next

LEMMA AskedInvStep == ASSUME TypeInv, AskedInv, [Next]_vars PROVE AskedInv'
<1>1. ASSUME NEW b \in Beings PROVE AskOK(b)'
  <2>1. ASSUME NEW a \in Beings, Local(a) \/ Locked(a) PROVE AskOK(b)'
    <3>1. CASE a = b
      BY <2>1, <3>1, OwnAsk
    <3>2. CASE a # b
      <4>1. act'[b] = act[b]
        BY <2>1, <3>2, LocalPlaces, LockedPlaces DEF Apart, Inside, Exits, Enters, Moves
      <4> QED BY <2>1, <3>2, <4>1, IssuedBy, OthersAsk
    <3> QED BY <3>1, <3>2
  <2>2. ASSUME NEW a \in Beings, Drop(a) PROVE AskOK(b)'
    <3>1. Moves(a, {"idle"}) /\ issued' = issued
      BY <2>2, MovesOf DEF Drop
    <3> QED BY <3>1, OthersAsk DEF Moves, AskOK
  <2>3. CASE Crash
    BY <2>3 DEF Crash, AskOK, Idle, Act
  <2>4. CASE Outside \/ UNCHANGED vars
    <3>1. act' = act /\ issued' = issued
      BY <2>4 DEF Outside, vars, history, Say, Order, ApprovePending, DenyPending, Expire
    <3> QED BY <3>1, OthersAsk
  <2> QED BY <2>1, <2>2, <2>3, <2>4 DEF Next
<1>2. ASSUME NEW s \in Slots, outbox'[s].phase = "ask" PROVE Answered(outbox[s].call)'
  <2>1. CASE outbox'[s] = outbox[s]
    <3>1. Answered(outbox[s].call)
      BY <1>2, <2>1 DEF AskedInv
    <3> QED BY <2>1, <3>1, AnsweredStays DEF Answered
  <2>2. ASSUME NEW r, NEW row, RowsBecome(r, row), outbox'[s] # outbox[s]
        PROVE  outbox'[s] = row /\ row.phase = "ask"
    BY <1>2, <2>2 DEF RowsBecome, TypeInv, Typed
  <2>3. CASE outbox'[s] # outbox[s]
    <3>1. PICK a \in Beings :
            /\ Commit(a)
            /\ outbox'[s] = Row(IF act[a].call \in pending THEN "ask" ELSE "fed", act[a].call)
      <4>1. \A c, d : /\ Row("intent", d).phase # "ask" /\ Row("quarantine", c).phase # "ask"
                     /\ Row("error", c).phase # "ask" /\ Row("done", c).phase # "ask"
        BY DEF Row
      <4> QED BY <2>2, <2>3, <4>1, OutboxStep
    <3>2. outbox'[s].call = act[a].call
      BY <3>1 DEF Row
    <3> QED BY <3>1, <3>2, AnswerSet DEF Answered
  <2> QED BY <2>1, <2>3
<1>3. ASSUME NEW p \in told' PROVE Answered(p[2])'
  <2>1. CASE p \in told
    BY <2>1, AnsweredStays DEF AskedInv
  <2>2. ASSUME NEW a \in Beings, Suspend(a), p = <<a, act[a].call>> PROVE Answered(p[2])'
    <3>1. Answered(p[2])
      BY <2>2 DEF Suspend, At, AskedInv, AskOK
    <3> QED BY <3>1, AnsweredStays
  <2> QED BY <1>3, <2>1, <2>2, ToldOf
<1> QED BY <1>1, <1>2, <1>3 DEF AskedInv
\* A being shows the request only when its suspended turn is stored.
Stored(a) == At(a, "suspend") => act[a].call \in resum[a]

RecoverInv == (\A a \in Beings : Stored(a)) /\ AskedIsRecoverable

Safe3 == TypeInv /\ AskedInv /\ RecoverInv

\* A suspended turn leaves the store of its being only when the turn goes on or
\* its approval is given up.
LEMMA ResumOf ==
  ASSUME TypeInv, NEW a \in Beings, Local(a) \/ Locked(a)
  PROVE  /\ \A b \in Beings \ {a} : resum'[b] = resum[b]
         /\ \/ resum[a] \subseteq resum'[a]
            \/ /\ PersistRefused(a) /\ resum[a] \ {act[a].call} \subseteq resum'[a]
               /\ told' = told \ {<<a, act[a].call>>}
            \/ /\ Inject(a) /\ act[a].call \in Calls /\ resum[a] \ {act[a].call} \subseteq resum'[a]
               /\ continued'[a][act[a].call] > 0
<1> USE DEF TypeInv, Typed
<1>1. CASE Persist(a)
  BY <1>1 DEF Persist
<1>2. CASE PersistRefused(a)
  BY <1>2 DEF PersistRefused, Rollback
<1>3. CASE Inject(a)
  <2>1. act[a].call \in Calls
    BY <1>3, InjectGoes
  <2>2. continued'[a][act[a].call] > 0
    BY <1>3, <2>1 DEF Inject
  <2>3. (\A b \in Beings \ {a} : resum'[b] = resum[b]) /\ resum[a] \ {act[a].call} \subseteq resum'[a]
    BY <1>3 DEF Inject
  <2> QED BY <1>3, <2>1, <2>2, <2>3
<1>4. CASE Local(a)
  <2>1. resum' = resum
    BY <1>4 DEF Local, stores, BeginTurn, BeginTurnFails, Remember, RememberFails, ThinkAnswer,
       ThinkCall, Run, Commit, Suspend, SuspendFails, Answer, ReceiveSignal, Resume, ApproveRun,
       ApproveRunRefused, ApproveCommit, ApproveRemove
  <2> QED BY <2>1
<1>5. CASE SubmitFresh(a) \/ SubmitKnown(a) \/ ApproveIntent(a) \/ ApproveAgain(a) \/ ApproveRefused(a)
  <2>1. resum' = resum
    BY <1>5 DEF stores, SubmitFresh, SubmitKnown, ApproveIntent, ApproveAgain, ApproveRefused
  <2> QED BY <2>1
<1> QED BY <1>1, <1>2, <1>3, <1>4, <1>5 DEF Locked

\* How often a turn has gone on is only counted up.
LEMMA ContinuedOf ==
  ASSUME [Next]_vars PROVE continued' = continued \/ \E b \in Beings : Inject(b)
<1>1. ASSUME NEW b \in Beings, Local(b) PROVE continued' = continued
  BY <1>1 DEF Local, history, BeginTurn, BeginTurnFails, Remember, RememberFails, ThinkAnswer,
     ThinkCall, Run, Commit, Suspend, SuspendFails, Answer, ReceiveSignal, Resume, ApproveRun,
     ApproveRunRefused, ApproveCommit, ApproveRemove
<1>2. ASSUME NEW b \in Beings, Locked(b), ~Inject(b) PROVE continued' = continued
  BY <1>2 DEF Locked, history, SubmitFresh, SubmitKnown, Persist, PersistRefused, ApproveIntent,
     ApproveAgain, ApproveRefused
<1>3. ASSUME Outside \/ Crash \/ UNCHANGED vars \/ \E b \in Beings : Drop(b)
      PROVE  continued' = continued
  BY <1>3 DEF Outside, vars, history, Say, Order, ApprovePending, DenyPending, Expire, Crash, Drop
<1> QED BY <1>1, <1>2, <1>3 DEF Next

LEMMA ContinuedGrows ==
  ASSUME TypeInv, [Next]_vars, NEW a \in Beings, NEW c \in Calls
  PROVE  continued'[a][c] >= continued[a][c]
<1>1. CASE continued' = continued
  BY <1>1 DEF TypeInv, Typed
<1>2. ASSUME NEW b \in Beings, Inject(b) PROVE continued'[a][c] >= continued[a][c]
  <2>1. act[b].call \in Calls
    BY <1>2, InjectGoes
  <2>2. continued \in [Beings -> [Calls -> Nat]]
    BY DEF TypeInv, Typed
  <2>3. continued' = [continued EXCEPT ![b][act[b].call] = @ + 1]
    BY <1>2 DEF Inject
  <2> QED BY <2>1, <2>2, <2>3, RaisedAt
<1> QED BY <1>1, <1>2, ContinuedOf

LEMMA StoredStep ==
  ASSUME Safe3, [Next]_vars, NEW b \in Beings PROVE Stored(b)'
<1> USE DEF At
<1>0. TypeInv /\ Stored(b)
  BY DEF Safe3, RecoverInv
<1>1. ASSUME NEW a \in Beings, Local(a) \/ Locked(a) PROVE Stored(b)'
  <2>1. CASE a # b
    <3>1. act'[b] = act[b] /\ resum'[b] = resum[b]
      BY <1>0, <1>1, <2>1, ResumOf, LocalPlaces, LockedPlaces DEF Apart, Inside, Exits, Enters, Moves
    <3> QED BY <1>0, <3>1 DEF Stored
  <2>2. CASE a = b /\ Persist(a)
    <3>1. GoesTo(a, "suspend", act[a].src, act[a].k, act[a].call)
      BY <1>0, <2>2, GotoGoes DEF Persist, TypeInv, PCs
    <3>2. act[a].call \in resum'[a]
      BY <1>0, <2>2 DEF Persist, TypeInv, Typed
    <3> QED BY <2>2, <3>1, <3>2 DEF GoesTo, Stored
  <2>3. CASE a = b /\ ~Persist(a) /\ Locked(a)
    <3>1. Moves(a, PCs \ {"suspend"})
      BY <1>0, <2>3, MovesOf DEF Moves, PCs, Locked
    <3> QED BY <2>3, <3>1 DEF Moves, Stored
  <2>4. CASE a = b /\ Local(a)
    <3>1. CASE \/ BeginTurn(a) \/ BeginTurnFails(a) \/ Remember(a) \/ RememberFails(a)
               \/ ThinkAnswer(a) \/ (\E c \in Calls : ThinkCall(a, c)) \/ Run(a) \/ Commit(a)
               \/ Suspend(a) \/ SuspendFails(a) \/ Answer(a)
      <4>1. Moves(a, PCs \ {"suspend"})
        BY <1>0, <3>1, MovesOf DEF Moves, PCs
      <4> QED BY <2>4, <4>1 DEF Moves, Stored
    <3>2. CASE \/ ReceiveSignal(a) \/ Resume(a) \/ ApproveRun(a) \/ ApproveRunRefused(a)
               \/ ApproveCommit(a) \/ ApproveRemove(a)
      <4>1. Moves(a, PCs \ {"suspend"})
        BY <1>0, <3>2, MovesOf DEF Moves, PCs
      <4> QED BY <2>4, <4>1 DEF Moves, Stored
    <3> QED BY <2>4, <3>1, <3>2 DEF Local
  <2> QED BY <1>1, <2>1, <2>2, <2>3, <2>4
<1>2. ASSUME NEW a \in Beings, Drop(a) PROVE Stored(b)'
  <2>1. Moves(a, {"idle"}) /\ resum' = resum
    BY <1>0, <1>2, MovesOf DEF Drop, stores
  <2> QED BY <1>0, <2>1 DEF Moves, Stored
<1>3. CASE Crash
  BY <1>3 DEF Crash, Stored, Idle, Act
<1>4. CASE Outside \/ UNCHANGED vars
  <2>1. act' = act /\ resum' = resum
    BY <1>4 DEF Outside, vars, stores, Say, Order, ApprovePending, DenyPending, Expire
  <2> QED BY <1>0, <2>1 DEF Stored
<1> QED BY <1>1, <1>2, <1>3, <1>4 DEF Next

\* An approval comes into the pending store with its first dispatch, before
\* anybody can have been told of it.
LEMMA PendingIsOld ==
  ASSUME TypeInv, AskedInv, [Next]_vars, NEW a \in Beings, NEW c, <<a, c>> \in told, c \in pending'
  PROVE  c \in pending
<1>1. Answered(c)
  BY DEF AskedInv
<1>2. ASSUME NEW b \in Beings, Run(b) PROVE c # act[b].call
  BY <1>1, <1>2, TurnAssumption DEF Run, At, AskedInv, AskOK, Answered
<1>3. CASE Outside \/ Crash \/ UNCHANGED vars \/ \E b \in Beings : Drop(b)
  BY <1>3 DEF Outside, vars, stores, history, Say, Order, ApprovePending, DenyPending, Expire, Crash,
     Drop
<1>4. ASSUME NEW b \in Beings, Local(b) \/ Locked(b) PROVE c \in pending
  BY <1>2, <1>4, ApprovalsOf DEF Kept, Granted, Removed
<1> QED BY <1>3, <1>4 DEF Next
LEMMA RecoverStep == ASSUME Safe3, [Next]_vars PROVE AskedIsRecoverable'
<1> SUFFICES ASSUME NEW a \in Durable, NEW c \in pending', <<a, c>> \in told'
             PROVE  c \in resum'[a] \/ continued'[a][c] > 0
  BY DEF AskedIsRecoverable
<1>0. TypeInv /\ AskedInv /\ a \in Beings
  BY TurnAssumption DEF Safe3
<1>1. CASE <<a, c>> \in told
  <2>1. c \in pending /\ c \in Calls
    BY <1>0, <1>1, PendingIsOld DEF TypeInv, Typed
  <2>2. c \in resum[a] \/ continued[a][c] > 0
    BY <1>1, <2>1 DEF Safe3, RecoverInv, AskedIsRecoverable
  <2>3. CASE continued[a][c] > 0
    <3>1. continued'[a][c] >= continued[a][c] /\ continued[a][c] \in Nat
      BY <1>0, <2>1, ContinuedGrows DEF TypeInv, Typed
    <3>2. TypeInv'
      BY <1>0, TypeInvStep
    <3>3. continued'[a][c] \in Nat
      BY <1>0, <2>1, <3>2 DEF TypeInv, Typed
    <3> QED BY <2>3, <3>1, <3>3
  <2>4. CASE c \in resum[a]
    <3>1. ASSUME NEW b \in Beings, Local(b) \/ Locked(b)
          PROVE  c \in resum'[a] \/ continued'[a][c] > 0
      <4>1. CASE b # a
        BY <1>0, <2>4, <3>1, <4>1, ResumOf
      <4>2. CASE b = a
        BY <1>0, <2>4, <3>1, <4>2, ResumOf
      <4> QED BY <4>1, <4>2
    <3>2. CASE Crash
      BY <1>0, <2>4, <3>2 DEF Crash
    <3>3. CASE Outside \/ UNCHANGED vars \/ \E b \in Beings : Drop(b)
      <4>1. resum' = resum
        BY <3>3 DEF Outside, vars, stores, Say, Order, ApprovePending, DenyPending, Expire, Drop
      <4> QED BY <2>4, <4>1
    <3> QED BY <3>1, <3>2, <3>3 DEF Next
  <2> QED BY <2>2, <2>3, <2>4
<1>2. CASE <<a, c>> \notin told
  <2>1. Suspend(a) /\ c = act[a].call
    BY <1>2, ToldOf
  <2>2. c \in resum[a] /\ resum' = resum
    BY <1>0, <2>1 DEF Suspend, stores, Safe3, RecoverInv, Stored
  <2> QED BY <2>2
<1> QED BY <1>1, <1>2

LEMMA Safe3Init == Init => Safe3
<1> SUFFICES ASSUME Init PROVE Safe3
  OBVIOUS
<1>1. AskedInv
  BY DEF Init, AskedInv, AskOK, Idle, Act, Free, Row
<1>2. RecoverInv
  BY DEF Init, RecoverInv, Stored, AskedIsRecoverable, At, Idle, Act
<1> QED BY <1>1, <1>2, TypeInvInit DEF Safe3

LEMMA Safe3Step == Safe3 /\ [Next]_vars => Safe3'
<1> SUFFICES ASSUME Safe3, [Next]_vars PROVE Safe3'
  OBVIOUS
<1>1. TypeInv /\ AskedInv
  BY DEF Safe3
<1>2. TypeInv' /\ AskedInv'
  BY <1>1, TypeInvStep, AskedInvStep
<1>3. RecoverInv'
  BY StoredStep, RecoverStep DEF RecoverInv
<1> QED BY <1>2, <1>3 DEF Safe3

\* What a durable being asked the operator for can be resumed while it is
\* pending: across crashes, refused writes and what the other beings do.
THEOREM AskedStaysRecoverable == Spec => []AskedIsRecoverable
<1>1. Safe3 => AskedIsRecoverable
  BY DEF Safe3, RecoverInv
<1> QED BY <1>1, Safe3Init, Safe3Step, PTL DEF Spec
-----------------------------------------------------------------------------
(* The turn counter and the memory *)

\* The turn, if there is one, goes on with its message.
Onward(a) == /\ act'[a].turning = act[a].turning /\ act'[a].pc # "remember"
             /\ act[a].turning => act'[a].item = act[a].item

LEMMA GoesOnward ==
  ASSUME NEW a \in Beings, NEW pc, NEW src, NEW k, NEW c, GoesTo(a, pc, src, k, c), pc # "remember"
  PROVE  Onward(a)
BY DEF GoesTo, Onward

LEMMA GotoOnward ==
  ASSUME TypeInv, NEW a \in Beings, NEW pc \in PCs \ {"remember"}, Goto(a, pc) PROVE Onward(a)
BY GotoGoes, GoesOnward DEF TypeInv

LEMMA LeaveOnward == ASSUME TypeInv, NEW a \in Beings, Leave(a) PROVE Onward(a)
<1>1. CASE GoesTo(a, "answer", act[a].src, act[a].k, act[a].call)
  BY <1>1, GoesOnward
<1>2. CASE ~act[a].turning /\ Gets(a, Idle)
  <2>1. act[a].turning = FALSE
    BY <1>2 DEF TypeInv, ActsOK, ActRecord
  <2>2. act'[a].turning = FALSE /\ act'[a].pc = "idle"
    BY <1>2 DEF Gets, Idle, Act
  <2> QED BY <2>1, <2>2 DEF Onward
<1> QED BY <1>1, <1>2, LeaveGoes DEF TypeInv

LEMMA DispatchedOnward ==
  ASSUME TypeInv, NEW a \in Beings, act[a].pc \in {"submit", "run", "commit"},
         NEW r, Dispatched(a, r), r.phase = "ask" => r.call \in Calls
  PROVE  Onward(a)
<1>1. act[a].k < MaxCalls
  BY DEF TypeInv, ActOK
<1>2. \/ GoesTo(a, "persist", act[a].src, act[a].k, r.call)
      \/ GoesTo(a, "think", act[a].src, act[a].k + 1, act[a].call)
  BY <1>1, DispatchedGoes DEF TypeInv
<1> QED BY <1>2, GoesOnward

Counts == <<turn, rows, memory, cut>>

\* The turn is over and counted; it is over and was cut short.
Counted(a)  == /\ act[a].turning /\ act[a].pc # "remember" /\ act'[a] = Idle
               /\ turn' = [turn EXCEPT ![a] = @ + 1] /\ UNCHANGED <<rows, memory, cut>>
CutShort(a) == /\ act[a].turning /\ act'[a] = Idle
               /\ cut' = cut \cup {<<a, turn[a]>>} /\ UNCHANGED <<turn, rows, memory>>

LEMMA TurnLocal ==
  ASSUME TypeInv, NEW a \in Beings, Local(a)
  PROVE  \/ act[a].pc # "remember" /\ Onward(a) /\ UNCHANGED Counts
         \/ BeginTurn(a) \/ Remember(a) \/ Counted(a) \/ CutShort(a)
<1> USE DEF At, Counts
<1>0. ActOK(a) /\ ActsOK /\ Idle.turning = FALSE /\ Idle.pc = "idle"
  BY DEF TypeInv, Idle, Act
<1>1. CASE BeginTurnFails(a)
  BY <1>1 DEF BeginTurnFails, Onward, stores, history
<1>2. CASE RememberFails(a)
  <2>1. act'[a] = Idle /\ act[a].turning
    BY <1>0, <1>2 DEF RememberFails, ActsOK, ActOK
  <2> QED BY <1>2, <2>1 DEF RememberFails, CutShort, stores
<1>3. CASE ThinkAnswer(a) \/ SuspendFails(a)
  BY <1>3, LeaveOnward DEF ThinkAnswer, SuspendFails, stores, history
<1>4. ASSUME NEW c \in Calls, ThinkCall(a, c)
      PROVE act[a].pc # "remember" /\ Onward(a) /\ UNCHANGED Counts
  <2>1. Onward(a)
    BY <1>4, ThinkCallGoes, GoesOnward
  <2> QED BY <1>4, <2>1 DEF ThinkCall, stores
<1>5. CASE Run(a)
  BY <1>5, GotoOnward DEF Run, PCs
<1>6. CASE Commit(a)
  <2> DEFINE r == Row(IF act[a].call \in pending THEN "ask" ELSE "fed", act[a].call)
  <2>1. Dispatched(a, r) \/ Leave(a)
    BY <1>6 DEF Commit
  <2>2. r.phase = "ask" => r.call \in Calls
    BY <1>0, <1>6 DEF Commit, ActOK, Row
  <2> HIDE DEF r
  <2>3. Onward(a)
    BY <1>6, <2>1, <2>2, DispatchedOnward, LeaveOnward DEF Commit
  <2> QED BY <1>6, <2>3 DEF Commit
<1>7. CASE Suspend(a)
  <2>1. CASE act[a].turning /\ act[a].src \in Numbers
    BY <1>0, <1>7, <2>1 DEF Suspend, Counted, stores, ActsOK
  <2>2. CASE ~(act[a].turning /\ act[a].src \in Numbers)
    BY <1>7, <2>2, LeaveOnward DEF Suspend, stores
  <2> QED BY <2>1, <2>2
<1>8. CASE Answer(a)
  BY <1>0, <1>8 DEF Answer, Counted, stores, history, ActsOK, ActOK
<1>9. CASE ReceiveSignal(a)
  <2>1. Gets(a, Act("resume", FALSE, Head(inbox[a]), None, 0, Head(inbox[a]).body))
    BY <1>9, ReceiveSignalGets
  <2>2. act[a] = Idle
    BY <1>0, <1>9 DEF ReceiveSignal, ActOK
  <2>3. Onward(a)
    <3>1. act'[a].turning = FALSE /\ act'[a].pc = "resume"
      BY <2>1 DEF Gets, Act
    <3> QED BY <1>0, <2>2, <3>1 DEF Onward
  <2> QED BY <1>9, <2>3 DEF ReceiveSignal, stores, history
<1>10. CASE Resume(a)
  <2>1. Onward(a)
    BY <1>10, GotoOnward, LeaveOnward DEF Resume, PCs
  <2> QED BY <1>10, <2>1 DEF Resume, stores, history
<1>11. CASE ApproveRun(a)
  BY <1>11, GotoOnward DEF ApproveRun, PCs, stores
<1>12. CASE ApproveRunRefused(a)
  BY <1>12, LeaveOnward DEF ApproveRunRefused, history
<1>13. CASE ApproveCommit(a)
  <2>1. Onward(a)
    BY <1>13, MovesOf, GotoOnward, LeaveOnward DEF PCs
  <2> QED BY <1>13, <2>1 DEF ApproveCommit, history
<1>14. CASE ApproveRemove(a)
  <2>1. Onward(a)
    BY <1>14, GotoOnward, LeaveOnward DEF ApproveRemove, PCs
  <2> QED BY <1>14, <2>1 DEF ApproveRemove, history
<1> QED
  BY <1>1, <1>2, <1>3, <1>4, <1>5, <1>6, <1>7, <1>8, <1>9, <1>10, <1>11, <1>12, <1>13, <1>14
     DEF Local

LEMMA TurnLocked ==
  ASSUME TypeInv, NEW a \in Beings, Locked(a)
  PROVE  act[a].pc # "remember" /\ Onward(a) /\ UNCHANGED Counts
<1> USE DEF At, Counts
<1>1. CASE SubmitFresh(a) \/ Persist(a) \/ ApproveIntent(a) \/ ApproveAgain(a)
  <2>1. Goto(a, "run") \/ Goto(a, "suspend") \/ Goto(a, "approveRun") \/ Goto(a, "inject")
    BY <1>1 DEF SubmitFresh, Persist, ApproveIntent, ApproveAgain
  <2>2. Onward(a)
    BY <2>1, GotoOnward DEF PCs
  <2> QED
    BY <1>1, <2>2 DEF SubmitFresh, Persist, ApproveIntent, ApproveAgain, stores, history
<1>2. CASE PersistRefused(a) \/ ApproveRefused(a)
  BY <1>2, LeaveOnward DEF PersistRefused, ApproveRefused, stores, history
<1>3. CASE SubmitKnown(a)
  <2>1. outbox[Key(a)].phase = "ask" => outbox[Key(a)].call \in Calls
    BY <1>3, KeyFacts DEF SubmitKnown, TypeInv, AskHasCall
  <2>2. Onward(a)
    BY <1>3, <2>1, DispatchedOnward DEF SubmitKnown
  <2> QED BY <1>3, <2>2 DEF SubmitKnown, stores
<1>4. CASE Inject(a)
  <2>1. Onward(a)
    BY <1>4, InjectGoes, GoesOnward
  <2> QED BY <1>4, <2>1 DEF Inject
<1> QED BY <1>1, <1>2, <1>3, <1>4 DEF Locked
\* The row of a turn is in the journal before anything else of it, a memory
\* belongs to a turn that was begun, and the memory under a running turn's
\* number is that turn's unless the number was used up before.
MemoryOK(a) ==
  /\ act[a].turning => turn[a] < rows
  /\ \A n \in Numbers : memory[a][n] # None =>
       /\ n < rows
       /\ n < turn[a] \/ <<a, n>> \in cut \/ (n = turn[a] /\ act[a].turning /\ act[a].pc # "remember")
  /\ act[a].turning /\ act[a].pc # "remember" /\ <<a, turn[a]>> \notin cut
       => memory[a][turn[a]] = act[a].item.body

Safe4 == TypeInv /\ \A a \in Beings : MemoryOK(a)

LEMMA OthersMemory ==
  ASSUME Safe4, NEW b \in Beings, act'[b] = act[b], turn'[b] = turn[b], memory'[b] = memory[b],
         rows' \in Nat, rows <= rows', cut \subseteq cut',
         \A n \in Numbers : <<b, n>> \in cut' => <<b, n>> \in cut
  PROVE  MemoryOK(b)'
<1>1. rows \in Nat /\ turn[b] \in Nat /\ \A n \in Numbers : n \in Nat
  BY TurnAssumption DEF Safe4, TypeInv, Typed, Numbers
<1>2. act[b].turning => turn[b] \in Numbers
  BY DEF Safe4, TypeInv, ActOK
<1> QED BY <1>1, <1>2 DEF Safe4, MemoryOK

LEMMA OwnMemory ==
  ASSUME Safe4, NEW a \in Beings, Local(a) \/ Locked(a) \/ Drop(a)
  PROVE  /\ MemoryOK(a)'
         /\ rows' \in Nat /\ rows <= rows' /\ cut \subseteq cut'
         /\ \A b \in Beings \ {a} : /\ turn'[b] = turn[b] /\ memory'[b] = memory[b]
                                    /\ \A n \in Numbers : <<b, n>> \in cut' => <<b, n>> \in cut
<1>0. /\ TypeInv /\ ActOK(a) /\ MemoryOK(a) /\ rows \in Nat /\ turn[a] \in Nat
      /\ \A n \in Numbers : n \in Nat
      /\ turn \in [Beings -> 0..(MaxTurn + 1)]
      /\ memory \in [Beings -> [Numbers -> Messages \cup Calls \cup {None}]]
      /\ Idle.turning = FALSE
  BY SMTT(30), TurnAssumption DEF Safe4, TypeInv, Typed, Numbers, Idle, Act
<1>1. CASE act[a].pc # "remember" /\ Onward(a) /\ UNCHANGED Counts
  BY <1>0, <1>1 DEF Onward, Counts, MemoryOK
<1>2. CASE BeginTurn(a)
  <2>1. /\ act'[a].turning = TRUE /\ act'[a].pc = "remember" /\ act[a] = Idle /\ turn[a] \in Numbers
        /\ rows' = (IF rows <= turn[a] THEN turn[a] + 1 ELSE rows) /\ UNCHANGED <<turn, memory, cut>>
    <3>1. Gets(a, Act("remember", TRUE, Head(inbox[a]), turn[a], 0, None))
      BY <1>0, <1>2, BeginTurnGets
    <3> QED BY <1>0, <1>2, <3>1 DEF Gets, Act, BeginTurn, ActOK, At, history
  <2>2. rows' \in Nat /\ rows <= rows' /\ turn[a] < rows'
    BY <1>0, <2>1
  <2>3. \A n \in Numbers : memory[a][n] # None => n < rows /\ (n < turn[a] \/ <<a, n>> \in cut)
    BY <1>0, <2>1 DEF MemoryOK
  <2>4. \A n \in Numbers : n < rows => n < rows'
    BY <1>0, <2>2
  <2> QED BY <2>1, <2>2, <2>3, <2>4 DEF MemoryOK
<1>3. CASE Remember(a)
  <2>1. /\ act[a].turning /\ act[a].src = turn[a] /\ turn[a] \in Numbers /\ turn[a] < rows
        /\ act[a].item \in Items
    BY <1>0, <1>3 DEF Remember, At, ActOK, MemoryOK
  <2>2. act'[a].turning /\ act'[a].pc # "remember" /\ act'[a].item = act[a].item
    BY <1>0, <1>3, <2>1, RememberGoes DEF GoesTo
  <2>3. /\ memory'[a][turn[a]] = IF memory[a][turn[a]] = None THEN act[a].item.body
                                 ELSE memory[a][turn[a]]
        /\ \A n \in Numbers : n # turn[a] => memory'[a][n] = memory[a][n]
        /\ \A b \in Beings \ {a} : memory'[b] = memory[b]
    BY <1>0, <1>3, <2>1 DEF Remember
  <2>4. UNCHANGED <<turn, rows, cut>> /\ act[a].pc = "remember"
    BY <1>3 DEF Remember, history, At
  <2>5. memory[a][turn[a]] # None => <<a, turn[a]>> \in cut
    BY <1>0, <2>1, <2>4 DEF MemoryOK
  <2> QED BY <1>0, <2>1, <2>2, <2>3, <2>4, <2>5 DEF MemoryOK
<1>4. CASE Counted(a)
  <2>1. act'[a].turning = FALSE /\ turn'[a] = turn[a] + 1 /\ \A b \in Beings \ {a} : turn'[b] = turn[b]
    BY <1>0, <1>4 DEF Counted
  <2>2. UNCHANGED <<rows, memory, cut>>
    BY <1>4 DEF Counted
  <2>3. \A n \in Numbers : memory[a][n] # None => n < rows /\ (n < turn[a] + 1 \/ <<a, n>> \in cut)
    BY <1>0 DEF MemoryOK
  <2> QED BY <1>0, <2>1, <2>2, <2>3 DEF MemoryOK
<1>5. CASE CutShort(a)
  <2>1. /\ act'[a].turning = FALSE /\ UNCHANGED <<turn, rows, memory>>
        /\ cut' = cut \cup {<<a, turn[a]>>}
    BY <1>0, <1>5 DEF CutShort
  <2>2. \A n \in Numbers : memory[a][n] # None => n < rows /\ (n < turn[a] \/ <<a, n>> \in cut')
    BY <1>0, <2>1 DEF MemoryOK
  <2> QED BY <1>0, <2>1, <2>2 DEF MemoryOK
<1>6. Drop(a) => CutShort(a)
  BY <1>0 DEF Drop, CutShort, stores, TypeInv, ActsOK
<1> QED BY <1>0, <1>1, <1>2, <1>3, <1>4, <1>5, <1>6, TurnLocal, TurnLocked

LEMMA Safe4Step == Safe4 /\ [Next]_vars => Safe4'
<1> SUFFICES ASSUME Safe4, [Next]_vars PROVE Safe4'
  OBVIOUS
<1>0. TypeInv /\ TypeInv' /\ rows \in Nat
  <2>1. TypeInv /\ TypeInv'
    BY TypeInvStep DEF Safe4
  <2>2. rows \in 0..(MaxTurn + 1)
    BY <2>1 DEF TypeInv, Typed
  <2> QED BY <2>1, <2>2
<1>1. ASSUME NEW a \in Beings, Local(a) \/ Locked(a) \/ Drop(a), NEW b \in Beings
      PROVE  MemoryOK(b)'
  <2>1. CASE a = b
    BY <1>1, <2>1, OwnMemory
  <2>2. CASE a # b
    <3>1. act'[b] = act[b]
      BY <1>0, <1>1, <2>2, LocalPlaces, LockedPlaces, MovesOf DEF Apart, Inside, Exits, Enters, Moves
    <3> QED BY <1>1, <2>2, <3>1, OwnMemory, OthersMemory
  <2> QED BY <2>1, <2>2
<1>2. ASSUME Crash, NEW b \in Beings PROVE MemoryOK(b)'
  <2>1. /\ act'[b].turning = FALSE /\ turn'[b] = rows /\ rows' = rows /\ cut' = cut
        /\ memory'[b] = memory[b] \/ memory'[b] = [n \in Numbers |-> None]
    BY <1>2 DEF Crash, Idle, Act
  <2>2. \A n \in Numbers : memory[b][n] # None => n < rows
    BY DEF Safe4, MemoryOK
  <2> QED BY <2>1, <2>2 DEF MemoryOK
<1>3. ASSUME Outside \/ UNCHANGED vars, NEW b \in Beings PROVE MemoryOK(b)'
  <2>1. act' = act /\ UNCHANGED Counts
    BY <1>3 DEF Outside, vars, stores, history, Counts, Say, Order, ApprovePending, DenyPending, Expire
  <2> QED BY <1>0, <2>1, OthersMemory DEF Counts
<1> QED BY <1>0, <1>1, <1>2, <1>3 DEF Safe4, Next

LEMMA Safe4Init == Init => Safe4
<1> SUFFICES ASSUME Init PROVE Safe4
  OBVIOUS
<1>1. \A a \in Beings : MemoryOK(a)
  BY DEF Init, MemoryOK, Idle, Act
<1> QED BY <1>1, TypeInvInit DEF Safe4

\* When the reply goes out the message is in memory under the number of the
\* turn, unless a turn of that number was cut short; restarts and the turn rows
\* of the other beings never bring a number back.
THEOREM RememberedWhenAnswered == Spec => []AnsweredIsRemembered
<1>1. Safe4 => AnsweredIsRemembered
  BY DEF Safe4, TypeInv, ActOK, MemoryOK, AnsweredIsRemembered, At
<1> QED BY <1>1, Safe4Init, Safe4Step, PTL DEF Spec
-----------------------------------------------------------------------------
(* Which call an answer belongs to *)

By(a, d) == d \in Calls /\ issued[d] # None /\ issued[d].by = a

\* A call is new when the model makes it, and keeps its maker and its key.
LEMMA NewIssue ==
  ASSUME TypeInv, AskedInv, [Next]_vars, NEW a \in Beings, NEW d, By(a, d)'
  PROVE  \/ By(a, d) /\ issued'[d].key = issued[d].key
         \/ ThinkCall(a, d) /\ issued'[d].key = Key(a)
<1>0. d \in Calls /\ issued'[d] # None /\ issued'[d].by = a
  BY DEF By
<1>1. CASE issued[d] # None
  <2>1. IssuedStays
    <3>1. CASE UNCHANGED vars
      BY <3>1 DEF vars, IssuedStays
    <3> QED BY <3>1, IssuedStep
  <2> QED BY <1>0, <1>1, <2>1 DEF IssuedStays, By
<1>2. CASE issued[d] = None
  <2>1. ASSUME NEW b \in Beings, SubmitKnown(b) \/ Commit(b) PROVE FALSE
    <3>1. act[b].call # d
      BY <1>2, <2>1 DEF SubmitKnown, Commit, At, TypeInv, ActOK
    <3> QED BY <1>0, <1>2, <2>1, <3>1, AnswerSet
  <2>2. PICK b \in Beings, c \in Calls : ThinkCall(b, c)
    BY <1>0, <1>2, <2>1, IssuedOf
  <2>3. d = c /\ issued'[d] = [by |-> b, key |-> Key(b), answer |-> None]
    BY <1>0, <1>2, <2>2 DEF ThinkCall, TypeInv, Typed
  <2> QED BY <1>0, <2>2, <2>3
<1> QED BY <1>1, <1>2

\* The numbers under which a being has made calls are used up, as those under
\* which it has remembered messages.
Begun(a) ==
  \A d \in Calls : By(a, d) /\ issued[d].key[1] \in Numbers =>
    LET n == issued[d].key[1]
    IN /\ n < rows
       /\ \/ n < turn[a] \/ <<a, n>> \in cut
          \/ n = turn[a] /\ act[a].turning /\ act[a].pc # "remember"

\* A call made in a continuation was made after it began.
Went(a) ==
  /\ act[a].src \in Calls => continued[a][act[a].src] > 0
  /\ \A d \in Calls : By(a, d) /\ issued[d].key[1] \in Calls => continued[a][issued[d].key[1]] > 0

\* The calls of the episode a being is in are behind it, but for the one in its
\* hand.
Dispatching == {"think", "submit", "run", "commit"}
Behind(a) ==
  \A d \in Calls :
    By(a, d) /\ issued[d].key[1] = act[a].src /\ act[a].pc \in Dispatching =>
      \/ Repeated(a, act[a].src)
      \/ issued[d].key[2] < act[a].k
      \/ act[a].pc # "think" /\ d = act[a].call

PastInv == \A a \in Beings : Begun(a) /\ Went(a) /\ Behind(a)

Safe5 == Safe4 /\ AskedInv /\ PastInv

LEMMA IssueTyped ==
  ASSUME TypeInv, NEW a \in Beings, NEW d, By(a, d)
  PROVE  /\ issued[d].key \in Keys /\ issued[d].key[1] \in Episodes
         /\ issued[d].key[2] \in Nat /\ issued[d].key = <<issued[d].key[1], issued[d].key[2]>>
<1>1. issued[d] \in Issue
  BY DEF By, TypeInv, Typed
<1>2. issued[d].key \in Keys
  BY <1>1 DEF Issue
<1> QED BY <1>2, TurnAssumption DEF Keys

LEMMA RepeatedStays ==
  ASSUME TypeInv, [Next]_vars, cut \subseteq cut', NEW a \in Beings, NEW e \in Episodes, Repeated(a, e)
  PROVE  Repeated(a, e)'
<1>1. CASE e \in Numbers
  BY <1>1 DEF Repeated
<1>2. CASE e \notin Numbers
  <2>1. e \in Calls
    BY <1>2 DEF Episodes
  <2>2. continued'[a][e] >= continued[a][e] /\ continued[a][e] \in Nat /\ continued'[a][e] \in Nat
    <3>1. continued \in [Beings -> [Calls -> Nat]] /\ continued' \in [Beings -> [Calls -> Nat]]
      BY TypeInvStep DEF TypeInv, Typed
    <3> QED BY <2>1, <3>1, ContinuedGrows
  <2>3. continued[a][e] > 1
    BY <1>2 DEF Repeated
  <2> QED BY <1>2, <2>2, <2>3 DEF Repeated
<1> QED BY <1>1, <1>2

LEMMA CutGrows == ASSUME TypeInv, [Next]_vars PROVE cut \subseteq cut'
<1>1. ASSUME NEW a \in Beings, Local(a) \/ Locked(a) PROVE cut \subseteq cut'
  BY <1>1, TurnLocal, TurnLocked DEF Counts, BeginTurn, Remember, Counted, CutShort, history
<1>2. ASSUME Outside \/ Crash \/ UNCHANGED vars \/ \E a \in Beings : Drop(a) PROVE cut \subseteq cut'
  BY <1>2 DEF Outside, vars, history, Say, Order, ApprovePending, DenyPending, Expire, Crash, Drop
<1> QED BY <1>1, <1>2 DEF Next
\* A used number stays used by whatever happens next.
LEMMA UsedStays ==
  ASSUME Safe4, [Next]_vars, NEW b \in Beings, NEW n \in Numbers, n < rows,
         \/ n < turn[b] \/ <<b, n>> \in cut
         \/ n = turn[b] /\ act[b].turning /\ act[b].pc # "remember"
  PROVE  /\ n < rows'
         /\ \/ n < turn'[b] \/ <<b, n>> \in cut'
            \/ n = turn'[b] /\ act'[b].turning /\ act'[b].pc # "remember"
<1>0. /\ TypeInv /\ rows \in Nat /\ n \in Nat /\ turn[b] \in Nat /\ ActOK(b)
      /\ turn \in [Beings -> 0..(MaxTurn + 1)]
  <2>1. TypeInv /\ Typed
    BY DEF Safe4, TypeInv
  <2>2. rows \in 0..(MaxTurn + 1) /\ turn \in [Beings -> 0..(MaxTurn + 1)] /\ n \in 0..MaxTurn
    BY <2>1 DEF Typed, Numbers
  <2> QED BY <2>1, <2>2 DEF TypeInv
<1>1. ASSUME NEW a \in Beings \ {b}, Local(a) \/ Locked(a) \/ Drop(a)
      PROVE  rows <= rows' /\ rows' \in Nat /\ turn'[b] = turn[b] /\ cut \subseteq cut' /\ act'[b] = act[b]
  <2>1. act'[b] = act[b]
    BY <1>0, <1>1, LocalPlaces, LockedPlaces, MovesOf DEF Apart, Inside, Exits, Enters, Moves
  <2> QED BY <1>1, <2>1, OwnMemory
<1>2. CASE \E a \in Beings \ {b} : Local(a) \/ Locked(a) \/ Drop(a)
  BY <1>0, <1>1, <1>2
<1>3. CASE Local(b) \/ Locked(b) \/ Drop(b)
  <2>1. rows <= rows' /\ rows' \in Nat /\ cut \subseteq cut'
    BY <1>3, OwnMemory
  <2>2. CASE act[b].pc # "remember" /\ Onward(b) /\ UNCHANGED Counts
    BY <1>0, <2>2 DEF Onward, Counts
  <2>3. CASE BeginTurn(b)
    <3>1. turn' = turn /\ ~act[b].turning
      BY <1>0, <2>3 DEF BeginTurn, At, ActOK, Idle, Act
    <3> QED BY <1>0, <2>1, <3>1
  <2>4. CASE Remember(b)
    <3>1. turn' = turn /\ act[b].pc = "remember"
      BY <2>4 DEF Remember, At
    <3> QED BY <1>0, <2>1, <3>1
  <2>5. CASE Counted(b)
    <3>1. turn'[b] = turn[b] + 1
      BY <1>0, <2>5 DEF Counted
    <3> QED BY <1>0, <2>1, <3>1
  <2>6. CASE CutShort(b)
    <3>1. turn' = turn /\ <<b, turn[b]>> \in cut'
      BY <2>6 DEF CutShort
    <3> QED BY <1>0, <2>1, <3>1
  <2>7. Drop(b) => CutShort(b)
    BY <1>0 DEF Drop, CutShort, stores, TypeInv, ActsOK
  <2> QED BY <1>0, <1>3, <2>2, <2>3, <2>4, <2>5, <2>6, <2>7, TurnLocal, TurnLocked
<1>4. CASE Crash
  BY <1>0, <1>4 DEF Crash
<1>5. CASE Outside \/ UNCHANGED vars
  <2>1. act' = act /\ UNCHANGED Counts
    BY <1>5 DEF Outside, vars, stores, history, Counts, Say, Order, ApprovePending, DenyPending, Expire
  <2> QED BY <2>1 DEF Counts
<1> QED BY <1>2, <1>3, <1>4, <1>5 DEF Next

LEMMA BegunStep == ASSUME Safe5, [Next]_vars, NEW b \in Beings PROVE Begun(b)'
<1> SUFFICES ASSUME NEW d \in Calls, By(b, d)', issued'[d].key[1] \in Numbers
             PROVE  LET n == issued'[d].key[1]
                    IN  /\ n < rows'
                        /\ \/ n < turn'[b] \/ <<b, n>> \in cut'
                           \/ n = turn'[b] /\ act'[b].turning /\ act'[b].pc # "remember"
  BY DEF Begun
<1> DEFINE n == issued'[d].key[1]
<1>0. Safe4 /\ TypeInv /\ AskedInv /\ Begun(b) /\ ActOK(b) /\ MemoryOK(b) /\ n \in Numbers
  BY DEF Safe5, Safe4, PastInv, TypeInv
<1>1. CASE By(b, d) /\ issued'[d].key = issued[d].key
  <2>1. /\ n < rows
        /\ \/ n < turn[b] \/ <<b, n>> \in cut
           \/ n = turn[b] /\ act[b].turning /\ act[b].pc # "remember"
    BY <1>0, <1>1 DEF Begun
  <2> HIDE DEF n
  <2>2. /\ n < rows'
        /\ \/ n < turn'[b] \/ <<b, n>> \in cut'
           \/ n = turn'[b] /\ act'[b].turning /\ act'[b].pc # "remember"
    BY <1>0, <2>1, UsedStays
  <2> QED BY <2>2 DEF n
<1>2. CASE ThinkCall(b, d) /\ issued'[d].key = Key(b)
  <2>1. n = act[b].src /\ act[b].pc = "think"
    BY <1>2 DEF Key, ThinkCall, At
  <2>2. n = turn[b] /\ act[b].turning /\ turn[b] < rows
    BY <1>0, <2>1 DEF ActOK, MemoryOK
  <2> HIDE DEF n
  <2>3. /\ n < rows'
        /\ \/ n < turn'[b] \/ <<b, n>> \in cut'
           \/ n = turn'[b] /\ act'[b].turning /\ act'[b].pc # "remember"
    BY <1>0, <2>1, <2>2, UsedStays
  <2> QED BY <2>3 DEF n
<1> QED BY <1>0, <1>1, <1>2, NewIssue
\* The episode of a being changes only where one begins or ends.
SrcFits(a) == \/ act'[a].src = act[a].src \/ act'[a].src \in Numbers \cup {None}
              \/ /\ act'[a].src = act[a].call /\ act[a].call \in Calls
                 /\ continued'[a][act[a].call] > 0

LEMMA SrcOf == ASSUME TypeInv, NEW a \in Beings, Local(a) \/ Locked(a) PROVE SrcFits(a)
<1> USE DEF At
<1>1. /\ \A pc \in PCs : Goto(a, pc) => SrcFits(a)
      /\ Leave(a) => SrcFits(a)
      /\ act' = [act EXCEPT ![a] = Idle] => SrcFits(a)
  <2>1. ASSUME NEW pc \in PCs, Goto(a, pc) PROVE SrcFits(a)
    BY <2>1, GotoGoes DEF GoesTo, SrcFits, TypeInv
  <2>2. ASSUME Gets(a, Idle) PROVE SrcFits(a)
    BY <2>2 DEF Gets, Idle, Act, SrcFits
  <2>3. ASSUME Leave(a) PROVE SrcFits(a)
    BY <2>2, <2>3, LeaveGoes DEF GoesTo, SrcFits, TypeInv
  <2>4. ASSUME act' = [act EXCEPT ![a] = Idle] PROVE SrcFits(a)
    BY <2>2, <2>4, IdleRecord, GetsWhat DEF TypeInv
  <2> QED BY <2>1, <2>3, <2>4
<1>2. ASSUME NEW r, Dispatched(a, r), act[a].pc \in {"submit", "commit"},
             r.phase = "ask" => r.call \in Calls
      PROVE  SrcFits(a)
  BY <1>2, DispatchedGoes DEF GoesTo, SrcFits, TypeInv, ActOK
<1>3. CASE BeginTurn(a)
  <2>1. Gets(a, Act("remember", TRUE, Head(inbox[a]), turn[a], 0, None)) /\ turn[a] \in Numbers
    BY <1>3, BeginTurnGets DEF BeginTurn
  <2> QED BY <2>1 DEF Gets, Act, SrcFits
<1>4. CASE ReceiveSignal(a)
  <2>1. Gets(a, Act("resume", FALSE, Head(inbox[a]), None, 0, Head(inbox[a]).body))
    BY <1>4, ReceiveSignalGets
  <2> QED BY <2>1 DEF Gets, Act, SrcFits
<1>5. CASE Remember(a)
  BY <1>5, RememberGoes DEF GoesTo, SrcFits
<1>6. ASSUME NEW c \in Calls, ThinkCall(a, c) PROVE SrcFits(a)
  BY <1>6, ThinkCallGoes DEF GoesTo, SrcFits
<1>7. CASE SubmitKnown(a)
  <2>1. outbox[Key(a)].phase = "ask" => outbox[Key(a)].call \in Calls
    BY <1>7, KeyFacts DEF SubmitKnown, TypeInv, AskHasCall
  <2> QED BY <1>2, <1>7, <2>1 DEF SubmitKnown
<1>8. CASE Commit(a)
  <2> DEFINE r == Row(IF act[a].call \in pending THEN "ask" ELSE "fed", act[a].call)
  <2>1. Dispatched(a, r) \/ Leave(a)
    BY <1>8 DEF Commit
  <2>2. r.phase = "ask" => r.call \in Calls
    BY <1>8 DEF Commit, TypeInv, ActOK, Row
  <2> HIDE DEF r
  <2> QED BY <1>1, <1>2, <1>8, <2>1, <2>2 DEF Commit
<1>9. CASE Inject(a)
  <2>1. act[a].call \in Calls /\ GoesTo(a, "think", act[a].call, 0, act[a].call)
    BY <1>9, InjectGoes
  <2>2. continued'[a][act[a].call] > 0
    BY <1>9, <2>1 DEF Inject, TypeInv, Typed
  <2> QED BY <2>1, <2>2 DEF GoesTo, SrcFits
<1>10. CASE BeginTurnFails(a)
  BY <1>10 DEF BeginTurnFails, SrcFits
<1>11. CASE RememberFails(a) \/ Answer(a) \/ ThinkAnswer(a) \/ SuspendFails(a) \/ Suspend(a)
  BY <1>1, <1>11 DEF RememberFails, Answer, ThinkAnswer, SuspendFails, Suspend
<1>12. CASE Run(a) \/ Resume(a) \/ ApproveRun(a) \/ ApproveRunRefused(a) \/ ApproveRemove(a)
  BY <1>1, <1>12 DEF Run, Resume, ApproveRun, ApproveRunRefused, ApproveRemove, PCs
<1>13. CASE ApproveCommit(a)
  <2>1. "approveRemove" \in PCs
    BY DEF PCs
  <2> QED BY <1>1, <1>13, <2>1, MovesOf
<1>14. CASE \/ SubmitFresh(a) \/ Persist(a) \/ PersistRefused(a) \/ ApproveIntent(a)
            \/ ApproveAgain(a) \/ ApproveRefused(a)
  BY <1>1, <1>14 DEF SubmitFresh, Persist, PersistRefused, ApproveIntent, ApproveAgain,
     ApproveRefused, PCs
<1> QED
  BY <1>3, <1>4, <1>5, <1>6, <1>7, <1>8, <1>9, <1>10, <1>11, <1>12, <1>13, <1>14
     DEF Local, Locked

LEMMA WentStep == ASSUME Safe5, [Next]_vars, NEW b \in Beings PROVE Went(b)'
<1>0. /\ TypeInv /\ TypeInv' /\ AskedInv /\ Went(b)
      /\ \A c \in Calls : continued[b][c] \in Nat /\ continued'[b][c] \in Nat
  <2>1. TypeInv /\ TypeInv' /\ AskedInv /\ Went(b)
    BY TypeInvStep DEF Safe5, Safe4, PastInv
  <2>2. continued \in [Beings -> [Calls -> Nat]]
    BY <2>1 DEF TypeInv, Typed
  <2>3. continued' \in [Beings -> [Calls -> Nat]]
    BY <2>1 DEF TypeInv, Typed
  <2> QED BY <2>1, <2>2, <2>3
<1>1. ASSUME NEW c \in Calls, continued[b][c] > 0 PROVE continued'[b][c] > 0
  BY <1>0, <1>1, ContinuedGrows
<1>2. ASSUME act'[b].src \in Calls PROVE continued'[b][act'[b].src] > 0
  <2>0. \A n \in Numbers \cup {None} : n \notin Calls
    BY TurnAssumption DEF Numbers
  <2>1. CASE act'[b].src = act[b].src
    BY <1>0, <1>1, <1>2, <2>1 DEF Went
  <2>2. CASE SrcFits(b)
    BY <1>2, <2>0, <2>1, <2>2 DEF SrcFits
  <2>3. ASSUME NEW a \in Beings, Local(a) \/ Locked(a) PROVE SrcFits(b)
    <3>1. CASE a = b
      BY <1>0, <2>3, <3>1, SrcOf
    <3>2. CASE a # b
      <4>1. act'[b] = act[b]
        BY <1>0, <2>3, <3>2, LocalPlaces, LockedPlaces DEF Apart, Inside, Exits, Enters, Moves
      <4> QED BY <4>1 DEF SrcFits
    <3> QED BY <3>1, <3>2
  <2>4. ASSUME Outside \/ Crash \/ UNCHANGED vars \/ \E a \in Beings : Drop(a) PROVE SrcFits(b)
    <3>1. act'[b] = act[b] \/ act'[b] = Idle
      BY <1>0, <2>4 DEF Outside, vars, Say, Order, ApprovePending, DenyPending, Expire, Crash, Drop,
         TypeInv, ActsOK
    <3> QED BY <3>1 DEF SrcFits, Idle, Act
  <2> QED BY <2>2, <2>3, <2>4 DEF Next
<1>3. ASSUME NEW d \in Calls, By(b, d)', issued'[d].key[1] \in Calls
      PROVE  continued'[b][issued'[d].key[1]] > 0
  <2>1. CASE By(b, d) /\ issued'[d].key = issued[d].key
    BY <1>0, <1>1, <1>3, <2>1 DEF Went
  <2>2. CASE ThinkCall(b, d) /\ issued'[d].key = Key(b)
    <3>1. issued'[d].key[1] = act[b].src
      BY <2>2 DEF Key
    <3> QED BY <1>0, <1>1, <1>3, <3>1 DEF Went
  <2> QED BY <1>0, <1>3, <2>1, <2>2, NewIssue
<1> QED BY <1>2, <1>3 DEF Went
\* How a being comes to where it dispatches.
LEMMA PositionOf ==
  ASSUME TypeInv, NEW a \in Beings, Local(a) \/ Locked(a), act'[a].pc \in Dispatching
  PROVE  \/ \E c \in Calls : ThinkCall(a, c) /\ GoesTo(a, "submit", act[a].src, act[a].k, c)
         \/ /\ act[a].pc \in {"submit", "run"} /\ act'[a].pc # "think"
            /\ act'[a].src = act[a].src /\ act'[a].k = act[a].k /\ act'[a].call = act[a].call
         \/ /\ act[a].pc \in {"submit", "run", "commit"} /\ act[a].k \in Nat
            /\ act'[a].src = act[a].src /\ act'[a].k = act[a].k + 1
         \/ Inject(a) /\ act[a].call \in Calls /\ act'[a].src = act[a].call
         \/ act[a].pc = "remember" /\ act[a].src \in Numbers /\ act'[a].src = act[a].src
<1> USE DEF At
<1>1. ASSUME NEW c \in Calls, ThinkCall(a, c) PROVE GoesTo(a, "submit", act[a].src, act[a].k, c)
  BY <1>1, ThinkCallGoes
<1>2. CASE SubmitFresh(a) \/ Run(a)
  <2>1. \/ GoesTo(a, "run", act[a].src, act[a].k, act[a].call)
        \/ GoesTo(a, "commit", act[a].src, act[a].k, act[a].call)
    BY <1>2, GotoGoes DEF SubmitFresh, Run, TypeInv, PCs
  <2> QED BY <1>2, <2>1 DEF GoesTo, SubmitFresh, Run
<1>3. ASSUME NEW r, Dispatched(a, r), act[a].pc \in {"submit", "commit"},
             r.phase = "ask" => r.call \in Calls
      PROVE  act[a].k \in Nat /\ act'[a].src = act[a].src /\ act'[a].k = act[a].k + 1
  <2>1. act[a].k < MaxCalls /\ act[a].k \in Nat
    BY <1>3 DEF TypeInv, ActOK, ActsOK, ActRecord
  <2>2. ~GoesTo(a, "persist", act[a].src, act[a].k, r.call)
    BY DEF GoesTo, Dispatching
  <2> QED BY <1>3, <2>1, <2>2, DispatchedGoes DEF GoesTo, TypeInv
<1>4. CASE SubmitKnown(a)
  <2>1. outbox[Key(a)].phase = "ask" => outbox[Key(a)].call \in Calls
    BY <1>4, KeyFacts DEF SubmitKnown, TypeInv, AskHasCall
  <2> QED BY <1>3, <1>4, <2>1 DEF SubmitKnown
<1>5. CASE Commit(a)
  <2> DEFINE r == Row(IF act[a].call \in pending THEN "ask" ELSE "fed", act[a].call)
  <2>1. Dispatched(a, r) \/ Leave(a)
    BY <1>5 DEF Commit
  <2>2. r.phase = "ask" => r.call \in Calls
    BY <1>5 DEF Commit, TypeInv, ActOK, Row
  <2>3. ~Leave(a)
    BY LeaveMoves DEF Moves, Dispatching
  <2> HIDE DEF r
  <2> QED BY <1>3, <1>5, <2>1, <2>2, <2>3 DEF Commit
<1>6. CASE Inject(a)
  BY <1>6, InjectGoes DEF GoesTo
<1>7. CASE Remember(a)
  BY <1>7, RememberGoes DEF Remember, GoesTo, TypeInv, ActOK, Dispatching
<1>8. CASE \/ ApproveIntent(a) \/ ApproveRun(a) \/ ApproveCommit(a) \/ Persist(a)
           \/ PersistRefused(a) \/ ApproveRefused(a) \/ BeginTurn(a) \/ BeginTurnFails(a)
           \/ RememberFails(a) \/ ThinkAnswer(a)
  BY <1>8, MovesOf DEF Moves, Dispatching
<1>9. CASE \/ Suspend(a) \/ SuspendFails(a) \/ Answer(a) \/ ReceiveSignal(a) \/ Resume(a)
           \/ ApproveRunRefused(a) \/ ApproveRemove(a) \/ ApproveAgain(a)
  BY <1>9, MovesOf DEF Moves, Dispatching
<1> QED BY <1>1, <1>2, <1>4, <1>5, <1>6, <1>7, <1>8, <1>9 DEF Local, Locked
LEMMA BehindStep == ASSUME Safe5, [Next]_vars, NEW b \in Beings PROVE Behind(b)'
<1> DEFINE Goal(d) == \/ Repeated(b, act[b].src)'
                      \/ issued'[d].key[2] < act'[b].k
                      \/ act'[b].pc # "think" /\ d = act'[b].call
<1> SUFFICES ASSUME NEW d \in Calls, By(b, d)', issued'[d].key[1] = act'[b].src,
                    act'[b].pc \in Dispatching
             PROVE  Goal(d)
  BY DEF Behind
<1>0. /\ Safe4 /\ TypeInv /\ AskedInv /\ ActOK(b) /\ Begun(b) /\ Went(b) /\ Behind(b)
      /\ cut \subseteq cut'
  BY CutGrows DEF Safe5, Safe4, PastInv, TypeInv
\* A call made before: it is behind, or its episode was repeated.
<1>1. ASSUME By(b, d), issued'[d].key = issued[d].key, act'[b].src = act[b].src,
             act[b].pc \in Dispatching
      PROVE  \/ Repeated(b, act[b].src)'
             \/ issued[d].key[2] < act[b].k
             \/ act[b].pc # "think" /\ d = act[b].call
  <2>1. act[b].src \in Episodes
    BY <1>0, <1>1, IssueTyped
  <2>2. \/ Repeated(b, act[b].src)
        \/ issued[d].key[2] < act[b].k
        \/ act[b].pc # "think" /\ d = act[b].call
    BY <1>0, <1>1 DEF Behind
  <2>3. Repeated(b, act[b].src) => Repeated(b, act[b].src)'
    <3> SUFFICES ASSUME Repeated(b, act[b].src) PROVE Repeated(b, act[b].src)'
      OBVIOUS
    <3>1. PICK e \in Episodes : e = act[b].src
      BY <2>1
    <3>2. Repeated(b, e)
      BY <3>1
    <3>3. Repeated(b, e)'
      BY <1>0, <3>2, RepeatedStays
    <3> QED BY <1>1, <3>1, <3>3 DEF Repeated
  <2> QED BY <2>2, <2>3
<1>2. CASE act'[b] = act[b]
  <2>1. ~ThinkCall(b, d)
    BY <1>0, <1>2, ThinkCallGoes DEF ThinkCall, At, GoesTo
  <2> QED BY <1>0, <1>1, <1>2, <2>1, NewIssue
<1>3. CASE Local(b) \/ Locked(b)
  <2>1. ASSUME NEW c \in Calls, ThinkCall(b, c), GoesTo(b, "submit", act[b].src, act[b].k, c)
        PROVE  Goal(d)
    <3>1. CASE ThinkCall(b, d)
      BY <1>0, <3>1, ThinkCallGoes DEF GoesTo
    <3>2. CASE By(b, d) /\ issued'[d].key = issued[d].key
      BY <1>1, <2>1, <3>2 DEF ThinkCall, At, GoesTo, Dispatching
    <3> QED BY <1>0, <3>1, <3>2, NewIssue
  <2>2. ASSUME act[b].pc # "think" PROVE By(b, d) /\ issued'[d].key = issued[d].key
    BY <1>0, <2>2, NewIssue DEF ThinkCall, At
  <2>3. ASSUME act[b].pc \in {"submit", "run"}, act'[b].pc # "think", act'[b].src = act[b].src,
               act'[b].k = act[b].k, act'[b].call = act[b].call
        PROVE  Goal(d)
    BY <1>1, <2>2, <2>3 DEF Dispatching
  <2>4. ASSUME act[b].pc \in {"submit", "run", "commit"}, act[b].k \in Nat,
               act'[b].src = act[b].src, act'[b].k = act[b].k + 1
        PROVE  Goal(d)
    <3>1. /\ By(b, d) /\ issued'[d].key = issued[d].key /\ issued[d].key[2] \in Nat
          /\ issued[act[b].call].key = Key(b)
      BY <1>0, <2>2, <2>4, IssueTyped DEF ActOK
    <3>2. CASE issued[d].key[2] < act[b].k
      BY <2>4, <3>1, <3>2
    <3>3. CASE d = act[b].call
      <4>1. issued[d].key[2] = act[b].k
        BY <3>1, <3>3 DEF Key
      <4> QED BY <2>4, <3>1, <4>1
    <3> QED BY <1>1, <2>4, <3>1, <3>2, <3>3 DEF Dispatching
  <2>5. ASSUME Inject(b), act[b].call \in Calls, act'[b].src = act[b].call PROVE Goal(d)
    <3>1. By(b, d) /\ issued[d].key[1] = act[b].call
      BY <2>2, <2>5 DEF Inject, At
    <3>2. continued[b][act[b].call] > 0
      BY <1>0, <2>5, <3>1 DEF Went, By
    <3>3. continued[b][act[b].call] \in Nat
      BY <1>0, <2>5 DEF TypeInv, Typed
    <3>4. continued'[b][act[b].call] = continued[b][act[b].call] + 1
      BY <1>0, <2>5 DEF Inject, TypeInv, Typed
    <3>5. act[b].call \notin Numbers
      BY <2>5, TurnAssumption DEF Numbers
    <3> QED BY <2>5, <3>2, <3>3, <3>4, <3>5 DEF Repeated
  <2>6. ASSUME act[b].pc = "remember", act[b].src \in Numbers, act'[b].src = act[b].src
        PROVE  Goal(d)
    <3>1. By(b, d) /\ issued[d].key[1] = act[b].src /\ act[b].src = turn[b]
      BY <1>0, <2>2, <2>6 DEF ActOK
    <3>2. turn[b] < turn[b] \/ <<b, turn[b]>> \in cut
      BY <1>0, <2>6, <3>1 DEF Begun
    <3>3. ~(turn[b] < turn[b])
      <4>1. turn[b] \in 0..MaxTurn
        BY <2>6, <3>1 DEF Numbers
      <4> QED BY <4>1
    <3> QED BY <1>0, <2>6, <3>1, <3>2, <3>3 DEF Repeated
  <2> QED BY <1>0, <1>3, <2>1, <2>3, <2>4, <2>5, <2>6, PositionOf
<1>4. ASSUME NEW a \in Beings \ {b}, Local(a) \/ Locked(a) PROVE act'[b] = act[b]
  BY <1>0, <1>4, LocalPlaces, LockedPlaces DEF Apart, Inside, Exits, Enters, Moves
<1>5. ASSUME Outside \/ Crash \/ UNCHANGED vars \/ \E a \in Beings : Drop(a) PROVE act'[b] = act[b]
  <2>1. act'[b] = act[b] \/ act'[b] = Idle
    BY <1>0, <1>5 DEF Outside, vars, Say, Order, ApprovePending, DenyPending, Expire, Crash, Drop,
       TypeInv, ActsOK
  <2>2. Idle.pc \notin Dispatching
    BY DEF Idle, Act, Dispatching
  <2> QED BY <2>1, <2>2
<1> QED BY <1>2, <1>3, <1>4, <1>5 DEF Next
\* Two calls of a being have one key only in an episode that was repeated; the
\* outcome under a key, and so the answer a call gets, is of a call with that key.
KeysApart ==
  \A c, d \in Calls :
    (/\ issued[c] # None /\ issued[d] # None /\ c # d
     /\ issued[c].by = issued[d].by /\ issued[c].key = issued[d].key)
      => Repeated(issued[c].by, issued[c].key[1])

RowsOwned ==
  \A s \in Keys : outbox[s].call # None =>
    issued[outbox[s].call] # None /\ issued[outbox[s].call].key = s

AnswersOwned ==
  \A c \in Calls : issued[c] # None /\ issued[c].answer # None =>
    issued[issued[c].answer] # None /\ issued[issued[c].answer].key = issued[c].key

Safe6 == Safe5 /\ KeysApart /\ RowsOwned /\ AnswersOwned

LEMMA Safe5Step == Safe5 /\ [Next]_vars => Safe5'
<1> SUFFICES ASSUME Safe5, [Next]_vars PROVE Safe5'
  OBVIOUS
<1>1. Safe4 /\ TypeInv /\ AskedInv
  BY DEF Safe5, Safe4
<1>2. Safe4' /\ AskedInv'
  BY <1>1, Safe4Step, AskedInvStep
<1>3. PastInv'
  BY BegunStep, WentStep, BehindStep DEF PastInv
<1> QED BY <1>2, <1>3 DEF Safe5

LEMMA KeysApartStep == ASSUME Safe6, [Next]_vars PROVE KeysApart'
<1> SUFFICES ASSUME NEW c \in Calls, NEW d \in Calls, NEW a \in Beings,
                    By(a, c)', By(a, d)', c # d, issued'[c].key = issued'[d].key
             PROVE  Repeated(a, issued[c].key[1])'
  <2>1. TypeInv'
    BY TypeInvStep DEF Safe6, Safe5, Safe4
  <2>2. \A c \in Calls : issued'[c] # None => issued'[c].by \in Beings
    <3>1. issued' \in [Calls -> Issue \cup {None}]
      BY <2>1 DEF TypeInv, Typed
    <3> QED BY <3>1 DEF Issue
  <2>3. SUFFICES ASSUME NEW c \in Calls, NEW d \in Calls, issued'[c] # None, issued'[d] # None,
                        c # d, issued'[c].by = issued'[d].by, issued'[c].key = issued'[d].key
                 PROVE  Repeated(issued[c].by, issued[c].key[1])'
    BY DEF KeysApart, Repeated
  <2>4. PICK a \in Beings : a = issued'[c].by
    BY <2>2, <2>3
  <2>5. Repeated(a, issued[c].key[1])'
    BY <2>3, <2>4 DEF By
  <2> QED BY <2>4, <2>5 DEF Repeated
<1>0. TypeInv /\ AskedInv /\ Behind(a) /\ cut \subseteq cut'
  BY CutGrows DEF Safe6, Safe5, Safe4, PastInv
<1>1. ASSUME NEW e \in Episodes, Repeated(a, e), e = issued'[c].key[1]
      PROVE  Repeated(a, issued[c].key[1])'
  BY <1>0, <1>1, RepeatedStays DEF Repeated
\* An old call with the key of one being made is not behind the loop.
<1>2. ASSUME NEW x \in Calls, NEW y \in Calls, By(a, x), issued'[x].key = issued[x].key,
             ThinkCall(a, y), issued'[y].key = Key(a), issued'[x].key = issued'[y].key
      PROVE  act[a].src \in Episodes /\ Repeated(a, act[a].src) /\ issued'[y].key[1] = act[a].src
  <2>1. /\ issued[x].key[1] = act[a].src /\ issued[x].key[2] = act[a].k /\ act[a].pc = "think"
        /\ issued[x].key[2] \in Nat /\ act[a].src \in Episodes
    BY <1>0, <1>2, IssueTyped DEF Key, ThinkCall, At
  <2>2. ~(issued[x].key[2] < act[a].k)
    BY <2>1
  <2>3. Repeated(a, act[a].src)
    BY <1>0, <1>2, <2>1, <2>2 DEF Behind, Dispatching
  <2> QED BY <1>2, <2>1, <2>3 DEF Key
<1>3. CASE By(a, c) /\ issued'[c].key = issued[c].key /\ By(a, d) /\ issued'[d].key = issued[d].key
  <2>1. issued[c].key[1] \in Episodes /\ Repeated(a, issued[c].key[1])
    BY <1>0, <1>3, IssueTyped DEF Safe6, KeysApart, By
  <2> QED BY <1>1, <1>3, <2>1
<1>4. CASE By(a, c) /\ issued'[c].key = issued[c].key /\ ThinkCall(a, d) /\ issued'[d].key = Key(a)
  BY <1>1, <1>2, <1>4
<1>5. CASE ThinkCall(a, c) /\ issued'[c].key = Key(a) /\ By(a, d) /\ issued'[d].key = issued[d].key
  BY <1>1, <1>2, <1>5
<1>6. ~(ThinkCall(a, c) /\ ThinkCall(a, d))
  BY <1>0, ThinkCallGoes DEF GoesTo
<1> QED BY <1>0, <1>3, <1>4, <1>5, <1>6, NewIssue

LEMMA RowsOwnedStep == ASSUME Safe6, [Next]_vars PROVE RowsOwned'
<1> SUFFICES ASSUME NEW s \in Keys, outbox'[s].call # None
             PROVE  issued'[outbox'[s].call] # None /\ issued'[outbox'[s].call].key = s
  BY DEF RowsOwned
<1>0. TypeInv /\ s \in Slots /\ s \notin Calls
  BY SlotAssumption DEF Safe6, Safe5, Safe4, Slots
<1>1. IssuedStays
  <2>1. CASE UNCHANGED vars
    BY <2>1 DEF vars, IssuedStays
  <2> QED BY <1>0, <2>1, IssuedStep
<1>2. CASE outbox'[s] = outbox[s]
  <2>1. outbox[s].call \in Calls
    BY <1>0, <1>2 DEF TypeInv, Typed
  <2> QED BY <1>1, <1>2, <2>1 DEF IssuedStays, Safe6, RowsOwned
<1>3. CASE outbox'[s] # outbox[s]
  <2>1. ASSUME NEW r, NEW row, RowsBecome(r, row)
        PROVE  r = s /\ outbox'[s] = row /\ row.call # None
    BY <1>0, <1>3, <2>1 DEF RowsBecome, TypeInv, Typed
  <2>2. Row("intent", None).call = None
    BY DEF Row
  <2>3. ASSUME NEW a \in Beings, PersistRefused(a) \/ ApproveRunRefused(a) \/ ApproveCommit(a)
        PROVE  act[a].call \in Calls
    BY <1>0, <2>3 DEF PersistRefused, ApproveRunRefused, ApproveCommit, At, TypeInv, ActOK
  <2>4. PICK a \in Beings :
          /\ Commit(a)
          /\ RowsBecome(Key(a), Row(IF act[a].call \in pending THEN "ask" ELSE "fed", act[a].call))
    BY <1>0, <1>3, <2>1, <2>2, <2>3, OutboxStep
  <2>5. Key(a) = s /\ outbox'[s].call = act[a].call
    BY <2>1, <2>4 DEF Row
  <2>6. act[a].call \in Calls /\ issued[act[a].call] # None /\ issued[act[a].call].key = s
    BY <1>0, <2>4, <2>5 DEF Commit, At, TypeInv, ActOK
  <2> QED BY <1>1, <2>5, <2>6 DEF IssuedStays
<1> QED BY <1>2, <1>3
LEMMA AnswersOwnedStep == ASSUME Safe6, [Next]_vars PROVE AnswersOwned'
<1> SUFFICES ASSUME NEW c \in Calls, issued'[c] # None, issued'[c].answer # None
             PROVE  /\ issued'[issued'[c].answer] # None
                    /\ issued'[issued'[c].answer].key = issued'[c].key
  BY DEF AnswersOwned
<1>0. TypeInv /\ AskedInv /\ AnswersOwned /\ RowsOwned
  BY DEF Safe6, Safe5, Safe4
<1>1. IssuedStays
  <2>1. CASE UNCHANGED vars
    BY <2>1 DEF vars, IssuedStays
  <2> QED BY <1>0, <2>1, IssuedStep
<1>2. CASE issued'[c] = issued[c]
  <2>1. issued[c] \in Issue
    BY <1>0, <1>2 DEF TypeInv, Typed
  <2>2. issued[c].answer \in Calls
    BY <1>2, <2>1 DEF Issue
  <2> QED BY <1>0, <1>1, <1>2, <2>2 DEF IssuedStays, AnswersOwned
<1>3. CASE issued'[c] # issued[c]
  <2>1. ASSUME NEW a \in Beings, NEW d \in Calls, ThinkCall(a, d) PROVE FALSE
    <3>1. issued'[c] = [by |-> a, key |-> Key(a), answer |-> None]
      BY <1>0, <1>3, <2>1 DEF ThinkCall, TypeInv, Typed
    <3> QED BY <3>1
  <2>2. ASSUME NEW a \in Beings, SubmitKnown(a) \/ Commit(a)
        PROVE  c = act[a].call /\ issued[c] # None /\ issued[c].key = Key(a) /\ Key(a) \in Keys
    BY <1>0, <1>3, <2>2, AnswerSet, KeyFacts, SMTT(30)
    DEF SubmitKnown, Commit, At, TypeInv, ActOK
  <2>3. ASSUME NEW a \in Beings, Commit(a)
        PROVE  issued'[c].answer = c
    <3>1. act[a].pc = "commit" /\ issued' = [issued EXCEPT ![act[a].call].answer = act[a].call]
      BY <2>3 DEF Commit, At
    <3>2. act[a].call \in Calls
      BY <2>2, <2>3
    <3>3. issued'[act[a].call].answer = act[a].call
      BY <1>0, <3>1, <3>2, AnswerStays
    <3> QED BY <2>2, <2>3, <3>3
  <2>4. ASSUME NEW a \in Beings, SubmitKnown(a)
        PROVE  issued'[c].answer = outbox[Key(a)].call /\ outbox[Key(a)].call \in Calls \cup {None}
    <3>1. /\ act[a].pc = "submit"
          /\ issued' = [issued EXCEPT ![act[a].call].answer = outbox[Key(a)].call]
      BY <2>4 DEF SubmitKnown, At
    <3>2. outbox[Key(a)].call \in Calls \cup {None}
      BY <1>0, <2>2, <2>4 DEF TypeInv, Typed, Slots
    <3>3. issued'[act[a].call].answer = outbox[Key(a)].call
      BY <1>0, <3>1, <3>2, AnswerStays
    <3> QED BY <2>2, <2>4, <3>2, <3>3
  <2>5. CASE \E a \in Beings : Commit(a)
    BY <1>1, <2>2, <2>3, <2>5
  <2>6. ASSUME NEW a \in Beings, SubmitKnown(a)
        PROVE  /\ issued'[issued'[c].answer] # None
               /\ issued'[issued'[c].answer].key = issued'[c].key
    <3> DEFINE d == outbox[Key(a)].call
    <3>1. d \in Calls /\ issued[d] # None /\ issued[d].key = Key(a)
      BY <1>0, <2>2, <2>4, <2>6 DEF RowsOwned
    <3>2. issued[c] # None /\ issued[c].key = Key(a) /\ issued'[c].answer = d
      BY <2>2, <2>4, <2>6
    <3> HIDE DEF d
    <3> QED BY <1>1, <3>1, <3>2 DEF IssuedStays
  <2> QED BY <1>0, <1>3, <2>1, <2>5, <2>6, IssuedOf
<1> QED BY <1>2, <1>3

LEMMA Safe6Init == Init => Safe6
<1> SUFFICES ASSUME Init PROVE Safe6
  OBVIOUS
<1>1. Safe4 /\ AskedInv
  BY Safe4Init, Safe3Init DEF Safe3
<1>2. PastInv
  BY TurnAssumption DEF Init, PastInv, Begun, Went, Behind, By, Idle, Act
<1>3. KeysApart /\ AnswersOwned
  <2>1. \A c \in Calls : issued[c] = None
    BY DEF Init
  <2> QED BY <2>1 DEF KeysApart, AnswersOwned
<1>4. RowsOwned
  BY DEF Init, RowsOwned, Free, Row, Slots
<1> QED BY <1>1, <1>2, <1>3, <1>4 DEF Safe6, Safe5

LEMMA Safe6Step == Safe6 /\ [Next]_vars => Safe6'
<1> SUFFICES ASSUME Safe6, [Next]_vars PROVE Safe6'
  OBVIOUS
<1>1. Safe5'
  BY Safe5Step DEF Safe6
<1> QED BY <1>1, KeysApartStep, RowsOwnedStep, AnswersOwnedStep DEF Safe6

\* A being whose call is answered with the outcome of another of its calls has
\* been in that episode before: the index of a dispatch is never reused within
\* one, and the number of a turn only after a turn was cut short.
THEOREM AnswersAreOwn == Spec => []AnswersOwnCalls
<1>1. Safe6 => AnswersOwnCalls
  <2> SUFFICES ASSUME Safe6, NEW c \in Calls, NEW d \in Calls, issued[c] # None,
                      issued[c].answer = d, c # d, issued[d] # None, issued[d].by = issued[c].by
               PROVE  Repeated(issued[c].by, issued[c].key[1])
    BY DEF AnswersOwnCalls
  <2>1. issued[d].key = issued[c].key
    BY TurnAssumption DEF Safe6, AnswersOwned
  <2> QED BY <2>1 DEF Safe6, KeysApart
<1> QED BY <1>1, Safe6Init, Safe6Step, PTL DEF Spec

\* A suspended turn goes on only after its action has run.
THEOREM ContinuedAfterRun ==
  Spec => [](\A a \in Beings, c \in Calls : continued[a][c] > 0 => fired[c] = 1)
<1> DEFINE Ran == \A a \in Beings, c \in Calls : continued[a][c] > 0 => fired[c] = 1
<1>1. Init => Ran
  BY DEF Init
<1>2. Safe1 /\ Ran /\ [Next]_vars => Ran'
  <2> SUFFICES ASSUME Safe1, Ran, [Next]_vars, NEW a \in Beings, NEW c \in Calls,
                      continued'[a][c] > 0
               PROVE  fired'[c] = 1
    OBVIOUS
  <2>0. /\ TypeInv /\ c \in Slots /\ SlotOK(c)
        /\ fired \in [Slots -> Nat] /\ continued \in [Beings -> [Calls -> Nat]]
    BY DEF Safe1, TypeInv, Typed, FiredInv, Slots
  <2>1. fired[c] = 1 => fired'[c] = 1
    BY <2>0, SlotsStep DEF SlotStep, Still, Opens, Fires, Settles
  <2>2. CASE continued'[a][c] = continued[a][c]
    BY <2>1, <2>2
  <2>3. ASSUME NEW b \in Beings, Inject(b), continued'[a][c] # continued[a][c] PROVE fired[c] = 1
    <3>1. b = a /\ c = act[a].call
      BY <2>0, <2>3 DEF Inject
    <3>2. outbox[c].phase = "done"
      BY <2>3, <3>1 DEF Inject, At, Safe1, FiredInv, PlaceOK
    <3> QED BY <2>0, <3>2 DEF SlotOK
  <2>4. (\E b \in Beings : Inject(b)) \/ continued' = continued
    BY ContinuedOf
  <2> QED BY <2>1, <2>2, <2>3, <2>4
<1> QED BY <1>1, <1>2, Safe1Init, Safe1Step, PTL DEF Spec

-----------------------------------------------------------------------------
(* How often a suspended turn goes on *)

\* What a being has suspended on, or is about to.
Held(a, d) == d \in resum[a] \/ (act[a].pc \in {"persist", "suspend"} /\ act[a].call = d)

\* One of its calls was answered with d; some turn of it was cut short.
Got(a, d)  == \E x \in Calls : issued[x] # None /\ issued[x].by = a /\ issued[x].answer = d
EverCut(a) == \E n \in Numbers : <<a, n>> \in cut

\* From the look at the record to the moment the turn goes on.
Consuming == {"approve", "approveRun", "approveCommit", "approveRemove", "inject"}

\* The record is there until the turn goes on; a request that a being suspends
\* on once more, or a turn that has gone on twice, is one of a repeated episode.
GoneOn(a) ==
  /\ act[a].pc \in Consuming => act[a].call \in resum[a]
  /\ \A d \in Calls :
       /\ Held(a, d) \/ continued[a][d] > 0 => Got(a, d)
       /\ Held(a, d) /\ continued[a][d] > 0 => EverCut(a)
       /\ continued[a][d] > 1 => EverCut(a)

Safe7 == Safe6 /\ \A a \in Beings : GoneOn(a)

LEMMA Facts ==
  ASSUME Safe7
  PROVE  /\ TypeInv /\ AskedInv /\ KeysApart /\ RowsOwned /\ AnswersOwned /\ Safe6
         /\ \A a \in Beings : GoneOn(a)
BY DEF Safe7, Safe6, Safe5, Safe4

LEMMA IssuedKeeps == ASSUME TypeInv, [Next]_vars PROVE IssuedStays
<1>1. CASE UNCHANGED vars
  BY <1>1 DEF vars, IssuedStays
<1> QED BY <1>1, IssuedStep

LEMMA GotStays ==
  ASSUME Safe7, [Next]_vars, NEW a, NEW d \in Calls, Got(a, d)
  PROVE  Got(a, d)'
<1>1. PICK x \in Calls : issued[x] # None /\ issued[x].by = a /\ issued[x].answer = d
  BY DEF Got
<1>2. issued'[x] # None /\ issued'[x].by = a
  BY <1>1, Facts, IssuedKeeps DEF IssuedStays
<1>3. issued'[x].answer = d
  <2>1. ASSUME NEW b \in Beings, NEW c \in Calls, ThinkCall(b, c) PROVE issued'[x] = issued[x]
    BY <1>1, <2>1, Facts DEF ThinkCall, TypeInv, Typed
  <2>2. ASSUME NEW b \in Beings, SubmitKnown(b) \/ Commit(b) PROVE issued'[x] = issued[x]
    <3>1. x # act[b].call
      BY <1>1, <2>2, Facts, AnswerSet, TurnAssumption
    <3> QED BY <2>2, <3>1, Facts, AnswerSet
  <2> QED BY <1>1, <2>1, <2>2, Facts, IssuedOf
<1> QED BY <1>2, <1>3 DEF Got

\* A being that gets the same request a second time has been there before.
LEMMA AnsweredTwice ==
  ASSUME Safe7, [Next]_vars, NEW a \in Beings, SubmitKnown(a) \/ Commit(a),
         NEW d \in Calls, issued'[act[a].call].answer = d, Got(a, d)
  PROVE  EverCut(a)
<1>0. /\ TypeInv /\ AskedInv /\ KeysApart /\ AnswersOwned /\ IssuedStays /\ GoneOn(a)
  BY Facts, IssuedKeeps
<1>1. PICK x \in Calls : issued[x] # None /\ issued[x].by = a /\ issued[x].answer = d
  BY DEF Got
<1>2. PICK c \in Calls : /\ c = act[a].call /\ issued[c] # None /\ issued[c].by = a
                         /\ issued[c].answer = None /\ issued'[c].answer = d
  <2>1. act[a].call \in Calls /\ issued[act[a].call].answer = None
    BY <1>0, AnswerSet
  <2>2. issued[act[a].call] # None /\ issued[act[a].call].by = a
    BY <1>0 DEF SubmitKnown, Commit, At, TypeInv, ActOK
  <2> QED BY <2>1, <2>2
<1>3. x # c
  BY <1>1, <1>2, TurnAssumption
<1>4. issued[d] # None /\ issued[d].key = issued[x].key
  BY <1>0, <1>1, TurnAssumption DEF AnswersOwned
<1>5. issued'[d].key = issued'[c].key
  <2>1. AnswersOwned'
    BY Facts, AnswersOwnedStep
  <2>2. issued'[c] # None /\ issued'[c].answer # None
    BY <1>0, <1>2, TurnAssumption DEF IssuedStays
  <2> QED BY <1>2, <2>1, <2>2 DEF AnswersOwned
<1>6. issued[x].key = issued[c].key
  BY <1>0, <1>2, <1>4, <1>5 DEF IssuedStays
<1>7. Repeated(a, issued[x].key[1])
  BY <1>0, <1>1, <1>2, <1>3, <1>6 DEF KeysApart
<1>8. issued[x].key[1] \in Episodes
  BY <1>0, <1>1, IssueTyped DEF By
<1> QED BY <1>0, <1>7, <1>8 DEF Repeated, Episodes, EverCut, GoneOn

\* What a step of the being itself does to what it holds.
LEMMA HeldOf ==
  ASSUME Safe7, NEW a \in Beings, Local(a) \/ Locked(a), NEW d \in Calls, Held(a, d)'
  PROVE  \/ Held(a, d)
         \/ (SubmitKnown(a) \/ Commit(a)) /\ issued'[act[a].call].answer = d
<1>0. TypeInv /\ ActsOK /\ ActOK(a) /\ resum \in [Beings -> SUBSET Calls]
  BY Facts DEF TypeInv, Typed
<1> DEFINE Shows == {"persist", "suspend"}
<1>q. ASSUME Moves(a, PCs \ Shows), resum'[a] \subseteq resum[a] PROVE Held(a, d)
  BY <1>q DEF Held, Moves
<1>1. CASE Persist(a)
  <2>1. GoesTo(a, "suspend", act[a].src, act[a].k, act[a].call)
    BY <1>0, <1>1, GotoGoes DEF Persist, PCs
  <2>2. resum'[a] = resum[a] \cup {act[a].call} /\ act[a].pc = "persist"
    BY <1>0, <1>1 DEF Persist, At
  <2> QED BY <2>1, <2>2 DEF Held, GoesTo
<1>2. ASSUME NEW r, Dispatched(a, r), SubmitKnown(a) \/ Commit(a), resum' = resum,
             r.phase = "ask" => r.call \in Calls, issued'[act[a].call].answer = r.call
      PROVE  Held(a, d) \/ issued'[act[a].call].answer = d
  <2>1. act[a].k < MaxCalls
    BY <1>0, <1>2 DEF ActOK, SubmitKnown, Commit, At
  <2>2. CASE GoesTo(a, "persist", act[a].src, act[a].k, r.call)
    BY <1>2, <2>2 DEF Held, GoesTo
  <2>3. CASE GoesTo(a, "think", act[a].src, act[a].k + 1, act[a].call)
    BY <1>2, <2>3 DEF Held, GoesTo
  <2> QED BY <1>0, <1>2, <2>1, <2>2, <2>3, DispatchedGoes
<1>3. CASE SubmitKnown(a)
  <2>1. Key(a) \in Slots /\ outbox[Key(a)].call \in Calls \cup {None} /\ act[a].pc = "submit"
    BY <1>0, <1>3, KeyFacts DEF SubmitKnown, At, TypeInv, Typed
  <2>2. outbox[Key(a)].phase = "ask" => outbox[Key(a)].call \in Calls
    BY <1>0, <2>1 DEF TypeInv, AskHasCall
  <2>3. issued'[act[a].call].answer = outbox[Key(a)].call
    BY <1>0, <1>3, <2>1, AnswerStays DEF SubmitKnown
  <2> QED BY <1>2, <1>3, <2>2, <2>3 DEF SubmitKnown, stores
<1>4. CASE Commit(a)
  <2> DEFINE r == Row(IF act[a].call \in pending THEN "ask" ELSE "fed", act[a].call)
  <2>1. act[a].pc = "commit" /\ act[a].call \in Calls /\ resum' = resum /\ r.call = act[a].call
    BY <1>0, <1>4 DEF Commit, At, ActOK, Row
  <2>2. issued'[act[a].call].answer = act[a].call
    BY <1>0, <1>4, <2>1, AnswerStays DEF Commit
  <2>3. Dispatched(a, r) \/ Leave(a)
    BY <1>4 DEF Commit
  <2> HIDE DEF r
  <2>4. CASE Dispatched(a, r)
    BY <1>2, <1>4, <2>1, <2>2, <2>4
  <2>5. CASE Leave(a)
    <3>1. Moves(a, PCs \ Shows)
      BY <1>0, <2>5, LeaveMoves DEF Moves, PCs
    <3> QED BY <1>q, <2>1, <3>1
  <2> QED BY <2>3, <2>4, <2>5
<1>5. CASE \/ BeginTurn(a) \/ BeginTurnFails(a) \/ Remember(a) \/ RememberFails(a)
           \/ ThinkAnswer(a) \/ (\E c \in Calls : ThinkCall(a, c)) \/ Run(a)
           \/ Suspend(a) \/ SuspendFails(a) \/ Answer(a)
  <2>1. Moves(a, PCs \ Shows)
    BY <1>0, <1>5, MovesOf DEF Moves, PCs
  <2>2. resum' = resum
    BY <1>5 DEF stores, BeginTurn, BeginTurnFails, Remember, RememberFails, ThinkAnswer,
       ThinkCall, Run, Suspend, SuspendFails, Answer
  <2> QED BY <1>q, <2>1, <2>2
<1>6. CASE \/ ReceiveSignal(a) \/ Resume(a) \/ ApproveRun(a) \/ ApproveRunRefused(a)
           \/ ApproveCommit(a) \/ ApproveRemove(a) \/ SubmitFresh(a) \/ ApproveIntent(a)
           \/ ApproveAgain(a) \/ ApproveRefused(a)
  <2>1. Moves(a, PCs \ Shows)
    BY <1>0, <1>6, MovesOf DEF Moves, PCs
  <2>2. resum' = resum
    BY <1>6 DEF stores, ReceiveSignal, Resume, ApproveRun, ApproveRunRefused, ApproveCommit,
       ApproveRemove, SubmitFresh, ApproveIntent, ApproveAgain, ApproveRefused
  <2> QED BY <1>q, <2>1, <2>2
<1>7. CASE PersistRefused(a) \/ Inject(a)
  <2>1. Moves(a, PCs \ Shows)
    BY <1>0, <1>7, MovesOf DEF Moves, PCs
  <2>2. resum'[a] \subseteq resum[a]
    BY <1>0, <1>7 DEF PersistRefused, Rollback, Inject
  <2> QED BY <1>q, <2>1, <2>2
<1> QED BY <1>1, <1>3, <1>4, <1>5, <1>6, <1>7 DEF Local, Locked

\* Whoever is at work on an approval has the record of the turn it is for.
LEMMA ConsumeStep ==
  ASSUME Safe7, NEW a \in Beings, Local(a) \/ Locked(a), act'[a].pc \in Consuming
  PROVE  act'[a].call \in resum'[a]
<1>0. TypeInv /\ ActsOK /\ GoneOn(a)
  BY Facts DEF TypeInv
<1>1. ~Leave(a)
  <2>1. ASSUME Leave(a) PROVE FALSE
    <3>1. act'[a].pc \in {"answer", "idle"}
      BY <1>0, <2>1, LeaveMoves DEF Moves
    <3> QED BY <3>1 DEF Consuming
  <2> QED BY <2>1
<1>2. ASSUME NEW pc \in PCs, Goto(a, pc) PROVE act'[a].call = act[a].call
  BY <1>0, <1>2, GotoGoes DEF GoesTo
<1>3. CASE Resume(a)
  <2>1. Goto(a, "approve") /\ act[a].call \in resum[a] /\ resum' = resum
    BY <1>1, <1>3 DEF Resume, stores
  <2> QED BY <1>2, <2>1 DEF PCs
<1>4. CASE ApproveIntent(a) \/ ApproveAgain(a) \/ ApproveRun(a) \/ ApproveCommit(a) \/ ApproveRemove(a)
  <2>1. act[a].pc \in Consuming /\ resum' = resum
    BY <1>4 DEF ApproveIntent, ApproveAgain, ApproveRun, ApproveCommit, ApproveRemove, At, stores,
       Consuming
  <2>2. act[a].call \in resum[a]
    BY <1>0, <2>1 DEF GoneOn
  <2>3. \E pc \in PCs : Goto(a, pc)
    BY <1>1, <1>4 DEF ApproveIntent, ApproveAgain, ApproveRun, ApproveCommit, ApproveRemove, PCs
  <2> QED BY <1>2, <2>1, <2>2, <2>3
<1>5. CASE \/ BeginTurn(a) \/ BeginTurnFails(a) \/ Remember(a) \/ RememberFails(a)
           \/ ThinkAnswer(a) \/ (\E c \in Calls : ThinkCall(a, c)) \/ Run(a)
           \/ Commit(a) \/ Suspend(a) \/ SuspendFails(a) \/ Answer(a)
           \/ ReceiveSignal(a) \/ ApproveRunRefused(a)
  <2>1. Moves(a, PCs \ Consuming)
    BY <1>0, <1>5, MovesOf DEF Moves, PCs, Consuming
  <2> QED BY <2>1 DEF Moves
<1>6. CASE \/ SubmitFresh(a) \/ SubmitKnown(a) \/ Persist(a) \/ PersistRefused(a)
           \/ ApproveRefused(a) \/ Inject(a)
  <2>1. Moves(a, PCs \ Consuming)
    BY <1>0, <1>6, MovesOf DEF Moves, PCs, Consuming
  <2> QED BY <2>1 DEF Moves
<1> QED BY <1>3, <1>4, <1>5, <1>6 DEF Local, Locked

\* The record is used up when the turn goes on.
LEMMA InjectUses ==
  ASSUME Safe7, "resumable" \notin Faults, NEW a \in Beings, Inject(a), NEW c, c = act[a].call
  PROVE  /\ c \in Calls /\ Held(a, c) /\ ~Held(a, c)'
         /\ \A d \in Calls : Held(a, d)' => Held(a, d)
         /\ continued'[a][c] = continued[a][c] + 1
         /\ \A b \in Beings, d \in Calls :
              b # a \/ d # c => continued'[b][d] = continued[b][d]
<1>0. TypeInv /\ GoneOn(a)
  BY Facts
<1>1. c \in Calls /\ act'[a].pc = "think"
  BY <1>0, InjectGoes DEF GoesTo
<1>2. c \in resum[a]
  BY <1>0 DEF Inject, At, GoneOn, Consuming
<1>3. resum'[a] = resum[a] \ {c}
  <2>1. resum \in [Beings -> SUBSET Calls]
    BY <1>0 DEF TypeInv, Typed
  <2> QED BY <2>1 DEF Inject
<1>4. continued' = [continued EXCEPT ![a][c] = @ + 1]
  BY DEF Inject
<1>5. continued \in [Beings -> [Calls -> Nat]]
  BY <1>0 DEF TypeInv, Typed
<1>6. Held(a, c) /\ ~Held(a, c)' /\ \A d \in Calls : Held(a, d)' => Held(a, d)
  BY <1>1, <1>2, <1>3 DEF Held
<1>7. continued'[a][c] = continued[a][c] + 1
  BY <1>1, <1>4, <1>5
<1>8. \A b \in Beings, d \in Calls :
         b # a \/ d # c => continued'[b][d] = continued[b][d]
  BY <1>1, <1>4, <1>5
<1> QED BY <1>1, <1>6, <1>7, <1>8

LEMMA GoneOnStep ==
  ASSUME Safe7, "resumable" \notin Faults, [Next]_vars, NEW b \in Beings
  PROVE  GoneOn(b)'
<1>0. TypeInv /\ GoneOn(b) /\ resum \in [Beings -> SUBSET Calls] /\ IssuedStays
  BY Facts, IssuedKeeps DEF TypeInv, Typed
<1>1. EverCut(b) => EverCut(b)'
  <2>1. cut \subseteq cut'
    BY <1>0, CutGrows
  <2> QED BY <2>1 DEF EverCut
<1>2. \A d \in Calls : Got(b, d) => Got(b, d)'
  BY GotStays
<1>3. Inject(b) \/ \A d \in Calls : continued'[b][d] = continued[b][d]
  <2>1. ASSUME NEW a \in Beings, Inject(a), a # b
        PROVE  \A d \in Calls : continued'[b][d] = continued[b][d]
    BY <2>1, InjectUses
  <2> QED BY <2>1, ContinuedOf
<1>4. ASSUME act'[b].pc \in Consuming => act'[b].call \in resum'[b],
             \A d \in Calls : Held(b, d)' => Held(b, d),
             \A d \in Calls : continued'[b][d] = continued[b][d]
      PROVE  GoneOn(b)'
  BY <1>0, <1>1, <1>2, <1>4 DEF GoneOn
<1>5. ASSUME act'[b] = act[b] \/ act'[b] = Idle, resum'[b] \subseteq resum[b],
             act'[b] = act[b] => resum'[b] = resum[b]
      PROVE  GoneOn(b)'
  <2>1. Idle.pc = "idle"
    BY DEF Idle, Act
  <2>2. ~Inject(b)
    <3>1. ASSUME Inject(b) PROVE FALSE
      <4>1. act[b].pc = "inject" /\ act'[b].pc = "think"
        BY <1>0, <3>1, InjectGoes DEF Inject, At, GoesTo
      <4> QED BY <1>5, <2>1, <4>1
    <3> QED BY <3>1
  <2>3. act'[b].pc \in Consuming => act'[b].call \in resum'[b]
    BY <1>0, <1>5, <2>1 DEF GoneOn, Consuming
  <2>4. \A d \in Calls : Held(b, d)' => Held(b, d)
    BY <1>5, <2>1 DEF Held
  <2> QED BY <1>3, <1>4, <2>2, <2>3, <2>4
<1>6. ASSUME NEW a \in Beings, Local(a) \/ Locked(a), a # b PROVE GoneOn(b)'
  <2>1. Moves(a, PCs)
    BY <1>0, <1>6, LocalPlaces, LockedPlaces DEF Apart, Inside, Exits, Enters, Moves, PCs, Sections
  <2>2. act'[b] = act[b] /\ resum'[b] = resum[b]
    BY <1>0, <1>6, <2>1, ResumOf DEF Moves
  <2> QED BY <1>5, <2>2
<1>7. CASE (Local(b) \/ Locked(b)) /\ ~Inject(b)
  <2>1. act'[b].pc \in Consuming => act'[b].call \in resum'[b]
    BY <1>7, ConsumeStep
  <2>2. ASSUME NEW d \in Calls, Held(b, d)'
        PROVE  Got(b, d)' /\ (continued'[b][d] > 0 => EverCut(b)')
    <3>1. CASE Held(b, d)
      BY <1>0, <1>1, <1>2, <1>3, <1>7, <3>1 DEF GoneOn
    <3>2. CASE (SubmitKnown(b) \/ Commit(b)) /\ issued'[act[b].call].answer = d
      <4>1. act[b].call \in Calls /\ issued[act[b].call] # None /\ issued[act[b].call].by = b
        BY <1>0, <3>2 DEF SubmitKnown, Commit, At, TypeInv, ActOK
      <4>2. Got(b, d)'
        BY <1>0, <3>2, <4>1 DEF Got, IssuedStays
      <4>3. continued[b][d] > 0 => EverCut(b)
        BY <1>0, <3>2, AnsweredTwice DEF GoneOn
      <4> QED BY <1>1, <1>3, <1>7, <4>2, <4>3
    <3> QED BY <1>7, <2>2, <3>1, <3>2, HeldOf
  <2> QED BY <1>0, <1>1, <1>2, <1>3, <1>7, <2>1, <2>2 DEF GoneOn
<1>8. CASE Inject(b)
  <2>0. PICK c : c = act[b].call
    OBVIOUS
  <2>1. /\ c \in Calls /\ Held(b, c) /\ ~Held(b, c)' /\ \A d \in Calls : Held(b, d)' => Held(b, d)
        /\ continued'[b][c] = continued[b][c] + 1
        /\ \A d \in Calls : d # c => continued'[b][d] = continued[b][d]
    BY <1>8, <2>0, InjectUses
  <2>2. continued[b][c] \in Nat
    BY <1>0, <2>1 DEF TypeInv, Typed
  <2>3. act'[b].pc = "think"
    BY <1>0, <1>8, InjectGoes DEF GoesTo
  <2>4. ASSUME NEW d \in Calls, d # c
        PROVE  /\ Held(b, d)' \/ continued'[b][d] > 0 => Got(b, d)'
               /\ Held(b, d)' /\ continued'[b][d] > 0 => EverCut(b)'
               /\ continued'[b][d] > 1 => EverCut(b)'
    BY <1>0, <1>1, <1>2, <2>1, <2>4 DEF GoneOn
  <2>5. Got(b, c)'
    BY <1>0, <1>2, <2>1 DEF GoneOn
  <2>6. continued'[b][c] > 1 => EverCut(b)'
    BY <1>0, <1>1, <2>1, <2>2 DEF GoneOn
  <2> QED BY <2>1, <2>3, <2>4, <2>5, <2>6 DEF GoneOn, Consuming
<1>9. ASSUME NEW a \in Beings, Drop(a) PROVE GoneOn(b)'
  <2>1. resum' = resum /\ (act'[b] = act[b] \/ act'[b] = Idle)
    BY <1>0, <1>9 DEF Drop, stores, TypeInv, ActsOK
  <2> QED BY <1>5, <2>1
<1>10. CASE Crash
  <2>1. act'[b] = Idle /\ resum'[b] \subseteq resum[b]
    BY <1>10 DEF Crash
  <2>2. act'[b].pc \notin Consuming /\ \A d \in Calls : Held(b, d)' => Held(b, d)
    BY <2>1 DEF Held, Idle, Act, Consuming
  <2>3. \A d \in Calls : continued'[b][d] = continued[b][d]
    BY <1>10 DEF Crash
  <2> QED BY <1>4, <2>2, <2>3
<1>11. CASE Outside \/ UNCHANGED vars
  <2>1. act' = act /\ resum' = resum
    BY <1>11 DEF Outside, vars, stores, Say, Order, ApprovePending, DenyPending, Expire
  <2> QED BY <1>5, <2>1
<1> QED BY <1>6, <1>7, <1>8, <1>9, <1>10, <1>11 DEF Next

LEMMA Safe7Init == Init => Safe7
<1> SUFFICES ASSUME Init, NEW a \in Beings PROVE GoneOn(a)
  BY Safe6Init DEF Safe7
<1>1. act[a].pc = "idle" /\ resum[a] = {} /\ \A d \in Calls : continued[a][d] = 0
  BY DEF Init, Idle, Act
<1> QED BY <1>1 DEF GoneOn, Consuming, Held

LEMMA Safe7Step == ASSUME "resumable" \notin Faults PROVE Safe7 /\ [Next]_vars => Safe7'
BY Safe6Step, GoneOnStep DEF Safe7

\* A suspended turn goes on once and after its action has run, however often
\* the operator approves and the process restarts, if its record can be
\* removed; and once more only if a turn of the being was cut short, whose
\* number, and with it the stored request, the next one got.
THEOREM GoesOnOnce == ASSUME "resumable" \notin Faults PROVE Spec => []ContinuedOnce
<1> DEFINE Ran == \A a \in Beings, c \in Calls : continued[a][c] > 0 => fired[c] = 1
<1>1. Spec => []Ran
  BY ContinuedAfterRun
<1>2. Ran /\ Safe7 => ContinuedOnce
  BY DEF Safe7, GoneOn, EverCut, ContinuedOnce
<1>3. Safe7 /\ [Next]_vars => Safe7'
  BY Safe7Step
<1> QED BY <1>1, <1>2, <1>3, Safe7Init, PTL DEF Spec

-----------------------------------------------------------------------------
(* What can give a call the answer of another *)

\* As long as no turn was cut short, and the record of a suspended turn is
\* always removed when it goes on, a call gets the answer of another one only
\* from another being: what two beings share are the keys, never the calls.
THEOREM OnlyOthersAnswer ==
  ASSUME "resumable" \notin Faults
  PROVE  Spec => [](cut = {} =>
           \A c \in Calls : issued[c] # None /\ issued[c].answer \notin {c, None} =>
                              issued[issued[c].answer].by # issued[c].by)
<1> DEFINE Ours == cut = {} =>
             \A c \in Calls : issued[c] # None /\ issued[c].answer \notin {c, None} =>
                                issued[issued[c].answer].by # issued[c].by
<1>1. Safe7 => Ours
  <2> SUFFICES ASSUME Safe7, cut = {}, NEW c \in Calls, issued[c] # None,
                      issued[c].answer \notin {c, None},
                      issued[issued[c].answer].by = issued[c].by
               PROVE  FALSE
    OBVIOUS
  <2> DEFINE d == issued[c].answer
             a == issued[c].by
             e == issued[c].key[1]
  <2>1. d \in Calls /\ a \in Beings /\ e \in Episodes
    <3>1. issued[c] \in Issue
      BY Facts DEF TypeInv, Typed
    <3> QED BY <3>1 DEF Issue, Keys
  <2>2. issued[d] # None /\ issued[d].key = issued[c].key /\ d # c
    BY Facts, <2>1 DEF AnswersOwned
  <2>3. Repeated(a, e)
    BY Facts, <2>1, <2>2 DEF KeysApart
  <2> HIDE DEF d, a, e
  <2>4. ~EverCut(a)
    BY DEF EverCut
  <2>5. e \in Calls => ~(continued[a][e] > 1)
    BY Facts, <2>1, <2>4 DEF GoneOn
  <2> QED BY <2>1, <2>3, <2>5 DEF Repeated, Episodes
<1> QED BY <1>1, Safe7Init, Safe7Step, PTL DEF Spec

\* A being alone on its journal that loses no turn: the comment of the tool
\* loop is right about it.
THEOREM OwnAnswerAlone ==
  ASSUME "resumable" \notin Faults, \A a, b \in Beings : a = b
  PROVE  Spec => [](cut = {} => CallsGetTheirOwnAnswer)
<1> DEFINE Ours == cut = {} =>
             \A c \in Calls : issued[c] # None /\ issued[c].answer \notin {c, None} =>
                                issued[issued[c].answer].by # issued[c].by
<1>1. Spec => []Ours
  BY OnlyOthersAnswer
<1>2. Safe7 /\ Ours => (cut = {} => CallsGetTheirOwnAnswer)
  <2> SUFFICES ASSUME Safe7, Ours, cut = {}, NEW c \in Calls, issued[c] # None,
                      issued[c].answer \notin {c, None}
               PROVE  FALSE
    BY DEF CallsGetTheirOwnAnswer
  <2>1. issued \in [Calls -> Issue \cup {None}]
    BY Facts DEF TypeInv, Typed
  <2>2. issued[c].answer \in Calls /\ issued[c].by \in Beings
    BY <2>1 DEF Issue
  <2>3. issued[issued[c].answer] # None
    BY Facts, <2>2 DEF AnswersOwned
  <2>4. issued[issued[c].answer].by \in Beings
    BY <2>1, <2>2, <2>3 DEF Issue
  <2> QED BY <2>2, <2>4
<1> QED BY <1>1, <1>2, Safe7Init, Safe7Step, PTL DEF Spec
=============================================================================
