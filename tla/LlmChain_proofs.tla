--------------------------- MODULE LlmChain_proofs ---------------------------
(***************************************************************************)
(* Proofs about LlmChain for every chain, every key pool, every ladder and *)
(* any number of callers; the theorem about the laps over a key pool is    *)
(* for a chain with one caller, as the code uses it.                       *)
(***************************************************************************)
EXTENDS LlmChain, WellFoundedInduction, TLAPS

-----------------------------------------------------------------------------
(* The helpers *)

\* A nonempty set of naturals has a least element, and Least is it.
LEMMA LeastExists ==
  ASSUME NEW S \in SUBSET Nat, S # {}
  PROVE  Least(S) \in S
<1>1. PICK x \in S : \A y \in S : <<y, x>> \notin OpToRel(<, Nat)
  BY WFMin, NatLessThanWellFounded, Zenon
<1>2. \A y \in S : y \in Nat /\ x \in Nat /\ ~(y < x)
  BY <1>1 DEF OpToRel
<1>3. \A y \in S : x <= y
  BY <1>2
<1> QED BY <1>3 DEF Least

\* The entry a call is asking is one of the snapshot.
LEMMA CurrentType ==
  ASSUME ChainTypeOK, NEW c \in Callers, call[c].todo # {}
  PROVE  Current(c) \in call[c].todo /\ Current(c) \in Entry
<1>1. call[c].todo \in SUBSET Nat /\ call[c].todo \subseteq Entry
  BY ChainAssumption DEF ChainTypeOK
<1> QED BY <1>1, LeastExists DEF Current

\* A strike that goes up stays on the ladder.
LEMMA UpType ==
  ASSUME NEW s \in 0 .. Rungs
  PROVE  Up(s) \in 0 .. Rungs /\ Up(s) \in 1 .. Rungs
BY ChainAssumption DEF Up

\* The keys of an entry are keys, and naturals.
LEMMA KeysType ==
  ASSUME NEW e \in Entry
  PROVE  KeysIn(e) \subseteq Keys /\ KeysIn(e) \subseteq Nat /\ 1 \in KeysIn(e)
BY ChainAssumption DEF KeysIn, Keys

-----------------------------------------------------------------------------
(* Type correctness *)

Record ==
  [pc : {"idle", "ask", "retry"} \cup Ended, pass : {1, 2},
   todo : SUBSET Entry, client : [Entry -> Keys], tried : SUBSET Keys,
   first : SUBSET Entry, asked : SUBSET Entry, refused : SUBSET (Entry \X Keys)]

\* A record's fields, and a record built from fields of the right types.
LEMMA RecordFields ==
  ASSUME NEW v \in Record
  PROVE  /\ v.pc \in {"idle", "ask", "retry", "ok", "failed", "fatal"} /\ v.pass \in {1, 2}
         /\ v.todo \in SUBSET Entry /\ v.client \in [Entry -> Keys]
         /\ v.tried \in SUBSET Keys /\ v.first \in SUBSET Entry
         /\ v.asked \in SUBSET Entry /\ v.refused \in SUBSET (Entry \X Keys)
BY DEF Record, Ended

LEMMA RecordEnd ==
  ASSUME NEW v \in Record, NEW pc \in Ended, NEW S \in SUBSET Entry
  PROVE  [v EXCEPT !.pc = pc, !.asked = S] \in Record /\ [v EXCEPT !.pc = pc] \in Record
BY DEF Record

LEMMA RestingType == Resting \in Record /\ Resting.pc = "idle"
<1>1. \A e \in Entry : 1 \in Keys
  BY KeysType
<1> QED BY <1>1 DEF Resting, Record

LEMMA ChainTypeInit == ChainInit => ChainTypeOK
<1> SUFFICES ASSUME ChainInit PROVE ChainTypeOK
  OBVIOUS
<1>1. cursor \in [Entry -> Keys] /\ \A e \in Entry : cursor[e] \in KeysIn(e)
  BY KeysType DEF ChainInit
<1>2. health \in [Entry -> [until : Nat, strike : 0 .. Rungs, auth : 0 .. Rungs]]
  BY ChainAssumption DEF ChainInit, Healthy
<1>3. call \in [Callers -> Record] /\ \A c \in Callers : call[c].pc = "idle"
  BY RestingType DEF ChainInit
<1>4. clock \in 0 .. MaxTime
  BY ChainAssumption DEF ChainInit
<1> QED BY <1>1, <1>2, <1>3, <1>4 DEF ChainTypeOK, Record

\* A step that gives one call a record of the right shape.
LEMMA CallTypeStep ==
  ASSUME ChainTypeOK, NEW c \in Callers, NEW v \in Record,
         v.pc = "retry" => v.todo # {}, call' = [call EXCEPT ![c] = v],
         clock' \in 0 .. MaxTime,
         cursor' \in [Entry -> Keys], \A e \in Entry : cursor'[e] \in KeysIn(e),
         health' \in [Entry -> [until : Nat, strike : 0 .. Rungs, auth : 0 .. Rungs]]
  PROVE  ChainTypeOK'
<1>1. call' \in [Callers -> Record]
  BY DEF ChainTypeOK, Record
<1>2. \A d \in Callers : call'[d] = IF d = c THEN v ELSE call[d]
  BY DEF ChainTypeOK
<1>3. \A d \in Callers : call'[d].pc = "retry" => call'[d].todo # {}
  BY <1>2 DEF ChainTypeOK
<1> QED BY <1>1, <1>3 DEF ChainTypeOK, Record

LEMMA ChainTypeStep == ChainTypeOK /\ [ChainNext]_chainVars => ChainTypeOK'
<1> SUFFICES ASSUME ChainTypeOK, [ChainNext]_chainVars PROVE ChainTypeOK'
  OBVIOUS
<1> USE ChainAssumption
<1>0. \A c \in Callers : call[c] \in Record
  BY DEF ChainTypeOK, Record
<1>h. /\ clock \in 0 .. MaxTime /\ clock \in Nat
      /\ cursor \in [Entry -> Keys] /\ \A e \in Entry : cursor[e] \in KeysIn(e)
      /\ health \in [Entry -> [until : Nat, strike : 0 .. Rungs, auth : 0 .. Rungs]]
  BY DEF ChainTypeOK
<1>1. CASE Tick
  BY <1>1, <1>h DEF Tick, ChainTypeOK
<1>2. CASE UNCHANGED chainVars
  BY <1>2 DEF chainVars, ChainTypeOK
<1>3. ASSUME NEW c \in Callers, BeginCall(c) PROVE ChainTypeOK'
  <2> DEFINE v == [Resting EXCEPT !.pc = "ask", !.todo = Snapshot, !.client = cursor,
                                  !.first = Snapshot]
  <2>1. v \in Record /\ v.pc = "ask"
    BY <1>h, RestingType DEF Snapshot, Record, Resting
  <2>2. call' = [call EXCEPT ![c] = v] /\ UNCHANGED <<clock, cursor, health>>
    BY <1>3 DEF BeginCall
  <2> QED BY <1>h, <2>1, <2>2, CallTypeStep
<1>4. ASSUME NEW c \in Callers, SecondPass(c) PROVE ChainTypeOK'
  <2> DEFINE v == [call[c] EXCEPT !.pass = 2, !.todo = Entry, !.client = cursor]
  <2>1. v \in Record /\ v.pc = "ask"
    BY <1>0, <1>4, <1>h, ZenonT(60) DEF SecondPass, Record
  <2>2. call' = [call EXCEPT ![c] = v] /\ UNCHANGED <<clock, cursor, health>>
    BY <1>4 DEF SecondPass
  <2> QED BY <1>h, <2>1, <2>2, CallTypeStep
<1>5. ASSUME NEW c \in Callers, GiveUp(c) PROVE ChainTypeOK'
  <2> DEFINE v == [call[c] EXCEPT !.pc = "failed"]
  <2>1. v \in Record /\ v.pc = "failed"
    <3>1. "failed" \in Ended /\ call[c].asked \in SUBSET Entry /\ call[c] \in Record
      BY <1>0, RecordFields DEF Ended
    <3>2. v \in Record
      BY <3>1, RecordEnd
    <3> QED BY <3>1, <3>2 DEF Record
  <2>2. call' = [call EXCEPT ![c] = v] /\ UNCHANGED <<clock, cursor, health>>
    BY <1>5 DEF GiveUp
  <2> QED BY <1>h, <2>1, <2>2, CallTypeStep
<1>w. ASSUME NEW c \in Callers, Waiting(c)
      PROVE  /\ Current(c) \in Entry /\ Current(c) \in call[c].todo
             /\ Onward(c) \in Record /\ Onward(c).pc = "ask"
  <2>1. Current(c) \in call[c].todo /\ Current(c) \in Entry
    BY <1>w, CurrentType DEF Waiting
  <2> QED BY <1>0, <1>w, <2>1, ZenonT(60) DEF Onward, Record, Waiting
<1>6. ASSUME NEW c \in Callers, Answers(c) PROVE ChainTypeOK'
  <2> DEFINE v == [call[c] EXCEPT !.pc = "ok", !.asked = @ \cup {Current(c)}]
  <2>1. Waiting(c)
    BY <1>6 DEF Answers
  <2>2. v \in Record /\ v.pc = "ok"
    <3>1. call[c].asked \cup {Current(c)} \in SUBSET Entry
      BY <1>0, <1>w, <2>1, RecordFields
    <3>2. v \in Record
      BY <1>0, <3>1, RecordEnd DEF Ended
    <3> QED BY <1>0, <3>2 DEF Record
  <2>3. health' \in [Entry -> [until : Nat, strike : 0 .. Rungs, auth : 0 .. Rungs]]
    <3>1. Healthy \in [until : Nat, strike : 0 .. Rungs, auth : 0 .. Rungs]
      BY DEF Healthy
    <3>2. health' = [health EXCEPT ![Current(c)] = Healthy]
      BY <1>6 DEF Answers
    <3> QED BY <1>h, <3>1, <3>2
  <2>4. call' = [call EXCEPT ![c] = v] /\ UNCHANGED <<clock, cursor>>
    BY <1>6 DEF Answers
  <2> QED BY <1>h, <2>2, <2>3, <2>4, CallTypeStep
<1>7. ASSUME NEW c \in Callers, FailsForGood(c) PROVE ChainTypeOK'
  <2> DEFINE v == [call[c] EXCEPT !.pc = "fatal", !.asked = @ \cup {Current(c)}]
  <2>1. Waiting(c)
    BY <1>7 DEF FailsForGood
  <2>2. v \in Record /\ v.pc = "fatal"
    <3>1. call[c].asked \cup {Current(c)} \in SUBSET Entry
      BY <1>0, <1>w, <2>1, RecordFields
    <3>2. v \in Record
      BY <1>0, <3>1, RecordEnd DEF Ended
    <3> QED BY <1>0, <3>2 DEF Record
  <2>4. call' = [call EXCEPT ![c] = v] /\ UNCHANGED <<clock, cursor, health>>
    BY <1>7 DEF FailsForGood
  <2> QED BY <1>h, <2>2, <2>4, CallTypeStep
<1>8. ASSUME NEW c \in Callers, NEW hint \in Hints, FailsForNow(c, hint) PROVE ChainTypeOK'
  <2> DEFINE e == Current(c)
             s == Up(health[e].strike)
  <2>1. Waiting(c) /\ e \in Entry
    BY <1>8, <1>w DEF FailsForNow
  <2>2. s \in 0 .. Rungs /\ s \in 1 .. Rungs
    BY <1>h, <2>1, UpType
  <2>3. clock + Longest(hint, Wait[s]) \in Nat
    <3>1. Wait[s] \in Nat /\ hint \in Nat
      BY <2>2
    <3> QED BY <1>h, <3>1 DEF Longest
  <2>4. health' = [health EXCEPT ![e].strike = s, ![e].until = clock + Longest(hint, Wait[s])]
    BY <1>8 DEF FailsForNow
  <2>5. health' \in [Entry -> [until : Nat, strike : 0 .. Rungs, auth : 0 .. Rungs]]
    <3> HIDE DEF e, s
    <3> QED BY <1>h, <2>1, <2>2, <2>3, <2>4
  <2>6. call' = [call EXCEPT ![c] = Onward(c)] /\ UNCHANGED <<clock, cursor>>
    BY <1>8 DEF FailsForNow
  <2> QED BY <1>h, <1>w, <2>1, <2>5, <2>6, CallTypeStep
<1>9. ASSUME NEW c \in Callers, ModelGone(c) PROVE ChainTypeOK'
  <2> DEFINE e == Current(c)
             s == Up(health[e].auth)
  <2>1. Waiting(c) /\ e \in Entry
    BY <1>9, <1>w DEF ModelGone
  <2>2. s \in 0 .. Rungs /\ s \in 1 .. Rungs
    BY <1>h, <2>1, UpType
  <2>3. clock + AuthWait[s] \in Nat
    <3>1. AuthWait[s] \in Nat
      BY <2>2
    <3> QED BY <1>h, <3>1
  <2>4. health' = [health EXCEPT ![e].auth = s, ![e].until = clock + AuthWait[s]]
    BY <1>9 DEF ModelGone
  <2>5. health' \in [Entry -> [until : Nat, strike : 0 .. Rungs, auth : 0 .. Rungs]]
    <3> HIDE DEF e, s
    <3> QED BY <1>h, <2>1, <2>2, <2>3, <2>4
  <2>6. call' = [call EXCEPT ![c] = Onward(c)] /\ UNCHANGED <<clock, cursor>>
    BY <1>9 DEF ModelGone
  <2> QED BY <1>h, <1>w, <2>1, <2>5, <2>6, CallTypeStep
<1>k. ASSUME NEW c \in Callers, Waiting(c)
      PROVE  /\ Tried(c) \in SUBSET Keys
             /\ Refused(c) \in SUBSET (Entry \X Keys)
             /\ Untried(c) # {} => Least(Untried(c)) \in KeysIn(Current(c))
  <2>1. Current(c) \in Entry
    BY <1>k, <1>w
  <2>2. Tried(c) \in SUBSET Keys /\ Refused(c) \in SUBSET (Entry \X Keys)
    <3>1. call[c].tried \in SUBSET Keys /\ call[c].refused \in SUBSET (Entry \X Keys)
      BY <1>0, RecordFields
    <3>2. cursor[Current(c)] \in Keys /\ call[c].client[Current(c)] \in Keys
      <4>1. call[c].client \in [Entry -> Keys]
        BY <1>0, RecordFields
      <4> QED BY <1>h, <2>1, <4>1
    <3>3. Tried(c) \in SUBSET Keys
      BY <3>1, <3>2 DEF Tried
    <3>4. Refused(c) \in SUBSET (Entry \X Keys)
      BY <2>1, <3>1, <3>2 DEF Refused
    <3> QED BY <3>3, <3>4
  <2>3. Untried(c) \in SUBSET Nat /\ Untried(c) \subseteq KeysIn(Current(c))
    BY <2>1, KeysType DEF Untried
  <2> QED BY <2>2, <2>3, LeastExists
<1>10. ASSUME NEW c \in Callers, SwitchKey(c) PROVE ChainTypeOK'
  <2> DEFINE v == [call[c] EXCEPT !.pc = "retry", !.tried = Tried(c),
                      !.asked = @ \cup {Current(c)}, !.refused = Refused(c)]
  <2>1. Waiting(c) /\ Untried(c) # {} /\ call[c].todo # {}
    BY <1>10 DEF SwitchKey, Waiting
  <2>2. v \in Record /\ v.todo # {}
    <3>1. Tried(c) \in SUBSET Keys /\ Refused(c) \in SUBSET (Entry \X Keys)
      BY <1>k, <2>1
    <3>2. call[c].asked \cup {Current(c)} \in SUBSET Entry
      BY <1>0, <1>w, <2>1, RecordFields
    <3> QED BY <1>0, <2>1, <3>1, <3>2, ZenonT(60) DEF Record
  <2>3. cursor' \in [Entry -> Keys] /\ \A e \in Entry : cursor'[e] \in KeysIn(e)
    <3>1. cursor' = [cursor EXCEPT ![Current(c)] = Least(Untried(c))]
      BY <1>10 DEF SwitchKey
    <3>2. Least(Untried(c)) \in KeysIn(Current(c)) /\ Current(c) \in Entry
      BY <1>k, <1>w, <2>1
    <3> QED BY <1>h, <3>1, <3>2, KeysType
  <2>4. call' = [call EXCEPT ![c] = v] /\ UNCHANGED <<clock, health>>
    BY <1>10 DEF SwitchKey
  <2> HIDE DEF v
  <2> QED BY <1>h, <2>2, <2>3, <2>4, CallTypeStep
<1>11. ASSUME NEW c \in Callers, RetryEntry(c) PROVE ChainTypeOK'
  <2> DEFINE v == [call[c] EXCEPT !.pc = "ask", !.client[Current(c)] = cursor[Current(c)]]
  <2>1. Current(c) \in Entry
    BY <1>11, CurrentType DEF RetryEntry, ChainTypeOK
  <2>2. v \in Record /\ v.pc = "ask"
    BY <1>0, <1>h, <2>1, ZenonT(60) DEF Record
  <2>3. call' = [call EXCEPT ![c] = v] /\ UNCHANGED <<clock, cursor, health>>
    BY <1>11 DEF RetryEntry
  <2> HIDE DEF v
  <2> QED BY <1>h, <2>2, <2>3, CallTypeStep
<1>12. ASSUME NEW c \in Callers, PoolExhausted(c) PROVE ChainTypeOK'
  <2> DEFINE v == [Onward(c) EXCEPT !.refused = Refused(c)]
  <2>1. Waiting(c)
    BY <1>12 DEF PoolExhausted
  <2>2. v \in Record /\ v.pc = "ask"
    BY <1>w, <1>k, <2>1 DEF Record
  <2>3. health' \in [Entry -> [until : Nat, strike : 0 .. Rungs, auth : 0 .. Rungs]]
    <3>1. \A e \in Entry : /\ Up(health[e].auth) \in 0 .. Rungs
                           /\ clock + AuthWait[Up(health[e].auth)] \in Nat
      <4> TAKE e \in Entry
      <4>1. Up(health[e].auth) \in 0 .. Rungs /\ Up(health[e].auth) \in 1 .. Rungs
        BY <1>h, UpType
      <4>2. AuthWait[Up(health[e].auth)] \in Nat
        BY <4>1, ZenonT(60)
      <4> QED BY SMTT(30), <1>h, <4>1, <4>2
    <3>2. health' = CoolProvider(Provider[Current(c)])
      BY <1>12 DEF PoolExhausted
    <3> QED BY ZenonT(60), <1>h, <3>1, <3>2 DEF CoolProvider
  <2>4. call' = [call EXCEPT ![c] = v] /\ UNCHANGED <<clock, cursor>>
    BY <1>12 DEF PoolExhausted
  <2> HIDE DEF v
  <2> QED BY <1>h, <2>2, <2>3, <2>4, CallTypeStep
<1>13. ASSUME NEW c \in Callers, Collect(c) PROVE ChainTypeOK'
  BY <1>13, <1>h, RestingType, CallTypeStep DEF Collect
<1> QED
  BY <1>1, <1>2, <1>3, <1>4, <1>5, <1>6, <1>7, <1>8, <1>9, <1>10, <1>11, <1>12, <1>13
  DEF ChainNext, CallStep

\* The chain's state is of its type in every behaviour: no strike indexes
\* past its ladder and no cursor leaves its pool.
THEOREM ChainTypeCorrect == ChainSpec => []ChainTypeOK
BY ChainTypeInit, ChainTypeStep, PTL DEF ChainSpec

-----------------------------------------------------------------------------
(* Nobody is left without an answer before everybody was asked *)

Underway(c) == call[c].pc \in {"ask", "retry"}

\* What is left to ask and what was asked make up the chain in the second
\* pass, and the entries that were healthy at the beginning in the first.
PassInv ==
  \A c \in Callers :
    /\ call[c].pc = "failed" => call[c].asked = Entry
    /\ Underway(c) /\ call[c].pass = 1 =>
         call[c].todo \subseteq call[c].first /\ call[c].first \subseteq call[c].asked \cup call[c].todo
    /\ Underway(c) /\ call[c].pass = 2 =>
         call[c].first \subseteq call[c].asked /\ Entry \subseteq call[c].asked \cup call[c].todo

LEMMA PassInit == ChainInit => PassInv
BY DEF ChainInit, PassInv, Underway, Resting

\* Only the call of c moves.
LEMMA PassStep == ChainTypeOK /\ PassInv /\ [ChainNext]_chainVars => PassInv'
<1> SUFFICES ASSUME ChainTypeOK, PassInv, [ChainNext]_chainVars PROVE PassInv'
  OBVIOUS
<1>0. \A c \in Callers : call[c] \in Record
  BY DEF ChainTypeOK, Record
<1>1. CASE Tick \/ UNCHANGED chainVars
  BY <1>1 DEF Tick, chainVars, PassInv, Underway
<1>2. ASSUME NEW c \in Callers, NEW v,
             call' = [call EXCEPT ![c] = v],
             v.pc = "failed" => v.asked = Entry,
             v.pc \in {"ask", "retry"} /\ v.pass = 1 =>
               v.todo \subseteq v.first /\ v.first \subseteq v.asked \cup v.todo,
             v.pc \in {"ask", "retry"} /\ v.pass = 2 =>
               v.first \subseteq v.asked /\ Entry \subseteq v.asked \cup v.todo
      PROVE  PassInv'
  <2>1. \A d \in Callers : call'[d] = IF d = c THEN v ELSE call[d]
    BY <1>2 DEF ChainTypeOK
  <2> QED BY <1>2, <2>1 DEF PassInv, Underway
<1>3. ASSUME NEW c \in Callers, BeginCall(c) PROVE PassInv'
  <2> DEFINE v == [Resting EXCEPT !.pc = "ask", !.todo = Snapshot, !.client = cursor,
                                  !.first = Snapshot]
  <2>1. call' = [call EXCEPT ![c] = v]
    BY <1>3 DEF BeginCall
  <2>2. v.pc = "ask" /\ v.pass = 1 /\ v.todo = Snapshot /\ v.first = Snapshot
    BY DEF Resting
  <2> HIDE DEF v
  <2>3. /\ v.pc # "failed" /\ v.pass # 2
        /\ v.todo \subseteq v.first /\ v.first \subseteq v.asked \cup v.todo
    BY <2>2
  <2> QED BY <1>2, <2>1, <2>3
<1>4. ASSUME NEW c \in Callers, SecondPass(c) PROVE PassInv'
  <2> DEFINE v == [call[c] EXCEPT !.pass = 2, !.todo = Entry, !.client = cursor]
  <2>1. call' = [call EXCEPT ![c] = v] /\ call[c].pc = "ask"
    BY <1>4 DEF SecondPass
  <2>2. call[c].pass = 1 /\ call[c].todo = {}
    BY <1>4 DEF SecondPass
  <2>3. call[c].first \subseteq call[c].asked
    BY <2>1, <2>2 DEF PassInv, Underway
  <2>4. v.pc = "ask" /\ v.pass = 2 /\ v.todo = Entry /\ v.first = call[c].first /\ v.asked = call[c].asked
    BY <1>0, <2>1 DEF Record
  <2> HIDE DEF v
  <2>5. /\ v.pc # "failed" /\ v.pass # 1
        /\ v.first \subseteq v.asked /\ Entry \subseteq v.asked \cup v.todo
    BY <2>3, <2>4
  <2> QED BY <1>2, <2>1, <2>5
<1>5. ASSUME NEW c \in Callers, GiveUp(c) PROVE PassInv'
  <2> DEFINE v == [call[c] EXCEPT !.pc = "failed"]
  <2>1. call' = [call EXCEPT ![c] = v]
    BY <1>5 DEF GiveUp
  <2>2. call[c].asked = Entry
    <3>1. call[c].pc = "ask" /\ call[c].pass = 2 /\ call[c].todo = {}
      BY <1>5 DEF GiveUp
    <3>2. Entry \subseteq call[c].asked \cup call[c].todo
      BY <3>1 DEF PassInv, Underway
    <3>3. call[c].asked \in SUBSET Entry
      BY <1>0, RecordFields
    <3> QED BY <3>1, <3>2, <3>3
  <2>3. v.pc = "failed" /\ v.asked = call[c].asked
    BY <1>0 DEF Record
  <2> HIDE DEF v
  <2> QED BY <1>2, <2>1, <2>2, <2>3
<1>6. ASSUME NEW c \in Callers, Answers(c) \/ FailsForGood(c) \/ Collect(c) PROVE PassInv'
  <2>1. PICK v : call' = [call EXCEPT ![c] = v] /\ v.pc \in {"ok", "fatal", "idle"}
    <3>1. CASE Answers(c)
      <4> WITNESS [call[c] EXCEPT !.pc = "ok", !.asked = @ \cup {Current(c)}]
      <4> QED BY <1>0, <3>1 DEF Answers, Record
    <3>2. CASE FailsForGood(c)
      <4> WITNESS [call[c] EXCEPT !.pc = "fatal", !.asked = @ \cup {Current(c)}]
      <4> QED BY <1>0, <3>2 DEF FailsForGood, Record
    <3>3. CASE Collect(c)
      BY <3>3, RestingType DEF Collect
    <3> QED BY <1>6, <3>1, <3>2, <3>3
  <2> QED BY <1>2, <2>1
\* The entry that was asked leaves the list of those that are to be asked.
<1>7. ASSUME NEW c \in Callers, Waiting(c), NEW v, call' = [call EXCEPT ![c] = v],
             v.pc = "ask", v.pass = call[c].pass, v.first = call[c].first,
             v.todo = call[c].todo \ {Current(c)}, v.asked = call[c].asked \cup {Current(c)}
      PROVE  PassInv'
  <2>1. Underway(c)
    BY <1>7 DEF Waiting, Underway
  <2>2. v.pass = 1 => v.todo \subseteq v.first /\ v.first \subseteq v.asked \cup v.todo
    BY <1>7, <2>1 DEF PassInv
  <2>3. v.pass = 2 => v.first \subseteq v.asked /\ Entry \subseteq v.asked \cup v.todo
    BY <1>7, <2>1 DEF PassInv
  <2> QED BY <1>2, <1>7, <2>2, <2>3
<1>o. ASSUME NEW c \in Callers, Waiting(c)
      PROVE  /\ Onward(c).pc = "ask" /\ Onward(c).pass = call[c].pass
             /\ Onward(c).first = call[c].first
             /\ Onward(c).todo = call[c].todo \ {Current(c)}
             /\ Onward(c).asked = call[c].asked \cup {Current(c)}
  BY <1>0, <1>o DEF Onward, Record, Waiting
<1>8. ASSUME NEW c \in Callers, ModelGone(c) \/ \E hint \in Hints : FailsForNow(c, hint)
      PROVE  PassInv'
  <2>1. Waiting(c) /\ call' = [call EXCEPT ![c] = Onward(c)]
    BY <1>8 DEF ModelGone, FailsForNow
  <2> QED BY <1>7, <1>o, <2>1
<1>9. ASSUME NEW c \in Callers, PoolExhausted(c) PROVE PassInv'
  <2> DEFINE v == [Onward(c) EXCEPT !.refused = Refused(c)]
  <2>1. Waiting(c) /\ call' = [call EXCEPT ![c] = v]
    BY <1>9 DEF PoolExhausted
  <2>2. /\ v.pc = Onward(c).pc /\ v.pass = Onward(c).pass /\ v.first = Onward(c).first
        /\ v.todo = Onward(c).todo /\ v.asked = Onward(c).asked
    BY DEF Onward
  <2> HIDE DEF v
  <2> QED BY <1>7, <1>o, <2>1, <2>2
<1>10. ASSUME NEW c \in Callers, SwitchKey(c) PROVE PassInv'
  <2> DEFINE v == [call[c] EXCEPT !.pc = "retry", !.tried = Tried(c),
                      !.asked = @ \cup {Current(c)}, !.refused = Refused(c)]
  <2>1. Waiting(c) /\ call' = [call EXCEPT ![c] = v]
    BY <1>10 DEF SwitchKey
  <2>2. /\ v.pc = "retry" /\ v.pass = call[c].pass /\ v.first = call[c].first
        /\ v.todo = call[c].todo /\ v.asked = call[c].asked \cup {Current(c)}
    BY <1>0 DEF Record
  <2>3. Underway(c)
    BY <2>1 DEF Waiting, Underway
  <2>4. /\ v.pass = 1 => v.todo \subseteq v.first /\ v.first \subseteq v.asked \cup v.todo
        /\ v.pass = 2 => v.first \subseteq v.asked /\ Entry \subseteq v.asked \cup v.todo
    BY <2>2, <2>3 DEF PassInv
  <2> HIDE DEF v
  <2> QED BY <1>2, <2>1, <2>2, <2>4
<1>11. ASSUME NEW c \in Callers, RetryEntry(c) PROVE PassInv'
  <2> DEFINE v == [call[c] EXCEPT !.pc = "ask", !.client[Current(c)] = cursor[Current(c)]]
  <2>1. call' = [call EXCEPT ![c] = v] /\ Underway(c)
    BY <1>11 DEF RetryEntry, Underway
  <2>2. /\ v.pc = "ask" /\ v.pass = call[c].pass /\ v.first = call[c].first
        /\ v.todo = call[c].todo /\ v.asked = call[c].asked
    BY <1>0 DEF Record
  <2>4. /\ v.pass = 1 => v.todo \subseteq v.first /\ v.first \subseteq v.asked \cup v.todo
        /\ v.pass = 2 => v.first \subseteq v.asked /\ Entry \subseteq v.asked \cup v.todo
    BY <2>1, <2>2 DEF PassInv
  <2> HIDE DEF v
  <2> QED BY <1>2, <2>1, <2>2, <2>4
<1> QED
  BY <1>1, <1>3, <1>4, <1>5, <1>6, <1>8, <1>9, <1>10, <1>11 DEF ChainNext, CallStep

\* A call that fails with a retryable error has asked every entry of the
\* chain, whatever was cooling down: the second pass leaves nobody out.
THEOREM EverybodyIsAsked == ChainSpec => []AllAskedBeforeGivingUp
<1>1. PassInv => AllAskedBeforeGivingUp
  BY DEF PassInv, AllAskedBeforeGivingUp
<1> QED
  BY <1>1, ChainTypeInit, ChainTypeStep, PassInit, PassStep, PTL DEF ChainSpec

\* An entry that was cooling down when the call began is asked only after
\* every entry that was not.
THEOREM HealthyComeFirst == ChainSpec => []CooledIsLastResort
<1>1. ChainTypeOK /\ PassInv => CooledIsLastResort
  <2> SUFFICES ASSUME ChainTypeOK, PassInv, NEW c \in Callers, Waiting(c),
                      Current(c) \notin call[c].first
               PROVE  call[c].first \subseteq call[c].asked
    BY DEF CooledIsLastResort
  <2>1. Underway(c) /\ Current(c) \in call[c].todo
    BY CurrentType DEF Waiting, Underway
  <2>2. call[c].pass # 1
    BY <2>1 DEF PassInv
  <2>3. call[c].pass = 2
    BY <2>2 DEF ChainTypeOK
  <2> QED BY <2>1, <2>3 DEF PassInv
<1> QED
  BY <1>1, ChainTypeInit, ChainTypeStep, PassInit, PassStep, PTL DEF ChainSpec

-----------------------------------------------------------------------------
(* A lap over the key pool, for a chain with one caller *)

\* While an entry is being asked the key of its client is the entry's own,
\* and a key that was tried in this lap was refused in this call.
LapInv ==
  \A c \in Callers :
    /\ Underway(c) =>
         \A e \in call[c].todo :
           call[c].client[e] = cursor[e] \/ (call[c].pc = "retry" /\ e = Current(c))
    /\ Underway(c) /\ call[c].todo # {} =>
         {Current(c)} \X call[c].tried \subseteq call[c].refused
    /\ Underway(c) /\ call[c].todo = {} => call[c].tried = {}

LEMMA LapInit == ChainInit => LapInv
BY DEF ChainInit, LapInv, Underway, Resting

LEMMA LapStep ==
  ASSUME \A c, d \in Callers : c = d, ChainTypeOK, LapInv, [ChainNext]_chainVars
  PROVE  LapInv'
<1>0. \A c \in Callers : call[c] \in Record
  BY DEF ChainTypeOK, Record
<1>1. CASE Tick \/ UNCHANGED chainVars
  <2>1. UNCHANGED <<call, cursor>>
    BY <1>1 DEF Tick, chainVars
  <2> QED BY <2>1 DEF LapInv, Underway, Current
<1>2. ASSUME NEW c \in Callers, NEW v, call' = [call EXCEPT ![c] = v],
             v.pc \notin {"ask", "retry"}
      PROVE  LapInv'
  <2>1. call'[c] = v /\ \A d \in Callers : d = c
    BY <1>2 DEF ChainTypeOK
  <2> QED BY <1>2, <2>1 DEF LapInv, Underway
\* What has to be shown of the call of c, which is the only one.
<1> DEFINE OwnKeys(c) == \A e \in call'[c].todo :
             call'[c].client[e] = cursor'[e] \/ (call'[c].pc = "retry" /\ e = Current(c)')
           Seen(c) == {Current(c)'} \X call'[c].tried \subseteq call'[c].refused
           NoLap(c) == call'[c].todo = {} => call'[c].tried = {}
<1>h. ASSUME NEW c \in Callers, OwnKeys(c), Seen(c), NoLap(c)
      PROVE  LapInv'
  <2>1. \A d \in Callers : d = c
    OBVIOUS
  <2> QED BY <1>h, <2>1, Zenon DEF LapInv
\* A new snapshot: the clients are built with the entries' keys.
<1>3. ASSUME NEW c \in Callers, NEW v, call' = [call EXCEPT ![c] = v],
             v.client = cursor, v.tried = {}, UNCHANGED cursor
      PROVE  LapInv'
  <2>1. call'[c] = v /\ \A d \in Callers : d = c
    BY <1>3 DEF ChainTypeOK
  <2>2. {Current(c)'} \X v.tried = {}
    BY <1>3
  <2>3. OwnKeys(c)
    BY <1>3, <2>1
  <2>4. Seen(c) /\ NoLap(c)
    BY <1>3, <2>1, <2>2
  <2> HIDE DEF OwnKeys, Seen, NoLap
  <2> QED BY <1>h, <2>3, <2>4
<1>4. ASSUME NEW c \in Callers, BeginCall(c) PROVE LapInv'
  <2> DEFINE v == [Resting EXCEPT !.pc = "ask", !.todo = Snapshot, !.client = cursor,
                                  !.first = Snapshot]
  <2>1. call' = [call EXCEPT ![c] = v] /\ UNCHANGED cursor
    BY <1>4 DEF BeginCall
  <2>2. v.client = cursor /\ v.tried = {}
    BY DEF Resting
  <2> HIDE DEF v
  <2> QED BY <1>3, <2>1, <2>2
<1>5. ASSUME NEW c \in Callers, SecondPass(c) PROVE LapInv'
  <2> DEFINE v == [call[c] EXCEPT !.pass = 2, !.todo = Entry, !.client = cursor]
  <2>1. call' = [call EXCEPT ![c] = v] /\ UNCHANGED cursor
    BY <1>5 DEF SecondPass
  <2>2. call[c].tried = {}
    BY <1>5 DEF SecondPass, LapInv, Underway
  <2>3. v.client = cursor /\ v.tried = call[c].tried
    BY <1>0 DEF Record
  <2> HIDE DEF v
  <2> QED BY <1>3, <2>1, <2>2, <2>3
<1>6. ASSUME NEW c \in Callers,
             GiveUp(c) \/ Answers(c) \/ FailsForGood(c) \/ Collect(c)
      PROVE  LapInv'
  <2>1. \E v : call' = [call EXCEPT ![c] = v] /\ v.pc \notin {"ask", "retry"}
    <3>1. CASE GiveUp(c)
      <4> WITNESS [call[c] EXCEPT !.pc = "failed"]
      <4> QED BY <1>0, <3>1 DEF GiveUp, Record
    <3>2. CASE Answers(c)
      <4> WITNESS [call[c] EXCEPT !.pc = "ok", !.asked = @ \cup {Current(c)}]
      <4> QED BY <1>0, <3>2 DEF Answers, Record
    <3>3. CASE FailsForGood(c)
      <4> WITNESS [call[c] EXCEPT !.pc = "fatal", !.asked = @ \cup {Current(c)}]
      <4> QED BY <1>0, <3>3 DEF FailsForGood, Record
    <3>4. CASE Collect(c)
      BY <3>4, RestingType DEF Collect
    <3> QED BY <1>6, <3>1, <3>2, <3>3, <3>4
  <2>2. PICK v : call' = [call EXCEPT ![c] = v] /\ v.pc \notin {"ask", "retry"}
    BY <2>1
  <2> QED BY <1>2, <2>2
\* The next entry of the snapshot: its lap has not begun.
<1>7. ASSUME NEW c \in Callers, Waiting(c), NEW v, call' = [call EXCEPT ![c] = v],
             v.pc = "ask", v.client = call[c].client, v.tried = {},
             v.todo = call[c].todo \ {Current(c)}, UNCHANGED cursor
      PROVE  LapInv'
  <2>1. call'[c] = v /\ \A d \in Callers : d = c
    BY <1>7 DEF ChainTypeOK
  <2>2. \A e \in call[c].todo : call[c].client[e] = cursor[e]
    BY <1>7 DEF LapInv, Underway, Waiting
  <2>3. {Current(c)'} \X v.tried = {}
    BY <1>7
  <2>4. OwnKeys(c)
    BY <1>7, <2>1, <2>2
  <2>5. Seen(c) /\ NoLap(c)
    BY <1>7, <2>1, <2>3
  <2> HIDE DEF OwnKeys, Seen, NoLap
  <2> QED BY <1>h, <2>4, <2>5
<1>8. ASSUME NEW c \in Callers,
             ModelGone(c) \/ PoolExhausted(c) \/ \E hint \in Hints : FailsForNow(c, hint)
      PROVE  LapInv'
  <2>1. Waiting(c) /\ UNCHANGED cursor
    BY <1>8 DEF ModelGone, FailsForNow, PoolExhausted
  <2>2. \E v : /\ call' = [call EXCEPT ![c] = v] /\ v.pc = "ask"
               /\ v.client = call[c].client /\ v.tried = {}
               /\ v.todo = call[c].todo \ {Current(c)}
    <3>1. /\ Onward(c).pc = "ask" /\ Onward(c).client = call[c].client
          /\ Onward(c).tried = {} /\ Onward(c).todo = call[c].todo \ {Current(c)}
      BY <1>0, <2>1 DEF Onward, Record, Waiting
    <3>2. CASE PoolExhausted(c)
      <4> WITNESS [Onward(c) EXCEPT !.refused = Refused(c)]
      <4>1. call' = [call EXCEPT ![c] = [Onward(c) EXCEPT !.refused = Refused(c)]]
        BY <3>2 DEF PoolExhausted
      <4> QED BY <1>0, <3>1, <4>1 DEF Onward, Record
    <3>3. CASE ~PoolExhausted(c)
      <4> WITNESS Onward(c)
      <4> QED BY <1>8, <3>1, <3>3 DEF ModelGone, FailsForNow
    <3> QED BY <3>2, <3>3
  <2>3. PICK v : /\ call' = [call EXCEPT ![c] = v] /\ v.pc = "ask"
                 /\ v.client = call[c].client /\ v.tried = {}
                 /\ v.todo = call[c].todo \ {Current(c)}
    BY <2>2
  <2> QED BY <1>7, <2>1, <2>3
<1>9. ASSUME NEW c \in Callers, SwitchKey(c) PROVE LapInv'
  <2> DEFINE v == [call[c] EXCEPT !.pc = "retry", !.tried = Tried(c),
                      !.asked = @ \cup {Current(c)}, !.refused = Refused(c)]
             e == Current(c)
  <2>1. /\ Waiting(c) /\ call' = [call EXCEPT ![c] = v]
        /\ cursor' = [cursor EXCEPT ![e] = Least(Untried(c))]
    BY <1>9 DEF SwitchKey
  <2>2. /\ v.pc = "retry" /\ v.todo = call[c].todo /\ v.client = call[c].client
        /\ v.tried = Tried(c) /\ v.refused = Refused(c)
    BY <1>0 DEF Record
  <2>3. call'[c] = v /\ \A d \in Callers : d = c
    BY <2>1 DEF ChainTypeOK
  <2>4. Current(c)' = e
    BY <2>2, <2>3 DEF Current
  <2>5. e \in call[c].todo /\ e \in Entry
    BY <2>1, CurrentType DEF Waiting
  <2>6. \A d \in call[c].todo : call[c].client[d] = cursor[d]
    BY <2>1 DEF LapInv, Underway, Waiting
  <2>7. {e} \X Tried(c) \subseteq Refused(c)
    <3>1. {e} \X call[c].tried \subseteq call[c].refused
      BY <2>1 DEF LapInv, Underway, Waiting
    <3> QED BY <2>5, <2>6, <3>1 DEF Tried, Refused
  <2>8. \A d \in Entry : d # e => cursor'[d] = cursor[d]
    BY <2>1 DEF ChainTypeOK
  <2>9. call[c].todo \subseteq Entry
    BY <1>0, RecordFields
  <2> HIDE DEF v, e
  <2>10. OwnKeys(c)
    <3>1. call'[c].pc = "retry" /\ call'[c].todo = call[c].todo /\ call'[c].client = call[c].client
      BY <2>2, <2>3
    <3>2. \A d \in call[c].todo : d # e => call[c].client[d] = cursor'[d]
      BY <2>6, <2>8, <2>9
    <3> QED BY <2>4, <3>1, <3>2
  <2>11. Seen(c) /\ NoLap(c)
    BY <2>2, <2>3, <2>4, <2>5, <2>7
  <2> HIDE DEF OwnKeys, Seen, NoLap
  <2> QED BY <1>h, <2>10, <2>11
<1>10. ASSUME NEW c \in Callers, RetryEntry(c) PROVE LapInv'
  <2> DEFINE e == Current(c)
             v == [call[c] EXCEPT !.pc = "ask", !.client[e] = cursor[e]]
  <2>1. /\ call' = [call EXCEPT ![c] = v] /\ call[c].pc = "retry" /\ UNCHANGED cursor
    BY <1>10 DEF RetryEntry
  <2>2. /\ v.pc = "ask" /\ v.todo = call[c].todo /\ v.tried = call[c].tried
        /\ v.refused = call[c].refused /\ v.client = [call[c].client EXCEPT ![e] = cursor[e]]
    BY <1>0 DEF Record
  <2>3. call'[c] = v /\ \A d \in Callers : d = c
    BY <2>1 DEF ChainTypeOK
  <2>4. Current(c)' = e
    BY <2>2, <2>3 DEF Current
  <2>5. call[c].todo # {} /\ call[c].todo \subseteq Entry /\ call[c].client \in [Entry -> Keys]
    BY <1>0, <2>1, RecordFields DEF ChainTypeOK
  <2>6. \A d \in call[c].todo : d # e => call[c].client[d] = cursor[d]
    BY <2>1 DEF LapInv, Underway
  <2>7. {e} \X call[c].tried \subseteq call[c].refused
    BY <2>1, <2>5 DEF LapInv, Underway
  <2>8. \A d \in call[c].todo : v.client[d] = cursor[d]
    BY <2>2, <2>5, <2>6
  <2> HIDE DEF v, e
  <2>10. OwnKeys(c)
    BY <2>1, <2>2, <2>3, <2>8
  <2>11. Seen(c) /\ NoLap(c)
    BY <2>2, <2>3, <2>4, <2>5, <2>7
  <2> HIDE DEF OwnKeys, Seen, NoLap
  <2> QED BY <1>h, <2>10, <2>11
<1> QED
  BY <1>1, <1>4, <1>5, <1>6, <1>8, <1>9, <1>10 DEF ChainNext, CallStep

\* On a chain with one caller, the other models of a provider are cooled
\* only when every key of the pool was refused in this very call.
THEOREM PoolIsTriedFirst ==
  ASSUME \A c, d \in Callers : c = d
  PROVE  ChainSpec => PoolTriedBeforeCooling
<1>1. ASSUME ChainTypeOK, LapInv, [ChainNext]_chainVars, NEW c \in Callers, NEW e \in Entry,
             Waiting(c), call'[c] # call[c], e # Current(c), health'[e] # health[e]
      PROVE  {Current(c)} \X KeysIn(Current(c)) \subseteq call'[c].refused
  <2>1. Current(c) \in call[c].todo /\ Current(c) \in Entry
    BY <1>1, CurrentType DEF Waiting
  <2>2. \A d \in Callers : d = c
    OBVIOUS
  <2>3. PoolExhausted(c)
    <3>1. ~(Answers(c) \/ ModelGone(c) \/ \E hint \in Hints : FailsForNow(c, hint))
      BY <1>1, <2>1 DEF Answers, ModelGone, FailsForNow, ChainTypeOK
    <3>2. UNCHANGED health \/ Answers(c) \/ ModelGone(c) \/ PoolExhausted(c)
            \/ \E hint \in Hints : FailsForNow(c, hint)
      BY <1>1, <2>2 DEF ChainNext, CallStep, chainVars, Tick, BeginCall, Collect, SecondPass,
                        GiveUp, FailsForGood, SwitchKey, RetryEntry
    <3> QED BY <1>1, <3>1, <3>2
  <2>4. call'[c].refused = Refused(c)
    <3>1. call' = [call EXCEPT ![c] = [Onward(c) EXCEPT !.refused = Refused(c)]]
      BY <2>3 DEF PoolExhausted
    <3>2. [Onward(c) EXCEPT !.refused = Refused(c)].refused = Refused(c)
      BY DEF Onward, ChainTypeOK
    <3> HIDE DEF Onward
    <3>3. call'[c] = [Onward(c) EXCEPT !.refused = Refused(c)]
      <4>1. call \in [Callers -> Record]
        BY <1>1 DEF ChainTypeOK, Record
      <4> QED BY <3>1, <4>1
    <3> QED BY <3>2, <3>3
  <2>5. {Current(c)} \X call[c].tried \subseteq call[c].refused
    BY <1>1 DEF LapInv, Underway, Waiting
  <2>6. call[c].client[Current(c)] = cursor[Current(c)]
    BY <1>1, <2>1 DEF LapInv, Underway, Waiting
  <2>7. KeysIn(Current(c)) \subseteq call[c].tried \cup {cursor[Current(c)]}
    BY <2>3 DEF PoolExhausted, Untried, Tried
  <2> QED BY <2>4, <2>5, <2>6, <2>7 DEF Refused
<1>2. ChainTypeOK /\ LapInv /\ [ChainNext]_chainVars
        => [\A c \in Callers : \A e \in Entry :
             Waiting(c) /\ call'[c] # call[c] /\ e # Current(c) /\ health'[e] # health[e]
               => {Current(c)} \X KeysIn(Current(c)) \subseteq call'[c].refused]_chainVars
  BY <1>1
<1>3. ChainTypeOK /\ LapInv /\ [ChainNext]_chainVars => LapInv'
  BY LapStep
<1> QED
  BY <1>2, <1>3, ChainTypeInit, ChainTypeStep, LapInit, PTL DEF ChainSpec, PoolTriedBeforeCooling
=============================================================================
