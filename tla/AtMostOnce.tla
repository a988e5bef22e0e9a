----------------------------- MODULE AtMostOnce -----------------------------
(***************************************************************************)
(* What the dispatch outbox promises its callers, with no journal, no      *)
(* crash and no approval in sight: an idempotency key fires its external   *)
(* effect at most once, and once a key has an answer it keeps that answer  *)
(* and never fires again.  A key may stay without an answer for ever (the  *)
(* intent-only window of a crash): that is "at most once", not "exactly    *)
(* once".  ActionRuntime, AgentTurns and, per process, Scheduler are shown *)
(* to implement this module for their keys.                                *)
(***************************************************************************)
CONSTANTS Slots,      (* the idempotency keys                              *)
          Answers,    (* what a finished dispatch may be remembered as     *)
          NoAnswer    (* no outcome yet; not one of Answers                *)

VARIABLES fired,      (* how often the effect of each key was dispatched   *)
          answer      (* the outcome each key is remembered with           *)

vars == <<fired, answer>>

Init == /\ fired = [s \in Slots |-> 0]
        /\ answer = [s \in Slots |-> NoAnswer]

\* The effect of s goes out: never twice, never after an answer.
Fire(s) == /\ fired[s] = 0
           /\ answer[s] = NoAnswer
           /\ fired' = [fired EXCEPT ![s] = 1]
           /\ UNCHANGED answer

\* s is settled, for good.
Settle(s) == /\ answer[s] = NoAnswer
             /\ answer'[s] \in Answers
             /\ answer' = [answer EXCEPT ![s] = answer'[s]]
             /\ UNCHANGED fired

Next == \E s \in Slots : Fire(s) \/ Settle(s)

Spec == Init /\ [][Next]_vars
=============================================================================
