----------------------------- MODULE DurableMap -----------------------------
(***************************************************************************)
(* What a store built on the journal promises: a map that survives         *)
(* crashes.  A call carries one or more updates; each takes effect at one  *)
(* instant between the call's begin and its return, a call that returns    *)
(* without an error has made all of them, and nothing else changes the     *)
(* map: not a crash, not a restart, not a compaction.  A call that fails   *)
(* or dies may have made some.  JournalStore is shown to implement this.   *)
(***************************************************************************)
CONSTANTS Callers, Keys, Values,
          Absent,     (* the value of a key that is not in the map         *)
          NoCall      (* the caller is not in a call                       *)

VARIABLES map,        (* key -> value or Absent                            *)
          due         (* caller -> updates its call has still to make      *)

vars == <<map, due>>

Updates == [key : Keys, val : Values \cup {Absent}]

Init == /\ map = [k \in Keys |-> Absent]
        /\ due = [c \in Callers |-> NoCall]

Make(u) == map' = [map EXCEPT ![u.key] = u.val]

Begin(c, us) == /\ due[c] = NoCall
                /\ due' = [due EXCEPT ![c] = us]
                /\ UNCHANGED map

Apply(c) == /\ due[c] # NoCall
            /\ \E u \in due[c] : Make(u) /\ due' = [due EXCEPT ![c] = @ \ {u}]

Return(c) == /\ due[c] = {}
             /\ due' = [due EXCEPT ![c] = NoCall]
             /\ UNCHANGED map

\* The caller is told of an error; one more update may have been made.
Fail(c) == /\ due[c] # NoCall
           /\ UNCHANGED map \/ \E u \in due[c] : Make(u)
           /\ due' = [due EXCEPT ![c] = NoCall]

\* Every call dies, at most one in the middle of an update.
Crash == /\ \/ UNCHANGED map
            \/ \E c \in Callers : due[c] # NoCall /\ \E u \in due[c] : Make(u)
         /\ due' = [c \in Callers |-> NoCall]

Next == \/ \E c \in Callers : \/ \E us \in SUBSET Updates : Begin(c, us)
                              \/ Apply(c) \/ Return(c) \/ Fail(c)
        \/ Crash

Spec == Init /\ [][Next]_vars
=============================================================================
