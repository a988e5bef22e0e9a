---------------------------- MODULE MCScheduler ----------------------------
(* A dream task every 2 seconds and a second task: cron or interval. *)
EXTENDS Scheduler

CONSTANTS t1, t2, o1, o2

MCInterval == [t \in Tasks |-> 2]
MCOccurs   == [t \in Tasks |-> {0, 2}]
=============================================================================
