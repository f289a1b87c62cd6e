---------------------------- MODULE MCCronScheduler ----------------------------
(* Instances of CronScheduler: a heartbeat h and a one-shot job o.         *)
EXTENDS CronScheduler, TLC

CONSTANTS h, o, s1, s2

\* Both jobs in one session, so that they share its file and its lane.
OneSession == [j \in Jobs |-> s1]

\* One session each.
OwnSessions == [j \in Jobs |-> IF j = h THEN s1 ELSE s2]

\* Batches are interchangeable.
Symmetry == Permutations(Batches)
================================================================================
