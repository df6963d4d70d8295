----------------------------- MODULE MCScheduler -----------------------------
(* Model-checking instances of Scheduler, with the kernel's own priorities  *)
(* (5, 3 and 2) and a table of four tasks.                                  *)
EXTENDS Scheduler

MCSleepers   == {0, 1, 2}
MCSleepTicks == {0, 2}
NoSleepers   == {}
NoSleepTicks == {}
=============================================================================
