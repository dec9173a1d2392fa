-------------------------- MODULE MCCronScheduler --------------------------
(* Model values and small schedules for checking CronScheduler. *)
EXTENDS CronScheduler, TLC

CONSTANTS j1, j2, s1, s2, s3

BackoffDef == <<1, 2>>
EndTimesDef == {Null, 2}
NoEnd == {Null}
SlotSymmetry == Permutations(Slots)
============================================================================
