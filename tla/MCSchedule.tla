---------------------------- MODULE MCSchedule ----------------------------
(* Instances of Schedule for TLC: a schedule that runs every time and one  *)
(* that runs every other time.                                             *)
EXTENDS Schedule

MCMessage == {"daily", "biweekly"}
MCCron == [s \in MCMessage |->
             IF s = "daily" THEN 1 .. MaxTime ELSE {n \in 1 .. MaxTime : n % 2 = 0}]

(* Creators meet before the first schedule is due: their statements touch  *)
(* nothing of a tick or a job.  One of the schedules is never cancelled.   *)
(* Neither creators nor users are bound to act, so that nothing fair is    *)
(* cut off.                                                                *)
MCBound ==
  /\ counted # {} => now = 0
  /\ "biweekly" \in rows => "biweekly" \in enabled
=============================================================================
