------------------------------ MODULE MCFanOut ------------------------------
(* An instance of FanOut for TLC: the constants are given in the .cfg.     *)
EXTENDS FanOut

(* Plans of three tasks are made once, with two faults; what the second    *)
(* attempt of a plan or synthesize job does is looked at with one fault,   *)
(* two tasks at most, and execute jobs that are not repeated.              *)
MCBound ==
  planAttempt > 1 \/ (\E s \in Synth : synthAttempt[s] > 1) =>
    /\ faults <= 1
    /\ tasks <= 2 /\ total_tasks <= 2
    /\ \A j \in Job : jobAttempt[j] <= 1
=============================================================================
