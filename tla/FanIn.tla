------------------------------- MODULE FanIn -------------------------------
(***************************************************************************)
(* What parallel coordination promises (docs/adr/009): a message is split  *)
(* into tasks once, every task ends once, and when all of them have ended, *)
(* and not before, one job joins the results.  The promise lapses when a   *)
(* job attempt is repeated after it had already done its last write; after *)
(* that this module says nothing.                                          *)
(***************************************************************************)
EXTENDS Naturals

CONSTANT Task

VARIABLES
  plan,      (* the tasks the message was split into, {} before that       *)
  finished,  (* the tasks that have ended, with a result or an error       *)
  joined,    (* the join job exists                                        *)
  lapsed     (* an attempt was repeated after its last write               *)

vars == <<plan, finished, joined, lapsed>>

Init ==
  /\ plan = {}
  /\ finished = {}
  /\ joined = FALSE
  /\ lapsed = FALSE

Split ==
  /\ ~ lapsed
  /\ plan = {}
  /\ plan' \in (SUBSET Task) \ {{}}
  /\ UNCHANGED <<finished, joined, lapsed>>

Finish(t) ==
  /\ ~ lapsed
  /\ t \in plan \ finished
  /\ finished' = finished \cup {t}
  /\ UNCHANGED <<plan, joined, lapsed>>

Join ==
  /\ ~ lapsed
  /\ plan # {}
  /\ finished = plan
  /\ ~ joined
  /\ joined' = TRUE
  /\ UNCHANGED <<plan, finished, lapsed>>

(* The task of the repeated attempt is open again.                         *)
Lapse ==
  /\ ~ lapsed
  /\ lapsed' = TRUE
  /\ finished' \subseteq finished
  /\ UNCHANGED <<plan, joined>>

AfterLapse == lapsed /\ lapsed'

Next == Split \/ (\E t \in Task : Finish(t)) \/ Join \/ Lapse \/ AfterLapse

(* Results that are all there are joined.                                  *)
Spec == Init /\ [][Next]_vars /\ WF_vars(Join)
=============================================================================
