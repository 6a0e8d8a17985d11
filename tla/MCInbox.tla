------------------------------ MODULE MCInbox ------------------------------
EXTENDS Inbox, TLC

(* A mention that starts a thread, the same post as a message of the       *)
(* channel, and, under any other name, a reply in the thread.              *)
MCEnvelope ==
  [e \in Event |-> CASE e = "mention" -> [kind |-> "app_mention", thread |-> "t", threaded |-> FALSE]
                     [] e = "post"    -> [kind |-> "message", thread |-> "t", threaded |-> FALSE]
                     [] OTHER         -> [kind |-> "message", thread |-> "t", threaded |-> TRUE]]

Symmetric == Permutations(Flow) \cup Permutations(Job)
=============================================================================
