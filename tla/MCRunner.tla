----------------------------- MODULE MCRunner -----------------------------
(* An instance of Runner for TLC: a feature, planned and approved before it*)
(* is built behind the gate, and a fix, worked in two plain phases.        *)
EXTENDS Runner, TLC

MCLabel == {"type:feature", "type:fix"}
MCTags == [i \in Issue |-> IF i = "i1" THEN {"type:feature"} ELSE {"type:fix"}]
MCRules == << [labels |-> {"type:feature"}, workflow |-> "feature"],
              [labels |-> {}, workflow |-> "fix"] >>
MCPhases == [w \in {"feature", "fix"} |->
  IF w = "feature"
  THEN << [approval |-> TRUE, gate |-> FALSE], [approval |-> FALSE, gate |-> TRUE] >>
  ELSE << [approval |-> FALSE, gate |-> FALSE], [approval |-> FALSE, gate |-> FALSE] >>]
Symmetric == Permutations(Job) \cup Permutations(Pass)
=============================================================================
