----------------------------- MODULE MCPlanner -----------------------------
(***************************************************************************)
(* Values of RulePlanner's constants for TLC: two customers, a fragment    *)
(* that stands for both, a name nobody has, and one query per branch of    *)
(* the rule planner.                                                       *)
(***************************************************************************)
EXTENDS RulePlanner

MCNoName == "none"

MCNames == {"Acme", "Apex", "ap", "zed"}

MCDirectory ==
    [n \in MCNames |->
        CASE n \in {"Acme", "Apex"} -> [matches |-> {n}, exact |-> TRUE]
          [] n = "ap"               -> [matches |-> {"Acme", "Apex"}, exact |-> FALSE]
          [] n = "zed"              -> [matches |-> {}, exact |-> FALSE]]

Asks(capitalised, name, words) ==
    [blocked |-> FALSE, semantic |-> FALSE, cross |-> FALSE, capitalised |-> capitalised,
     preName |-> name, planName |-> name, words |-> words]

Nobody == Asks(FALSE, "none", {"issue"})

\* Every branch of the planner and of the pre-flight check.
MCQueries ==
    {Asks(TRUE, "Acme", words) : words \in {{}, {"latest"}, {"suggest"},
                                            {"status", "suggest"}, {"next_action", "latest"}}}
    \cup {Asks(FALSE, "ap", {"status", "suggest"}), Asks(TRUE, "zed", {"issue"}),
          Nobody,
          [Nobody EXCEPT !.semantic = TRUE],
          [Nobody EXCEPT !.blocked = TRUE],
          [Asks(TRUE, "Acme", {"status"}) EXCEPT !.cross = TRUE]}

\* Queries for the runs in which the LLM's choices are the interesting part.
MCFewQueries == {Asks(TRUE, "Acme", {"status", "suggest"}), Asks(FALSE, "ap", {"issue"})}

MCOneQuery == {Asks(TRUE, "Acme", {"status", "suggest"})}

=============================================================================
