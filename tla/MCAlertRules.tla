---------------------------- MODULE MCAlertRules ----------------------------
EXTENDS AlertRules, TLC

CONSTANTS p, q,      \* projects
          e1, e2     \* events

RuleWith(metric, condition, threshold, window, cooldown) ==
  [project |-> p, metric |-> metric, condition |-> condition, threshold |-> threshold,
   time_window_minutes |-> window, cooldown_minutes |-> cooldown, is_active |-> TRUE]

Event(project, status, response) ==
  [project |-> project, type |-> "API_REQUEST", status |-> status, response |-> response]

ErrorDetails == (e1 :> Event(p, 500, 3)) @@ (e2 :> Event(p, 500, 3))

\* A PUT of a rule that counts errors, and PATCHes that move it, or give it
\* another metric with a threshold that rates and averages may equal, one of
\* them without a cooldown.
OverlappingEdits ==
  {RuleWith("ERROR_COUNT", "GTE", 2, 1, 1), [project |-> q],
   [metric |-> "ERROR_RATE", threshold |-> 50],
   [metric |-> "AVG_RESPONSE_TIME", threshold |-> 3, cooldown_minutes |-> 0]}

EventSymmetry == Permutations({e1, e2})
RequestSymmetry == Permutations(Requests)
Symmetry == EventSymmetry \cup RequestSymmetry
=============================================================================
