SPECIFICATION FairSpec
CONSTANT Req = {q1, q2}
INVARIANTS FailClosed HeldPromptIsTimed
PROPERTIES OneDecision PromptsSettle
CHECK_DEADLOCK FALSE
