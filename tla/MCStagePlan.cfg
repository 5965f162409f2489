CONSTANT N = 4
SPECIFICATION Spec
CHECK_DEADLOCK FALSE
INVARIANTS PlanIsSound LoopsComputeThePlan
