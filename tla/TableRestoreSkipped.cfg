SPECIFICATION Spec
CONSTANT
  Plans <- OnePlan
INVARIANTS
  NothingSkipped
