SPECIFICATION FairCheckSpec
CONSTANT
  Pipelines <- AllPipelines
INVARIANTS
  AcceptedIsBalanced
  SmallestFrequencies
  RejectedIsUnbalanced
PROPERTY CheckEnds
