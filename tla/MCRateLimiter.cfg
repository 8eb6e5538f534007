SPECIFICATION Spec
CONSTANTS
  Keys <- SomeKeys
  Overflows <- SomeOverflows
  Instance = "instance"
  Capacity <- SomeCapacity
  Interval <- SomeInterval
  Pipelines <- SomePipelines
  MaxBuckets = 3
  Slots = {s1, s2}
  MaxLag = 1
  MaxSweeps = 2
  Horizon = 3
SYMMETRY SlotSymmetry
INVARIANTS
  BucketsBounded
  WithinBudget
CHECK_DEADLOCK FALSE
