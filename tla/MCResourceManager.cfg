SPECIFICATION FairSpec
CONSTANTS
  A = A
  B = B
  Pools = {A, B}
  Ids <- MixedIds
  Alternatives <- MixedAlternatives
  Capacity <- MixedCapacity
  CapacityAt <- Shifts
  MaxTime = 2
  MaxSeq = 4
INVARIANTS UsedIsWhatIsHeld EntriesMatchRequests NoLostWakeup
PROPERTIES EarliestStartsFirst GrantsWithinCapacityNow ImplementsAllocation EveryRequestIsServed
CHECK_DEADLOCK FALSE
