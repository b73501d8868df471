SPECIFICATION FairSpec
CONSTANTS
  one = one
  again = again
  two = two
  p1 = p1
  p2 = p2
  NoPublisher = NoPublisher
  NoEvent = NoEvent
  Events <- MCEvents
  KeyOf <- MCKeyOf
  Rank <- MCRank
  Delay <- MCDelay
  Publishers <- MCPublishers
  LeaseSeconds = 2
  Limit = 2
  MaxFaults = 3
INVARIANTS
  PublishedWasDelivered
  ExclusiveWithinLease
PROPERTIES
  EveryRowPublished
