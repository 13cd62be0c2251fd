\* Two workers, a poison event ahead of an accepted request that is flagged.
CONSTANTS
  Workers = {w1, w2}
  Nobody = Nobody
  Events = {1, 2, 3, 4}
  Payload <- MCPayload
  Batches <- AcceptedBatches
  Poison = {1}
  MaxAttempts = 2
  BatchSize = 2
  Faults = 1
SPECIFICATION FairSpec
INVARIANTS TypeOK AnnouncedOnce AttemptsBounded
PROPERTIES ImplementsAnnouncements EventsSettle Delivered StopsWhenTold
