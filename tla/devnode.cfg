SPECIFICATION LiveSpec
CONSTANT MaxStarts = 3
INVARIANT TrackedWhileAlive
INVARIANT RestoreOffline
PROPERTY StopMeansStopped
PROPERTY StartReturnsOwnChild
PROPERTY CallsSettle
