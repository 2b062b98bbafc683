\* Batches of two, so that the channel holds four; seven messages overfill
\* the channel behind a slow insert of a full batch, with room for restarts.
CONSTANTS
    BatchSize = 2
    MaxPublished = 7
SPECIFICATION FairSpec
INVARIANTS
    TypeOK
    StoredOnce
    NothingForgotten
    CleanExitStored
PROPERTIES
    ImplementsSink
    EventuallyStored
