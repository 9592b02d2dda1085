CONSTANTS
    Kinds = {webcam, screen}
    Root = root
    QueueCap = 1
    MaxChunks = 2
    MaxLoads = 2
SPECIFICATION FairSpec
INVARIANTS ListedIsPlayable PlaysItsOwnFootage NothingForgotten
PROPERTIES ChunksGetStored
