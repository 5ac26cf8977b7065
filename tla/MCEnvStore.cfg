\* One key the unit writes and the default one, two values, two sectors of five
\* nodes: with a node of each key and one torn by each power loss a sector still
\* has room, so the store is roomy throughout, and with one spare sector every
\* collection needs it.  The second power loss may hit the recovery from the first.
SPECIFICATION FairSpec
CONSTANTS
    Keys = {key, Author}
    Author = Author
    Values = {v1, v2, Rick}
    Rick = Rick
    NoVal = NoVal
    SECTOR_NUM = 2
    Cap = 5
    MaxLoss = 2
INVARIANTS
    TypeOK
    WholeNodes
    ReadsBack
    SpareSector
    RoomToWrite
PROPERTIES
    AtomicSet
    BootEnds
