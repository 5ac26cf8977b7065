\* One key the unit writes and the default one, two values, three sectors of three
\* nodes: a collection can wrap around and put a new node before the old one.  One
\* power loss is enough.
SPECIFICATION Spec
CONSTANTS
    Keys = {key, Author}
    Author = Author
    Values = {v1, v2, Rick}
    Rick = Rick
    NoVal = NoVal
    SECTOR_NUM = 3
    Cap = 3
    MaxLoss = 1
INVARIANT
    Readable
