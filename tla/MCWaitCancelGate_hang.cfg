\* Violation expected: a follower keeps the shard lock while it waits, the
\* failed leader never sends, and its remove() blocks on that lock.
CONSTANTS
    t1 = t1
    t2 = t2
    t3 = t3
    NoTask = NoTask
    Tasks <- MCTaskPair
SPECIFICATION Spec
PROPERTIES
    CallersReturn
CHECK_DEADLOCK FALSE
