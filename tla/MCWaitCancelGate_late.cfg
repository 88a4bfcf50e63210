\* Violation expected: a follower that subscribes after the leader's send
\* holds the shard lock forever and the leader's remove() blocks on it.
CONSTANTS
    t1 = t1
    t2 = t2
    t3 = t3
    NoTask = NoTask
    Tasks <- MCTaskPair
SPECIFICATION Spec
PROPERTIES
    SentOutcomeReleasesAll
CHECK_DEADLOCK FALSE
