\* A run of up to three candidates, read one at a time.
SPECIFICATION PollSpec
CONSTANTS
    PageLimit = 1
    MaxEvents = 3
INVARIANT PollComplete
CHECK_DEADLOCK FALSE
