\* With a password, a stream that returns less than it was asked.
CONSTANTS
    MaxSize = 7
    Block = 2
    ChunkSize = 3
    Passwords = {"set"}
    ShortReads = {"set"}
    Capacities = {7}
SPECIFICATION Spec
INVARIANTS
    NothingInClear
