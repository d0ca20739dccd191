\* Two nodes, one descriptor used by two connections one after the other.
CONSTANTS
    Fds = {5}
    Nodes = {"n1", "n2"}
    Requests <- RequestSet
    NodeOf <- KeyNode
    MaxConns = 2
    MaxRequests = 3
    MaxFailures = 1
SPECIFICATION ProxySpec
INVARIANTS
    RepliesInOrder
    NothingStuck
    
CHECK_DEADLOCK FALSE
