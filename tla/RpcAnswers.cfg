CONSTANTS
    Thread = {t1, t2}
    Root = {r1, r2}
    Opencl = FALSE
    MaxRequests = 3
    MaxCancels = 1
    k1 = k1
SPECIFICATION RpcSpec
INVARIANT RespondsOnce
CHECK_DEADLOCK FALSE
