SPECIFICATION MCSpec
CONSTANTS
    Conns = {c1, c2}
    maxConnections = 1
    Replays = TRUE
    Evictions = FALSE
    Checks = {"redis", "snapshot"}
    Probes = {p1}
    Threshold = 2
INVARIANTS GatewayExact  
 
