SPECIFICATION Spec
CONSTANTS
    MarketTypes <- MCBoth
    Streams <- MCPerpOnly
    MaxAttempt = 2
    MaxFaults = 2
    MaxCalls = 1
INVARIANTS WsTypeOK CurrentSocketOnly RoutableMessages SubscriptionsAgree AttemptsCountFailures
PROPERTY HeartbeatBlamesItsSocket
CHECK_DEADLOCK FALSE
