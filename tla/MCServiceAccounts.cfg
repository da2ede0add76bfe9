\* One account, a request handler and a sweep worker, a fault of
\* any kind, fair scheduling.
CONSTANTS
    Accounts = {a1}
    Users = {u1}
    Handlers = {h1}
    Sweepers = {s1}
    PerCreator = 1
    PerGateway = 1
    MaxFaults = 1
    None = None
SPECIFICATION FairSpec
INVARIANTS NoAccessAfterClosure RoleCeiling DeliveredIsCommitted ReadyIsUsable
PROPERTIES NeverReenabled RecoveryCompletes
CHECK_DEADLOCK FALSE
