SPECIFICATION FairSpec
CONSTANTS
    Alerts = {a}
    Messages <- Timestamps
    Environment = {}
    MaxRestarts = 0
PROPERTIES
    AllClearIsPosted
CHECK_DEADLOCK FALSE
