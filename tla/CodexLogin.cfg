SPECIFICATION LoginSpec
CONSTANTS Attempts = {a1, a2}
PROPERTY GivingUpEndsOnlyItself
CHECK_DEADLOCK FALSE
