SPECIFICATION FairSpec
CONSTANTS
    Callers = {p1, p2}
    Events = {e1}
    Refs = {r1}
    Channels = {"email", "webhook"}
    Faults = 1
    None = None
PROPERTIES
    WebhookDelivered
CHECK_DEADLOCK FALSE
