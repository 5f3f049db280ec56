SPECIFICATION Spec
CHECK_DEADLOCK FALSE
CONSTANTS
    Invoices = {i1}
    Slots = {s1}
    Handlers = {h1}
    NoInvoice = NoInvoice
    NoLog = NoLog
    MaxAttempts = 3
    JobAttempts = 2
    MaxRequests = 1
    MaxRows = 4
    MaxStalls = 1
    MaxFaults = 1
PROPERTIES
    CancelledIsFinal
