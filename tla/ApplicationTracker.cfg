\* A command moves an approved application to SUBMITTED.
CONSTANTS
    Scans = {}
    Operators = {u1}
    Mails = {}
    Accounts = {a1}
    Targets = {"SUBMITTED"}
    Classes = {"REJECTION"}
    MaxTime = 1
    MaxEvents = 3
    Never = Never
SPECIFICATION Spec
INVARIANT SubmittedIsDated
CHECK_DEADLOCK FALSE
