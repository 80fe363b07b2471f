\* two goroutines close the client while it calls and serves
CONSTANTS
    a = a  b = b  n = n  note = note  ask = ask  tell = tell
    k = k  l = l
    NoCaller = NoCaller
    Capacity = 1
    Callers = {a, b}
    Notifiers = {}
    Cancellable = {b}
    Refusable = {b}
    Unanswered = {}
    Requests = {ask, tell}
    Silent = {tell}
    Nested <- NoneNested
    Closers = {k, l}
SPECIFICATION ClientSpec
INVARIANTS
    OneSender
    RegistrationExact
    OwnAnswer
    ServersSpared
CHECK_DEADLOCK FALSE
