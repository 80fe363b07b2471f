\* a client that is not closed and serves a request that calls; b need not be
\* answered
CONSTANTS
    a = a  b = b  n = n  note = note  ask = ask  tell = tell
    k = k  l = l
    NoCaller = NoCaller
    Capacity = 1
    Callers = {b, n, note}
    Notifiers = {note}
    Cancellable = {b}
    Refusable = {n}
    Unanswered = {b}
    Requests = {ask}
    Silent = {}
    Nested <- MCNested
    Closers = {}
SPECIFICATION FairClientSpec
PROPERTIES
    CallsReturn
    RequestsAnswered
CHECK_DEADLOCK FALSE
