\* Denied and other flows, plain and hijacked, one worker, a queue of one, from start to exit.
CONSTANTS
    d1 = d1  d2 = d2  a1 = a1  a2 = a2  w1 = w1  w2 = w2
    Main = Main
    Flows = {d1, d2, a1, a2}
    Denied = {d1, d2}
    Hijacked = {d1, a1}
    Workers = {w1}
    Closers = {Main}
    Capacity = 1
    NoFlow = NoFlow
    NoCloser = NoCloser
SPECIFICATION DaemonSpec
INVARIANTS
    NoSendOnClosed
    AccountedOnce
    DropsReported
    SinksOutlive
    PlainRecordsKept
PROPERTIES
    ImplementsFlowSink
    SubmitterReturns
    ShutdownCompletes
    AcceptedSettles
CHECK_DEADLOCK FALSE
