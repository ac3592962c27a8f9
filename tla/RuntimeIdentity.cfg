SPECIFICATION Spec
CONSTANTS
    Threads = {t1, t2, d}
    Callers = {t1, t2}
    Daemon = d
    Operations = {"otel.shutdown_deadline", "logging.handler_remove", "otel.shutdown", "process.logging_handler_lock", "otel.metric_record"}
    Counters = {"shutdown.timeout", "logs.dropped.queue_full"}
    Metered = {"logs.dropped.queue_full"}
    MetricRecord = "otel.metric_record"
    Interval = 1
    MaxTime = 0
    MaxProcesses = 2
    MaxHandlers = 1
    MaxRoutines = 2
    MaxRestarts = 1
    None = None
    NoIdentity = None
INVARIANT OneProcessPerIdentity
CHECK_DEADLOCK FALSE
