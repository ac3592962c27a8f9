SPECIFICATION FairSpec
CONSTANTS
    Threads = {t1, t2}
    Exporters = {"spans"}
    Operations = {"otel.span_export", "otel.span_flush", "otel.span_exporter_shutdown", "otel.metric_record"}
    Counters = {"spans.export_failure"}
    Metered = {"spans.export_failure"}
    MetricRecord = "otel.metric_record"
    Interval = 2
    MaxTime = 2
    MaxExports = 2
    MaxOthers = 1
    None = None
INVARIANTS
    CountsExact
    LinesRationed
    OneDelegate
    FailuresCounted
PROPERTY CallsReturn
CHECK_DEADLOCK FALSE
