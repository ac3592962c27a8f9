----------------------------- MODULE Configuration -----------------------------
(***************************************************************************)
(* The settings of policyengine_observability/config.py: their validation, *)
(* the part read from the environment, and what the runtime, the queues    *)
(* and the OpenTelemetry SDK are given in the end (runtime.py, delivery.py,*)
(* otel.py).                                                               *)
(*                                                                         *)
(* A value is a record with its type and what the code asks of it.  An int *)
(* has its value; a float is finite or not and has its value in millionths,*)
(* a time being in seconds; a string is blank or not, or a word.           *)
(***************************************************************************)
EXTENDS Integers, Sequences

CONSTANT FloatLimit     \* the first integer that is too large for a float

Million == 1000000

Blank == [type |-> "str", word |-> ""]
Word(w) == [type |-> "str", word |-> w]
Integer(n) == [type |-> "int", value |-> n]
Decimal(n) == [type |-> "float", finite |-> TRUE, value |-> n]

Ints == [type : {"int"}, value : Int]
Finite == [type : {"float"}, finite : {TRUE}, value : Int]
NotFinite == [type |-> "float", finite |-> FALSE]
Texts == [type : {"str"}, word : STRING]
\* bool is a subclass of int, but validation takes it for neither.
Booleans == [type : {"bool"}, value : {0, 1}]
Others == [type : {"NoneType", "other"}]
Values == Ints \cup Finite \cup {NotFinite} \cup Texts \cup Booleans \cup Others

\* A number in millionths.
Amount(v) == IF v.type = "float" THEN v.value ELSE v.value * Million
-------------------------------------------------------------------------------
(* Validation *)

Between(n, range) == range[1] <= n /\ n <= range[2]

\* The negations of _integer_error, _number_error and _choice_error.  Of an integer
\* that is too large for a float _number_error raises, which accepts it no more.
IntegerOK(v, range) == v \in Ints /\ Between(v.value, range)
NumberOK(v, range) ==
    v \in Ints \cup Finite /\ Between(Amount(v), range)
ChoiceOK(v, choices) == v.type = "str" /\ v.word \in choices
TextOK(v) == v.type = "str" /\ v # Blank

\* Numbers in millionths.
OTelNumbers ==
    [sampling_ratio |-> <<0, Million>>,
     span_schedule_delay_seconds |-> <<1000, 60 * Million>>,
     metric_export_interval_seconds |-> <<Million, 3600 * Million>>,
     shutdown_timeout_seconds |-> <<0, 60 * Million>>]
OTelIntegers ==
    [span_queue_capacity |-> <<1, 100000>>, span_batch_size |-> <<1, 10000>>]
ExporterTimeout == <<100000, 60 * Million>>
LimitIntegers == {"max_string_length", "max_error_message_length", "max_stack_length"}
QueueIntegers == [queue_capacity |-> <<1, 100000>>, batch_size |-> <<1, 10000>>]
Protocols == {"grpc", "http/protobuf"}

IdentityErrors(identity) == {f \in DOMAIN identity : ~TextOK(identity[f])}

\* _attribute_key_errors; sensitive values are checked alike.  NoSet stands for
\* a value that is not of the required collection type.
NoSet == [type |-> "other"]
KeysOK(keys) == keys # NoSet /\ \A k \in keys : TextOK(k)

\* What the properties of a destination are, or that one of them raised; "own"
\* are the messages of its own diagnostics.
DestinationErrors(d) ==
    IF d.raises THEN {"strategy"}
    ELSE {f \in DOMAIN QueueIntegers : ~IntegerOK(d[f], QueueIntegers[f])}
         \cup {f \in {"delivery"} : ~ChoiceOK(d.delivery, {"inline", "queued"})}
         \cup d.own

NoExporter == [endpoint |-> [type |-> "NoneType"]]
ExporterErrors(e) ==
    IF e = NoExporter THEN {}
    ELSE {f \in {"endpoint"} : ~TextOK(e.endpoint)}
         \cup {f \in {"protocol"} : ~ChoiceOK(e.protocol, Protocols)}
         \cup {f \in {"endpoint_mode"} : ~ChoiceOK(e.endpoint_mode, {"base", "signal"})}
         \cup {f \in {"timeout_seconds"} : ~NumberOK(e.timeout_seconds, ExporterTimeout)}

OTelErrors(o) ==
    {f \in {"provider_mode"} : ~ChoiceOK(o.provider_mode, {"owned", "external"})}
    \cup {f \in DOMAIN OTelNumbers : ~NumberOK(o[f], OTelNumbers[f])}
    \cup {f \in DOMAIN OTelIntegers : ~IntegerOK(o[f], OTelIntegers[f])}
    \cup {<<"traces", f>> : f \in ExporterErrors(o.traces)}
    \cup {<<"metrics", f>> : f \in ExporterErrors(o.metrics)}

LimitErrors(l) ==
    {f \in LimitIntegers : ~IntegerOK(l[f], <<1, 1000000>>)}
    \cup {f \in {"async_parent_max_age_seconds"} : ~NumberOK(l[f], <<0, 86400 * Million>>)}

\* validation_errors; a configuration is used when there are none.
Accepted(c) ==
    /\ IdentityErrors(c.identity) = {}
    /\ KeysOK(c.sensitive_values)
    /\ \A keys \in c.attribute_keys : KeysOK(keys)
    /\ ChoiceOK(c.platform, {"google_cloud_run", "modal", "local", "other"})
    /\ c.logging.minimum_severity \in Ints
    /\ NumberOK(c.logging.shutdown_timeout_seconds, <<0, 60 * Million>>)
    /\ \A d \in c.logging.destinations : DestinationErrors(d) = {}
    /\ OTelErrors(c.otel) = {}
    /\ LimitErrors(c.limits) = {}
-------------------------------------------------------------------------------
(* The environment *)

\* A variable is unset or holds a text, of which the parsers tell apart whether
\* it is empty, blank, an integer or another number, or a certain word.
Unset == [type |-> "unset"]
Empty == [type |-> "empty"]
EnvTexts == Texts \cup {Unset, Empty}
EnvValues == EnvTexts \cup Ints \cup Finite \cup {NotFinite}
Rejected == [type |-> "rejected"]

\* _env_float, with the value of a time scaled from milliseconds.
EnvNumber(v, default, range, scale) ==
    IF v = Unset THEN Decimal(default)
    ELSE IF v \in Ints \cup Finite /\ Between(Amount(v), <<range[1] * scale, range[2] * scale>>)
         THEN Decimal(Amount(v) \div scale) ELSE Rejected

EnvInteger(v, default, range) ==
    IF v = Unset THEN Integer(default)
    ELSE IF IntegerOK(v, range) THEN v ELSE Rejected

\* _protocol, _provider_mode, _export_enabled and _env_bool: a word is what strip
\* leaves of a text, and lower, except for a protocol.
EnvChoice(v, default, choices) ==
    IF v = Unset THEN Word(default)
    ELSE IF ChoiceOK(v, choices) THEN v ELSE Rejected

\* The words of _env_bool.
Switches == {"1", "true", "yes", "on", "0", "false", "no", "off"}

\* "a or b" of two texts that may be unset.
Given(v) == v \notin {Unset, Empty}
Or(a, b) == IF Given(a) THEN a ELSE b

\* _parse_headers: what the items of a text between commas are.
HeadersOK(headers) ==
    headers # Unset => \A i \in DOMAIN headers.items : headers.items[i] \in {"blank", "pair"}

\* _exporter_from_env, for the variables of one signal and the common ones.
ExporterFromEnv(signal, common) ==
    LET enabled == EnvChoice(signal.exporter, "otlp", {"otlp", "none"})
        endpoint == Or(signal.endpoint, common.endpoint)
        protocol == EnvChoice(IF signal.protocol # Unset THEN signal.protocol
                              ELSE common.protocol, "grpc", Protocols)
        headers == IF signal.headers # Unset THEN signal.headers ELSE common.headers
        timeout == EnvNumber(Or(signal.timeout, common.timeout), 5 * Million,
                             ExporterTimeout, 1000)
    IN  IF enabled = Word("otlp") /\ Given(endpoint)
        THEN IF protocol = Rejected \/ ~HeadersOK(headers) \/ timeout = Rejected
             THEN Rejected
             ELSE [endpoint |-> endpoint, protocol |-> protocol,
                   endpoint_mode |-> Word(IF Given(signal.endpoint) THEN "signal" ELSE "base"),
                   timeout_seconds |-> timeout]
        ELSE IF enabled = Rejected THEN Rejected ELSE NoExporter

\* from_env: the settings of OpenTelemetry before anything is rejected.
OTelFromEnv(env) ==
    [enabled |-> EnvChoice(env.sdk_disabled, "false", Switches),
     traces |-> ExporterFromEnv(env.traces, env.common),
     metrics |-> ExporterFromEnv(env.metrics, env.common),
     common_protocol |-> EnvChoice(env.common.protocol, "grpc", Protocols),
     provider_mode |-> EnvChoice(env.provider_mode, "owned", {"owned", "external"}),
     sampling_ratio |-> EnvNumber(env.sampler_arg, Million, OTelNumbers.sampling_ratio, 1),
     span_queue_capacity |->
         EnvInteger(env.queue_size, 2048, OTelIntegers.span_queue_capacity),
     span_batch_size |-> EnvInteger(env.batch_size, 512, OTelIntegers.span_batch_size),
     span_schedule_delay_seconds |->
         EnvNumber(env.schedule_delay, 5 * Million,
                   OTelNumbers.span_schedule_delay_seconds, 1000),
     metric_export_interval_seconds |->
         EnvNumber(env.export_interval, 60 * Million,
                   OTelNumbers.metric_export_interval_seconds, 1000),
     shutdown_timeout_seconds |-> Decimal(3 * Million)]

\* None of the helpers raised.
Parsed(o) == \A f \in DOMAIN o : o[f] # Rejected
-------------------------------------------------------------------------------
(* What the settings come to *)

AtLeast(low, n) == IF n < low THEN low ELSE n
AtMost(high, n) == IF n > high THEN high ELSE n

\* The queue of a destination and its batches.
QueueCapacity(d) == AtLeast(1, AtMost(100000, d.queue_capacity.value))
QueueBatch(d) == AtLeast(1, AtMost(10000, d.batch_size.value))

\* The arguments of the sampler, the span processor and the metric reader.
SamplerRatio(o) == AtMost(Million, AtLeast(0, Amount(o.sampling_ratio)))
SpanQueue(o) == AtLeast(1, o.span_queue_capacity.value)
SpanBatch(o) == AtMost(AtLeast(1, o.span_queue_capacity.value),
                       AtLeast(1, o.span_batch_size.value))
ScheduleDelay(o) == AtLeast(1000, Amount(o.span_schedule_delay_seconds))
ExportInterval(o) == AtLeast(Million, Amount(o.metric_export_interval_seconds))
RequestTimeout(e) == AtLeast(100000, AtMost(60 * Million, Amount(e.timeout_seconds)))

\* float raises OverflowError, which nobody catches.
TooLarge(v) == v \in Ints /\ (v.value >= FloatLimit \/ v.value <= -FloatLimit)
Raised == "OverflowError"

\* _bounded_shutdown_timeout; a text is here one that float does not take.
ShutdownTimeout(v, default) ==
    IF TooLarge(v) THEN Raised
    ELSE IF v \in Ints \cup Finite \cup Booleans
    THEN AtMost(60 * Million, AtLeast(0, Amount(v))) ELSE default
===============================================================================
