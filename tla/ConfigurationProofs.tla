-------------------------- MODULE ConfigurationProofs --------------------------
(***************************************************************************)
(* Theorems about Configuration: a setting that was accepted is one that   *)
(* the components can work with and is used as it is, and what the         *)
(* environment gives is accepted.                                          *)
(***************************************************************************)
EXTENDS Configuration, TLAPS

EnvExporters ==
    [exporter : EnvTexts, endpoint : EnvTexts, protocol : EnvTexts,
     headers : {Unset} \cup [items : Seq(STRING)], timeout : EnvValues]
Environments ==
    [sdk_disabled : EnvTexts, traces : EnvExporters, metrics : EnvExporters,
     common : EnvExporters, provider_mode : EnvTexts, sampler_arg : EnvValues,
     queue_size : EnvValues, batch_size : EnvValues, schedule_delay : EnvValues,
     export_interval : EnvValues]

\* What Amount makes of a number.
LEMMA AmountFacts ==
    ASSUME NEW v \in Ints \cup Finite
    PROVE  Amount(v) \in Int /\ v.type \in {"int", "float"}
  <1>1. CASE v \in Ints
    <2>1. v.type = "int" /\ v.value \in Int
      BY <1>1 DEF Ints
    <2> QED
      BY <2>1, SMT DEF Amount, Million
  <1>2. CASE v \in Finite
    <2>1. v.type = "float" /\ v.value \in Int
      BY <1>2 DEF Finite
    <2> QED
      BY <2>1, SMT DEF Amount
  <1> QED
    BY <1>1, <1>2

\* What passes a test of range is a number in that range.
LEMMA NumberFacts ==
    ASSUME NEW v, NEW low \in Int, NEW high \in Int, NumberOK(v, <<low, high>>)
    PROVE  v \in Ints \cup Finite /\ Amount(v) \in Int /\ low <= Amount(v) /\ Amount(v) <= high
  BY AmountFacts, SMT DEF NumberOK, Between

LEMMA IntegerFacts ==
    ASSUME NEW v, NEW low \in Int, NEW high \in Int, IntegerOK(v, <<low, high>>)
    PROVE  v.value \in Int /\ low <= v.value /\ v.value <= high
  BY DEF IntegerOK, Between, Ints

LEMMA DecimalFacts ==
    ASSUME NEW n \in Int
    PROVE  Decimal(n) \in Finite /\ Amount(Decimal(n)) = n
  BY DEF Decimal, Finite, Amount

LEMMA EnvNumberFacts ==
    ASSUME NEW v, NEW default \in Int, NEW low \in Int, NEW high \in Int,
           low <= default, default <= high, NEW scale \in {1, 1000},
           EnvNumber(v, default, <<low, high>>, scale) # Rejected
    PROVE  NumberOK(EnvNumber(v, default, <<low, high>>, scale), <<low, high>>)
  <1> DEFINE n == EnvNumber(v, default, <<low, high>>, scale)
  <1>1. CASE v = Unset
    BY <1>1, DecimalFacts, SMT DEF EnvNumber, NumberOK, Between
  <1>2. CASE v # Unset
    <2>1. /\ v \in Ints \cup Finite /\ Between(Amount(v), <<low * scale, high * scale>>)
          /\ n = Decimal(Amount(v) \div scale)
      BY <1>2 DEF EnvNumber
    <2>2. Amount(v) \in Int /\ low * scale <= Amount(v) /\ Amount(v) <= high * scale
      BY <2>1, AmountFacts, SMT DEF Between
    <2>3. /\ Amount(v) \div scale \in Int
          /\ low <= Amount(v) \div scale /\ Amount(v) \div scale <= high
      <3>1. CASE scale = 1
        BY <2>2, <3>1
      <3>2. CASE scale = 1000
        BY <2>2, <3>2
      <3> QED
        BY <3>1, <3>2
    <2> QED
      BY <2>1, <2>3, DecimalFacts, SMT DEF NumberOK, Between
  <1> QED
    BY <1>1, <1>2

LEMMA EnvIntegerFacts ==
    ASSUME NEW v, NEW default \in Int, NEW low \in Int, NEW high \in Int,
           low <= default, default <= high,
           EnvInteger(v, default, <<low, high>>) # Rejected
    PROVE  IntegerOK(EnvInteger(v, default, <<low, high>>), <<low, high>>)
  BY DEF EnvInteger, IntegerOK, Integer, Ints, Between

LEMMA EnvChoiceFacts ==
    ASSUME NEW v, NEW choices, NEW default \in choices,
           EnvChoice(v, default, choices) # Rejected
    PROVE  ChoiceOK(EnvChoice(v, default, choices), choices)
  BY DEF EnvChoice, ChoiceOK, Word

\* The ranges of the settings are those of times, ratios and counts.
LEMMA RangeFacts ==
    /\ OTelNumbers.sampling_ratio = <<0, 1000000>>
    /\ OTelNumbers.span_schedule_delay_seconds = <<1000, 60000000>>
    /\ OTelNumbers.metric_export_interval_seconds = <<1000000, 3600000000>>
    /\ OTelNumbers.shutdown_timeout_seconds = <<0, 60000000>>
    /\ DOMAIN OTelNumbers = {"sampling_ratio", "span_schedule_delay_seconds",
                             "metric_export_interval_seconds", "shutdown_timeout_seconds"}
    /\ OTelIntegers.span_queue_capacity = <<1, 100000>>
    /\ OTelIntegers.span_batch_size = <<1, 10000>>
    /\ DOMAIN OTelIntegers = {"span_queue_capacity", "span_batch_size"}
    /\ ExporterTimeout = <<100000, 60000000>>
    /\ QueueIntegers.queue_capacity = <<1, 100000>>
    /\ QueueIntegers.batch_size = <<1, 10000>>
    /\ DOMAIN QueueIntegers = {"queue_capacity", "batch_size"}
  BY SMT DEF OTelNumbers, OTelIntegers, ExporterTimeout, QueueIntegers, Million
-------------------------------------------------------------------------------
(* The environment *)

LEMMA ExporterFacts ==
    ASSUME NEW signal \in EnvExporters, NEW common \in EnvExporters,
           ExporterFromEnv(signal, common) # Rejected,
           ExporterFromEnv(signal, common).endpoint # Blank
    PROVE  ExporterErrors(ExporterFromEnv(signal, common)) = {}
  <1> DEFINE e == ExporterFromEnv(signal, common)
             text == IF signal.protocol # Unset THEN signal.protocol ELSE common.protocol
             protocol == EnvChoice(text, "grpc", Protocols)
             time == Or(signal.timeout, common.timeout)
             timeout == EnvNumber(time, 5 * Million, ExporterTimeout, 1000)
             endpoint == Or(signal.endpoint, common.endpoint)
             mode == Word(IF Given(signal.endpoint) THEN "signal" ELSE "base")
  <1>1. CASE e = NoExporter
    BY <1>1 DEF ExporterErrors
  <1>2. CASE e # NoExporter
    <2>1. /\ Given(endpoint) /\ protocol # Rejected /\ timeout # Rejected
          /\ e = [endpoint |-> endpoint, protocol |-> protocol,
                  endpoint_mode |-> mode, timeout_seconds |-> timeout]
      BY <1>2 DEF ExporterFromEnv
    <2>2. endpoint \in Texts
      BY <2>1 DEF Or, Given, EnvExporters, EnvTexts
    <2>3. TextOK(e.endpoint)
      BY <2>1, <2>2 DEF TextOK, Texts
    <2>4. ChoiceOK(protocol, Protocols)
      <3>1. "grpc" \in Protocols
        BY DEF Protocols
      <3> HIDE DEF text
      <3>2. EnvChoice(text, "grpc", Protocols) # Rejected
        BY <2>1
      <3> QED
        BY <3>1, <3>2, EnvChoiceFacts
    <2>5. ChoiceOK(mode, {"base", "signal"})
      <3>1. ChoiceOK(Word("base"), {"base", "signal"}) /\ ChoiceOK(Word("signal"), {"base", "signal"})
        BY DEF ChoiceOK, Word
      <3>2. mode = Word("signal") \/ mode = Word("base")
        BY Zenon
      <3> HIDE DEF mode
      <3> QED
        BY <3>1, <3>2
    <2>6. NumberOK(timeout, ExporterTimeout)
      <3>1. ExporterTimeout = <<100000, 60000000>> /\ 5 * Million = 5000000
        BY RangeFacts, SMT DEF Million
      <3>2. timeout = EnvNumber(time, 5000000, <<100000, 60000000>>, 1000)
        BY <3>1, SMT
      <3> HIDE DEF timeout, time
      <3>3. EnvNumber(time, 5000000, <<100000, 60000000>>, 1000) # Rejected
        BY <2>1, <3>2, SMT
      <3>4. NumberOK(EnvNumber(time, 5000000, <<100000, 60000000>>, 1000), <<100000, 60000000>>)
        BY <3>3, EnvNumberFacts, SMT
      <3> QED
        BY <3>1, <3>2, <3>4, SMT
    <2> HIDE DEF endpoint, protocol, mode, timeout
    <2>7. /\ e.endpoint = endpoint /\ e.protocol = protocol
          /\ e.endpoint_mode = mode /\ e.timeout_seconds = timeout
      BY <2>1
    <2> HIDE DEF e
    <2>8. /\ {f \in {"endpoint"} : ~TextOK(e.endpoint)} = {}
          /\ {f \in {"protocol"} : ~ChoiceOK(e.protocol, Protocols)} = {}
          /\ {f \in {"endpoint_mode"} : ~ChoiceOK(e.endpoint_mode, {"base", "signal"})} = {}
          /\ {f \in {"timeout_seconds"} : ~NumberOK(e.timeout_seconds, ExporterTimeout)} = {}
      BY <2>3, <2>4, <2>5, <2>6, <2>7
    <2>9. ExporterErrors(e) = {}
      BY <2>8 DEF ExporterErrors
    <2> QED
      BY <2>9 DEF e
  <1> QED
    BY <1>1, <1>2

\* What from_env makes of the environment passes validation, unless an endpoint
\* is blank; a text that the parsers refuse has been refused before.
THEOREM EnvironmentIsAccepted ==
    ASSUME NEW env \in Environments, Parsed(OTelFromEnv(env)),
           OTelFromEnv(env).traces.endpoint # Blank,
           OTelFromEnv(env).metrics.endpoint # Blank
    PROVE  OTelErrors(OTelFromEnv(env)) = {}
  <1> DEFINE o == OTelFromEnv(env)
  <1>1. /\ env.traces \in EnvExporters /\ env.metrics \in EnvExporters
        /\ env.common \in EnvExporters
    BY DEF Environments
  <1>2. /\ o.traces = ExporterFromEnv(env.traces, env.common)
        /\ o.metrics = ExporterFromEnv(env.metrics, env.common)
        /\ o.provider_mode = EnvChoice(env.provider_mode, "owned", {"owned", "external"})
        /\ o.sampling_ratio =
              EnvNumber(env.sampler_arg, Million, OTelNumbers.sampling_ratio, 1)
        /\ o.span_queue_capacity =
              EnvInteger(env.queue_size, 2048, OTelIntegers.span_queue_capacity)
        /\ o.span_batch_size = EnvInteger(env.batch_size, 512, OTelIntegers.span_batch_size)
        /\ o.span_schedule_delay_seconds =
              EnvNumber(env.schedule_delay, 5 * Million,
                        OTelNumbers.span_schedule_delay_seconds, 1000)
        /\ o.metric_export_interval_seconds =
              EnvNumber(env.export_interval, 60 * Million,
                        OTelNumbers.metric_export_interval_seconds, 1000)
        /\ o.shutdown_timeout_seconds = Decimal(3 * Million)
    BY SMT DEF OTelFromEnv
  <1>3. /\ o.traces # Rejected /\ o.metrics # Rejected /\ o.provider_mode # Rejected
        /\ o.sampling_ratio # Rejected /\ o.span_queue_capacity # Rejected
        /\ o.span_batch_size # Rejected /\ o.span_schedule_delay_seconds # Rejected
        /\ o.metric_export_interval_seconds # Rejected
    <2>1. \A f \in {"traces", "metrics", "provider_mode", "sampling_ratio",
                    "span_queue_capacity", "span_batch_size",
                    "span_schedule_delay_seconds", "metric_export_interval_seconds"} :
             f \in DOMAIN o
      BY SMT DEF OTelFromEnv
    <2> HIDE DEF o
    <2>2. Parsed(o)
      BY DEF o
    <2> QED
      BY <2>1, <2>2, SMT DEF Parsed
  <1>4. o.traces.endpoint # Blank /\ o.metrics.endpoint # Blank
    OBVIOUS
  <1> HIDE DEF o
  <1>5. ExporterErrors(o.traces) = {} /\ ExporterErrors(o.metrics) = {}
    BY <1>1, <1>2, <1>3, <1>4, ExporterFacts
  <1>6. ChoiceOK(o.provider_mode, {"owned", "external"})
    BY <1>2, <1>3, EnvChoiceFacts
  <1>7. /\ IntegerOK(o.span_queue_capacity, <<1, 100000>>)
        /\ IntegerOK(o.span_batch_size, <<1, 10000>>)
    BY <1>2, <1>3, RangeFacts, EnvIntegerFacts, SMT
  <1>8. /\ NumberOK(o.sampling_ratio, <<0, 1000000>>)
        /\ NumberOK(o.span_schedule_delay_seconds, <<1000, 60000000>>)
        /\ NumberOK(o.metric_export_interval_seconds, <<1000000, 3600000000>>)
        /\ NumberOK(o.shutdown_timeout_seconds, <<0, 60000000>>)
    <2>1. /\ Million = 1000000 /\ 5 * Million = 5000000
          /\ 60 * Million = 60000000 /\ 3 * Million = 3000000
      BY SMT DEF Million
    <2>2. NumberOK(o.sampling_ratio, <<0, 1000000>>)
      BY <1>2, <1>3, <2>1, RangeFacts, EnvNumberFacts, SMT
    <2>3. NumberOK(o.span_schedule_delay_seconds, <<1000, 60000000>>)
      BY <1>2, <1>3, <2>1, RangeFacts, EnvNumberFacts, SMT
    <2>4. NumberOK(o.metric_export_interval_seconds, <<1000000, 3600000000>>)
      BY <1>2, <1>3, <2>1, RangeFacts, EnvNumberFacts, SMT, SMTT(60)
    <2>5. NumberOK(o.shutdown_timeout_seconds, <<0, 60000000>>)
      BY <1>2, <2>1, DecimalFacts, SMT DEF NumberOK, Between
    <2> QED
      BY <2>2, <2>3, <2>4, <2>5
  <1>9. {f \in DOMAIN OTelNumbers : ~NumberOK(o[f], OTelNumbers[f])} = {}
    BY <1>8, RangeFacts, SMT
  <1>10. {f \in DOMAIN OTelIntegers : ~IntegerOK(o[f], OTelIntegers[f])} = {}
    BY <1>7, RangeFacts, SMT
  <1>11. /\ {f \in {"provider_mode"} : ~ChoiceOK(o.provider_mode, {"owned", "external"})} = {}
         /\ {<<"traces", f>> : f \in ExporterErrors(o.traces)} = {}
         /\ {<<"metrics", f>> : f \in ExporterErrors(o.metrics)} = {}
    BY <1>5, <1>6
  <1>12. OTelErrors(o) = {}
    BY <1>9, <1>10, <1>11 DEF OTelErrors
  <1> QED
    BY <1>12 DEF o
-------------------------------------------------------------------------------
(* What the settings come to *)

\* The SDK refuses a span batch that is larger than its queue, or empty: with
\* whatever integers, it is never given one.
THEOREM SpanBatchFits ==
    ASSUME NEW o, o.span_queue_capacity \in Ints, o.span_batch_size \in Ints
    PROVE  1 <= SpanBatch(o) /\ SpanBatch(o) <= SpanQueue(o)
  <1>1. o.span_queue_capacity.value \in Int /\ o.span_batch_size.value \in Int
    BY DEF Ints
  <1> QED
    BY <1>1 DEF SpanBatch, SpanQueue, AtMost, AtLeast

\* shutdown waits for at most a minute, and never a negative time, whatever the
\* settings hold, except an integer that is too large for a float: with that one it
\* raises instead.
THEOREM ShutdownIsBounded ==
    ASSUME NEW v \in Values,
           NEW default \in Int, 0 <= default, default <= 60 * Million
    PROVE  IF TooLarge(v) THEN ShutdownTimeout(v, default) = Raised
           ELSE /\ 0 <= ShutdownTimeout(v, default)
                /\ ShutdownTimeout(v, default) <= 60 * Million
  <1> SUFFICES ASSUME ~TooLarge(v)
               PROVE  /\ 0 <= ShutdownTimeout(v, default)
                      /\ ShutdownTimeout(v, default) <= 60 * Million
    BY DEF ShutdownTimeout
  <1>1. CASE v \in Ints \cup Finite \cup Booleans
    <2>1. Amount(v) \in Int
      <3>1. CASE v \in Ints \cup Finite
        BY <3>1, AmountFacts
      <3>2. CASE v \in Booleans
        <4>1. v.type = "bool" /\ v.value \in {0, 1}
          BY <3>2 DEF Booleans
        <4> QED
          BY <4>1, SMT DEF Amount, Million
      <3> QED
        BY <1>1, <3>1, <3>2
    <2>2. 60 * Million = 60000000
      BY SMT DEF Million
    <2> QED
      BY <1>1, <2>1, <2>2, SMT DEF ShutdownTimeout, AtMost, AtLeast
  <1>2. CASE v \notin Ints \cup Finite \cup Booleans
    BY <1>2, SMT DEF ShutdownTimeout
  <1> QED
    BY <1>1, <1>2

\* A destination that was accepted gets a queue and batches of the sizes it asks
\* for, and they are those that QueuedWriter assumes.
THEOREM QueuesAsAccepted ==
    ASSUME NEW c, Accepted(c), NEW d \in c.logging.destinations
    PROVE  /\ QueueCapacity(d) = d.queue_capacity.value
           /\ QueueBatch(d) = d.batch_size.value
           /\ QueueCapacity(d) \in Nat \ {0} /\ QueueBatch(d) \in Nat \ {0}
  <1>1. DestinationErrors(d) = {}
    BY DEF Accepted
  <1>2. {f \in DOMAIN QueueIntegers : ~IntegerOK(d[f], QueueIntegers[f])} = {}
    <2>1. ~d.raises
      BY <1>1 DEF DestinationErrors
    <2> QED
      BY <1>1, <2>1 DEF DestinationErrors
  <1>3. IntegerOK(d.queue_capacity, <<1, 100000>>) /\ IntegerOK(d.batch_size, <<1, 10000>>)
    BY <1>2, RangeFacts, SMT
  <1>4. /\ d.queue_capacity.value \in Int
        /\ 1 <= d.queue_capacity.value /\ d.queue_capacity.value <= 100000
        /\ d.batch_size.value \in Int
        /\ 1 <= d.batch_size.value /\ d.batch_size.value <= 10000
    BY <1>3, IntegerFacts, SMT
  <1> QED
    BY <1>4, SMT DEF QueueCapacity, QueueBatch, AtMost, AtLeast

\* The OpenTelemetry settings that were accepted are used as they are: the
\* limits of otel.py and of shutdown change none of them, except a span batch
\* that is larger than the queue, and no shutdown raises for them.
THEOREM OTelAsAccepted ==
    ASSUME NEW c, Accepted(c), NEW default, FloatLimit \in Int, 60 < FloatLimit
    PROVE  /\ SamplerRatio(c.otel) = Amount(c.otel.sampling_ratio)
           /\ SpanQueue(c.otel) = c.otel.span_queue_capacity.value
           /\ SpanBatch(c.otel) = AtMost(SpanQueue(c.otel), c.otel.span_batch_size.value)
           /\ ScheduleDelay(c.otel) = Amount(c.otel.span_schedule_delay_seconds)
           /\ ExportInterval(c.otel) = Amount(c.otel.metric_export_interval_seconds)
           /\ \A e \in {c.otel.traces, c.otel.metrics} :
                 e # NoExporter => RequestTimeout(e) = Amount(e.timeout_seconds)
           /\ \A v \in {c.logging.shutdown_timeout_seconds, c.otel.shutdown_timeout_seconds} :
                 ShutdownTimeout(v, default) = Amount(v)
  <1> DEFINE o == c.otel
  <1>1. OTelErrors(o) = {} /\ NumberOK(c.logging.shutdown_timeout_seconds, <<0, 60 * Million>>)
    BY DEF Accepted
  <1> HIDE DEF o
  <1>2. /\ {f \in DOMAIN OTelNumbers : ~NumberOK(o[f], OTelNumbers[f])} = {}
        /\ {f \in DOMAIN OTelIntegers : ~IntegerOK(o[f], OTelIntegers[f])} = {}
        /\ {<<"traces", f>> : f \in ExporterErrors(o.traces)} = {}
        /\ {<<"metrics", f>> : f \in ExporterErrors(o.metrics)} = {}
    BY <1>1 DEF OTelErrors
  <1>3. /\ NumberOK(o.sampling_ratio, <<0, 1000000>>)
        /\ NumberOK(o.span_schedule_delay_seconds, <<1000, 60000000>>)
        /\ NumberOK(o.metric_export_interval_seconds, <<1000000, 3600000000>>)
        /\ NumberOK(o.shutdown_timeout_seconds, <<0, 60000000>>)
        /\ IntegerOK(o.span_queue_capacity, <<1, 100000>>)
        /\ IntegerOK(o.span_batch_size, <<1, 10000>>)
    BY <1>2, RangeFacts, SMT
  <1>4. Million = 1000000 /\ 60 * Million = 60000000
    BY SMT DEF Million
  <1>5. SamplerRatio(o) = Amount(o.sampling_ratio)
    <2>1. /\ Amount(o.sampling_ratio) \in Int
          /\ 0 <= Amount(o.sampling_ratio) /\ Amount(o.sampling_ratio) <= 1000000
      BY <1>3, NumberFacts, SMT, SMTT(60)
    <2> QED
      BY <1>4, <2>1, SMT DEF SamplerRatio, AtMost, AtLeast
  <1>6. /\ o.span_queue_capacity.value \in Int /\ 1 <= o.span_queue_capacity.value
        /\ o.span_batch_size.value \in Int /\ 1 <= o.span_batch_size.value
    BY <1>3, IntegerFacts, SMT, SMTT(60)
  <1>7. /\ SpanQueue(o) = o.span_queue_capacity.value
        /\ SpanBatch(o) = AtMost(SpanQueue(o), o.span_batch_size.value)
    BY <1>6, SMT DEF SpanQueue, SpanBatch, AtMost, AtLeast
  <1>8. ScheduleDelay(o) = Amount(o.span_schedule_delay_seconds)
    <2>1. /\ Amount(o.span_schedule_delay_seconds) \in Int
          /\ 1000 <= Amount(o.span_schedule_delay_seconds)
      <3>1. NumberOK(o.span_schedule_delay_seconds, <<1000, 60000000>>)
        BY <1>3
      <3> QED
        BY <3>1, NumberFacts, SMT, SMTT(60)
    <2> QED
      BY <2>1, SMT DEF ScheduleDelay, AtLeast
  <1>9. ExportInterval(o) = Amount(o.metric_export_interval_seconds)
    <2>1. /\ Amount(o.metric_export_interval_seconds) \in Int
          /\ 1000000 <= Amount(o.metric_export_interval_seconds)
      <3>1. NumberOK(o.metric_export_interval_seconds, <<1000000, 3600000000>>)
        BY <1>3
      <3> QED
        BY <3>1, NumberFacts, SMT
    <2> QED
      BY <1>4, <2>1, SMT DEF ExportInterval, AtLeast
  <1>10. ASSUME NEW e \in {o.traces, o.metrics}, e # NoExporter
         PROVE  RequestTimeout(e) = Amount(e.timeout_seconds)
    <2>1. ExporterErrors(e) = {}
      BY <1>2, <1>10
    <2>2. {f \in {"timeout_seconds"} : ~NumberOK(e.timeout_seconds, ExporterTimeout)} = {}
      BY <2>1, <1>10 DEF ExporterErrors
    <2>3. NumberOK(e.timeout_seconds, <<100000, 60000000>>)
      BY <2>2, RangeFacts, SMT
    <2>4. /\ Amount(e.timeout_seconds) \in Int /\ 100000 <= Amount(e.timeout_seconds)
          /\ Amount(e.timeout_seconds) <= 60000000
      BY <2>3, NumberFacts, SMT
    <2> QED
      BY <1>4, <2>4, SMT DEF RequestTimeout, AtMost, AtLeast
  <1>11. ASSUME NEW v, NumberOK(v, <<0, 60000000>>)
         PROVE  ShutdownTimeout(v, default) = Amount(v)
    <2>1. /\ v \in Ints \cup Finite /\ Amount(v) \in Int
          /\ 0 <= Amount(v) /\ Amount(v) <= 60000000
      BY <1>11, NumberFacts, SMT
    <2>2. ~TooLarge(v)
      <3>1. CASE v \in Ints
        <4>1. v.type = "int" /\ v.value \in Int
          BY <3>1 DEF Ints
        <4>2. Amount(v) = v.value * 1000000
          BY <4>1, SMT DEF Amount, Million
        <4>3. 0 <= v.value /\ v.value <= 60
          BY <2>1, <4>1, <4>2
        <4> QED
          BY <4>1, <4>3, SMT DEF TooLarge
      <3> QED
        BY <3>1 DEF TooLarge
    <2> QED
      BY <1>4, <2>1, <2>2, SMT DEF ShutdownTimeout, AtMost, AtLeast
  <1>12. \A v \in {c.logging.shutdown_timeout_seconds, o.shutdown_timeout_seconds} :
            ShutdownTimeout(v, default) = Amount(v)
    BY <1>1, <1>3, <1>4, <1>11, SMT
  <1> QED
    BY <1>5, <1>7, <1>8, <1>9, <1>10, <1>12 DEF o
===============================================================================
