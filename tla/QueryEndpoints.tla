--------------------------- MODULE QueryEndpoints ---------------------------
(***************************************************************************)
(* The endpoints of the query API, over REST and gRPC: what a request is   *)
(* answered, or which failure it is answered with, and what the HTTP       *)
(* metrics count.  A request comes with what the stores hold for it:       *)
(*   [route, id, params, devices, shadows, telemetry, refreshes,           *)
(*    dbUp, redisUp, production]                                           *)
(* params are as the schema takes them.  A handler returns a value or      *)
(* throws an exception.                                                    *)
(***************************************************************************)
EXTENDS QueryApi

CONSTANTS
    Now,            \* the time of the request
    Fallback        \* 'Internal server error'

Returns(v) == [value |-> v]
Throws(e) == [exception |-> e]
Succeeds(outcome) == DOMAIN outcome = {"value"}

HttpException(status, message, errors) ==
    [http |-> TRUE, status |-> status, message |-> message, errors |-> errors]
PlainError == [http |-> FALSE, message |-> Rejected]

-----------------------------------------------------------------------------
(* The services, the stores failing or not.                                *)

DeviceList(q) ==
    IF ~q.dbUp \/ (~q.redisUp /\ DOMAIN q.devices # {}) THEN Throws(PlainError)
    ELSE Returns(listDevices(q.devices, q.shadows, Now))

OneDevice(q) ==
    LET device == findOne(q.id, q.devices, q.shadows, Now) IN
    IF ~q.dbUp THEN Throws(PlainError)
    ELSE IF device = NotFound THEN Throws(HttpException(404, NotFound, {}))
    ELSE IF ~q.redisUp THEN Throws(PlainError)
    ELSE Returns(device)

\* A device need not be registered for its series to be asked for.
Series(q, params) ==
    IF ~q.dbUp THEN Throws(PlainError)
    ELSE Returns(querySeries(q.telemetry, q.refreshes, params, Now))

-----------------------------------------------------------------------------
(* REST.                                                                   *)

\* ZodValidationPipe: the query of the handler, or a BadRequestException.
transform(params) ==
    IF Issues(params) = {} THEN Returns(Parse(params))
    ELSE Throws(HttpException(400, Absent, Issues(params)))

DevicesController(q) ==
    CASE q.route = "devices" -> DeviceList(q)
      [] q.route = "device"  -> OneDevice(q)
      [] q.route = "series"  ->
            LET piped == transform(q.params) IN
            IF Succeeds(piped) THEN Series(q, piped.value) ELSE piped

\* HttpExceptionFilter.
catch(e, production) ==
    IF e.http
    THEN [status |-> e.status, errors |-> e.errors,
          message |-> IF e.errors # {} THEN "Validation failed" ELSE e.message]
    ELSE [status |-> 500, errors |-> {},
          message |-> IF production THEN Fallback ELSE e.message]

\* HttpMetricsInterceptor: NestJS has set the status of success when the handler
\* starts, and the filter sets another after finalize has counted.
intercept == [requestsTotal |-> 200]

Rest(q) ==
    LET outcome == DevicesController(q) IN
    [counted |-> intercept.requestsTotal,
     answer  |-> IF Succeeds(outcome) THEN [status |-> 200, body |-> outcome.value]
                 ELSE catch(outcome.exception, q.production)]

-----------------------------------------------------------------------------
(* gRPC: the filter is not installed there, every exception is one error.  *)

\* Variant: the fields of a request are passed on as they are.
AsTheyAre(request) == request

\* request.field || undefined, of the fields that may be left out.
GrpcParams(request) ==
    [f \in DOMAIN request |->
        IF f # "metric" /\ request[f] = Empty THEN Absent ELSE request[f]]

toGrpcDevice(device) ==
    [device EXCEPT !.last = IF @ = Absent THEN Empty ELSE @]

toGrpcPoint(point) ==
    IF "value" \in DOMAIN point
    THEN [time |-> point.time, min |-> point.value, max |-> point.value]
    ELSE [time |-> point.time, min |-> point.min, max |-> point.max]

Convert(q, v) ==
    CASE q.route = "devices" -> [i \in DOMAIN v |-> toGrpcDevice(v[i])]
      [] q.route = "device"  -> toGrpcDevice(v)
      [] q.route = "series"  ->
            [v EXCEPT !.points = [i \in DOMAIN v.points |-> toGrpcPoint(v.points[i])]]

DevicesGrpcController(q) ==
    CASE q.route = "devices" -> DeviceList(q)
      [] q.route = "device"  -> OneDevice(q)
      [] q.route = "series"  ->
            LET params == GrpcParams(q.params) IN
            IF Issues(params) = {} THEN Series(q, Parse(params)) ELSE Throws(PlainError)

Grpc(q) ==
    LET outcome == DevicesGrpcController(q) IN
    IF Succeeds(outcome) THEN Convert(q, outcome.value) ELSE Rejected

=============================================================================
