---------------------------- MODULE ServiceTelemetry ----------------------------
(***************************************************************************)
(* packages/operations/serviceTelemetry.ts: admission of requests and of   *)
(* event streams, and the counters.  The outcomes recordRequest tells      *)
(* apart are one counter; latencies, peaks and readiness are left out.     *)
(***************************************************************************)
EXTENDS Naturals

CONSTANTS MaximumConcurrentRequests, MaximumConcurrentSseStreams

ASSUME TelemetryAssumption ==
  {MaximumConcurrentRequests, MaximumConcurrentSseStreams} \subseteq Nat

Metrics ==
  [requestsTotal : Nat, recorded : Nat, overloadRejections : Nat,
   currentRequests : Nat, currentSseStreams : Nat]

NewTelemetry ==
  [requestsTotal |-> 0, recorded |-> 0, overloadRejections |-> 0,
   currentRequests |-> 0, currentSseStreams |-> 0]

AdmitsRequest(m) == m.currentRequests < MaximumConcurrentRequests
AdmitsSse(m) == m.currentSseStreams < MaximumConcurrentSseStreams

EnterRequest(m) == [m EXCEPT !.currentRequests = @ + 1]
EnterSse(m) == [m EXCEPT !.currentSseStreams = @ + 1]

\* A refusal of either kind is counted as a request.
Overload(m) == [m EXCEPT !.overloadRejections = @ + 1, !.requestsTotal = @ + 1]

ReleaseRequest(m) ==
  [m EXCEPT !.currentRequests = IF @ > 0 THEN @ - 1 ELSE 0]
ReleaseSse(m) ==
  [m EXCEPT !.currentSseStreams = IF @ > 0 THEN @ - 1 ELSE 0]

RecordRequest(m) == [m EXCEPT !.requestsTotal = @ + 1, !.recorded = @ + 1]

=============================================================================
