--------------------------- MODULE GatewayReasons ---------------------------
(***************************************************************************)
(* Why the gateway ends an exchange, and the two accounts it gives of it:  *)
(* the HTTP error the client receives and the traffic event the audit      *)
(* pipeline records.  The code derives them in separate tables             *)
(* (lifecycle_errors.go and request_admission.go for the client,           *)
(* event_emission.go and traffic_event.go for the event).                  *)
(***************************************************************************)
EXTENDS Integers

PolicyActions == {"allow", "block", "redact", "shadow_log"}

AuthReasons == {"missing_client_key", "invalid_client_key",
                "disabled_client_key", "revoked_client_key"}
LimitReasons == {"missing_limit_policy", "rate_limit_exceeded",
                 "concurrency_limit_exceeded"}

\* Ends of a stream that the gateway, not the upstream, decides.
StreamReasons == {"stream_blocked", "unsupported_redaction",
                  "stream_output_too_large", "sse_parse_error",
                  "upstream_timeout", "client_write_error"}

Reasons == AuthReasons \cup LimitReasons \cup StreamReasons \cup
    {"unsupported_path", "audit_sink_unhealthy", "read_request_error",
     "request_too_large", "missing_provider", "invalid_json",
     "missing_model_mapping", "blocked_input", "blocked_output",
     "redaction_failed", "invalid_request", "upstream_error",
     "upstream_response_too_large"}

-----------------------------------------------------------------------------
(* The client's account.                                                   *)

\* The error code in the response.
ErrorCode(reason) ==
    CASE reason = "read_request_error" -> "invalid_request"
      [] reason = "missing_provider"   -> "missing_route"
      [] OTHER                         -> reason

\* writeProtectedRouteError and writeLifecycleError.
ErrorStatus(reason) ==
    CASE reason \in {"missing_client_key", "invalid_client_key"} -> 401
      [] reason \in {"disabled_client_key", "revoked_client_key",
                     "missing_limit_policy", "blocked_input",
                     "blocked_output"} -> 403
      [] reason \in {"unsupported_path", "missing_model_mapping"} -> 404
      [] reason = "request_too_large" -> 413
      [] reason \in {"rate_limit_exceeded", "concurrency_limit_exceeded"} -> 429
      [] reason \in {"missing_provider", "redaction_failed", "upstream_error",
                     "upstream_response_too_large"} -> 502
      [] reason = "audit_sink_unhealthy" -> 503
      [] OTHER -> 400

-----------------------------------------------------------------------------
(* The event's account.  termination is the reason emit is called with, or *)
(* "" when the policy decision alone ended or passed the traffic.          *)

TerminationStatus(termination, action) ==
    CASE termination \in {"missing_client_key", "invalid_client_key"} -> 401
      [] termination \in {"disabled_client_key", "revoked_client_key",
                          "missing_limit_policy", "unsupported_redaction"} -> 403
      [] termination \in {"rate_limit_exceeded", "concurrency_limit_exceeded"} -> 429
      [] termination \in {"invalid_json", "invalid_request",
                          "read_request_error"} -> 400
      [] termination = "request_too_large" -> 413
      [] termination \in {"unsupported_path", "missing_model_mapping"} -> 404
      [] termination = "audit_sink_unhealthy" -> 503
      [] termination \in {"missing_provider", "upstream_error",
                          "upstream_response_too_large"} -> 502
      [] OTHER -> IF action = "block" THEN 403 ELSE 200

\* An observed status goes first.
\* (Mutant: it does not.)
StatusNotObserved(observed, termination, action) ==
    TerminationStatus(termination, action)
trafficEventGatewayStatus(observed, termination, action) ==
    IF observed # 0 THEN observed ELSE TerminationStatus(termination, action)

trafficBlockReason(direction, action, termination) ==
    CASE termination \in {"unsupported_redaction", "stream_blocked"}
                         \cup AuthReasons \cup LimitReasons -> termination
      [] termination = "" /\ action = "block" ->
            IF direction = "input" THEN "blocked_input" ELSE "blocked_output"
      [] OTHER -> ""

trafficErrorType(direction, action, termination, verdictFailed) ==
    IF termination \notin {"", "async_shadow_verdict"}
    THEN CASE termination = "read_request_error" -> "invalid_request"
           [] termination = "missing_provider" -> "missing_route"
           [] OTHER -> termination
    ELSE IF trafficBlockReason(direction, action, termination) # ""
    THEN trafficBlockReason(direction, action, termination)
    ELSE IF verdictFailed THEN "verdict_error" ELSE ""

TrafficEvent ==
    [direction : {"input", "output", "shadow"}, status : Nat,
     error : {"", "missing_route", "verdict_error"} \cup Reasons,
     action : PolicyActions]

\* emit: the fields of a traffic event that tell outcomes apart.
Event(observed, direction, decision, termination) ==
    [direction |-> direction,
     status |-> trafficEventGatewayStatus(observed, termination, decision.action),
     error  |-> trafficErrorType(direction, decision.action, termination,
                                 decision.failed),
     action |-> decision.action]

\* A policy decision, and whether the verdict provider failed.
Decision == [action : PolicyActions, failed : BOOLEAN]

\* blockedDecisionResult: the decision recorded where policy was not asked.
BlockedDecision == [action |-> "block", failed |-> FALSE]
=============================================================================
