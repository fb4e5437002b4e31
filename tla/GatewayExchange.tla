--------------------------- MODULE GatewayExchange ---------------------------
(***************************************************************************)
(* One exchange through the gateway after admission: body, infrastructure, *)
(* decoding, input policy, projection, upstream call, output policy        *)
(* (openai_exchange.go, openai_policy.go, openai_upstream_request.go, and  *)
(* the planners and LifecycleUseCase of gateway/application).              *)
(*                                                                         *)
(* What policy, the upstream and the bodies contain are inputs.  The       *)
(* frames of a streamed response are in StreamingOutput; here a stream is  *)
(* one step that ends in one of the ways handleStreaming can end.          *)
(***************************************************************************)
EXTENDS GatewayAdmission

CONSTANTS
    Decisions,          \* policy decisions, with whether the verdict failed
    UpstreamStatuses,   \* statuses the upstream answers with
    Outcomes            \* what bodies, codecs and the upstream may do

AllOutcomes == {"read_request_error", "request_too_large", "invalid_json",
              "missing_model_mapping", "redaction_failed", "invalid_request",
              "forward", "read", "upstream_response_too_large", "decode", "stream"}

ASSUME ExchangeAssumption ==
    /\ Decisions \subseteq Decision
    /\ UpstreamStatuses \subseteq 200..599
    /\ Outcomes \subseteq AllOutcomes

\* What crossed the gateway: nothing, the body as it came, redacted, or frames.
Passed == {"nothing", "raw", "redacted", "streamed"}

VARIABLES
    upstreamBody,   \* what each request sent upstream
    clientBody      \* what of the upstream's answer reached the client

bodies == <<upstreamBody, clientBody>>
vars == <<admissionVars, bodies>>

Init ==
    /\ AdmissionInit
    /\ upstreamBody = [r \in Requests |-> "nothing"]
    /\ clientBody = [r \in Requests |-> "nothing"]

shared == <<configVars, limitVars, audit, now>>

-----------------------------------------------------------------------------
(* Stages.  Each is the remainder of a handler up to its next early return *)
(* or blocking call.                                                       *)

Goto(r, pc) == req' = [req EXCEPT ![r].pc = pc]

\* The exchange ends with an error response; nothing else crosses.
End(r, direction, decision, termination, reason) ==
    /\ req' = [req EXCEPT ![r] = Refuse(@, direction, decision, termination, reason)]
    /\ UNCHANGED <<shared, bodies>>
EndInput(r, reason) == End(r, "input", BlockedDecision, reason, reason)
EndOutput(r, reason) == End(r, "output", BlockedDecision, reason, reason)

\* A protected route reads the body right after admission, an open one after
\* the infrastructure check.
readOpenAIRequestBody(r) ==
    /\ req[r].pc = "body"
    /\ \/ /\ Goto(r, IF routeProtected(ConfigOf(r), req[r].route)
                     THEN "infra" ELSE "decode")
          /\ UNCHANGED <<shared, bodies>>
       \/ \E reason \in {"read_request_error", "request_too_large"} \cap Outcomes :
             EndInput(r, reason)

\* PlanInfrastructure: the provider, then the audit gate a second time.
PlanInfrastructure(r) ==
    /\ req[r].pc = "infra"
    /\ CASE req[r].route \notin ConfigOf(r).upstream -> EndInput(r, "missing_provider")
         [] req[r].route \in ConfigOf(r).upstream /\ ~audit ->
               EndInput(r, "audit_sink_unhealthy")
         [] OTHER ->
               /\ Goto(r, IF routeProtected(ConfigOf(r), req[r].route)
                          THEN "decode" ELSE "body")
               /\ UNCHANGED <<shared, bodies>>

PlanDecodedRequest(r) ==
    /\ req[r].pc = "decode"
    /\ \/ Goto(r, "input") /\ UNCHANGED <<shared, bodies>>
       \/ \E reason \in {"invalid_json", "missing_model_mapping"} \cap Outcomes :
             EndInput(r, reason)

\* Evaluate: on a route in shadow mode the verdict provider runs in a goroutine
\* of its own and only policy decides.
Evaluated(x, d, shadow) ==
    [x EXCEPT !.decision = d, !.shadows = IF shadow THEN @ + 1 ELSE @]
InShadow(r) == req[r].route \in ConfigOf(r).shadow
DecisionsFor(r) == {d \in Decisions : InShadow(r) => ~d.failed}

\* The termination PlanRedaction gives a rejected redaction.
RedactionTermination == "redaction_failed"

\* applyOpenAIInputPolicy: PlanPolicy, redaction, PlanRedaction.
applyOpenAIInputPolicy(r) ==
    /\ req[r].pc = "input"
    /\ \E d \in DecisionsFor(r) :
          LET x == Evaluated(req[r], d, InShadow(r)) IN
          \/ /\ d.action = "block"
             /\ req' = [req EXCEPT ![r] = Refuse(x, "input", d, "", "blocked_input")]
             /\ UNCHANGED <<shared, bodies>>
          \/ /\ d.action = "redact" /\ "redaction_failed" \in Outcomes
             /\ req' = [req EXCEPT ![r] =
                    Refuse(x, "input", d, RedactionTermination, "redaction_failed")]
             /\ UNCHANGED <<shared, bodies>>
          \/ /\ d.action # "block"
             /\ req' = [req EXCEPT ![r] = [x EXCEPT !.pc = "project",
                    !.events = Append(@, Event(0, "input", d, ""))]]
             /\ UNCHANGED <<shared, bodies>>

projectOpenAIUpstreamRequest(r) ==
    /\ req[r].pc = "project"
    /\ \/ Goto(r, "forward") /\ UNCHANGED <<shared, bodies>>
       \/ "invalid_request" \in Outcomes /\ EndInput(r, "invalid_request")

\* Mutant: the redacted copy is not the one that is sent.
CrossingAsReceived(d) == "raw"

\* The body an action lets through.
Crossing(d) == IF d.action = "redact" THEN "redacted" ELSE "raw"

\* forwardOpenAIExchange: the call is made under upstreamTimeout; a stream with
\* an error status is refused here, other error statuses with the response.
forwardOpenAIExchange(r) ==
    /\ req[r].pc = "forward"
    /\ upstreamBody' = [upstreamBody EXCEPT ![r] = Crossing(req[r].decision)]
    /\ UNCHANGED <<shared, clientBody>>
    /\ \/ /\ "forward" \in Outcomes
          /\ req' = [req EXCEPT ![r] =
                 Refuse(@, "output", BlockedDecision, "upstream_error", "upstream_error")]
       \/ \E status \in UpstreamStatuses :
             req' = [req EXCEPT ![r].pc = "response", ![r].status = status]
       \/ \E status \in UpstreamStatuses :
             /\ "stream" \in Outcomes
             /\ req' = [req EXCEPT ![r] =
                   IF status >= 400
                   THEN Refuse(@, "output", BlockedDecision, "upstream_error", "upstream_error")
                   ELSE [@ EXCEPT !.pc = "stream", !.status = status]]

\* handleOpenAIResponse: the refusals that come before output policy.
ResponseRefused(r) ==
    /\ req[r].pc = "response"
    /\ \/ "read" \in Outcomes /\ EndOutput(r, "upstream_error")
       \/ "upstream_response_too_large" \in Outcomes
             /\ EndOutput(r, "upstream_response_too_large")
       \/ (req[r].status >= 400 \/ "decode" \in Outcomes) /\ EndOutput(r, "upstream_error")

handleOpenAIResponse(r) ==
    /\ req[r].pc = "response" /\ req[r].status < 400
    /\ \E d \in DecisionsFor(r) :
          LET x == Evaluated(req[r], d, InShadow(r)) IN
          \/ /\ d.action = "block"
             /\ req' = [req EXCEPT ![r] = Refuse(x, "output", d, "", "blocked_output")]
             /\ UNCHANGED <<shared, bodies>>
          \/ /\ d.action = "redact" /\ "redaction_failed" \in Outcomes
             /\ req' = [req EXCEPT ![r] =
                    Refuse(x, "output", d, RedactionTermination, "redaction_failed")]
             /\ UNCHANGED <<shared, bodies>>
          \/ /\ d.action # "block"
             /\ req' = [req EXCEPT ![r] = [x EXCEPT !.pc = "return",
                    !.answer = [status |-> req[r].status, code |-> ""],
                    !.events = Append(@, Event(0, "output", d, ""))]]
             /\ clientBody' = [clientBody EXCEPT ![r] = Crossing(d)]
             /\ UNCHANGED <<shared, upstreamBody>>

\* The ways handleStreaming ends, with the decision it reports.  A complete
\* stream, and one whose client went away, is evaluated once more as a whole;
\* by then every frame has been written.
StreamEnds(r) ==
    ({"", "client_write_error"} \X DecisionsFor(r))
    \cup {<<"unsupported_redaction", [action |-> "redact", failed |-> FALSE]>>}
    \cup ((StreamReasons \ {"client_write_error"}) \X {BlockedDecision})

handleStreaming(r) ==
    /\ req[r].pc = "stream"
    /\ \E end \in StreamEnds(r) :
          LET x == IF end[1] \in {"", "client_write_error"}
                   THEN Evaluated(req[r], end[2], InShadow(r)) ELSE req[r]
          IN  req' = [req EXCEPT ![r] = [x EXCEPT !.pc = "return",
                  !.answer = [status |-> req[r].status,
                              code |-> IF end[1] = "client_write_error" THEN "" ELSE end[1]],
                  !.events = Append(@, Event(req[r].status, "output", end[2], end[1]))]]
    /\ clientBody' = [clientBody EXCEPT ![r] = "streamed"]
    /\ UNCHANGED <<shared, upstreamBody>>

\* ObserveShadowEvaluation: a background verdict is done, possibly long after
\* the handler, and is recorded whatever the handler did.
ObserveShadowEvaluation(r) ==
    /\ req[r].shadows > 0
    /\ \E d \in Decisions :
          req' = [req EXCEPT ![r].shadows = @ - 1,
              ![r].events = Append(@, Event(0, "shadow", d, "async_shadow_verdict"))]
    /\ UNCHANGED <<shared, bodies>>

ExchangeStep(r) ==
    \/ readOpenAIRequestBody(r) \/ PlanInfrastructure(r) \/ PlanDecodedRequest(r)
    \/ applyOpenAIInputPolicy(r) \/ projectOpenAIUpstreamRequest(r)
    \/ forwardOpenAIExchange(r) \/ ResponseRefused(r) \/ handleOpenAIResponse(r)
    \/ handleStreaming(r)

HandlerStep(r) == (AdmissionStep(r) /\ UNCHANGED bodies) \/ ExchangeStep(r)

Next ==
    \/ Environment /\ UNCHANGED bodies
    \/ \E r \in Requests : HandlerStep(r) \/ ObserveShadowEvaluation(r)

Spec == Init /\ [][Next]_vars

\* A handler that runs is scheduled, and every call it waits for is bounded by
\* upstreamTimeout or verdictTimeout.
FairSpec == Spec /\ \A r \in Requests :
    WF_vars(req[r].pc # "idle" /\ HandlerStep(r)) /\ WF_vars(ObserveShadowEvaluation(r))

-----------------------------------------------------------------------------
(* Properties.                                                             *)

\* Type invariant.
TypeOK ==
    /\ AdmissionTypeOK
    /\ upstreamBody \in [Requests -> Passed]
    /\ clientBody \in [Requests -> Passed]
    /\ \A r \in Requests : req[r].shadows <= 2

Live(e) == e.direction # "shadow"

\* The last event of the handler itself, background verdicts left aside.
IsLastLive(events, i) ==
    /\ i \in DOMAIN events /\ Live(events[i])
    /\ \A j \in DOMAIN events : j > i => ~ Live(events[j])

\* The last event of a handler tells what the client received, on whatever path
\* and although the two come from separate tables: the same error
\* (event_emission.go:19, traffic_event.go:22), and the same status
\* (event_emission.go:85, lifecycle_errors.go:9) but for a failed redaction,
\* which is answered 502 and recorded 200, and for a buffered response that
\* passes, which is recorded 200 whatever success the upstream reported.
RecordedStatus(answer, body) ==
    IF answer.code = "redaction_failed" \/ body \in {"raw", "redacted"}
    THEN 200 ELSE answer.status

AnswerRecorded ==
    \A r \in Requests :
        LET h == req[r] IN
        h.answer.code # "" \/ h.pc = "done" =>
            \E i \in DOMAIN h.events :
                /\ IsLastLive(h.events, i)
                /\ h.answer.code # "" => h.events[i].error = h.answer.code
                /\ h.pc = "done" =>
                      h.events[i].status = RecordedStatus(h.answer, clientBody[r])

\* A buffered body crosses only after an event was emitted with a decision which
\* lets it cross, and crosses unredacted only if that decision is not redact
\* (openai_policy.go:13 and 65).  Whether the pipeline took the event is another
\* matter: emit ignores what Enqueue answers.
Permits(e, direction, body) ==
    /\ e.direction = direction /\ e.action # "block"
    /\ body = "raw" => e.action # "redact"

CrossingIsRecorded ==
    \A r \in Requests :
        /\ upstreamBody[r] # "nothing" =>
              \E i \in 1..Len(req[r].events) :
                  Permits(req[r].events[i], "input", upstreamBody[r])
        /\ clientBody[r] \in {"raw", "redacted"} =>
              \E i \in 1..Len(req[r].events) :
                  Permits(req[r].events[i], "output", clientBody[r])

\* Every reservation is given back, whichever way the exchange ends
\* (exchange_workflow.go:28, openai_exchange.go:15).
ReservationReleased ==
    \A r \in Requests : holds[r] # {} ~> holds[r] = {}
=============================================================================
