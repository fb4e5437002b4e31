-------------------------- MODULE StreamingOutput --------------------------
(***************************************************************************)
(* Output policy on a streamed response (streaming_handler.go, sse.go,     *)
(* application/streaming_output.go and stream_buffer.go).                  *)
(*                                                                         *)
(* The handler reads one frame at a time.  The text of the frame is added  *)
(* to a sliding window of runes, on which local policy is evaluated, and   *)
(* to a collector of bounded size.  One frame is held back: it is written  *)
(* when the next one has passed.  The whole text is evaluated at the end.  *)
(*                                                                         *)
(* Text is a sequence of runes.  Policy acts on the text that contains     *)
(* Secret with SecretAction, only logs the text that contains Noted, and   *)
(* allows any other.                                                       *)
(***************************************************************************)
EXTENDS Integers, Sequences, FiniteSets

CONSTANTS
    Rune,           \* what text is made of
    Deltas,         \* the texts a frame may carry, <<>> among them
    Secret, Noted,  \* the texts policy looks for
    SecretAction,   \* what it does about Secret
    WindowLimit,    \* runes in the detection window
    CollectLimit,   \* runes the collector keeps (maxBodyBytes)
    MaxFrames       \* bound: frames of a stream

ASSUME StreamAssumption ==
    /\ Deltas \subseteq Seq(Rune) /\ <<>> \in Deltas
    /\ Secret \in Seq(Rune) /\ Len(Secret) > 0
    /\ Noted \in Seq(Rune) /\ Len(Noted) > 0
    /\ SecretAction \in {"block", "redact"}
    /\ WindowLimit \in Nat /\ CollectLimit \in Nat /\ MaxFrames \in Nat

VARIABLES
    pc,             \* "read", "final" after the loop, or "done"
    window,         \* StreamWindow.text
    collected,      \* StreamTextCollector.buf
    pending,        \* the frame held back, as a sequence of at most one
    written,        \* the frames the client received
    action,         \* outputDecision.decision.Action
    termination,    \* meta.termination
    partial,        \* meta.partialOutput
    chunks,         \* meta.streamChunks
    recorded        \* the action in the traffic event; "" until it is emitted

vars == <<pc, window, collected, pending, written, action, termination,
          partial, chunks, recorded>>

Frame == [text : Deltas, done : BOOLEAN]

Init ==
    /\ pc = "read"
    /\ window = <<>> /\ collected = <<>> /\ pending = <<>> /\ written = <<>>
    /\ action = "allow"
    /\ termination = "" /\ partial = FALSE
    /\ chunks = 0
    /\ recorded = ""

-----------------------------------------------------------------------------
Contains(text, pattern) ==
    \E i \in 0..(Len(text) - Len(pattern)) :
        SubSeq(text, i + 1, i + Len(pattern)) = pattern

\* The policy decision on a text, highest priority first.
Decide(text) ==
    CASE Contains(text, Secret) -> SecretAction
      [] ~Contains(text, Secret) /\ Contains(text, Noted) -> "shadow_log"
      [] OTHER -> "allow"

\* Mutant: the window keeps its oldest runes.
WindowAppendHead(w, text) ==
    LET all == w \o text IN IF Len(all) > WindowLimit THEN SubSeq(all, 1, WindowLimit) ELSE all

\* StreamWindow.Append: the newest WindowLimit runes.
WindowAppend(w, text) ==
    LET all == w \o text
    IN  IF Len(all) > WindowLimit
        THEN SubSeq(all, Len(all) - WindowLimit + 1, Len(all)) ELSE all

\* Mutant: the limit is tested before the text is counted.
AcceptsWhileBelow(text) == CollectLimit > 0 /\ Len(collected) < CollectLimit

\* StreamTextCollector.Append: all of the text or none of it.
Accepts(text) == CollectLimit > 0 /\ Len(collected) + Len(text) <= CollectLimit

\* ObserveDelta and the evaluation of the window.
Observe(text) ==
    /\ window' = WindowAppend(window, text)
    /\ collected' = IF Accepts(text) THEN collected \o text ELSE collected

\* Mutant: a full collector does not end the stream.
DeltaTerminationOfPolicy(decided, accepted) ==
    CASE decided = "block"  -> "stream_blocked"
      [] decided = "redact" -> "unsupported_redaction"
      [] OTHER -> ""

\* ClassifyStreamingPolicy, then ClassifyStreamingCollection.
DeltaTermination(decided, accepted) ==
    CASE decided = "block"  -> "stream_blocked"
      [] decided = "redact" -> "unsupported_redaction"
      [] OTHER -> IF accepted THEN "" ELSE "stream_output_too_large"

\* The loop is left with a termination; the frame held back is not written.
Terminate(reason, decided) ==
    /\ termination' = reason
    /\ partial' = TRUE
    /\ action' = decided
    /\ pc' = "final"
    /\ UNCHANGED <<pending, written, recorded>>

-----------------------------------------------------------------------------
(* One round of the loop in handleStreaming.                               *)

\* parser.Next fails, or the upstream context expires.
ReadFails(reason) ==
    /\ pc = "read"
    /\ Terminate(reason, "block")
    /\ UNCHANGED <<window, collected, chunks>>

\* parseOpenAIStreamDelta fails.
ParseFails ==
    /\ pc = "read" /\ chunks < MaxFrames
    /\ chunks' = chunks + 1
    /\ Terminate("sse_parse_error", "block")
    /\ UNCHANGED <<window, collected>>

\* The delta does not pass policy or does not fit the collector.
DeltaRefused(text) ==
    /\ pc = "read" /\ chunks < MaxFrames
    /\ text # <<>>
    /\ chunks' = chunks + 1
    /\ Observe(text)
    /\ LET decided == Decide(window')
           reason == DeltaTermination(decided, Accepts(text))
       IN  /\ reason # ""
           /\ Terminate(reason, IF Accepts(text) THEN decided ELSE "block")

\* A write to the client fails; ok is what the writes that did succeed leave.
WriteFails(ok) ==
    /\ written' = ok
    /\ termination' = "client_write_error"
    /\ partial' = TRUE
    /\ pc' = "final"

\* PlanFrame: the held frame is written, the new one held, and the last one
\* written at once.
FramePassed(f) ==
    \/ /\ ~f.done
       /\ written' = written \o pending /\ pending' = <<f>>
       /\ UNCHANGED <<pc, termination, partial>>
    \/ /\ f.done
       /\ written' = written \o pending \o <<f>> /\ pending' = <<>>
       /\ pc' = "final"
       /\ UNCHANGED <<termination, partial>>
    \/ pending # <<>> /\ WriteFails(written) /\ UNCHANGED pending
    \/ f.done /\ WriteFails(written \o pending) /\ pending' = <<f>>

\* A frame passes the checks, or has no text to check.
NextFrame(f) ==
    /\ pc = "read" /\ chunks < MaxFrames
    /\ chunks' = chunks + 1
    /\ f.done => f.text = <<>>
    /\ IF f.text = <<>>
       THEN UNCHANGED <<window, collected, action>>
       ELSE /\ Observe(f.text)
            /\ action' = Decide(window')
            /\ DeltaTermination(Decide(window'), Accepts(f.text)) = ""
    /\ FramePassed(f)
    /\ UNCHANGED recorded

\* io.EOF, without or after [DONE].
EndOfStream ==
    /\ pc = "read"
    /\ pc' = "final"
    /\ UNCHANGED <<window, collected, pending, written, action, termination,
                   partial, chunks, recorded>>

-----------------------------------------------------------------------------
(* After the loop.                                                         *)

Priority == [allow |-> 0, shadow_log |-> 1, redact |-> 2, block |-> 3]

\* Mutant: the event repeats the decision on the last window.
FinalActionOfWindow == {action}

\* PlanFinal: the whole text is evaluated if the last decision allowed.  The
\* verdict provider is asked as well; its action counts if it is stricter.
FinalAction ==
    IF action = "allow" /\ collected # <<>>
    THEN {a \in DOMAIN Priority : Priority[a] >= Priority[Decide(collected)]}
    ELSE {action}

\* Mutant: the held frame is forgotten at the end of the stream.
HeldIsForgotten == FALSE

HeldIsDue == pending # <<>> /\ termination = ""

FinishStream ==
    /\ pc = "final"
    /\ \/ /\ HeldIsDue
          /\ \/ /\ written' = written \o pending
                /\ UNCHANGED <<termination, partial>>
             \/ /\ termination' = "client_write_error" /\ partial' = TRUE
                /\ UNCHANGED written
       \/ ~HeldIsDue /\ UNCHANGED <<written, termination, partial>>
    /\ \E a \in FinalAction : action' = a /\ recorded' = a
    /\ pc' = "done"
    /\ UNCHANGED <<window, collected, pending, chunks>>

Next ==
    \/ \E reason \in {"upstream_timeout", "sse_parse_error"} : ReadFails(reason)
    \/ ParseFails
    \/ \E text \in Deltas : DeltaRefused(text)
    \/ \E f \in Frame : NextFrame(f)
    \/ EndOfStream
    \/ FinishStream

Spec == Init /\ [][Next]_vars

-----------------------------------------------------------------------------
(* Properties.                                                             *)

\* The text of the first i frames, and of all.
TextUpTo(frames) ==
    LET upTo[i \in 0..Len(frames)] ==
            IF i = 0 THEN <<>> ELSE upTo[i - 1] \o frames[i].text
    IN  upTo
TextOf(frames) == TextUpTo(frames)[Len(frames)]

Terminations == {"", "stream_blocked", "unsupported_redaction", "stream_output_too_large",
                 "upstream_timeout", "sse_parse_error", "client_write_error"}

\* Type invariant.
TypeOK ==
    /\ pc \in {"read", "final", "done"}
    /\ window \in Seq(Rune) /\ Len(window) <= WindowLimit
    /\ collected \in Seq(Rune) /\ Len(collected) <= CollectLimit
    /\ pending \in Seq(Frame) /\ Len(pending) <= 1
    /\ written \in Seq(Frame)
    /\ action \in {"allow", "block", "redact", "shadow_log"}
    /\ termination \in Terminations /\ partial \in BOOLEAN
    /\ chunks \in 0..MaxFrames
    /\ recorded \in {"", "allow", "block", "redact", "shadow_log"}

\* A Secret ends in u, the text that continues t.
EndsIn(t, u) ==
    LET text == t \o u
    IN  \E i \in 0..(Len(text) - Len(Secret)) :
            /\ i + Len(Secret) > Len(t)
            /\ SubSeq(text, i + 1, i + Len(Secret)) = Secret

\* The window holds the text and what may have come of a Secret before it.
FitsWindow(text) == Len(text) + Len(Secret) <= WindowLimit + 1

\* However its runes are spread over frames, the frame that completes a Secret
\* reaches the client only if its own text is too long for the window, whose
\* Append drops the head of it (streaming_handler.go:13, stream_buffer.go:118).
SecretNotDelivered ==
    \A k \in DOMAIN written :
        EndsIn(TextUpTo(written)[k - 1], written[k].text) => ~FitsWindow(written[k].text)

\* The client never has text that the record of the exchange lacks: what was
\* written is a prefix of what the collector keeps for the event's response
\* body and for the final evaluation (streaming_handler.go:104).
DeliveredIsCollected ==
    LET text == TextOf(written)
    IN  /\ Len(text) <= Len(collected)
        /\ text = SubSeq(collected, 1, Len(text))

\* An event without a termination tells of a stream that was delivered whole,
\* and any other is marked partial (streaming_handler.go:97).
PartialIsTold ==
    pc = "done" =>
        /\ (termination = "") <=> ~partial
        /\ termination = "" => TextOf(written) = collected

\* The event never records allow for a text that policy acts on, wherever in
\* the stream it was and whether or not it passed the window
\* (streaming_handler.go:105).
EventReflectsText ==
    recorded = "allow" => Decide(collected) = "allow"
=============================================================================
