---------------------------- MODULE TextRedaction ----------------------------
(***************************************************************************)
(* Redaction of a request or a response (gateway/application/redaction.go  *)
(* and adapters/http/openai: openai_text.go, openai_redaction.go).         *)
(*                                                                         *)
(* The texts of a body are joined by a one-byte separator into the text    *)
(* that policy and verdict see; a finding is a byte range of that text and *)
(* has to be mapped back to the segments it lies in.  A byte is its        *)
(* position in the joined text, so that it can be followed; runes says     *)
(* which bytes start a rune.  Token stands for "[REDACTED]".               *)
(***************************************************************************)
EXTENDS Integers, Sequences, FiniteSets, Functions

Token == -1

\* textAccumulator.add for one text of the given length; an empty one is skipped.
AddSegment(acc, length) ==
    IF length = 0 THEN acc
    ELSE LET start == IF acc = <<>> THEN 0 ELSE acc[Len(acc)].end + 1
         IN  Append(acc, [start |-> start, end |-> start + length,
                          text |-> [i \in 1..length |-> start + i - 1]])

\* The segments of a body whose texts have these lengths.
Segments(lengths) ==
    LET upTo[i \in 0..Len(lengths)] ==
            IF i = 0 THEN <<>> ELSE AddSegment(upTo[i - 1], lengths[i])
    IN  upTo[Len(lengths)]

\* appendAbsoluteTextSpan: the part of each span that lies in the segment.
SpansForSegment(seg, spans) ==
    LET Start(s) == IF s[1] > seg.start THEN s[1] ELSE seg.start
        End(s)   == IF s[2] < seg.end THEN s[2] ELSE seg.end
    IN  {<<Start(s) - seg.start, End(s) - seg.start>> : s \in {t \in spans : Start(t) < End(t)}}

ValidStringBoundary(seg, offset, runes) ==
    offset = 0 \/ offset = Len(seg.text) \/ seg.text[offset + 1] \in runes

\* sort.Slice by start; spans that start together come in any order.
SortedByStart(spans) ==
    CHOOSE s \in Surjection(1..Cardinality(spans), spans) :
        \A i, j \in DOMAIN s : i < j => s[i][1] <= s[j][1]

\* Sorted by start, spans that overlap or touch become one.
\* (Mutant: a span that overlaps the one before is dropped.)
DropOverlapping(merged, span) ==
    IF merged = <<>> \/ span[1] > merged[Len(merged)][2] THEN Append(merged, span) ELSE merged
MergeSpan(merged, span) ==
    IF merged = <<>> \/ span[1] > merged[Len(merged)][2] THEN Append(merged, span)
    ELSE IF span[2] > merged[Len(merged)][2]
         THEN [merged EXCEPT ![Len(merged)] = <<@[1], span[2]>>]
         ELSE merged
MergeSpans(spans) ==
    LET sorted == SortedByStart(spans)
        upTo[i \in 0..Len(sorted)] ==
            IF i = 0 THEN <<>> ELSE MergeSpan(upTo[i - 1], sorted[i])
    IN  upTo[Len(sorted)]

\* One round of the builder: the text up to the span, and a token for the span.
ReplaceSpan(text, acc, span) ==
    [out |-> acc.out \o SubSeq(text, acc.offset + 1, span[1]) \o <<Token>>, offset |-> span[2]]

\* The text with a token for each merged span.
Replace(text, merged) ==
    LET upTo[i \in 0..Len(merged)] ==
            IF i = 0 THEN [out |-> <<>>, offset |-> 0]
                     ELSE ReplaceSpan(text, upTo[i - 1], merged[i])
        done == upTo[Len(merged)]
    IN  done.out \o SubSeq(text, done.offset + 1, Len(text))

\* RedactText: a boundary inside a rune is an error.
RedactText(seg, spans, runes) ==
    LET valid  == {s \in spans : s[1] >= 0 /\ s[2] <= Len(seg.text) /\ s[1] < s[2]}
        merged == MergeSpans(valid)
    IN  IF \A s \in valid : \A i \in {1, 2} : ValidStringBoundary(seg, s[i], runes)
        THEN [failed |-> FALSE, text |-> Replace(seg.text, merged), count |-> Len(merged)]
        ELSE [failed |-> TRUE, text |-> seg.text, count |-> 0]

\* redactTextSegments: each segment by itself; an error in one fails the whole
\* redaction and what was applied before is not sent.
RedactSegments(segments, spans, runes) ==
    LET results == [i \in DOMAIN segments |->
                       RedactText(segments[i], SpansForSegment(segments[i], spans), runes)]
    IN  [failed   |-> \E i \in DOMAIN results : results[i].failed,
         replaced |-> \E i \in DOMAIN results : results[i].count > 0,
         texts    |-> [i \in DOMAIN results |-> results[i].text]]

\* ClassifyRedaction: a redaction that failed or replaced nothing of a text is
\* refused.
RedactionAllowed(result, segments) == ~ result.failed /\ (result.replaced \/ segments = <<>>)
=============================================================================
