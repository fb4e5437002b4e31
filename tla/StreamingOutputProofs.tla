------------------------ MODULE StreamingOutputProofs ------------------------
(***************************************************************************)
(* For every policy, window, collector and stream: the client gets nothing *)
(* the record lacks, a stream cut short is told, the event reflects the    *)
(* whole text, and the frame that completes a Secret is delivered only if  *)
(* its text is too long for the window.                                    *)
(***************************************************************************)
EXTENDS StreamingOutput, SequenceTheorems, WellFoundedInduction, TLAPS

\* Induction up to n over a set: the least number that is missing cannot be.
LEMMA UpTo ==
    ASSUME NEW n \in Nat, NEW S, 0 \in S, \A i \in 0..n : i \in S /\ i # n => i + 1 \in S
    PROVE  \A i \in 0..n : i \in S
<1> DEFINE Rest == {i \in 0..n : i \notin S}
           R == OpToRel(<, Nat)
<1>1. IsWellFoundedOn(R, Nat)
  BY NatLessThanWellFounded
<1>2. Rest \subseteq Nat
  OBVIOUS
<1>3. ASSUME Rest # {} PROVE FALSE
  <2>1. PICK m \in Rest : \A i \in Rest : ~ (<<i, m>> \in R)
    <3> HIDE DEF R, Rest
    <3> QED
      BY <1>1, <1>2, <1>3, WFMin
  <2>2. \A i \in Rest : ~ (i < m)
    <3> HIDE DEF Rest
    <3> QED
      BY <1>2, <2>1 DEF R, OpToRel
  <2> HIDE DEF R
  <2>3. m \in 0..n /\ m \notin S
    OBVIOUS
  <2>4. m - 1 \in 0..n /\ m - 1 < m /\ m - 1 # n
    BY <2>3
  <2>5. m - 1 \notin Rest
    BY <2>2, <2>4
  <2>6. (m - 1) + 1 \in S
    BY <2>4, <2>5
  <2> QED
    BY <2>3, <2>6
<1> QED
  BY <1>3

-----------------------------------------------------------------------------
(* The text of a sequence of frames.                                       *)

\* f[i] is the text of the first i frames of s, for i up to n.
IsTextUpTo(f, s, n) ==
    f = [i \in 0..n |-> IF i = 0 THEN <<>> ELSE f[i - 1] \o s[i].text]

\* A function that concatenates the text of a finite sequence of frames exists.
LEMMA TextUpToExists ==
    ASSUME NEW s \in Seq(Frame)
    PROVE  \E f : IsTextUpTo(f, s, Len(s))
<1> DEFINE S == {n \in 0..Len(s) : \E f : IsTextUpTo(f, s, n)}
<1>1. Len(s) \in Nat
  BY LenProperties
<1>2. 0 \in S
  <2> DEFINE f == [i \in 0..0 |-> <<>>]
  <2>1. f = [i \in 0..0 |-> IF i = 0 THEN <<>> ELSE f[i - 1] \o s[i].text]
    OBVIOUS
  <2>2. IsTextUpTo(f, s, 0)
    BY <2>1 DEF IsTextUpTo
  <2> QED
    BY <1>1, <2>2
<1>3. ASSUME NEW n \in 0..Len(s), n \in S, n # Len(s) PROVE n + 1 \in S
  <2>1. PICK f : IsTextUpTo(f, s, n)
    BY <1>3
  <2>2. f = [i \in 0..n |-> IF i = 0 THEN <<>> ELSE f[i - 1] \o s[i].text]
    BY <2>1 DEF IsTextUpTo
  <2> DEFINE g == [i \in 0..(n + 1) |-> IF i = n + 1 THEN f[n] \o s[n + 1].text ELSE f[i]]
  <2>3. ASSUME NEW i \in 0..(n + 1)
        PROVE  g[i] = IF i = 0 THEN <<>> ELSE g[i - 1] \o s[i].text
    <3>1. CASE i = n + 1
      <4>1. g[i] = f[n] \o s[n + 1].text
        BY <3>1
      <4>2. i - 1 \in 0..(n + 1) /\ i - 1 # n + 1 /\ i - 1 = n /\ i # 0
        BY <3>1
      <4>3. g[i - 1] = f[n]
        BY <4>2
      <4> QED
        BY <3>1, <4>1, <4>2, <4>3
    <3>2. CASE i # n + 1 /\ i # 0
      <4>1. g[i] = f[i] /\ g[i - 1] = f[i - 1]
        BY <3>2
      <4>2. f[i] = f[i - 1] \o s[i].text
        BY <2>2, <3>2
      <4> QED
        BY <3>2, <4>1, <4>2
    <3>3. CASE i = 0
      <4>1. g[0] = f[0] /\ f[0] = <<>>
        BY <2>2
      <4> QED
        BY <3>3, <4>1
    <3> QED
      BY <3>1, <3>2, <3>3
  <2>4. IsTextUpTo(g, s, n + 1)
    <3>1. g = [i \in 0..(n + 1) |-> g[i]]
      OBVIOUS
    <3> HIDE DEF g
    <3> QED
      BY <2>3, <3>1 DEF IsTextUpTo
  <2>5. n + 1 \in 0..Len(s)
    BY <1>1, <1>3
  <2> QED
    BY <2>4, <2>5
<1> HIDE DEF S
<1>4. \A n \in 0..Len(s) : n \in S
  BY <1>1, <1>2, <1>3, UpTo
<1> QED
  BY <1>1, <1>4 DEF S

\* The text of the first i frames is that of the first i - 1 and the i-th frame's.
LEMMA TextUpToDef ==
    ASSUME NEW s \in Seq(Frame)
    PROVE  /\ TextUpTo(s)[0] = <<>>
           /\ \A i \in 1..Len(s) : TextUpTo(s)[i] = TextUpTo(s)[i - 1] \o s[i].text
<1>1. \E f : f = [i \in 0..Len(s) |-> IF i = 0 THEN <<>> ELSE f[i - 1] \o s[i].text]
  BY TextUpToExists DEF IsTextUpTo
<1>2. TextUpTo(s) = CHOOSE f :
          f = [i \in 0..Len(s) |-> IF i = 0 THEN <<>> ELSE f[i - 1] \o s[i].text]
  BY DEF TextUpTo
<1>3. TextUpTo(s) = [i \in 0..Len(s) |-> IF i = 0 THEN <<>>
                                         ELSE TextUpTo(s)[i - 1] \o s[i].text]
  BY <1>1, <1>2
<1>4. Len(s) \in Nat
  BY LenProperties
<1> QED
  BY <1>3, <1>4

\* The text of frames is text.
LEMMA TextTyped ==
    ASSUME NEW s \in Seq(Frame)
    PROVE  \A i \in 0..Len(s) : TextUpTo(s)[i] \in Seq(Rune)
<1> DEFINE S == {i \in 0..Len(s) : TextUpTo(s)[i] \in Seq(Rune)}
<1>1. Len(s) \in Nat
  BY LenProperties
<1>2. 0 \in S
  <2>1. TextUpTo(s)[0] = <<>>
    BY TextUpToDef
  <2>2. TextUpTo(s)[0] \in Seq(Rune)
    BY <2>1, EmptySeq
  <2>3. 0 \in 0..Len(s)
    BY <1>1
  <2> QED
    BY <2>2, <2>3
<1>3. ASSUME NEW i \in 0..Len(s), i \in S, i # Len(s) PROVE i + 1 \in S
  <2>1. i + 1 \in 1..Len(s) /\ (i + 1) - 1 = i
    BY <1>1, <1>3
  <2>2. s[i + 1] \in Frame
    BY <2>1, ElementOfSeq
  <2>3. s[i + 1].text \in Seq(Rune)
    BY <2>2, StreamAssumption DEF Frame
  <2>4. TextUpTo(s)[i + 1] = TextUpTo(s)[i] \o s[i + 1].text
    BY <2>1, TextUpToDef
  <2>5. TextUpTo(s)[i] \in Seq(Rune)
    BY <1>3
  <2>6. TextUpTo(s)[i + 1] \in Seq(Rune)
    BY <2>3, <2>4, <2>5, ConcatProperties
  <2> QED
    BY <1>1, <2>1, <2>6
<1> HIDE DEF S
<1>4. \A i \in 0..Len(s) : i \in S
  BY <1>1, <1>2, <1>3, UpTo
<1> QED
  BY <1>4 DEF S

\* t has one frame more than s, and the text of the frames before it is the same.
OneMore(t, s, x) ==
    /\ t \in Seq(Frame) /\ Len(t) = Len(s) + 1
    /\ \A i \in 1..Len(s) : t[i] = s[i]
    /\ t[Len(s) + 1] = x
    /\ \A i \in 0..Len(s) : TextUpTo(t)[i] = TextUpTo(s)[i]

\* One more frame leaves what the frames before it carry.
LEMMA TextUpToAppend ==
    ASSUME NEW s \in Seq(Frame), NEW x \in Frame
    PROVE  OneMore(s \o <<x>>, s, x)
<1>1. PICK t : t = s \o <<x>>
  OBVIOUS
<1> DEFINE S == {i \in 0..Len(s) : TextUpTo(t)[i] = TextUpTo(s)[i]}
<1>2. Len(s) \in Nat /\ <<x>> \in Seq(Frame) /\ Len(<<x>>) = 1
  BY LenProperties
<1>3. /\ t \in Seq(Frame) /\ Len(t) = Len(s) + 1
      /\ \A i \in 1..Len(s) : t[i] = s[i]
      /\ t[Len(s) + 1] = x
  <2>1. \A i \in 1..(Len(s) + 1) : t[i] = IF i <= Len(s) THEN s[i] ELSE <<x>>[i - Len(s)]
    BY <1>1, <1>2, ConcatProperties
  <2>2. t \in Seq(Frame) /\ Len(t) = Len(s) + 1
    BY <1>1, <1>2, ConcatProperties
  <2>3. \A i \in 1..Len(s) : t[i] = s[i]
    BY <1>2, <2>1
  <2>4. t[Len(s) + 1] = <<x>>[1]
    BY <1>2, <2>1
  <2> QED
    BY <2>2, <2>3, <2>4
<1>4. 0 \in S
  <2>1. TextUpTo(s)[0] = <<>>
    BY TextUpToDef
  <2>2. TextUpTo(t)[0] = <<>>
    BY <1>3, TextUpToDef
  <2> QED
    BY <1>2, <2>1, <2>2
<1>5. ASSUME NEW i \in 0..Len(s), i \in S, i # Len(s) PROVE i + 1 \in S
  <2>1. i + 1 \in 1..Len(s) /\ (i + 1) - 1 = i /\ i + 1 \in 1..Len(t) /\ i + 1 \in 0..Len(s)
    BY <1>2, <1>3, <1>5
  <2>2. TextUpTo(t)[i + 1] = TextUpTo(t)[i] \o t[i + 1].text
    BY <1>3, <2>1, TextUpToDef
  <2>3. TextUpTo(s)[i + 1] = TextUpTo(s)[i] \o s[i + 1].text
    BY <2>1, TextUpToDef
  <2>4. TextUpTo(t)[i] = TextUpTo(s)[i]
    BY <1>5
  <2> QED
    BY <1>3, <2>1, <2>2, <2>3, <2>4
<1> HIDE DEF S
<1>6. \A i \in 0..Len(s) : i \in S
  BY <1>2, <1>4, <1>5, UpTo
<1> QED
  BY <1>1, <1>3, <1>6 DEF S, OneMore

\* One more frame adds its text.
LEMMA TextAppend ==
    ASSUME NEW s \in Seq(Frame), NEW x \in Frame
    PROVE  /\ s \o <<x>> \in Seq(Frame)
           /\ TextOf(s \o <<x>>) = TextOf(s) \o x.text
<1>1. PICK t : t = s \o <<x>>
  OBVIOUS
<1>2. /\ t \in Seq(Frame) /\ Len(t) = Len(s) + 1 /\ t[Len(s) + 1] = x
      /\ \A i \in 0..Len(s) : TextUpTo(t)[i] = TextUpTo(s)[i]
  BY <1>1, TextUpToAppend DEF OneMore
<1>3. Len(s) \in Nat /\ Len(s) + 1 \in 1..Len(t) /\ (Len(s) + 1) - 1 = Len(s)
  BY <1>2, LenProperties
<1>4. TextUpTo(t)[Len(s) + 1] = TextUpTo(t)[Len(s)] \o t[Len(s) + 1].text
  BY <1>2, <1>3, TextUpToDef
<1>5. TextUpTo(t)[Len(s)] = TextUpTo(s)[Len(s)]
  BY <1>2, <1>3
<1> QED
  BY <1>1, <1>2, <1>4, <1>5 DEF TextOf

\* The text of frames is a sequence of runes, and no frames have no text.
LEMMA TextOfFacts ==
    /\ <<>> \in Seq(Frame) /\ TextOf(<<>>) = <<>>
    /\ \A s \in Seq(Frame) : TextOf(s) \in Seq(Rune)
<1>1. <<>> \in Seq(Frame) /\ Len(<<>>) = 0
  BY EmptySeq
<1>2. TextUpTo(<<>>)[0] = <<>>
  BY <1>1, TextUpToDef
<1>3. ASSUME NEW s \in Seq(Frame) PROVE TextOf(s) \in Seq(Rune)
  <2>1. Len(s) \in 0..Len(s)
    BY LenProperties
  <2> QED
    BY <2>1, TextTyped DEF TextOf
<1> QED
  BY <1>1, <1>2, <1>3 DEF TextOf

-----------------------------------------------------------------------------
(* What is delivered, collected and recorded.                              *)

Prefix(s, t) == Len(s) <= Len(t) /\ s = SubSeq(t, 1, Len(s))

\* A text is its own prefix, and prefixes survive appending.
LEMMA PrefixConcat ==
    ASSUME NEW t \in Seq(Rune), NEW u \in Seq(Rune)
    PROVE  /\ Prefix(t, t)
           /\ \A s \in Seq(Rune) : Prefix(s, t) => Prefix(s, t \o u)
<1>1. Len(t) \in Nat /\ Len(u) \in Nat
  BY LenProperties
<1>2. Prefix(t, t)
  BY <1>1, SubSeqFull DEF Prefix
<1>3. ASSUME NEW s \in Seq(Rune), Prefix(s, t) PROVE Prefix(s, t \o u)
  <2>1. Len(s) \in Nat /\ Len(s) <= Len(t)
    BY <1>3, LenProperties DEF Prefix
  <2>2. Len(s) <= Len(t \o u)
    BY <1>1, <2>1, ConcatProperties
  <2>3. SubSeq(t \o u, 1, Len(s)) = SubSeq(t, 1, Len(s))
    <3>1. CASE Len(s) = 0
      BY <3>1, SubSeqEmpty
    <3>2. CASE Len(s) # 0
      <4>1. 1 \in 1..Len(t) /\ Len(s) \in 1..Len(t)
        BY <1>1, <2>1, <3>2
      <4> QED
        BY <4>1, SubSeqOfConcat1
    <3> QED
      BY <3>1, <3>2
  <2> QED
    BY <1>3, <2>2, <2>3 DEF Prefix
<1> QED
  BY <1>2, <1>3

\* The window never outgrows its limit, whatever is appended to it.
LEMMA WindowTyped ==
    ASSUME NEW w \in Seq(Rune), NEW text \in Seq(Rune)
    PROVE  WindowAppend(w, text) \in Seq(Rune) /\ Len(WindowAppend(w, text)) <= WindowLimit
<1> DEFINE all == w \o text
<1>1. all \in Seq(Rune)
  BY ConcatProperties
<1> HIDE DEF all
<1>2. Len(all) \in Nat /\ WindowLimit \in Nat
  BY <1>1, LenProperties, StreamAssumption
<1>3. CASE Len(all) > WindowLimit
  <2>1. \A i \in (Len(all) - WindowLimit + 1)..Len(all) : all[i] \in Rune
    <3> TAKE i \in (Len(all) - WindowLimit + 1)..Len(all)
    <3>1. i \in 1..Len(all)
      BY <1>2, <1>3
    <3> QED
      BY <1>1, <3>1, ElementOfSeq
  <2>2. Len(all) - WindowLimit + 1 \in Int /\ Len(all) \in Int
    BY <1>2
  <2> DEFINE m == Len(all) - WindowLimit + 1
             n == Len(all)
  <2>3. n - m + 1 = WindowLimit /\ (m > n => WindowLimit = 0)
    BY <1>2
  <2>4. /\ SubSeq(all, m, n) \in Seq(Rune)
        /\ Len(SubSeq(all, m, n)) = IF m <= n THEN n - m + 1 ELSE 0
    <3> HIDE DEF m, n
    <3> QED
      BY <2>1, <2>2, SubSeqProperties DEF m, n
  <2>5. WindowAppend(w, text) = SubSeq(all, m, n)
    BY <1>3 DEF WindowAppend, all
  <2> QED
    BY <1>2, <2>3, <2>4, <2>5
<1>4. CASE ~ (Len(all) > WindowLimit)
  BY <1>1, <1>2, <1>4 DEF WindowAppend, all
<1> QED
  BY <1>3, <1>4

Actions == {"allow", "block", "redact", "shadow_log"}

\* Policy decides on one of the actions a stream can meet.
LEMMA DecideTyped == \A text : Decide(text) \in Actions
BY StreamAssumption DEF Decide, Actions

\* The buffers after a delta, and what the collector had before is kept.
LEMMA ObserveFacts ==
    ASSUME TypeOK, NEW text \in Deltas, Observe(text)
    PROVE  /\ window' \in Seq(Rune) /\ Len(window') <= WindowLimit
           /\ collected' \in Seq(Rune) /\ Len(collected') <= CollectLimit
           /\ Accepts(text) => collected' = collected \o text
           /\ \A s \in Seq(Rune) : Prefix(s, collected) => Prefix(s, collected')
<1>1. text \in Seq(Rune) /\ window \in Seq(Rune) /\ collected \in Seq(Rune)
  BY StreamAssumption DEF TypeOK
<1>2. window' \in Seq(Rune) /\ Len(window') <= WindowLimit
  BY <1>1, WindowTyped DEF Observe
<1>3. CASE Accepts(text)
  <2>1. collected' = collected \o text
    BY <1>3 DEF Observe
  <2>2. collected' \in Seq(Rune) /\ Len(collected') = Len(collected) + Len(text)
    BY <1>1, <2>1, ConcatProperties
  <2>3. Len(collected') <= CollectLimit
    BY <1>3, <2>2 DEF Accepts
  <2> QED
    BY <1>1, <1>2, <2>1, <2>2, <2>3, PrefixConcat
<1>4. CASE ~ Accepts(text)
  BY <1>2, <1>4 DEF Observe, TypeOK
<1> QED
  BY <1>3, <1>4

\* All that was read is written, held back, or the reason for the end.
StreamInv ==
    /\ TypeOK /\ DeliveredIsCollected
    /\ pc = "read" => termination = "" /\ ~ partial
    /\ pc \in {"read", "final"} =>
          /\ recorded = ""
          /\ (termination = "") <=> ~ partial
          /\ termination = "" => TextOf(written \o pending) = collected
    /\ PartialIsTold /\ EventReflectsText

\* A stream that has read nothing satisfies the invariant.
LEMMA StreamInit == Init => StreamInv
<1> SUFFICES ASSUME Init PROVE StreamInv
  OBVIOUS
<1>1. <<>> \in Seq(Rune) /\ <<>> \in Seq(Frame) /\ Len(<<>>) = 0
  BY EmptySeq
<1>2. TypeOK
  <2>1. chunks \in 0..MaxFrames
    <3>1. chunks = 0
      BY DEF Init
    <3>2. 0 \in 0..MaxFrames
      BY StreamAssumption
    <3> QED
      BY <3>1, <3>2
  <2>2. Len(<<>>) <= WindowLimit /\ Len(<<>>) <= CollectLimit /\ Len(<<>>) <= 1
    BY <1>1, StreamAssumption
  <2>3. /\ pc \in {"read", "final", "done"} /\ partial \in BOOLEAN
        /\ termination \in Terminations
        /\ action \in {"allow", "block", "redact", "shadow_log"}
        /\ recorded \in {"", "allow", "block", "redact", "shadow_log"}
    BY DEF Init, Terminations
  <2>4. window = <<>> /\ collected = <<>> /\ pending = <<>> /\ written = <<>>
    BY DEF Init
  <2> QED
    BY <1>1, <2>1, <2>2, <2>3, <2>4, Zenon DEF TypeOK
<1>3. TextOf(written) = <<>> /\ TextOf(written \o pending) = <<>>
  <2>1. <<>> \o <<>> = <<>>
    BY <1>1, ConcatEmptySeq
  <2> QED
    BY <2>1, TextOfFacts DEF Init
<1>4. Prefix(<<>>, <<>>)
  BY <1>1, PrefixConcat
<1>5. DeliveredIsCollected
  BY <1>3, <1>4 DEF Init, DeliveredIsCollected, Prefix
<1> QED
  BY <1>2, <1>3, <1>5 DEF Init, StreamInv, PartialIsTold, EventReflectsText

\* The loop is left with a reason: what was delivered stays.
LEMMA StopStep ==
    ASSUME StreamInv, pc = "read", NEW reason \in Terminations, reason # "",
           NEW decided \in Actions, Terminate(reason, decided), chunks' \in 0..MaxFrames,
           \/ UNCHANGED <<window, collected>>
           \/ \E text \in Deltas : Observe(text)
    PROVE  StreamInv'
<1>1. /\ window' \in Seq(Rune) /\ Len(window') <= WindowLimit
      /\ collected' \in Seq(Rune) /\ Len(collected') <= CollectLimit
      /\ \A s \in Seq(Rune) : Prefix(s, collected) => Prefix(s, collected')
  BY ObserveFacts DEF StreamInv, TypeOK
<1>2. TypeOK'
  BY <1>1 DEF StreamInv, TypeOK, Terminate, Actions
<1>3. TextOf(written) \in Seq(Rune) /\ written' = written
  BY TextOfFacts DEF StreamInv, TypeOK, Terminate
<1>4. DeliveredIsCollected'
  BY <1>1, <1>3 DEF StreamInv, DeliveredIsCollected, Prefix
<1> QED
  BY <1>2, <1>4 DEF StreamInv, Terminate, PartialIsTold, EventReflectsText

\* A frame that passes is in the collector when it is held back or written.
LEMMA FrameFacts ==
    ASSUME StreamInv, NEW f \in Frame, NextFrame(f)
    PROVE  /\ window' \in Seq(Rune) /\ Len(window') <= WindowLimit
           /\ collected' \in Seq(Rune) /\ Len(collected') <= CollectLimit
           /\ collected' = collected \o f.text
           /\ action' \in Actions
           /\ f.text # <<>> => Decide(window') \notin {"block", "redact"}
<1>1. f.text \in Deltas /\ f.text \in Seq(Rune)
  BY StreamAssumption DEF Frame
<1>2. CASE f.text = <<>>
  <2>1. UNCHANGED <<window, collected, action>>
    BY <1>2 DEF NextFrame
  <2>2. collected \o <<>> = collected
    BY ConcatEmptySeq DEF StreamInv, TypeOK
  <2> QED
    BY <1>2, <2>1, <2>2 DEF StreamInv, TypeOK, Actions
<1>3. CASE f.text # <<>>
  <2>1. /\ Observe(f.text) /\ action' = Decide(window')
        /\ DeltaTermination(Decide(window'), Accepts(f.text)) = ""
    BY <1>3 DEF NextFrame
  <2>2. Accepts(f.text) /\ Decide(window') \notin {"block", "redact"}
    BY <2>1 DEF DeltaTermination
  <2> QED
    BY <1>1, <2>1, <2>2, ObserveFacts, DecideTyped DEF StreamInv
<1> QED
  BY <1>2, <1>3

\* A frame read, observed, and held back, refused or let out keeps the invariant.
LEMMA FrameStep ==
    ASSUME StreamInv, NEW f \in Frame, NextFrame(f)
    PROVE  StreamInv'
<1> DEFINE sent == written \o pending
<1>1. /\ pc = "read" /\ termination = "" /\ ~ partial /\ recorded = ""
      /\ TextOf(sent) = collected
  BY DEF StreamInv, NextFrame
<1>2. /\ written \in Seq(Frame) /\ pending \in Seq(Frame) /\ sent \in Seq(Frame)
      /\ TextOf(written) \in Seq(Rune) /\ collected \in Seq(Rune)
  BY ConcatProperties, TextOfFacts DEF StreamInv, TypeOK
<1>3. /\ window' \in Seq(Rune) /\ Len(window') <= WindowLimit
      /\ collected' \in Seq(Rune) /\ Len(collected') <= CollectLimit
      /\ collected' = collected \o f.text
      /\ action' \in Actions
  BY FrameFacts
<1> HIDE DEF sent
<1>4. sent \o <<f>> \in Seq(Frame) /\ TextOf(sent \o <<f>>) = collected'
  BY <1>1, <1>2, <1>3, TextAppend
<1>5. <<f>> \in Seq(Frame) /\ Len(<<f>>) = 1 /\ <<>> \in Seq(Frame) /\ Len(<<>>) = 0
  BY EmptySeq
<1>6. (sent \o <<f>>) \o <<>> = sent \o <<f>>
  BY <1>4, ConcatEmptySeq
<1>7. f.text \in Seq(Rune)
  BY StreamAssumption DEF Frame
<1>8. /\ Prefix(TextOf(written), collected') /\ Prefix(TextOf(sent), collected')
      /\ Prefix(TextOf(sent \o <<f>>), collected')
  <2>1. Prefix(TextOf(written), collected)
    BY DEF StreamInv, DeliveredIsCollected, Prefix
  <2>2. Prefix(TextOf(sent), collected)
    BY <1>1, <1>2, PrefixConcat
  <2>3. TextOf(sent) \in Seq(Rune)
    BY <1>1, <1>2
  <2>4. Prefix(collected', collected')
    BY <1>3, PrefixConcat
  <2> QED
    BY <1>2, <1>3, <1>4, <1>7, <2>1, <2>2, <2>3, <2>4, PrefixConcat
<1>9. chunks' \in 0..MaxFrames /\ recorded' = recorded
  <2>1. chunks \in 0..MaxFrames /\ MaxFrames \in Nat
    BY StreamAssumption DEF StreamInv, TypeOK
  <2>2. chunks < MaxFrames /\ chunks' = chunks + 1 /\ recorded' = recorded
    BY DEF NextFrame
  <2> QED
    BY <2>1, <2>2
<1>10. /\ written' \in {written, sent, sent \o <<f>>}
       /\ pending' \in {pending, <<f>>, <<>>}
       /\ \/ /\ pc' \in {"read", "final"} /\ UNCHANGED <<termination, partial>>
             /\ written' \o pending' = sent \o <<f>>
          \/ /\ pc' = "final" /\ termination' = "client_write_error" /\ partial' = TRUE
  <2>1. FramePassed(f)
    BY DEF NextFrame
  <2>2. CASE /\ ~f.done
             /\ written' = sent /\ pending' = <<f>>
             /\ UNCHANGED <<pc, termination, partial>>
    BY <1>1, <2>2
  <2>3. CASE /\ f.done
             /\ written' = sent \o <<f>> /\ pending' = <<>>
             /\ pc' = "final"
             /\ UNCHANGED <<termination, partial>>
    BY <1>6, <2>3
  <2>4. CASE WriteFails(written) /\ UNCHANGED pending
    BY <2>4 DEF WriteFails
  <2>5. CASE WriteFails(sent) /\ pending' = <<f>>
    BY <2>5 DEF WriteFails
  <2> QED
    BY <2>1, <2>2, <2>3, <2>4, <2>5 DEF FramePassed, sent
<1>11. TypeOK'
  <2>1. Len(pending') <= 1 /\ pending' \in Seq(Frame)
    <3>1. pending \in Seq(Frame) /\ Len(pending) <= 1
      BY DEF StreamInv, TypeOK
    <3>2. pending' = pending \/ pending' = <<f>> \/ pending' = <<>>
      BY <1>10
    <3>3. Len(<<f>>) <= 1 /\ Len(<<>>) <= 1
      BY <1>5
    <3> QED
      BY <1>5, <3>1, <3>2, <3>3, Zenon
  <2>2. written' \in Seq(Frame)
    BY <1>2, <1>4, <1>10
  <2>3. pc' \in {"read", "final", "done"} /\ termination' \in Terminations /\ partial' \in BOOLEAN
    <3>1. termination \in Terminations /\ partial \in BOOLEAN
      BY DEF StreamInv, TypeOK
    <3> QED
      BY <1>10, <3>1 DEF Terminations
  <2> QED
    BY <1>1, <1>3, <1>9, <2>1, <2>2, <2>3 DEF TypeOK, Actions
<1>12. DeliveredIsCollected'
  BY <1>8, <1>10 DEF DeliveredIsCollected, Prefix
<1>13. (termination' = "") <=> ~ partial'
  <2>1. partial = FALSE
    BY <1>1 DEF StreamInv, TypeOK
  <2> QED
    BY <1>1, <1>10, <2>1
<1>14. termination' = "" => TextOf(written' \o pending') = collected'
  BY <1>4, <1>10
<1>15. pc' \in {"read", "final"} /\ recorded' = ""
  BY <1>1, <1>9, <1>10
<1>16. pc' = "read" => termination' = "" /\ ~ partial'
  BY <1>1, <1>10
<1> QED
  BY <1>11, <1>12, <1>13, <1>14, <1>15, <1>16 DEF StreamInv, PartialIsTold, EventReflectsText

\* Writing the held frame out and recording the event keeps the invariant.
LEMMA FinishStep ==
    ASSUME StreamInv, FinishStream
    PROVE  StreamInv'
<1> DEFINE sent == written \o pending
<1>1. /\ pc = "final" /\ recorded = "" /\ (termination = "" <=> ~ partial)
      /\ termination = "" => TextOf(sent) = collected
      /\ pc' = "done" /\ UNCHANGED <<window, collected, pending, chunks>>
  BY DEF StreamInv, FinishStream
<1>2. /\ written \in Seq(Frame) /\ pending \in Seq(Frame) /\ sent \in Seq(Frame)
      /\ TextOf(written) \in Seq(Rune) /\ collected \in Seq(Rune)
  BY ConcatProperties, TextOfFacts DEF StreamInv, TypeOK
<1>3. pending = <<>> => sent = written
  BY <1>2, ConcatEmptySeq
<1>4. \/ /\ written' = sent /\ termination = "" /\ UNCHANGED <<termination, partial>>
      \/ /\ written' = written /\ termination' = "client_write_error" /\ partial' = TRUE
      \/ /\ written' = written /\ UNCHANGED <<termination, partial>>
         /\ pending = <<>> \/ termination # ""
  BY DEF FinishStream, HeldIsDue
<1>5. PICK a \in FinalAction : action' = a /\ recorded' = a
  BY DEF FinishStream
<1>6. a \in Actions /\ (a = "allow" => Decide(collected) = "allow")
  <2>1. CASE action = "allow" /\ collected # <<>>
    <3>1. a \in DOMAIN Priority /\ Priority[a] >= Priority[Decide(collected)]
      BY <1>5, <2>1 DEF FinalAction
    <3>2. Decide(collected) \in Actions
      BY DecideTyped
    <3> QED
      BY <3>1, <3>2 DEF Priority, Actions
  <2>2. CASE action = "allow" /\ collected = <<>>
    <3>1. Len(Secret) \in Nat /\ Len(Noted) \in Nat /\ Len(<<>>) = 0
      BY LenProperties, EmptySeq, StreamAssumption
    <3>2. 0..(Len(<<>>) - Len(Secret)) = {} /\ 0..(Len(<<>>) - Len(Noted)) = {}
      BY <3>1, StreamAssumption
    <3>3. ~ Contains(<<>>, Secret) /\ ~ Contains(<<>>, Noted)
      BY <3>2 DEF Contains
    <3>4. Decide(<<>>) = "allow"
      BY <3>3 DEF Decide
    <3> QED
      BY <1>5, <2>2, <3>4 DEF FinalAction, Actions
  <2>3. CASE action # "allow"
    BY <1>5, <2>3 DEF FinalAction, StreamInv, TypeOK, Actions
  <2> QED
    BY <2>1, <2>2, <2>3
<1> HIDE DEF sent
<1>7. TypeOK'
  <2>1. written' \in Seq(Frame) /\ termination' \in Terminations /\ partial' \in BOOLEAN
    BY <1>2, <1>4 DEF StreamInv, TypeOK, Terminations
  <2> QED
    BY <1>1, <1>5, <1>6, <2>1 DEF StreamInv, TypeOK, Actions
<1>8. DeliveredIsCollected'
  <2>1. termination = "" => Prefix(TextOf(sent), collected)
    BY <1>1, <1>2, PrefixConcat
  <2>2. Prefix(TextOf(written), collected)
    BY DEF StreamInv, DeliveredIsCollected, Prefix
  <2> QED
    BY <1>1, <1>4, <2>1, <2>2 DEF DeliveredIsCollected, Prefix
<1>9. PartialIsTold'
  BY <1>1, <1>3, <1>4 DEF PartialIsTold
<1>10. EventReflectsText'
  BY <1>1, <1>5, <1>6 DEF EventReflectsText
<1> QED
  BY <1>1, <1>7, <1>8, <1>9, <1>10 DEF StreamInv

\* Every step of a stream keeps the invariant.
LEMMA StreamNext == StreamInv /\ [Next]_vars => StreamInv'
<1> SUFFICES ASSUME StreamInv, [Next]_vars PROVE StreamInv'
  OBVIOUS
<1>1. chunks \in 0..MaxFrames /\ MaxFrames \in Nat /\ "block" \in Actions
  BY StreamAssumption DEF StreamInv, TypeOK, Actions
<1>2. ASSUME NEW reason \in {"upstream_timeout", "sse_parse_error"}, ReadFails(reason)
      PROVE  StreamInv'
  BY <1>1, <1>2, StopStep DEF ReadFails, Terminations
<1>3. ASSUME ParseFails PROVE StreamInv'
  <2>1. chunks' \in 0..MaxFrames
    BY <1>1, <1>3 DEF ParseFails
  <2> QED
    BY <1>1, <1>3, <2>1, StopStep DEF ParseFails, Terminations
<1>4. ASSUME NEW text \in Deltas, DeltaRefused(text) PROVE StreamInv'
  <2>1. chunks' \in 0..MaxFrames /\ pc = "read" /\ Observe(text)
    <3>1. /\ chunks < MaxFrames /\ chunks' = chunks + 1
          /\ pc = "read" /\ Observe(text)
      BY <1>4 DEF DeltaRefused
    <3> QED
      BY <1>1, <3>1
  <2> DEFINE decided == Decide(window')
             reason == DeltaTermination(decided, Accepts(text))
             final == IF Accepts(text) THEN decided ELSE "block"
  <2>2. reason # "" /\ Terminate(reason, final)
    BY <1>4 DEF DeltaRefused
  <2>3. reason \in Terminations /\ final \in Actions
    BY <1>1, DecideTyped DEF DeltaTermination, Terminations
  <2> HIDE DEF reason, final
  <2> QED
    BY <2>1, <2>2, <2>3, StopStep
<1>5. ASSUME EndOfStream PROVE StreamInv'
  BY <1>5 DEF EndOfStream, StreamInv, TypeOK, DeliveredIsCollected, PartialIsTold,
     EventReflectsText
<1>6. ASSUME UNCHANGED vars PROVE StreamInv'
  BY <1>6 DEF vars, StreamInv, TypeOK, DeliveredIsCollected, PartialIsTold, EventReflectsText
<1> QED
  BY <1>2, <1>3, <1>4, <1>5, <1>6, FrameStep, FinishStep DEF Next

\* The buffers keep their bounds: the window its size, the collector its limit.
THEOREM StreamTypeCorrect == Spec => []TypeOK
<1>1. StreamInv => TypeOK
  BY DEF StreamInv
<1> QED
  BY <1>1, StreamInit, StreamNext, PTL DEF Spec

\* The client never has text that the collector lacks (streaming_handler.go).
THEOREM DeliveredIsOnRecord == Spec => []DeliveredIsCollected
<1>1. StreamInv => DeliveredIsCollected
  BY DEF StreamInv
<1> QED
  BY <1>1, StreamInit, StreamNext, PTL DEF Spec

\* A stream is marked partial exactly when it has a termination, and without one
\* it was delivered whole (streaming_handler.go).
THEOREM TruncationIsTold == Spec => []PartialIsTold
<1>1. StreamInv => PartialIsTold
  BY DEF StreamInv
<1> QED
  BY <1>1, StreamInit, StreamNext, PTL DEF Spec

\* The event never records allow for a text that policy acts on
\* (streaming_output.go, PlanFinal).
THEOREM WholeTextCounts == Spec => []EventReflectsText
<1>1. StreamInv => EventReflectsText
  BY DEF StreamInv
<1> QED
  BY <1>1, StreamInit, StreamNext, PTL DEF Spec

-----------------------------------------------------------------------------
(* A Secret does not pass the window.                                      *)

\* The newest runes of a text, as many as the window holds.
Newest(t) == IF Len(t) > WindowLimit
             THEN SubSeq(t, Len(t) - WindowLimit + 1, Len(t)) ELSE t

\* The newest runes of a text, one by one.
LEMMA NewestFacts ==
    ASSUME NEW t \in Seq(Rune)
    PROVE  /\ Newest(t) \in Seq(Rune)
           /\ Len(Newest(t)) = IF Len(t) > WindowLimit THEN WindowLimit ELSE Len(t)
           /\ \A i \in 1..Len(Newest(t)) : Newest(t)[i] = t[Len(t) - Len(Newest(t)) + i]
<1>1. Len(t) \in Nat /\ WindowLimit \in Nat
  BY LenProperties, StreamAssumption
<1>2. CASE Len(t) > WindowLimit
  <2> DEFINE m == Len(t) - WindowLimit + 1
             n == Len(t)
  <2>1. \A i \in m..n : t[i] \in Rune
    <3> TAKE i \in m..n
    <3>1. i \in 1..Len(t)
      BY <1>1, <1>2
    <3> QED
      BY <3>1, ElementOfSeq
  <2>2. m \in Int /\ n \in Int /\ n - m + 1 = WindowLimit /\ (m > n => WindowLimit = 0)
    BY <1>1, <1>2
  <2>3. Newest(t) = SubSeq(t, m, n)
    BY <1>2 DEF Newest
  <2> HIDE DEF m, n
  <2>5. /\ SubSeq(t, m, n) \in Seq(Rune)
        /\ Len(SubSeq(t, m, n)) = IF m <= n THEN n - m + 1 ELSE 0
        /\ \A i \in 1..(n - m + 1) : SubSeq(t, m, n)[i] = t[m + i - 1]
    BY <2>1, <2>2, SubSeqProperties
  <2>6. Len(Newest(t)) = WindowLimit
    BY <1>1, <2>2, <2>3, <2>5
  <2>7. ASSUME NEW i \in 1..WindowLimit
        PROVE  Newest(t)[i] = t[Len(t) - WindowLimit + i]
    <3>1. SubSeq(t, m, n)[i] = t[m + i - 1]
      BY <2>2, <2>5
    <3>2. m + i - 1 = Len(t) - WindowLimit + i
      BY <1>1 DEF m
    <3> QED
      BY <2>3, <3>1, <3>2
  <2> QED
    BY <1>2, <2>3, <2>5, <2>6, <2>7
<1>3. CASE ~ (Len(t) > WindowLimit)
  <2>1. Newest(t) = t
    BY <1>3 DEF Newest
  <2>2. \A i \in 1..Len(t) : Len(t) - Len(t) + i = i
    BY <1>1
  <2> QED
    BY <1>1, <1>3, <2>1, <2>2
<1> QED
  BY <1>2, <1>3

\* StreamWindow.Append keeps the newest runes of all that was appended.
LEMMA WindowIsNewest ==
    ASSUME NEW t \in Seq(Rune), NEW u \in Seq(Rune)
    PROVE  WindowAppend(Newest(t), u) = Newest(t \o u)
<1> DEFINE w == Newest(t)
           a == w \o u
           b == t \o u
<1>1. /\ w \in Seq(Rune)
      /\ Len(w) = IF Len(t) > WindowLimit THEN WindowLimit ELSE Len(t)
      /\ \A i \in 1..Len(w) : w[i] = t[Len(t) - Len(w) + i]
  BY NewestFacts
<1>2. WindowAppend(w, u) = Newest(a)
  BY DEF WindowAppend, Newest
<1> HIDE DEF w
<1>3. /\ a \in Seq(Rune) /\ Len(a) = Len(w) + Len(u)
      /\ \A i \in 1..(Len(w) + Len(u)) : a[i] = IF i <= Len(w) THEN w[i] ELSE u[i - Len(w)]
  BY <1>1, ConcatProperties
<1>4. /\ b \in Seq(Rune) /\ Len(b) = Len(t) + Len(u)
      /\ \A i \in 1..(Len(t) + Len(u)) : b[i] = IF i <= Len(t) THEN t[i] ELSE u[i - Len(t)]
  BY ConcatProperties
<1> HIDE DEF a, b
<1>5. Len(t) \in Nat /\ Len(u) \in Nat /\ Len(w) \in Nat /\ WindowLimit \in Nat
  BY <1>1, LenProperties, StreamAssumption
<1>6. /\ Newest(a) \in Seq(Rune)
      /\ Len(Newest(a)) = IF Len(a) > WindowLimit THEN WindowLimit ELSE Len(a)
      /\ \A i \in 1..Len(Newest(a)) : Newest(a)[i] = a[Len(a) - Len(Newest(a)) + i]
  BY <1>3, NewestFacts
<1>7. /\ Newest(b) \in Seq(Rune)
      /\ Len(Newest(b)) = IF Len(b) > WindowLimit THEN WindowLimit ELSE Len(b)
      /\ \A i \in 1..Len(Newest(b)) : Newest(b)[i] = b[Len(b) - Len(Newest(b)) + i]
  BY <1>4, NewestFacts
<1>8. Len(Newest(a)) = Len(Newest(b)) /\ Len(Newest(a)) \in Nat /\ Len(Newest(a)) <= Len(a)
  BY <1>1, <1>3, <1>4, <1>5, <1>6, <1>7
<1>9. ASSUME NEW i \in 1..Len(Newest(a)) PROVE Newest(a)[i] = Newest(b)[i]
  <2> DEFINE j == Len(a) - Len(Newest(a)) + i
             k == Len(b) - Len(Newest(b)) + i
  <2>1. Newest(a)[i] = a[j] /\ Newest(b)[i] = b[k]
    BY <1>6, <1>7, <1>8
  <2>2. /\ j \in 1..(Len(w) + Len(u)) /\ k \in 1..(Len(t) + Len(u))
        /\ k = Len(t) - Len(w) + j /\ Len(w) <= Len(t)
    <3> DEFINE l == Len(Newest(a))
    <3>1. Len(w) <= Len(t)
      BY <1>1, <1>5
    <3>2. l \in Nat /\ l <= Len(w) + Len(u) /\ i \in 1..l
      BY <1>3, <1>8
    <3>3. j = Len(w) + Len(u) - l + i /\ k = Len(t) + Len(u) - l + i
      BY <1>3, <1>4, <1>8
    <3> HIDE DEF l, j, k
    <3> QED
      BY <1>5, <3>1, <3>2, <3>3
  <2> HIDE DEF j, k
  <2>3. CASE j <= Len(w)
    <3>1. a[j] = w[j] /\ j \in 1..Len(w)
      BY <1>3, <2>2, <2>3
    <3>2. w[j] = t[k] /\ k <= Len(t)
      <4>1. w[j] = t[Len(t) - Len(w) + j]
        BY <1>1, <3>1
      <4>2. k <= Len(t)
        BY <1>5, <2>2, <3>1
      <4> QED
        BY <2>2, <4>1, <4>2
    <3>3. b[k] = t[k]
      BY <1>4, <2>2, <3>2
    <3> QED
      BY <2>1, <3>1, <3>2, <3>3
  <2>4. CASE ~ (j <= Len(w))
    <3>1. a[j] = u[j - Len(w)]
      BY <1>3, <2>2, <2>4
    <3>2. ~ (k <= Len(t)) /\ k - Len(t) = j - Len(w)
      BY <1>5, <2>2, <2>4
    <3>3. b[k] = u[k - Len(t)]
      BY <1>4, <2>2, <3>2
    <3> QED
      BY <2>1, <3>1, <3>2, <3>3
  <2> QED
    BY <2>3, <2>4
<1>10. Newest(a) = Newest(b)
  BY <1>6, <1>7, <1>8, <1>9, SeqEqual
<1> QED
  BY <1>2, <1>10 DEF w, b

\* A part of a text is another text, rune by rune.
LEMMA SubSeqAt ==
    ASSUME NEW t \in Seq(Rune), NEW p \in Seq(Rune), NEW i \in 0..(Len(t) - Len(p))
    PROVE  SubSeq(t, i + 1, i + Len(p)) = p <=> \A j \in 1..Len(p) : t[i + j] = p[j]
<1> DEFINE m == i + 1
           n == i + Len(p)
           q == SubSeq(t, m, n)
<1>1. Len(t) \in Nat /\ Len(p) \in Nat
  BY LenProperties
<1>2. m \in Int /\ n \in Int /\ n - m + 1 = Len(p) /\ (m > n => Len(p) = 0)
  BY <1>1
<1>3. \A k \in m..n : t[k] \in Rune
  <2> TAKE k \in m..n
  <2>1. k \in 1..Len(t)
    BY <1>1
  <2> QED
    BY <2>1, ElementOfSeq
<1>4. \A j \in 1..Len(p) : m + j - 1 = i + j
  BY <1>1
<1> HIDE DEF m, n
<1>5. /\ q \in Seq(Rune) /\ Len(q) = IF m <= n THEN n - m + 1 ELSE 0
      /\ \A j \in 1..(n - m + 1) : q[j] = t[m + j - 1]
  BY <1>2, <1>3, SubSeqProperties
<1> HIDE DEF q
<1>6. Len(q) = Len(p) /\ \A j \in 1..Len(p) : q[j] = t[i + j]
  BY <1>1, <1>2, <1>4, <1>5
<1>7. q = p <=> \A j \in 1..Len(p) : q[j] = p[j]
  BY <1>5, <1>6, SeqEqual
<1> QED
  BY <1>6, <1>7 DEF q, m, n

\* Where a text contains another, rune by rune.
LEMMA ContainsAt ==
    ASSUME NEW t \in Seq(Rune), NEW p \in Seq(Rune)
    PROVE  Contains(t, p) <=>
               \E i \in 0..(Len(t) - Len(p)) : \A j \in 1..Len(p) : t[i + j] = p[j]
BY SubSeqAt DEF Contains

\* A Secret that ends in a text that fits the window lies in the window's runes.
LEMMA EndInNewest ==
    ASSUME NEW t \in Seq(Rune), NEW u \in Seq(Rune), FitsWindow(u), EndsIn(t, u)
    PROVE  Contains(Newest(t \o u), Secret)
<1> DEFINE v == t \o u
           n == Newest(v)
           p == Secret
<1>1. /\ Len(t) \in Nat /\ Len(u) \in Nat /\ Len(p) \in Nat /\ WindowLimit \in Nat
      /\ p \in Seq(Rune) /\ Len(p) > 0 /\ Len(u) + Len(p) <= WindowLimit + 1
  BY LenProperties, StreamAssumption DEF FitsWindow
<1>2. v \in Seq(Rune) /\ Len(v) = Len(t) + Len(u)
  BY ConcatProperties
<1>3. PICK i \in 0..(Len(v) - Len(p)) :
          i + Len(p) > Len(t) /\ SubSeq(v, i + 1, i + Len(p)) = p
  BY DEF EndsIn
<1> HIDE DEF v, p
<1>4. /\ n \in Seq(Rune)
      /\ Len(n) = IF Len(v) > WindowLimit THEN WindowLimit ELSE Len(v)
      /\ \A k \in 1..Len(n) : n[k] = v[Len(v) - Len(n) + k]
  BY <1>2, NewestFacts
<1> HIDE DEF n
<1>5. \A j \in 1..Len(p) : v[i + j] = p[j]
  BY <1>1, <1>2, <1>3, SubSeqAt
<1> DEFINE o == Len(v) - Len(n)
<1>6. /\ i - o \in 0..(Len(n) - Len(p)) /\ o \in Nat
      /\ \A j \in 1..Len(p) : (i - o) + j \in 1..Len(n) /\ o + ((i - o) + j) = i + j
  <2>1. Len(v) \in Nat /\ Len(n) \in Nat /\ o \in Nat /\ i \in Nat
    BY <1>1, <1>2, <1>4
  <2>2. i >= o
    BY <1>1, <1>2, <1>3, <1>4, <2>1
  <2>3. i + Len(p) <= Len(v)
    BY <1>1, <2>1
  <2>4. Len(v) = o + Len(n)
    BY <2>1
  <2> HIDE DEF o
  <2> QED
    BY <1>1, <2>1, <2>2, <2>3, <2>4
<1>7. \A j \in 1..Len(p) : n[(i - o) + j] = p[j]
  <2> TAKE j \in 1..Len(p)
  <2>1. n[(i - o) + j] = v[o + ((i - o) + j)]
    BY <1>4, <1>6
  <2> QED
    BY <1>5, <1>6, <2>1
<1> HIDE DEF o
<1>8. Contains(n, p)
  BY <1>1, <1>4, <1>6, <1>7, ContainsAt
<1> QED
  BY <1>8 DEF n, v, p

\* No Secret ends in nothing.
LEMMA NothingEnds ==
    ASSUME NEW t \in Seq(Rune)
    PROVE  ~ EndsIn(t, <<>>)
<1>1. t \o <<>> = t /\ Len(t) \in Nat /\ Len(Secret) \in Nat
  BY ConcatEmptySeq, LenProperties, StreamAssumption
<1>2. \A i \in 0..(Len(t) - Len(Secret)) : ~ (i + Len(Secret) > Len(t))
  BY <1>1
<1> QED
  BY <1>1, <1>2 DEF EndsIn

\* The frames in which a Secret ends are too long for the window.
Secretless(frames) ==
    \A k \in 1..Len(frames) :
        EndsIn(TextUpTo(frames)[k - 1], frames[k].text) => ~ FitsWindow(frames[k].text)

\* So are those with one more, if no Secret ends in it or it is too long.
LEMMA SecretlessAppend ==
    ASSUME NEW s \in Seq(Frame), NEW x \in Frame, Secretless(s),
           EndsIn(TextOf(s), x.text) => ~ FitsWindow(x.text)
    PROVE  Secretless(s \o <<x>>)
<1>1. PICK t : t = s \o <<x>>
  OBVIOUS
<1>2. /\ Len(t) = Len(s) + 1 /\ t[Len(s) + 1] = x /\ \A i \in 1..Len(s) : t[i] = s[i]
      /\ \A i \in 0..Len(s) : TextUpTo(t)[i] = TextUpTo(s)[i]
  BY <1>1, TextUpToAppend DEF OneMore
<1>3. Len(s) \in Nat
  BY LenProperties
<1>4. ASSUME NEW k \in 1..Len(t), EndsIn(TextUpTo(t)[k - 1], t[k].text)
      PROVE  ~ FitsWindow(t[k].text)
  <2>1. k - 1 \in 0..Len(s)
    BY <1>2, <1>3
  <2>2. TextUpTo(t)[k - 1] = TextUpTo(s)[k - 1]
    BY <1>2, <2>1
  <2>3. CASE k \in 1..Len(s)
    <3>1. t[k] = s[k]
      BY <1>2, <2>3
    <3> QED
      BY <1>4, <2>2, <2>3, <3>1 DEF Secretless
  <2>4. CASE k = Len(s) + 1
    <3>1. t[k] = x /\ TextUpTo(t)[k - 1] = TextOf(s)
      <4>1. k - 1 = Len(s)
        BY <1>3, <2>4
      <4> QED
        BY <1>2, <2>2, <2>4, <4>1 DEF TextOf
    <3> QED
      BY <1>4, <3>1
  <2> QED
    BY <1>2, <1>3, <2>3, <2>4
<1> QED
  BY <1>1, <1>4 DEF Secretless

\* That of the client's frames is the property.
LEMMA SecretlessWritten ==
    ASSUME written \in Seq(Frame)
    PROVE  SecretNotDelivered <=> Secretless(written)
<1>1. DOMAIN written = 1..Len(written)
  BY LenProperties
<1> QED
  BY <1>1 DEF SecretNotDelivered, Secretless

\* The window is the end of the text so far, of which all frames were let pass.
SecretInv ==
    /\ StreamInv
    /\ pc = "read" => window = Newest(collected)
    /\ pc \in {"read", "final"} /\ termination = "" => Secretless(written \o pending)
    /\ Secretless(written)

\* Before anything is read no secret is collected.
LEMMA SecretInit == Init => SecretInv
<1> SUFFICES ASSUME Init PROVE SecretInv
  OBVIOUS
<1>1. Newest(<<>>) = <<>>
  <2>1. Len(<<>>) = 0 /\ ~ (0 > WindowLimit)
    BY EmptySeq, StreamAssumption
  <2> QED
    BY <2>1 DEF Newest
<1>2. Secretless(<<>>)
  <2>1. Len(<<>>) = 0 /\ 1..0 = {}
    BY EmptySeq
  <2> QED
    BY <2>1 DEF Secretless
<1>3. <<>> \o <<>> = <<>>
  BY EmptySeq, ConcatEmptySeq
<1> QED
  BY <1>1, <1>2, <1>3, StreamInit DEF Init, SecretInv

\* A frame that passes completes no Secret, unless it is too long.
LEMMA FrameKeepsSecret ==
    ASSUME SecretInv, NEW f \in Frame, NextFrame(f)
    PROVE  SecretInv'
<1> DEFINE sent == written \o pending
<1>1. StreamInv' /\ StreamInv
  BY FrameStep DEF SecretInv
<1>2. /\ collected \in Seq(Rune) /\ f.text \in Seq(Rune) /\ sent \in Seq(Frame)
  BY <1>1, StreamAssumption, ConcatProperties DEF StreamInv, TypeOK, Frame
<1>3. /\ collected' = collected \o f.text
      /\ f.text # <<>> => Decide(window') \notin {"block", "redact"}
  BY <1>1, FrameFacts
<1>4. /\ window = Newest(collected) /\ termination = "" /\ TextOf(sent) = collected
      /\ Secretless(sent) /\ Secretless(written)
  BY <1>1 DEF SecretInv, StreamInv, NextFrame
<1> HIDE DEF sent
<1>5. window' = Newest(collected') /\ (EndsIn(collected, f.text) => ~ FitsWindow(f.text))
  <2>1. CASE f.text = <<>>
    <3>1. window' = window /\ collected' = collected
      BY <2>1 DEF NextFrame
    <3>2. ~ EndsIn(collected, f.text)
      BY <1>2, <2>1, NothingEnds
    <3> QED
      BY <1>4, <3>1, <3>2
  <2>2. CASE f.text # <<>>
    <3>1. window' = WindowAppend(window, f.text)
      BY <2>2 DEF NextFrame, Observe
    <3>2. window' = Newest(collected \o f.text)
      BY <1>2, <1>4, <3>1, WindowIsNewest
    <3>3. ~ Contains(window', Secret)
      BY <1>3, <2>2, StreamAssumption DEF Decide
    <3>4. EndsIn(collected, f.text) => ~ FitsWindow(f.text)
      BY <1>2, <3>2, <3>3, EndInNewest
    <3> QED
      BY <1>3, <3>2, <3>4
  <2> QED
    BY <2>1, <2>2
<1>6. Secretless(sent \o <<f>>)
  BY <1>2, <1>4, <1>5, SecretlessAppend
<1>7. (sent \o <<f>>) \o <<>> = sent \o <<f>>
  BY <1>2, TextAppend, ConcatEmptySeq
<1>8. /\ Secretless(written')
      /\ termination' = "" => Secretless(written' \o pending')
  <2>1. FramePassed(f)
    BY DEF NextFrame
  <2>2. CASE ~f.done /\ written' = sent /\ pending' = <<f>>
    BY <1>4, <1>6, <2>2
  <2>3. CASE f.done /\ written' = sent \o <<f>> /\ pending' = <<>>
    BY <1>6, <1>7, <2>3
  <2>4. CASE WriteFails(written)
    BY <1>4, <2>4 DEF WriteFails
  <2>5. CASE WriteFails(sent)
    BY <1>4, <2>5 DEF WriteFails
  <2> QED
    BY <2>1, <2>2, <2>3, <2>4, <2>5 DEF FramePassed, sent
<1> QED
  BY <1>1, <1>5, <1>8 DEF SecretInv

\* Every step delivers only frames that passed.
LEMMA SecretNext ==
    ASSUME SecretInv, [Next]_vars
    PROVE  SecretInv'
<1>1. StreamInv'
  BY StreamNext DEF SecretInv
<1>2. ASSUME NEW reason, NEW decided, reason # "", Terminate(reason, decided) PROVE SecretInv'
  BY <1>1, <1>2 DEF Terminate, SecretInv
<1>3. ASSUME NEW reason \in {"upstream_timeout", "sse_parse_error"}, ReadFails(reason)
      PROVE  SecretInv'
  BY <1>2, <1>3 DEF ReadFails
<1>4. ASSUME ParseFails PROVE SecretInv'
  BY <1>2, <1>4 DEF ParseFails
<1>5. ASSUME NEW text \in Deltas, DeltaRefused(text) PROVE SecretInv'
  BY <1>2, <1>5 DEF DeltaRefused
<1>6. ASSUME EndOfStream PROVE SecretInv'
  BY <1>1, <1>6 DEF EndOfStream, SecretInv
<1>7. ASSUME FinishStream PROVE SecretInv'
  <2>1. pc = "final" /\ pc' = "done"
    BY <1>7 DEF FinishStream
  <2>2. \/ written' = written
        \/ written' = written \o pending /\ termination = ""
    BY <1>7 DEF FinishStream, HeldIsDue
  <2> QED
    BY <1>1, <2>1, <2>2 DEF SecretInv
<1>8. ASSUME UNCHANGED vars PROVE SecretInv'
  BY <1>1, <1>8 DEF vars, SecretInv
<1> QED
  BY <1>3, <1>4, <1>5, <1>6, <1>7, <1>8, FrameKeepsSecret DEF Next

\* However a Secret is spread over frames of whatever length, the frame that
\* completes it is delivered only if its own text is too long for the window
\* (stream_buffer.go, StreamWindow.Append).
THEOREM SecretStays == Spec => []SecretNotDelivered
<1>1. SecretInv /\ [Next]_vars => SecretInv'
  BY SecretNext
<1>2. SecretInv => SecretNotDelivered
  BY SecretlessWritten DEF SecretInv, StreamInv, TypeOK
<1> QED
  BY <1>1, <1>2, SecretInit, PTL DEF Spec
=============================================================================
