--------------------------- MODULE IngestJobProofs ---------------------------
(***************************************************************************)
(* A job of any settings: how long it can take, when it gives up an image,   *)
(* and what it records of its analyses.                                      *)
(***************************************************************************)
EXTENDS IngestJob, SequenceTheorems, TLAPS

-----------------------------------------------------------------------------
(* Arithmetic.  Gap is one poll and the wait after it, Polling all of them    *)
(* but the last one.                                                         *)

Gap == GetTime + PollInterval
Polling == (PollAttempts - 1) * Gap

LEMMA ProductMonotone ==
  ASSUME NEW i \in Nat, NEW j \in Nat, NEW k \in Nat, i <= j PROVE i * k <= j * k
<1>1. PICK n \in Nat : j = i + n BY j - i \in Nat
<1>2. j * k = i * k + n * k BY <1>1
<1>3. n * k \in Nat /\ i * k \in Nat OBVIOUS
<1> QED BY <1>2, <1>3

LEMMA ProductStep ==
  ASSUME NEW i \in Nat, NEW k \in Nat PROVE (i + 1) * k = i * k + k
  OBVIOUS

LEMMA ConstantsTyped ==
  /\ GetTime \in Nat /\ Gap \in Nat /\ Polling \in Nat
  /\ GetTime = 3 * RequestTime + 3 * Backoff
  BY JobAssumption DEF GetTime, Gap, Polling, Sends

LEMMA WorstCaseSum == WorstCase = Polling + 2 * GetTime + 2 * VisionTime + RetryDelay
<1> DEFINE n == PollAttempts - 1
           g == GetTime
           i == PollInterval
<1>1. n \in Nat /\ g \in Nat /\ i \in Nat /\ VisionTime \in Nat /\ RetryDelay \in Nat
  BY JobAssumption, ConstantsTyped
<1>2. WorstCase = (n + 2) * g + n * i + 2 * VisionTime + RetryDelay
  BY JobAssumption, ConstantsTyped DEF WorstCase
<1>3. Polling = n * (g + i) BY DEF Polling, Gap
<1> HIDE DEF n, g, i
<1>4. (n + 2) * g = n * g + 2 * g BY <1>1
<1>5. n * (g + i) = n * g + n * i BY <1>1
<1>6. n * g \in Nat /\ n * i \in Nat BY <1>1
<1>7. WorstCase = Polling + 2 * g + 2 * VisionTime + RetryDelay
  BY <1>1, <1>2, <1>3, <1>4, <1>5, <1>6
<1> QED BY <1>7 DEF g

-----------------------------------------------------------------------------
(* The time a job has taken when it is about to do something. *)

\* By the requests of the current _get.
Spent == sends * RequestTime + (IF sends = 0 THEN 0 ELSE IF sends = 1 THEN Backoff ELSE 3 * Backoff)

TimeInv ==
  /\ pc = "start" => elapsed = 0 /\ Len(analyses) = 0
  /\ pc = "state" => elapsed <= polls * Gap + Spent /\ Len(analyses) = 0
  /\ pc = "image" => elapsed <= Polling + GetTime + Spent /\ Len(analyses) = 0
  /\ pc = "gate"  => elapsed <= Polling + 2 * GetTime /\ Len(analyses) = 0
  /\ pc = "analyze" => /\ Len(analyses) \in 0..1
                       /\ elapsed <= Polling + 2 * GetTime
                                       + (IF Len(analyses) = 0 THEN 0 ELSE VisionTime + RetryDelay)
  /\ elapsed <= Polling + 2 * GetTime + 2 * VisionTime + RetryDelay
  /\ pc = "start" => sends = 0 /\ polls = 0

\* A poll ends within one _get of the wait it is part of.
LEMMA PollsBounded ==
  ASSUME NEW n \in 0..(PollAttempts - 1)
  PROVE  n * Gap \in Nat /\ n * Gap <= Polling
<1>1. n \in Nat /\ PollAttempts - 1 \in Nat /\ n <= PollAttempts - 1 /\ Gap \in Nat
  BY JobAssumption, ConstantsTyped
<1> QED BY <1>1, ProductMonotone DEF Polling

LEMMA WithinTotal ==
  ASSUME NEW e \in Nat, e <= Polling + 2 * GetTime
  PROVE  e <= Polling + 2 * GetTime + 2 * VisionTime + RetryDelay
  BY JobAssumption, ConstantsTyped

LEMMA SpentBounded ==
  ASSUME sends \in 0..2
  PROVE  Spent \in Nat /\ Spent + RequestTime <= GetTime
<1>1. RequestTime \in Nat /\ Backoff \in Nat BY JobAssumption
<1>2. CASE sends = 0 BY <1>1, <1>2, ConstantsTyped DEF Spent
<1>3. CASE sends = 1 BY <1>1, <1>3, ConstantsTyped DEF Spent
<1>4. CASE sends = 2 BY <1>1, <1>4, ConstantsTyped DEF Spent
<1> QED BY <1>2, <1>3, <1>4

-----------------------------------------------------------------------------
(* What one call of a provider yields. *)

Faithful(call) ==
  /\ call.result \in Result /\ call.passing \in BOOLEAN
  /\ (call.result.status = "failed" /\ call.result.retryable) <=> call.passing

LEMMA FaithfulRecord ==
  ASSUME NEW res \in Result, NEW p \in BOOLEAN,
         (res.status = "failed" /\ res.retryable) <=> p
  PROVE  Faithful([result |-> res, passing |-> p])
<1> DEFINE c == [result |-> res, passing |-> p]
<1>1. c.result = res /\ c.passing = p OBVIOUS
<1> HIDE DEF c
<1>2. Faithful(c) BY <1>1 DEF Faithful
<1> QED BY <1>2 DEF c

\* A failure is faithful to an exchange that met what its code says.
LEMMA FailedRecord ==
  ASSUME NEW code \in Retryable \cup {"auth", "bad_response", "unexpected"},
         NEW p, p \in BOOLEAN,
         code \in {"timeout", "rate_limited", "server_error"} <=> p
  PROVE  Faithful([result |-> Failed(code), passing |-> p])
<1>1. Failed(code) \in Result /\ Failed(code).status = "failed"
  BY DEF Result, Failed, Retryable
<1>2. Failed(code).retryable <=> p
  BY DEF Failed, Retryable
<1> QED BY <1>1, <1>2, FaithfulRecord

LEMMA FailedFaithful ==
  ASSUME NEW code \in Retryable \cup {"auth", "bad_response", "unexpected"}
  PROVE  /\ Failed(code) \in Result /\ Failed(code).status = "failed"
         /\ Failed(code).retryable <=> code \in {"timeout", "rate_limited", "server_error"}
  BY DEF Result, Failed, Retryable

LEMMA OthersFaithful ==
  /\ Refused \in Result /\ Refused.status = "refused"
  /\ Observed \in Result /\ Observed.status = "ok"
  BY DEF Result, Refused, Observed

LEMMA StatusFaithful ==
  ASSUME NEW s \in Statuses \cup {0}
  PROVE  /\ StatusCode(s) \in Retryable \cup {"auth", "bad_response", "unexpected"}
         /\ StatusCode(s) \in {"timeout", "rate_limited", "server_error"} <=> s \in {429, 500, 503}
  BY DEF Statuses, StatusCode, Retryable

LEMMA OllamaFaithful ==
  ASSUME NEW r \in OllamaReply
  PROVE  Faithful([result |-> OllamaResult(r), passing |-> Passing(r)])
<1>1. CASE r \in {[kind |-> "lost", of |-> l] : l \in Lost}
  <2>1. r.kind = "lost" /\ r.of \in Lost BY <1>1
  <2>2. OllamaResult(r) = Failed(LostCode(r.of)) BY <2>1 DEF OllamaResult
  <2>3. /\ LostCode(r.of) \in Retryable \cup {"auth", "bad_response", "unexpected"}
        /\ LostCode(r.of) \in {"timeout", "rate_limited", "server_error"}
             <=> r.of \in {"deadline", "http_timeout", "transport"}
    BY <2>1 DEF Lost, LostCode, Retryable
  <2>4. Passing(r) = (r.of \in {"deadline", "http_timeout", "transport"})
    BY <2>1 DEF Passing
  <2>5. Passing(r) \in BOOLEAN BY <2>4
  <2> QED BY <2>2, <2>3, <2>4, <2>5, FailedRecord
<1>2. CASE r \in {[kind |-> "status", of |-> s] : s \in Statuses}
  <2>1. r.kind = "status" /\ r.of \in Statuses BY <1>2
  <2>2. OllamaResult(r) = Failed(StatusCode(r.of)) BY <2>1 DEF OllamaResult
  <2>3. Passing(r) = (r.of \in {429, 500, 503})
    BY <2>1 DEF Passing
  <2>4. Passing(r) \in BOOLEAN BY <2>3
  <2>5. /\ StatusCode(r.of) \in Retryable \cup {"auth", "bad_response", "unexpected"}
        /\ StatusCode(r.of) \in {"timeout", "rate_limited", "server_error"} <=> Passing(r)
    <3>1. /\ StatusCode(r.of) \in Retryable \cup {"auth", "bad_response", "unexpected"}
          /\ StatusCode(r.of) \in {"timeout", "rate_limited", "server_error"}
               <=> r.of \in {429, 500, 503}
      BY <2>1, StatusFaithful
    <3>2. r.of \in {429, 500, 503} <=> Passing(r) BY <2>3, ZenonT(60)
    <3> HIDE DEF Passing
    <3> QED BY <3>1, <3>2, ZenonT(60)
  <2> QED BY <2>2, <2>3, <2>4, <2>5, FailedRecord, ZenonT(60)
<1>3. CASE r \in {[kind |-> "body", of |-> b] : b \in Body}
  <2>1. r.kind = "body" /\ r.of \in Body BY <1>3
  <2>2. OllamaResult(r) = IF Parses(r.of) THEN Observed ELSE Failed("bad_response")
    BY <2>1 DEF OllamaResult
  <2>3. Passing(r) = FALSE BY <2>1 DEF Passing
  <2>4. CASE Parses(r.of)
    <3>1. OllamaResult(r) \in Result /\ OllamaResult(r).status = "ok"
      BY <2>2, <2>4, OthersFaithful
    <3> QED BY <3>1, <2>3, FaithfulRecord
  <2>5. CASE ~Parses(r.of)
    <3>1. OllamaResult(r) = Failed("bad_response") BY <2>2, <2>5
    <3> QED BY <3>1, <2>3, FailedRecord DEF Retryable
  <2> QED BY <2>4, <2>5
<1> QED BY <1>1, <1>2, <1>3 DEF OllamaReply

LEMMA AnthropicFaithful ==
  ASSUME NEW r \in AnthropicReply
  PROVE  Faithful([result |-> AnthropicResult(r), passing |-> Passing(r)])
<1>1. CASE r \in {[kind |-> "raised", name |-> n, code |-> s] : n \in Names, s \in Statuses \cup {0}}
  <2>1. r.kind = "raised" /\ r.name \in Names /\ r.code \in Statuses \cup {0} BY <1>1
  <2>2. AnthropicResult(r) = Failed(ExceptionCode(r)) BY <2>1 DEF AnthropicResult
  <2>3. /\ ExceptionCode(r) \in Retryable \cup {"auth", "bad_response", "unexpected"}
        /\ ExceptionCode(r) \in {"timeout", "rate_limited", "server_error"} <=>
             \/ r.name \in {"Timeout", "RateLimit", "InternalServer", "APIConnection", "Overloaded"}
             \/ r.name = "other" /\ r.code \in {429, 500, 503}
    BY <2>1, StatusFaithful DEF Names, ExceptionCode, Retryable
  <2>4. Passing(r) = \/ r.name \in {"Timeout", "RateLimit", "InternalServer", "APIConnection",
                                    "Overloaded"}
                     \/ r.name = "other" /\ r.code \in {429, 500, 503}
    BY <2>1 DEF Passing
  <2>5. Passing(r) \in BOOLEAN BY <2>4
  <2> QED BY <2>2, <2>3, <2>4, <2>5, FailedRecord, ZenonT(60)
<1>2. CASE r \in {[kind |-> "answered", refusal |-> f, parsed |-> p] : f \in BOOLEAN, p \in BOOLEAN}
  <2>1. r.kind = "answered" /\ r.refusal \in BOOLEAN /\ r.parsed \in BOOLEAN BY <1>2
  <2>2. AnthropicResult(r) = IF r.refusal THEN Refused
                             ELSE IF r.parsed THEN Observed ELSE Failed("bad_response")
    BY <2>1 DEF AnthropicResult
  <2>3. Passing(r) = FALSE
    BY <2>1 DEF Passing
  <2>4. CASE r.refusal
    <3>1. /\ AnthropicResult(r) \in Result /\ AnthropicResult(r).status = "refused"
      BY <2>1, <2>2, <2>3, <2>4, OthersFaithful
    <3> QED BY <3>1, <2>3, FaithfulRecord
  <2>5. CASE ~r.refusal /\ r.parsed
    <3>1. /\ AnthropicResult(r) \in Result /\ AnthropicResult(r).status = "ok"
      BY <2>1, <2>2, <2>3, <2>5, OthersFaithful
    <3> QED BY <3>1, <2>3, FaithfulRecord
  <2>6. CASE ~r.refusal /\ ~r.parsed
    <3>1. AnthropicResult(r) = Failed("bad_response") 
      BY <2>1, <2>2, <2>3, <2>6
    <3> QED BY <3>1, <2>3, FailedRecord DEF Retryable
  <2> QED BY <2>4, <2>5, <2>6
<1> QED BY <1>1, <1>2 DEF AnthropicReply

LEMMA CallsFaithful == ASSUME NEW call \in Calls PROVE Faithful(call)
<1>1. Faithful(Bug) BY FailedFaithful DEF Bug, Faithful, Retryable
<1>2. ASSUME call \in OllamaCalls PROVE Faithful(call)
  BY <1>2, OllamaFaithful DEF OllamaCalls
<1>3. ASSUME call \in AnthropicCalls PROVE Faithful(call)
  BY <1>3, AnthropicFaithful DEF AnthropicCalls
<1> QED BY <1>1, <1>2, <1>3 DEF Calls

-----------------------------------------------------------------------------
(* What a job knows besides the time. *)

\* The answers collected are those of the current _get, and all transient; an
\* image is at hand from the gate on; it is lost to a denial only.
AskInv ==
  /\ pc = "start" => answers = <<>>
  /\ Asking => Len(answers) = sends /\ \A i \in 1..Len(answers) : answers[i] \in Transient
  /\ pc \in {"gate", "analyze"} => image # "none"
  /\ pc = "image" /\ strategy = "image_entity_state" => image # "none"
  /\ strategy = "none" => pc \notin {"state", "image", "gate", "analyze"}
  /\ OutageKeepsTheImage

\* A result for every exchange, and a second call was earned.
CallInv ==
  /\ Len(exchanges) = Len(analyses)
  /\ pc = "analyze" => Len(analyses) \in 0..1 /\ (Len(analyses) = 1 => exchanges[1])
  /\ pc \in {"start", "state", "image", "gate"} => Len(analyses) = 0
  /\ OneRetryForPassing

JobInv == TypeOK /\ TimeInv /\ AskInv /\ CallInv

LEMMA JobInitInv == Init => JobInv
<1> SUFFICES ASSUME Init PROVE JobInv
  OBVIOUS
<1> USE JobAssumption
<1>1. TypeOK BY DEF Init, TypeOK, Sends
<1>2. TimeInv BY ConstantsTyped DEF Init, TimeInv
<1>3. AskInv BY DEF Init, AskInv, Asking, OutageKeepsTheImage
<1>4. CallInv BY DEF Init, CallInv, OneRetryForPassing
<1> QED BY <1>1, <1>2, <1>3, <1>4 DEF JobInv

\* One more answer of the current _get.
LEMMA AnswerAdded ==
  ASSUME TypeOK, AskInv, Asking, NEW a \in Answers, answers' = Append(answers, a)
  PROVE  /\ answers' \in Seq(Answers)
         /\ Len(answers') = sends + 1
         /\ answers'[Len(answers')] = a
         /\ \A i \in 1..sends : answers'[i] = answers[i] /\ answers[i] \in Transient
<1>1. answers \in Seq(Answers) /\ Len(answers) = sends /\ sends \in Nat
  BY DEF TypeOK, AskInv, Sends
<1>2. Len(answers') = sends + 1 /\ answers' \in Seq(Answers)
  BY <1>1
<1>3. answers'[Len(answers')] = a /\ \A i \in 1..sends : answers'[i] = answers[i]
  BY <1>1
<1> QED BY <1>1, <1>2, <1>3 DEF AskInv

-----------------------------------------------------------------------------
(* The steps that end a request. *)

LEMMA AgainInv == ASSUME JobInv, NEW a \in Answers, Again(a) PROVE JobInv'
<1> USE JobAssumption
<1>1. PICK d \in 0..RequestTime : elapsed' = elapsed + d + Backoff * (sends + 1)
  BY DEF Again
<1>2. /\ pc \in {"state", "image"} /\ sends \in 0..1 /\ sends' = sends + 1 /\ a \in Transient
      /\ answers' = Append(answers, a)
      /\ UNCHANGED <<input, pc, polls, image, analyses, outcome, exchanges>>
  BY DEF Again, Asking, JobInv, TypeOK, Sends
<1>3. /\ answers' \in Seq(Answers) /\ Len(answers') = sends + 1
      /\ answers'[sends + 1] = a
      /\ \A i \in 1..sends : answers'[i] = answers[i] /\ answers[i] \in Transient
  BY <1>2, AnswerAdded DEF Asking, JobInv
<1>4. Backoff * (sends + 1) \in Nat
  BY <1>2
<1>5. elapsed \in Nat /\ elapsed' \in Nat /\ d \in Nat /\ d <= RequestTime
  BY <1>1, <1>4 DEF JobInv, TypeOK
<1>6. TypeOK'
  BY <1>2, <1>3, <1>5 DEF JobInv, TypeOK, Sends, input
<1>7. Spent' = Spent + RequestTime + Backoff * (sends + 1)
  <2>1. CASE sends = 0 BY <1>2, <2>1 DEF Spent
  <2>2. CASE sends = 1 BY <1>2, <2>2 DEF Spent
  <2> QED BY <1>2, <2>1, <2>2
<1>8. TimeInv'
  <2>1. Spent \in Nat /\ Spent' \in Nat /\ Spent' + RequestTime <= GetTime /\ Spent' <= GetTime
    <3>1. Spent \in Nat BY <1>2, SpentBounded
    <3>2. sends' \in 0..2 BY <1>2
    <3>3. CASE sends' = 1 BY <1>2, <3>3, ConstantsTyped DEF Spent
    <3>4. CASE sends' = 2 BY <1>2, <3>4, ConstantsTyped DEF Spent
    <3> QED BY <1>2, <3>1, <3>3, <3>4
  <2>2. polls * Gap \in Nat /\ polls * Gap <= Polling
    BY PollsBounded DEF JobInv, TypeOK
  <2>3. CASE pc = "state"
    <3>1. elapsed <= polls * Gap + Spent BY <2>3 DEF JobInv, TimeInv
    <3>2. elapsed' <= polls * Gap + Spent'
      BY <1>1, <1>4, <1>5, <1>7, <2>1, <2>2, <3>1
    <3>3. elapsed' <= Polling + 2 * GetTime + 2 * VisionTime + RetryDelay
      <4>1. elapsed' <= Polling + GetTime
        <5> DEFINE x == polls * Gap
                   y == Spent'
        <5>1. x \in Nat /\ x <= Polling /\ y \in Nat /\ y <= GetTime /\ elapsed' <= x + y
          BY <2>1, <2>2, <3>2, Zenon
        <5> HIDE DEF x, y
        <5> QED BY <1>5, <5>1, ConstantsTyped
      <4> QED BY <1>5, <4>1, WithinTotal, ConstantsTyped
    <3>4. pc' = "state" /\ polls' = polls /\ Len(analyses') = 0
      BY <1>2, <2>3 DEF JobInv, TimeInv
    <3> QED BY <3>2, <3>3, <3>4 DEF TimeInv
  <2>4. CASE pc = "image"
    <3>1. elapsed <= Polling + GetTime + Spent BY <2>4 DEF JobInv, TimeInv
    <3>2. elapsed' <= Polling + GetTime + Spent'
      BY <1>1, <1>4, <1>5, <1>7, <2>1, <3>1, ConstantsTyped
    <3>3. elapsed' <= Polling + 2 * GetTime + 2 * VisionTime + RetryDelay
      <4> DEFINE y == Spent'
      <4>1. y \in Nat /\ y <= GetTime /\ elapsed' <= Polling + GetTime + y
        BY <2>1, <3>2, Zenon
      <4> HIDE DEF y
      <4>2. elapsed' <= Polling + 2 * GetTime BY <1>5, <4>1, ConstantsTyped
      <4> QED BY <1>5, <4>2, WithinTotal
    <3>4. pc' = "image" /\ Len(analyses') = 0
      BY <1>2, <2>4 DEF JobInv, TimeInv
    <3> QED BY <3>2, <3>3, <3>4 DEF TimeInv
  <2> QED BY <1>2, <2>3, <2>4
<1>9. AskInv'
  <2>1. Len(answers') = sends' /\ \A i \in 1..Len(answers') : answers'[i] \in Transient
    BY <1>2, <1>3
  <2> QED BY <1>2, <2>1 DEF JobInv, AskInv, Asking, OutageKeepsTheImage, input
<1>10. CallInv'
  BY <1>2 DEF JobInv, CallInv, OneRetryForPassing
<1> QED BY <1>6, <1>8, <1>9, <1>10 DEF JobInv

\* A request that ends, however it does, ends within its _get.
LEMMA RequestEnds ==
  ASSUME JobInv, Asking, NEW d \in 0..RequestTime
  PROVE  /\ elapsed + d \in Nat
         /\ pc = "state" => elapsed + d <= polls * Gap + GetTime /\ polls * Gap + GetTime <= Polling + GetTime
         /\ pc = "image" => elapsed + d <= Polling + 2 * GetTime
         /\ elapsed + d <= Polling + 2 * GetTime
<1>1. Spent \in Nat /\ Spent + RequestTime <= GetTime
  BY SpentBounded DEF JobInv, TypeOK, Sends
<1>2. polls * Gap \in Nat /\ polls * Gap <= Polling
  BY PollsBounded DEF JobInv, TypeOK
<1>3. elapsed \in Nat /\ d \in Nat /\ d <= RequestTime /\ RequestTime \in Nat
  BY JobAssumption DEF JobInv, TypeOK
<1>4. CASE pc = "state"
  <2>1. elapsed <= polls * Gap + Spent BY <1>4 DEF JobInv, TimeInv
  <2> QED BY <1>1, <1>2, <1>3, <1>4, <2>1, ConstantsTyped
<1>5. CASE pc = "image"
  <2>1. elapsed <= Polling + GetTime + Spent BY <1>5 DEF JobInv, TimeInv
  <2> QED BY <1>1, <1>2, <1>3, <1>5, <2>1, ConstantsTyped
<1> QED BY <1>4, <1>5 DEF Asking

\* Ending the job at any time it may have taken by then.
LEMMA EndInv ==
  ASSUME JobInv, NEW o \in Outcomes, End(o), sends' \in 0..2, UNCHANGED <<input, polls, image, analyses, exchanges>>,
         answers' \in Seq(Answers), Len(answers') <= 3,
         elapsed' \in Nat, elapsed' <= Polling + 2 * GetTime + 2 * VisionTime + RetryDelay
  PROVE  JobInv'
<1>1. TypeOK' BY DEF JobInv, TypeOK, Sends, End, input
<1>2. TimeInv' BY DEF End, TimeInv
<1>3. AskInv' BY DEF End, AskInv, Asking, OutageKeepsTheImage
<1>4. CallInv' BY DEF JobInv, CallInv, OneRetryForPassing, End
<1> QED BY <1>1, <1>2, <1>3, <1>4 DEF JobInv

\* Leaving the requests for the write of the event, or the gate, or the image.
LEMMA GiveUpInv ==
  ASSUME JobInv, NEW a \in Answers, GiveUp(a) \/ Garbled(a) PROVE JobInv'
<1> USE JobAssumption
<1>1. /\ Asking /\ answers' = Append(answers, a) /\ sends' = 0
      /\ UNCHANGED <<input, polls, image, analyses, exchanges>>
      /\ \E o \in Outcomes : End(o)
  BY DEF GiveUp, Garbled, Answered, Asking, Outcomes
<1>2. PICK d \in 0..RequestTime : elapsed' = elapsed + d
  BY DEF GiveUp, Garbled, Answered
<1>3. elapsed' \in Nat /\ elapsed' <= Polling + 2 * GetTime
  BY <1>1, <1>2, RequestEnds
<1>4. answers' \in Seq(Answers) /\ Len(answers') <= 3
  BY <1>1, AnswerAdded DEF JobInv, TypeOK, Sends
<1> QED BY <1>1, <1>3, <1>4, EndInv, ConstantsTyped

LEMMA DeniedInv == ASSUME JobInv, NEW a \in Answers, Denied(a) PROVE JobInv'
<1> USE JobAssumption
<1>1. /\ Asking /\ a \in Permanent /\ answers' = Append(answers, a) /\ sends' = 0
      /\ image' = "none" /\ pc' = "persist"
      /\ UNCHANGED <<input, polls, analyses, outcome, exchanges>>
  BY DEF Denied, Answered
<1>2. PICK d \in 0..RequestTime : elapsed' = elapsed + d
  BY DEF Denied, Answered
<1>3. elapsed' \in Nat /\ elapsed' <= Polling + 2 * GetTime
  BY <1>1, <1>2, RequestEnds
<1>4. /\ answers' \in Seq(Answers) /\ Len(answers') = sends + 1
      /\ answers'[Len(answers')] = a
      /\ \A i \in 1..sends : answers'[i] \in Transient
  BY <1>1, AnswerAdded DEF JobInv
<1>5. sends \in 0..2 BY DEF JobInv, TypeOK, Sends
<1>6. TypeOK' BY <1>1, <1>3, <1>4, <1>5 DEF JobInv, TypeOK, Sends, input
<1>7. TimeInv' BY <1>1, <1>3, ConstantsTyped DEF TimeInv
<1>8. AskInv'
  <2>1. OutageKeepsTheImage'
    <3>1. answers' # <<>> BY <1>4, <1>5
    <3>2. \A i \in 1..(Len(answers') - 1) : answers'[i] \in Transient BY <1>4, <1>5
    <3> QED BY <1>1, <1>4, <3>1, <3>2 DEF OutageKeepsTheImage
  <2> QED BY <1>1, <2>1 DEF AskInv, Asking
<1>9. CallInv'
  BY <1>1 DEF JobInv, CallInv, OneRetryForPassing, Asking
<1> QED BY <1>6, <1>7, <1>8, <1>9 DEF JobInv

LEMMA FetchedInv == ASSUME JobInv, NEW a \in Answers, Fetched(a) PROVE JobInv'
<1> USE JobAssumption
<1>1. /\ pc = "image" /\ sends' = 0 /\ answers' = <<>> /\ pc' = "gate"
      /\ image' = IF strategy = "camera_snapshot" THEN "verified" ELSE image
      /\ UNCHANGED <<input, polls, analyses, outcome, exchanges>>
  BY DEF Fetched, NextRequest
<1>2. PICK d \in 0..RequestTime : elapsed' = elapsed + d
  BY DEF Fetched
<1>3. elapsed' \in Nat /\ elapsed' <= Polling + 2 * GetTime
  BY <1>1, <1>2, RequestEnds DEF Asking
<1>4. image' # "none"
  BY <1>1 DEF JobInv, AskInv, TypeOK
<1>5. TypeOK' BY <1>1, <1>3 DEF JobInv, TypeOK, Sends, input
<1>6. TimeInv' BY <1>1, <1>3, ConstantsTyped DEF JobInv, TimeInv
<1>7. AskInv' BY <1>1, <1>4 DEF JobInv, AskInv, Asking, OutageKeepsTheImage, input
<1>8. CallInv' BY <1>1 DEF JobInv, CallInv, OneRetryForPassing
<1> QED BY <1>5, <1>6, <1>7, <1>8 DEF JobInv

-----------------------------------------------------------------------------
(* The steps that end a read of the state. *)

LEMMA ReadInv == ASSUME JobInv, Read PROVE JobInv'
<1> USE JobAssumption
<1>1. /\ pc = "state" /\ sends' = 0 /\ answers' = <<>>
      /\ UNCHANGED <<input, analyses, exchanges>>
  BY DEF Read, ReadFresh, ReadAgain, ReadUnknown, ReadStale, NextRequest
<1>2. strategy # "none" /\ Len(analyses) = 0 /\ polls \in 0..(PollAttempts - 1)
  BY <1>1 DEF JobInv, TypeOK, AskInv, TimeInv
<1>3. ASSUME NEW d \in 0..RequestTime
      PROVE  /\ elapsed + d \in Nat
             /\ elapsed + d <= polls * Gap + GetTime
             /\ elapsed + d <= Polling + GetTime
  <2>1. polls * Gap \in Nat BY <1>2, PollsBounded
  <2>2. /\ elapsed + d \in Nat
        /\ elapsed + d <= polls * Gap + GetTime /\ polls * Gap + GetTime <= Polling + GetTime
    BY <1>1, RequestEnds DEF Asking
  <2> QED BY <2>1, <2>2, ConstantsTyped
<1>4. CASE ReadFresh \/ ReadUnknown
  <2>1. PICK d \in 0..RequestTime : elapsed' = elapsed + d
    BY <1>4 DEF ReadFresh, ReadUnknown
  <2>2. elapsed' \in Nat /\ elapsed' <= Polling + GetTime BY <1>3, <2>1
  <2>3. pc' = "image" /\ polls' = 0 /\ image' \in {"verified", "unverified"} /\ UNCHANGED outcome
    BY <1>4 DEF ReadFresh, ReadUnknown
  <2>4. TypeOK' BY <1>1, <2>2, <2>3 DEF JobInv, TypeOK, Sends, input
  <2>5. TimeInv'
    <3>1. Spent' = 0 BY <1>1 DEF Spent
    <3>2. elapsed' <= Polling + GetTime + Spent' BY <2>2, <3>1, ConstantsTyped
    <3>3. elapsed' <= Polling + 2 * GetTime + 2 * VisionTime + RetryDelay
      BY <2>2, ConstantsTyped
    <3> QED BY <1>1, <1>2, <2>3, <3>2, <3>3 DEF TimeInv
  <2>6. AskInv' BY <1>1, <1>2, <2>3 DEF AskInv, Asking, OutageKeepsTheImage, input
  <2>7. CallInv' BY <1>1, <1>2, <2>3 DEF JobInv, CallInv, OneRetryForPassing
  <2> QED BY <2>4, <2>5, <2>6, <2>7 DEF JobInv
<1>5. CASE ReadAgain
  <2>1. PICK d \in 0..RequestTime : elapsed' = elapsed + d + PollInterval
    BY <1>5 DEF ReadAgain
  <2>2. polls' = polls + 1 /\ polls + 1 < PollAttempts /\ pc' = pc /\ UNCHANGED <<image, outcome>>
    BY <1>5 DEF ReadAgain
  <2>3. polls' \in 0..(PollAttempts - 1) /\ polls \in Nat BY <1>2, <2>2
  <2>4. polls' * Gap = polls * Gap + Gap
    BY <2>2, <2>3, ProductStep, ConstantsTyped
  <2>5. elapsed' \in Nat /\ elapsed' <= polls' * Gap
    <3>1. polls * Gap \in Nat BY <1>2, PollsBounded
    <3>2. elapsed + d \in Nat /\ elapsed + d <= polls * Gap + GetTime BY <1>3
    <3>3. Gap = GetTime + PollInterval BY DEF Gap
    <3> QED BY <2>1, <2>4, <3>1, <3>2, <3>3, ConstantsTyped
  <2>6. polls' * Gap \in Nat /\ polls' * Gap <= Polling
    BY <2>3, PollsBounded
  <2>7. TypeOK' BY <1>1, <2>2, <2>3, <2>5 DEF JobInv, TypeOK, Sends, input
  <2>8. TimeInv'
    <3>1. Spent' = 0 BY <1>1 DEF Spent
    <3>2. elapsed' <= polls' * Gap + Spent' BY <2>5, <2>6, <3>1
    <3>3. elapsed' <= Polling + 2 * GetTime + 2 * VisionTime + RetryDelay
      BY <2>5, <2>6, ConstantsTyped
    <3> QED BY <1>1, <1>2, <2>2, <3>2, <3>3 DEF TimeInv
  <2>9. AskInv' BY <1>1, <1>2, <2>2 DEF AskInv, Asking, OutageKeepsTheImage, input
  <2>10. CallInv' BY <1>1, <1>2, <2>2 DEF JobInv, CallInv, OneRetryForPassing
  <2> QED BY <2>7, <2>8, <2>9, <2>10 DEF JobInv
<1>6. CASE ReadStale
  <2>1. PICK d \in 0..RequestTime : elapsed' = elapsed + d
    BY <1>6 DEF ReadStale
  <2>2. elapsed' \in Nat /\ elapsed' <= Polling + GetTime BY <1>3, <2>1
  <2>3. End("rejected_stale") /\ UNCHANGED <<polls, image>> BY <1>6 DEF ReadStale
  <2>4. sends' \in 0..2 /\ answers' \in Seq(Answers) /\ Len(answers') <= 3 BY <1>1
  <2>5. "rejected_stale" \in Outcomes BY DEF Outcomes
  <2>6. elapsed' <= Polling + 2 * GetTime + 2 * VisionTime + RetryDelay
    BY <2>2, ConstantsTyped
  <2> QED BY <1>1, <2>2, <2>3, <2>4, <2>5, <2>6, EndInv
<1> QED BY <1>4, <1>5, <1>6 DEF Read

-----------------------------------------------------------------------------
(* The other steps. *)

\* Ending at a moment of no request.
LEMMA QuietEndInv ==
  ASSUME JobInv, NEW o \in Outcomes, End(o),
         UNCHANGED <<input, elapsed, sends, polls, image, analyses, history>>
  PROVE  JobInv'
<1>1. /\ sends' \in 0..2 /\ answers' \in Seq(Answers) /\ Len(answers') <= 3
      /\ UNCHANGED <<input, polls, image, analyses, exchanges>>
  BY DEF JobInv, TypeOK, Sends, history
<1>2. elapsed' \in Nat /\ elapsed' <= Polling + 2 * GetTime + 2 * VisionTime + RetryDelay
  BY DEF JobInv, TypeOK, TimeInv
<1> QED BY <1>1, <1>2, EndInv

LEMMA EndingsInv == ASSUME JobInv, Reject \/ Dedupe \/ Refuse \/ Persist PROVE JobInv'
<1>1. \E o \in Outcomes : End(o)
  BY DEF Reject, Dedupe, Refuse, Persist, Outcomes
<1>2. UNCHANGED <<input, elapsed, sends, polls, image, analyses, history>>
  BY DEF Reject, Dedupe, Refuse, Persist
<1> QED BY <1>1, <1>2, QuietEndInv

LEMMA BeginInv == ASSUME JobInv, Begin PROVE JobInv'
<1>1. /\ pc = "start" /\ pc' \in {"persist", "image", "state"}
      /\ pc' = "persist" => strategy = "none"
      /\ pc' = "state" => strategy = "image_entity_state"
      /\ pc' = "image" => strategy = "camera_snapshot"
      /\ UNCHANGED <<strategy, provider, wellFormed, elapsed, sends, polls, image, analyses,
                     outcome, answers, exchanges>>
  BY DEF Begin, JobInv, TypeOK, input, history
<1>2. /\ elapsed = 0 /\ Len(analyses) = 0 /\ sends = 0 /\ polls = 0 /\ answers = <<>>
      /\ Spent' = 0
  <2>1. elapsed = 0 /\ Len(analyses) = 0 /\ sends = 0 /\ polls = 0 /\ answers = <<>>
    BY <1>1 DEF JobInv, TimeInv, AskInv
  <2>2. Spent' = 0 BY <1>1, <2>1, JobAssumption DEF Spent
  <2> QED BY <2>1, <2>2
<1>3. TypeOK' BY <1>1 DEF JobInv, TypeOK
<1>4. TimeInv'
  <2>1. polls' * Gap = 0 /\ elapsed' = 0 BY <1>1, <1>2, ConstantsTyped
  <2>2. elapsed' <= polls' * Gap + Spent' /\ elapsed' <= Polling + GetTime + Spent'
    BY <1>2, <2>1, ConstantsTyped
  <2>3. elapsed' <= Polling + 2 * GetTime + 2 * VisionTime + RetryDelay
    BY <2>1, JobAssumption, ConstantsTyped
  <2> QED BY <1>1, <1>2, <2>2, <2>3 DEF TimeInv
<1>5. AskInv' BY <1>1, <1>2 DEF AskInv, Asking, OutageKeepsTheImage
<1>6. CallInv' BY <1>1, <1>2 DEF JobInv, CallInv, OneRetryForPassing
<1> QED BY <1>3, <1>4, <1>5, <1>6 DEF JobInv

LEMMA AdmitInv == ASSUME JobInv, Admit PROVE JobInv'
<1>1. /\ pc = "gate" /\ pc' = "analyze"
      /\ UNCHANGED <<strategy, provider, wellFormed, elapsed, sends, polls, image, analyses,
                     outcome, answers, exchanges>>
  BY DEF Admit, input, history
<1>2. TypeOK' BY <1>1 DEF JobInv, TypeOK
<1>3. TimeInv'
  <2>1. elapsed' <= Polling + 2 * GetTime /\ Len(analyses') = 0 /\ elapsed' \in Nat
    BY <1>1 DEF JobInv, TypeOK, TimeInv
  <2> QED BY <1>1, <2>1, WithinTotal, ConstantsTyped DEF TimeInv
<1>4. AskInv' BY <1>1 DEF JobInv, AskInv, Asking, OutageKeepsTheImage
<1>5. CallInv' BY <1>1 DEF JobInv, CallInv, OneRetryForPassing
<1> QED BY <1>2, <1>3, <1>4, <1>5 DEF JobInv

LEMMA AnalyzeInv == ASSUME JobInv, Analyze PROVE JobInv'
<1> USE JobAssumption
<1>1. PICK call \in Calls, d \in 0..VisionTime :
        /\ analyses' = Append(analyses, call.result)
        /\ exchanges' = Append(exchanges, call.passing)
        /\ elapsed' = elapsed + d + (IF Retries(call.result) THEN RetryDelay ELSE 0)
        /\ pc' = IF Retries(call.result) THEN "analyze" ELSE "persist"
  BY DEF Analyze
<1>2. /\ pc = "analyze"
      /\ UNCHANGED <<strategy, provider, wellFormed, sends, polls, image, outcome, answers>>
  BY DEF Analyze, input
<1>3. /\ call.result \in Result /\ call.passing \in BOOLEAN
      /\ (call.result.status = "failed" /\ call.result.retryable) <=> call.passing
  BY CallsFaithful DEF Faithful
<1>4. /\ analyses \in Seq(Result) /\ Len(analyses) \in 0..1
      /\ exchanges \in Seq(BOOLEAN)
      /\ Len(exchanges) = Len(analyses)
      /\ elapsed \in Nat
      /\ elapsed <= Polling + 2 * GetTime
                      + (IF Len(analyses) = 0 THEN 0 ELSE VisionTime + RetryDelay)
  BY <1>2 DEF JobInv, TypeOK, TimeInv, CallInv
<1> DEFINE n == Len(analyses)
<1>6. /\ analyses' \in Seq(Result) /\ Len(analyses') = n + 1 /\ analyses'[n + 1] = call.result
      /\ exchanges' \in Seq(BOOLEAN)
      /\ Len(exchanges') = n + 1 /\ exchanges'[n + 1] = call.passing
      /\ \A i \in 1..n : analyses'[i] = analyses[i] /\ exchanges'[i] = exchanges[i]
  BY <1>1, <1>3, <1>4
<1>7. Retries(call.result) <=> n = 0 /\ call.passing
  BY <1>3 DEF Retries
<1>8. Len(analyses') \in 1..2 /\ (Len(analyses') = 1 <=> n = 0)
  <2>1. n \in 0..1 /\ Len(analyses') = n + 1
    BY ONLY <1>4, <1>6
  <2> HIDE DEF n
  <2> QED BY ONLY <2>1
<1>9. TypeOK'
  <2>1. elapsed' \in Nat BY <1>1, <1>4
  <2> QED BY <1>1, <1>2, <1>6, <1>8, <2>1 DEF JobInv, TypeOK, Sends
<1>10. TimeInv'
  <2>1. CASE Retries(call.result)
    <3>1. n = 0 /\ elapsed' = elapsed + d + RetryDelay /\ pc' = "analyze"
      BY <1>1, <1>7, <2>1
    <3>2. elapsed' <= Polling + 2 * GetTime + (VisionTime + RetryDelay)
      BY <1>4, <3>1, ConstantsTyped
    <3>3. elapsed' <= Polling + 2 * GetTime + 2 * VisionTime + RetryDelay
      BY <1>1, <1>4, <3>2, ConstantsTyped
    <3>4. Len(analyses') = 1 BY <1>8, <3>1
    <3>5. elapsed' <= Polling + 2 * GetTime
                       + (IF Len(analyses') = 0 THEN 0 ELSE VisionTime + RetryDelay)
      BY <3>2, <3>4
    <3> HIDE JobAssumption
    <3> QED BY <3>1, <3>3, <3>4, <3>5 DEF TimeInv
  <2>2. CASE ~Retries(call.result)
    <3>1. elapsed' = elapsed + d /\ pc' = "persist" BY <1>1, <1>4, <2>2
    <3>2. elapsed' <= Polling + 2 * GetTime + 2 * VisionTime + RetryDelay
      BY <1>4, <3>1, ConstantsTyped
    <3> QED BY <3>1, <3>2 DEF TimeInv
  <2> QED BY <2>1, <2>2
<1>11. AskInv'
  <2>1. image # "none" /\ strategy # "none" BY <1>2 DEF JobInv, AskInv
  <2> QED BY <1>1, <1>2, <2>1 DEF AskInv, Asking, OutageKeepsTheImage
<1>12. CallInv'
  <2>1. CASE n = 0
    <3>1. Len(analyses') = 1 /\ exchanges'[1] = call.passing
      BY <1>6, <2>1
    <3>2. pc' = IF call.passing THEN "analyze" ELSE "persist"
      BY <1>1, <1>7, <2>1
    <3> QED BY <1>6, <2>1, <3>1, <3>2 DEF CallInv, OneRetryForPassing
  <2>2. CASE n = 1
    <3>1. exchanges[1] BY <1>2, <2>2 DEF JobInv, CallInv
    <3>2. Len(analyses') = 2 /\ exchanges'[1] BY <1>6, <2>2, <3>1
    <3>3. pc' = "persist" BY <1>1, <1>7, <2>2
    <3> QED BY <1>6, <2>2, <3>2, <3>3 DEF CallInv, OneRetryForPassing
  <2> QED BY <1>4, <2>1, <2>2
<1> QED BY <1>9, <1>10, <1>11, <1>12 DEF JobInv

-----------------------------------------------------------------------------
(* Every step, and what follows for every job. *)

LEMMA JobStepInv == JobInv /\ [Next]_vars => JobInv'
<1> SUFFICES ASSUME JobInv, [Next]_vars PROVE JobInv'
  OBVIOUS
<1>1. CASE Reject \/ Dedupe \/ Refuse \/ Persist BY <1>1, EndingsInv
<1>2. CASE Begin BY <1>2, BeginInv
<1>3. CASE Admit BY <1>3, AdmitInv
<1>4. CASE Analyze BY <1>4, AnalyzeInv
<1>5. CASE Read BY <1>5, ReadInv
<1>6. CASE \E a \in Answers : Request(a)
  <2>1. PICK a \in Answers : Request(a) BY <1>6
  <2> QED BY <2>1, AgainInv, GiveUpInv, DeniedInv, FetchedInv DEF Request
<1>7. CASE UNCHANGED vars
  <2>1. UNCHANGED <<strategy, provider, wellFormed, pc, elapsed, sends, polls, image, analyses,
                    outcome, answers, exchanges>>
    BY <1>7 DEF vars, input, history
  <2>2. TypeOK' BY <2>1 DEF JobInv, TypeOK
  <2>3. TimeInv'
    <3>1. Spent' = Spent BY <2>1 DEF Spent
    <3> QED BY <2>1, <3>1 DEF JobInv, TimeInv
  <2>4. AskInv' BY <2>1 DEF JobInv, AskInv, Asking, OutageKeepsTheImage
  <2>5. CallInv' BY <2>1 DEF JobInv, CallInv, OneRetryForPassing
  <2> QED BY <2>2, <2>3, <2>4, <2>5 DEF JobInv
<1> QED BY <1>1, <1>2, <1>3, <1>4, <1>5, <1>6, <1>7 DEF Next

LEMMA JobAlways == Spec => []JobInv
  BY JobInitInv, JobStepInv, PTL DEF Spec

\* Every variable of a job stays within its type, whatever is answered.
THEOREM JobTyped == Spec => []TypeOK
<1>1. JobInv => TypeOK BY DEF JobInv
<1> QED BY <1>1, JobAlways, PTL

\* However process_delivery's requests, polls and vision calls fail, a job is
\* over within the worst case, for every timeout, backoff and poll setting.
THEOREM JobStaysBounded == Spec => []JobIsBounded
<1>1. JobInv => JobIsBounded BY WorstCaseSum DEF JobInv, TimeInv, JobIsBounded
<1> QED BY <1>1, JobAlways, PTL

\* _analyze_with_retry calls again once, and after a passing obstacle only.
THEOREM RetryStaysEarned == Spec => []OneRetryForPassing
<1>1. JobInv => OneRetryForPassing BY DEF JobInv, CallInv
<1> QED BY <1>1, JobAlways, PTL

\* An event is stored without its image only after a denial of Home Assistant.
THEOREM OutageAlwaysKeepsTheImage == Spec => []OutageKeepsTheImage
<1>1. JobInv => OutageKeepsTheImage BY DEF JobInv, AskInv
<1> QED BY <1>1, JobAlways, PTL
-----------------------------------------------------------------------------
(* The lease.  The budget the settings are checked against leaves out the     *)
(* requests to Home Assistant: the margin and one poll interval are there for *)
(* all of them.                                                              *)

LEMMA RequestsBeyondBudget ==
  ASSUME NEW margin \in Nat
  PROVE  WorstCase - AnalysisBudget(margin) = (PollAttempts + 1) * GetTime - PollInterval - margin
<1> DEFINE n == PollAttempts
           g == (PollAttempts + 1) * GetTime
           i == PollInterval
           v == VisionTime
           w == PollAttempts * PollInterval
<1>1. n \in Nat /\ i \in Nat /\ v \in Nat /\ RetryDelay \in Nat
  BY JobAssumption
<1>2. g \in Nat /\ w \in Nat
  BY JobAssumption, ConstantsTyped
<1>3. (n - 1) * i = w - i
  BY <1>1
<1>4. WorstCase = g + (n - 1) * i + 2 * v + RetryDelay
  BY DEF WorstCase
<1>5. AnalysisBudget(margin) = w + 2 * v + RetryDelay + margin
  BY DEF AnalysisBudget
<1> HIDE DEF g, w, n, i, v
<1>6. WorstCase - AnalysisBudget(margin) = g - i - margin
  BY <1>1, <1>2, <1>3, <1>4, <1>5
<1> QED BY <1>6 DEF g, i

\* A lease that exceeds analysis_budget_seconds outlasts every job, whatever
\* fails in it, as soon as the requests to Home Assistant fit the margin and one
\* poll interval: DeliveryQueue's JobBudget < Lease, from the check at startup.
THEOREM LeaseOutlastsJob ==
  ASSUME NEW margin \in Nat, NEW lease \in Nat, lease > AnalysisBudget(margin),
         (PollAttempts + 1) * GetTime <= PollInterval + margin
  PROVE  Spec => [](elapsed < lease)
<1>1. WorstCase <= AnalysisBudget(margin)
  <2>1. WorstCase \in Int /\ AnalysisBudget(margin) \in Int
    <3>1. (PollAttempts + 1) * GetTime \in Int /\ PollAttempts * PollInterval \in Int
          /\ (PollAttempts - 1) * PollInterval \in Int
      BY JobAssumption, ConstantsTyped
    <3> QED BY <3>1, JobAssumption DEF WorstCase, AnalysisBudget
  <2>2. (PollAttempts + 1) * GetTime \in Int
    BY JobAssumption, ConstantsTyped
  <2> QED BY <2>1, <2>2, RequestsBeyondBudget, JobAssumption
<1>2. WorstCase \in Int /\ AnalysisBudget(margin) \in Int
  <2>1. (PollAttempts + 1) * GetTime \in Int /\ PollAttempts * PollInterval \in Int
        /\ (PollAttempts - 1) * PollInterval \in Int
    BY JobAssumption, ConstantsTyped
  <2> QED BY <2>1, JobAssumption DEF WorstCase, AnalysisBudget
<1>3. TypeOK /\ JobIsBounded => elapsed < lease
  BY <1>1, <1>2 DEF TypeOK, JobIsBounded
<1> QED BY <1>3, JobTyped, JobStaysBounded, PTL

-----------------------------------------------------------------------------
(* The end.  That a job ends needs fairness; that it has only so many steps   *)
(* does not.                                                                *)

LeftAt(place, sent, polled, called) ==
  CASE place = "start"   -> 4 * PollAttempts + 10
    [] place = "state"   -> 4 * (PollAttempts - polled) - sent + 8
    [] place = "image"   -> 8 - sent
    [] place = "gate"    -> 5
    [] place = "analyze" -> 4 - called
    [] place = "persist" -> 2
    [] place = "done"    -> 0

StepsLeft == LeftAt(pc, sends, polls, Len(analyses))

LEMMA LeftValues ==
  ASSUME NEW place, NEW s, NEW p, NEW n, NEW left, left = LeftAt(place, s, p, n)
  PROVE  /\ place = "start" => left = 4 * PollAttempts + 10
         /\ place = "state" => left = 4 * (PollAttempts - p) - s + 8
         /\ place = "image" => left = 8 - s
         /\ place = "gate" => left = 5
         /\ place = "analyze" => left = 4 - n
         /\ place = "persist" => left = 2
         /\ place = "done" => left = 0
  BY DEF LeftAt

\* What is left now, and after a step.
LEMMA LeftNow ==
  /\ pc = "start" => StepsLeft = 4 * PollAttempts + 10
  /\ pc = "state" => StepsLeft = 4 * (PollAttempts - polls) - sends + 8
  /\ pc = "image" => StepsLeft = 8 - sends
  /\ pc = "gate" => StepsLeft = 5
  /\ pc = "analyze" => StepsLeft = 4 - Len(analyses)
  /\ pc = "persist" => StepsLeft = 2
  /\ pc = "done" => StepsLeft = 0
  BY LeftValues DEF StepsLeft

LEMMA LeftNext ==
  /\ pc' = "start" => StepsLeft' = 4 * PollAttempts + 10
  /\ pc' = "state" => StepsLeft' = 4 * (PollAttempts - polls') - sends' + 8
  /\ pc' = "image" => StepsLeft' = 8 - sends'
  /\ pc' = "gate" => StepsLeft' = 5
  /\ pc' = "analyze" => StepsLeft' = 4 - Len(analyses')
  /\ pc' = "persist" => StepsLeft' = 2
  /\ pc' = "done" => StepsLeft' = 0
  BY LeftValues DEF StepsLeft

\* The counts of a job under way.
LEMMA CountsTyped ==
  ASSUME JobInv
  PROVE  /\ sends \in 0..2 /\ polls \in 0..(PollAttempts - 1) /\ PollAttempts \in Nat
         /\ pc = "analyze" => Len(analyses) \in 0..1
         /\ pc \in {"start", "state", "image", "gate", "analyze", "persist", "done"}
  BY JobAssumption DEF JobInv, TypeOK, CallInv, Sends

LEMMA StepsTyped == JobInv => StepsLeft \in Nat
<1> SUFFICES ASSUME JobInv PROVE StepsLeft \in Nat
  OBVIOUS
<1>1. CASE pc = "analyze"
  <2>1. PICK n : n = Len(analyses)
    OBVIOUS
  <2>2. n \in 0..1 /\ StepsLeft = 4 - n
    BY <1>1, <2>1, CountsTyped, LeftNow
  <2> QED BY <2>2
<1>2. CASE pc # "analyze"
  BY <1>2, CountsTyped, LeftNow
<1> QED BY <1>1, <1>2

LEMMA StepCountsDown == JobInv /\ JobInv' /\ Next => StepsLeft' < StepsLeft
<1> SUFFICES ASSUME JobInv, JobInv', Next PROVE StepsLeft' < StepsLeft
  OBVIOUS
<1>1. /\ sends \in 0..2 /\ polls \in 0..(PollAttempts - 1) /\ PollAttempts \in Nat
      /\ pc = "analyze" => Len(analyses) \in 0..1
      /\ pc \in {"start", "state", "image", "gate", "analyze", "persist", "done"}
  BY CountsTyped
<1>2. CASE Reject \/ Dedupe \/ Refuse \/ Persist
  <2>1. pc' = "done" /\ pc \in {"start", "gate", "persist"}
    BY <1>2 DEF Reject, Dedupe, Refuse, Persist, End
  <2> QED BY <1>1, <2>1, LeftNow, LeftNext
<1>3. CASE Begin
  <2>1. pc = "start" /\ pc' \in {"persist", "image", "state"} /\ sends' = sends /\ polls' = polls
    BY <1>3 DEF Begin, JobInv, TypeOK
  <2> QED BY <1>1, <2>1, LeftNow, LeftNext
<1>4. CASE Admit
  <2>1. pc = "gate" /\ pc' = "analyze" /\ Len(analyses') = 0
    BY <1>4 DEF Admit, JobInv, CallInv
  <2> QED BY <2>1, LeftNow, LeftNext
<1>5. CASE Analyze
  <2>1. PICK n : n = Len(analyses)
    OBVIOUS
  <2>2. pc = "analyze" /\ n \in 0..1 /\ pc' \in {"analyze", "persist"}
    BY <1>1, <1>5, <2>1 DEF Analyze
  <2>3. Len(analyses') = n + 1
    BY <1>5, <2>1 DEF Analyze, JobInv, TypeOK
  <2>4. StepsLeft = 4 - n
    BY <2>1, <2>2, LeftNow
  <2>5. StepsLeft' \in {4 - (n + 1), 2}
    BY <2>2, <2>3, LeftNext
  <2>6. n = 0 \/ n = 1
    BY <2>2
  <2> QED BY <2>4, <2>5, <2>6
<1>6. CASE Read
  <2>1. /\ pc = "state" /\ sends' = 0
        /\ pc' \in {"image", "done"} \/ (pc' = "state" /\ polls' = polls + 1)
    BY <1>6 DEF Read, ReadFresh, ReadAgain, ReadUnknown, ReadStale, NextRequest, End
  <2> QED BY <1>1, <2>1, LeftNow, LeftNext
<1>7. ASSUME NEW a \in Answers, Request(a) PROVE StepsLeft' < StepsLeft
  <2>1. CASE Again(a)
    <3>1. pc \in {"state", "image"} /\ pc' = pc /\ polls' = polls /\ sends' = sends + 1
      BY <2>1 DEF Again, Asking
    <3> QED BY <1>1, <3>1, LeftNow, LeftNext
  <2>2. CASE GiveUp(a) \/ Garbled(a) \/ Denied(a) \/ Fetched(a)
    <3>1. pc \in {"state", "image"} /\ pc' \in {"done", "persist", "gate"}
      BY <2>2 DEF GiveUp, Garbled, Denied, Fetched, Asking, End
    <3> QED BY <1>1, <3>1, LeftNow, LeftNext
  <2> QED BY <1>7, <2>1, <2>2 DEF Request
<1> QED BY <1>2, <1>3, <1>4, <1>5, <1>6, <1>7 DEF Next

\* However Home Assistant and the provider answer, a job has at most
\* 4 * PollAttempts + 10 steps, as each of them leaves it fewer: with the
\* fairness of its awaits, that is JobEnds.
THEOREM JobCountsDown == Spec => [](StepsLeft \in Nat) /\ [][StepsLeft' < StepsLeft]_vars
<1>1. JobInv => StepsLeft \in Nat
  BY StepsTyped
<1>2. JobInv /\ JobInv' /\ [Next]_vars => [StepsLeft' < StepsLeft]_vars
  BY StepCountsDown
<1> QED BY <1>1, <1>2, JobAlways, PTL DEF Spec
=============================================================================
