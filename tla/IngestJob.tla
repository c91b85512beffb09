------------------------------ MODULE IngestJob ------------------------------
(***************************************************************************)
(* One job of a worker: process_delivery with the Home Assistant requests    *)
(* and vision calls it makes, every way each of them can end, and the time   *)
(* they take; then what drain_once makes of the way it ended.  Which frame   *)
(* is fresh or seen before is FreshFrame's; rows and leases, DeliveryQueue's. *)
(***************************************************************************)
EXTENDS Integers, Sequences, VisionReply

CONSTANTS
  RequestTime,   (* longest a request to Home Assistant takes to end        *)
  Backoff,       (* _BACKOFF_SECONDS                                        *)
  PollAttempts,  (* freshness_poll_attempts                                 *)
  PollInterval,  (* freshness_poll_interval_seconds                         *)
  VisionTime,    (* longest one call of the vision provider takes           *)
  RetryDelay     (* _VISION_RETRY_DELAY_SECONDS                             *)

ASSUME JobAssumption ==
  /\ RequestTime \in Nat /\ Backoff \in Nat
  /\ PollAttempts \in Nat \ {0} /\ PollInterval \in Nat
  /\ VisionTime \in Nat /\ RetryDelay \in Nat

VARIABLES
  strategy,    (* event_image_strategy, "none" if the event needs no image   *)
  provider,    (* vision_provider                                            *)
  wellFormed,  (* the body is there, its type and camera known               *)
  pc,          (* what the job is about to do                                *)
  elapsed,     (* time since the claim                                       *)
  sends,       (* requests sent in the current _get                          *)
  polls,       (* state reads completed                                      *)
  image,       (* "none", or whether the frame's freshness is "verified"     *)
  analyses,    (* results collected by _analyze_with_retry                   *)
  outcome,     (* how the job ended                                          *)
  answers,     (* history: the answers to the current _get                   *)
  exchanges    (* history: whether what each analysis met may pass          *)

input == <<strategy, provider, wellFormed>>
history == <<answers, exchanges>>
vars == <<input, pc, elapsed, sends, polls, image, analyses, outcome, history>>

Sends == 3  \* _MAX_ATTEMPTS

(* Home Assistant's answers.  A proxy in front of it may answer with a       *)
(* redirect or a page of its own, which is a success to _get ("garbled").    *)
Transient == {"timeout", "connection", "5xx"}
Permanent == {"401", "404", "4xx"}
Success   == {"ok", "garbled", "not_object"}
Answers   == Transient \cup Permanent \cup Success

Outcomes == {"accepted", "duplicate", "rejected_stale", "rejected_invalid", "retry"}

TypeOK ==
  /\ strategy \in {"none", "camera_snapshot", "image_entity_state"}
  /\ provider \in {"ollama", "anthropic"}
  /\ wellFormed \in BOOLEAN
  /\ pc \in {"start", "state", "image", "gate", "analyze", "persist", "done"}
  /\ elapsed \in Nat
  /\ sends \in 0..(Sends - 1)
  /\ polls \in 0..(PollAttempts - 1)
  /\ image \in {"none", "unverified", "verified"}
  /\ analyses \in Seq(Result) /\ Len(analyses) <= 2
  /\ outcome \in Outcomes \cup {"none"}
  /\ answers \in Seq(Answers) /\ Len(answers) <= Sends
  /\ exchanges \in Seq(BOOLEAN)

Init ==
  /\ strategy \in {"none", "camera_snapshot", "image_entity_state"}
  /\ provider \in {"ollama", "anthropic"}
  /\ wellFormed \in BOOLEAN
  /\ pc = "start" /\ elapsed = 0 /\ sends = 0 /\ polls = 0
  /\ image = "none" /\ analyses = <<>> /\ outcome = "none"
  /\ answers = <<>> /\ exchanges = <<>>

End(o) == pc' = "done" /\ outcome' = o

-----------------------------------------------------------------------------
(* Before the image. *)

Reject ==
  /\ pc = "start" /\ ~wellFormed
  /\ End("rejected_invalid")
  /\ UNCHANGED <<input, elapsed, sends, polls, image, analyses, history>>

\* Stage A finds the key, or an exception of the database ends the job.
Dedupe ==
  /\ pc = "start" /\ wellFormed
  /\ \E o \in {"duplicate", "retry"} : End(o)
  /\ UNCHANGED <<input, elapsed, sends, polls, image, analyses, history>>

Begin ==
  /\ pc = "start" /\ wellFormed
  /\ pc' = CASE strategy = "none" -> "persist"
             [] strategy = "camera_snapshot" -> "image"
             [] strategy = "image_entity_state" -> "state"
  /\ UNCHANGED <<input, elapsed, sends, polls, image, analyses, outcome, history>>

-----------------------------------------------------------------------------
(* One request of _get, for the entity's state or for the picture. *)

Asking == pc \in {"state", "image"}

Answered(a) ==
  /\ answers' = Append(answers, a)
  /\ \E d \in 0..RequestTime :
       /\ a = "timeout" => d = RequestTime
       /\ elapsed' = elapsed + d
  /\ UNCHANGED <<input, polls, analyses, exchanges>>

\* Seeded fault: the wait doubles.
AgainDoubling(a) ==
  /\ Asking /\ sends + 1 < Sends /\ a \in Transient
  /\ sends' = sends + 1
  /\ answers' = Append(answers, a)
  /\ elapsed' = elapsed + RequestTime + Backoff * (2 ^ (sends + 1))
  /\ UNCHANGED <<input, pc, polls, image, analyses, outcome, exchanges>>

\* Seeded fault: attempts are not counted, nor waited for.
AgainUncounted(a) ==
  /\ Asking /\ sends + 1 < Sends /\ a \in Transient
  /\ answers' = IF Len(answers) < Sends - 1 THEN Append(answers, a) ELSE <<>>
  /\ UNCHANGED <<input, pc, elapsed, sends, polls, image, analyses, outcome, exchanges>>

\* A transient failure with attempts left: wait, longer each time, and retry.
Again(a) ==
  /\ Asking /\ sends + 1 < Sends /\ a \in Transient
  /\ sends' = sends + 1
  /\ answers' = Append(answers, a)
  /\ \E d \in 0..RequestTime :
       /\ a = "timeout" => d = RequestTime
       /\ elapsed' = elapsed + d + Backoff * (sends + 1)
  /\ UNCHANGED <<input, pc, polls, image, analyses, outcome, exchanges>>

\* Seeded fault: any failure of Home Assistant costs the image, not a retry.
GiveUpWithoutImage(a) ==
  /\ Asking /\ sends + 1 = Sends /\ a \in Transient
  /\ Answered(a)
  /\ sends' = 0
  /\ pc' = "persist"
  /\ UNCHANGED <<image, outcome>>

\* The last attempt failed as well: ProcessingError, the delivery is retried.
GiveUp(a) ==
  /\ Asking /\ sends + 1 = Sends /\ a \in Transient
  /\ Answered(a)
  /\ sends' = 0
  /\ End("retry")
  /\ UNCHANGED image

\* It will fail again: the event is kept without an image.
Denied(a) ==
  /\ Asking /\ a \in Permanent
  /\ Answered(a)
  /\ sends' = 0 /\ image' = "none"
  /\ pc' = "persist"
  /\ UNCHANGED outcome

\* The state is no JSON object: a ValueError, which drain_once takes for a
\* malformed delivery, or an AttributeError, which it retries.
Garbled(a) ==
  /\ pc = "state" /\ a \in {"garbled", "not_object"}
  /\ Answered(a)
  /\ sends' = 0
  /\ End(IF a = "garbled" THEN "rejected_invalid" ELSE "retry")
  /\ UNCHANGED image

-----------------------------------------------------------------------------
(* A state was read: newer than the floor, not so, or no timestamp. *)

NextRequest == sends' = 0 /\ answers' = <<>>

ReadFresh ==
  /\ pc = "state"
  /\ \E d \in 0..RequestTime : elapsed' = elapsed + d
  /\ NextRequest
  /\ image' = "verified" /\ pc' = "image" /\ polls' = 0
  /\ UNCHANGED <<input, analyses, outcome, exchanges>>

ReadAgain ==
  /\ pc = "state" /\ polls + 1 < PollAttempts
  /\ \E d \in 0..RequestTime : elapsed' = elapsed + d + PollInterval
  /\ NextRequest
  /\ polls' = polls + 1
  /\ UNCHANGED <<input, pc, image, analyses, outcome, exchanges>>

\* No timestamp to the end: fetch unverified.
ReadUnknown ==
  /\ pc = "state" /\ polls + 1 = PollAttempts
  /\ \E d \in 0..RequestTime : elapsed' = elapsed + d
  /\ NextRequest
  /\ image' = "unverified" /\ pc' = "image" /\ polls' = 0
  /\ UNCHANGED <<input, analyses, outcome, exchanges>>

\* Stale to the end: StaleImageError.
ReadStale ==
  /\ pc = "state" /\ polls + 1 = PollAttempts
  /\ \E d \in 0..RequestTime : elapsed' = elapsed + d
  /\ NextRequest
  /\ End("rejected_stale")
  /\ UNCHANGED <<input, polls, image, analyses, exchanges>>

\* The bytes, whatever they are.  A live snapshot is current by definition.
Fetched(a) ==
  /\ pc = "image" /\ a \in Success
  /\ \E d \in 0..RequestTime : elapsed' = elapsed + d
  /\ NextRequest
  /\ image' = IF strategy = "camera_snapshot" THEN "verified" ELSE image
  /\ pc' = "gate"
  /\ UNCHANGED <<input, polls, analyses, outcome, exchanges>>

\* The stale-frame fallback and the content dedupe.
Refuse ==
  /\ pc = "gate"
  /\ \/ image = "unverified" /\ End("rejected_stale")
     \/ End("duplicate")
  /\ UNCHANGED <<input, elapsed, sends, polls, image, analyses, history>>

Admit ==
  /\ pc = "gate"
  /\ pc' = "analyze"
  /\ UNCHANGED <<input, elapsed, sends, polls, image, analyses, outcome, history>>

-----------------------------------------------------------------------------
(* _analyze_with_retry. *)

\* An obstacle that may be gone in two seconds, whatever the provider calls it.
Passing(r) ==
  CASE r.kind = "lost"   -> r.of \in {"deadline", "http_timeout", "transport"}
    [] r.kind = "status" -> r.of \in {429, 500, 503}
    [] r.kind = "raised" -> \/ r.name \in {"Timeout", "RateLimit", "InternalServer",
                                           "APIConnection", "Overloaded"}
                            \/ r.name = "other" /\ r.code \in {429, 500, 503}
    [] OTHER -> FALSE

\* The ways one call can go; a bug of the provider is caught.
Bug == [result |-> Failed("unexpected"), passing |-> FALSE]
OllamaCalls == {[result |-> OllamaResult(r), passing |-> Passing(r)] : r \in OllamaReply}
AnthropicCalls ==
  {[result |-> AnthropicResult(r), passing |-> Passing(r)] : r \in AnthropicReply}
Calls == {Bug} \cup (IF provider = "ollama" THEN OllamaCalls ELSE AnthropicCalls)

\* Seeded fault: the retry looks at the status only.
RetriesAnyFailure(result) == Len(analyses) = 0 /\ result.status = "failed"

Retries(result) == Len(analyses) = 0 /\ result.status = "failed" /\ result.retryable

Analyze ==
  /\ pc = "analyze"
  /\ \E call \in Calls, d \in 0..VisionTime :
       /\ analyses' = Append(analyses, call.result)
       /\ exchanges' = Append(exchanges, call.passing)
       /\ elapsed' = elapsed + d + (IF Retries(call.result) THEN RetryDelay ELSE 0)
       /\ pc' = IF Retries(call.result) THEN "analyze" ELSE "persist"
  /\ UNCHANGED <<input, sends, polls, image, outcome, answers>>

\* The event and its rows; the UNIQUE constraint or an exception may prevent it.
Persist ==
  /\ pc = "persist"
  /\ \E o \in {"accepted", "duplicate", "retry"} : End(o)
  /\ UNCHANGED <<input, elapsed, sends, polls, image, analyses, history>>

Request(a) == Again(a) \/ GiveUp(a) \/ Denied(a) \/ Garbled(a) \/ Fetched(a)
Read == ReadFresh \/ ReadAgain \/ ReadUnknown \/ ReadStale

Next ==
  \/ Reject \/ Dedupe \/ Begin
  \/ \E a \in Answers : Request(a)
  \/ Read \/ Refuse \/ Admit \/ Analyze \/ Persist

Spec == Init /\ [][Next]_vars

\* Every await of a job is a request, a call or a sleep with a timeout.
FairSpec == Spec /\ WF_vars(Next)

-----------------------------------------------------------------------------
(* Properties. *)

\* The longest _get, and the longest job up to the write of its event.  The
\* time a job takes is what analysis_budget_seconds estimates and the lease
\* has to exceed.
GetTime == Sends * RequestTime + 3 * Backoff
WorstCase ==
  (PollAttempts + 1) * GetTime + (PollAttempts - 1) * PollInterval
    + 2 * VisionTime + RetryDelay

\* analysis_budget_seconds, which the lease has to exceed; the margin is said to
\* be for persistence.
AnalysisBudget(margin) == PollAttempts * PollInterval + 2 * VisionTime + RetryDelay + margin

\* However requests, polls and calls fail, a job ends within the worst case.
JobIsBounded == elapsed <= WorstCase

\* A second call is made after an obstacle that may pass, and after such an
\* obstacle it is made ("retried, once, by the pipeline", README.md:293).
OneRetryForPassing ==
  /\ Len(analyses) = 2 => exchanges[1]
  /\ pc = "persist" /\ Len(analyses) = 1 => ~exchanges[1]

\* An event loses its image only to a denial that would be repeated; while
\* Home Assistant may still come back, the delivery is kept for a retry.
OutageKeepsTheImage ==
  pc = "persist" /\ image = "none" /\ strategy # "none" =>
    /\ answers # <<>>
    /\ answers[Len(answers)] \in Permanent
    /\ \A i \in 1..(Len(answers) - 1) : answers[i] \in Transient

\* Only a malformed delivery is rejected for good ("Malformed or unsupported:
\* retrying cannot help", ingest/worker.py:162).
RejectedIsMalformed == outcome = "rejected_invalid" => ~wellFormed

\* Every job ends.
JobEnds == <>(pc = "done")
=============================================================================
