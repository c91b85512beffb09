----------------------------- MODULE VisionReply -----------------------------
(***************************************************************************)
(* What the two vision providers make of an exchange with their model: pure *)
(* operators from what came back to the VisionResult that is recorded.      *)
(* Texts are booleans that say whether they satisfy a test of the code.      *)
(***************************************************************************)
EXTENDS Integers

Retryable == {"timeout", "rate_limited", "server_error"}

Failed(code) == [status |-> "failed", code |-> code, retryable |-> code \in Retryable]
Refused == [status |-> "refused", code |-> "refused", retryable |-> FALSE]
Observed == [status |-> "ok", code |-> "none", retryable |-> FALSE]

Result == {Refused, Observed} \cup
          {Failed(c) : c \in Retryable \cup {"auth", "bad_response", "unexpected"}}

-----------------------------------------------------------------------------
(* Ollama: the exchange breaks off, or a status comes back, or a body.       *)

Lost == {"deadline", "http_timeout", "transport", "too_large", "exception"}
Statuses == {302, 400, 401, 403, 404, 418, 429, 500, 503}

\* The tests _parse makes of a body, in its order.  Any of them may fail, and
\* a body that fails an early one has nothing for the later ones.
Body == [json : BOOLEAN, envelope : BOOLEAN, error : BOOLEAN, done : BOOLEAN,
         reason : {"absent", "stop", "other"}, model : BOOLEAN, message : BOOLEAN,
         content : BOOLEAN, object : BOOLEAN, valid : BOOLEAN]

OllamaReply == {[kind |-> "lost", of |-> l] : l \in Lost} \cup
               {[kind |-> "status", of |-> s] : s \in Statuses} \cup
               {[kind |-> "body", of |-> b] : b \in Body}

LostCode(l) ==
  CASE l \in {"deadline", "http_timeout"} -> "timeout"
    [] l = "transport" -> "server_error"
    [] l = "too_large" -> "bad_response"
    [] l = "exception" -> "unexpected"

\* _classify_status.
StatusCode(s) ==
  CASE s = 429 -> "rate_limited"
    [] s >= 500 -> "server_error"
    [] s \in {401, 403} -> "auth"
    [] OTHER -> "unexpected"

\* _parse returns; otherwise it raises _BadResponse.
Parses(b) ==
  /\ b.json /\ b.envelope /\ ~b.error /\ b.done /\ b.reason # "other"
  /\ b.model /\ b.message /\ b.content /\ b.object /\ b.valid

OllamaResult(r) ==
  CASE r.kind = "lost" -> Failed(LostCode(r.of))
    [] r.kind = "status" -> Failed(StatusCode(r.of))
    [] r.kind = "body" -> IF Parses(r.of) THEN Observed ELSE Failed("bad_response")

-----------------------------------------------------------------------------
(* Anthropic: the SDK raises, or answers.                                    *)

\* What _classify finds in the name of an exception's type, if anything.
Names == {"Timeout", "RateLimit", "Authentication", "PermissionDenied",
          "InternalServer", "APIConnection", "Overloaded", "other"}

\* An exception whose name says nothing may have a status_code, 0 for none.
AnthropicReply ==
  {[kind |-> "raised", name |-> n, code |-> s] : n \in Names, s \in Statuses \cup {0}} \cup
  {[kind |-> "answered", refusal |-> f, parsed |-> p] : f \in BOOLEAN, p \in BOOLEAN}

\* _classify.
ExceptionCode(r) ==
  CASE r.name = "Timeout" -> "timeout"
    [] r.name = "RateLimit" -> "rate_limited"
    [] r.name \in {"Authentication", "PermissionDenied"} -> "auth"
    [] r.name \in {"InternalServer", "APIConnection", "Overloaded"} -> "server_error"
    [] r.name = "other" -> StatusCode(r.code)

AnthropicResult(r) ==
  CASE r.kind = "raised" -> Failed(ExceptionCode(r))
    [] r.kind = "answered" /\ r.refusal -> Refused
    [] r.kind = "answered" /\ ~r.refusal ->
         IF r.parsed THEN Observed ELSE Failed("bad_response")
=============================================================================
