----------------------------- MODULE HttpRequest -----------------------------
(***************************************************************************)
(* One market observation of a mint: PumpFunProvider.fetch_snapshot over   *)
(* ProviderHttpClient.get_json, which retries a transport failure or a 5xx *)
(* with exponential backoff and gives up at once on anything else.  The    *)
(* caller of this client makes one request at a time.                      *)
(***************************************************************************)
EXTENDS Integers, Sequences, SequencesExt, Doubling

CONSTANTS
  MaxAttempts,   \* provider_max_attempts
  BackoffBase,   \* backoff_base_seconds
  MaxTime        \* bound: seconds from the start of a call to its end

(* The bound has room for every delay of a call.                           *)
HttpAssumption ==
  /\ MaxAttempts \in Nat \ {0} /\ BackoffBase \in Nat \ {0}
  /\ MaxTime \in Nat
  /\ BackoffBase * (Power2[MaxAttempts - 1] - 1) <= MaxTime

VARIABLES
  clock,     \* since the call began
  step,      \* "idle", "asking", "backoff", "done"
  sent,      \* when each request of this call was sent
  answers,   \* what came of each
  wake,      \* when the backoff ends
  received,  \* received_at, stamped by fetch_snapshot
  result     \* of the last call

vars == <<clock, step, sent, answers, wake, received, result>>

Answers == {"transport", "limited", "server", "refused", "not_json", "not_object", "coin"}
Retried == {"transport", "server"}
Never == -1
Time == 0..MaxTime
Failures == {"rate_limited", "unavailable", "schema"}
(* A call that fails raises, and leaves nothing but its error.             *)
Snapshot == [outcome : {"snapshot"}, observed : Time, received : Time]
Failure == [outcome : Failures]
NoResult == [outcome |-> "none"]

(* A call sends as many requests as it got answers, and one more while it  *)
(* waits for one.                                                          *)
TypeOK ==
  /\ clock \in Time
  /\ step \in {"idle", "asking", "backoff", "done"}
  /\ sent \in Seq(Time) /\ answers \in Seq(Answers)
  /\ Len(sent) = Len(answers) + IF step = "asking" THEN 1 ELSE 0
  /\ wake \in Time \cup {Never} /\ received \in Time \cup {Never}
  /\ result \in Snapshot \cup Failure \cup {NoResult}

attempt == Len(sent)

(* fetch_snapshot stamps received_at and sends the first request.          *)
FetchSnapshot ==
  /\ step \in {"idle", "done"}
  /\ step' = "asking" /\ clock' = 0 /\ sent' = <<0>> /\ answers' = <<>>
  /\ received' = 0 /\ result' = NoResult /\ wake' = Never

BackoffDelay(n) == BackoffBase * Power2[n - 1]

(* Time passes while an answer is awaited, as long as the bound has room   *)
(* for the delays that may follow it, and until a sleeper is due.          *)
Tick ==
  /\ \/ /\ step = "asking"
        /\ clock + BackoffBase * (Power2[MaxAttempts - 1] - Power2[attempt - 1]) < MaxTime
     \/ step = "backoff" /\ clock < wake
  /\ clock' = clock + 1
  /\ UNCHANGED <<step, sent, answers, wake, received, result>>

\* mutant: a rate limit is retried like a server error
RetryLimited(a) == a \in Retried \cup {"limited"} /\ attempt < MaxAttempts
Retryable(a) == a \in Retried /\ attempt < MaxAttempts

Retry(a) ==
  /\ step = "asking" /\ Retryable(a)
  /\ answers' = Append(answers, a)
  /\ step' = "backoff" /\ wake' = clock + BackoffDelay(attempt)
  /\ UNCHANGED <<clock, sent, received, result>>

Resend ==
  /\ step = "backoff" /\ clock >= wake
  /\ step' = "asking" /\ sent' = Append(sent, clock)
  /\ UNCHANGED <<clock, answers, wake, received, result>>

Outcome(a) == CASE a = "coin" -> "snapshot"
                [] a = "limited" -> "rate_limited"
                [] a = "not_object" -> "schema"
                [] OTHER -> "unavailable"

(* observed_at is stamped when the payload has been parsed.                *)
Result(a) ==
  IF Outcome(a) = "snapshot"
  THEN [outcome |-> "snapshot", observed |-> clock, received |-> received]
  ELSE [outcome |-> Outcome(a)]

(* The answer ends the call.                                               *)
Finish(a) ==
  /\ step = "asking" /\ ~Retryable(a)
  /\ answers' = Append(answers, a)
  /\ result' = Result(a)
  /\ step' = "done"
  /\ UNCHANGED <<clock, sent, wake, received>>

Init == /\ clock = 0 /\ step = "idle" /\ sent = <<>> /\ answers = <<>>
        /\ wake = Never /\ received = Never /\ result = NoResult

Respond == \E a \in Answers : Retry(a) \/ Finish(a)

Next == Tick \/ FetchSnapshot \/ Respond \/ Resend

Spec == Init /\ [][Next]_vars

-----------------------------------------------------------------------------
(* A call is decided by its last answer, and every answer before that one  *)
(* was worth a retry: a 429, a 4xx or an unreadable 200 is never asked     *)
(* again, and nothing but a coin becomes a snapshot.  The wait before each *)
(* retry is twice the one before.                                          *)
OneDecision ==
  step = "done" =>
    /\ \A i \in 1 .. Len(sent) - 1 : sent[i + 1] - sent[i] >= BackoffBase * Power2[i - 1]
    /\ \A i \in 1 .. Len(answers) - 1 : answers[i] \in Retried
    /\ Last(answers) \in Retried => Len(answers) = MaxAttempts
    /\ result.outcome = "snapshot" <=> Last(answers) = "coin"
    /\ result.outcome = "rate_limited" <=> Last(answers) = "limited"

(* The timestamps of a MarketSnapshot are "how old the provider says its  *)
(* data is, when we got it, and when it landed", and the gap between the   *)
(* last two is "our own latency": it was not received before it was        *)
(* observed.                                                               *)
ReceivedWhenGot == result.outcome = "snapshot" => result.received >= result.observed

=============================================================================
