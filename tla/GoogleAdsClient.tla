--------------------------- MODULE GoogleAdsClient ---------------------------
(***************************************************************************)
(* One call of the Google Ads client: a query whose batches are streamed,  *)
(* or the list of accessible accounts.  An exception of the SDK is         *)
(* translated; transient ones start the query again from the beginning,    *)
(* up to max(1, sync_max_retries) attempts.                                *)
(***************************************************************************)
EXTENDS Naturals, Sequences

CONSTANTS
  Retries,   \* sync_max_retries
  Batches    \* number of batches the query yields

ASSUME ClientAssumption == Retries \in Nat /\ Batches \in Nat

VARIABLES
  call,      \* idle, search, waiting (before the next attempt), list, ok, raised
  attempt,   \* number of the attempt
  rows,      \* what _search_once has collected
  streamed,  \* number of batches the stream of this attempt has yielded
  error      \* the class of the latest exception

clientVars == <<call, attempt, rows, streamed, error>>

Transient == {"TransientGoogleAdsError", "QuotaExceededError"}

ClientInit ==
  /\ call = "idle" /\ attempt = 0 /\ error = "none"
  /\ rows = <<>> /\ streamed = 0

\* What the SDK raises: a GoogleAdsException that carries errors, in order, or
\* an exception of the transport or of anything else.
ApiErrors  == {"authentication", "quota", "query"}
Exceptions == (ApiErrors \X ApiErrors) \cup
  {<<e>> : e \in ApiErrors \cup {"ServiceUnavailable", "ResourceExhausted", "other"}}

\* _raise_translated.  The first error of credentials or quota decides; any other
\* GoogleAdsException is transient.
Translated(e) ==
  CASE e = <<"ServiceUnavailable">> -> "TransientGoogleAdsError"
    [] e = <<"ResourceExhausted">>  -> "QuotaExceededError"
    [] e = <<"other">>              -> "Exception"
    [] OTHER ->
         LET telling == SelectSeq(e, LAMBDA c : c # "query")
         IN  IF telling = <<>> THEN "TransientGoogleAdsError"
             ELSE IF Head(telling) = "quota" THEN "QuotaExceededError"
             ELSE "GoogleAdsAuthError"

Search ==
  /\ call = "idle"
  /\ call' = "search" /\ attempt' = 1
  /\ UNCHANGED <<rows, streamed, error>>

List ==
  /\ call = "idle"
  /\ call' = "list" /\ attempt' = 1
  /\ UNCHANGED <<rows, streamed, error>>

Batch ==
  /\ call = "search" /\ streamed < Batches
  /\ streamed' = streamed + 1
  /\ rows' = Append(rows, streamed')
  /\ UNCHANGED <<call, attempt, error>>

\* The stream ends, or the list is answered.
Answer ==
  /\ \/ call = "search" /\ streamed = Batches
     \/ call = "list"
  /\ call' = "ok"
  /\ UNCHANGED <<attempt, rows, streamed, error>>

\* retry_if_exception_type and stop_after_attempt; the list is not retried.
MayRetry(e) ==
  /\ call = "search" /\ e \in Transient
  /\ attempt < IF Retries > 1 THEN Retries ELSE 1

Fail ==
  /\ call \in {"search", "list"}
  /\ \E x \in Exceptions :
       /\ error' = Translated(x)
       /\ call' = IF MayRetry(error') THEN "waiting" ELSE "raised"
  /\ UNCHANGED <<attempt, rows, streamed>>

\* Mutant of NewRows: the rows of the broken attempt are kept.
NewRowsKept(r) == r

\* _search_once starts with no rows.
NewRows(r) == <<>>

\* Mutant of NextAttempt: a retry is not counted.
NextAttemptSame(n) == n

NextAttempt(n) == n + 1

\* The pause is over and the query runs again.
Retry ==
  /\ call = "waiting"
  /\ call' = "search"
  /\ attempt' = NextAttempt(attempt)
  /\ rows' = NewRows(rows)
  /\ streamed' = 0
  /\ UNCHANGED error

ClientNext == Search \/ List \/ Batch \/ Answer \/ Fail \/ Retry

ClientSpec == ClientInit /\ [][ClientNext]_clientVars

-----------------------------------------------------------------------------
(* Properties.                                                             *)

\* A query that succeeds returns each batch once and in order, however often the
\* stream broke on the way: no rows of an earlier attempt are kept.
RowsOfOneAttempt ==
  call = "ok" /\ rows # <<>> => rows = [n \in 1..Batches |-> n]

\* Every call comes to an end, with rows or an exception, even if the API goes on
\* failing: the attempts are limited.
CallEnds == call = "search" ~> call \in {"ok", "raised"}

=============================================================================
