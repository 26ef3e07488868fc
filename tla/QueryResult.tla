----------------------------- MODULE QueryResult -----------------------------
(* What _query_with_error_handling of src/idi_ftm2j_shared/api.py makes of    *)
(* the end of an HTTP exchange.  Replies are told apart by what requests      *)
(* raises for them after the adapter's retries; the dict is abstracted to the *)
(* set of its keys.                                                           *)

\* "refused": a 4xx or 5xx status outside RETRY_STATUS_FORCELIST.
\* "overloaded": a status of the forcelist.
Replies == {"json", "other text", "refused", "overloaded", "connect timeout",
            "read timeout", "broken"}

Retried == {"overloaded", "connect timeout", "read timeout", "broken"}

Failed == Replies \ {"json", "other text"}

\* Mutant: an HTTP error is reported by its status code only.
OutcomeWithoutError(r, wantsJson) ==
    CASE r \in {"json", "other text"} -> {"status_code", "url", "data"}
      [] r = "refused" -> {"status_code"}
      [] r \in Retried -> {"error"}

\* The keys of the dict _query_with_error_handling returns.  Once the retries
\* are used up requests raises RetryError for a status of the forcelist, which
\* carries no response, and ConnectionError for a read timeout; only a failed
\* connect is a Timeout.  A text that is not JSON is logged and nothing else.
Outcome(r, wantsJson) ==
    CASE r = "json" -> {"status_code", "url", "data"}
      [] r = "other text" -> IF wantsJson THEN {}
                                          ELSE {"status_code", "url", "data"}
      [] r = "refused" -> {"error", "status_code"}
      [] r = "connect timeout" -> {"error", "timeout"}
      [] r \in {"overloaded", "read timeout", "broken"} -> {"error"}
=============================================================================
