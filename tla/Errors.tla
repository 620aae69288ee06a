------------------------------- MODULE Errors -------------------------------
(***************************************************************************)
(* The classification of failures shared by source adapters, AI calls and  *)
(* jobs: packages/shared/src/errors.ts and domain/source-errors.ts.        *)
(***************************************************************************)
EXTENDS Naturals

Categories == {"VALIDATION", "NOT_FOUND", "CONFLICT", "UNAUTHORIZED", "FORBIDDEN",
               "RATE_LIMITED", "TIMEOUT", "UPSTREAM_UNAVAILABLE",
               "CONTRACT_VIOLATION", "INTERNAL"}

Retryable == {"RATE_LIMITED", "TIMEOUT", "UPSTREAM_UNAVAILABLE"}

\* categoryForHttpStatus: the first test that holds decides.
CategoryForHttpStatus(status) ==
    CASE status = 408               -> "TIMEOUT"
      [] status = 429               -> "RATE_LIMITED"
      [] status >= 500              -> "UPSTREAM_UNAVAILABLE"
      [] status \in {401, 403}      -> "FORBIDDEN"
      [] status \in {404, 410}      -> "NOT_FOUND"
      [] status \in (400 .. 499) \ {401, 403, 404, 408, 410, 429} -> "VALIDATION"
      [] OTHER                      -> "INTERNAL"

\* toErrorCategory for an error that carries no category of its own: the words
\* its message contains, tried in this order.
ToErrorCategory(words) ==
    IF words \cap {"timeout", "etimedout", "timed out"} # {} THEN "TIMEOUT"
    ELSE IF words \cap {"econnrefused", "enotfound", "socket hang up", "unavailable"} # {}
    THEN "UPSTREAM_UNAVAILABLE"
    ELSE IF words \cap {"rate limit", "429", "too many requests"} # {} THEN "RATE_LIMITED"
    ELSE "INTERNAL"
=============================================================================
