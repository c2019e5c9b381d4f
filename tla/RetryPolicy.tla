---------------------------- MODULE RetryPolicy ----------------------------
(***************************************************************************)
(* How the HTTP clients of the filing adapters (pkg/tax/iris, pkg/tax/fire,*)
(* pkg/edgar, pkg/bluesky) classify the reply to one attempt of a request. *)
(* Status codes and bodies are abstracted to the classes the retry loops   *)
(* tell apart.                                                             *)
(***************************************************************************)
EXTENDS Integers

CONSTANT MaxRetries   \* retries after the first attempt

ASSUME MaxRetriesAssumption == MaxRetries \in Nat

(* accepted     2xx with an acknowledgment                                 *)
(* garbled      2xx whose body cannot be parsed                            *)
(* refused      2xx, 4xx or 501 that turns the filing down                 *)
(* unauthorized 401                                                        *)
(* throttled    429                                                        *)
(* unavailable  5xx other than 501                                         *)
(* dropped      no reply: connection error or client timeout               *)
Reply == {"accepted", "garbled", "refused", "unauthorized",
          "throttled", "unavailable", "dropped"}

(* Mutant: a reply that cannot be parsed is taken for a lost one.          *)
TransientOrGarbled(reply) ==
  reply \in {"throttled", "unavailable", "dropped", "garbled"}

(* Replies the loops sleep on and try again.                               *)
Transient(reply) == reply \in {"throttled", "unavailable", "dropped"}

(* Mutant: the loop runs one attempt too many.                             *)
LastAttemptLate(attempt) == attempt = MaxRetries + 1

LastAttempt(attempt) == attempt = MaxRetries
=============================================================================
