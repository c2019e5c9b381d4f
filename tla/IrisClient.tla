----------------------------- MODULE IrisClient -----------------------------
(***************************************************************************)
(* pkg/tax/iris: SubmitForm through one Client that several goroutines     *)
(* share.  The client holds one bearer token (jwt, jwtExpiry) without a    *)
(* lock; each submission logs in when it must, then runs the retry loop of *)
(* doRequest against the IRIS service, which is external: it honours some  *)
(* tokens, can throttle or fail, and can take a filing whose reply is lost.*)
(***************************************************************************)
EXTENDS RetryPolicy

CONSTANT Submissions   \* the SubmitForm calls, each with its own form

VARIABLES
  credentials,  \* whether cfg.Credentials is set; fixed at construction
  jwt,      \* the held token: "none", or one the service honours or not
  expiry,   \* jwtExpiry against the clock: "unset", "ahead", "near" (60s)
  call,     \* call[s]: the state of submission s
  filed,    \* filed[s]: copies of s's form the service has on file
  lost      \* history: copies filed whose acknowledgment never arrived

vars == <<credentials, jwt, expiry, call, filed, lost>>

Token == {"none", "live", "dead"}

Step == {"idle", "login", "clear", "validate", "send", "replied", "backoff",
         "relogin", "done"}

Result == {"none", "acknowledged", "missing_jwt", "auth_failed", "invalid",
           "refused", "unparsed", "unauthorized", "rate_limited",
           "unavailable", "transport", "cancelled"}

(* A SubmitForm call: where it is, the attempt of doRequest, the token a   *)
(* login brought back, the last reply, whether a 401 made it log in, its   *)
(* outcome.                                                                *)
Call ==
  [step : Step, attempt : Nat, token : Token, reply : Reply \cup {"none"},
   relogged : BOOLEAN, result : Result]

Init ==
  /\ credentials \in BOOLEAN
  /\ jwt = "none"
  /\ expiry = "unset"
  /\ call = [s \in Submissions |->
               [step |-> "idle", attempt |-> 0, token |-> "none",
                reply |-> "none", relogged |-> FALSE, result |-> "none"]]
  /\ filed = [s \in Submissions |-> 0]
  /\ lost = [s \in Submissions |-> 0]

At(s, step) == call[s].step = step

GoTo(s, step) == call' = [call EXCEPT ![s].step = step]

Return(s, result) ==
  call' = [call EXCEPT ![s].step = "done", ![s].result = result]

-----------------------------------------------------------------------------

(* Logging in: the exchange with /oauth2/token, then the assignment of the *)
(* new token to the client.  Token "none" stands for a failed exchange.    *)
Login(s, step, token) ==
  call' = [call EXCEPT ![s].step = step, ![s].token = token]

NeedsLogin == jwt = "none" \/ expiry = "near"

(* ensureAuthenticated, at the start of SubmitForm.                        *)
EnsureHeld(s) ==
  /\ At(s, "idle")
  /\ ~NeedsLogin
  /\ GoTo(s, "validate")
  /\ UNCHANGED <<credentials, jwt, expiry, filed, lost>>

EnsureLogin(s) ==
  /\ At(s, "idle")
  /\ NeedsLogin
  /\ credentials
  /\ \E token \in {"live", "none"} : Login(s, "login", token)
  /\ UNCHANGED <<credentials, jwt, expiry, filed, lost>>

EnsureMissing(s) ==
  /\ At(s, "idle")
  /\ jwt = "none"
  /\ ~credentials
  /\ Return(s, "missing_jwt")
  /\ UNCHANGED <<credentials, jwt, expiry, filed, lost>>

(* Without credentials a token near its expiry is dropped, and by then it  *)
(* may be another one.                                                     *)
EnsureExpired(s) ==
  /\ At(s, "idle")
  /\ jwt # "none" /\ expiry = "near"
  /\ ~credentials
  /\ GoTo(s, "clear")
  /\ UNCHANGED <<credentials, jwt, expiry, filed, lost>>

ClearToken(s) ==
  /\ At(s, "clear")
  /\ jwt' = "none"
  /\ Return(s, "missing_jwt")
  /\ UNCHANGED <<credentials, expiry, filed, lost>>

LoginFails(s) ==
  /\ call[s].step \in {"login", "relogin"}
  /\ call[s].token = "none"
  /\ Return(s, "auth_failed")
  /\ UNCHANGED <<credentials, jwt, expiry, filed, lost>>

HoldToken(s) ==
  /\ call[s].token # "none"
  /\ jwt' = call[s].token
  /\ expiry' = "ahead"
  /\ UNCHANGED <<credentials, filed, lost>>

LoginDone(s) ==
  /\ At(s, "login")
  /\ HoldToken(s)
  /\ Login(s, "validate", "none")

-----------------------------------------------------------------------------

(* validateSubmission; the defaults SubmitForm fills in afterwards and the *)
(* wire format do not matter here.                                         *)
Validate(s) ==
  /\ At(s, "validate")
  /\ GoTo(s, "send") \/ Return(s, "invalid")
  /\ UNCHANGED <<credentials, jwt, expiry, filed, lost>>

(* What the service may do with a request: any failure at any time, and    *)
(* with a token it honours take the form, whether or not its reply gets    *)
(* through, or turn it down.  copies: how many more are on file.           *)
Failures == {"unauthorized", "throttled", "unavailable", "dropped"}

LostCopy == [reply : {"unavailable", "dropped"}, copies : {1}]

Outcome(token) ==
  [reply : Failures, copies : {0}] \cup
  (IF token # "live" THEN {}
   ELSE LostCopy \cup [reply : {"accepted", "garbled"}, copies : {1}]
                 \cup [reply : {"refused"}, copies : {0}])

(* doOnce: one POST with the token the client holds at that moment.  A     *)
(* token half overwritten by another goroutine is one the service does not *)
(* honour; every outcome of that is also an outcome of any other token.    *)
Post(s) ==
  /\ At(s, "send")
  /\ \E outcome \in Outcome(jwt) :
       /\ call' = [call EXCEPT ![s].step = "replied",
                               ![s].reply = outcome.reply]
       /\ filed' = [filed EXCEPT ![s] = @ + outcome.copies]
       /\ lost' = [lost EXCEPT ![s] = @ + (IF outcome \in LostCopy THEN 1 ELSE 0)]
  /\ UNCHANGED <<credentials, jwt, expiry>>

(* Mutant: the class of the reply is returned as it is.                    *)
SettledRaw(reply) == reply

(* What a reply that ends doRequest makes SubmitForm return.               *)
Settled(reply) ==
  CASE reply = "accepted" -> "acknowledged"
    [] reply = "garbled" -> "unparsed"
    [] reply = "refused" -> "refused"
    [] reply = "unauthorized" -> "unauthorized"
    [] reply = "throttled" -> "rate_limited"
    [] reply = "unavailable" -> "unavailable"
    [] reply = "dropped" -> "transport"

(* Mutant: a client that holds a token does not replace it.                *)
ReauthenticatesWithoutToken(reply) ==
  reply = "unauthorized" /\ credentials /\ jwt = "none"

Reauthenticates(reply) == reply = "unauthorized" /\ credentials

Settle(s) ==
  /\ At(s, "replied")
  /\ ~Reauthenticates(call[s].reply)
  /\ ~Transient(call[s].reply) \/ LastAttempt(call[s].attempt)
  /\ Return(s, Settled(call[s].reply))
  /\ UNCHANGED <<credentials, jwt, expiry, filed, lost>>

(* sleepBackoff, unless this was the last attempt.                         *)
Backoff(s) ==
  /\ At(s, "replied")
  /\ Transient(call[s].reply)
  /\ ~LastAttempt(call[s].attempt)
  /\ GoTo(s, "backoff")
  /\ UNCHANGED <<credentials, jwt, expiry, filed, lost>>

Wake(s) ==
  /\ At(s, "backoff")
  /\ call' = [call EXCEPT ![s].step = "send", ![s].reply = "none",
                          ![s].attempt = @ + 1]
  /\ UNCHANGED <<credentials, jwt, expiry, filed, lost>>

(* The caller's context ends while the client sleeps.                      *)
Cancelled(s) ==
  /\ At(s, "backoff")
  /\ Return(s, "cancelled")
  /\ UNCHANGED <<credentials, jwt, expiry, filed, lost>>

(* On 401 with credentials the client logs in again, on every attempt, and *)
(* on the last attempt too.                                                *)
Relogin(s) ==
  /\ At(s, "replied")
  /\ Reauthenticates(call[s].reply)
  /\ \E token \in {"live", "none"} :
       call' = [call EXCEPT ![s].step = "relogin", ![s].token = token,
                            ![s].relogged = TRUE]
  /\ UNCHANGED <<credentials, jwt, expiry, filed, lost>>

(* Mutant: the attempt after a new login is not counted.                   *)
RetriedFree(s) ==
  [call EXCEPT ![s].step = "send", ![s].token = "none", ![s].reply = "none"]

Retried(s) ==
  [call EXCEPT ![s].step = "send", ![s].token = "none", ![s].reply = "none",
               ![s].attempt = @ + 1]

ReloginDone(s) ==
  /\ At(s, "relogin")
  /\ HoldToken(s)
  /\ IF LastAttempt(call[s].attempt)
     THEN Return(s, "unauthorized")
     ELSE call' = Retried(s)

-----------------------------------------------------------------------------

(* SetJWT: a token from the caller's own cache.                            *)
SetJWT ==
  /\ \E token \in {"live", "dead"}, e \in {"unset", "ahead", "near"} :
       jwt' = token /\ expiry' = e
  /\ UNCHANGED <<credentials, call, filed, lost>>

(* The clock passes jwtExpiry less 60 seconds.                             *)
ExpiryNears ==
  /\ expiry = "ahead"
  /\ expiry' = "near"
  /\ UNCHANGED <<credentials, jwt, call, filed, lost>>

(* The service stops honouring the held token, or one still on its way.    *)
RevokeHeld ==
  /\ jwt = "live"
  /\ jwt' = "dead"
  /\ UNCHANGED <<credentials, expiry, call, filed, lost>>

RevokeUndelivered(s) ==
  /\ call[s].step \in {"login", "relogin"}
  /\ call[s].token = "live"
  /\ call' = [call EXCEPT ![s].token = "dead"]
  /\ UNCHANGED <<credentials, jwt, expiry, filed, lost>>

Start(s) ==
  \/ EnsureHeld(s) \/ EnsureLogin(s) \/ EnsureMissing(s) \/ EnsureExpired(s)

Progress(s) ==
  \/ LoginFails(s) \/ LoginDone(s) \/ ClearToken(s)
  \/ Validate(s)
  \/ Post(s) \/ Settle(s) \/ Backoff(s) \/ Wake(s) \/ Cancelled(s)
  \/ Relogin(s) \/ ReloginDone(s)

Service == RevokeHeld \/ \E s \in Submissions : RevokeUndelivered(s)

Next ==
  \/ \E s \in Submissions : Start(s) \/ Progress(s)
  \/ SetJWT
  \/ ExpiryNears
  \/ Service

Spec == Init /\ [][Next]_vars

(* A goroutine that can run does: every request ends with a reply or the   *)
(* client's timeout, every sleep with the timer or the context.            *)
FairSpec == Spec /\ \A s \in Submissions : WF_vars(Progress(s))

-----------------------------------------------------------------------------

TypeOK ==
  /\ credentials \in BOOLEAN
  /\ jwt \in Token
  /\ expiry \in {"unset", "ahead", "near"}
  /\ call \in [Submissions -> Call]
  /\ filed \in [Submissions -> Nat]
  /\ lost \in [Submissions -> Nat]

(* The last reply says that a copy of the form is on file.                 *)
Delivered(s) == call[s].reply \in {"accepted", "garbled"}

(* Every copy on file beyond the one a reply reported is one whose reply   *)
(* was lost: the loop never posts again after the service took the form    *)
(* and said so, and an acknowledgment always stands for a filed copy.      *)
CopiesAccounted ==
  \A s \in Submissions :
    filed[s] = lost[s] + (IF Delivered(s) THEN 1 ELSE 0)

(* One SubmitForm call leaves at most MaxRetries + 1 copies on file, also  *)
(* when attempts are spent on logging in again.                            *)
CopiesBounded == \A s \in Submissions : filed[s] <= MaxRetries + 1

(* With credentials a call reports 401 only when its last attempt got it,  *)
(* or when logging in failed: other goroutines that replace or lose the    *)
(* shared token cannot make it give up early.                              *)
GivesUpLate ==
  credentials =>
    \A s \in Submissions :
      call[s].result = "unauthorized" => LastAttempt(call[s].attempt)

(* Every submission returns, whatever the service answers and whatever     *)
(* other goroutines do to the shared token.                                *)
SubmitReturns == \A s \in Submissions : ~At(s, "idle") ~> At(s, "done")

(* "on 401, one re-authentication is attempted before the retry budget     *)
(* continues" (the comment on doRequest, client.go).                       *)
OneReauthentication ==
  [][\A s \in Submissions :
       call[s].relogged /\ call'[s].step = "relogin" =>
         call[s].step = "relogin"]_vars
=============================================================================
