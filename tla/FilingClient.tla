---------------------------- MODULE FilingClient ----------------------------
(***************************************************************************)
(* One call of a filing adapter, from its checks to what it returns: the   *)
(* retry loop that Form D, state notices and 1099 files share, against an  *)
(* agency that can throttle, fail, lose its answer after taking a filing,  *)
(* or answer something unreadable.  The EFD states share one adapter and   *)
(* with it a token that is kept without a lock and replaced only within a  *)
(* minute of its recorded expiry.                                          *)
(***************************************************************************)
EXTENDS FilingRoutes

CONSTANTS
  Calls,     \* the calls hosts make, each of its own filing
  NoticesIn  \* the states behaviours file notices in

ASSUME NoticesInAssumption == NoticesIn \subseteq States

VARIABLES
  state,    \* the state notices are filed in; fixed
  token,    \* EFD: the bearer token held
  expiry,   \* EFD: tokenExpires, against the clock; zero is "past"
  call,     \* call[c]: where call c is
  filed,    \* filed[c]: copies of c's filing the agency holds
  lost      \* history: those whose acknowledgment the call never read

client == <<state, token, expiry, call, filed, lost>>

Call ==
  [op : Op \cup {"none"},
   step : {"idle", "check", "authenticate", "send", "replied", "hold",
           "save", "done"},
   login : BOOLEAN,   \* the loop runs for /Account/Login
   attempt : Nat, answer : Answer \cup {"none"},
   result : {"none", "unloaded", "unsupported", "not_implemented", "invalid",
             "no_credentials", "login_failed", "cancelled", "not_found",
             "unparsed", "rejected", "refused", "unauthorized",
             "rate_limited", "unavailable", "transport", "acknowledged",
             "unsaved", "recorded"}]

InitClient ==
  /\ state \in NoticesIn
  /\ token = "none" /\ expiry = "past"
  /\ call = [c \in Calls |->
               [op |-> "none", step |-> "idle", login |-> FALSE,
                attempt |-> 0, answer |-> "none", result |-> "none"]]
  /\ filed = [c \in Calls |-> 0]
  /\ lost = [c \in Calls |-> 0]

At(c, step) == call[c].step = step

GoTo(c, step) == call' = [call EXCEPT ![c].step = step]

(* The adapter returns, and what its loop knew is gone but for the answer; *)
(* an acknowledgment may still have to be stored.                          *)
Return(c, result) ==
  call' = [call EXCEPT
             ![c].step = IF result = "acknowledged" /\ call[c].op \in Recorded
                         THEN "save" ELSE "done",
             ![c].result = result, ![c].login = FALSE, ![c].attempt = 0,
             ![c].answer = IF result = "acknowledged" THEN @ ELSE "none"]

Via(c) == Channel(call[c].op, state)

-----------------------------------------------------------------------------

(* Registrar: resolve the adapter of the state, then look at the notice.   *)
Unsupported(c) ==
  /\ At(c, "check")
  /\ Via(c) = "none"
  /\ Return(c, "unsupported")
  /\ UNCHANGED <<state, token, expiry, filed, lost>>

(* Missing account numbers, an invalid filing, or none to look up.         *)
Invalid(c) ==
  /\ At(c, "check")
  /\ Via(c) # "none"
  /\ Return(c, "invalid")
  /\ UNCHANGED <<state, token, expiry, filed, lost>>

RenewalRefused(c) ==
  /\ call[c].op = "renew_notice"
  /\ Via(c) = "portal"
  /\ ~PortalRenews[state]

NotImplemented(c) ==
  /\ At(c, "check")
  /\ RenewalRefused(c)
  /\ Return(c, "not_implemented")
  /\ UNCHANGED <<state, token, expiry, filed, lost>>

Checked(c) ==
  /\ At(c, "check")
  /\ Via(c) # "none"
  /\ ~RenewalRefused(c)
  /\ GoTo(c, IF Via(c) = "efd" THEN "authenticate" ELSE "send")
  /\ UNCHANGED <<state, token, expiry, filed, lost>>

-----------------------------------------------------------------------------

(* Mutant: a token is used until it is gone.                               *)
FreshWhileHeld(e) == token # "none"

(* e: the recorded expiry; a token within a minute of it is replaced.      *)
Fresh(e) == token # "none" /\ e = "ahead"

(* EFDAdapter.authenticate: the login runs through the same loop with a    *)
(* budget of its own.                                                      *)
Authenticate(c) ==
  /\ At(c, "authenticate")
  /\ \/ /\ Fresh(expiry)
        /\ GoTo(c, "send")
     \/ /\ ~Fresh(expiry)
        /\ Return(c, "no_credentials")
     \/ /\ ~Fresh(expiry)
        /\ call' = [call EXCEPT ![c].step = "send", ![c].login = TRUE]
  /\ UNCHANGED <<state, token, expiry, filed, lost>>

(* The answer to a login is decoded; the token in it can be empty.  The    *)
(* two fields are stored one after the other, which others that meet them  *)
(* half written take for an expired or a broken token.                     *)
LoginDone(c) ==
  /\ At(c, "hold")
  /\ token' \in {"live", "none"}
  /\ expiry' = "ahead"
  /\ call' = [call EXCEPT ![c].step = "send", ![c].login = FALSE,
                          ![c].attempt = 0, ![c].answer = "none"]
  /\ UNCHANGED <<state, filed, lost>>

-----------------------------------------------------------------------------

(* The token a request carries: read while another goroutine stores one,   *)
(* it may be neither.                                                      *)
TokenRead(c) ==
  IF \E d \in Calls \ {c} : At(d, "hold") THEN {token, "torn"} ELSE {token}

Honoured(c, t) == call[c].login \/ Via(c) # "efd" \/ t = "live"

(* What the agency may answer, and how many copies more it then holds.     *)
Failing == {"throttled", "unavailable", "dropped", "refused"}

Denied(c, t) ==
  IF ~Honoured(c, t) \/ Via(c) # "efd" THEN {"unauthorized"} ELSE {}

(* An answer to a filing that says nothing of what became of it.           *)
Unread == {"unavailable", "dropped", "garbled", "blank"}

Served(c) ==
  IF call[c].login THEN [answer : {"accepted", "garbled"}, copies : {0}]
  ELSE IF call[c].op \in Lookups
  THEN [answer : {"accepted", "garbled", "missing"}, copies : {0}]
  ELSE [answer : Held(call[c].op) \cup Unread, copies : {1}] \cup
       [answer : Declined(call[c].op) \cup {"garbled", "blank"},
        copies : {0}]

Outcome(c, t) ==
  [answer : Failing \cup Denied(c, t), copies : {0}]
  \cup (IF Honoured(c, t) THEN Served(c) ELSE {})

(* One request; the adapter reads the token for each of them.              *)
Post(c) ==
  /\ At(c, "send")
  /\ \E t \in TokenRead(c) : \E outcome \in Outcome(c, t) :
       /\ call' = [call EXCEPT ![c].step = "replied",
                               ![c].answer = outcome.answer]
       /\ filed' = [filed EXCEPT ![c] = @ + outcome.copies]
       /\ lost' = [lost EXCEPT ![c] =
                     @ + (IF outcome.answer \in Unread
                          THEN outcome.copies ELSE 0)]
  /\ UNCHANGED <<state, token, expiry>>

(* Mutant: a filing still pending is asked for again.                      *)
EndsUnlessPending(c) ==
  \/ ~Transient(call[c].answer) /\ call[c].answer # "pending"
  \/ LastAttempt(call[c].attempt)

Ends(c) == ~Transient(call[c].answer) \/ LastAttempt(call[c].attempt)

Settle(c) ==
  /\ At(c, "replied")
  /\ Ends(c)
  /\ IF ~call[c].login THEN Return(c, Settled(call[c].op, call[c].answer))
     ELSE IF call[c].answer = "accepted" THEN GoTo(c, "hold")
     ELSE Return(c, "login_failed")
  /\ UNCHANGED <<state, token, expiry, filed, lost>>

(* Mutant: the loop does not count the attempt.                            *)
NextAttemptFree(attempt) == attempt

NextAttempt(attempt) == attempt + 1

(* Otherwise sleepBackoff, which ends with its timer or with the caller's  *)
(* context.                                                                *)
Wake(c) ==
  /\ At(c, "replied")
  /\ ~Ends(c)
  /\ \/ call' = [call EXCEPT ![c].step = "send", ![c].answer = "none",
                             ![c].attempt = NextAttempt(@)]
     \/ Return(c, "cancelled")
  /\ UNCHANGED <<state, token, expiry, filed, lost>>

-----------------------------------------------------------------------------

(* The clock comes within a minute of tokenExpires.                        *)
ExpiryNears ==
  /\ expiry = "ahead"
  /\ expiry' = "near"
  /\ UNCHANGED <<state, token, call, filed, lost>>

(* And passes it: that minute is more than a call needs from authenticate  *)
(* to its first request.                                                   *)
ExpiryPasses ==
  /\ expiry = "near"
  /\ \A c \in Calls :
       At(c, "send") => call[c].login \/ call[c].attempt > 0
  /\ expiry' = "past"
  /\ token' = IF token = "live" THEN "expired" ELSE token
  /\ UNCHANGED <<state, call, filed, lost>>

(* EFD stops honouring the token.                                          *)
Revoke ==
  /\ token = "live"
  /\ token' = "revoked"
  /\ UNCHANGED <<state, expiry, call, filed, lost>>

Progress(c) ==
  \/ Unsupported(c) \/ Invalid(c) \/ NotImplemented(c) \/ Checked(c)
  \/ Authenticate(c) \/ LoginDone(c)
  \/ Post(c) \/ Settle(c) \/ Wake(c)

Environment == ExpiryNears \/ ExpiryPasses \/ Revoke
=============================================================================
