-------------------------- MODULE IrisClientProofs --------------------------
(***************************************************************************)
(* What holds of SubmitForm for every retry budget and every number of     *)
(* goroutines that share one client.                                       *)
(***************************************************************************)
EXTENDS IrisClient, TLAPS

(* The facts about one submission's record that its steps need.            *)
LEMMA CallFields ==
  ASSUME TypeOK, NEW s \in Submissions
  PROVE  /\ call[s] \in Call
         /\ call[s].step \in Step /\ call[s].attempt \in Nat
         /\ call[s].token \in Token /\ call[s].reply \in Reply \cup {"none"}
         /\ call[s].relogged \in BOOLEAN /\ call[s].result \in Result
         /\ filed[s] \in Nat /\ lost[s] \in Nat
<1>1. call[s] \in Call /\ filed[s] \in Nat /\ lost[s] \in Nat
  BY DEF TypeOK
<1>2. QED
  BY <1>1 DEF Call

(* The inductive invariant, for one submission's record and its copies.    *)
(* The reply is the last attempt's, so it is there exactly from the reply  *)
(* to the next attempt, and a copy beyond one per earlier attempt goes with*)
(* it.                                                                     *)
Sound(c, copies, losses) ==
  /\ c.step \in {"idle", "login", "validate", "send"} => c.reply = "none"
  /\ c.step = "replied" => c.reply # "none"
  /\ c.step = "relogin" => c.reply = "unauthorized"
  /\ c.step = "backoff" => Transient(c.reply) /\ c.attempt < MaxRetries
  /\ c.step # "done" => c.result = "none"
  /\ c.attempt <= MaxRetries
  /\ copies = losses + (IF c.reply \in {"accepted", "garbled"} THEN 1 ELSE 0)
  /\ copies <= c.attempt + (IF c.reply = "none" THEN 0 ELSE 1)
  /\ credentials /\ c.result = "unauthorized" => c.attempt = MaxRetries

IInv ==
  /\ TypeOK
  /\ \A s \in Submissions : Sound(call[s], filed[s], lost[s])

(* What a request does to the form: a reply that is in the protocol and at *)
(* most one more copy, lost or reported.                                   *)
LEMMA OutcomeCases ==
  ASSUME NEW token, NEW outcome \in Outcome(token)
  PROVE  /\ outcome.reply \in Reply /\ outcome.reply # "none"
         /\ outcome.copies \in {0, 1}
         /\ outcome \in LostCopy =>
              /\ outcome.copies = 1
              /\ outcome.reply \notin {"accepted", "garbled"}
         /\ outcome \notin LostCopy =>
              outcome.copies =
                IF outcome.reply \in {"accepted", "garbled"} THEN 1 ELSE 0
BY DEF Outcome, LostCopy, Failures, Reply

(* A step of one submission that leaves the copies alone.                  *)
LEMMA QuietStep ==
  ASSUME IInv, NEW s \in Submissions, NEW c \in Call,
         Sound(c, filed[s], lost[s]),
         call' = [call EXCEPT ![s] = c],
         UNCHANGED <<credentials, filed, lost>>,
         jwt' \in Token, expiry' \in {"unset", "ahead", "near"}
  PROVE  IInv'
<1>1. TypeOK'
  BY DEF IInv, TypeOK
<1>2. call'[s] = c /\ \A x \in Submissions : x # s => call'[x] = call[x]
  BY DEF IInv, TypeOK
<1>3. ASSUME NEW x \in Submissions
      PROVE  Sound(call[x], filed[x], lost[x])'
  <2>1. CASE x = s
    BY <1>2, <2>1 DEF Sound, Transient
  <2>2. CASE x # s
    BY <1>2, <2>2 DEF IInv, Sound, Transient
  <2>3. QED
    BY <2>1, <2>2
<1>4. QED
  BY <1>1, <1>3 DEF IInv

(* A step of the token or of the clock.                                    *)
LEMMA TokenStep ==
  ASSUME IInv, UNCHANGED <<credentials, call, filed, lost>>,
         jwt' \in Token, expiry' \in {"unset", "ahead", "near"}
  PROVE  IInv'
BY DEF IInv, TypeOK, Sound, Transient

(* A client that has submitted nothing satisfies the invariant.            *)
LEMMA IrisInit == Init => IInv
<1> SUFFICES ASSUME Init
             PROVE  IInv
  OBVIOUS
<1>1. TypeOK
  BY DEF Init, TypeOK, Token, Call, Step, Reply, Result
<1>2. ASSUME NEW s \in Submissions
      PROVE  Sound(call[s], filed[s], lost[s])
  BY MaxRetriesAssumption DEF Init, Sound
<1>3. QED
  BY <1>1, <1>2 DEF IInv

(* Logging in, validating and starting leave no reply and no copy.         *)
LEMMA LoginSteps ==
  ASSUME IInv, NEW s \in Submissions,
         \/ Start(s) \/ LoginFails(s) \/ LoginDone(s) \/ ClearToken(s)
         \/ Validate(s)
  PROVE  IInv'
<1> DEFINE c == call[s]
<1>1. /\ c \in Call /\ Sound(c, filed[s], lost[s])
      /\ filed[s] \in Nat /\ lost[s] \in Nat
      /\ call \in [Submissions -> Call]
      /\ jwt \in Token /\ expiry \in {"unset", "ahead", "near"}
  BY CallFields DEF IInv, TypeOK
<1>2. CASE EnsureHeld(s)
  <2>1. [c EXCEPT !.step = "validate"] \in Call
    BY <1>1 DEF Call, Step
  <2>2. Sound([c EXCEPT !.step = "validate"], filed[s], lost[s])
    BY <1>1, <1>2 DEF EnsureHeld, At, Sound, Call
  <2>3. QED
    BY <1>1, <1>2, <2>1, <2>2, QuietStep DEF EnsureHeld, GoTo
<1>3. CASE EnsureLogin(s)
  <2>1. PICK token \in {"live", "none"} :
          call' = [call EXCEPT ![s].step = "login", ![s].token = token]
    BY <1>3 DEF EnsureLogin, Login
  <2> DEFINE d == [c EXCEPT !.step = "login", !.token = token]
  <2>2. d \in Call
    BY <1>1 DEF Call, Step, Token
  <2>3. Sound(d, filed[s], lost[s])
    BY <1>1, <1>3 DEF EnsureLogin, At, Sound, Call
  <2>4. call' = [call EXCEPT ![s] = d]
    BY <1>1, <2>1
  <2>5. QED
    BY <1>1, <1>3, <2>2, <2>3, <2>4, QuietStep DEF EnsureLogin
<1>4. CASE EnsureMissing(s) \/ ClearToken(s)
  <2> DEFINE d == [c EXCEPT !.step = "done", !.result = "missing_jwt"]
  <2>1. d \in Call
    BY <1>1 DEF Call, Step, Result
  <2>2. Sound(d, filed[s], lost[s])
    BY <1>1, <1>4 DEF EnsureMissing, ClearToken, At, Sound, Call
  <2>3. call' = [call EXCEPT ![s] = d] /\ jwt' \in Token
    BY <1>1, <1>4 DEF EnsureMissing, ClearToken, Return, Token
  <2>4. QED
    BY <1>1, <1>4, <2>1, <2>2, <2>3, QuietStep DEF EnsureMissing, ClearToken
<1>5. CASE LoginFails(s)
  <2> DEFINE d == [c EXCEPT !.step = "done", !.result = "auth_failed"]
  <2>1. d \in Call
    BY <1>1 DEF Call, Step, Result
  <2>2. Sound(d, filed[s], lost[s])
    BY <1>1, <1>5 DEF LoginFails, Sound, Call
  <2>3. call' = [call EXCEPT ![s] = d]
    BY <1>1, <1>5 DEF LoginFails, Return
  <2>4. QED
    BY <1>1, <1>5, <2>1, <2>2, <2>3, QuietStep DEF LoginFails
<1>6. CASE LoginDone(s)
  <2> DEFINE d == [c EXCEPT !.step = "validate", !.token = "none"]
  <2>1. d \in Call
    BY <1>1 DEF Call, Step, Token
  <2>2. Sound(d, filed[s], lost[s])
    BY <1>1, <1>6 DEF LoginDone, At, Sound, Call
  <2>3. call' = [call EXCEPT ![s] = d]
    BY <1>1, <1>6 DEF LoginDone, Login
  <2>4. jwt' \in Token /\ expiry' = "ahead"
    BY <1>1, <1>6 DEF LoginDone, HoldToken, Call
  <2>5. QED
    BY <1>1, <1>6, <2>1, <2>2, <2>3, <2>4, QuietStep DEF LoginDone, HoldToken
<1>7. CASE Validate(s)
  <2>1. PICK d \in {[c EXCEPT !.step = "send"],
                    [c EXCEPT !.step = "done", !.result = "invalid"]} :
          call' = [call EXCEPT ![s] = d]
    BY <1>1, <1>7 DEF Validate, GoTo, Return
  <2>2. d \in Call
    BY <1>1 DEF Call, Step, Result
  <2>3. Sound(d, filed[s], lost[s])
    BY <1>1, <1>7 DEF Validate, At, Sound, Call
  <2>4. QED
    BY <1>1, <1>7, <2>1, <2>2, <2>3, QuietStep DEF Validate
<1>8. CASE EnsureExpired(s)
  <2>1. [c EXCEPT !.step = "clear"] \in Call
    BY <1>1 DEF Call, Step
  <2>2. Sound([c EXCEPT !.step = "clear"], filed[s], lost[s])
    BY <1>1, <1>8 DEF EnsureExpired, At, Sound, Call
  <2>3. QED
    BY <1>1, <1>8, <2>1, <2>2, QuietStep DEF EnsureExpired, GoTo
<1>9. QED
  BY <1>2, <1>3, <1>4, <1>5, <1>6, <1>7, <1>8 DEF Start

(* An attempt: the copy it may leave goes with its reply.                  *)
LEMMA PostStep ==
  ASSUME IInv, NEW s \in Submissions, Post(s)
  PROVE  IInv'
<1> DEFINE c == call[s]
<1>1. /\ c \in Call /\ Sound(c, filed[s], lost[s]) /\ c.attempt \in Nat
      /\ filed[s] \in Nat /\ lost[s] \in Nat
  BY CallFields DEF IInv, TypeOK
<1>2. PICK outcome \in Outcome(jwt) :
        /\ call' = [call EXCEPT ![s].step = "replied",
                                ![s].reply = outcome.reply]
        /\ filed' = [filed EXCEPT ![s] = @ + outcome.copies]
        /\ lost' = [lost EXCEPT ![s] =
                      @ + (IF outcome \in LostCopy THEN 1 ELSE 0)]
        /\ UNCHANGED <<credentials, jwt, expiry>>
  BY Zenon DEF Post
<1> DEFINE d == [c EXCEPT !.step = "replied", !.reply = outcome.reply]
           f == filed[s] + outcome.copies
           l == lost[s] + (IF outcome \in LostCopy THEN 1 ELSE 0)
<1>3. /\ outcome.reply \in Reply /\ outcome.reply # "none"
      /\ outcome.copies \in {0, 1}
  BY OutcomeCases
<1>4. d \in Call
  BY <1>1, <1>3 DEF Call, Step
<1>5. call' = [call EXCEPT ![s] = d]
  BY <1>2 DEF IInv, TypeOK
<1>6. f \in Nat /\ l \in Nat
  BY <1>1, <1>3
<1>7. TypeOK'
  BY <1>2, <1>4, <1>5, <1>6 DEF IInv, TypeOK
<1>8. Sound(d, f, l)
  <2>1. c.reply = "none" /\ c.step = "send"
    BY <1>1 DEF Post, At, Sound
  <2>2. filed[s] = lost[s] /\ filed[s] <= c.attempt
    BY <1>1, <2>1 DEF Sound
  <2>3. f = l + (IF outcome.reply \in {"accepted", "garbled"} THEN 1 ELSE 0)
    BY <1>1, <2>2, OutcomeCases
  <2>4. f <= c.attempt + 1
    BY <1>1, <1>3, <2>2
  <2>5. /\ d.step = "replied" /\ d.reply = outcome.reply
        /\ d.attempt = c.attempt /\ d.result = c.result
    BY <1>1 DEF Call
  <2>6. QED
    BY <1>1, <1>3, <2>1, <2>3, <2>4, <2>5 DEF Sound
<1>9. /\ call'[s] = d /\ filed'[s] = f /\ lost'[s] = l
      /\ \A x \in Submissions : x # s =>
           call'[x] = call[x] /\ filed'[x] = filed[x] /\ lost'[x] = lost[x]
  BY <1>2, <1>5 DEF IInv, TypeOK
<1> HIDE DEF d, f, l
<1>10. ASSUME NEW x \in Submissions
       PROVE  Sound(call[x], filed[x], lost[x])'
  <2>1. CASE x = s
    <3>1. credentials' = credentials
      BY <1>2
    <3>2. QED
      BY <1>8, <1>9, <2>1, <3>1 DEF Sound, Transient
  <2>2. CASE x # s
    <3>1. credentials' = credentials
      BY <1>2
    <3>2. QED
      BY <1>9, <2>2, <3>1 DEF IInv, Sound, Transient
  <2>3. QED
    BY <2>1, <2>2
<1>11. QED
  BY <1>7, <1>10 DEF IInv

(* The retry loop after a reply.                                           *)
LEMMA RetrySteps ==
  ASSUME IInv, NEW s \in Submissions,
         \/ Settle(s) \/ Backoff(s) \/ Wake(s) \/ Cancelled(s)
         \/ Relogin(s) \/ ReloginDone(s)
  PROVE  IInv'
<1> DEFINE c == call[s]
<1>1. /\ c \in Call /\ Sound(c, filed[s], lost[s]) 
      /\ c.attempt \in Nat /\ c.attempt + 1 \in Nat
      /\ filed[s] \in Nat /\ lost[s] \in Nat
      /\ call \in [Submissions -> Call]
      /\ jwt \in Token /\ expiry \in {"unset", "ahead", "near"}
  BY CallFields DEF IInv, TypeOK
<1>2. MaxRetries \in Nat
  BY MaxRetriesAssumption
<1>3. CASE Settle(s)
  <2> DEFINE d == [c EXCEPT !.step = "done", !.result = Settled(c.reply)]
  <2>1. c.step = "replied" /\ c.reply \in Reply
    BY <1>1, <1>3 DEF Settle, At, Sound, Call
  <2>2. Settled(c.reply) \in Result
    BY <2>1 DEF Settled, Reply, Result
  <2>3. d \in Call
    BY <1>1, <2>2 DEF Call, Step
  <2>4. credentials => Settled(c.reply) # "unauthorized"
    BY <1>3, <2>1 DEF Settle, Settled, Reauthenticates, Reply
  <2>5. Sound(d, filed[s], lost[s])
    BY <1>1, <2>1, <2>4 DEF Sound, Call
  <2>6. call' = [call EXCEPT ![s] = d]
    BY <1>1, <1>3, Zenon DEF Settle, Return
  <2>7. QED
    BY <1>1, <1>3, <2>3, <2>5, <2>6, QuietStep DEF Settle
<1>4. CASE Backoff(s)
  <2> DEFINE d == [c EXCEPT !.step = "backoff"]
  <2>1. d \in Call
    BY <1>1 DEF Call, Step
  <2>2. c.step = "replied" /\ Transient(c.reply) /\ c.attempt # MaxRetries
    BY <1>4 DEF Backoff, At, LastAttempt
  <2>3. c.attempt <= MaxRetries
    BY <1>1 DEF Sound
  <2>4. c.attempt < MaxRetries
    BY <1>1, <1>2, <2>2, <2>3
  <2>5. /\ d.step = "backoff" /\ d.reply = c.reply
        /\ d.attempt = c.attempt /\ d.result = c.result
    BY <1>1 DEF Call
  <2>6. Sound(d, filed[s], lost[s])
    BY <1>1, <2>2, <2>4, <2>5 DEF Sound
  <2>7. QED
    BY <1>1, <1>4, <2>1, <2>6, QuietStep DEF Backoff, GoTo
<1>5. CASE Wake(s)
  <2> DEFINE d == [c EXCEPT !.step = "send", !.reply = "none",
                            !.attempt = @ + 1]
  <2>1. d \in Call
    BY <1>1 DEF Call, Step
  <2>2. Sound(d, filed[s], lost[s])
    BY <1>1, <1>2, <1>5 DEF Wake, At, Sound, Call, Transient
  <2>3. call' = [call EXCEPT ![s] = d]
    BY <1>1, <1>5 DEF Wake
  <2>4. QED
    BY <1>1, <1>5, <2>1, <2>2, <2>3, QuietStep DEF Wake
<1>6. CASE Cancelled(s)
  <2> DEFINE d == [c EXCEPT !.step = "done", !.result = "cancelled"]
  <2>1. d \in Call
    BY <1>1 DEF Call, Step, Result
  <2>2. Sound(d, filed[s], lost[s])
    BY <1>1, <1>6 DEF Cancelled, At, Sound, Call
  <2>3. call' = [call EXCEPT ![s] = d]
    BY <1>1, <1>6 DEF Cancelled, Return
  <2>4. QED
    BY <1>1, <1>6, <2>1, <2>2, <2>3, QuietStep DEF Cancelled
<1>7. CASE Relogin(s)
  <2>1. PICK token \in {"live", "none"} :
          call' = [call EXCEPT ![s].step = "relogin", ![s].token = token,
                               ![s].relogged = TRUE]
    BY <1>7 DEF Relogin
  <2> DEFINE d == [c EXCEPT !.step = "relogin", !.token = token,
                            !.relogged = TRUE]
  <2>2. d \in Call
    BY <1>1 DEF Call, Step, Token
  <2>3. Sound(d, filed[s], lost[s])
    BY <1>1, <1>7 DEF Relogin, Reauthenticates, At, Sound, Call
  <2>4. call' = [call EXCEPT ![s] = d]
    BY <1>1, <2>1
  <2>5. QED
    BY <1>1, <1>7, <2>2, <2>3, <2>4, QuietStep DEF Relogin
<1>8. CASE ReloginDone(s)
  <2>1. /\ c.step = "relogin" /\ c.reply = "unauthorized"
        /\ jwt' \in Token /\ expiry' = "ahead"
        /\ UNCHANGED <<credentials, filed, lost>>
    BY <1>1, <1>8 DEF ReloginDone, HoldToken, At, Sound, Call
  <2>2. CASE LastAttempt(c.attempt)
    <3> DEFINE d == [c EXCEPT !.step = "done", !.result = "unauthorized"]
    <3>1. d \in Call
      BY <1>1 DEF Call, Step, Result
    <3>2. Sound(d, filed[s], lost[s])
      BY <1>1, <2>1, <2>2 DEF LastAttempt, Sound, Call
    <3>3. call' = [call EXCEPT ![s] = d]
      BY <1>1, <1>8, <2>2 DEF ReloginDone, Return
    <3>4. QED
      BY <1>1, <2>1, <3>1, <3>2, <3>3, QuietStep
  <2>3. CASE ~LastAttempt(c.attempt)
    <3> DEFINE d == [c EXCEPT !.step = "send", !.token = "none",
                              !.reply = "none", !.attempt = @ + 1]
    <3>1. d \in Call
      BY <1>1 DEF Call, Step, Token
    <3>2. Sound(d, filed[s], lost[s])
      BY <1>1, <1>2, <2>1, <2>3 DEF LastAttempt, Sound, Call
    <3>3. call' = [call EXCEPT ![s] = d]
      BY <1>1, <1>8, <2>3 DEF ReloginDone, Retried
    <3>4. QED
      BY <1>1, <2>1, <3>1, <3>2, <3>3, QuietStep
  <2>4. QED
    BY <2>2, <2>3
<1>9. QED
  BY <1>3, <1>4, <1>5, <1>6, <1>7, <1>8

(* Every step of a submission, of the token and of IRIS keeps the          *)
(* invariant.                                                              *)
LEMMA IrisStep ==
  ASSUME IInv, [Next]_vars
  PROVE  IInv'
<1>1. /\ jwt \in Token /\ expiry \in {"unset", "ahead", "near"}
      /\ "dead" \in Token /\ "live" \in Token
  BY DEF IInv, TypeOK, Token
<1>2. ASSUME NEW s \in Submissions, Start(s) \/ Progress(s)
      PROVE  IInv'
  BY <1>2, LoginSteps, PostStep, RetrySteps DEF Progress
<1>3. CASE SetJWT \/ ExpiryNears \/ RevokeHeld
  BY <1>1, <1>3, TokenStep DEF SetJWT, ExpiryNears, RevokeHeld
<1>4. ASSUME NEW s \in Submissions, RevokeUndelivered(s)
      PROVE  IInv'
  <2> DEFINE c == call[s]
             d == [c EXCEPT !.token = "dead"]
  <2>1. c \in Call /\ Sound(c, filed[s], lost[s])
    BY CallFields DEF IInv
  <2>2. d \in Call
    BY <1>1, <2>1 DEF Call
  <2>3. Sound(d, filed[s], lost[s])
    BY <2>1 DEF Sound, Call
  <2>4. QED
    BY <1>1, <1>4, <2>2, <2>3, QuietStep DEF RevokeUndelivered
<1>5. CASE UNCHANGED vars
  BY <1>1, <1>5, TokenStep DEF vars
<1>6. QED
  BY <1>2, <1>3, <1>4, <1>5 DEF Next, Service

(* The invariant holds of every behaviour.                                 *)
THEOREM IrisInvariant == Spec => []IInv
<1>1. Init => IInv
  BY IrisInit
<1>2. IInv /\ [Next]_vars => IInv'
  BY IrisStep
<1>3. QED
  BY <1>1, <1>2, PTL DEF Spec

(* Every variable keeps its type in every behaviour of the module.         *)
THEOREM TypeCorrect == Spec => []TypeOK
BY IrisInvariant, PTL DEF IInv

(* Every copy on file is one whose reply was lost, or the one reported.    *)
THEOREM CopiesStayAccounted == Spec => []CopiesAccounted
<1>1. IInv => CopiesAccounted
  BY DEF IInv, Sound, CopiesAccounted, Delivered
<1>2. QED
  BY <1>1, IrisInvariant, PTL

(* One call leaves at most one copy per attempt of the retry budget.       *)
THEOREM CopiesStayBounded == Spec => []CopiesBounded
<1>1. ASSUME IInv, NEW s \in Submissions
      PROVE  filed[s] <= MaxRetries + 1
  <2>1. /\ filed[s] \in Nat /\ call[s].attempt \in Nat
        /\ filed[s] <= call[s].attempt + 1 /\ call[s].attempt <= MaxRetries
    BY <1>1, CallFields DEF IInv, Sound
  <2>2. QED
    BY <2>1, MaxRetriesAssumption
<1>2. IInv => CopiesBounded
  BY <1>1 DEF CopiesBounded
<1>3. QED
  BY <1>2, IrisInvariant, PTL

(* With credentials a call reports 401 on its last attempt only.           *)
THEOREM UnauthorizedComesLast == Spec => []GivesUpLate
<1>1. IInv => GivesUpLate
  BY DEF IInv, Sound, GivesUpLate, LastAttempt
<1>2. QED
  BY <1>1, IrisInvariant, PTL
=============================================================================
