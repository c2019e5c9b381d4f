---------------------------- MODULE FilingRoutes ----------------------------
(***************************************************************************)
(* What a filing goes through and what the answers mean: the adapters of   *)
(* pkg/edgar (Form D), pkg/bluesky (state notices, through NASAA EFD or a  *)
(* state portal) and pkg/tax/fire (1099 files).  Each has a copy of one    *)
(* retry loop; they differ in how they sign in and read the answer.        *)
(***************************************************************************)
EXTENDS RetryPolicy

(* The calls of an adapter; the last three only of the host.               *)
FormOps == {"file_form_d", "amend_form_d"}
NoticeOps == {"file_notice", "renew_notice"}
Lookups == {"form_d_status", "notice_status"}
Op == FormOps \cup NoticeOps \cup Lookups \cup {"fire_file"}

(* The calls whose acknowledgment the compliance service stores.           *)
Recorded == FormOps \cup {"file_notice"}

(* States stand for their kind: CO for those served by EFD alone, PR for   *)
(* the territories, which no adapter serves.                               *)
States == {"CO", "FL", "TX", "NY", "CA", "MA", "PR"}

EfdStates == States \ {"FL", "TX", "PR"}

(* The portal adapters, and whether each takes renewals.                   *)
PortalRenews ==
  [FL |-> FALSE, TX |-> FALSE, NY |-> TRUE, CA |-> TRUE, MA |-> TRUE]

(* A portal replaces the EFD adapter of its state.                         *)
Adapter(state) ==
  IF state \in DOMAIN PortalRenews THEN "portal"
  ELSE IF state \in EfdStates THEN "efd" ELSE "none"

Channel(op, state) ==
  CASE op \in FormOps \cup {"form_d_status"} -> "edgar"
    [] op = "fire_file" -> "fire"
    [] OTHER -> Adapter(state)

(* Beside the classes of RetryPolicy, in a 2xx answer: a filing approved,  *)
(* held under another status, suspended or rejected, and an answer in the  *)
(* right syntax that names no status.  missing: 404.  A FIRE page that     *)
(* says Bad is "rejected" with any code below 500.                         *)
Answer == Reply \cup {"approved", "pending", "suspended", "rejected",
                      "blank", "missing"}

Taken == {"accepted", "approved", "pending"}

(* The verdicts an agency gives on a filing it holds or turns down.        *)
Held(op) == IF op \in NoticeOps THEN Taken ELSE Taken \ {"approved"}

Declined(op) ==
  IF op \in FormOps THEN {"suspended", "rejected"} ELSE {"rejected"}

(* What a lookup makes of the error or the body the loop hands it.         *)
LookupResult(answer) ==
  CASE answer = "missing" -> "not_found"
    [] answer = "garbled" -> "unparsed"
    [] OTHER -> "acknowledged"

(* EDGAR: any status but REJECTED is returned as it is; none is RECEIVED.  *)
EdgarResult(answer) ==
  CASE answer = "rejected" -> "rejected"
    [] answer = "garbled" -> "unparsed"
    [] OTHER -> "acknowledged"

(* EFD and the portals return a rejection like any other acknowledgment.   *)
NoticeResult(answer) ==
  IF answer = "garbled" THEN "unparsed" ELSE "acknowledged"

(* FIRE: a page or an empty body that names no status is "Good".  What     *)
(* starts like JSON has to be JSON.                                        *)
FireResult(answer) ==
  CASE answer = "rejected" -> "rejected"
    [] answer = "garbled" -> "unparsed"
    [] OTHER -> "acknowledged"

(* How the loop ends on an answer it cannot or may not try again.          *)
LoopError(answer) ==
  CASE answer = "throttled" -> "rate_limited"
    [] answer = "unavailable" -> "unavailable"
    [] answer = "dropped" -> "transport"
    [] answer = "unauthorized" -> "unauthorized"
    [] answer = "refused" -> "refused"

Errors == {"throttled", "unavailable", "dropped", "unauthorized", "refused"}

Understood(op, answer) ==
  CASE op \in Lookups -> LookupResult(answer)
    [] op \in FormOps -> EdgarResult(answer)
    [] op \in NoticeOps -> NoticeResult(answer)
    [] op = "fire_file" -> FireResult(answer)

Settled(op, answer) ==
  IF answer \in Errors THEN LoopError(answer) ELSE Understood(op, answer)
=============================================================================
