----------------------------- MODULE Compliance -----------------------------
(***************************************************************************)
(* pkg/compliance over its adapters: FileFormD, AmendFormD and             *)
(* FileBlueSkyNotice load a record, file with the agency and write the     *)
(* whole record back with what the agency said.  None of them looks at the *)
(* status it loaded, and the agency is not part of any transaction.  The   *)
(* calls of a behaviour go to one agency, and about one Form D, one notice *)
(* or one 1099 file; calls to different agencies share no state.           *)
(***************************************************************************)
EXTENDS FilingClient

VARIABLES
  host,    \* how the host makes its calls; fixed
  agency,  \* where this behaviour files; fixed
  form,    \* the stored FormD
  notice,  \* the stored BlueSkyFiling
  loaded   \* loaded[c]: the copies call c works on

records == <<host, agency, form, notice, loaded>>
vars == <<client, records>>

(* careful: serial, and files or amends only what the record says is open  *)
(* for it, which the service itself does not ask.                          *)
Host == {"concurrent", "serial", "careful"}

Operations ==
  [edgar |-> FormOps \cup {"form_d_status"},
   state |-> NoticeOps \cup {"notice_status"},
   irs   |-> {"fire_file"}]

(* number: the filing SECFileNumber names; dated: FilingDate is set.       *)
FormD ==
  [status : {"draft", "filed", "amended", "rejected"},
   number : Calls \cup {"none"}, dated : BOOLEAN]

(* noted: the filings whose state_id is in Notes.                          *)
BlueSkyFiling ==
  [status : {"pending", "filed", "approved", "rejected"},
   noted : SUBSET Calls]

NewForm == [status |-> "draft", number |-> "none", dated |-> FALSE]

NewNotice == [status |-> "pending", noted |-> {}]

Init ==
  /\ InitClient
  /\ host \in Host
  /\ agency \in DOMAIN Operations
  /\ agency # "state" => state = CHOOSE s \in NoticesIn : TRUE
  /\ form = NewForm
  /\ notice = NewNotice
  /\ loaded = [c \in Calls |-> [form |-> NewForm, notice |-> NewNotice]]

Quiet == \A c \in Calls : call[c].step \in {"idle", "done"}

(* What a careful host asks the stored record before it calls.             *)
Open(op) ==
  CASE op = "file_form_d" -> form.status \in {"draft", "rejected"}
    [] op = "amend_form_d" -> form.status \in {"filed", "amended"}
    [] op = "file_notice" -> notice.status \in {"pending", "rejected"}
    [] OTHER -> TRUE

Load(c, op) ==
  loaded' = CASE op \in FormOps -> [loaded EXCEPT ![c].form = form]
              [] op = "file_notice" -> [loaded EXCEPT ![c].notice = notice]
              [] OTHER -> loaded

Begin(c) ==
  /\ At(c, "idle")
  /\ host # "concurrent" => Quiet
  /\ \E op \in Operations[agency] :
       /\ host = "careful" => Open(op)
       /\ \/ /\ call' = [call EXCEPT ![c].op = op, ![c].step = "check"]
             /\ Load(c, op)
          \/ /\ op \in Recorded
             /\ call' = [call EXCEPT ![c].op = op, ![c].step = "done",
                                     ![c].result = "unloaded"]
             /\ UNCHANGED loaded
  /\ UNCHANGED <<state, token, expiry, filed, lost,
                 host, agency, form, notice>>

(* The identifier in an acknowledgment; one without a status has none.     *)
Number(c) == IF call[c].answer = "blank" THEN "none" ELSE c

(* Mutant: a suspended form counts as filed.                               *)
SuspendedToo(filedAs, answer, old) ==
  CASE answer \in {"accepted", "blank", "suspended"} -> filedAs
    [] answer = "rejected" -> "rejected"
    [] OTHER -> old

(* Mutant: the agency's word is stored as it is.                           *)
StatusRaw(filedAs, answer, old) == answer

(* Mutant: a status that says accepted is not one it knows.                *)
StatusReceivedOnly(filedAs, answer, old) ==
  CASE answer = "blank" -> filedAs
    [] answer \in {"rejected", "suspended"} -> "rejected"
    [] OTHER -> old

(* No status is RECEIVED; one not listed leaves the record's as it was.    *)
StatusAfter(filedAs, answer, old) ==
  CASE answer \in {"accepted", "blank"} -> filedAs
    [] answer \in {"rejected", "suspended"} -> "rejected"
    [] OTHER -> old

FileFormD(c) ==
  /\ call[c].op = "file_form_d"
  /\ form' = [status |-> StatusAfter("filed", call[c].answer,
                                     loaded[c].form.status),
              number |-> Number(c), dated |-> TRUE]
  /\ UNCHANGED notice

AmendFormD(c) ==
  /\ call[c].op = "amend_form_d"
  /\ form' = [status |-> StatusAfter("amended", call[c].answer,
                                     loaded[c].form.status),
              number |-> Number(c), dated |-> loaded[c].form.dated]
  /\ UNCHANGED notice

(* Mutant: the identifier replaces the notes.                              *)
NotedOver(old, number) == {number} \ {"none"}

Noted(old, number) == old \cup ({number} \ {"none"})

FileBlueSkyNotice(c) ==
  LET answer == call[c].answer
      old == loaded[c].notice IN
  /\ call[c].op = "file_notice"
  /\ notice' = [status |-> IF answer = "approved" THEN "approved"
                           ELSE StatusAfter("filed", answer, old.status),
                noted |-> Noted(old.noted, Number(c))]
  /\ UNCHANGED form

Save(c) ==
  /\ At(c, "save")
  /\ \/ /\ FileFormD(c) \/ AmendFormD(c) \/ FileBlueSkyNotice(c)
        /\ call' = [call EXCEPT ![c].step = "done", ![c].result = "recorded"]
     \/ /\ call' = [call EXCEPT ![c].step = "done", ![c].result = "unsaved"]
        /\ UNCHANGED <<form, notice>>
  /\ UNCHANGED <<state, token, expiry, filed, lost,
                 host, agency, loaded>>

Step(c) == (Progress(c) /\ UNCHANGED records) \/ Save(c)

Next ==
  \/ \E c \in Calls : Begin(c) \/ Step(c)
  \/ Environment /\ UNCHANGED records

Spec == Init /\ [][Next]_vars

(* A goroutine that can run does; requests end with a reply or with the    *)
(* client's timeout, sleeps with their timer or the context.               *)
Fairness == \A c \in Calls : WF_vars(Step(c))

FairSpec == Spec /\ Fairness

-----------------------------------------------------------------------------

TypeOK ==
  /\ state \in States
  /\ token \in {"none", "live", "revoked", "expired"}
  /\ expiry \in {"ahead", "near", "past"}
  /\ call \in [Calls -> Call]
  /\ filed \in [Calls -> Nat]
  /\ lost \in [Calls -> Nat]
  /\ form \in FormD
  /\ notice \in BlueSkyFiling
  /\ loaded \in [Calls -> [form : FormD, notice : BlueSkyFiling]]

(* The call has read an acknowledgment that its filing was taken.          *)
Delivered(c) ==
  /\ ~call[c].login
  /\ call[c].op \notin Lookups
  /\ call[c].answer \in Taken

(* No loop sends a filing again once it has read that it was taken: every  *)
(* copy beyond that one is one whose acknowledgment was lost, unreadable   *)
(* or silent about it; lookups and logins file nothing.                    *)
CopiesAccounted ==
  \A c \in Calls : filed[c] = lost[c] + (IF Delivered(c) THEN 1 ELSE 0)

(* A record that names the filing it was made with and says it is in force *)
(* names one the agency holds, however calls overlap and writes fail; a    *)
(* filing in the notes was acknowledged.                                   *)
RecordBacked ==
  /\ form.status \in {"filed", "amended"} /\ form.number # "none" =>
       filed[form.number] > 0
  /\ \A c \in notice.noted : call[c].op = "file_notice"
                             /\ call[c].result = "recorded"

(* Something went wrong with c that its caller can see, or the agency      *)
(* answered with a status FileFormD does not know.                         *)
Mishap(c) ==
  \/ lost[c] > 0
  \/ call[c].result = "unsaved"
  \/ call[c].answer = "pending"

(* An amendment was suspended.                                             *)
AmendmentSuspended ==
  \E c \in Calls : call[c].op = "amend_form_d" /\ call[c].answer = "suspended"

(* A host that makes one call at a time and asks the record first files a  *)
(* form or a notice twice only after a mishap with the first, or when an   *)
(* amendment was suspended: AmendFormD then stores "rejected" over a form  *)
(* the agency holds.                                                       *)
DuplicatesExplained ==
  host = "careful" =>
    \A c, d \in Calls :
      /\ c # d
      /\ call[c].op = call[d].op
      /\ call[c].op \in {"file_form_d", "file_notice"}
      /\ filed[c] > 0 /\ filed[d] > 0
      => \/ Mishap(c) \/ Mishap(d)
         \/ call[c].op = "file_form_d" /\ AmendmentSuspended

(* With one call at a time records forget nothing: the date of the first   *)
(* filing survives amendments, the notes keep every identifier.  (Of two   *)
(* calls that overlap the later write brings back what it loaded.)         *)
NothingForgotten ==
  [][host # "concurrent" =>
       /\ form.dated => form'.dated
       /\ notice.noted \subseteq notice'.noted]_vars

(* With one call at a time EFD answers 401 to a first attempt only when it *)
(* issued an empty token or gave one up early: the minute kept before the  *)
(* recorded expiry covers that attempt.                                    *)
UnauthorizedExplained ==
  host # "concurrent" =>
    \A c \in Calls :
      /\ At(c, "replied") /\ Via(c) = "efd"
      /\ call[c].answer = "unauthorized"
      /\ call[c].attempt = 0
      => token \in {"none", "revoked"}

(* Every call returns, whatever the agency answers: there always comes a   *)
(* time when none is under way.                                            *)
CallsReturn == []<>Quiet
=============================================================================
