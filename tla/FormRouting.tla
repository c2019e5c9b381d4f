---------------------------- MODULE FormRouting ----------------------------
(***************************************************************************)
(* pkg/tax SubmitForm and SubmitForm1099B in front of the transports, and  *)
(* the registry of control codes of pkg/tax/tcc.  The registry keeps the   *)
(* caller's pointer under a key taken when it is registered; what it hands *)
(* out is a copy of whatever the entry holds by then.                      *)
(***************************************************************************)
EXTENDS Integers, FiniteSets

CONSTANT Entries   \* Entries[e]: the system and environment of entry e

ASSUME EntriesAssumption ==
  \A e \in DOMAIN Entries : Entries[e] \in {"iris", "fire"} \X
                                           {"production", "sandbox"}

VARIABLES
  careful,    \* the host leaves entries it has registered alone; fixed
  code,       \* code[e]: the control code entry e holds
  registry,   \* registry[k]: the entry under k
  checked,    \* history: the code the entry under k had when registered
  sent        \* what became of the last form

routing == <<careful, code, registry, checked, sent>>

Keys == {"iris", "fire"} \X {"production", "sandbox"}
Code == {"old", "new", "short"}   \* a short one is not five characters

InitRouting ==
  /\ careful \in BOOLEAN
  /\ code = [e \in DOMAIN Entries |-> "old"]
  /\ registry = [k \in Keys |-> "none"]
  /\ checked = [k \in Keys |-> "none"]
  /\ sent = [result |-> "none"]

(* validateEntry, then the entry replaces the one under its key.           *)
Register(e) ==
  /\ code[e] # "short"
  /\ registry' = [registry EXCEPT ![Entries[e]] = e]
  /\ checked' = [checked EXCEPT ![Entries[e]] = code[e]]
  /\ UNCHANGED <<careful, code, sent>>

Unregister(k) ==
  /\ registry[k] # "none"
  /\ registry' = [registry EXCEPT ![k] = "none"]
  /\ checked' = [checked EXCEPT ![k] = "none"]
  /\ UNCHANGED <<careful, code, sent>>

(* The host changes an entry it built.                                     *)
EditEntry(e) ==
  /\ careful => \A k \in Keys : registry[k] # e
  /\ \E c \in Code \ {code[e]} : code' = [code EXCEPT ![e] = c]
  /\ UNCHANGED <<careful, registry, checked, sent>>

-----------------------------------------------------------------------------

Transport(form, options) ==
  IF options.legacy \/ form.year < 2024 THEN "fire" ELSE "iris"

(* mapIRISEnv and mapFIREEnv: one that is not set is the sandbox.          *)
MapEnv(env) == IF env = "production" THEN "production" ELSE "sandbox"

(* The columns buildFIREFile... fills, those its payer record lists, and   *)
(* the boxes of the form they come from; IRIS has room for all.            *)
FireDIV ==
  [listed |-> {"1", "2", "4"},
   amounts |-> [ordinary |-> "1", qualified |-> "2", withheld |-> "4"]]

FireB ==
  [listed |-> {"2", "3", "A"},
   amounts |-> [proceeds |-> "2", basis |-> "3", withheld |-> "A"]]

IrisDIV ==
  {"ordinary", "qualified", "gains", "section199A", "withheld",
   "state_withheld", "state"}

IrisB == {"description", "acquired", "sold", "proceeds", "basis", "term",
          "withheld"}

Carried(form, transport) ==
  CASE transport = "iris" -> IF form.type = "DIV" THEN IrisDIV ELSE IrisB
    [] transport = "fire" -> DOMAIN (IF form.type = "DIV" THEN FireDIV
                                     ELSE FireB).amounts

(* The code put on the form: the registry's when the issuer is named and   *)
(* a registry given, otherwise none.                                       *)
Resolved(options, key) ==
  IF ~options.named THEN "empty"
  ELSE IF registry[key] = "none" THEN "unknown" ELSE code[registry[key]]

(* validateSubmission and validateFile: the code, an employer number that  *)
(* is not stripped of its hyphen for the payer, and the test mark.         *)
Refused(form, transport, control, marked, client) ==
  \/ control = "empty"
  \/ transport = "fire" /\ control = "short"
  \/ form.ein = "hyphenated"
  \/ transport = "fire" /\ client = "test" /\ ~marked

SubmitForm(form, options) ==
  LET transport == Transport(form, options)
      key == <<transport, MapEnv(options.env)>>
      control == Resolved(options, key)
      marked == transport = "fire" /\ options.env = "test" IN
  /\ sent' = IF options.client = "none" THEN [result |-> "no_transport"]
             ELSE IF control = "unknown" THEN [result |-> "not_registered"]
             ELSE IF Refused(form, transport, control, marked, options.client)
             THEN [result |-> "refused"]
             ELSE [result |-> "submitted", transport |-> transport,
                   year |-> form.year, legacy |-> options.legacy,
                   code |-> control, checked |-> checked[key],
                   marked |-> marked, client |-> options.client,
                   env |-> key[2], boxes |-> Carried(form, transport)]
  /\ UNCHANGED <<careful, code, registry, checked>>

Form == [type : {"DIV", "B"}, year : {2023, 2024},
         ein : {"digits", "hyphenated"}]

Request == [legacy : BOOLEAN, named : BOOLEAN,
            env : {"unset", "test", "production"},
            client : {"none", "test", "production"}]

(* Nothing the host does later concerns a form that was sent: behaviours   *)
(* end with one.                                                           *)
NextRouting ==
  /\ sent.result = "none"
  /\ \/ \E e \in DOMAIN Entries : Register(e) \/ EditEntry(e)
     \/ \E k \in Keys : Unregister(k)
     \/ \E form \in Form, options \in Request : SubmitForm(form, options)

-----------------------------------------------------------------------------

(* A form goes out only by the transport of its year, with a code, and the *)
(* tax withheld on it in a listed column; as long as the host leaves what  *)
(* it registered alone the code is the one that was validated for that     *)
(* system and environment; no real file reaches the test system, and no    *)
(* test file carries a production code.                                    *)
RoutingSound ==
  sent.result = "submitted" =>
    /\ sent.transport = "iris" <=> sent.year >= 2024 /\ ~sent.legacy
    /\ sent.code \in Code
    /\ careful => sent.code = sent.checked /\ sent.code # "short"
    /\ "withheld" \in sent.boxes
    /\ sent.transport = "fire" /\ sent.client = "test" => sent.marked
    /\ sent.marked => sent.env = "sandbox"
    /\ \A f \in {FireDIV, FireB} : \A box \in DOMAIN f.amounts :
         f.amounts[box] \in f.listed
=============================================================================
