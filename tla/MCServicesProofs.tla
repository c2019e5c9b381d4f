-------------------------- MODULE MCServicesProofs --------------------------
(***************************************************************************)
(* The services side by side, and what the calculators answer: for every   *)
(* question, file and request, not only those TLC asks.                    *)
(***************************************************************************)
EXTENDS MCServices, ServicesProofs, CalculatorsProofs

mcvars ==
  <<desk, host, instruments, grants, dividends, answer, fireFile, routing>>

(* What the services do side by side is what each of them does.            *)
LEMMA EachService ==
  MCSpec => /\ InstrumentsSpec /\ GrantsSpec /\ DividendsSpec
            /\ InitAnswer /\ [][NextAnswer]_answer
            /\ InitFireFile /\ [][NextFireFile]_fireFile
            /\ InitRouting /\ [][NextRouting]_routing
<1>1. MCInit => /\ host \in Host /\ InitInstruments /\ InitGrants
                /\ InitDividends /\ InitAnswer /\ InitFireFile /\ InitRouting
  BY DEF MCInit
<1>2. ASSUME [MCNext]_mcvars
      PROVE  /\ [NextInstruments]_<<host, instruments>>
             /\ [NextGrants]_<<host, grants>>
             /\ [NextDividends]_<<host, dividends>>
             /\ [NextAnswer]_answer /\ [NextFireFile]_fireFile
             /\ [NextRouting]_routing
  <2>1. NextInstruments \/ NextGrants \/ NextDividends => UNCHANGED host
    <3>1. NextInstruments => UNCHANGED host
      BY Zenon DEF NextInstruments, CreateInstrument, ReadInstrument,
                   WriteInstrument, LockupEnds, SetProposal
    <3>2. NextGrants => UNCHANGED host
      BY Zenon DEF NextGrants, CheckGrant, StoreResult, UpdateExercised,
                   EarlyExercise
    <3>3. NextDividends => UNCHANGED host
      BY Zenon DEF NextDividends, Declare, ReadDeclaration, Distribute,
                   CloseRecord, MarkPaid
    <3>4. QED
      BY <3>1, <3>2, <3>3
  <2>2. CASE MCNext
    BY <2>1, <2>2 DEF MCNext
  <2>3. CASE UNCHANGED mcvars
    BY <2>3 DEF mcvars
  <2>4. QED
    BY <1>2, <2>2, <2>3
<1>3. QED
  BY <1>1, <1>2, PTL DEF MCSpec, InstrumentsSpec, GrantsSpec, DividendsSpec,
                         mcvars

(* The services hold records of their types, whichever of them run.        *)
THEOREM ServicesTypes == MCSpec => []TypeOK
<1>1. MCSpec => []InstrumentsTyped /\ []GrantsTyped /\ []DividendsTyped
  BY EachService, InstrumentsTypes, GrantsTypes, DividendsTypes, PTL
<1>2. MCSpec => []GrantsInv
  BY EachService, GrantsInvHolds, PTL
<1>3. InstrumentsTyped /\ GrantsInv /\ DividendsTyped => TypeOK
  BY DEF TypeOK, GrantsInv
<1>4. QED
  BY <1>1, <1>2, <1>3, PTL

-----------------------------------------------------------------------------

(* As long as the host leaves its entries alone the registry holds what    *)
(* was validated.                                                          *)
Validated ==
  \A k \in Keys : careful /\ registry[k] # "none" =>
    code[registry[k]] = checked[k] /\ checked[k] # "short"

RoutingInv ==
  /\ code \in [DOMAIN Entries -> Code]
  /\ registry \in [Keys -> {"none"} \cup DOMAIN Entries]
  /\ checked \in [Keys -> {"none"} \cup Code]
  /\ Validated
  /\ RoutingSound

LEMMA EntryKeys == \A e \in DOMAIN Entries : Entries[e] \in Keys
BY EntriesAssumption DEF Keys

(* Filling a form out and sending it leaves the registry alone.            *)
LEMMA SubmittingKeeps ==
  ASSUME RoutingInv, NEW form \in Form, NEW options \in Request,
         SubmitForm(form, options)
  PROVE  RoutingInv'
<1> DEFINE transport == Transport(form, options)
           env == MapEnv(options.env)
           key == <<transport, env>>
           control == Resolved(options, key)
           marked == transport = "fire" /\ options.env = "test"
           submitted == [result |-> "submitted", transport |-> transport,
                         year |-> form.year, legacy |-> options.legacy,
                         code |-> control, checked |-> checked[key],
                         marked |-> marked, client |-> options.client,
                         env |-> key[2], boxes |-> Carried(form, transport)]
<1>1. /\ UNCHANGED <<careful, code, registry, checked>>
      /\ sent' = IF options.client = "none" THEN [result |-> "no_transport"]
                 ELSE IF control = "unknown"
                 THEN [result |-> "not_registered"]
                 ELSE IF Refused(form, transport, control, marked,
                                 options.client)
                 THEN [result |-> "refused"] ELSE submitted
  BY Zenon DEF SubmitForm
<1>2. /\ code' \in [DOMAIN Entries -> Code]
      /\ registry' \in [Keys -> {"none"} \cup DOMAIN Entries]
      /\ checked' \in [Keys -> {"none"} \cup Code]
      /\ Validated'
  BY <1>1 DEF RoutingInv, Validated
<1>3. RoutingSound'
  <2> HIDE DEF submitted
  <2>1. SUFFICES ASSUME sent'.result = "submitted" PROVE RoutingSound'
    BY DEF RoutingSound
  <2>2. /\ sent' = submitted /\ control # "unknown"
        /\ ~Refused(form, transport, control, marked, options.client)
    BY <1>1, <2>1
  <2>3. /\ form.type \in {"DIV", "B"} /\ form.year \in {2023, 2024}
        /\ options.legacy \in BOOLEAN /\ options.named \in BOOLEAN
        /\ options.env \in {"unset", "test", "production"}
        /\ options.client \in {"none", "test", "production"}
    BY DEF Form, Request
  <2>4. /\ transport \in {"iris", "fire"}
        /\ transport = "iris" <=> form.year >= 2024 /\ ~options.legacy
    BY <2>3 DEF Transport
  <2>5. /\ env \in {"sandbox", "production"} /\ key \in Keys
        /\ options.env = "test" => env = "sandbox"
    BY <2>3, <2>4 DEF MapEnv, Keys
  <2>6. /\ options.named /\ registry[key] # "none"
        /\ control = code[registry[key]]
    <3>1. control # "empty"
      BY <2>2 DEF Refused
    <3>2. QED
      BY <2>2, <3>1 DEF Resolved
  <2>7. control \in Code
    BY <2>5, <2>6 DEF RoutingInv
  <2>8. careful => control = checked[key] /\ control # "short"
    BY <2>5, <2>6 DEF RoutingInv, Validated
  <2>9. transport = "fire" /\ options.client = "test" => marked
    BY <2>2 DEF Refused
  <2>10. "withheld" \in Carried(form, transport)
    BY <2>3, <2>4 DEF Carried, IrisDIV, IrisB, FireDIV, FireB
  <2>11. \A f \in {FireDIV, FireB} : \A box \in DOMAIN f.amounts :
           f.amounts[box] \in f.listed
    BY DEF FireDIV, FireB
  <2>12. /\ sent'.transport = transport /\ sent'.year = form.year
         /\ sent'.legacy = options.legacy /\ sent'.code = control
         /\ sent'.checked = checked[key] /\ sent'.marked = marked
         /\ sent'.client = options.client /\ sent'.env = env
         /\ sent'.boxes = Carried(form, transport)
    BY <2>2 DEF submitted
  <2> HIDE DEF transport, env, control
  <2>13. marked => env = "sandbox"
    BY <2>5
  <2>14. careful' = careful
    BY <1>1
  <2> HIDE DEF marked
  <2>15. QED
    BY <2>4, <2>7, <2>8, <2>9, <2>10, <2>11, <2>12, <2>13, <2>14
       DEF RoutingSound
<1>4. QED
  BY <1>2, <1>3 DEF RoutingInv

(* Every step keeps the invariant.                                         *)
LEMMA RoutingStep == RoutingInv /\ [NextRouting]_routing => RoutingInv'
<1> SUFFICES ASSUME RoutingInv, [NextRouting]_routing
             PROVE  RoutingInv'
  OBVIOUS
<1>1. ASSUME sent' = sent, careful' = careful,
             code' \in [DOMAIN Entries -> Code],
             registry' \in [Keys -> {"none"} \cup DOMAIN Entries],
             checked' \in [Keys -> {"none"} \cup Code],
             Validated'
      PROVE  RoutingInv'
  BY <1>1 DEF RoutingInv, RoutingSound
<1>2. ASSUME NEW e \in DOMAIN Entries, Register(e) PROVE RoutingInv'
  <2>1. /\ code[e] # "short"
        /\ registry' = [registry EXCEPT ![Entries[e]] = e]
        /\ checked' = [checked EXCEPT ![Entries[e]] = code[e]]
        /\ UNCHANGED <<careful, code, sent>>
    BY <1>2, Zenon DEF Register
  <2>2. Validated'
    BY <2>1, EntryKeys DEF RoutingInv, Validated
  <2>3. /\ registry' \in [Keys -> {"none"} \cup DOMAIN Entries]
        /\ checked' \in [Keys -> {"none"} \cup Code]
    BY <2>1, EntryKeys DEF RoutingInv
  <2>4. QED
    BY <1>1, <2>1, <2>2, <2>3 DEF RoutingInv
<1>3. ASSUME NEW k \in Keys, Unregister(k) PROVE RoutingInv'
  <2>1. /\ registry' = [registry EXCEPT ![k] = "none"]
        /\ checked' = [checked EXCEPT ![k] = "none"]
        /\ UNCHANGED <<careful, code, sent>>
    BY <1>3, Zenon DEF Unregister
  <2>2. Validated'
    BY <2>1 DEF RoutingInv, Validated
  <2>3. /\ registry' \in [Keys -> {"none"} \cup DOMAIN Entries]
        /\ checked' \in [Keys -> {"none"} \cup Code]
    BY <2>1 DEF RoutingInv
  <2>4. QED
    BY <1>1, <2>1, <2>2, <2>3 DEF RoutingInv
<1>4. ASSUME NEW e \in DOMAIN Entries, EditEntry(e) PROVE RoutingInv'
  <2>1. PICK c \in Code : code' = [code EXCEPT ![e] = c]
    BY <1>4, Zenon DEF EditEntry
  <2>2. /\ careful => \A k \in Keys : registry[k] # e
        /\ UNCHANGED <<careful, registry, checked, sent>>
    BY <1>4, Zenon DEF EditEntry
  <2>3. Validated'
    BY <2>1, <2>2 DEF RoutingInv, Validated
  <2>4. code' \in [DOMAIN Entries -> Code]
    BY <2>1 DEF RoutingInv
  <2>5. QED
    BY <1>1, <2>2, <2>3, <2>4 DEF RoutingInv
<1>5. CASE UNCHANGED routing
  BY <1>1, <1>5 DEF routing, RoutingInv, Validated
<1>6. QED
  BY <1>2, <1>3, <1>4, <1>5, SubmittingKeeps DEF NextRouting

(* Whatever the host registers, changes and removes in between, a form     *)
(* goes out by the transport of its year and under a code that fits.       *)
LEMMA RoutingHolds == InitRouting /\ [][NextRouting]_routing => []RoutingSound
<1>1. InitRouting => RoutingInv
  BY DEF InitRouting, RoutingInv, Validated, RoutingSound, Code
<1>2. RoutingInv => RoutingSound
  BY DEF RoutingInv
<1>3. QED
  BY <1>1, <1>2, RoutingStep, PTL

-----------------------------------------------------------------------------

(* What a file of 1099 records is, before it is marshalled and after.      *)
Payee == [seq : Nat, amounts : [Codes -> Int]]

PayeeGroup ==
  [payer : Nat, payees : Seq(Payee), closing : Nat, count : Nat,
   totals : {Unfilled} \cup [Codes -> Int]]

FileTyped ==
  file \in [transmitter : Nat, total : Nat, group : [Groups -> PayeeGroup],
            end : Nat, payers : Nat, payees : Nat]

Fresh ==
  /\ file.transmitter = 0 /\ file.total = 0 /\ file.end = 0
  /\ file.payers = 0 /\ file.payees = 0
  /\ \A g \in Groups :
       /\ file.group[g].payer = 0 /\ file.group[g].closing = 0
       /\ file.group[g].count = 0 /\ file.group[g].totals = Unfilled
       /\ \A j \in 1 .. Payees(g) : file.group[g].payees[j].seq = 0

Stamped ==
  /\ file.transmitter = 1 /\ file.total = AllPayees
  /\ file.end = AllPayees + 6 /\ file.payers = 2 /\ file.payees = AllPayees
  /\ \A g \in Groups :
       /\ file.group[g].payer = PayerNumber(g)
       /\ file.group[g].closing = PayerNumber(g) + Payees(g) + 1
       /\ file.group[g].count = Payees(g)
       /\ file.group[g].totals = Totals(g)
       /\ \A j \in 1 .. Payees(g) :
            file.group[g].payees[j].seq = PayerNumber(g) + j

FileInv ==
  /\ FileTyped
  /\ edited => wire # <<>>
  /\ wire = <<>> => Fresh
  /\ wire # <<>> /\ ~edited => Stamped /\ wire = Records(file)

(* The fields of a group, and the numbers its records get.                 *)
LEMMA GroupFields ==
  ASSUME FileTyped, NEW g \in Groups
  PROVE  /\ file.group[g] \in PayeeGroup
         /\ file.group[g].payees \in Seq(Payee)
         /\ Payees(g) \in Nat /\ AllPayees \in Nat /\ PayerNumber(g) \in Nat
         /\ DOMAIN file.group[g].payees = 1 .. Payees(g)
         /\ \A j \in 1 .. Payees(g) : file.group[g].payees[j] \in Payee
<1>1. \A h \in Groups : file.group[h] \in PayeeGroup
  BY DEF FileTyped
<1>2. \A h \in Groups : /\ file.group[h].payees \in Seq(Payee)
                        /\ Payees(h) \in Nat
  BY <1>1 DEF PayeeGroup, Payees
<1>3. 1 \in Groups /\ 2 \in Groups
  BY DEF Groups
<1>4. AllPayees \in Nat /\ PayerNumber(g) \in Nat
  BY <1>2, <1>3 DEF AllPayees, PayerNumber
<1>5. QED
  BY <1>1, <1>2, <1>4 DEF Payees

(* What a group holds under a code is a number.                            *)
LEMMA GroupTotalIs ==
  ASSUME FileTyped, NEW g \in Groups, NEW c \in Codes
  PROVE  /\ GroupTotal(g, c) =
              SumFunctionOnSet([j \in 1 .. Payees(g) |->
                                  file.group[g].payees[j].amounts[c]],
                               1 .. Payees(g))
         /\ GroupTotal(g, c) \in Int
<1> DEFINE f == [j \in 1 .. Payees(g) |-> file.group[g].payees[j].amounts[c]]
<1>1. GroupTotal(g, c) = SumFunctionOnSet(f, 1 .. Payees(g))
  <2>1. DOMAIN file.group[g].payees = 1 .. Payees(g) /\ DOMAIN f = 1 .. Payees(g)
    BY GroupFields
  <2>2. GroupTotal(g, c) = SumFunctionOnSet(f, DOMAIN f)
    BY <2>1 DEF GroupTotal, SumFunction, SumFunctionOnSet, FoldFunction
  <2>3. QED
    BY <2>1, <2>2
<1>2. IsFiniteSet(1 .. Payees(g))
  BY GroupFields, FS_Interval
<1>3. \A j \in 1 .. Payees(g) : f[j] \in Int
  <2>1. ASSUME NEW j \in 1 .. Payees(g)
        PROVE  file.group[g].payees[j] \in Payee
    BY <2>1, GroupFields
  <2>2. ASSUME NEW x \in Payee
        PROVE  x.amounts[c] \in Int
    BY <2>2 DEF Payee
  <2>3. QED
    BY <2>1, <2>2
<1>4. SumFunctionOnSet(f, 1 .. Payees(g)) \in Int
  <2> HIDE DEF f
  <2>1. QED
    BY <1>2, <1>3, SumType
<1>5. QED
  BY <1>1, <1>4

LEMMA TwoGroups == Cardinality(Groups) = 2
<1>1. Groups = {1} \cup {2}
  BY DEF Groups
<1>2. IsFiniteSet({1}) /\ Cardinality({1}) = 1 /\ 2 \notin {1}
  BY FS_Singleton
<1>3. Cardinality({1} \cup {2}) = Cardinality({1}) + 1
  BY <1>2, FS_AddElement
<1>4. QED
  BY <1>1, <1>2, <1>3

(* Marshal leaves the payees and their amounts as they are, and fills in   *)
(* what is not filled.                                                     *)
LEMMA Marshalled ==
  ASSUME FileTyped, file' = FilledFile
  PROVE  /\ FileTyped'
         /\ \A g \in Groups :
              /\ Payees(g)' = Payees(g) /\ Totals(g)' = Totals(g)
              /\ PayerNumber(g)' = PayerNumber(g)
              /\ \A j \in 1 .. Payees(g) :
                   file'.group[g].payees[j].seq =
                     Filled(file.group[g].payees[j].seq, PayerNumber(g) + j)
         /\ AllPayees' = AllPayees
<1>1. ASSUME NEW g \in Groups
      PROVE  /\ FilledGroup(g) \in PayeeGroup
             /\ Len(FilledGroup(g).payees) = Payees(g)
             /\ DOMAIN FilledGroup(g).payees = 1 .. Payees(g)
             /\ \A j \in 1 .. Payees(g) :
                  /\ FilledGroup(g).payees[j].amounts =
                       file.group[g].payees[j].amounts
                  /\ FilledGroup(g).payees[j].seq =
                       Filled(file.group[g].payees[j].seq, PayerNumber(g) + j)
  <2> DEFINE n == Payees(g)
             number == PayerNumber(g)
             p == [j \in 1 .. n |->
                     [file.group[g].payees[j]
                        EXCEPT !.seq = Filled(@, number + j)]]
  <2>1. /\ n \in Nat /\ number \in Nat /\ file.group[g] \in PayeeGroup
        /\ DOMAIN file.group[g].payees = 1 .. n
        /\ \A j \in 1 .. n : file.group[g].payees[j] \in Payee
    BY GroupFields
  <2>2. \A j \in 1 .. n : /\ p[j] \in Payee
                          /\ p[j].amounts = file.group[g].payees[j].amounts
                          /\ p[j].seq = Filled(file.group[g].payees[j].seq,
                                               number + j)
    BY <2>1 DEF Payee, Filled
  <2>3. p \in Seq(Payee) /\ Len(p) = n
    <3> HIDE DEF n, number
    <3>1. \A j \in 1 .. n : p[j] \in Payee
      BY <2>2
    <3>2. p = [j \in 1 .. n |-> p[j]]
      OBVIOUS
    <3> HIDE DEF p
    <3>3. QED
      BY <2>1, <3>1, <3>2
  <2>4. Totals(g) \in [Codes -> Int]
    BY GroupTotalIs DEF Totals
  <2>5. FilledGroup(g) =
          [payer |-> Filled(file.group[g].payer, number), payees |-> p,
           closing |-> Filled(file.group[g].closing, number + n + 1),
           count |-> Filled(file.group[g].count, n),
           totals |-> IF file.group[g].totals = Unfilled THEN Totals(g)
                      ELSE file.group[g].totals]
    BY <2>1 DEF FilledGroup
  <2> HIDE DEF p, n, number
  <2>6. FilledGroup(g) \in PayeeGroup
    BY <2>1, <2>3, <2>4, <2>5 DEF PayeeGroup, Filled
  <2>7. FilledGroup(g).payees = p
    BY <2>5
  <2>8. QED
    BY <2>2, <2>3, <2>6, <2>7 DEF n, number
<1>2. \A g \in Groups : file'.group[g] = FilledGroup(g)
  BY DEF FilledFile
<1>3. \A g \in Groups : Payees(g)' = Payees(g)
  BY <1>1, <1>2 DEF Payees
<1>4. 1 \in Groups /\ 2 \in Groups
  BY DEF Groups
<1>5. AllPayees' = AllPayees /\ \A g \in Groups : PayerNumber(g)' = PayerNumber(g)
  BY <1>3, <1>4 DEF AllPayees, PayerNumber
<1>6. FileTyped'
  <2>1. AllPayees \in Nat
    BY <1>4, GroupFields
  <2>2. Cardinality(Groups) = 2
    BY TwoGroups
  <2>3. [g \in Groups |-> FilledGroup(g)] \in [Groups -> PayeeGroup]
    BY <1>1
  <2>4. QED
    BY <2>1, <2>2, <2>3 DEF FileTyped, FilledFile, Filled
<1>7. ASSUME NEW g \in Groups PROVE Totals(g)' = Totals(g)
  <2>1. ASSUME NEW c \in Codes PROVE GroupTotal(g, c)' = GroupTotal(g, c)
    <3>1. /\ DOMAIN file.group[g].payees = 1 .. Payees(g)
          /\ DOMAIN file'.group[g].payees = 1 .. Payees(g)
      BY <1>1, <1>2, GroupFields
    <3>2. \A j \in 1 .. Payees(g) : file'.group[g].payees[j].amounts[c]
                                      = file.group[g].payees[j].amounts[c]
      BY <1>1, <1>2
    <3>3. QED
      BY <1>3, <3>1, <3>2 DEF GroupTotal
  <2>2. QED
    BY <2>1 DEF Totals
<1>8. QED
  BY <1>1, <1>2, <1>3, <1>5, <1>6, <1>7

-----------------------------------------------------------------------------

(* A complete file marshals to itself.                                     *)
LEMMA StampedStays ==
  ASSUME FileTyped, Stamped
  PROVE  FilledFile = file
<1>1. ASSUME NEW g \in Groups PROVE FilledGroup(g) = file.group[g]
  <2>1. /\ file.group[g] \in PayeeGroup /\ Payees(g) \in Nat
        /\ PayerNumber(g) \in Nat
        /\ file.group[g].payees \in Seq(Payee)
        /\ DOMAIN file.group[g].payees = 1 .. Payees(g)
        /\ \A j \in 1 .. Payees(g) : file.group[g].payees[j] \in Payee
    BY GroupFields
  <2>2. /\ file.group[g].payer = PayerNumber(g)
        /\ file.group[g].closing = PayerNumber(g) + Payees(g) + 1
        /\ file.group[g].count = Payees(g)
        /\ file.group[g].totals = Totals(g)
        /\ \A j \in 1 .. Payees(g) :
             file.group[g].payees[j].seq = PayerNumber(g) + j
    BY DEF Stamped
  <2>3. [j \in DOMAIN file.group[g].payees |->
           [file.group[g].payees[j] EXCEPT
              !.seq = Filled(@, PayerNumber(g) + j)]]
          = file.group[g].payees
    <3>1. \A j \in 1 .. Payees(g) :
            [file.group[g].payees[j] EXCEPT
               !.seq = Filled(@, PayerNumber(g) + j)]
              = file.group[g].payees[j]
      BY <2>1, <2>2 DEF Payee, Filled
    <3>2. file.group[g].payees = [j \in DOMAIN file.group[g].payees |->
                                    file.group[g].payees[j]]
      BY <2>1
    <3>3. QED
      BY <2>1, <3>1, <3>2
  <2>4. FilledGroup(g) =
          [payer |-> PayerNumber(g), payees |-> file.group[g].payees,
           closing |-> PayerNumber(g) + Payees(g) + 1, count |-> Payees(g),
           totals |-> Totals(g)]
    BY <2>2, <2>3 DEF FilledGroup, Filled
  <2>5. QED
    BY <2>1, <2>2, <2>4 DEF PayeeGroup
<1>2. 1 \in Groups /\ 2 \in Groups
  BY DEF Groups
<1>3. Cardinality(Groups) = 2 /\ AllPayees \in Nat
  BY <1>2, GroupFields, TwoGroups
<1>4. [g \in Groups |-> FilledGroup(g)] = file.group
  BY <1>1 DEF FileTyped
<1>5. FilledFile = [transmitter |-> 1, total |-> AllPayees,
                    group |-> file.group, end |-> AllPayees + 6,
                    payers |-> 2, payees |-> AllPayees]
  BY <1>3, <1>4 DEF FilledFile, Filled, Stamped
<1>6. QED
  BY <1>5 DEF FileTyped, Stamped

(* A fresh file marshals to a complete one.                                *)
LEMMA FreshIsStamped ==
  ASSUME FileTyped, Fresh, file' = FilledFile
  PROVE  Stamped'
<1>1. ASSUME NEW g \in Groups
      PROVE  /\ file'.group[g].payer = PayerNumber(g)
             /\ file'.group[g].closing = PayerNumber(g) + Payees(g) + 1
             /\ file'.group[g].count = Payees(g)
             /\ file'.group[g].totals = Totals(g)
             /\ \A j \in 1 .. Payees(g) :
                  file'.group[g].payees[j].seq = PayerNumber(g) + j
  <2>1. file'.group[g] = FilledGroup(g)
    BY DEF FilledFile
  <2>2. /\ file.group[g].payer = 0 /\ file.group[g].closing = 0
        /\ file.group[g].count = 0 /\ file.group[g].totals = Unfilled
        /\ \A j \in 1 .. Payees(g) : file.group[g].payees[j].seq = 0
    BY DEF Fresh
  <2>3. \A j \in 1 .. Payees(g) :
          file'.group[g].payees[j].seq = PayerNumber(g) + j
    BY <2>2, Marshalled DEF Filled
  <2>4. QED
    BY <2>1, <2>2, <2>3 DEF FilledGroup, Filled
<1>2. Cardinality(Groups) = 2
  BY TwoGroups
<1>3. /\ file'.transmitter = 1 /\ file'.total = AllPayees
      /\ file'.end = AllPayees + 6 /\ file'.payers = 2
      /\ file'.payees = AllPayees
  BY <1>2 DEF Fresh, FilledFile, Filled
<1>4. QED
  BY <1>1, <1>3, Marshalled DEF Stamped

-----------------------------------------------------------------------------

RecordB(g, j) ==
  [type |-> "B", seq |-> file.group[g].payees[j].seq,
   amounts |-> Columns(file.group[g].payees[j].amounts)]

RecordC(g) ==
  [type |-> "C", seq |-> file.group[g].closing, count |-> file.group[g].count,
   totals |-> [c \in Codes |-> Shown(file.group[g].totals[c], TotalLimit)]]

(* The records of a group stand in a row: payer, payees, closing.          *)
LEMMA GroupRecordsAre ==
  ASSUME FileTyped, NEW g \in Groups
  PROVE  LET r == GroupRecords(file.group[g])
             n == Payees(g) IN
         /\ (\E S : r \in Seq(S)) /\ Len(r) = n + 2
         /\ r[1] = [type |-> "A", seq |-> file.group[g].payer]
         /\ \A j \in 1 .. n : r[j + 1] = RecordB(g, j)
         /\ r[n + 2] = RecordC(g)
<1> DEFINE n == Payees(g)
           bs == [j \in 1 .. n |-> RecordB(g, j)]
           A == [type |-> "A", seq |-> file.group[g].payer]
           r == GroupRecords(file.group[g])
           S == {A, RecordC(g)} \cup {RecordB(g, j) : j \in 1 .. n}
<1>1. n \in Nat /\ DOMAIN file.group[g].payees = 1 .. n
  BY GroupFields
<1>2. r = <<A>> \o bs \o <<RecordC(g)>>
  BY <1>1 DEF GroupRecords, RecordB, RecordC
<1>3. bs \in Seq(S) /\ Len(bs) = n /\ \A j \in 1 .. n : bs[j] = RecordB(g, j)
  <2> HIDE DEF n
  <2>1. \A j \in 1 .. n : bs[j] \in S /\ bs[j] = RecordB(g, j)
    OBVIOUS
  <2>2. bs = [j \in 1 .. n |-> bs[j]]
    OBVIOUS
  <2> HIDE DEF bs, S
  <2>3. QED
    BY <1>1, <2>1, <2>2
<1>4. A \in S /\ RecordC(g) \in S
  OBVIOUS
<1> HIDE DEF n, bs, A, r, S
<1>5. r \in Seq(S) /\ Len(r) = n + 2
  BY <1>1, <1>2, <1>3, <1>4
<1>6. r[1] = A
  BY <1>1, <1>2, <1>3, <1>4
<1>7. r[n + 2] = RecordC(g)
  BY <1>1, <1>2, <1>3, <1>4
<1>8. \A j \in 1 .. n : r[j + 1] = RecordB(g, j)
  BY <1>1, <1>2, <1>3, <1>4
<1>9. QED
  BY <1>5, <1>6, <1>7, <1>8 DEF n, r, A

(* The records of a file: transmitter, the two groups, end.                *)
LEMMA RecordsAre ==
  ASSUME FileTyped
  PROVE  LET w == Records(file)
             n == Payees(1)
             m == Payees(2) IN
         /\ (\E S : w \in Seq(S)) /\ Len(w) = n + m + 6
         /\ w[1] = [type |-> "T", seq |-> file.transmitter,
                    count |-> file.total]
         /\ w[2] = [type |-> "A", seq |-> file.group[1].payer]
         /\ \A j \in 1 .. n : w[j + 2] = RecordB(1, j)
         /\ w[n + 3] = RecordC(1)
         /\ w[n + 4] = [type |-> "A", seq |-> file.group[2].payer]
         /\ \A j \in 1 .. m : w[j + (n + 4)] = RecordB(2, j)
         /\ w[n + m + 5] = RecordC(2)
         /\ w[n + m + 6] = [type |-> "F", seq |-> file.end,
                            payers |-> file.payers, count |-> file.payees]
<1> DEFINE w == Records(file)
           n == Payees(1)
           m == Payees(2)
           r == GroupRecords(file.group[1])
           q == GroupRecords(file.group[2])
           T == [type |-> "T", seq |-> file.transmitter, count |-> file.total]
           F == [type |-> "F", seq |-> file.end, payers |-> file.payers,
                 count |-> file.payees]
<1>1. 1 \in Groups /\ 2 \in Groups
  BY DEF Groups
<1>2. n \in Nat /\ m \in Nat
  BY <1>1, GroupFields
<1>3. PICK S1 : r \in Seq(S1)
  BY <1>1, GroupRecordsAre
<1>4. PICK S2 : q \in Seq(S2)
  BY <1>1, GroupRecordsAre
<1>5. /\ Len(r) = n + 2 /\ Len(q) = m + 2
      /\ r[1] = [type |-> "A", seq |-> file.group[1].payer]
      /\ q[1] = [type |-> "A", seq |-> file.group[2].payer]
      /\ \A j \in 1 .. n : r[j + 1] = RecordB(1, j)
      /\ \A j \in 1 .. m : q[j + 1] = RecordB(2, j)
      /\ r[n + 2] = RecordC(1) /\ q[m + 2] = RecordC(2)
  BY <1>1, GroupRecordsAre
<1>6. w = <<T>> \o r \o q \o <<F>>
  BY DEF Records
<1> HIDE DEF w, n, m, r, q, T, F
<1>7. PICK S : r \in Seq(S) /\ q \in Seq(S) /\ T \in S /\ F \in S
  <2>1. r \in Seq(S1 \cup S2 \cup {T, F}) /\ q \in Seq(S1 \cup S2 \cup {T, F})
    BY <1>3, <1>4
  <2>2. QED
    BY <2>1
<1>8. w \in Seq(S) /\ Len(w) = n + m + 6
  BY <1>2, <1>5, <1>6, <1>7
<1>9. \A i \in 1 .. n + 2 : w[i + 1] = r[i]
  BY <1>2, <1>5, <1>6, <1>7
<1>10. \A i \in 1 .. m + 2 : w[i + (n + 3)] = q[i]
  BY <1>2, <1>5, <1>6, <1>7
<1>11. w[1] = T /\ w[n + m + 6] = F
  BY <1>2, <1>5, <1>6, <1>7
<1>12. w[2] = r[1] /\ w[n + 3] = r[n + 2] /\ w[n + 4] = q[1]
       /\ w[n + m + 5] = q[m + 2]
  <2>1. w[1 + 1] = r[1] /\ w[(n + 2) + 1] = r[n + 2]
        /\ w[1 + (n + 3)] = q[1] /\ w[(m + 2) + (n + 3)] = q[m + 2]
    BY <1>2, <1>9, <1>10
  <2>2. 1 + 1 = 2 /\ (n + 2) + 1 = n + 3 /\ 1 + (n + 3) = n + 4
        /\ (m + 2) + (n + 3) = n + m + 5
    BY <1>2
  <2>3. QED
    BY <2>1, <2>2
<1>13. ASSUME NEW j \in 1 .. n PROVE w[j + 2] = RecordB(1, j)
  <2>1. j + 1 \in 1 .. n + 2 /\ (j + 1) + 1 = j + 2
    BY <1>2
  <2>2. QED
    BY <1>5, <1>9, <2>1
<1>14. ASSUME NEW j \in 1 .. m PROVE w[j + (n + 4)] = RecordB(2, j)
  <2>1. j + 1 \in 1 .. m + 2 /\ (j + 1) + (n + 3) = j + (n + 4)
    BY <1>2
  <2>2. QED
    BY <1>5, <1>10, <2>1
<1>15. QED
  BY <1>5, <1>8, <1>11, <1>12, <1>13, <1>14 DEF w, n, m, T, F

(* What fits its columns is written whole.                                 *)
LEMMA ShownWhole ==
  ASSUME NEW cents \in Nat, NEW limit \in Nat, cents < limit
  PROVE  Shown(cents, limit) = cents
<1>1. ~(cents < 0)
  OBVIOUS
<1>2. QED
  BY <1>1, Zenon DEF Shown

(* The amounts written for a group add up to the total written for it.     *)
LEMMA GroupAddsUp ==
  ASSUME FileTyped, Fits, NEW g \in Groups, NEW c \in Listed,
         file.group[g].totals = Totals(g), NEW k \in Nat,
         \A j \in 1 .. Payees(g) : wire[j + k] = RecordB(g, j)
  PROVE  SumFunction([j \in k + 1 .. k + Payees(g) |-> wire[j].amounts[c]])
           = RecordC(g).totals[c]
<1> DEFINE n == Payees(g)
           B == k + 1 .. k + n
           f == [j \in 1 .. n |-> file.group[g].payees[j].amounts[c]]
           h == [j \in 1 .. n |-> j + k]
           w == [j \in B |-> wire[j].amounts[c]]
<1>1. /\ n \in Nat /\ c \in Codes
      /\ DOMAIN file.group[g].payees = 1 .. n
      /\ \A j \in 1 .. n : file.group[g].payees[j] \in Payee
  BY GroupFields, FireAssumption
<1>2. ASSUME NEW j \in 1 .. n
      PROVE  /\ f[j] \in Nat /\ f[j] < AmountLimit
             /\ f[j] = file.group[g].payees[j].amounts[c]
  <2>1. file.group[g].payees[j].amounts \in [Codes -> Int]
    BY <1>1 DEF Payee
  <2>2. file.group[g].payees[j].amounts[c] \in 0 .. AmountLimit - 1
    BY <1>1 DEF Fits
  <2>3. QED
    BY <1>1, <2>1, <2>2, FireAssumption
<1>3. ASSUME NEW j \in 1 .. n
      PROVE  h[j] = j + k /\ j + k \in B /\ w[h[j]] = f[j]
  <2>1. h[j] = j + k /\ j + k \in B
    BY <1>1
  <2>2. w[j + k] = RecordB(g, j).amounts[c]
    BY <2>1
  <2>3. RecordB(g, j).amounts[c] = Shown(f[j], AmountLimit)
    BY DEF RecordB, Columns
  <2>4. Shown(f[j], AmountLimit) = f[j]
    BY <1>2, ShownWhole, FireAssumption
  <2>5. QED
    BY <2>1, <2>2, <2>3, <2>4
<1>4. \A x, y \in 1 .. n : h[x] = h[y] => x = y
  BY <1>1
<1>5. \A y \in B : \E x \in 1 .. n : y = h[x]
  <2>1. \A y \in B : y - k \in 1 .. n /\ y = h[y - k]
    BY <1>1
  <2> HIDE DEF h, B
  <2>2. QED
    BY <2>1
<1>6. IsFiniteSet(1 .. n)
  BY <1>1, FS_Interval
<1>7. SumFunction(w) = SumFunctionOnSet(w, B)
  <2>1. DOMAIN w = B
    OBVIOUS
  <2>2. SumFunction(w) = SumFunctionOnSet(w, DOMAIN w)
    BY DEF SumFunction, SumFunctionOnSet, FoldFunction
  <2>3. QED
    BY <2>1, <2>2
<1>8. GroupTotal(g, c) = SumFunctionOnSet(f, 1 .. n)
  BY <1>1, GroupTotalIs
<1>9. RecordC(g).totals[c] = Shown(GroupTotal(g, c), TotalLimit)
  BY <1>1 DEF RecordC, Totals
<1>10. GroupTotal(g, c) < TotalLimit
  BY <1>1 DEF Fits
<1> HIDE DEF n, B, f, h, w
<1>11. SumFunctionOnSet(w, B) = SumFunctionOnSet(f, 1 .. n)
  <2>1. \A x \in 1 .. n : h[x] \in B /\ f[x] \in Int /\ w[h[x]] = f[x]
    BY <1>2, <1>3
  <2>2. Renames(h, 1 .. n, B, f, w)
    BY <1>4, <1>5, <2>1 DEF Renames
  <2>3. QED
    BY <1>6, <2>2, SumRenamed
<1>12. SumFunctionOnSet(f, 1 .. n) \in Nat
  <2>1. \A j \in 1 .. n : f[j] \in Nat
    BY <1>2
  <2>2. QED
    BY <1>6, <2>1, SumType
<1>13. QED
  <2>1. RecordC(g).totals[c] = GroupTotal(g, c)
    BY <1>8, <1>9, <1>10, <1>12, ShownWhole, FireAssumption
  <2>2. QED
    BY <1>7, <1>8, <1>11, <2>1 DEF w, B, n

(* Where the records of a complete file lie.                               *)
LEMMA Layout ==
  ASSUME FileTyped, wire = Records(file)
  PROVE  LET n == Payees(1)
             m == Payees(2) IN
         /\ DOMAIN wire = 1 .. n + m + 6
         /\ Of("T") = {1} /\ Of("F") = {n + m + 6}
         /\ Of("B") = (3 .. n + 2) \cup (n + 5 .. n + m + 4)
         /\ Of("C") = {n + 3, n + m + 5}
         /\ Block(n + 3) = 3 .. n + 2
         /\ Block(n + m + 5) = n + 5 .. n + m + 4
<1> DEFINE n == Payees(1)
           m == Payees(2)
<1>1. n \in Nat /\ m \in Nat
  BY GroupFields DEF Groups
<1>2. DOMAIN wire = 1 .. n + m + 6
  <2>1. PICK S : wire \in Seq(S)
    BY RecordsAre
  <2>2. Len(wire) = n + m + 6
    BY RecordsAre
  <2>3. QED
    BY <2>1, <2>2
<1>3. /\ wire[1].type = "T" /\ wire[2].type = "A"
      /\ wire[n + 3].type = "C" /\ wire[n + 4].type = "A"
      /\ wire[n + m + 5].type = "C" /\ wire[n + m + 6].type = "F"
  BY RecordsAre DEF RecordC
<1>4. ASSUME NEW i \in 3 .. n + 2 PROVE wire[i].type = "B"
  <2>1. i - 2 \in 1 .. n /\ (i - 2) + 2 = i
    BY <1>1
  <2>2. wire[(i - 2) + 2] = RecordB(1, i - 2)
    BY <2>1, RecordsAre
  <2>3. QED
    BY <2>1, <2>2 DEF RecordB
<1>5. ASSUME NEW i \in n + 5 .. n + m + 4 PROVE wire[i].type = "B"
  <2>1. i - (n + 4) \in 1 .. m /\ (i - (n + 4)) + (n + 4) = i
    BY <1>1
  <2>2. wire[(i - (n + 4)) + (n + 4)] = RecordB(2, i - (n + 4))
    BY <2>1, RecordsAre
  <2>3. QED
    BY <2>1, <2>2 DEF RecordB
<1> HIDE DEF n, m
<1>6. \A i \in 1 .. n + m + 6 :
        \/ i \in {1, 2, n + 3, n + 4, n + m + 5, n + m + 6}
        \/ i \in 3 .. n + 2 \/ i \in n + 5 .. n + m + 4
  BY <1>1
<1>7. /\ {1, 2, n + 3, n + 4, n + m + 5, n + m + 6} \subseteq 1 .. n + m + 6
      /\ 3 .. n + 2 \subseteq 1 .. n + m + 6
      /\ n + 5 .. n + m + 4 \subseteq 1 .. n + m + 6
  BY <1>1
<1>8. Of("T") = {1} /\ Of("F") = {n + m + 6}
  BY <1>2, <1>3, <1>4, <1>5, <1>6, <1>7, Zenon DEF Of
<1>9. Of("C") = {n + 3, n + m + 5}
  BY <1>2, <1>3, <1>4, <1>5, <1>6, <1>7 DEF Of
<1>10. Of("B") = (3 .. n + 2) \cup (n + 5 .. n + m + 4)
  BY <1>2, <1>3, <1>4, <1>5, <1>6, <1>7 DEF Of
<1>11. Block(n + 3) = 3 .. n + 2
  <2>1. \A j \in 3 .. n + 2 :
          j < n + 3 /\ \A k \in {n + 3, n + m + 5} : k < n + 3 => k < j
    BY <1>1
  <2>2. \A j \in n + 5 .. n + m + 4 : ~(j < n + 3)
    BY <1>1
  <2>3. QED
    BY <1>9, <1>10, <2>1, <2>2, Zenon DEF Block
<1>12. Block(n + m + 5) = n + 5 .. n + m + 4
  <2>1. \A j \in n + 5 .. n + m + 4 :
          /\ j < n + m + 5
          /\ \A k \in {n + 3, n + m + 5} : k < n + m + 5 => k < j
    BY <1>1
  <2>2. \A j \in 3 .. n + 2 : n + 3 < n + m + 5 /\ ~(n + 3 < j)
    BY <1>1
  <2>3. QED
    BY <1>9, <1>10, <2>1, <2>2 DEF Block
<1>13. QED
  BY <1>2, <1>8, <1>9, <1>10, <1>11, <1>12 DEF n, m

(* A complete file says what it holds.                                     *)
LEMMA StampedAddsUp ==
  ASSUME FileTyped, Stamped, wire = Records(file)
  PROVE  FileAddsUp
<1> DEFINE n == Payees(1)
           m == Payees(2)
<1>1. n \in Nat /\ m \in Nat /\ 1 \in Groups /\ 2 \in Groups
  BY GroupFields DEF Groups
<1>2. /\ AllPayees = n + m /\ PayerNumber(1) = 2 /\ PayerNumber(2) = n + 4
  BY DEF AllPayees, PayerNumber
<1>3. /\ file.transmitter = 1 /\ file.total = n + m /\ file.end = n + m + 6
      /\ file.payees = n + m
      /\ file.group[1].payer = 2 /\ file.group[2].payer = n + 4
      /\ file.group[1].closing = n + 3 /\ file.group[2].closing = n + m + 5
      /\ file.group[1].count = n /\ file.group[2].count = m
      /\ file.group[1].totals = Totals(1) /\ file.group[2].totals = Totals(2)
  BY <1>1, <1>2 DEF Stamped
<1>4. /\ \A j \in 1 .. n : file.group[1].payees[j].seq = j + 2
      /\ \A j \in 1 .. m : file.group[2].payees[j].seq = j + (n + 4)
  <2>1. /\ \A j \in 1 .. n : file.group[1].payees[j].seq = 2 + j
        /\ \A j \in 1 .. m : file.group[2].payees[j].seq = (n + 4) + j
    BY <1>1, <1>2 DEF Stamped
  <2>2. /\ \A j \in 1 .. n : 2 + j = j + 2
        /\ \A j \in 1 .. m : (n + 4) + j = j + (n + 4)
    BY <1>1
  <2>3. QED
    BY <2>1, <2>2
<1>5. /\ wire[1] = [type |-> "T", seq |-> file.transmitter,
                    count |-> file.total]
      /\ wire[2] = [type |-> "A", seq |-> file.group[1].payer]
      /\ \A j \in 1 .. n : wire[j + 2] = RecordB(1, j)
      /\ wire[n + 3] = RecordC(1)
      /\ wire[n + 4] = [type |-> "A", seq |-> file.group[2].payer]
      /\ \A j \in 1 .. m : wire[j + (n + 4)] = RecordB(2, j)
      /\ wire[n + m + 5] = RecordC(2)
      /\ wire[n + m + 6] = [type |-> "F", seq |-> file.end,
                            payers |-> file.payers, count |-> file.payees]
  BY RecordsAre
<1>6. /\ DOMAIN wire = 1 .. n + m + 6
      /\ Of("T") = {1} /\ Of("F") = {n + m + 6}
      /\ Of("B") = (3 .. n + 2) \cup (n + 5 .. n + m + 4)
      /\ Of("C") = {n + 3, n + m + 5}
      /\ Block(n + 3) = 3 .. n + 2
      /\ Block(n + m + 5) = n + 5 .. n + m + 4
  BY Layout
<1> HIDE DEF n, m
<1>7. ASSUME NEW i \in DOMAIN wire PROVE wire[i].seq = i
  <2>1. CASE i \in {1, 2, n + 3, n + 4, n + m + 5, n + m + 6}
    BY <1>3, <1>5, <2>1 DEF RecordC
  <2>2. CASE i \in 3 .. n + 2
    <3>1. i - 2 \in 1 .. n /\ (i - 2) + 2 = i
      BY <1>1, <2>2
    <3>2. wire[(i - 2) + 2] = RecordB(1, i - 2)
      BY <1>5, <3>1
    <3>3. file.group[1].payees[i - 2].seq = (i - 2) + 2
      BY <1>4, <3>1
    <3>4. QED
      BY <3>1, <3>2, <3>3 DEF RecordB
  <2>3. CASE i \in n + 5 .. n + m + 4
    <3>1. i - (n + 4) \in 1 .. m /\ (i - (n + 4)) + (n + 4) = i
      BY <1>1, <2>3
    <3>2. wire[(i - (n + 4)) + (n + 4)] = RecordB(2, i - (n + 4))
      BY <1>5, <3>1
    <3>3. file.group[2].payees[i - (n + 4)].seq = (i - (n + 4)) + (n + 4)
      BY <1>4, <3>1
    <3>4. QED
      BY <3>1, <3>2, <3>3 DEF RecordB
  <2>4. QED
    BY <1>1, <1>6, <2>1, <2>2, <2>3
<1>8. /\ IsFiniteSet(3 .. n + 2) /\ Cardinality(3 .. n + 2) = n
      /\ IsFiniteSet(n + 5 .. n + m + 4)
      /\ Cardinality(n + 5 .. n + m + 4) = m
  <2>1. 3 \in Int /\ n + 2 \in Int /\ 3 <= (n + 2) + 1 /\ (n + 2) - 3 + 1 = n
    BY <1>1
  <2>2. /\ n + 5 \in Int /\ n + m + 4 \in Int
        /\ n + 5 <= (n + m + 4) + 1 /\ (n + m + 4) - (n + 5) + 1 = m
    BY <1>1
  <2>3. QED
    BY <2>1, <2>2, IntervalSize, Zenon
<1>9. Cardinality(Of("B")) = n + m
  <2>1. (3 .. n + 2) \cap (n + 5 .. n + m + 4) = {}
    BY <1>1
  <2>2. Cardinality((3 .. n + 2) \cup (n + 5 .. n + m + 4))
          = Cardinality(3 .. n + 2) + Cardinality(n + 5 .. n + m + 4)
              - Cardinality((3 .. n + 2) \cap (n + 5 .. n + m + 4))
    BY <1>8, FS_Union, Zenon
  <2>3. Cardinality((3 .. n + 2) \cup (n + 5 .. n + m + 4)) = n + m - 0
    BY <1>8, <2>1, <2>2, FS_EmptySet, Zenon
  <2>4. n + m - 0 = n + m
    BY <1>1
  <2>5. QED
    BY <1>6, <2>3, <2>4, Zenon
<1>10. \A i \in Of("T") \cup Of("F") : wire[i].count = Cardinality(Of("B"))
  BY <1>3, <1>5, <1>6, <1>9
<1>11. \A i \in Of("C") : wire[i].count = Cardinality(Block(i))
  BY <1>3, <1>5, <1>6, <1>8 DEF RecordC
<1>12. ASSUME NEW i \in Of("C"), NEW c \in Listed, Fits
       PROVE  wire[i].totals[c] =
                SumFunction([j \in Block(i) |-> wire[j].amounts[c]])
  <2>1. CASE i = n + 3
    <3>1. SumFunction([j \in 2 + 1 .. 2 + n |-> wire[j].amounts[c]])
            = RecordC(1).totals[c]
      BY <1>1, <1>3, <1>5, <1>12, GroupAddsUp DEF n
    <3>2. 2 + 1 .. 2 + n = Block(i)
      BY <1>1, <1>6, <2>1
    <3>3. QED
      BY <1>5, <2>1, <3>1, <3>2
  <2>2. CASE i = n + m + 5
    <3>1. n + 4 \in Nat
      BY <1>1
    <3>2. SumFunction([j \in (n + 4) + 1 .. (n + 4) + m |->
                         wire[j].amounts[c]])
            = RecordC(2).totals[c]
      BY <1>1, <1>3, <1>5, <1>12, <3>1, GroupAddsUp DEF m
    <3>3. (n + 4) + 1 .. (n + 4) + m = Block(i)
      <4>1. (n + 4) + 1 = n + 5 /\ (n + 4) + m = n + m + 4
        BY <1>1
      <4>2. QED
        BY <1>6, <2>2, <4>1
    <3>4. QED
      BY <1>5, <2>2, <3>2, <3>3
  <2>3. QED
    BY <1>6, <2>1, <2>2
<1>13. wire = Records(FilledFile)
  BY StampedStays
<1>14. QED
  BY <1>7, <1>10, <1>11, <1>12, <1>13 DEF FileAddsUp

(* Nothing is in a new file.                                               *)
LEMMA FileStart == InitFireFile => FileInv
<1> SUFFICES ASSUME InitFireFile PROVE FileInv
  OBVIOUS
<1>1. file = NewFile /\ wire = <<>> /\ edited = FALSE
  BY DEF InitFireFile
<1>2. \A g \in Groups : file.group[g] = NewGroup
  BY <1>1 DEF NewFile
<1>3. NewGroup \in PayeeGroup
  BY DEF NewGroup, PayeeGroup, Unfilled
<1>4. FileTyped
  BY <1>1, <1>3 DEF FileTyped, NewFile
<1>5. Fresh
  BY <1>1, <1>2 DEF Fresh, NewFile, NewGroup, Payees
<1>6. QED
  BY <1>1, <1>4, <1>5 DEF FileInv

(* A payee is added to a file that was not marshalled, or the file counts  *)
(* as edited.                                                              *)
LEMMA PayeeAdded ==
  ASSUME FileInv, NEW g \in Groups, AddPayee(g)
  PROVE  FileInv'
<1>1. PICK amounts \in Payments :
        file' = [file EXCEPT !.group[g].payees =
                   Append(@, [seq |-> 0, amounts |-> amounts])]
  BY Zenon DEF AddPayee
<1>2. edited' = (wire # <<>>) /\ wire' = wire
  BY Zenon DEF AddPayee
<1>3. FileTyped
  BY DEF FileInv
<1> DEFINE p == [seq |-> 0, amounts |-> amounts]
           old == file.group[g].payees
           new == Append(old, p)
<1>4. p \in Payee /\ p.seq = 0
  BY FireAssumption DEF Payee
<1>5. /\ old \in Seq(Payee) /\ file.group[g] \in PayeeGroup
      /\ Len(old) = Payees(g)
  BY <1>3, GroupFields DEF Payees
<1> HIDE DEF p
<1>6. /\ new \in Seq(Payee) /\ Len(new) = Payees(g) + 1
      /\ new[Payees(g) + 1] = p
      /\ \A j \in 1 .. Payees(g) : new[j] = old[j]
  BY <1>4, <1>5
<1> HIDE DEF old, new
<1>7. file' = [file EXCEPT !.group[g].payees = new]
  BY <1>1 DEF p, old, new
<1>8. /\ file'.group[g].payees = new /\ file'.group[g] \in PayeeGroup
      /\ file'.group[g].payer = file.group[g].payer
      /\ file'.group[g].closing = file.group[g].closing
      /\ file'.group[g].count = file.group[g].count
      /\ file'.group[g].totals = file.group[g].totals
      /\ \A h \in Groups : h # g => file'.group[h] = file.group[h]
      /\ file'.transmitter = file.transmitter /\ file'.total = file.total
      /\ file'.end = file.end /\ file'.payers = file.payers
      /\ file'.payees = file.payees
  BY <1>3, <1>5, <1>6, <1>7 DEF FileTyped, PayeeGroup
<1>9. FileTyped'
  BY <1>3, <1>5, <1>6, <1>7 DEF FileTyped, PayeeGroup
<1>10. ASSUME wire = <<>> PROVE Fresh'
  <2>1. Fresh
    BY <1>10 DEF FileInv
  <2>2. \A j \in 1 .. Payees(g)' : file'.group[g].payees[j].seq = 0
    <3>1. Payees(g)' = Payees(g) + 1 /\ Payees(g) \in Nat
      BY <1>3, <1>6, <1>8, GroupFields DEF Payees
    <3>2. \A j \in 1 .. Payees(g) : old[j].seq = 0
      BY <2>1 DEF Fresh, old
    <3>3. \A j \in 1 .. Payees(g) + 1 : j \in 1 .. Payees(g)
                                         \/ j = Payees(g) + 1
      BY <3>1
    <3>4. QED
      BY <1>4, <1>6, <1>8, <3>1, <3>2, <3>3
  <2>3. QED
    BY <1>8, <2>1, <2>2 DEF Fresh, Payees
<1>11. QED
  BY <1>2, <1>9, <1>10 DEF FileInv

(* There is always something to render.                                    *)
LEMMA RenderedNotEmpty == FileTyped /\ wire = Records(file) => wire # <<>>
<1>1. ASSUME FileTyped, wire = Records(file), wire = <<>> PROVE FALSE
  <2>1. Payees(1) \in Nat /\ Payees(2) \in Nat
    BY <1>1, GroupFields DEF Groups
  <2>2. DOMAIN wire = 1 .. Payees(1) + Payees(2) + 6
    BY <1>1, Layout
  <2>3. 1 \in DOMAIN wire
    BY <2>1, <2>2
  <2>4. QED
    BY <1>1, <2>3
<1>2. QED
  BY <1>1

(* Every step keeps the invariant.                                         *)
LEMMA FileStep == FileInv /\ [NextFireFile]_fireFile => FileInv'
<1> SUFFICES ASSUME FileInv, [NextFireFile]_fireFile PROVE FileInv'
  OBVIOUS
<1>1. ASSUME Marshal PROVE FileInv'
  <2>1. file' = FilledFile /\ wire' = Records(file') /\ edited' = edited
    BY <1>1, Zenon DEF Marshal
  <2>2. FileTyped /\ FileTyped'
    BY <2>1, Marshalled DEF FileInv
  <2>3. wire' # <<>>
    <3>1. (FileTyped /\ wire = Records(file) => wire # <<>>)'
      BY RenderedNotEmpty, PTL
    <3>2. QED
      BY <2>1, <2>2, <3>1
  <2>4. CASE edited
    BY <2>1, <2>2, <2>3, <2>4 DEF FileInv
  <2>5. CASE ~edited
    <3>1. Stamped'
      <4>1. CASE wire = <<>>
        BY <2>1, <2>2, <4>1, FreshIsStamped DEF FileInv
      <4>2. CASE wire # <<>>
        <5>1. Stamped /\ file' = file
          BY <2>1, <2>2, <2>5, <4>2, StampedStays DEF FileInv
        <5>2. QED
          BY ZenonT(60), <5>1 DEF Stamped, AllPayees, Payees, PayerNumber, Totals,
                      GroupTotal
      <4>3. QED
        BY <4>1, <4>2
    <3>2. QED
      BY <2>1, <2>2, <2>3, <3>1 DEF FileInv
  <2>6. QED
    BY <2>4, <2>5
<1>2. CASE UNCHANGED fireFile
  <2>1. file' = file /\ wire' = wire /\ edited' = edited
    BY <1>2 DEF fireFile
  <2>2. FileTyped' /\ (Fresh => Fresh')
    BY <2>1 DEF FileInv, FileTyped, Fresh, Payees
  <2>3. Stamped => Stamped'
    BY ZenonT(60), <2>1 DEF Stamped, AllPayees, Payees, PayerNumber, Totals, GroupTotal
  <2>4. QED
    BY <2>1, <2>2, <2>3 DEF FileInv
<1>3. QED
  BY <1>1, <1>2, PayeeAdded DEF NextFireFile

LEMMA FileHolds ==
  InitFireFile /\ [][NextFireFile]_fireFile => []FileAddsUp
<1>1. FileInv => FileAddsUp
  BY StampedAddsUp DEF FileInv, FileAddsUp
<1>2. QED
  BY <1>1, FileStart, FileStep, PTL


-----------------------------------------------------------------------------

(* What is asked of the calculators, and what they answer.                 *)
Offered == [exemption : STRING, nonAccredited : Int, offering : Int,
            sold : Int, filed : BOOLEAN, yetToOccur : BOOLEAN]

(* The compliance check and Form D agree about every offering.             *)
LEMMA RegDRules ==
  ASSUME NEW f \in Offered
  PROVE  RegDConsistent(f)
<1>1. /\ "506b_investors" \in Violations(f)
           <=> f.exemption = "506b" /\ f.nonAccredited > 35
      /\ "506c_investors" \in Violations(f)
           <=> f.exemption = "506c" /\ f.nonAccredited > 0
      /\ "504_offering" \in Violations(f)
           <=> f.exemption = "504" /\ f.offering > 10000
      /\ "late" \in Violations(f) <=> f.sold > 15 /\ ~f.filed
      /\ "deadline" \in Warnings(f) <=> f.sold \in 0 .. 15 /\ ~f.filed
  <2>1. "506b_investors" \in Violations(f)
          <=> f.exemption = "506b" /\ f.nonAccredited > 35
    BY DEF Violations
  <2>2. "506c_investors" \in Violations(f)
          <=> f.exemption = "506c" /\ f.nonAccredited > 0
    BY DEF Violations
  <2>3. "504_offering" \in Violations(f)
          <=> f.exemption = "504" /\ f.offering > 10000
    BY DEF Violations
  <2>4. "late" \in Violations(f) <=> f.sold > 15 /\ ~f.filed
    BY DEF Violations
  <2>5. "deadline" \in Warnings(f) <=> f.sold \in 0 .. 15 /\ ~f.filed
    BY DEF Warnings
  <2>6. QED
    BY <2>1, <2>2, <2>3, <2>4, <2>5
<1>2. Violations(f) \subseteq
        {"506b_investors", "506c_investors", "504_offering", "late"}
  BY DEF Violations
<1>3. QED
  BY <1>1, <1>2 DEF RegDConsistent, FormDRefused, Offered

LEMMA DivisionBounds ==
  \A a, b \in Nat : b > 0 => /\ a \div b \in Nat
                             /\ (a \div b) * b <= a
                             /\ a < (a \div b) * b + b
OBVIOUS

LEMMA QuotientSmall ==
  ASSUME NEW s \in Nat, NEW d \in Nat, NEW v \in Nat \ {0}, d <= v
  PROVE  (d * s) \div v \in 0 .. s
<1>1. d * s \in Nat /\ d * s <= v * s /\ d * s = s * d
  OBVIOUS
<1> DEFINE q == (d * s) \div v
<1>2. q * v <= d * s /\ q \in Nat
  BY <1>1, DivisionBounds
<1>3. q <= s
  <2> HIDE DEF q
  <2>1. SUFFICES ASSUME q >= s + 1 PROVE FALSE
    BY <1>2
  <2>2. q * v >= (s + 1) * v
    BY <1>2, <2>1
  <2>3. (s + 1) * v = v * s + v
    OBVIOUS
  <2>4. QED
    BY <1>1, <1>2, <2>2, <2>3
<1>4. QED
  BY <1>2, <1>3

(* Whatever is exercised, at whatever strike and market value.             *)
LEMMA ExerciseRules ==
  ASSUME NEW shares \in Nat, NEW strike \in Nat, NEW fmv \in Nat \ {0},
         NEW type \in {"cash", "cashless", "net"}
  PROVE  ExerciseSound(shares, strike, fmv, type)
<1> DEFINE spread == TaxableSpread(shares, strike, fmv)
           net == NetShares(shares, strike, fmv, type)
<1>1. spread \in Nat /\ spread * Withholding("nso") <= spread * 10000
  <2>1. spread \in Nat
    BY DEF TaxableSpread
  <2> HIDE DEF spread
  <2>2. QED
    BY <2>1 DEF Withholding
<1>2. CASE type # "cashless"
  <2>1. net = shares
    BY <1>2 DEF NetShares
  <2>2. shares * fmv <= spread + shares * strike
    <3>1. CASE fmv < strike
      BY <3>1 DEF TaxableSpread
    <3>2. CASE ~(fmv < strike)
      BY <3>2 DEF TaxableSpread
    <3>3. QED
      BY <3>1, <3>2
  <2>3. TotalCost(shares, strike, type) = shares * strike
    BY <1>2 DEF TotalCost
  <2>4. QED
    BY <1>1, <1>2, <2>1, <2>2, <2>3 DEF ExerciseSound
<1>3. CASE type = "cashless"
  <2>1. TotalCost(shares, strike, type) = 0
    BY <1>3 DEF TotalCost
  <2>2. net \in 0 .. shares /\ spread - net * fmv \in 0 .. fmv - 1
    <3>1. CASE fmv < strike
      BY <1>3, <3>1 DEF NetShares, TaxableSpread
    <3>2. CASE ~(fmv < strike)
      <4>1. net = spread \div fmv /\ spread = (fmv - strike) * shares
        BY <1>3, <3>2 DEF NetShares, TaxableSpread
      <4>2. net \in 0 .. shares
        BY <3>2, <4>1, QuotientSmall
      <4>3. net * fmv <= spread /\ spread < net * fmv + fmv
        BY <1>1, <4>1, DivisionBounds
      <4> HIDE DEF net, spread
      <4>4. QED
        BY <1>1, <4>2, <4>3
    <3>3. QED
      BY <3>1, <3>2
  <2>3. fmv > strike => WarrantShares(shares, strike, fmv, type) = net
    <3>1. (fmv - strike) * shares = shares * (fmv - strike)
      OBVIOUS
    <3>2. QED
      BY <1>3, <3>1 DEF WarrantShares, NetShares
  <2>4. QED
    <3> HIDE DEF net, spread
    <3>1. net * fmv <= spread
      BY <1>1, <2>2
    <3>2. QED
      BY <1>1, <1>3, <2>1, <2>2, <2>3, <3>1 DEF ExerciseSound, net, spread
<1>4. QED
  BY <1>2, <1>3

-----------------------------------------------------------------------------

(* A flat fee or a graded one for each state that requires a notice.       *)
LEMMA FeeStates ==
  /\ RequiredStates = FlatStates \cup {"CA", "NY", "WA"}
  /\ FlatStates \cap {"CA", "NY", "WA"} = {}
  /\ \A s \in FlatStates :
       FlatFee(s) \in Int /\ 50 <= FlatFee(s) /\ FlatFee(s) <= 600
<1>1. RequiredStates = FlatStates \cup {"CA", "NY", "WA"}
  BY SMTT(60) DEF RequiredStates, FlatStates, FlatFees
<1>2. FlatStates \cap {"CA", "NY", "WA"} = {}
  BY SMTT(60) DEF FlatStates, FlatFees
<1>3. \A s \in FlatStates : FlatFee(s) \in 50 .. 600
  <2>1. \A fee \in FlatFees : fee[1] \in 50 .. 600
    BY DEF FlatFees
  <2>2. \A s \in FlatStates : \E fee \in FlatFees : s \in fee[2]
    BY DEF FlatStates
  <2>3. QED
    BY Zenon, <2>1, <2>2 DEF FlatFee
<1>4. QED
  BY <1>1, <1>2, <1>3

LEMMA FeesByState ==
  ASSUME NEW offering \in Nat
  PROVE  /\ \A s \in FlatStates : StateFee(s, offering) = 100 * FlatFee(s)
         /\ StateFee("CA", offering) = Least(2500 + offering, 30000)
         /\ StateFee("NY", offering) =
              IF offering > 500 THEN 120000 ELSE 30000
         /\ StateFee("WA", offering) =
              IF offering > 50
              THEN Least(30000 + 100 * (offering - 50), 150000) ELSE 30000
<1>1. ASSUME NEW s \in FlatStates
      PROVE  StateFee(s, offering) = 100 * FlatFee(s)
  <2>1. s # "CA" /\ s # "NY" /\ s # "WA"
    BY FeeStates
  <2>2. QED
    BY <2>1 DEF StateFee
<1>2. /\ "CA" \notin FlatStates
      /\ "NY" \notin FlatStates
      /\ "WA" \notin FlatStates
  BY FeeStates
<1>3. StateFee("CA", offering) = Least(2500 + offering, 30000)
  BY <1>2 DEF StateFee
<1>4. StateFee("NY", offering) = IF offering > 500 THEN 120000 ELSE 30000
  BY <1>2 DEF StateFee
<1>5. StateFee("WA", offering) =
       IF offering > 50 THEN Least(30000 + 100 * (offering - 50), 150000)
       ELSE 30000
  BY <1>2 DEF StateFee
<1>6. QED
  BY <1>1, <1>3, <1>4, <1>5

(* A larger offering never pays less.                                      *)
LEMMA FeeRules ==
  ASSUME NEW small \in Nat, NEW large \in Nat
  PROVE  FeesSound(small, large)
<1> DEFINE Bounded(a, b) ==
             /\ a \in Int /\ b \in Int /\ 2500 <= a /\ b <= 150000
             /\ small <= large => a <= b
<1>1. ASSUME NEW s \in RequiredStates
      PROVE  Bounded(StateFee(s, small), StateFee(s, large))
  <2>1. CASE s \in FlatStates
    <3>1. /\ StateFee(s, small) = 100 * FlatFee(s)
          /\ StateFee(s, large) = 100 * FlatFee(s)
      BY <2>1, FeesByState
    <3>2. QED
      BY <2>1, <3>1, FeeStates
  <2>2. CASE s = "CA"
    <3>1. /\ StateFee(s, small) = Least(2500 + small, 30000)
          /\ StateFee(s, large) = Least(2500 + large, 30000)
      BY <2>2, FeesByState
    <3>2. QED
      BY <3>1 DEF Least
  <2>3. CASE s = "NY"
    <3>1. /\ StateFee(s, small) = IF small > 500 THEN 120000 ELSE 30000
          /\ StateFee(s, large) = IF large > 500 THEN 120000 ELSE 30000
      BY <2>3, FeesByState
    <3>2. QED
      BY <3>1
  <2>4. CASE s = "WA"
    <3>1. /\ StateFee(s, small) =
               IF small > 50
               THEN Least(30000 + 100 * (small - 50), 150000) ELSE 30000
          /\ StateFee(s, large) =
               IF large > 50
               THEN Least(30000 + 100 * (large - 50), 150000) ELSE 30000
      BY <2>4, FeesByState
    <3>2. QED
      BY <3>1 DEF Least
  <2>5. QED
    BY <2>1, <2>2, <2>3, <2>4, FeeStates
<1>2. ASSUME NEW s \in RequiredStates
      PROVE  LET low == CalculateFee(s, small).due
                 high == CalculateFee(s, large).due IN
             /\ 2500 <= low /\ high <= 166000
             /\ small <= large => low <= high
  <2> DEFINE a == StateFee(s, small)
             b == StateFee(s, large)
  <2>1. CASE s \in PortalStates
    <3>1. /\ CalculateFee(s, small).due = a
          /\ CalculateFee(s, large).due = b
      BY <2>1 DEF CalculateFee
    <3>2. Bounded(a, b)
      BY <1>1
    <3> HIDE DEF a, b
    <3>3. QED
      BY <3>1, <3>2
  <2>2. CASE s \notin PortalStates
    <3>1. /\ CalculateFee(s, small).due = a + 16000
          /\ CalculateFee(s, large).due = b + 16000
      BY <2>2 DEF CalculateFee, EFDSystemFee
    <3>2. Bounded(a, b)
      BY <1>1
    <3> HIDE DEF a, b
    <3>3. QED
      BY <3>1, <3>2
  <2>3. QED
    BY <2>1, <2>2
<1>4. QED
  BY <1>2, FeeStates DEF FeesSound

-----------------------------------------------------------------------------

(* Of the fields of all records only the amounts 'H' and 'I' meet others.  *)
LEMMA ListedApart ==
  ASSUME NEW codes \in SUBSET AmountCodes
  PROVE  FieldsApart(codes)
<1>1. Apart(TransmitterRecord)
  BY SMTT(100) DEF Apart, TransmitterRecord, Overlap, RecordLen
<1>2. Apart(PayerRecord)
  BY SMTT(100) DEF Apart, PayerRecord, Overlap, RecordLen
<1>3. Apart(EndOfPayerRecord)
  BY SMTT(100) DEF Apart, EndOfPayerRecord, TotalColumns, AmountCodes, Overlap,
                   RecordLen
<1>4. Apart(StateTotalsRecord)
  BY SMTT(100) DEF Apart, StateTotalsRecord, EndOfPayerRecord, TotalColumns,
                   AmountCodes, Overlap, RecordLen
<1>5. Apart(EndOfFileRecord)
  BY SMTT(100) DEF Apart, EndOfFileRecord, Overlap, RecordLen
<1>6. ASSUME codes \cap {16, 17} = {} PROVE Apart(PayeeRecord(codes))
  BY <1>6, SMTT(100) DEF Apart, PayeeRecord, AmountColumns, AmountCodes,
                         Overlap, RecordLen
<1>7. ASSUME codes \cap {16, 17} # {} PROVE ~Apart(PayeeRecord(codes))
  <2>1. /\ <<247, 247>> \in PayeeRecord(codes)
        /\ <<248, 287>> \in PayeeRecord(codes)
        /\ \A c \in codes : AmountColumns(c) \in PayeeRecord(codes)
    BY DEF PayeeRecord
  <2>2. CASE 16 \in codes
    <3>1. AmountColumns(16) = <<247, 258>>
      BY DEF AmountColumns
    <3>2. Overlap(<<247, 247>>, <<247, 258>>)
      BY DEF Overlap
    <3>3. QED
      BY <2>1, <2>2, <3>1, <3>2 DEF Apart
  <2>3. CASE 17 \in codes
    <3>1. AmountColumns(17) = <<259, 270>>
      BY DEF AmountColumns
    <3>2. Overlap(<<248, 287>>, <<259, 270>>)
      BY DEF Overlap
    <3>3. QED
      BY <2>1, <2>3, <3>1, <3>2 DEF Apart
  <2>4. QED
    BY <1>7, <2>2, <2>3
<1>8. QED
  BY <1>1, <1>2, <1>3, <1>4, <1>5, <1>6, <1>7 DEF FieldsApart

(* A reportable holder has a form or is an error, however many there are.  *)
LEMMA EveryHolderHasAForm ==
  ASSUME NEW amounts, IsFiniteSet(DOMAIN amounts), NEW known, NEW unstored
  PROVE  GenerationSound(amounts, known, unstored)
<1> DEFINE reportable == {h \in DOMAIN amounts : amounts[h] >= 1000}
           made == (reportable \cap known) \ unstored
           r == Generate1099DIV(amounts, known, unstored)
<1>1. IsFiniteSet(reportable) /\ made \subseteq reportable
  BY FS_Subset
<1>2. /\ r.forms = [h \in made |-> amounts[h]]
      /\ r.created = Cardinality(made)
      /\ r.errors = Cardinality(reportable \ made)
  BY DEF Generate1099DIV
<1> HIDE DEF r, reportable, made
<1>3. Cardinality(made) + Cardinality(reportable \ made)
        = Cardinality(reportable)
  <2>1. /\ IsFiniteSet(made) /\ Cardinality(made) \in Nat
        /\ Cardinality(reportable) \in Nat
    BY <1>1, FS_Subset, FS_CardinalityType
  <2>2. reportable \cap made = made
    BY <1>1
  <2>3. Cardinality(reportable \ made)
          = Cardinality(reportable) - Cardinality(made)
    BY <1>1, <2>2, FS_Difference
  <2>4. QED
    BY <2>1, <2>3
<1>4. \A h \in DOMAIN r.forms : r.forms[h] = amounts[h]
  BY <1>2
<1>5. r.created + r.errors = Cardinality(reportable)
  BY <1>2, <1>3
<1>6. QED
  BY <1>4, <1>5 DEF GenerationSound, r, reportable

(* A form as it is handed to the IRIS client.                              *)
IrisRequest ==
  [type : STRING, tcc : STRING, kind : STRING, original : STRING,
   payees : Seq([data : STRING])]

(* What SubmitForm sends, and when.                                        *)
LEMMA SentAsChecked ==
  ASSUME NEW fs, NEW P, fs.payees \in Seq(P), NEW client
  PROVE  LET s == Submitted(fs, client) IN
         /\ s.sent <=> Valid(fs)
         /\ Valid(fs) =>
              /\ s.tcc = fs.tcc /\ s.tcc # "empty"
              /\ s.kind = IF fs.kind = "unset" THEN "original" ELSE fs.kind
              /\ s.original = fs.original
              /\ s.count = Len(s.records)
              /\ \A j \in DOMAIN s.records :
                   s.records[j] = [element |-> FormElement[fs.type],
                                   data |-> DataElement[fs.type]]
<1> DEFINE s == Submitted(fs, client)
           records == [j \in DOMAIN fs.payees |->
                         [element |-> FormElement[fs.type],
                          data |-> DataElement[fs.payees[j].data]]]
<1>1. CASE ~Valid(fs)
  <2>1. s = [sent |-> FALSE]
    BY <1>1, Zenon DEF Submitted
  <2>2. QED
    BY <1>1, <2>1
<1>2. CASE Valid(fs)
  <2>1. fs.tcc # "empty"
    BY <1>2 DEF Valid
  <2>2. s = [sent |-> TRUE,
             kind |-> IF fs.kind = "unset" THEN "original" ELSE fs.kind,
             tcc |-> fs.tcc, test |-> client.env = "aats",
             original |-> fs.original, count |-> Len(fs.payees),
             records |-> records]
    BY <1>2, <2>1, Zenon DEF Submitted
  <2>3. Len(records) = Len(fs.payees) /\ DOMAIN records = DOMAIN fs.payees
    <3>1. records \in Seq({records[j] : j \in DOMAIN fs.payees})
      OBVIOUS
    <3>2. QED
      BY <3>1
  <2>4. \A j \in DOMAIN records :
          records[j] = [element |-> FormElement[fs.type],
                        data |-> DataElement[fs.type]]
    <3>1. ASSUME NEW j \in DOMAIN fs.payees PROVE fs.payees[j].data = fs.type
      <4>1. WireName(fs.type, fs.payees[j].data) # "none"
        BY <1>2 DEF Valid
      <4>2. QED
        BY <4>1 DEF WireName
    <3>2. QED
      BY <3>1
  <2> HIDE DEF s, records
  <2>5. /\ s.sent = TRUE /\ s.tcc = fs.tcc /\ s.original = fs.original
        /\ s.kind = IF fs.kind = "unset" THEN "original" ELSE fs.kind
        /\ s.count = Len(fs.payees) /\ s.records = records
    BY <2>2, Zenon
  <2>6. QED
    BY <1>2, <2>1, <2>3, <2>4, <2>5 DEF s
<1>3. QED
  BY <1>1, <1>2

(* A correction takes the client's code when it has none of its own.       *)
LEMMA FormsGoAsChecked ==
  ASSUME NEW fs \in IrisRequest, NEW client, client.tcc # "empty"
  PROVE  SubmissionSound(fs, client)
<1> DEFINE gs == [fs EXCEPT !.kind = "corrected", !.original = "R1",
                            !.tcc = IF @ = "empty" THEN client.tcc ELSE @]
           c == Corrected("R1", fs, client)
           s == Submitted(fs, client)
<1>1. /\ gs.kind = "corrected" /\ gs.original = "R1"
      /\ gs.tcc # "empty" /\ gs.type = fs.type /\ gs.payees = fs.payees
  BY DEF IrisRequest
<1>2. fs.payees \in Seq([data : STRING]) /\ gs.payees \in Seq([data : STRING])
  BY <1>1 DEF IrisRequest
<1>3. c = IF fs.payees = <<>> \/ fs.type = "none" THEN [sent |-> FALSE]
          ELSE Submitted(gs, client)
  BY Zenon DEF Corrected
<1> HIDE DEF gs, c, s
<1>4. c.sent => c.kind = "corrected" /\ c.original = "R1" /\ c.tcc # "empty"
  <2>1. CASE fs.payees = <<>> \/ fs.type = "none"
    BY <1>3, <2>1
  <2>2. CASE ~(fs.payees = <<>> \/ fs.type = "none")
    <3>1. c = Submitted(gs, client)
      BY <1>3, <2>2
    <3>2. QED
      BY <1>1, <1>2, <3>1, SentAsChecked
  <2>3. QED
    BY <2>1, <2>2
<1>5. Valid(fs) => c.sent
  <2>1. SUFFICES ASSUME Valid(fs) PROVE c.sent
    OBVIOUS
  <2>2. fs.payees # <<>>
    BY <2>1 DEF Valid
  <2>3. fs.type # "none"
    BY <2>1 DEF Valid, FormTypes, FormElement
  <2>4. Valid(gs)
    BY <1>1, <2>1 DEF Valid
  <2>5. c = Submitted(gs, client)
    BY <1>3, <2>2, <2>3
  <2>6. QED
    BY <1>1, <1>2, <2>4, <2>5, SentAsChecked
<1>6. /\ s.sent <=> Valid(fs)
      /\ s.sent => /\ s.tcc = fs.tcc /\ s.tcc # "empty"
                   /\ s.count = Len(s.records)
                   /\ \A j \in DOMAIN s.records :
                        s.records[j] = [element |-> FormElement[fs.type],
                                        data |-> DataElement[fs.type]]
  BY <1>2, SentAsChecked DEF s
<1>7. QED
  BY <1>4, <1>5, <1>6, Zenon DEF SubmissionSound, c, s

(* A payee as the states' filings see it.                                  *)
RoutedPayee == [data : STRING, tax : Int, income : Int, state : STRING]

LEMMA StatesAreGrouped ==
  /\ \A p, q \in CFSFCodes : p[1] = q[1] <=> p[2] = q[2]
  /\ NoIncomeTax \cap OwnPortal = {}
  /\ Participants \cap (NoIncomeTax \cup OwnPortal) = {}
<1>1. \A p, q \in CFSFCodes : p[1] = q[1] <=> p[2] = q[2]
  BY SMTT(60) DEF CFSFCodes
<1>2. NoIncomeTax \cap OwnPortal = {}
  BY SMTT(60) DEF NoIncomeTax, OwnPortal
<1>3. Participants \cap (NoIncomeTax \cup OwnPortal) = {}
  BY SMTT(60) DEF NoIncomeTax, OwnPortal, Participants, CFSFCodes
<1>4. QED
  BY <1>1, <1>2, <1>3

(* Each payee with a state is counted once, and its tax with it.           *)
LEMMA EveryPayeeIsRouted ==
  ASSUME NEW payees \in Seq(RoutedPayee)
  PROVE  StateRoutingSound(payees)
<1> DEFINE D == DOMAIN payees
           S == {payees[j].state : j \in D} \ {"none"}
           part == [s \in S |-> {j \in D : payees[j].state = s}]
           filing == [s \in S |-> BuildFiling(s, payees, part[s])]
           filings == RouteToStates(payees, {})
           placed == {j \in D : payees[j].state # "none"}
           tax == [j \in D |-> payees[j].tax]
           one == [j \in D |-> 1]
           counts == [s \in S |-> Cardinality(part[s])]
           taxes == [s \in S |-> SumFunctionOnSet(tax, part[s])]
<1>1. IsFiniteSet(D) /\ IsFiniteSet(S) /\ IsFiniteSet(placed)
  <2>1. D = 1 .. Len(payees) /\ Len(payees) \in Nat
    OBVIOUS
  <2>2. IsFiniteSet(D)
    BY <2>1, FS_Interval
  <2>3. IsFiniteSet({payees[j].state : j \in D})
    <3> DEFINE state == [j \in D |-> payees[j].state]
    <3>1. {payees[j].state : j \in D} = {state[j] : j \in D}
      OBVIOUS
    <3> HIDE DEF state
    <3>2. QED
      BY <2>2, <3>1, FiniteImage
  <2>4. QED
    BY <2>2, <2>3, FS_Subset
<1>2. \A j \in D : payees[j].tax \in Int
  <2>1. ASSUME NEW j \in D PROVE payees[j].tax \in Int
    <3>1. payees[j] \in RoutedPayee
      OBVIOUS
    <3>2. QED
      BY <3>1 DEF RoutedPayee
  <2>2. QED
    BY <2>1
<1>3. filings = {filing[s] : s \in S}
  BY DEF RouteToStates, StateBreakdown
<1>4. \A s \in S : /\ filing[s].state = s
                   /\ filing[s].count = counts[s]
                   /\ filing[s].withheld =
                        SumFunction([j \in part[s] |-> payees[j].tax])
  BY DEF BuildFiling
<1>5. \A s \in S : part[s] \subseteq D /\ IsFiniteSet(part[s])
  BY <1>1, FS_Subset
<1>6. /\ \A s, t \in S : s # t => part[s] \cap part[t] = {}
      /\ UNION {part[s] : s \in S} = placed
  <2>1. \A s, t \in S : s # t => part[s] \cap part[t] = {}
    OBVIOUS
  <2>2. \A j \in placed : payees[j].state \in S /\ j \in part[payees[j].state]
    OBVIOUS
  <2>3. \A s \in S : part[s] \subseteq placed
    OBVIOUS
  <2>4. QED
    <3> HIDE DEF part, S, placed
    <3>1. QED
      BY <2>1, <2>2, <2>3
<1>7. \A s \in S : filing[s].withheld = taxes[s]
  <2> HIDE DEF filing, D, S, placed, filings
  <2>1. ASSUME NEW s \in S PROVE filing[s].withheld = taxes[s]
    <3> DEFINE some == [j \in part[s] |-> payees[j].tax]
    <3>1. SumFunction(some) = SumFunctionOnSet(some, part[s])
      BY DEF SumFunction
    <3>2. \A j \in part[s] : some[j] = tax[j]
      BY <1>5
    <3> HIDE DEF some, tax
    <3>3. SumFunctionOnSet(some, part[s]) = SumFunctionOnSet(tax, part[s])
      BY <1>5, <3>2, SumAgree
    <3>4. QED
      BY <1>4, <3>1, <3>3 DEF some
  <2>2. QED
    BY <2>1
<1> HIDE DEF filing, D, S, placed, filings
<1>8. SumFunction([f \in filings |-> f.count]) = Cardinality(placed)
  <2> DEFINE g == [f \in filings |-> f.count]
  <2>1. \A s \in S : counts[s] = SumFunctionOnSet(one, part[s])
                     /\ counts[s] \in Int
    <3>1. ASSUME NEW s \in S
          PROVE counts[s] = SumFunctionOnSet(one, part[s]) /\ counts[s] \in Int
      <4>1. \A j \in part[s] : one[j] = 1
        BY <1>5
      <4>2. IsFiniteSet(part[s]) /\ counts[s] = Cardinality(part[s])
        BY <1>5
      <4> HIDE DEF one, part
      <4>3. QED
        BY <4>1, <4>2, SumOnes, FS_CardinalityType
    <3>2. QED
      BY <3>1
  <2>2. \A s \in S : \A j \in part[s] : one[j] \in Int
    BY <1>5
  <2>3. \A j \in placed : one[j] = 1
    BY DEF placed
  <2>4. Renames(filing, S, filings, counts, g)
    <3> HIDE DEF counts
    <3>1. \A s \in S : filing[s] \in filings /\ g[filing[s]] = counts[s]
      BY <1>3, <1>4
    <3>2. QED
      BY <1>3, <1>4, <2>1, <3>1 DEF Renames
  <2> HIDE DEF counts, one, part
  <2>5. SumFunctionOnSet(g, filings) = SumFunctionOnSet(counts, S)
    BY <1>1, <2>4, SumRenamed
  <2>6. SumFunctionOnSet(counts, S) = SumFunctionOnSet(one, placed)
    <3>1. \A s \in S : /\ IsFiniteSet(part[s])
                       /\ \A j \in part[s] : one[j] \in Int
                       /\ counts[s] = SumFunctionOnSet(one, part[s])
      BY <1>5, <2>1, <2>2
    <3>2. Parts(S, part, placed, one, counts)
      BY <1>6, <3>1 DEF Parts
    <3>3. QED
      BY <1>1, <3>2, SumParts
  <2>7. SumFunctionOnSet(one, placed) = Cardinality(placed)
    BY <1>1, <2>3, SumOnes
  <2>8. QED
    BY <2>5, <2>6, <2>7 DEF SumFunction
<1>9. SumFunction([f \in filings |-> f.withheld])
        = SumFunction([j \in placed |-> payees[j].tax])
  <2> DEFINE g == [f \in filings |-> f.withheld]
             owed == [j \in placed |-> payees[j].tax]
  <2>1. \A s \in S : taxes[s] = SumFunctionOnSet(tax, part[s])
    OBVIOUS
  <2>2. \A s \in S : \A j \in part[s] : tax[j] \in Int
    BY <1>2, <1>5
  <2>3. \A j \in placed : owed[j] = tax[j]
    BY DEF placed
  <2> HIDE DEF taxes, tax, part
  <2>4. \A s \in S : taxes[s] \in Int
    BY <1>5, <2>1, <2>2, SumType
  <2>5. Renames(filing, S, filings, taxes, g)
    <3>1. \A s \in S : filing[s] \in filings /\ g[filing[s]] = taxes[s]
      BY <1>3, <1>7
    <3>2. QED
      BY <1>3, <1>4, <2>4, <3>1 DEF Renames
  <2>6. SumFunctionOnSet(g, filings) = SumFunctionOnSet(taxes, S)
    BY <1>1, <2>5, SumRenamed
  <2>7. SumFunctionOnSet(taxes, S) = SumFunctionOnSet(tax, placed)
    <3>1. \A s \in S : /\ IsFiniteSet(part[s])
                       /\ \A j \in part[s] : tax[j] \in Int
                       /\ taxes[s] = SumFunctionOnSet(tax, part[s])
      BY <1>5, <2>1, <2>2
    <3>2. Parts(S, part, placed, tax, taxes)
      BY <1>6, <3>1 DEF Parts
    <3>3. QED
      BY <1>1, <3>2, SumParts
  <2>8. SumFunctionOnSet(owed, placed) = SumFunctionOnSet(tax, placed)
    <3> HIDE DEF owed
    <3>1. QED
      BY <1>1, <2>3, SumAgree
  <2>9. QED
    BY <2>6, <2>7, <2>8 DEF SumFunction
<1>10. QED
  BY <1>8, <1>9, StatesAreGrouped DEF StateRoutingSound, filings, placed, D

-----------------------------------------------------------------------------

(* What is to be shown of an answer, one question at a time.               *)
FormsChecked ==
  /\ answer.of = "forms" =>
       GenerationSound(answer.asked[1], answer.asked[2], answer.asked[3])
  /\ answer.of = "iris" => SubmissionSound(answer.asked[1], answer.asked[2])
  /\ answer.of = "states" => StateRoutingSound(answer.asked)
  /\ answer.of = "layout" => FieldsApart(answer.asked)

RulesChecked ==
  /\ answer.of = "conversion" =>
       \A i \in DOMAIN answer.result :
         ConversionSound(answer.result[i], answer.asked[2])
  /\ answer.of = "round" =>
       RoundSound(answer.asked[1], answer.asked[2], answer.asked[3],
                  answer.asked[4])
  /\ answer.of = "split" => SplitSound(answer.asked[1], answer.asked[2])
  /\ answer.of = "exercise" =>
       ExerciseSound(answer.asked[1], answer.asked[2], answer.asked[3],
                     answer.asked[4])
  /\ answer.of = "offering" => RegDConsistent(answer.asked)
  /\ answer.of = "fees" =>
       /\ FeesSound(answer.asked[1], answer.asked[2])
       /\ RemainingSound(answer.asked[1], answer.asked[2], 0)
  /\ answer.of = "sale" => Rule144Monotone(answer.asked)

AnswersInv == FormsSound /\ CalculationsSound /\ ProceedsAccounted

LEMMA AnswersAre ==
  FormsChecked /\ RulesChecked /\ ProceedsAccounted => AnswersInv
<1>1. ASSUME FormsChecked PROVE FormsSound
  <2>1. CASE answer.of = "forms"
    BY <1>1, <2>1 DEF FormsChecked, FormsSound
  <2>2. CASE answer.of = "iris"
    BY <1>1, <2>2 DEF FormsChecked, FormsSound
  <2>3. CASE answer.of = "states"
    BY <1>1, <2>3 DEF FormsChecked, FormsSound
  <2>4. CASE answer.of = "layout"
    BY <1>1, <2>4 DEF FormsChecked, FormsSound
  <2>5. CASE answer.of \notin {"forms", "iris", "states", "layout"}
    BY <2>5 DEF FormsSound
  <2>6. QED
    BY <2>1, <2>2, <2>3, <2>4, <2>5
<1>2. ASSUME RulesChecked PROVE CalculationsSound
  <2>1. CASE answer.of = "exercise"
    BY <1>2, <2>1 DEF RulesChecked, CalculationsSound
  <2>2. CASE answer.of = "offering"
    BY <1>2, <2>2 DEF RulesChecked, CalculationsSound
  <2>3. CASE answer.of = "fees"
    BY <1>2, <2>3 DEF RulesChecked, CalculationsSound
  <2>4. CASE answer.of = "sale"
    BY <1>2, <2>4 DEF RulesChecked, CalculationsSound
  <2>5. CASE answer.of = "conversion"
    BY <1>2, <2>5 DEF RulesChecked, CalculationsSound
  <2>6. CASE answer.of = "round"
    BY <1>2, <2>6 DEF RulesChecked, CalculationsSound
  <2>7. CASE answer.of = "split"
    BY <1>2, <2>7 DEF RulesChecked, CalculationsSound
  <2>8. CASE answer.of \notin {"conversion", "round", "split", "exercise",
                               "offering", "fees", "sale"}
    BY <1>2, <2>8 DEF CalculationsSound
  <2>9. QED
    BY <2>1, <2>2, <2>3, <2>4, <2>5, <2>6, <2>7, <2>8
<1>3. QED
  BY <1>1, <1>2 DEF AnswersInv

LEMMA AnswersStart == InitAnswer => AnswersInv
<1>1. SUFFICES ASSUME InitAnswer PROVE AnswersInv
  OBVIOUS
<1>2. answer.of = "nothing"
  BY <1>1 DEF InitAnswer
<1>3. QED
  BY <1>2, AnswersAre DEF FormsChecked, RulesChecked, ProceedsAccounted

LEMMA AnswersStep == AnswersInv /\ [NextAnswer]_answer => AnswersInv'
<1> SUFFICES ASSUME AnswersInv, [NextAnswer]_answer PROVE AnswersInv'
  OBVIOUS
<1>1. (FormsChecked /\ RulesChecked /\ ProceedsAccounted => AnswersInv)'
  BY AnswersAre, PTL
<1>2. CASE UNCHANGED answer
  BY <1>2 DEF AnswersInv, FormsSound, CalculationsSound, ProceedsAccounted
<1>3. SUFFICES ASSUME NextAnswer
               PROVE  (FormsChecked /\ RulesChecked /\ ProceedsAccounted)'
  BY <1>1, <1>2
<1> USE DEF FormsChecked, RulesChecked, ProceedsAccounted
<1>4. CASE Exit
  <2>1. PICK q \in Exits :
          answer' = [of |-> "exit", result |-> Calculate(q[1], Whole(q[2]))]
    BY <1>4 DEF Exit
  <2>2. DistributionSound(Calculate(q[1], Whole(q[2])))
    <3>1. ClassTable(q[1]) /\ q[2] \in Nat
      BY QuestionsAssumption
    <3>2. QED
      BY <3>1, WholeAmount, DistributionIsSound
  <2>3. QED
    BY <2>1, <2>2
<1>5. CASE Conversion
  <2>1. PICK q \in Conversions :
          answer' = [of |-> "conversion", asked |-> q,
                     result |-> ConvertAll(q[1], q[2])]
    BY <1>5 DEF Conversion
  <2>2. \A i \in DOMAIN ConvertAll(q[1], q[2]) :
          ConversionSound(ConvertAll(q[1], q[2])[i], q[2])
    <3>1. q[1] \in Seq(Convertible) /\ q[2] \in Trigger
      BY QuestionsAssumption
    <3>2. QED
      BY <3>1, ConversionsAreSound
  <2>3. QED
    BY <2>1, <2>2
<1>6. CASE Round
  <2>1. PICK q \in Rounds :
          answer' = [of |-> "round", asked |-> q,
                     result |-> ModelRound(q[1], q[2], q[3], q[4])]
    BY <1>6 DEF Round
  <2>2. RoundSound(q[1], q[2], q[3], q[4])
    BY QuestionsAssumption, RoundIsSound
  <2>3. QED
    BY <2>1, <2>2
<1>7. CASE OptionExercise
  <2>1. PICK q \in Exercises : answer' = [of |-> "exercise", asked |-> q]
    BY <1>7 DEF OptionExercise
  <2>2. ExerciseSound(q[1], q[2], q[3], q[4])
    <3>1. /\ q[1] \in Nat /\ q[2] \in Nat /\ q[3] \in Nat \ {0}
          /\ q[4] \in {"cash", "cashless", "net"}
      BY QuestionsAssumption
    <3>2. QED
      BY <3>1, ExerciseRules
  <2>3. QED
    BY <2>1, <2>2
<1>8. CASE StockSplit
  <2>1. PICK q \in Splits :
          answer' = [of |-> "split", asked |-> q, result |-> Split(q[1], q[2])]
    BY <1>8 DEF StockSplit
  <2>2. SplitSound(q[1], q[2])
    <3>1. q[1] \in Nat /\ Rational(q[2])
      BY QuestionsAssumption
    <3>2. QED
      BY <3>1, RationalLowest, SplitIsSound
  <2>3. QED
    BY <2>1, <2>2
<1>9. CASE Offering
  <2>1. PICK f \in Offerings :
          answer' = [of |-> "offering", asked |-> f, found |-> Violations(f),
                     warned |-> Warnings(f)]
    BY <1>9 DEF Offering
  <2>2. f \in Offered
    BY QuestionsAssumption DEF Offered
  <2>3. RegDConsistent(f)
    BY <2>2, RegDRules
  <2>4. QED
    BY <2>1, <2>3
<1>10. CASE StateFees
  <2>1. PICK small \in Sizes, large \in Sizes :
          answer' = [of |-> "fees", asked |-> <<small, large>>]
    BY <1>10 DEF StateFees
  <2>2. small \in Nat /\ large \in Nat
    BY QuestionsAssumption
  <2>3. FeesSound(small, large)
    BY <2>2, FeeRules
  <2>4. RemainingSound(small, large, 0)
    BY <2>2 DEF RemainingSound, Remaining
  <2>5. QED
    BY <2>1, <2>3, <2>4
<1>11. CASE Sale
  <2>1. PICK s \in Sales :
          answer' = [of |-> "sale", asked |-> s, result |-> Eligible144(s)]
    BY <1>11 DEF Sale
  <2>2. Rule144Monotone(s)
    <3>1. s \in [reporting : BOOLEAN, affiliate : BOOLEAN, months : Int,
                 held : Int, weekly : Int, selling : Nat]
      BY QuestionsAssumption
    <3>2. QED
      BY <3>1 DEF Rule144Monotone, Eligible144, VolumeLimit
  <2>3. QED
    BY <2>1, <2>2
<1>12. CASE Forms1099
  <2>1. PICK amounts \in [{"h1", "h2"} -> Amounts1099],
             known \in SUBSET {"h1", "h2"}, unstored \in SUBSET {"h1", "h2"} :
          answer' = [of |-> "forms", asked |-> <<amounts, known, unstored>>]
    BY <1>12 DEF Forms1099
  <2>2. IsFiniteSet(DOMAIN amounts)
    <3>1. DOMAIN amounts = {"h1"} \cup {"h2"}
      OBVIOUS
    <3>2. IsFiniteSet({"h1"} \cup {"h2"})
      BY FS_Singleton, FS_AddElement
    <3>3. QED
      BY <3>1, <3>2
  <2>3. GenerationSound(amounts, known, unstored)
    BY <2>2, EveryHolderHasAForm
  <2>4. QED
    BY <2>1, <2>3
<1>13. CASE IrisForm
  <2>1. PICK fs \in Submissions,
             client \in [tcc : {"K1"}, env : {"production", "aats"}] :
          answer' = [of |-> "iris", asked |-> <<fs, client>>]
    BY <1>13 DEF IrisForm
  <2>2. fs \in IrisRequest
    BY QuestionsAssumption DEF IrisRequest
  <2>3. SubmissionSound(fs, client)
    BY <2>2, FormsGoAsChecked
  <2>4. QED
    BY <2>1, <2>3
<1>14. CASE StateRouting
  <2>1. PICK payees \in PayeeLists :
          answer' = [of |-> "states", asked |-> payees,
                     result |-> RouteToStates(payees, {})]
    BY <1>14 DEF StateRouting
  <2>2. payees \in Seq(RoutedPayee)
    BY QuestionsAssumption DEF RoutedPayee
  <2>3. StateRoutingSound(payees)
    BY <2>2, EveryPayeeIsRouted
  <2>4. QED
    BY <2>1, <2>3
<1>15. CASE FileLayout
  <2>1. PICK codes \in CodeLists :
          answer' = [of |-> "layout", asked |-> codes]
    BY <1>15 DEF FileLayout
  <2>2. FieldsApart(codes)
    BY QuestionsAssumption, ListedApart
  <2>3. QED
    BY <2>1, <2>2
<1>16. QED
  BY <1>3, <1>4, <1>5, <1>6, <1>7, <1>8, <1>9, <1>10, <1>11, <1>12, <1>13,
     <1>14, <1>15 DEF NextAnswer

LEMMA AnswersHold == InitAnswer /\ [][NextAnswer]_answer => []AnswersInv
BY AnswersStart, AnswersStep, PTL

(* Files of any number of payees, forms of any contents and filings in any *)
(* states add up and go where they belong.                                 *)
THEOREM FilingsAreRight == MCSpec => []FilingsAddUp
<1>1. MCSpec => []FileAddsUp /\ []RoutingSound /\ []AnswersInv
  BY EachService, FileHolds, RoutingHolds, AnswersHold, PTL
<1>2. FileAddsUp /\ RoutingSound /\ AnswersInv => FilingsAddUp
  BY DEF FilingsAddUp, AnswersInv
<1>3. QED
  BY <1>1, <1>2, PTL

(* SAFEs and notes of any terms convert at the best price these give,      *)
(* rounds and splits of any size keep every share, an exercise gives away  *)
(* no more than its spread, the compliance check and Form D agree, fees    *)
(* keep within their schedule, and who may sell may sell less or later.    *)
THEOREM CalculationsHold == MCSpec => []CalculationsSound
<1>1. MCSpec => []AnswersInv
  BY EachService, AnswersHold, PTL
<1>2. AnswersInv => CalculationsSound
  BY DEF AnswersInv
<1>3. QED
  BY <1>1, <1>2, PTL

(* Whatever the classes, their terms and the proceeds, the four tiers of   *)
(* an exit account for everything, in order of seniority and within caps.  *)
THEOREM ExitsAccounted == MCSpec => []ProceedsAccounted
<1>1. MCSpec => []AnswersInv
  BY EachService, AnswersHold, PTL
<1>2. AnswersInv => ProceedsAccounted
  BY DEF AnswersInv
<1>3. QED
  BY <1>1, <1>2, PTL
=============================================================================
