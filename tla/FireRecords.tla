---------------------------- MODULE FireRecords ----------------------------
(***************************************************************************)
(* pkg/tax/fire: which columns of a 750-character record each field takes. *)
(* Only where fields lie is modelled; a later one overwrites an earlier    *)
(* one it meets.                                                           *)
(***************************************************************************)
EXTENDS Integers, FiniteSets

RecordLen == 750

(* amountColRange and amountTotalsRange: code 0 is '1', code 17 is 'I'.    *)
AmountColumns(code) == <<55 + 12 * code, 66 + 12 * code>>
TotalColumns(code) == <<16 + 18 * code, 33 + 18 * code>>

AmountCodes == 0 .. 17

TransmitterRecord ==
  {<<1, 1>>, <<2, 5>>, <<6, 6>>, <<7, 15>>, <<16, 20>>, <<28, 28>>,
   <<29, 29>>, <<30, 69>>, <<70, 109>>, <<110, 149>>, <<150, 189>>,
   <<190, 229>>, <<230, 269>>, <<270, 271>>, <<272, 280>>, <<296, 303>>,
   <<304, 343>>, <<344, 358>>, <<359, 408>>, <<500, 507>>, <<519, 519>>,
   <<520, 559>>, <<560, 599>>, <<600, 639>>, <<640, 641>>, <<642, 650>>,
   <<651, 690>>, <<691, 705>>, <<740, 740>>}

PayerRecord ==
  {<<1, 1>>, <<2, 5>>, <<6, 6>>, <<12, 20>>, <<21, 24>>, <<25, 25>>,
   <<26, 27>>, <<28, 45>>, <<52, 91>>, <<92, 131>>, <<132, 171>>,
   <<172, 211>>, <<212, 213>>, <<214, 222>>, <<223, 237>>, <<500, 507>>}

(* Without the fields a caller places itself.                              *)
PayeeRecord(codes) ==
  {<<1, 1>>, <<2, 5>>, <<6, 6>>, <<7, 10>>, <<11, 11>>, <<12, 20>>,
   <<21, 40>>, <<41, 44>>, <<247, 247>>, <<248, 287>>, <<288, 327>>,
   <<367, 406>>, <<407, 446>>, <<447, 448>>, <<449, 457>>, <<500, 507>>,
   <<545, 545>>, <<663, 722>>, <<723, 734>>, <<735, 746>>, <<747, 748>>}
  \cup {AmountColumns(code) : code \in codes}

EndOfPayerRecord ==
  {<<1, 1>>, <<2, 9>>, <<500, 507>>}
  \cup {TotalColumns(code) : code \in AmountCodes}

StateTotalsRecord ==
  EndOfPayerRecord \cup {<<707, 724>>, <<725, 742>>, <<747, 748>>}

EndOfFileRecord == {<<1, 1>>, <<2, 9>>, <<22, 29>>, <<500, 507>>}

-----------------------------------------------------------------------------

Overlap(f, g) == f # g /\ f[1] <= g[2] /\ g[1] <= f[2]

Apart(record) ==
  \A f \in record : 1 <= f[1] /\ f[1] <= f[2] /\ f[2] <= RecordLen
                    /\ \A g \in record : ~Overlap(f, g)

(* No field of a record overwrites another, with one exception: a payee    *)
(* record that lists the codes 'H' or 'I' has those amounts under the      *)
(* foreign indicator and the payee's name.                                 *)
FieldsApart(codes) ==
  /\ \A record \in {TransmitterRecord, PayerRecord, EndOfPayerRecord,
                    StateTotalsRecord, EndOfFileRecord} : Apart(record)
  /\ Apart(PayeeRecord(codes)) <=> codes \cap {16, 17} = {}
=============================================================================
