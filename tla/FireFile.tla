------------------------------ MODULE FireFile ------------------------------
(***************************************************************************)
(* pkg/tax/fire: a file of 1099 records and Marshal, which fills sequence  *)
(* numbers, counts and totals into the caller's file, each only while it   *)
(* is zero (a map: while it is nil), and renders what the file then says.  *)
(* The host adds payees and marshals, in any order and repeatedly.         *)
(***************************************************************************)
EXTENDS FireRecords, Sequences, Functions

CONSTANTS
  Codes,        \* amount codes payees have amounts under
  Listed,       \* those in the AmountCodes of the payer record
  Payments,     \* the amounts of a payee, in cents
  AmountLimit,  \* 10^12: an amount has 12 columns
  TotalLimit,   \* 10^18: a closing total has 18
  MaxPayees     \* bound on the payees of a group

ASSUME FireAssumption ==
  /\ Listed \subseteq Codes
  /\ Payments \subseteq [Codes -> Int]
  /\ AmountLimit \in Nat \ {0}
  /\ TotalLimit \in Nat \ {0}
  /\ MaxPayees \in Nat

VARIABLES
  file,    \* the caller's FIREFile
  wire,    \* the records Marshal rendered last, a sequence
  edited   \* history: payees were added since the file was first marshalled

fireFile == <<file, wire, edited>>

Unfilled == <<>>   \* AmountTotals is nil

NewGroup ==
  [payer |-> 0, payees |-> <<>>, closing |-> 0, count |-> 0,
   totals |-> Unfilled]

Groups == 1 .. 2

(* transmitter, payer, closing, end: SequenceNum of the T, A, C, F record. *)
NewFile ==
  [transmitter |-> 0, total |-> 0, group |-> [g \in Groups |-> NewGroup],
   end |-> 0, payers |-> 0, payees |-> 0]

InitFireFile == file = NewFile /\ wire = <<>> /\ edited = FALSE

AddPayee(g) ==
  /\ Len(file.group[g].payees) < MaxPayees
  /\ \E amounts \in Payments :
       file' = [file EXCEPT !.group[g].payees =
                  Append(@, [seq |-> 0, amounts |-> amounts])]
  /\ edited' = (wire # <<>>)
  /\ UNCHANGED wire

-----------------------------------------------------------------------------

Filled(old, new) == IF old = 0 THEN new ELSE old

Payees(g) == Len(file.group[g].payees)

AllPayees == Payees(1) + Payees(2)

(* The running number of a group's A record.                               *)
PayerNumber(g) == IF g = 1 THEN 2 ELSE Payees(1) + 4

(* What the B records of a group hold under a code.                        *)
GroupTotal(g, c) ==
  SumFunction([j \in DOMAIN file.group[g].payees |->
                 file.group[g].payees[j].amounts[c]])

(* Mutant: the totals are not started anew for each group.                 *)
TotalsRunning(g) ==
  [c \in Codes |-> GroupTotal(g, c) + IF g = 1 THEN 0 ELSE GroupTotal(1, c)]

Totals(g) == [c \in Codes |-> GroupTotal(g, c)]

FilledGroup(g) ==
  LET old == file.group[g]
      number == PayerNumber(g) IN
  [payer |-> Filled(old.payer, number),
   payees |-> [j \in DOMAIN old.payees |->
                 [old.payees[j] EXCEPT !.seq = Filled(@, number + j)]],
   closing |-> Filled(old.closing, number + Payees(g) + 1),
   count |-> Filled(old.count, Payees(g)),
   totals |-> IF old.totals = Unfilled THEN Totals(g) ELSE old.totals]

FilledFile ==
  [transmitter |-> Filled(file.transmitter, 1),
   total |-> Filled(file.total, AllPayees),
   group |-> [g \in Groups |-> FilledGroup(g)],
   end |-> Filled(file.end, AllPayees + 6),
   payers |-> Filled(file.payers, Cardinality(Groups)),
   payees |-> Filled(file.payees, AllPayees)]

(* putCents writes the last digits that fit, and nothing of the sign.      *)
Shown(cents, limit) ==
  LET digits == IF cents < 0 THEN -cents ELSE cents IN
  IF digits < limit THEN digits ELSE digits % limit

(* The columns of a B record are those its payer record lists.             *)
Columns(amounts) == [c \in Listed |-> Shown(amounts[c], AmountLimit)]

GroupRecords(group) ==
  <<[type |-> "A", seq |-> group.payer]>> \o
  [j \in DOMAIN group.payees |->
     [type |-> "B", seq |-> group.payees[j].seq,
      amounts |-> Columns(group.payees[j].amounts)]] \o
  <<[type |-> "C", seq |-> group.closing, count |-> group.count,
     totals |-> [c \in Codes |-> Shown(group.totals[c], TotalLimit)]]>>

Records(f) ==
  <<[type |-> "T", seq |-> f.transmitter, count |-> f.total]>>
  \o GroupRecords(f.group[1]) \o GroupRecords(f.group[2])
  \o <<[type |-> "F", seq |-> f.end, payers |-> f.payers,
        count |-> f.payees]>>

Marshal ==
  /\ file' = FilledFile
  /\ wire' = Records(file')
  /\ UNCHANGED edited

NextFireFile == Marshal \/ \E g \in Groups : AddPayee(g)

-----------------------------------------------------------------------------

Of(type) == {i \in DOMAIN wire : wire[i].type = type}

(* The B records between a C record and the A record before it.            *)
Block(i) ==
  {j \in Of("B") : j < i /\ \A k \in Of("C") : k < i => k < j}

(* Every amount and every total can be written in its columns.             *)
Fits ==
  \A g \in Groups : \A c \in Codes :
    /\ \A j \in DOMAIN file.group[g].payees :
         file.group[g].payees[j].amounts[c] \in 0 .. AmountLimit - 1
    /\ GroupTotal(g, c) < TotalLimit

(* A file that was complete when it was first marshalled is rendered with  *)
(* records numbered in order, counts of the records there are and, unless  *)
(* an amount is negative or something is too long for its columns, closing *)
(* totals that are the sums of the columns before them; and it is rendered *)
(* the same however often it is marshalled or sent again.                  *)
FileAddsUp ==
  wire # <<>> /\ ~edited =>
    /\ wire = Records(FilledFile)
    /\ \A i \in DOMAIN wire : wire[i].seq = i
    /\ \A i \in Of("T") \cup Of("F") : wire[i].count = Cardinality(Of("B"))
    /\ \A i \in Of("C") :
         /\ wire[i].count = Cardinality(Block(i))
         /\ \A c \in Listed : Fits => wire[i].totals[c] =
              SumFunction([j \in Block(i) |-> wire[j].amounts[c]])
=============================================================================
