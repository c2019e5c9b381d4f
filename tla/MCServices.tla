----------------------------- MODULE MCServices -----------------------------
(***************************************************************************)
(* Instances of the services for TLC.  They share no state: a behaviour    *)
(* exercises one of them, the others stay in their first state.            *)
(***************************************************************************)
EXTENDS Instruments, OptionGrants, Dividends, Calculators, FireFile,
        FormRouting

CONSTANT Desks   \* the services behaviours are about

VARIABLE desk   \* the one this behaviour is about; fixed

MCHoldings == [h \in Holders |-> IF h = "small" THEN 1 ELSE 2]

MCPayments ==
  {[c \in {"1", "4"} |-> IF c = "1" THEN p[1] ELSE p[2]] :
     p \in {<<2, 0>>, <<3, 5>>, <<-1, 0>>, <<60, 0>>}}

MCEntries ==
  [e1 |-> <<"iris", "production">>, e2 |-> <<"fire", "production">>,
   e3 |-> <<"fire", "production">>, e4 |-> <<"fire", "sandbox">>]

Preferred1 ==
  [shares : {1, 3}, investment : {2}, multiple : {1, 2},
   participating : BOOLEAN, cap : {0, 2, 3}, seniority : {1, 2},
   ratio : {0, 2}]

Common1 ==
  [shares : {0, 2}, investment : {0}, multiple : {0},
   participating : {FALSE}, cap : {0}, seniority : {0}, ratio : {0}]

(* Without a cap where none applies, and A the more junior of the two.     *)
MCExits ==
  {[A |-> a, B |-> b, common |-> c] :
     a \in {p \in Preferred1 : p.seniority = 1 /\ p.shares = 1
                              /\ (p.participating \/ p.cap = 0)},
     b \in {p \in Preferred1 : p.participating \/ p.cap = 0},
     c \in Common1}
  \X {0, 1, 3, 4, 5, 8, 20}

Convertibles ==
  [type : {"pre_money", "post_money"}, amount : {100}, cap : {0, 600, 3000},
   discount : {0, 20}, rate : {0}, maturity : {0}] \cup
  [type : {"note"}, amount : {100}, cap : {0, 600}, discount : {0, 20},
   rate : {0, 10}, maturity : {0, 730}]

MCConversions ==
  {<<a, b>> : a, b \in Convertibles}
  \X [price : {0, 7}, preShares : {0, 100}, postShares : {150},
      days : {0, 365}]

MCRounds ==
  ({[h \in {"f1", "f2"} |-> IF h = "f1" THEN m ELSE n] :
      m \in {1, 40}, n \in {0, 60}})
  \X {50, 100, 333} \X {1, 10, 101} \X {0, 10, 50}

MCExercises ==
  {0, 1, 7} \X {0, 2, 5} \X {1, 2, 3, 8} \X {"cash", "cashless", "net"}

MCSplits ==
  {0, 1, 7, 10} \X {Whole(1), Whole(2), Fraction(1, 3), Fraction(3, 2)}

MCOfferings ==
  [exemption : {"506b", "506c", "504"}, nonAccredited : {0, 1, 30, 35, 36},
   offering : {10000, 10001}, sold : {-1, 0, 15, 16}, filed : BOOLEAN,
   yetToOccur : BOOLEAN]

MCSales ==
  [reporting : BOOLEAN, affiliate : BOOLEAN, months : {0, 5, 6, 11, 12},
   held : {0, 1, 100, 101}, weekly : {0, 1, 5}, selling : {0, 1, 2, 6}]

MCSubmissions ==
  [type : FormTypes \cup {"none"}, tcc : {"empty", "K2"},
   kind : {"unset", "original", "corrected"}, original : {"none", "R0"},
   payees : UNION {[1 .. n -> [data : {"DIV", "K"}]] : n \in 0 .. 4}]

MCPayeeLists ==
  UNION {[1 .. n -> [data : {"DIV", "INT"}, tax : {0, 5}, income : {10},
                     state : {"CA", "NY", "TX", "PR", "none"}]] : n \in 0 .. 2}

MCCodeLists == SUBSET {0, 8, 9, 15, 16, 17}

MCInit ==
  /\ host \in Host
  /\ desk \in Desks
  /\ InitInstruments /\ InitGrants /\ InitDividends
  /\ InitAnswer /\ InitFireFile /\ InitRouting
  /\ desk # "instrument" => kind = "safe"
  /\ desk # "dividend" => declaration.type = "cash"
  /\ desk # "routing" => careful
  /\ desk \in {"calculator", "fire_file", "routing"} => host = "serial"

MCNext ==
  /\ \/ /\ desk = "instrument" /\ NextInstruments
        /\ UNCHANGED <<grants, dividends, answer, fireFile, routing>>
     \/ /\ desk = "grant" /\ NextGrants
        /\ UNCHANGED <<instruments, dividends, answer, fireFile, routing>>
     \/ /\ desk = "dividend" /\ NextDividends
        /\ UNCHANGED <<instruments, grants, answer, fireFile, routing>>
     \/ /\ desk = "calculator" /\ NextAnswer
        /\ UNCHANGED <<host, instruments, grants, dividends, fireFile,
                       routing>>
     \/ /\ desk = "fire_file" /\ NextFireFile
        /\ UNCHANGED <<host, instruments, grants, dividends, answer, routing>>
     \/ /\ desk = "routing" /\ NextRouting
        /\ UNCHANGED <<host, instruments, grants, dividends, answer, fireFile>>
  /\ UNCHANGED desk

MCSpec ==
  MCInit /\ [][MCNext]_<<desk, host, instruments, grants, dividends, answer,
                         fireFile, routing>>

TypeOK ==
  host \in Host /\ InstrumentsTyped /\ GrantsTyped /\ DividendsTyped

(* What leaves for the tax authorities adds up and is addressed right: the *)
(* records of a file, the fields in them, the forms made and submitted,    *)
(* where and under which code they go.                                     *)
FilingsAddUp == FileAddsUp /\ FormsSound /\ RoutingSound
=============================================================================
