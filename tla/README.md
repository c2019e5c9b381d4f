# captable: a TLA+ verification project

`luxfi/captable` is a Go library of some thirty packages under `src/pkg`: cap
tables, securities and their transfers, the instruments that turn into shares,
and the clients that file forms with the SEC, the IRS and the states. A
package that keeps state has a `Service` over a `Repository` interface that the
host application implements. The library starts no goroutines of its own and locks only its two registries (of TCCs and of state adapters): it is called from
the host's goroutines, so its correctness under concurrency is decided by which
repository and HTTP calls each operation makes, in which order, and by what it
does with records it read earlier.

This directory models that behaviour, checks it with TLC and proves what
matters most with TLAPS.

- [1. Inventory](#1-inventory)
- [2. Plan](#2-plan)
- [3. Modules and the code they model](#3-modules-and-the-code-they-model)
- [4. Runs](#4-runs)
- [5. Proofs](#5-proofs)
- [6. What disagrees with the code's own words](#6-what-disagrees-with-the-codes-own-words)
- [7. What is not modelled](#7-what-is-not-modelled)

To repeat the results: `tlc -config MCCapTableConcurrent.cfg MCCapTable` (and
so on for each run of `PROJECT.json`), `tlapm CapTableProofs.tla` (and the
other `*Proofs` modules).

## 1. Inventory

State is what a component keeps, in a repository or in memory. Every
`Repository` is injected; the reference for its behaviour are the in-memory
repositories of the tests, whose methods are atomic under a mutex and store and
return copies.

### Ownership

| component | state | operations that change it | what makes it hard | what makes it correct |
|---|---|---|---|---|
| `captable` | companies, share classes with int64 counters, entries | CreateCompany, CreateShareClass, IssueShares; GetSummary reads twice | IssueShares reads a class, stores an entry and writes the whole class back in three calls | no class enters more than it authorizes; counters agree with entries; a summary is consistent |
| `securities` | offerings with status, amount raised and investor count; an append-only ledger | CreateSecurity, Issue, Transfer, Cancel, Convert, UpdateSecurity | Issue appends and then writes back the record it read; UpdateSecurity stores any copy | counters agree with the ledger; closing an offering stops what is not under way |
| `transfer` | restrictions | CreateRestriction, WaiveRestriction; CheckTransfer and CheckRule144 read | the check and the transfer it allows are calls of two packages, with time and new rules in between | no transfer a restriction in force forbids |
| `stakeholder`, `vesting`, `valuation` | single records | create and update | little: one repository call per operation | validation |

### Instruments and life cycles

| component | state | operations that change it | what makes it hard | what makes it correct |
|---|---|---|---|---|
| `exercise` | results, through a grant repository | Exercise, EarlyExercise | the result is stored before the grant is moved on | options exercised never exceed the grant |
| `warrant` | warrants with a remaining quantity | Create, Exercise, Update, Cancel | Exercise writes back the quantity it read | shares issued never exceed the warrant |
| `safe`, `note` | instruments with a status | Create, Update, MarkConverted, Cancel | every change is read, check, write | a converted instrument stays converted |
| `dividend` | declarations, one distribution per holder | Declare, ProcessRecordDate, MarkPaid | distributions are stored one by one before the declaration closes | each holder is paid once |
| `settlement` | trades, webhook events | InitiateTrade, ApproveTrade, ExecuteTrade | check and write are separate | a trade is executed once, after approval |
| `corporate` | actions | ProposeAction, ApproveAction, ExecuteAction, CancelAction | the same | an executed action is not cancelled |
| `kyc`, `voting`, `omnisub`, `document` | submissions, votes, sub-accounts and orders, documents and audit entries | Approve, Reject, CastVote, CloseSubAccount, SubmitOrder, MarkExecuted, ... | check against a status that can change before the write | one decision; no vote on a closed proposal; no order on a closed account |
| `disclosure`, `comms` | single records | Create; Deliver, Acknowledge, Send handed to the repository | little | validation |

### Filing

| component | state | operations that change it | what makes it hard | what makes it correct |
|---|---|---|---|---|
| `tax/iris` | a bearer token and its expiry, shared and unlocked; the forms IRIS has on file | Authenticate, SetJWT, SubmitForm, CorrectSubmission; two status queries | POSTs are retried after lost replies; 401 leads to a new login inside the loop | a form acknowledged is on file; duplicates are bounded and explained; every call returns |
| `tax/fire` | none between calls | SubmitFile, Marshal | the multipart upload is retried; Marshal fills totals in the caller's file | as above; totals of the records agree with the payees |
| `tax`, `tax/cfsf`, `tax/tcc` | the TCC registry under a lock | Submit, RouteToStates, Register, Unregister | choice of system by year and TCC; an entry aliased with its caller | every form goes to one system |
| `compliance` | Form D and blue-sky records | CreateFormD, FileFormD, AmendFormD, CreateBlueSkyFiling, FileBlueSkyNotice | load, file with a remote service, store | a filing made is recorded; nothing is filed twice |
| `edgar` | none between calls | FileFormD, AmendFormD | retry after a lost reply | as for IRIS |
| `bluesky` | adapters per state, the EFD token that all EFD states share | FileNoticeOfSale, RenewNotice | shared token, retry after a lost reply | as for IRIS |

### Pure algorithms

`waterfall`, `conversion`, `scenario`, CalculateSplit of `corporate`,
CheckRule144 of `transfer`, CheckRegDCompliance of `compliance`, the fee
schedule of `bluesky` and the routing of `tax` and `tax/cfsf` compute from their
arguments and keep nothing. What makes them correct are conservation (tiers
never pay out more than the proceeds), monotonicity and agreement with a
reference definition.

### Interaction

Packages call each other in few places: `compliance` calls a Form D filer
and a blue-sky filer through interfaces it defines, meant for `edgar` and
`bluesky`; `tax` routes forms to `tax/iris` and `tax/fire` by the TCC registry;
`tax/cfsf` wraps forms for IRIS. Elsewhere the
host composes packages: CheckTransfer before Transfer is the case that is
modelled here.

`PROJECT.json` lists the hazards behind the "hard" column line by line, with
the properties that would catch each, or the reason none does yet.

## 2. Plan

Modules, most important behaviour first. A module that theorems are about uses
no RECURSIVE operator; its proofs live in a module of their own.

| step | modules | status |
|---|---|---|
| 1 | `ShareRegister` (abstract) and `CapTable`: issuance, with the refinement between them | done, proved |
| 2 | `Securities`: offerings, ledger, counters, life cycle | done, proved |
| 3 | `Restrictions` and `GatedTransfers`, which composes them with `Securities` | done, proved |
| 4 | `RetryPolicy` and `IrisClient`: one client shared by submissions | done, safety proved |
| 5 | `FilingRoutes`, `FilingClient`, `Compliance`: Form D, state notices and 1099 files, from the stored record through the adapters to the agency and back | done, safety proved |
| 6 | `LifeCycle` (abstract) and `Instruments`: the services that keep one record per instrument, with the refinement between them | done, proved |
| 7 | `OptionGrants`, `Dividends`: operations of several repository calls | done, proved |
| 8 | `Fractions`, `Waterfall`, `Pricing`, `Rules`, `TaxForms`, asked through `Calculators`: pure algorithms over bounded inputs | done, proved for every input |
| 9 | `FireRecords`, `FireFile`, `FormRouting`: making tax files and sending forms to the right place | done, proved |
| 10 | what is left: K records and the default of PaymentYear in `FireFile`, GetSubmissionStatus and ListSubmissions of `tax/iris` | not planned: see section 7 |

Bounds stay small: two or three callers, one or two records, a retry budget of one.

## 3. Modules and the code they model

| module | models | state | actions and the code |
|---|---|---|---|
| `ShareRegister` | what a cap table promises | `authorized`, `entered` | `Open`, `Issue`: indivisible |
| `CapTable` | `pkg/captable` | `companies`, `class`, `entries`: the repository; `calls`: IssueShares calls between their repository calls, with the copy each read; `summary`: a GetSummary call | `CreateCompany`, `CreateShareClass`; `IssueLoadClass` (GetShareClass and the checks), `IssueCreateEntry` / `IssueEntryExists` (CreateEntry), `IssueUpdateClass` (UpdateShareClass), `IssueFails` (any error, or the process stops); `GetSummary` in two reads |
| `Securities` | `pkg/securities` | `security`, `ledger`: the repository; `calls`: calls in flight with their copy; `host`: how the service is used; `issued`, `late`: history | `CreateSecurity` (over what is there, if anything); `BeginIssue`, `BeginMovement` (Transfer, Cancel, Convert), `BeginEdit` (an operator's read before UpdateSecurity); `AppendLedger`; `UpdateSecurity`; `Fails` |
| `Restrictions` | `pkg/transfer` | `restriction`, `now` | `CreateRestriction`, `WaiveRestriction`, `Tick`; the operator `CheckTransfer` |
| `GatedTransfers` | a host that uses both | the above and `cleared`: transfers CheckTransfer has allowed | `CheckFirst`, then `TransferCleared`; `StartUnchecked` for everything else a host may call; `ChangeRules`, `Clock` |
| `RetryPolicy` | how the HTTP clients class replies | none | `Transient`, `LastAttempt` |
| `IrisClient` | `pkg/tax/iris` SubmitForm | `jwt`, `expiry`: the client; `call`: each submission in ensureAuthenticated, Validate and doRequest; `filed`: what IRIS holds | `EnsureHeld`, `EnsureLogin`, `EnsureMissing`, `EnsureExpired`, `ClearToken`, `LoginDone`, `LoginFails`; `Validate`; `Post` (doOnce), `Settle`, `Backoff`, `Wake`, `Cancelled`, `Relogin`, `ReloginDone`; `SetJWT`, `ExpiryNears`; `RevokeHeld`, `RevokeUndelivered` (the service) |
| `FilingRoutes` | which adapter serves an operation, and what the answers mean | none | `Adapter`, `Channel`; `EdgarResult`, `NoticeResult`, `FireResult`, `LookupResult`, `LoopError` |
| `FilingClient` | one call of `pkg/edgar`, `pkg/bluesky` or `pkg/tax/fire` | `token`, `expiry`: the EFD adapter; `call`: each call between its checks and its return; `filed`: copies the agency holds | `Unsupported`, `Invalid`, `NotImplemented`, `Checked`; `Authenticate`, `LoginDone`; `Post` (one request), `Settle` and `Wake` (doWithRetry, sleepBackoff); `ExpiryNears`, `ExpiryPasses`, `Revoke` (clock and service) |
| `Compliance` | `pkg/compliance` over these adapters | `form`, `notice`: the repository; `loaded`: the copy each call works on; `host` | `Begin` (load), `Save` (`FileFormD`, `AmendFormD`, `FileBlueSkyNotice`, or the write fails) |
| `LifeCycle` | what a stored instrument promises | `status` | `Create`, `Advance` |
| `Hosts` | how a host calls the services below | `host` | |
| `Instruments` | `pkg/safe`, `note`, `warrant`, `corporate`, `kyc`, `settlement`, `omnisub`, `document`, `voting` | `record`: the repository; `request`: calls between read and write, with their copy; `lockup` | `CreateInstrument`, `ReadInstrument` (read and check), `WriteInstrument`; what each operation makes of a record is an operator named after it |
| `OptionGrants` | `pkg/exercise` | `exercised`: the grant provider; `result`: the repository; `exercise`: calls | `CheckGrant`, `StoreResult`, `UpdateExercised`, `EarlyExercise` |
| `Dividends` | `pkg/dividend` | `declaration`, `distribution`: the repository; `processing`: calls | `Declare`, `ReadDeclaration`, `Distribute`, `CloseRecord` (ProcessRecordDate), `MarkPaid` |
| `Fractions` | exact arithmetic for what the code keeps in float64 | none | |
| `Waterfall` | `pkg/waterfall` Calculate, tier by tier | none | `Calculate` |
| `Pricing` | `pkg/conversion`, `pkg/scenario`, CalculateSplit, the shares and tax of exercises | none | `Convert`, `ConvertAll`, `ModelRound`, `ModelExit`, `Split`, `NetShares`, `WarrantShares` |
| `Rules` | CheckRegDCompliance, validateFormD, the fee schedule, CheckRule144 | none | `Violations`, `FormDRefused`, `CalculateFee`, `Eligible144` |
| `TaxForms` | Generate1099DIV, what IRIS SubmitForm and CorrectSubmission accept and write, `pkg/tax/cfsf` | none | `Generate1099DIV`, `Submitted`, `Corrected`, `RouteToStates` |
| `Calculators` | one question to one of the above | `answer` | an action for each |
| `FireRecords` | the columns of FIRE records | none | |
| `FireFile` | Marshal of `pkg/tax/fire` on a file the host keeps | `file`, `wire` | `AddPayee`, `Marshal` |
| `FormRouting` | SubmitForm of `pkg/tax`, the registry of `pkg/tax/tcc` | `code`, `registry`, `sent` | `Register`, `Unregister`, `EditEntry` (the host), `SubmitForm` |
| `MC*` | instances for TLC; `MCServices` puts the services of steps 6 to 9 side by side | | symmetry sets, the questions and requests that are asked |
| `*Proofs`, `SumTheorems` | theorems | | see section 5 |

Abstractions shared by all of them:

- Identifiers are model values, and a record keeps the fields that guards read
  and properties relate. Timestamps, names, descriptions and logging are left out.
- A call that fails a check leaves no trace, so it is no action.
- Values are small numbers. The counters of `CapTable` wrap as `int64` does,
  at a width `MaxInt` that the configuration sets. Amounts of `Securities` are
  `float64` in the code; the model sums whole numbers and says nothing of rounding.
- `entered`, `issued`, `late`, `lost` and `edited` are history variables: no
  other variable depends on them.
- In `IrisClient` the clock appears as the three states of `jwtExpiry` that
  ensureAuthenticated tells apart. A token torn between two unsynchronised
  writers is one that IRIS does not honour; any outcome it has, a revoked
  token has too.
- The adapters of `FilingClient` have four copies of one retry loop; the module
  has it once and `FilingRoutes` says where they differ. The answers of an
  agency are classes: how the code under test tells them apart and no finer.
- A token read while another goroutine stores one may be neither; in
  `FilingClient` that is `"torn"`, which no service honours.
- In `FilingClient` a filing is its call: the agency holds copies of it, its
  record names it. States stand for their kind (served by EFD alone, by a
  portal with or without renewals, by none).
- The services of `MCServices` share no state, so a behaviour exercises one.
- Amounts and prices of the calculators are exact fractions where the code has
  float64; the rounding of last bits is left out.
- A host uses an identifier for one share class or restriction. The repository
  of the `captable` tests rejects one that is taken, those of `securities` and
  `transfer` overwrite. `Securities` lets a host create a security over another,
  whenever and with whatever status, unless `host.unique`. Identifiers of
  entries are reused in `CapTable`: that is how a host repeats an issuance that
  failed.
- `issued` keeps, of a security created several times, the largest amount any
  creation brought along as its opening.

## 4. Runs

| run | result | what it shows |
|---|---|---|
| `captable_concurrent` | pass | Two callers overlap freely, calls fail at every point, identifiers are reused and counters wrap. Counters never run ahead of entries (`IssuedBacked`), a write of a stale copy never lifts a counter past the authorized size (`IssuedGrowsWithinAuthorized`), a summary reports no share that its own listing lacks (`SummaryBacked`), entries agree with their class (`EntriesConsistent`). |
| `captable_exclusive` | pass | One issuance at a time, no failures: counters are exact, no class is over-issued, a repeated issuance enters nothing twice, and IssueShares implements `ShareRegister`. |
| `captable_race` | violation | The same promise with two overlapping issuances: both pass the capacity check. |
| `captable_overflow` | violation | The same promise with one caller and an amount near the top of int64: the check wraps. |
| `securities` | pass | Overlapping, failing and serial hosts in one run. Operators store any status, and securities are created over others while calls run. Counters never run ahead of the ledger (`CountersBacked`); issue entries are exactly the issuances (`IssuedIsLedger`); closing an offering stops all issuances but those under way, which are recorded all the same and store it open again (`OnlyLateIssuances`). With a serial and reliable host that gives identifiers once the counters equal the ledger between calls (`CountersExact`); with a serial host nothing is issued on a closed offering (`SealedOffering`). |
| `gated_transfers` | pass | A serial host that calls CheckTransfer before Transfer records no checked transfer against a restriction in force, while restrictions come, are waived and expire. |
| `restriction_check` | violation | RestrictionCheck of a transfer has no effect. |
| `iris_submit` | pass | Two submissions share a client that is revoked, replaced and cleared under them. Copies on file beyond the acknowledged one are lost replies; a call leaves at most `MaxRetries + 1`; with credentials a 401 ends a call on its last attempt only; every call returns. |
| `iris_reauth` | violation | A call re-authenticates on every 401. |
| `filing` | pass | Two calls, and with EDGAR a third of a host that asks the record first, file Form D, state notices or 1099 files while answers are lost, throttled, unreadable or silent, tokens expire and are revoked, writes fail, and calls overlap or not. Every copy the agency holds beyond an acknowledged one is one whose answer said nothing (`CopiesAccounted`); a record in force names a filing the agency holds (`RecordBacked`); a host that asks the record first files twice only after a mishap it could see, a status FileFormD does not know, or a suspended amendment (`DuplicatesExplained`); the minute EFD tokens are replaced ahead of their expiry covers the first attempt (`UnauthorizedExplained`); with one call at a time a record loses no date and no note (`NothingForgotten`); every call returns: there is always a later time at which none is under way (`CallsReturn`). |
| `services` | pass | Overlapping, failing and serial calls of the record-keeping services: what a serial host is promised is the life cycle (`ImplementsLifeCycle`), exact warrants (`ExercisesCovered`), one execution per trade (`TradesCleared`), votes while open (`VotesWhileOpen`), grants overdrawn only after a reported failure (`OptionsCovered`), one payment per holder (`PaidOnce`); whatever overlaps, no trade in lockup is executed, no warrant record exceeds its quantity, exercised options have results, and a processed declaration has all its distributions (`DistributionsComplete`). For the calculators: where the proceeds of an exit go (`ProceedsAccounted`), conversions, rounds, splits, exercises, Regulation D, fees and Rule 144 (`CalculationsSound`); for tax files: sequence numbers, counts, totals, columns, forms and their routing (`FilingsAddUp`). |
| `exit_overpaid` | violation | Payouts of an exit exceed its proceeds. |

All of them say `CHECK_DEADLOCK FALSE`: a library that nobody calls stops, and the
bounds end every behaviour.

**Bounds, and why they are enough.** Two callers are enough (a third in `services`, where a stale write of one can undo what two others did) to make one call's
copy stale; a third would only repeat it. Two entries fit
beside an opening in a class of size 3, so that the sum of both exceeds the
class while each alone fits; `MaxInt = 4` makes sums of legal amounts wrap.
`captable_exclusive` has a second class and company so that mixing them up
would show. `MaxLedger` (2 for `Securities`, 1 for `GatedTransfers`) bounds the
entries at which new calls stop starting, not those in flight, so the ledger
grows one entry further when calls overlap; a value of 2 tells the amount from
the count. Of the statuses that are given (`Statuses`) one that issuances are allowed in and
one that refuses them are enough, with the `draft` of a security created without
a status; in `GatedTransfers` transfers look at no status, and `closed` is enough. One restriction in a time of two instants is created, binds, is waived
and expires around a check. `MaxRetries = 1` gives a first, a last and no other
attempt: a loop that ends too late or counts an attempt twice shows. In
`filing` two calls are enough for a record to be filed twice; what an amendment
between two filings does to the record takes a third (`Third`), which only the
host that asks the record makes, with EDGAR. The four states are one of each kind. A warrant for 3 shares and exercises of 1 or 2 leave
a remainder that one more exercise fits and two do not; the same holds for 3
options. Two holders with shares and one below a stock dividend's ratio let a
distribution fail before, between and after the others. The questions put to
the calculators are chosen around their limits: caps below, at and above the
preference, proceeds from nothing to more than every cap, investors and days on
both sides of each legal bound, fees at both ends of each schedule. Two groups of
at most two payees let running numbers and totals of one group spill into the
next. `AmountLimit` and `TotalLimit` are 10 and 100 for the 10^12 and 10^18 of
the columns, so that amounts and totals occur that do not fit. `MaxPayeesPerSubmission` is 3 for 100,000. Symmetry is
used for callers, entry identifiers and stakeholders, in runs of safety properties only.

**The host.** Three properties of `CapTable` (`CountersExact`,
`EntriesWithinAuthorized`, `ImplementsRegister`) and three of the securities
modules (`CountersExact`, `SealedOffering`, `GateRespected`) are conditional on a
host that makes one call at a time, and the exact ones on a repository that does
not fail; `CountersExact` of `Securities` also on a host that gives an identifier to
one security. The condition is in the
configuration of `CapTable` (`Exclusive`, `Faults`) and in the variable `host` of
`Securities`, chosen by `Init`. It is what the package leaves to its host:
nothing in the service prevents the overlap. What holds under any overlap is in
`CountersBacked`, `IssuedIsLedger` and `OnlyLateIssuances`.

In `Compliance` the variable `host` also has `"careful"`: serial, and asking the
stored record whether the filing is open, which the service does not do itself.
In `Instruments`, `OptionGrants` and `Dividends` every promise that a whole
record is not lost needs `"serial"`; the comment on each property says what
overlapping calls do instead. A serial host of `Instruments` uses Update to
activate drafts and one of `Dividends` pays after the record date is processed;
`careful` of `FormRouting` leaves alone the entries it has registered.

**Fairness.** `IrisClient` and `Compliance` have a liveness property. `FairSpec` (and `MCSpec` of `MCCompliance`, through `Fairness`) asks weak
fairness of the steps of each started submission or call. They are a goroutine's own
steps: every HTTP request ends by a reply or by the client's timeout (30
seconds by default), every sleep by its timer or its context. Nothing is asked of IRIS
or the other agencies, of the clock, of SetJWT or of a host that would start a
submission, and none of them can keep a step disabled.

**Mutants.** Each property of a passing run has a mutant in `PROJECT.json`: an
operator beside the one it replaces, marked "Mutant" in its comment, that TLC
finds to violate the property.

## 5. Proofs

The theorems hold for every value of the constants, which the named assumptions
only bound to their ranges (`CapTableAssumption`, `SecuritiesAssumption`,
`GatedAssumption`, `MaxRetriesAssumption`, `NoticesInAssumption`,
`FireAssumption`, `EntriesAssumption`, `InstrumentsAssumption`,
`DividendsAssumption`, `OptionGrantsAssumption`, `QuestionsAssumption`), and for
behaviours of every length. `QuestionsAssumption` types the questions put to the
calculators as the code types its arguments. What else it asks the code checks:
proceeds are not negative, what converts and what a round invests are above
zero, a pool is below 100 percent, a split's ratio, a market value and an
offering noticed are above zero. The code takes for granted that no other amount
is negative; of a round's holders, that none has the name the new investor or
the pool gets.

| module | theorem | property |
|---|---|---|
| `CapTableProofs` | `TypeCorrect`, `IssuedStaysBacked`, `SummariesBacked`, `EntriesStayConsistent` | invariants of `Spec`, whatever overlaps, fails or wraps |
| | `NothingEnteredTwice` | `EnteredOnce`, under the same conditions |
| | `IssuedStaysAuthorized` | the action property, under the same conditions |
| | `CarefulHostCounts`, `CarefulHostAuthorized`, `CarefulHostRefines` | with `CarefulHost`: counters exact, no over-issue, refinement of `ShareRegister` |
| `SecuritiesProofs` | `TypeCorrect`, `CountersStayBacked`, `IssuancesAreInTheLedger` | invariants of `Spec`, whatever overlaps or fails |
| | `ClosingStopsTheRest` | the action property `OnlyLateIssuances`, under the same conditions |
| | `SerialHostCounts`, `ClosedOfferingsIssueNothing` | the properties of a serial host |
| | `GatedTypeCorrect`, `ChecksHold` | of `GatedSpec`: types, and the gate of a serial host |
| | `GatedImplementsSecurities` | the composition implements `Securities`, so the theorems above hold of it |
| `IrisClientProofs` | `TypeCorrect`, `CopiesStayAccounted`, `CopiesStayBounded`, `UnauthorizedComesLast` | for any number of submissions and any retry budget |
| `ComplianceProofs` | `FilingTypes`, `CopiesAreAccounted`, `RecordIsBacked` | invariants of `Spec`, whatever overlaps, is lost or fails |
| | `UnauthorizedIsExplained`, `NothingIsForgotten` | the properties of one call at a time, an invariant and an action property |
| | `DuplicatesAreExplained` | the property of a host that asks the record first |
| `ServicesProofs` | `InstrumentsTypes` | types of `InstrumentsSpec` |
| | `WarrantsCovered`, `TradesAreCleared` | what every host is promised, and what a serial one is on top |
| | `VotesAreOpen`, `LifeCycleImplemented` | a serial host: an action property, and the refinement of `LifeCycle` |
| | `GrantsTypes`, `ResultsAnswered` | invariants of `GrantsSpec`, whatever overlaps or fails |
| | `GrantCovered` | `OptionsCovered`: the results stored cover what is counted, and on a serial host a grant is not overdrawn (`GrantNotOverdrawn` is that part alone) |
| | `DividendsTypes`, `TotalIsTheirs` | invariants of `DividendsSpec`, whatever overlaps or fails half way; `TotalIsTheirs` is `DistributionsComplete`, `NobodyLeftOut` its part without the total |
| | `NobodyPaidTwice` | a serial host |
| `MCServicesProofs` | `ServicesTypes` | `TypeOK` of the services side by side |
| | `FilingsAreRight` | `FilingsAddUp`, for files of any number of payees, forms of any contents and any list of payees to route |
| | `CalculationsHold` | `CalculationsSound`, for instruments, rounds, splits, exercises, offerings and sales of any size |
| | `ExitsAccounted` | `ProceedsAccounted`, for any number of classes with any terms and any proceeds |
| `CalculatorsProofs` | (lemmas) | fractions and their totals; conversions, rounds and splits; each tier of an exit and what holds after it |
| `SumTheorems` | (lemmas) | what a sum over a finite set is and does |

**CapTable.** `IssuedBacked` is not inductive: a call in flight writes a
counter that only its copy determines. `BooksInvariant` adds that each copy is covered
by the entries, with its own shares on top once its entry is stored, that copies keep
the size and the company of their class, and that a summary being read is covered
already. The exact properties need more: `EInv` says that between the entry and
the counter exactly the one call in flight is uncounted. It assumes
`CarefulHost` (in `CapTableProofs`): one issuance at a time, no failures,
openings within every size, and no sum that overflows. The refinement maps
storing the entry to the abstract issuance and everything else to stuttering.

**Securities.** `IInv` covers, beside the stored counters, the record each call
will write. `SInv` adds that with a serial host the one call in flight holds a
fresh copy that its check is still true of, and that counters lag by its
pending update only. `LateInv` holds whatever overlaps: every issuance in flight
on a closed offering was in flight when it closed, because one begins only on
an open offering and whatever opens an offering ends the record of who is late.

**GatedTransfers** (in `SecuritiesProofs`). `ClearancesGood` says that what was allowed is still allowed:
time only ends restrictions, a serial host makes none between check and
transfer, and only a creation changes the class of a security, which a serial
host does not make in between either.

**IrisClient.** `IInv` ties each submission's copies to its attempt number,
its last reply and its lost replies; the shared token needs no invariant beyond
its type, which is why two goroutines racing for it cannot break the result.

**Compliance.** The invariant has five layers. `LocalInv` speaks of one call:
which answers it can hold at each step, and that its copies are those lost plus
the one it was told of; `Moves` says what any step of the adapters does to it, so
the upper layers never look at the nine actions again. `RecordsInv` adds the copies
in flight: what they note was stored. `OneAtATime` says that with a host that
makes one call at a time the copy a call works on is the stored record.
`Closed` is what makes a careful host's duplicates explainable: a filing that went
well leaves its record in a status `Open` refuses, until an amendment is
suspended. `TokenInv` says that a request let through with a held token is sent
before the recorded expiry, and that a token expires only then.

**Instruments.** `AnyHost` holds however calls overlap: a stored record is one
its kind allows, and so is what each call is about to write. `OneAtATime` adds
that the record is still as the one call in flight found it, one step behind
what that call will write, and that what was handed out and executed is what
the record counts. The refinement maps the status of the record
and gives each write as a creation, an advance along the order of its kind, or a stutter.

**Dividends.** `Covering` says that a call that distributes has stored, for
everyone entitled, what is not on its list any more, so that whoever closes the
declaration leaves nobody out. `Orderly` says that with one call at a time nothing
is paid while a declaration is open.

**OptionGrants.** `Answered` ties the result stored for a call to where it is and
what it told its caller; `Reserved` says that with one call at a time what a call
checked is still available when it is counted.

**Sums.** Several properties add up what a set of records holds. The library
defines a sum as a fold: a recursive function over subsets, taking out a chosen
element at a time. `SumTheorems` proves that this function exists
(`PartialIsDefined`), that its value does not depend on which element is
chosen (`SumTakeOut`), and from there what the other proofs use: a sum grows by
what is added (`SumAdd`), depends on its terms alone (`SumAgree`), is the same
under other names (`SumRenamed`) and adds up over disjoint parts (`SumParts`).
Induction is over sets of sets and sets of numbers (`SubsetInduction`,
`AddInduction`) rather than predicates, from the well-foundedness of the
numbers in the library. `EnteredOnce` follows
because an entry is stored only under an identifier that is not taken,
`IssuedIsLedger` because only the append of an issue adds to either side.

**Tax files.** `FileInv` says that a file Marshal has not run on is as its
host made it, and that after a run, until the host edits it, it carries the run's
numbers and totals and what went out are its records. `GroupRecordsAre` and
`Layout` say where in the file each group's records lie, for any number of groups
and payees; that numbers, counts and totals agree follows. `RoutingInv` adds to
the property that what the registry holds was validated when it was registered.

**Calculators.** An answer needs no invariant beyond the property: a lemma per
question (`ListedApart`, `EveryHolderHasAForm`, `FormsGoAsChecked`,
`EveryPayeeIsRouted`, `RegDRules`, `FeeRules`, `ExerciseRules`,
`ConversionsAreSound`, `RoundIsSound`, `SplitIsSound`, `DistributionIsSound`)
holds for every input, and `AnswersInv` puts them together.

**Fractions.** `Lowest` is the set of fractions in lowest terms. Euclid's algorithm is a
recursive function of a pair; that it is defined, divides both and is a
combination of both gives that a number has one fraction in lowest terms, so
that equal numbers are equal values. `StandsFor` ties a fraction to a numerator
and a denominator not reduced yet. The laws of sums, products, quotients and
orders are those of the integers these stand for. `Total` is a fold over a
function, handled as in `SumTheorems`. A round's `RoundIsSound` then rests on
`FloorBounds` (what is lost by issuing whole shares) and `ProRata` (parts in
proportion add up to the whole); a conversion on `BestPrice`.

**Waterfall.** Three facts are carried from tier to tier: `Accounted` (what is
paid and what is left are the proceeds), `SeniorFirst` (who is junior to a class
that is short has nothing) and `WithinCaps`. `SeniorFirst` is not enough within
the first tier: `LiquidatedDownTo` says that seniorities from some level up are
paid in full unless nothing is left, and that those below have nothing
yet. It is kept by `LiquidationTierGoesDown`, and `LiquidateGoesDown` is the
induction over the seniorities there are, highest first. In the later tiers money
goes only to classes once something remains, which by then means that every
preference was covered. In the conversion tier `remaining` can become negative;
the proof finds that it cannot when nobody converts, and not either when
all non-participating classes do, because then the pool they share is what is there.

Only model-checked: `SubmitReturns` and `CallsReturn`, the two liveness properties.

## 6. What disagrees with the code's own words

Each violation run checks a sentence of the code and finds a behaviour that
contradicts it; `PROJECT.json` quotes the sentence.

1. `captable/service.go:123`: IssueShares "check[s] authorized capacity" on a
   copy. Two overlapping issuances both pass.
2. The same check adds in int64 and can wrap, so one issuance of an enormous
   amount passes.
3. `securities/types.go:69`: RestrictionCheck says "whether to enforce transfer
   restrictions"; Transfer does not read it. Transfer also does not ask for
   holdings or for the status of the security, so the ledger says what callers
   ask and no property about holdings is stated.
4. `tax/iris/client.go:533`: "one re-authentication is attempted"; the loop
   makes one on every 401, on the last attempt too.

5. `waterfall/engine.go:142`: the pool of a conversion is "(remaining + returned
   liq prefs from all converters)". The code adds the preferences of all
   non-participating classes, so when one converts and another keeps its
   preference that money is paid twice. `ProceedsAccounted` shows that this is
   the only way an exit pays more than it brings.

Met while modelling, and described by the model rather than by a run of its own:

- CreateSecurity (`securities/service.go:20-37`) looks for no security of the
  identifier, and the repository of the tests overwrites: created again, a
  security counts from its new opening while its ledger entries stay.
- An issuance under way when its offering closes is recorded and stores the
  offering open again (`securities/service.go:97`).
- `compliance/filings.go:25-54` says its interfaces are implemented by
  `*edgar.Filer` and `*bluesky.Registrar`; their methods have other
  signatures, so a host writes the glue. The model takes the glue to pass
  arguments, answers and errors through.
- EDGAR's REJECTED comes back as an error, so FileFormD stores `rejected` only for a
  form that was SUSPENDED; a status it does not list leaves the record as it was.
- An amendment that EDGAR suspends makes AmendFormD store `rejected`
  (`filings.go:115`) over a form that is in force; a host that files what is
  rejected then files it a second time.
- Two forms that were amended at once, or a record filed by overlapping calls,
  keep what the later write loaded.
- SubmitForm of `tax/iris` defaults a missing code from the client
  (`client.go:346`) after validateSubmission has refused such a form, so the
  default never applies; CorrectSubmission sets it before. It follows that
  SubmitForm of `pkg/tax` without a registry and an issuer is always refused.
- An environment that is not set means the sandbox when a code is looked up, but
  marks no file as a test; such a file is refused by a client for the test system.
- FIRE files of a 1099-DIV carry ordinary and qualified dividends and the tax
  withheld; capital gains, section 199A and state withholding are dropped.
- The amount codes H and I lie under the foreign indicator and the payee's name,
  negative amounts lose their sign, and amounts over 12 digits and totals over 18
  their first ones (`fire/marshal.go:94`): `FilingsAddUp` excepts all three.
- Exercise of `pkg/exercise` treats "net" like cash, that of `pkg/warrant` like
  cashless. The method a conversion reports is named by the terms, even when
  the round's own price was lower.
- CheckRule144 takes one percent of the shares held.
- The Form D builder does not hold a 506(b) offering to 35 investors; the
  compliance check does, and nobody is made to call it.

## 7. What is not modelled

- Formatting: IRIS XML, EDGAR's XML and SGML, the text in the columns of FIRE
  records. Where the columns lie, what the totals are and what is left of an
  amount or a total that is too long is modelled; sequence numbers and counts
  always fit.
- Compute1099B of `tax`: a subtraction and a comparison.
- What a file says that is marshalled again after payees were added: it keeps the
  numbers of the first run, in the model too, and `FilingsAddUp` leaves it out.
- K records and the default of PaymentYear in Marshal, and the fields a caller
  of `tax/fire` places itself.
- GetSubmissionStatus and ListSubmissions of `tax/iris`: they run through the
  loop of `IrisClient` and change nothing at IRIS. The parsing of replies.
- RegisterAdapter of `bluesky` while calls run: the table is under a lock and a
  call resolves its adapter once.
- FileFormD of `edgar` marks the caller's own struct as an original or as an
  amendment; a host that shares one struct between calls is not modelled.
- Orders, positions and corporate actions of `omnisub`, screenings and
  accreditations of `kyc`, data rooms, grants and audit entries of `document`:
  validation and one write of a record of their own.
- Floating point: amounts are whole numbers or exact fractions.
- `stakeholder`, `vesting`, `valuation`, `disclosure`, `comms`: one repository call
  per operation over a record of its own. There is no interleaving to check.
