# Naviera: TLA+ verification project

Naviera (`src/backend`, FastAPI over one Postgres; `src/frontend`, Next.js) books parcels for
merchants, moves them through pickup, delivery and return, and keeps the money: a prepaid
wallet per user, a bill per shipment, cash collected at the door. This project models two
things. On the server: the parts where several requests, or a long sequence of legal requests,
decide about the same parcel or the same rupee. In the browser: the screens people act from,
where what is shown was read a while ago, answers are late or lost, and a button may be pressed
again. `PROJECT.json` lists the components, the runs, the lines each definition stands for, the
hazards, the disagreements found and the theorems.

Run a check with `tlc -config <run>.cfg <module>.tla` and the proofs with `tlapm <module>.tla`.

## 1. The system

### 1.1 How it runs

- One API process; every HTTP request is a coroutine with its own database transaction.
  Nothing is shared in memory except caches, the login limiter and the pickup-OTP counters.
- Postgres at READ COMMITTED. Sessions do not expire rows at commit (`core/db.py:26`) and no
  table has a version column: an ORM `UPDATE` carries the columns whose value changed since
  *this* request read the row, and nothing else protects a row that was read without a lock.
- `SELECT ... FOR UPDATE` takes its rows in the snapshot of the statement and then queues for
  the locks. When a lock is granted only the locked row is re-checked, a joined row is not.
- A GitHub cron calls `/internal/temporal-hooks/run`, which puts shipments on hold.
- A browser tab is one JavaScript thread: handlers run to their next `await`. Between a request
  and its answer anything else may run: other handlers of the page, other tabs (which share
  `localStorage` and a broadcast channel), other people. An answer may be lost after the server
  did its work. Most requests of the screens carry no version of what they were decided on.

### 1.2 Components of the server

| Component | State | Operations | What is hard | Model |
|---|---|---|---|---|
| User wallet and passbook (`services/wallet.py`) | `user_wallets`, `wallet_transactions` | recharge intent, confirm UTR, approve, reject, verify, offline credit, Finlock booking, postings | two admins and the merchant act on one recharge; rows read before the wallet lock | `Wallet` |
| Shipment lifecycle (`services/shipment.py`, `shipment_lifecycle.py`) | `pickups`, activity log | staff updates, cancel, appointment, measurement, OTP | guards depend on the status before the hold, kept in the activity log; `update_appointment` takes no lock | `NdrRules`, `Shipment`, `Custody` |
| Delivery exceptions (`services/exceptions.py`, `ndr_rules.py`) | reason, attempts, waiting flag of a shipment | raise, worker holds, sixteen actions of merchants and staff, attempt limit | limits and refunds over several holds with answers between them | `NdrRules`, `Shipment` |
| Bill and re-pricing (`services/repricing.py`) | `payment_details`, wallet rows of a shipment | re-price, refund, RTO charge, loss and recovery, recovery of a carrier's charge, override | each change settles the difference with what was paid so far | `Shipment`, `CarrierBilling` |
| Weight disputes (`services/delhivery_modules.py`) | `weight_disputes` | record, raise, accept, reject | measurements continue after the claim | `Shipment`, `WeightClaims` |
| Pickup requests (`services/manifests.py`) | `manifests`, `manifest_id` of shipments | create, add, out for pickup, dispatch, cancel, not picked, detach | shipments are read without a lock; lock orders are inverted | `PickupRequests` |
| COD payouts (`settle_cod_to_wallet`, `create_remittance`) | `cod_remittance_status`, `cod_remittances`, wallet rows | settle to wallet, bank batch | two channels pay the same cash; three lock orders | `CodPayout` |
| Idempotency keys (`core/idempotency.py`) | `idempotency_keys` | claim, replay, refuse another body, store, release | four transactions with stops in between | `Booking` |
| Temporal hooks worker | none of its own | put on hold | runs in the middle of the day's work, skips locked rows | `WorkerHold` of `Shipment` |
| Users, roles, settings, addresses, tickets, appointments | single rows | edits under role rules | full-row saves, decisions on what was read earlier | with the page that edits them |
| Caches, login limiter, pickup-OTP lockout, GST numbering, integrity audit, pricing arithmetic, dashboards, labels, notifications, migrations | | | | not modelled (section 6) |

### 1.3 Components of the browser

| Component | What is hard | Model |
|---|---|---|
| Sign-in, callback, access guard | a password chosen at the form and a link opened meanwhile, a withdrawn member, outages | `SignIn` |
| Shell: flows, menus, navigation bar | scope, page and two memories decide the flow; other tabs write them | `Workspace` |
| Query cache, interceptor, broadcast | reads in flight while a write invalidates, change of user in another tab | `QueryCache` |
| Booking wizards and their form | late quotes, changed price, lost answers, drafts, hidden fields | `Booking`, `ShipmentForm`, `RateCalculator` |
| Orders, pickups, operations page | ticks over lists that are read again, dialogs in flight | `OrdersList`, `PickupForm`, `OpsBoard`, `PickupRun`, `Doorstep` |
| Order pages and tracking | cancel, status, measurement, edits, journeys told from two reads | `ShipmentPage`, `CargoPage`, `EditOrder`, `Tracking` |
| Exceptions desk, weight claims, appointments | bulk answers and claims about parcels that move on | `ExceptionDesk`, `WeightClaims`, `Appointments` |
| Wallet, recharge, remittances | QR and UTR dialogs, polls, approvals, batches confirmed by total | `Recharge`, `WalletPage`, `Remittances` |
| Team, settings, prices, addresses, support, carrier card | whole-form saves over what others saved | `Team`, `Settings`, `PrimeLanes`, `PricingPanel`, `CarrierBilling`, `AddressBook`, `SupportDesk` |

### 1.4 How they interact

A booking debits the wallet (`Spend` of `Wallet`) and creates the shipment (`Init` of
`Shipment`); the wizard sends it under an idempotency key (`Booking`). Staff link it to a pickup
request; a dispatch hands it to the courier. A problem on the way puts it on hold, the
merchant's answer resumes, returns or cancels it; every change that touches the price goes
through `RepricingService`, which posts one wallet movement (`PostMovement` of `Wallet`,
`Settled` of `Shipment`). Delivery freezes the cash, and a settlement or a bank batch pays it.
Locks are taken shipment first, wallet second, except in a settlement (wallet first) and in the
pickup handlers (pickup request first, shipments in the flush). Pages share the query cache: a
write through the interceptor drops what it may have changed in every tab that hears of it.

## 2. The modules

### 2.1 The server

| Module | What it is |
|---|---|
| `Wallet` | the wallet as processes with program counters: a step is an unlocked read, a lock grant, a flush or a commit |
| `NdrRules` | the pure rules of `ndr_rules.py` and the transition table of `shipment_lifecycle.py`, as sets and functions |
| `Shipment`, `MCShipment` | one shipment, its bill, its dispute and its pickup request; a handler under `FOR UPDATE` is one step |
| `Custody` | abstract contract: who holds the parcel and whether the seller is charged |
| `PickupRequests` | pickup requests and shipments cut at each lock, each `UPDATE` and each commit |
| `CodPayout` | the two ways of paying cash out, with row locks, statement snapshots, deadlocks and failures |
| `WalletProofs`, `ShipmentProofs`, `PickupProofs`, `CodPayoutProofs` | the theorems (section 4); `PickupProofs` also has those of four screens |

`Shipment` composes the status machine, exceptions, billing, claims and the pickup request of
one parcel, because one handler changes several of them; it refines `Custody`
(`KeepsContract`). `PickupRequests`, `CodPayout` and `Wallet` take the concurrency that
`Shipment` leaves out: a handler that is one step there is cut there where another request can
get in.

**Wallet.** `txn` is the RECHARGE row (status, owner, UTR, amount), `ledger` the COMPLETED rows
of a wallet in commit order, `req[p]` one request: what it loaded (`st`, `seen`, `bal`) and
what it flushed (`rows`). `ConfirmRead`/`ConfirmDupCheck`/`ConfirmCommit` is
`confirm_upi_recharge`, which takes no lock; `Start...` is the unlocked read and the checks of
approve, reject, verify and offline credit, `LockWallet` the grant with `refresh`, `...Commit`
the rest. `ConfirmedRow` writes only the columns that changed.

**Shipment.** `sh` is the row plus what the handlers derive from the activity log (`held`), `bill` the
breakdown and the net of the wallet rows, `claim` the dispute, `appt` what an
`update_appointment` in flight has read. `PatchStatus` is `update_shipment` with a status, with
its conversions (a cancel after pickup becomes a return), re-billing of a found parcel, the
limit, the RTO charge and the refunds in the order of the code; `NdrAction` is
`apply_action` with the target and the bill of each action; `RaiseException` and
`WorkerHold` share `OnHold` and differ in the limit, the link to the pickup request and the
waiting flag. `moved` and `waived` are history variables.

**PickupRequests.** A request reads (`Seen`), validates, then sends one `UPDATE` per shipment in
primary-key order (`UpdateRow`), and commits. `CancelShipment`/`SyncPur` lock the shipment first
and the pickup request second. A link is validated on rows that are not locked (`Linkable`) and
written later, also over a cancel or another link that came in between. Two history variables
remember where that happened: `relinked` the shipments, `miscounted` the pickup requests such a
shipment left or went to.

**CodPayout.** `Locking` starts a statement that locks a set of rows, `LockRow` is one grant.
`Reread` is the second query of A-24. Charges stand for every handler that locks a shipment and
then posts to the wallet.

### 2.2 The browser

Each screen is a module of the same shape. Its variables are the React state a property needs
(what is shown, what is typed or ticked, which dialog is open, which requests are in flight),
the rows of the server the screen acts on, and the answers on their way. A click, the arrival of
an answer, the loss of an answer, a read and what other people do are actions of their own, so
that they interleave freely. The server's side of a request is one step that checks and changes
what the handler checks and changes. Each of them states

- `TypeOK`: what is typed, ticked, open and in flight fits together;
- `ActedAsShown`: what the server did for a request is what the screen showed when the person
  pressed, or the module says by which flag it may differ;
- `OncePerIntent`: pressing once, whatever is lost, late or pressed again, has its effect once;
- `KeepsTyping` (an action): what was typed or ticked is not dropped or replaced by an answer
  that is not about it.

Not every module has something to say to each of the four. `MCDesks` puts the screens side by
side: a behaviour is one of a single `area` and `part`, and an instance of a module (sometimes
several, each with the bounds one question needs) maps the shared slots `s1`, `s2`, ... to its
variables. The four properties of `MCDesks` are the conjunctions over the parts. `MCShell` does
the same for `SignIn` and `Workspace`, which have properties of their own, and `QueryCache` is
checked alone. `BookingProofs`, `ShellProofs`, `PickupProofs`, `DeskProofs` and `QueryCacheProofs` hold the
theorems.

| Area of `MCDesks` | Modules |
|---|---|
| booking | `Booking`, `ShipmentForm`, `RateCalculator` |
| delivery | `Doorstep`, `PickupRun` |
| pickups | `PickupForm`, `OrdersList`, `OpsBoard` (which uses `Journey` and `NdrRules`) |
| orders | `ShipmentPage`, `EditOrder`, `Tracking` (with `Journey`) |
| holds | `ExceptionDesk`, `CargoPage` |
| cargo | `WeightClaims`, `Appointments` |
| money | `Recharge`, `WalletPage`, `Remittances` |
| office | `Team`, `Settings` |
| help | `SupportDesk`, `AddressBook` |
| prices | `PrimeLanes`, `PricingPanel`, `CarrierBilling` |

The comment at the head of a module says which files it is of and what happens around the
screen; a comment at a variable says which state of the page or which column it is.

### 2.3 Abstractions

- Roles are dropped where an owner or admin may do all that the weaker roles may.
- Money is a few naturals whose sums tell the parts of a bill apart. GST, channels other than the
  wallet (TO_PAY, POSTPAID) are left out of `Shipment`; `CarrierBilling` has the override.
- The quote engine may return any freight of `Freight`.
- A PATCH that changes several things is the composition of those that change one.
- Every shipment of `PickupRequests` is one box; blind pickups are left out.
- `CodPayout`: cash is frozen at delivery, so the total finance confirmed still holds whenever
  all ticked shipments are payable; a batch names its shipments (a batch that sweeps a merchant
  pays the payable subset and is not modelled). Deliveries take no second lock and are one step.
- A failure (`Abort`, `Fail`) rolls the transaction back. Nothing survives it but committed rows.
- In the screens a typed text is a version or a value of a small set, a list is the set of its
  rows, and layout, toasts and loading signs appear only where a property reads them. A read is
  two steps, the database's answer and its arrival, when others can get in between.
- Timers (debounce, polls, auto-save) are actions that may happen at any time while armed.

## 3. What is checked

Nine runs pass; three show a disagreement between the code and what it says of itself. All
runs set `CHECK_DEADLOCK FALSE`: a shipment that reached its end, a bounded ledger that is full
and a screen nobody uses really stop.

| Run | Distinct states | Instance | Shows |
|---|---|---|---|
| `wallet_recharge` | 1 210 469 | 2 merchants who are also admins, 2 recharges, 2 UTRs, 2 requests | credited exactly when COMPLETED, maker-checker, final decisions, passbook, under all interleavings |
| `wallet_posting` | 142 531 | 1 wallet, amounts 1 and 2, floor 2, 2 requests, 2 rows each | Finlock, and every request ends |
| `shipment_journey` | 525 047 | both types and flows, all reasons, 4 attempts | nine properties of the whole journey, and refinement of `Custody` |
| `shipment_out_of_turn` | 291 888 | with the operations the known disagreements need | what still holds when they all happen |
| `pickup_concurrency` | 193 459 | 2 pickup requests, 2 shipments, 2 requests | one end; carton count, cancelled stays, no lost link, but for a link written over what another request did; every request ends |
| `cod_payout` | 12 642 | 2 shipments, 2 requests, deficit 1 | cash paid once, REMITTED iff paid, every request ends |
| `shell` | 239 510 | sign-in with one other event, one failure and three steps; the shell with two moves | passwords go to their owner, menus agree with page and API, an outage ends no session, what must settle settles |
| `query_cache` | 561 400 (symmetry) | 2 tabs, 2 users, 2 requests, one view, two changes | what `fetchWithCache` stores is no older than the last invalidation heard, and a view read through it never steps back; a screen that stores its own load (`setCachedQuery`) is not covered |
| `desks` | 1 311 673 | 25 screens in nearly a hundred parts | `ActedAsShown`, `OncePerIntent`, `TypingKept` for every screen |
| `cod_late_delivery`, `booking_press_again`, `ndr_pressed_again` | | | section 5 |

Each property is paired in `PROJECT.json` with a mutant of a mapped definition (a dropped lock,
a missing flag, an off-by-one, a forgotten reset) that breaks it in the same run; the properties
of `desks` have several, one or more for each screen.

**Why the bounds suffice.** Two requests are enough for every race listed as a hazard: they are
all between one that decided and one that commits in between, and two suffice for a cycle of
locks. Two recharges and two UTRs let one reference be freed and reused. `MaxLedger` and
`MaxRows` bound rows, not values. `AttemptBound` 4 passes the limit of 3 (on the return leg,
where it is not enforced, a fourth is recorded). Two freight values give a bill that rises,
falls and returns. `ChargeBound`, `MaxDeficit` cap counters that nothing else stops. On a
screen two rows tell "this one" from "another", two values of a field tell typed from stored,
two loads in flight give an answer out of order, and one or two moves of other people make what
is shown stale; a counter of keys, tries or changes (`MaxKeys`, `MaxTries`, `MaxMoves`, ...)
stops what only repeats. `MaxForgets` is how often the server
releases the claim of a key that has booked: once shows the second booking. The theorems of section 4 remove the bounds on users, rows and requests
where they are proved.

**Exceptions named by a property.** The operation is in the model and the run, and the property says
of what it does not speak: `relinked` and `miscounted` (`PickupRequests`: links written over what
another request did), `Forgotten` (`Booking`: keys whose claim was released after they had booked),
`altered` (`Booking`: a try whose price or form changed under it).

**Instances that exclude a known disagreement.** `Ops` of `Shipment` names the operations of a
run: `journey` leaves out the operations of section 5 that break its properties,
`out_of_turn` has them. "appointment" (a stale appointment write) and "purOnHold" (a pickup request's
steps on parcels on hold) are only in `out_of_turn`, so `TerminalStays`, `ResumeToStage` and
`RefundedNeverMoved` say nothing of them; `HoldsOutOfTurn` says what they do to money and OTP.
`LateDeliveries` (`CodPayout`) is FALSE in the passing run. Screens say with a flag (`overtaken`, `altered`, ...) or with the
domain of a constant where a disagreement of section 5 is left out of a property.

**Fairness.** `Wallet`: a handler runs to its commit (weak), a row lock is granted in order of
asking (strong on `LockWallet`); nobody is forced to send a request. `PickupRequests`,
`CodPayout`: the same, and the database looks for deadlocks (weak on `DeadlockVictim`). Failures
are never fair. Postgres queues the waiters of a row and its deadlock detector runs after
`deadlock_timeout`; the server awaits every handler. `SignIn`, `Workspace`: the browser runs the
handlers that are due (weak on `Handled`) and its timers (`BarTimer`); people are never fair. A trigger of an access check
that is dropped because a check is in flight is owed no other one.

## 4. What is proved

Every theorem holds for any number of users, rows, requests, tabs or tries: the runs check the
same formulas on small instances. The inductive invariants of the server's modules, of the shell, of
the query cache and of `Booking` were checked by TLC as invariants before they were proved; of the
other screens TLC checks the properties, and the invariant is in the proof module only. A proof
module has the same layout: the invariant as a conjunction of named parts with a comment each, a
lemma that `Init` establishes it, lemmas per action or per group of actions that `Next` keeps it,
and the theorems.

| Module | Theorems | Hypotheses |
|---|---|---|
| `WalletProofs` | `TypeCorrect`, `PassbookSafe`, `CreditSafe`, `MakerCheckerSafe`, `FinlockSafe`, `DecisionSafe` | the `ASSUME`s of `Wallet` |
| `CodPayoutProofs` | `TypeCorrect` with the lock discipline, `RemittedPaid`; `PaidAtMostOnce` | the last one: `~LateDeliveries` |
| `PickupProofs` | `EndsOnce`; `TypeCorrect`, `BoxesCounted`, `AssignedIsOpen`, `CancelledForGood` | the `ASSUME`s of `PickupRequests` |
| `ShipmentProofs` | `TypeCorrect`, `SafeOutOfTurn`, `ReturnPaidOnce`, `OtpOnTheWay`; `BillsSettled`, `RefundedUnmoved`, `TerminalForGood`, `ResumesWhereHeld`; `ClaimsOnlyRefund`; `AttemptsLimited` | the first four: none; the others: operations left out of `Ops`, below |
| `ShipmentProofs`, the contract | `ContractKept`: `Shipment` implements `Custody` | the same, without "override", "editLost" and "claimLost" |
| `QueryCacheProofs` | `TypeCorrect`, `AlwaysFresh`, `NeverBack` | `IdentityAssumption`, `BoundAssumption` |
| `ShellProofs` | `TypeCorrect`, `PasswordKept`, `MenusKept`, `OutageSafe` (of `SignIn` and `Workspace`) | `NoneAssumption` |
| `BookingProofs` | `TypeCorrect`, `BooksOnce`, `PaysAsShown`, `TypingKept`: Booking's part of the four properties of `MCDesks` | `Constants` |

Each of the other 24 screens has a theorem that joins its parts of `TypeOK`, `ActedAsShown` and
`OncePerIntent` of `MCDesks` (as many of them as the module states; of `Tracking` see below), and,
where the screen has `KeepsTyping`, one that states its part of `TypingKept`:

| Module | Screens: theorem (and the one about typing) | Hypotheses |
|---|---|---|
| `BookingProofs` | `PrimeLanes`: `LanesAsEdited` (`LaneTypingKept`); `CarrierBilling`: `BilledAsShown` (`BillingTypingKept`); `OpsBoard`: `BoardFits`; `Tracking`: `JourneyTold` | `PlConstants`, `CbConstants`, `ObConstants`, `TrConstants` |
| `ShellProofs` | `RateCalculator`: `PricesAsAsked` (`MeasuresKept`); `ShipmentForm`: `BookedAsShown`; `PricingPanel`: `RepricedAsListed` (`PolicyTypingKept`); `EditOrder`: `EditedAsTyped` (`EditTypingKept`); `Appointments`: `BookedAsListed` (`AppointmentTypingKept`); `AddressBook`: `AddedOnce` (`AddressTypingKept`); `Settings`: `SettingsKept` (`SettingsTypingKept`) | `RtConstants`, `SfConstants`, `PpConstants`, `EoConstants`, `ApConstants`, `AbConstants`, `StConstants` |
| `PickupProofs` | `PickupForm`: `RequestedAsListed` (`RequestTypingKept`); `Doorstep`: `DoorstepKept` (`DoorstepTypingKept`); `PickupRun`: `PickedUpOnce` (`PickupTypingKept`); `OrdersList`: `OrdersLinkedOnce` (`OrdersTicksKept`) | `PfConstants`, `DsConstants`, `PrConstants`, `OlConstants` |
| `DeskProofs` | `ExceptionDesk`: `ExceptionsAnsweredOnce` (`ExceptionTypingKept`); `ShipmentPage`: `MoneyMovedOnce` (`ShipmentTypingKept`); `SupportDesk`: `OneOpenTicket` (`TicketTypingKept`); `Team`: `OwnerHandedOverOnce` (`TeamTypingKept`); `WalletPage`: `CreditedOnce` (`WalletTypingKept`); `Recharge`: `RechargedOnce` (`RechargeTypingKept`); `WeightClaims`: `WeightsClaimedOnce` (`WeightTypingKept`); `Remittances`: `RemittedOnce` (`RemittanceTypingKept`); `CargoPage`: `HeldAndAnsweredOnce` (`HoldTypingKept`) | `XdConstants`, `SpConstants`, `SdConstants`, `TmConstants`, `WpConstants`, `RcConstants`, `WcConstants`, none, `CpConstants` |

**Wallet.** A ledger and a balance agree only between transactions, so the invariant says what a
request carries at each point of its program: the holder of the wallet lock has the committed
balance, the rows it flushed chain from it, a request past `refresh` has the committed status,
and no two hold the same lock. `ChainsConcat` (chained rows stay chained when appended) is the
lemma about sequences the rest hangs on. The credit is safe because the status a decision is
based on was read under the lock of the wallet it credits.

**CodPayout.** What a request read about a shipment it has locked is still so (`Reads`), and no two
requests hold a row (`Disjoint`). Only the two reads of a settlement break it: between them a
delivery adds a shipment that the second read takes without its cash having been counted, which
`LateDeliveries` allows and `cod_late_delivery` shows.

**PickupRequests.** The shipments linked to a pickup request, and its count, change only by the commit
of the request that holds its row lock; so what the holder counted is still true when it commits.
A link written on a shipment read without a lock is the gap: it may un-cancel the shipment, or take it
from another pickup request without that one's count. The invariant therefore speaks of the
shipments that are not `relinked` and the pickup requests that are not `miscounted`; every other
request, of which there may be any number, acts on rows it holds.

**Shipment.** Two invariants. One holds for every operation: a bill that was settled is covered by
the movements, the return freight is booked once, the OTP is there on the way. The other says
where the parcel is for a status and for the status before a hold (`Whereabouts`), and needs that
handlers act on a row as it is: without the operations named "purOnHold" and "appointment" (not
picked and stale appointment writes, section 5); `ClaimsOnlyRefund` also without "claimLost",
and `AttemptsLimited` without "reason" and "purOnHold". These operations break the properties,
which is why `shipment_out_of_turn` has them and checks what remains. `ContractKept` maps each
handler to a step of `Custody` or to none.

**QueryCache.** A response may be older than an invalidation it crossed, so no state of one tab says
that its cache is fresh; the invariant relates each read in flight to what the tab heard: what
`inFlight` registers was called after the tab last dropped its cache, and a step of a tab either
drops its cache (`Drops`) or keeps the promise for what it adds (`KeepsOn`).

**Shell.** Whoever's password is being applied is whose session is stored (`Owned`), through the form,
the code, the link and the callback, with the pending password of another mode in the same storage;
of the workspace, a flow that was chosen is the one that is saved.

**Booking.** On the server, the claim of a key is held from the moment a request starts to work until
its shipment is committed, and after that until the server releases it, if it ever does
(`StoreFailed`): no two requests work under one key, and one that was never released after its
booking books once (`Kept`, `KeptAlone`). In the browser, as
long as nothing altered what was booked from, every request of a try that may still book carries the
held key (`OneKeyPerTry`, `HeldKey`) and asks for what is on screen (`HeldBody`, `SameBody`), so it is
never refused for its body; it is refused only by its own work, which booked nothing
(`RefusedAlone`), and then the wizard may forget the key. The attempt to prove `RetryBooksOnce`
showed that it was false beyond the bounds of the run: an older quote answered late changes the
total under a held key (section 5). The model now calls that `altered`, and the run has two tries
so that the late quote happens.

**The other screens.** The invariant of a screen says of each request on its way what it carries and
of which of the server's rows it was read, so that a message however old stays right. What it rests
on, by screen:

- *Money and holds.* `Remittances`: what a batch has paid is remitted for ever, and only what is
  pending can be put in another, so previews that overtake each other do no harm; no assumption is
  needed. `WalletPage`: a payment that was credited stands on no pending recharge, and a reference
  on one recharge at most. `Recharge`: the server gives a UTR to one recharge, and only the newest
  read replaces the figures. `CarrierBilling`: a bill is money with GST, the wallet has paid what is
  owed of it. `WeightClaims`: the status of a row, on which the server decides, says how often its
  parcel was claimed and settled. `ExceptionDesk`, `CargoPage`: an answer counts only while the parcel
  waits for one of its kind, and ends that hold. `ShipmentPage`: a parcel once picked up never counts
  as not picked up again, so a return that was confirmed is never told as a refund. `Doorstep`: a
  refusal at the door counts once, and the cash asked for is the cash due.
- *Pickups.* `PickupForm`: no parcel of another place is asked for. `PickupRun`: a pickup is handed
  over once, with the parcels listed and ticked. `OrdersList`: an order put on a pickup is not open
  again. `OpsBoard`: a parcel keeps the OTP first given, remitted cash is of a delivered parcel, and
  a pickup that ended stays so. `Tracking`: the log tells of the pickup before the leaving of the
  seller's place, and of that before "out for delivery" (that there is a first entry of each kind is
  an invariant, so no induction over the log is needed); the parcel has left exactly when its status
  says so, but for a hold at the pickup.
- *Booking and prices.* `RateCalculator`, `ShipmentForm`: prices on screen are of the last calculation,
  and what is booked is what form and quote showed, whatever hidden fields hold. `EditOrder`: only
  what was changed is sent, and a price shown as checked is of the form as it stands. `Appointments`:
  rows are of the place chosen. `PrimeLanes`: one lane of a route is active at most, and a file is
  imported as it was checked. `PricingPanel`: the dialog lists exactly what a save changes.
- *The office.* `Team`: between a save's read and its write nobody but the save makes another person
  the Owner. `SupportDesk`: an AWB has one open ticket but for those opened again. `AddressBook`: what
  a shipment was booked with stays. `Settings`: no value standing in for one that was not read is
  saved, and the history leads from each change to the one before.

**What failed attempts showed.** A proof that did not go through was a finding five times:

- `Booking`: the late quote, above.
- `Team`: `ActedAsShown` was false for more people than the run had. The Owner may hand the role to
  an inactive person (neither `_assert_owner_rules`, `tenants.py:902`, nor `user-edit-policy.ts` asks
  that the new Owner is active), which leaves an Owner who is inactive although an Owner cannot be
  deactivated (`user-edit-policy.ts:13`), and whose dialog is then always refused because the status
  is sent along. The property now says what holds.
- `PickupRun`: two guards of a CASE overlapped, and a CASE is a choice; the code takes the first.
- `PickupForm`: a list that is shown before it is read (section 5.2) may hold a parcel that is not
  ticked and not asked for; the property names that exception.
- `CarrierBilling`: the model had left out "Refunds never exceed what was paid" of `_plan_movements`
  (`repricing.py:1777`); with it, a bill below zero was found (section 5.2). It is modelled now, and
  an instance of `desks` reaches it.

**Assumptions.** `ASSUME`s are on constants only, each beside its constants and evaluated by TLC:
bounds are naturals, money is positive, sets are finite where a cardinality is taken, and the values
that stand for "none" (`NoneAssumption`, `NullsAssumption`, `IdentityAssumption`) are none of the
others. `Constants` of `BookingProofs` and the `...Constants` of the screens say the same of those
modules, as a hypothesis, because `MCDesks` instantiates them; they are on constants only (bounds
are naturals, the value for "none" is none of the rows, words or numbers it stands beside, rows that
are taken in order are a finite ordered set) and the instances of `MCDesks` are such. The hypotheses
on `Ops` and `LateDeliveries` are about operations the code has: the theorems that need
them say what follows as long as those do not happen, and section 5 says what happens when they do.

**Only model-checked.** Liveness (every request ends, what must settle settles) and anything that needs
`ENABLED` is out of the prover's reach. So is induction over data: what `NdrRules` and `Journey`
compute is checked over their whole, finite, tables; a ledger's balance is related to its last
row, not to a sum over all of it; and of `Tracking` the two parts of `BuyerIsTold` that read
`PublicTimeline`, a fold over the log, are checked by TLC, while `JourneyTold` proves the three that
do not (`TrStepperIsTold`) with all of what seller and staff are told. The four properties of
`MCDesks` are conjunctions over its nearly one hundred instances: each module's conjunct is proved for all
constants, and the conjunction itself is not stated as a theorem.

## 5. Disagreements

Shown by a run:

- `cod_late_delivery`: a shipment delivered between the two reads of a settlement is paid by
  bank and by wallet.
- `booking_press_again`: "pressing Book again is safe" does not hold after a changed price was
  confirmed and the answer was lost: the key is forgotten and a second shipment is booked. An older
  quote answered late does the same, because it changes the total under a held key
  (`use-quote-booking.ts:111-126` takes whichever answer comes last).
- `ndr_pressed_again`: the same failed attempt reported again after a lost answer counts twice when
  it is the one that ends the hold.

Found while modelling, named as a property's exception or excluded from the passing runs by a
constant, a flag or a comment at the definition, without a run of their own.

### 5.1 Server

- `confirm_upi_recharge` overwrites the UTR of a row approved meanwhile; the credited reference is
  free again.
- A cancel between a link's check and its write is overwritten with ASSIGNED, with the refund
  already paid; the same gap links a shipment to two pickup requests in turn
  (`services/manifests.py:787`). Both happen in `pickup_concurrency`; its properties name the
  shipments and pickup requests concerned (`relinked`, `miscounted`).
- A response that cannot be stored, or anything else raised after the business transaction, releases
  the claim of a shipment that was booked (`core/idempotency.py:215-221`): the wizard is told the
  server failed, keeps its key, and pressing Book again books a second shipment under it.
  `StoreFailed` of `Booking` does it; the properties name such keys (`Forgotten`). A measurement is
  safe from it, because its adjustment carries the key and is found again
  (`repricing.py:693-696`, `Unbilled` of `ShipmentPage`).
- An appointment booked on an unlocked read revives a terminal shipment; accepting the claim of a
  LOST shipment debits the refunded freight.
- A dispatch leaves a shipment on hold in EXCEPTION held from ASSIGNED (`repositories/manifests.py:309`)
  although the courier took it; CANCEL_PICKUP then refunds it in full, what `ndr_rules.py:301` warns of.
- A return accepted as "Logismart liable" is billed by the next re-price: the waiver is not
  stored (`repricing.py:1224`, `shipment.py:1955`).
- A partial dispatch reopens what was left behind, also what has ended (`repositories/manifests.py:341`);
  not-picked acts on parcels on hold (`:196`).
- Edits of a LOST shipment settle its refunded bill (`repricing.py:514`, `shipment.py:123`).
- A COD fee is quoted again for a return on hold, because EXCEPTION hides the RTO status
  (`repricing.py:1261` against `shipment.py:1999`).
- The cancel endpoint does not consult the transition table (`shipment.py:2178`).
- An exception answered after pickup may resume to ASSIGNED (`exceptions.py:715`), and the audit
  then misses its pickup request (`integrity_audit.py:12`).
- The audit expects the net debit of a LOST shipment to be its bill (`integrity_audit.py:15`, `:375`);
  the code and `tests/test_repricing_unit.py:876` refund it and keep the bill.
- CANCEL_PICKUP and a cancelling retry detach a shipment without recounting the cartons
  (`exceptions.py:672` against D-11 at `shipment.py:1685`).
- An exception raised between a dispatch's read and its flush is overwritten with IN_TRANSIT
  (`repositories/manifests.py:306`).
- A-05 holds payouts of a wallet below zero, on a balance read without a lock
  (`delhivery_modules.py:797`).
- `user row` saves read the row without a lock: a promotion between read and write leaves a team
  member with scope B2C (`tenants.py:1070-1080` says this cannot be); a late Reject after an
  approval leaves status REJECTED with scope BOTH; an edit of an inactive admin by an admin is
  refused because `is_active` is sent along (`user-edit-policy.ts` says it never is).
- "An AWB has at most one OPEN ticket" (`delhivery_modules.py:1585`) fails when a reply reopens a
  resolved ticket beside a newer one, and for two concurrent creates; a reply racing a close may
  reopen a CLOSED ticket that `ticket-rules.ts:45` calls final.
- The docstring of `raise_weight_claims` says an open claim is updated; it is refused with 409.
- Re-adding a removed address that shipments reference overwrites the row they point at
  (`services/addresses.py:184-186` says snapshots never mutate).
- The bulk answer of the exceptions desk runs each parcel in a savepoint. The session events that
  evict the caches (`core/ttl_cache.py`) fire when a savepoint ends, so nothing is evicted once
  the whole is committed and a list read in between stays cached for its TTL; and an error that
  is not an `HTTPException` (the victim of a deadlock) rolls the successful ones back too, against
  the docstring of `apply_bulk_action`. Found by reading; not modelled.

### 5.2 Screens

A success closes whichever dialog of its kind is open, and list reads overwrite each other in any
order, on most pages; where it matters the module has a flag or a bound for it. By screen:

- **Sign-in**: `checkSession` (`login-form:217`) removes a session newer than the one refused; the
  guard retries an outage once.
- **Booking**: quotes have no request id; Back is enabled while a quote is asked; a hand-off that
  finds the form cold overwrites typing; `todayApiDate` and an upload that ends after Book change the
  body; hidden fields (e-way bill, description of "other") are sent; the COD rule compares with a
  stale total.
- **Rate calculator**: the Book link may carry values older than typed; typed measures equal to a
  default are overwritten; with blind pickup ticked, boxes never measured fail hidden rules and
  Calculate does nothing visible (`page.tsx:151-176`); a wizard that cannot read the address book
  opens with its own defaults and none of the inputs (`shipments/new/forward/page.tsx:245-258`).
- **Operations**: a pickup shown with no parcels dispatches all added since; the checklist skips the
  QC confirmation and is sent even if closed by Escape while it measures; parcels added after the
  load are detached; two parallel list reads may show a parcel twice or not at all; the tile
  "Doorstep Cash Queue" counts freight-to-pay parcels the cash tab does not list, and returns on
  hold; "Cash handed in" is never reached; a parcel on hold at its pickup counts as picked
  (`manifests.py:66-75`); Mark-OFD does not re-read after a lost answer.
- **Pickup form**: opened on a cached list that lacks the preselected order the preselection is
  dropped and (B2C) an empty pickup can be asked for (`create-pickup-request-form.tsx:343-345` says
  otherwise); ids the fresh list lacks stay selected; coming back to the place the
  form was opened with shows and ticks its cached list, and the fresh read then adds rows without
  ticking them (`create-pickup-request-form.tsx:264-292`), so a parcel the form was opened for may be
  listed, never unticked and yet not asked for.
- **Orders**: the bar keeps its candidates while nothing is ticked; rows hidden by filters stay
  ticked and are added; a failed page read leaves the old rows under the new number.
- **Shipment pages**: a cancel carries no expected status, so a parcel picked up meanwhile becomes a
  paid return nobody was shown a price for; the B2B page announces it as "Order cancelled
  successfully!" (`b2b/shipments/[id]/page.tsx:152`, the B2C page goes by the answer); the default
  of the status dialog never follows the parcel; a measurement sent again from a reopened dialog has
  a new key; the appointment dialog uses the UTC day where the hub uses IST.
- **Edit order**: Save within the debounce sends change B checked against the preview of A; a
  document whose upload ends after Save is lost.
- **Tracking**: a parcel on hold at its pickup is told as picked up, against
  `tracking-display.ts:6-8`; a hold un-ticks "Out for delivery"; times are those of the oldest
  activity of a kind.
- **Exceptions desk**: bulk "Return to origin" is a paid return without confirmation; an upload that
  ends after the dialog was switched puts A's file into B's form; "Update consignee" re-sends every
  field as opened; a late answer may answer a new hold of the same reason.
- **Weight claims**: a second weighing while a claim is open makes the refund exceed the "maximum
  refundable" shown; remarks typed for one AWB stay when another replaces it.
- **Appointments**: after the first booking a cached tab keeps the rows of the old one; a partial
  success clears the ticks of those that failed; a booking made meanwhile is overwritten.
- **Wallet and recharge**: "Change Amount" keeps the typed UTR for the next QR; a late answer closes
  the dialog of a newer QR; an approval carries no expected UTR; a failed queue read is cached as
  empty; references of three characters pass the page and fail the server.
- **Remittances**: previews are unguarded; what keeps a batch as shown is the server's check of the
  expected total.
- **Team**: a full-row save may reactivate a user deactivated meanwhile; two tabs of the owner can
  each hand the role over; the role may be handed to an inactive person, whose own edits are then
  refused (`tenants.py:902-939`).
- **Settings**: a load overwrites typing; typing during a save is lost; `expected_version` is never
  sent; old values shown from the cache can be saved back.
- **Prices**: a lane read again under an open draft makes the save send stale fields; an import is not
  tied to the report that was checked; the policy form is reset by the first read and its save
  replaces the whole policy.
- **Carrier card**: a recovery pressed again after a lost answer, from a reopened dialog or by a second
  person charges the gap twice (the key the endpoint supports is not sent); its success closes the
  form opened meanwhile; a blank weight or amount does not clear the stored one; a re-price after
  an override keeps its delta, so the bill of a parcel later weighed lighter can fall below zero
  (`repricing.py:1012-1045`) although "New final price must be greater than ₹0"
  (`carrier_billing.py:146-152`); the wallet pays nothing then.
- **Address book**: an optional field that is cleared keeps its old value under "updated
  successfully" (`edit-address-dialog.tsx:132-143`); adding a duplicate drops the other fields typed;
  the city of the old pincode stays "Verified" while a new one is looked up.
- **Support**: a conversation closed while it loads may be shown under the next one, and its
  buttons act on that one; a late reply answer replaces the conversation shown.

## 6. Not modelled, and what is next

Not modelled, because nothing is shared or decided there: pricing arithmetic and the quote
client, dashboards, labels, receipts and notifications, the marketing pages, the profile forms and the
building blocks of the front end, request routing and validation, migrations (their unique
indexes appear as guards).

Parts that have state and are not modelled: the read-through caches (a load that ends after
another process wrote), the login limiter (pruning by the caller's window), the numbering of GST
documents (max + 1 under an advisory lock), the lockout of pickup OTPs, an exception raised during a
dispatch, the selection of the temporal worker (`SKIP LOCKED`), and the savepoints of bulk answers.
Each is listed under "hazards" in `PROJECT.json` with its line and the reason. The first four
keep a map or a number of their own and touch no shipment or wallet; the exception during a
dispatch would be one more operation of `PickupRequests`.

Left for the proofs: `Custody` under every operation, with the steps that break it named in the
contract; the buyer's timeline, which needs induction over the log; and the conjunction of the
screens as one theorem about `MCDesks`.
