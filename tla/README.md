# A verification project for the nanny-app backend

TLA+ modules, TLC configurations and TLAPS proofs about the part of this
repository that decides who looks after whose child, when, and for what money:
`apps/backend` (an Express server over Prisma and Postgres) with the rules it
shares with its clients in `packages/shared`. Paths below are relative to
`src/apps/backend/src/services/` unless they say otherwise.

## 1. The system

Mothers request care, nannies claim requests, mothers pay through Paymob (a
hosted checkout, with webhooks), an operator watches and corrects everything
from a console. All of it is request handlers over one Postgres database, plus
two timers (the payment reconciler, and the sweep of stale extensions). The
handlers share nothing in memory: they meet in the rows.

What makes it hard is that a handler is `async`. It reads a row, awaits
(another query, a call to Paymob, a lazy import), and writes, and any other
handler may run at every await. Three kinds of write are used, and they differ
in what they survive:

* *guarded*: `updateMany` with the expected values in its `where`, then a look
  at `count`. Postgres (READ COMMITTED) evaluates the `where` on the row as it
  is when the write happens, so a stale read is noticed;
* *by id*: `update({ where: { id } })`. Whatever was read before is not looked
  at again;
* *in a transaction*: several statements commit together. A row lock is held
  from the first write to a row until the commit, but a plain read takes none,
  and the rows it returned may have changed by the time of the write.

### Inventory

| component | code | state it keeps | operations | correct when |
|---|---|---|---|---|
| status table | `packages/shared/src/booking.ts` | none | `canTransitionBookingStatus`, status lists | every handler's status change is in it |
| booking lifecycle | `booking.service.ts`, `admin-booking.service.ts`, `admin-booking-assign.service.ts` | `Booking`: status, nanny, times, start PIN, audit columns | create, accept, decline, cancel, release, start PIN, check-in, check-out, end early; approve, reject, override, assign, reschedule | one nanny per request, no nanny twice at a time, no live booking without a nanny, no change outside the table |
| booking checkout | `paymob.service.ts`, parts of `booking.service.ts` and `reward.service.ts`, `lib/paymob/*` | `Payment` rows, the booking's total and credit columns, the wallet | open or resume a checkout, webhook, poll, reconcile, zero settlement, redeem and remove points | money taken is recorded once and told about; nothing confirmed for less than it costs; points spent once and handed back once |
| console edit and refunds | `admin-booking-edit.service.ts`, `booking-adjustment.service.ts`, `payment-refund.service.ts` | `BookingAdjustment`, refunded amounts | preview and commit an edit, collect or settle the difference, refund | each obligation settled once; no refund above what was paid |
| mid-shift extension | `booking-extension.service.ts`, part of `paymob.service.ts` | `BookingExtension` | request, accept, decline, expire, pay, apply | hours added once, credits of a dead extension returned once |
| Care Points | `reward.service.ts` | `RewardWallet`, `RewardLedgerEntry` | earn, redeem, refund, grant, adjust | totals and balance are the ledger's sums (the balance is not: section 3), the balance never negative, a referral pays once |
| package hours | `package-hours.service.ts`, `package-purchase.service.ts`, `package-payment.service.ts` | `PackagePurchase`, hours ledger | buy, credit, spend soonest-expiring first, refund, re-apply | hours credited once per payment, never spent below zero |
| promo codes | `promo-code.service.ts` | `PromoCode`, redemptions | validate, reserve, redeem on capture, release | never used more often than allowed |
| referrals | `referral.service.ts` | `Referral` | claim a code, convert on first completed booking | one payout per referee |
| pricing | `pricing.service.ts`, `pricing-config.service.ts`, `duration-rule.service.ts`, `packages/shared/src/pricing.ts` | configuration | price a booking | parts sum to the total |
| accounts | `auth.service.ts`, `account-deletion.service.ts`, `email-verification.service.ts`, `unfinished-account.service.ts` | `User` | register, verify, delete, purge | an account with open obligations is not deleted |
| nannies and staff | `nanny.service.ts`, `admin-nanny.service.ts`, `admin-user.service.ts`, `certification.service.ts`, `id-document.service.ts` | `NannyProfile`, approvals | onboard, approve, suspend | only approved nannies work |
| conversations and notices | `conversation.service.ts`, `booking-chat.service.ts`, `notification.service.ts`, `email.service.ts` | threads, unread counts, outbox | send, read, broadcast | best effort |
| surveys, campaigns, groups | `survey*.service.ts`, `campaign.service.ts`, `*-audience.service.ts`, `admin-group.service.ts` | content and audiences | publish, answer, select | published once |
| community, care log, cameras, children, addresses, legal, support, app releases | the services of those names | content | create, read, update, delete | ownership checks |
| console, mobile app | `apps/admin`, `apps/mobile` | client state | screens over the API | not in this project |

### How they interact

`Booking` is where everything meets. The lifecycle calls the checkout
(`confirmBookingIfNothingOwed`, `assertNoPaymentInProgress`) and the checkout
writes the booking's status (`captureAndConfirmBooking`). Credits (points,
hours, promo) are columns of the booking and rows of their own ledgers, changed
together in transactions. Completing a booking earns points and pays a referral.
Cancelling returns credits. The console calls the same helpers as the apps, but
most of its own status writes are by id.

## 2. Modules

| module | what it is |
|---|---|
| `BookingStatuses` | the status enum, the transition table and the status lists; no state |
| `AbstractLifecycle` | what the booking handlers promise together, one step per change |
| `BookingLifecycle` | the handlers of the booking lifecycle, split at every await |
| `MCBookingLifecycle` | its instance for TLC |
| `BookingLifecycleProofs` | invariants of the handlers for any number of overlapping requests; the refinement: handlers that do not overlap implement `AbstractLifecycle`, and its invariants |
| `BookingCheckout` | the money of one booking: payment attempts, Paymob's pages, points, and the handlers that settle or cancel |
| `BookingCheckoutProofs` | invariants of the checkout for any number of attempts and overlapping handlers, and of handlers that do not overlap |
| `CarePoints` | wallets, the points ledger, referrals: awards, redemptions on bookings and their returns, grants |
| `CarePointsProofs` | lifetime totals agree with the ledger and a referral pays each side once, for any number of overlapping handlers |
| `PackageHours` | prepaid hours: buckets, their ledger, and the bookings and extensions that draw from them |
| `PackageHoursProofs` | the buckets balance and cancels return hours, for any number of overlapping handlers |
| `PackageCheckout` | buying a package: purchases, attempts, pages, and the capture that makes a bucket |
| `PackageCheckoutProofs` | captures are final, for any number of overlapping handlers |
| `BookingExtension` | extra hours for a shift under way: request, answer, credits, payment, application, end |
| `BookingExtensionProofs` | credits, hours and captures of handlers that do not overlap but may be cut short |
| `BookingEdit` | the console's change of a price (0 included), the balance it bills, and refunds to the card and in points |
| `BookingEditProofs` | prices are covered and refunds add up, for any number of operators at once |
| `SumTheorems` | sums over finite sets, and the induction they need: what one changed, added or removed term does to a sum |
| `MCCarePoints`, `MCPackageHours`, `MCPackageCheckout`, `MCBookingExtension`, `MCBookingEdit` | their instances for TLC |

### BookingLifecycle

State: one function per column that matters (`status`, `nanny`, `slot`,
`covered`, `billed`, `pin`) and `req`, the handlers in progress. A booking's
times are a member of `Slots`, and two bookings overlap when they have the same
slot, which is what `assertNoConflict` can tell apart. `covered[b]` is "total
<= 0", `billed[b]` "a checkout has been opened".

A handler occupies a slot of `Requests` from its first read to its last write.
`req[r]` records what it does, where it is (`pc`), which booking, on whose
behalf, and `seen`, the row it read. Each await between two database accesses
is a step boundary:

| code | actions |
|---|---|
| `applyNannyDecision` (accept an open request) | `ClaimRead`, `ClaimConflict`, `ClaimWrite`, then the settlement |
| `cancelBooking` | `CancelRead`, `CancelCheck` (asks Paymob), `CancelSettle`, `CancelReread`, `CancelWrite` or `ReleaseWrite` |
| `approveBooking`, `rejectBooking`, `setBookingStatus` | `ApproveRead`, `RejectRead`, `OverrideRead`, then `ConsoleWrite` (by id) |
| `assignBookingNanny` | `AssignRead`, `AssignConflict`, `AssignWrite` (guarded) |
| `updateBookingTimes`, `applyBookingEdit` | `RescheduleRead`, `EditRead`, `RescheduleConflict`, `RescheduleWrite` (by id), `EditWrite` (guarded on the revision) |
| `captureAndConfirmBooking` | `CaptureRead`, `CaptureWrite` (by id) |
| `confirmBookingIfNothingOwed`, `confirmBookingWithoutPayment` | `SettleRead`, `SettleRequest`, `SettleWrite` (guarded) |
| `generateStartPin`, `checkInBooking`, `completeBooking` | `PinRead`, `PinWrite`, `PinLapses`, `CheckInRead`, `CheckInWrite`, `CompleteRead`, `CompleteWrite` |
| `markRefunded`, `redeemBookingPoints`, `returnUnpaidCredits`, `openIntention` | `MarkRefunded`, `RedeemPoints`, `ReturnCredits`, `OpenCheckout` (one step each here: their status effect is one guarded write) |

The clock is not modelled: a time window may be open or closed whenever it is
looked at, and a PIN may lapse at any moment. `winners` is a history variable:
the nannies told that they have the booking since it was last open.

Two readings of the module matter. With one request slot, handlers run to their
end before the next begins: this is what a unit test sees, and there the
handlers implement `AbstractLifecycle` (`ImplementsAbstract`, model-checked and
proved). With more slots they overlap, and only what the guarded writes protect
is left: the three properties of `lifecycle_concurrent`, proved for any number
of slots. What is lost in between is `shift_called_off` and the table that
section 3 ends with. A conflict query and the write after it use the times and the
booking as read (`seen`), as the code does.

### BookingCheckout

State: the booking's columns that money depends on (`status`, `total`, `points`,
and `zeroPaid` for the CAPTURED payment of zero), the wallet, one function per
payment column (`pay`, `amount`, `link` for the client secret, `tries` for the
reconciler's counter), and Paymob's side (`page`, `age`). One unit of money is
the price of an hour and costs one point: `redeemBookingPoints` trades in whole
hours. `payers` and `told` are history: the attempts whose capture confirmed
the booking, and those reported as money with nothing to pay.

| code | actions |
|---|---|
| `createPaymobIntentionForBooking`, `openIntention` | `PayRead`, `PaySupersede`, `PayCreate`, then `PayStore` or `PayRefused` (both by id) |
| `processPaymobWebhook`, `reconcileStalePaymobPayments`, the mother's sync | `WebhookSuccess`, `PollSuccess`, `AttemptFails`, `ReconcileOpen` |
| `captureAndConfirmBooking` | `CaptureMark` (the payment row is written and locked, the booking read), `CaptureCommit` |
| `confirmBookingIfNothingOwed`, `confirmBookingWithoutPayment`, `settleWithoutCharge` | `SettleRequest` or `SettleRead`, `SettleSync` per open attempt, `SettleZero` (guarded on the total) |
| `redeemBookingPoints`, `refundBookingPoints`, `returnUnpaidCredits` | `RedeemRead`, `RedeemWrite`, `RemoveRead`, `ReturnPoints` (guarded) |
| `cancelBooking`, `rejectBooking` | `CancelRead` or `RejectStart`, `CheckNone` or `CheckOpen` (asks Paymob), `CancelReread`, `ReturnPoints`, `CancelWrite` (guarded) or `RejectWrite` (by id) |
| `setBookingStatus(CONFIRMED)` | `OverrideRead`, `OverrideWrite` (by id) |
| the hosted page | `MotherPays`, `CardDeclined`, `TimePasses`: external, from how the code polls it and reads its answers |

Each page ages `fresh`, `stale` (our 90 minutes are over: it is not handed out
or asked about again), `expired` (Paymob's are: it takes no money). Our clock
starts first, so the order is fixed. Two constants choose the environment:
`Reliable` (Paymob's API always answers) and `Retriable` (a page takes another
card after a decline).

A row lock matters in one place: the capture writes the payment first and the
booking last, so `Locked` keeps the decline, the timeout and the superseding
update out in between, while readers still see the old row.

### CarePoints

State: `wallet` (balance and lifetime totals), `ledger` (one sequence of rows per
mother), `referral`, and of a booking its status and the points on it.
Two ways of writing a wallet meet here: handlers that read the balance and write
it back (`awardPointsForBooking`, `creditPoints`, `grantPoints`), and single
statements relative to it (`applyBookingRedemption`, `refundBookingRedemption`,
`bulkGrantPoints`). Nothing keeps them apart. `getOrCreateWallet` is an upsert
with an empty update, which writes nothing to a row that is there and so locks
nothing: what commits between `ReadWallet` and `CreditWallet` is overwritten, in the
balance. The lifetime totals are incremented by every handler, and survive.

| code | actions |
|---|---|
| `completeBooking` | `CompleteRead`, `CompleteWrite` (by id), then `AwardCheck` or `AwardOff`, `ReadWallet`, `CreditWallet`, then `ConvertRead` or `ConvertOff`, `ConvertClaim` (guarded), `ReadWallet`, `CreditWallet` |
| `applyReferralCode` | `ApplyRead`, `ApplyCreate` (unique key), `ReadWallet`, `CreditWallet` |
| `grantPoints`, `bulkGrantPoints` | `Grant`, `ReadWallet`, `CreditWallet` or `NothingToRevoke`; `BulkGrant` |
| `applyBookingRedemption` | `Redeem`, by the mother or by an edit |
| `refundBookingRedemption` | `Return`, which clears the row in the same transaction (the mother's removal, a cancel before payment, an edit); `CancelRead`, `CancelWrite` (a cancel of a paid booking, `returnPaidBookingCredits`), which leaves the points on it |
| payment, check-in | `Pay`, `StartShift` |
| the server stops | `Crash`, at any step: the open transaction is undone, and nothing repeats the handler |

One lock is left, that of a referral which an open transaction has claimed or
inserted (`ReferralLocked`). `missed` is history: the bookings whose completion was
cut short, or found the programme off.

Not every handler that moves points is here. An extension's points leave and enter
the wallet by the same relative statements, and `BookingExtension` has their life;
an edit that redeems another *number* of points is a `Return` and a `Redeem` here,
always of `Cost`; the grant that closes a refund is `BookingEdit`'s.

### PackageHours

State: the buckets (`status`, `left`, `due`, and `lost` for the EXPIRY row), and
for each booking and extension the hours applied and its ledger rows per bucket
(`drawn`, `live`, `back`): the unique key on scope, bucket and type makes a
function of them. Nothing of the ledger is kept as a sum; `LedgerSum` adds it up.

| code | actions |
|---|---|
| `creditPurchaseHours`, `expirePackagesForUser` | `Activate`, `Expire` (status first, then what is left) |
| `requestBookingExtension` | `Ask`, while the shift runs |
| `redeemPackageHours` in `createBooking` and `respondToBookingExtension` | `DrawPlan` (reads the buckets), `DrawWrite` (guarded debit; an extension is then accepted by id, whatever it has become), `DrawNothing` |
| payment, check-in, check-out | `Pay`, `Start`, `End` |
| `applyPaidExtension` | `ApplyRead`, `ApplyWrite` (by id: the extension's hours are added to the booking's column) |
| `refundPackageHoursIfApplied` and the cancel after it | `CancelRead`, `CancelReturn` (guarded), `CancelWrite` (by id from the console, guarded from the parties) |
| `returnPaidBookingCredits`, and paid cancels that keep the hours | `CancelPaid` |
| `settleExtensionUnpaid` | `SettleRead` (the rows as read), `SettleWrite` (the unique key) |
| `reapplyPackageHoursForBooking` | `Edit`: the rows altered in place, or soft-deleted |

After an extension is paid the booking's column counts hours whose rows belong to
the extension, so a booking's column is not the sum of its own rows, and no property
says that it is. The balance that matters is the bucket's.

`overtaken` marks what others moved behind a return. A booking may be edited after
its hours were returned, or found to be none, and before the cancel writes: the
hours come back twice, or stay out, since the edit restores or draws rows behind it.
An extension may be accepted, with hours, after its settlement has read its rows.
`EditBound` leaves such a booking alone afterwards, which keeps the graph finite. A
stale override of the console that brings a booking *back* is not modelled here; one
that cancels it is (`byId`).

### PackageCheckout

State: a purchase's `status`, `slot` (`isActiveSlot`), whether its hours are
still `usable`, and its PURCHASE rows; per attempt `pay`, `of`, `link`, `tries`;
and Paymob's `page` and `old`. The capture is a transaction of three steps
(`CaptureUpdate`, `CaptureCredit`, `CapturePromote`) of which readers see
nothing until the last, and which the unique key may abort; `Locked` keeps other
writers off the payment's row meanwhile. A captured payment that finds the slot
taken is recorded and reported (`CaptureStranded`).

`createPackagePurchase` says that it "never leaves two checkouts payable at
once" (`package-purchase.service.ts:62`). It does: two requests both read no open
checkout before either writes, and a superseded or abandoned attempt can be paid
while its page lives. `PaidIsRecorded` and `StrandedBehindActive` say what holds
all the same, and `OpenInit` starts from exactly that state.

### BookingExtension

State: the shift (`status`, `extra` hours), the extensions (`ext`, `late`,
`owed`, `points`, `hours`), her credits (`wallet`, `bucket`), one payment per
extension, and `req`. An extension that ends is settled by a loop that others
share (`SettleRead`, `SettleWrite` under the sweep, a decline, a withdrawal, the
end of the shift). The bounds are `Requests` and `MaxCrashes`.

| code | actions |
|---|---|
| `requestBookingExtension` | `RequestRead`, `RequestCreate` |
| `respondToBookingExtension` | `DeclineRead`, or `AcceptRead`, `AcceptWrite` (by id, with the hours) |
| `redeemExtensionPoints` | `RedeemRead`, `RedeemWrite` (by id, from what was read) |
| `createPaymobIntentionForExtension`, `finalizeExtensionPaymentCaptured` | `PayRead`, `PayOpen`, `CaptureRead`, `CaptureWrite` |
| `applyPaidExtension` | `ApplyRead`, `ApplyBooking`, `ApplyWrite` (by id, absolute totals) |
| `settleExtensionUnpaid` and its callers | `Sweep`, `WithdrawRead`, `Complete`, `SettleRead`, `SettleWrite` |

### BookingEdit

State: the booking's `status`, `total` and `settled` (what was refunded in
points), `fresh` (the edits in flight whose row has the `updatedAt` they read),
one payment with `refunded`, what Paymob has `sent` back, the balances an edit
raised and the payments of each that were captured (`taken`), and `granted` points.
`Prices` are the totals an edit may arrive at, 0 when credits cover everything;
`MaxBalances` bounds the adjustment rows and `MaxPages` the captures of one.

| code | actions |
|---|---|
| `applyBookingEdit` | `EditRead` (with what was paid), `EditWrite` (guarded on `updatedAt`) |
| `createPaymobIntentionForBooking`, `captureAndConfirmBooking` | `PayRead`, `PayCreate`, `PayFailed`, `Capture` |
| `settleWithoutCharge` | `SettleWithoutCharge`: a total of 0 is confirmed by a payment of 0 |
| `finalizeAdjustmentPaymentCaptured` | `BalancePaid`: neither opening nor capturing a balance reads the booking; the second page of a balance that is paid takes the money and matches no row |
| `refundBooking` to the card | `RefundToCard`, `CardSend` (Paymob), `CardRecord` (guarded), `CardClose` |
| `refundBooking` in points | `RefundInPoints`, `PointsSettle` or `PointsShut` (guarded), `PointsGrant` |
| `cancelBooking`, `updateBookingTimes` | `Cancel`, `Reschedule` |

Two operators who edit, and two who settle in points, are kept apart by guards
(`TouchGuard`, `SettleGuard`, `ShutGuard`): those overlaps are always explored.
`odd` records everything else that has happened and has no guard, and the
properties say what they need of it:

* *overlap*: two card refunds of one overpayment are sent, if what is left on
  the payment covers both; a refund to the card and one in points both go
  through; an edit works from the money as read while a refund gives some of it
  back; a checkout opens between an edit's check and its write.
* *amount*: a checkout's attempt is captured at the price it was opened with,
  whatever the price has become.
* *reschedule*: `updateBookingTimes` prices the new hours of a paid booking and
  bills nobody.
* *crash*: the server stops after Paymob's refund or a settlement in points, and
  before the row or the grant.

The schema says that an operator or a later edit voids a balance
(`schema.prisma:1084`). No code does, and the balance of a booking that is called
off stays payable.

## 3. What is checked

### Runs that pass

| run | instance | shows |
|---|---|---|
| `lifecycle_serial` | 2 requests for care (one covered, one routed to a nanny), 2 nannies, 2 times of day, 1 handler at a time | the handlers, one after the other in any order, implement `AbstractLifecycle`; no nanny is booked twice at a time; a live booking has a nanny |
| `lifecycle_concurrent` | 1 request for care, 2 nannies, 2 times of day, 2 handlers at a time | what the guarded writes promise under every interleaving: one winner per opening, releases only of unpaid bookings, no assignment to a booking that is under way or over |
| `checkout_serial` | price 2, one point, 2 attempts, 2 reconciler tries, 1 handler, an unreliable Paymob | one payment confirms, a repeated callback raises no alarm, points come back once, and a cancel before payment keeps none |
| `checkout_concurrent` | price 1, two points, 1 attempt, 2 tries, 2 handlers, a page that takes a second card, under fairness | nothing is recorded as captured that was not taken, and a capture is never taken back; a zero confirm owes nothing; no point is lost; money taken is recorded; no linked attempt stays pending |
| `care_points` | 2 mothers, 1 booking, referrals either way, grants of 1 and -2, 2 handlers, crashes, ledgers of 2 rows | lifetime totals agree with the rows, also where a balance is overwritten; a referral pays each side once; a completed booking earns its points unless the server stopped |
| `package_hours` | 2 buckets of 2 hours, a booking to be made, a running booking with 1 extension, 2 handlers, crashes | a usable bucket equals its ledger, through edits that alter rows in place; what is called off has its hours back |
| `package_checkout` | 2 purchases, 2 attempts, 2 tries, 2 handlers, crashes, from one or two open pages on, under fairness | a capture is final; money is recorded without hours only behind another active bucket; money taken is recorded, even if the unique key aborts the first try |
| `extension` | 2 extensions of 2 hours, 2 points, 1 prepaid hour, 1 handler, 1 crash, under fairness | credits add up; hours are added once; captured money adds its hours unless the handler was cut short; an open request ends |
| `booking_edit` | the prices 0, 1 and 3, 2 balances, 2 captures of each, 2 handlers | one balance open at a time; a booking with money on it that costs more has a balance of exactly the difference; no refund above what was paid; points are granted for what was settled |

### Why the bounds are enough

Every property is about one booking's rows, or about two bookings of one nanny.
Two nannies and two bookings make every collision possible (the same booking,
the same nanny, the same time). A second handler is what turns a read into a
stale one; each of the races in the table below needs two and no more. Two
attempts give a superseded page next to a live one; two reconciler tries give
one that reschedules and one that gives up (the code has five, all alike). A
price of two leaves a booking partly covered by one point (`checkout_serial`); a
price of one is covered or not, with a point to spare (`checkout_concurrent`).
Two overlapping handlers *and* two attempts make a graph too large for a few
minutes: `checkout_concurrent` has one attempt (its supersede is the one of a
second handler that started before the row existed), `checkout_serial` has two.
What the bounds leave open of the concurrent properties is closed by the proofs
of section 4, which have none.

The other modules have bounds of their own, each named where it is used:

* `MaxRows` (`CarePoints`): nothing new is begun on a ledger of that length.
  Two rows are a credit and what follows it; a handler in progress, or a return,
  may still write a third.
* `Size`, `Wanted`, `EditBound` (`PackageHours`): a booking takes all of a bucket
  of two hours, an extension half of it, and what a draw wants may be more than is
  left; two buckets let a draw move from one to the other.
* `MaxAttempts`, `RowLeft`, `MaxTries` (`PackageCheckout`): a payment row is left
  for every handler that is about to create one. Two attempts are one each for
  two purchases, or two for one.
* `MaxCrashes` (`BookingExtension`): one crash cuts one handler short; the second
  extension shows what the next request makes of it.
* `MaxBalances`, `MaxPages` and `Prices` (`BookingEdit`): three prices are enough
  for a price to rise, fall (to nothing, when credits cover it) and rise beyond; two
  balances for the second to be wrong because of the first; two captures for a
  page that is paid after another.

Request slots are interchangeable. They are a symmetry set in the runs of
`BookingLifecycle`, `PackageHours` and `BookingEdit`, none of which checks liveness.

`CHECK_DEADLOCK FALSE` is set where the system may stop: a completed or
cancelled booking has nothing left to do, and when all attempts, ages, rows and crashes of the model are used up neither has
the rest.

### Fairness

`FairReconciler` assumes that a handler that has begun is run to its end
(`WF` of `Proceed`; Node runs every awaited continuation, and a statement that
fails ends the handler), that the reconciler ticks (`WF` of `ReconcileOpen` and
`AttemptFails`; a `setInterval` in `server.ts`), and that a poll finds a slot in
the end (`SF`, because slots are a bound of the model, not of the server).
`FairCallbacks` adds that Paymob repeats a callback until it is answered. No
fairness is assumed of mothers, cards, nannies, operators or clocks.

`CarePoints`: a handler that has begun goes on unless the server stops, and a
locked referral is handed to those who wait for it (`SF` of its steps; Postgres
queues them). `PackageCheckout`: handlers run to their end (`WF`), and callbacks are
repeated (`SF`, since a handler may be in the only slot). `BookingExtension`: the
deadline passes (`WF`), the 30-second sweep (`startBookingExtensionExpiryScheduler`)
finds a slot in the end (`SF`), and handlers run to their end (`WF`). Crashes are
not fair anywhere: they may happen and need not.

### The runs that find a violation

`edit_billed_twice` checks what `admin-booking.service.ts:84-87` says of the sum
that the editor, the refund guard and the detail page agree on, that it counts
every payment on the booking. The payment of a balance belongs to the balance
alone, so it is not among them: she pays 1, an edit raises the price to 3, she
pays the balance of 2, and an edit that leaves the price at 3 bills another 2. A
cancel then finds only the first payment to refund. One request slot is enough.

`shift_called_off` checks what the parties' cancel says of itself, that a shift which
has begun is not called off by a party (`NoPartyCancelsShift`). It takes two slots.
The cancel reads an approved booking and asks Paymob about its payment; other handlers
confirm the booking and check the nanny in; the cancel then reads the row again, takes
the status it finds there for the guard of its write, and ends the shift.

`wallet_lost_update` checks what the schema says of the points' ledger, that it is the
history of every movement with the running balance after each (`StatementsAddUp`). A
grant reads the wallet, a bulk grant adds to it, and the grant writes the balance it
read plus its own points: both rows are in the history, the points of one are gone.

### Known disagreements that no run checks

Each of these is a property that a module states and the code does not have. They
are kept as definitions; to see one fail, change the configuration as the table
says, list the property (`CaptureConfirmsAssigned` and `PaidIsRecorded` as a
PROPERTY, the others, which are state predicates, as an INVARIANT), and run it.

| property | in | how | what happens |
|---|---|---|---|
| `NoDoubleBooking` | `LifecycleSerial.cfg` | a second request slot | two requests claimed at once: each conflict query (`booking.service.ts:960`) runs before the other's write |
| `OnlyHolderReleases` | `LifecycleSerial.cfg` | a second request slot | a nanny's cancel asks Paymob, an operator assigns another nanny meanwhile, and the cancel, which reads the row again and not who asks, gives her booking back (`booking.service.ts:1588`) |
| `CaptureConfirmsAssigned` | `LifecycleConcurrent.cfg` | as it is | the nanny gives the booking back between the capture's read and its write by id (`paymob.service.ts:224`) |
| `CoveredNeedsNoPayment` | `LifecycleSerial.cfg` | as it is | an assignment of a request that owes nothing never confirms it (`admin-booking-assign.service.ts:89`) |
| `OneConfirmation` | `CheckoutSerial.cfg` | a second slot | two attempts captured at once both confirm, and nobody hears of the second |
| `NoFalseAlarm` | `CheckoutSerial.cfg` | a second slot | callback and poll of one payment: it is reported as stranded money (`paymob.service.ts:133`) |
| `ChargedWhatIsOwed` | `CheckoutSerial.cfg` | as it is | an open page is handed out at the amount before the points (`paymob.service.ts:484`) |
| `PaidIsRecorded` | `CheckoutConcurrent.cfg` | `SPECIFICATION PollSpec` | with callbacks lost, a payment on an attempt that was given up is never polled |
| `EarnedOnce` | `CarePoints.cfg` | as it is | a check-out and an early end overlap: both look for the EARN row before either writes one (`reward.service.ts:198`) |
| `ReturnedOnce` of `CarePoints` | `CarePoints.cfg` | as it is | an edit takes the points off a paid booking that a cancel has read with them: they come back from both (`booking.service.ts:1648`) |
| `CancelReturnsHours` | `PackageHours.cfg` | `Scopes \ kept` for `Scopes \ (kept \cup overtaken)` in it | an extension accepted, with hours, behind the settlement that read its rows loses them (`booking-extension.service.ts:345`); so does a booking edited behind a cancel (`package-hours.service.ts:318`) |
| `DeficitIsBilled` | `BookingEdit.cfg` | `0 < NetAmountPaid` struck from it | a booking confirmed at 0, or refunded in full after an edit to 0, is edited up: there is no money on it, so no balance is raised and nobody is billed (`admin-booking-edit.service.ts:688`) |
| `ReturnedOnce`, `HoursAddedOnce` | `Extension.cfg` | 1 extension, 2 slots, no crash | two settlements, or two applications, both read the extension as open (`booking.service.ts:894`, `booking-extension.service.ts:471`) |

One more has no property, because no row tells: a second page of a balance that is
paid takes her money and matches nothing (`paymob.service.ts:817`; `taken` in
`BookingEdit`).

The properties that the table breaks with a second slot are promises of handlers that
do not overlap, and are checked with one where a run has them. With two, a redemption
can also leave its points on a booking being cancelled, and a stale confirm by id can
bring a cancelled booking, and its points, back.

## 4. What is proved

Every safety property that a passing run checks is a theorem, for every value of
the constants: of any set of overlapping handlers where the run has two slots,
and of handlers that do not overlap (`Requests = {r}`) where it has one. The
second kind is not a weakness of the proofs. Section 3 shows for most of those
properties how a second handler breaks them; what the theorem says is that
nothing else can.

### Assumptions

| module | assumed of its constants |
|---|---|
| `BookingLifecycle` | the null nanny is not a nanny; the covered and the routed requests are bookings |
| `BookingCheckout` | price and tries are positive; purse and attempts are natural numbers |
| `CarePoints` | every booking has an owner; mothers are not bookings; the amounts are positive, no grant is zero; there are finitely many bookings |
| `PackageHours` | the size and the wanted hours are positive; an extension belongs to a booking and is not one; finitely many buckets, bookings and extensions |
| `PackageCheckout` | attempts are a natural number and tries a positive one |
| `BookingExtension` | the hours are positive, purse and prepaid hours natural numbers; finitely many extensions |
| `BookingEdit` | the prices are natural numbers, 0 included; finitely many requests are under way at once |

Finiteness is assumed only where the rows of a set are added up: a table, and the
requests in progress, are finite. `MaxRows`, `MaxAttempts`, `MaxCrashes`,
`MaxBalances` and `MaxPages`, which bound TLC's graph, are any natural numbers here.

### Sums

`CarePoints`, `PackageHours`, `BookingExtension` and `BookingEdit` say that a
column agrees with the sum of others, as `SumFunctionOnSet` of the community
modules computes it. `SumTheorems` has what an action does to such a sum: nothing
if it changes no term (`SumSame`), the difference if it changes one
(`SumChange`), a term more (`SumAdd`) or less (`SumRemove`); and that sums of
naturals are naturals (`SumNat`), of zeros zero (`SumZero`). They all rest on
`SumEquation`, which unfolds the recursive function under the operator. The
library's induction theorems take the hypothesis as an operator, which no
installed prover can instantiate; `NaturalsClosed` and `SubsetsClosed` take it as
a *set* instead, and are proved from the least counterexample, which the order on
the naturals has.

### BookingLifecycle

* `LifecycleTypes`: `TypeOK` is inductive as it stands. One lemma per kind of
  actor (`PartyType`, `ConsoleType`, `PaymentType`, `ShiftType`), one step per
  action.
* `OneWinner`: rests on `ChangesOfHands`, which lists the only three ways a
  row's nanny changes (a claim of a nannyless row, a release, an assignment of
  a row whose nanny is as read) and what each does to `winners`.
* `ReleasesAreUnpaid`: the release compares the status and the nanny with the
  row it read, and it was reading an unpaid one.
* `AssignmentsAreTimely`: needs a strengthening, that an assignment in flight
  read an assignable status (`AssignsWereAllowed`), because the write compares the
  status only with what was read.
* `SoloRefinement`: with `Requests` a singleton, `SoloInv` says of a handler
  between its read and its write everything that nobody else can disturb: the
  row is still as read and what was checked still holds. Each action then maps
  to an abstract action or to a stutter. `SoloNeverDoubleBooks` and
  `SoloLiveHasNanny` come through the refinement from theorems about the abstract
  life alone, `AbstractNeverDoubleBooks` and `AbstractLiveHasNanny`.

### BookingCheckout

`CheckoutInv` is the conjunction of four parts, and the theorems
`CheckoutTypes`, `CapturedWasTaken`, `ZeroPaymentOwesNothing`, `NoPointsLost`
and `CapturesAreFinal` all come from it, for any set of overlapping handlers.

* *Slots*: what each handler in progress knows that nobody can take from it.
  The one that is about to store a link has a row of its own that has no page
  yet; the one that captures names an attempt that was paid, since
  a paid page stays paid. Without it `PayStore`, by id, could erase the fact
  that money was taken.
* *Payments*: what a row's status says about its page (captured means paid; a
  row that does not exist has neither page nor link).
* *Money*: the total and the points add up to the price, whoever moves them,
  which is what the guards of `RedeemWrite` and `ReturnPoints` are for; and
  what left the wallet is on the booking.
* *History*: a zero payment is on a booking that is confirmed or cancelled,
  never on one that can still gain or lose points, so it owes nothing later
  because it owed nothing when it was made.

`SoloInv` adds what holds while handlers do not overlap, and gives
`OnePaymentConfirms`, `NoAlarmIsFalse`, `PointsComeBackOnce` and
`UnpaidCancelsReturnPoints`. *SlotsSee*: a capture in flight is of a payment that
is not captured, of a booking whose status is as read; a cancel that is about to
write found the booking unpaid and without points, or paid and with the points it
returns. *SoloMoney*: until the booking is called off, wallet and points are the
purse. *SoloHistory*: whoever confirmed, or was reported as stranded, is captured,
so that a second report of the same payment is not of a capturable row.

### CarePoints

`TypeInvariant`, `LifetimeTotalsAgree` and `ReferralsPayOnce` hold of any number of
overlapping handlers, wherever they crash. None of them needs a lock on the wallet.

* *Balances* never go below zero, although a credit writes over whatever was there:
  what it writes is the balance it read plus points that are clamped at it
  (`Delta`), a debit is conditional, and a return adds. `TypeInvariant` says so.
* *Totals* are incremented, never overwritten, by the same statement or transaction
  that adds the row: two equations per mother (`Totals`), which each action keeps
  (`CreditTotals`, `GivesBackTotals`). They say nothing of the points on bookings: a
  paid return leaves those on the row.
* *Referrals* pay once because of `ReferralsHeld`: of the handlers of one referral
  only one is past its guarded claim, or its unique insert, with the status still as it
  was before. `ReferrersKnown` says that whoever credits a referrer knows who that is.

That the balance is the sum of the rows is not provable, being false
(`wallet_lost_update`).

### PackageHours

`HoursInv` gives `BucketsAlwaysBalance`, `CancelsReturnHours` and `TypeInvariant`, for
any number of overlapping handlers.

* *Of a bucket* (`BucketInv`): a usable one holds what its ledger adds up to, whatever
  happens to its bookings; and nothing is written of one before it is paid for, so that
  its activation starts from an empty ledger. The balance needs no exception for
  overtaken bookings: an edit alters rows and bucket together.
* *Of a booking or extension* (`RestIsReturned`): once it is credited with nothing, or
  is called off, every row is returned or of an expired bucket. `CancelReturnsHours`
  is the part about called-off ones; the part about bookings with no credit is what
  a later draw, which adds rows, starts from.
* *Of a handler* (`Knows`): a settlement has seen every row there is to return, a cancel
  that is about to write has left an unpaid booking no hours, unless something came in
  between (`overtaken`), and an extension's hours go to a booking that is past paying,
  so that what `ApplyWrite` puts in its column is of no account to a return.

### PackageCheckout

`CheckoutInv` gives `CapturedStaysCaptured`, `NothingStrandedAlone` and
`TypeInvariant`. Its part that is not obvious is `OpenersAreAlone`: a handler
between creating a row and the answer of Paymob is the only one with that row,
which has no page. Without it a refused page could close, by id, the row of
another that was paid meanwhile.

### BookingExtension

`TypeInvariant` holds of any number of handlers. `CreditsAlwaysAddUp`,
`HoursAlwaysAddedOnce` and `CapturesAreApplied` come from `SoloInv`, for handlers
that do not overlap but may be cut short at any step: what a handler has read is
so when it writes (`HandlersRely`), nothing is reserved or opened before the
nanny's answer (`NothingBeforeAnswer`), and a capture that is not applied is in
the hands of a handler, or its handler was cut short (`CaptureIsCarriedOn`).

### BookingEdit

`EditInv` gives `PriceAlwaysCovered`, `RefundsAlwaysAddUp` and `TypeInvariant`, for
any number of operators and any prices, 0 among them. That a deficit is billed
(`Covered`) is about bookings with money on them, which is where the code looks.

* `FreshSawNothingOpen`: an edit whose row is as it read it has seen that nothing is
  open. This is why one balance is open at most: the write that raises one touches
  the row, and no other edit is fresh after it.
* `HandlersSee`: what each of the four kinds of handler read is so when it writes, as
  far as its guard compares it or nothing unguarded (`odd`) came between. Two guarded
  writes of one row cannot both succeed, since each moves the figure that the other
  compares (`req[r].before`).
* `SentIsKnown`: what Paymob sent is on the row, or one handler is about to put it
  there and its guard will let it. `GrantsAddUp`, `ClosedOnce`: the points granted and
  those that handlers are about to grant are what was settled.

### What is only model-checked

Liveness: `PaidIsRecorded` (of a booking and of a package), `PendingEnds`,
`CompletionPays` and `OpenEnds` depend on fairness, and ENABLED is out of the
prover's reach. The violations of `BalanceIsDifference`,
`NoPartyCancelsShift` and `StatementsAddUp` and the disagreements of section 3 are
TLC's. Each inductive invariant was checked by TLC, on the instances
of the runs, before it was proved.

## 5. What is not modelled, and the plan

Not modelled on purpose:

* the apps and the console: clients of the API, with no state the server relies
  on. They, their shared request schemas, the seed data and the test scenarios
  are most of the repository's lines, which is why the map covers a small part of
  them: it names the code in which two actors can meet;
* content and profile records: single statements with an ownership check and no
  interplay with bookings or money;
* notifications: best effort, after a handler's last write, and read by no
  modelled handler;
* signature checks, access rights, sign-in, and the mock payment of
  installations without Paymob;
* pricing and rounding: sequential arithmetic; the modules take prices as
  constants;
* creating a booking. Its guard against a double tap (`booking.service.ts:1207`)
  and a promo code's caps (`promo-code.service.ts:132`) are queries before a
  write, with no key and no lock behind them, and the count of open bookings
  before an account is deleted (`account-deletion.service.ts:91`) is a query
  before the delete: each allows the overlap, and nothing further happens in
  them that a model could tell apart.

Abstractions shared by the modules: times are intervals that are equal or
disjoint, the clock is any order of its events that the code allows, and a
statement that fails ends its handler. Handlers are cut short by crashes in
`CarePoints`, `PackageHours`, `PackageCheckout`, `BookingExtension` and
`BookingEdit`, not in the two first modules.

Next, in this order:

1. An abstract checkout (a price, what was taken, what is owed) that
   `checkout_serial` implements, with the refinement proved from `SoloInv`.
2. The parts of the solo theorems that survive overlap, stated for any number of
   handlers: that the second of two captures of *different* attempts is the only way
   to confirm twice, and that an extension's points come back at most once per
   settlement.
3. `createBooking` and the promo code's reservation, as one module, if a document or a
   test comes to say what should hold when two requests overlap.
