# Verification of finance-engine

TLA+ models of the Go server in `src/`, the TLC configurations that check them
on small instances, and TLAPS proofs of the safety properties for every instance.
The repository has no tests; these models are about the parts of it where a
test would have the hardest time: handlers that read a row, call a provider and
write the row back while other handlers run.

## 1. The system

One process (`cmd/server/main.go`, one replica) serves REST for the web, gRPC
for iOS and webhooks for two providers, over one PostgreSQL database and a
Redis, without which it does not start. Each request runs in a goroutine of its own. The services do
not use transactions or row locks: every statement is its own transaction, so
what a handler read may be stale when it writes. `main` also starts the
retention sweep, the rate sync and Redis/HTTP clients.

| component | state it keeps | operations | talks to | what makes it correct |
|---|---|---|---|---|
| billing (`internal/service/billing`, `internal/webhook/liqpay.go`, `pkg/liqpay`) | `users.plan, subscription_status, trial_ends_at, liqpay_order_id`; `payment_events` | StartTrial, Subscribe, HandleCallback, Cancel, Receipts | LiqPay: signed form through the browser, server-to-server unsubscribe, callbacks | a paid plan only for who paid; one user's order never touches another's row; the fields of a row agree; a paid checkout is eventually applied |
| admin (`internal/service/admin`, `internal/rest/admin.go`) | the same rows | SetPlan, ExtendTrial, CancelSubscription, listing, statistics | billing | the operator's changes are not undone by stale writes |
| sessions (`internal/service/session`, `pkg/sessiontoken`, `pkg/jwt`) | `sessions` rows (refresh hash, expiry, revocation); cookies in the browser | Issue, Refresh, Revoke, RevokeForUser, ListActive | auth, browser | a revoked or expired refresh token is never accepted again; a session belongs to who signed in, and only its owner ends it |
| auth and users (`internal/service/auth`, `internal/repository/user.go`, `pkg/passwordhash`) | `users`: the identity columns under unique indexes, the settings | sign up and in with e-mail, Google, Apple, the development bypass; profile and preferences; the operator's list | auth keys, sessions | one identity is one user and stays it, whatever first sign-ins race |
| auth keys (`pkg/appleauth`, `pkg/googleauth`) | a map of public keys and its age, under a mutex | Verify, fetch | the key endpoints of Apple and Google | a retired key is not trusted for long; a failed fetch keeps nobody waiting |
| monobank sync (`internal/service/monobank`, `internal/monobankimport`, `internal/webhook/monobank.go`, `pkg/monobank`) | `monobank_connections`, imported `transactions` | Connect, UpdateAccounts, SyncNow, Disconnect, webhook, Item | Monobank API and webhook | a bank statement item is one transaction however often it arrives |
| transactions and categories (`internal/service/transaction`, `category`) | `transactions`, `categories`, joined by a foreign key | create, update, delete, list | both transports | a transaction's category exists and is its user's to use |
| translation (`internal/service/category`, `pkg/translate`) | `name_uk`, `name_en`; the breaker's cooldown in memory | translate on create, heal in the background of each list | Google's endpoint | every name is translated in the end |
| reports (`internal/service/reports`) | none; an import's cache of category ids | CSV export and import, row by row | transactions, categories | a row lands in the category it names; an export names what is there |
| retention and plan (`internal/retention`, `internal/plan`) | none of its own | the sweep of each limited plan; plan gates | `users.plan`, `transactions` | history is deleted only under a plan that limits it, and there it is deleted in the end |
| rates (`internal/ratesync`, `internal/service/rate`, `internal/repository/rate.go`) | Redis: the hash `exchange_rates`, an entry `rate_history:<day>` for each day asked for | periodic fetch, historical look-up with fallback | the National Bank's API | published rates reach the app; a day is answered with its own rates |
| advisor (`internal/service/advisor`, `pkg/ollama`) | insights in Redis for an hour | chat, insights, score, subscriptions, runway, budget pace | a language model, transactions | insights are the asker's own; the numbers are what their comments say |
| transport (`internal/rest`, `internal/grpc`) | none; cookies in the browser | routing, authentication, plan gates | every service | only the caller's own rows |

Hard behaviours: handlers of one user racing each other, an operator and a
webhook; callbacks repeated, delayed, reordered or lost (both webhooks answer
200 whatever happened); a provider call that succeeds while its answer is lost;
a failure or restart between two statements; caches that outlive their data.
`PROJECT.json` lists each at its line under `hazards`.

## 2. Plan

The order is by what costs users most when it is wrong.

| step | what | state |
|---|---|---|
| 1 | **Billing**, with its abstract specification **Entitlement**: money and access | modelled, checked, proved, refinement proved |
| 2 | **Sessions**: rotation of refresh tokens under concurrency | modelled, checked, proved |
| 3 | **MonobankSync**: posts and statements feeding one table while users connect and disconnect | modelled, checked, proved |
| 4 | **Identity**: find-or-create over the unique indexes, settings, the operator's list | modelled, checked, proved |
| 5 | **Ledger**: transactions, categories, CSV import and export, the retention sweep | modelled, checked, proved |
| 6 | **Translations**, **RateFeed**, **KeyCache**, **Insights**: the caches and what feeds them | modelled, checked, safety proved |
| 7 | **Figures**: the advisor's arithmetic against what its comments promise | modelled, checked, proved |
| 8 | **Entitled retention**: Billing and Ledger composed (a failed charge downgrades, the sweep deletes) | left: Ledger lets plans change at any moment, which covers what Billing can do to a sweep |
| 9 | **Accounts**: what sign-in promises as an abstract specification, refined by Identity | checked, refinement proved |

The number of runs is kept small: a new question joins the run of an instance that
can answer it, and liveness runs carry the safety invariants of their instance.

## 3. Modules and code

| module | what it is |
|---|---|
| `Billing` | billing, the webhook, the admin operations, and LiqPay as that code relies on it |
| `Entitlement` | the promise: who holds which plan, and why |
| `MCBilling` | the instances TLC checks |
| `BillingProofs`, `BillingRefinement` | its invariants, and that it implements `Entitlement` |
| `Sessions` | refresh tokens, their rows, and the browsers' cookies |
| `MCSessions`, `SessionsProofs` | its instances and its proofs |
| `MonobankSync` | connections, imported rows, the two paths to them, the user's edits, and Monobank as that code relies on it |
| `MCMonobankSync`, `MonobankProofs` | its instances and its proofs |
| `Identity` | users as identities: sign-ups, sign-ins, settings, the operator's walk through the list |
| `Accounts` | the promise: one identity is one user, with settings of their own |
| `MCIdentity`, `IdentityProofs` | the instance; the proofs, and that Identity implements `Accounts` |
| `Ledger` | transactions, categories, CSV import and export, the retention job |
| `MCLedger`, `LedgerProofs` | its instance and its proofs |
| `Translations` | names of categories, their heals, the circuit breaker |
| `RateFeed` | the rate syncer and the rates of past days |
| `KeyCache` | the verifiers' public keys |
| `Insights` | cached insights |
| `Figures` | what the advisor computes, as operators over a set of transactions |
| `Feeds` | these five side by side |
| `MCFeeds` | its instance |
| `FeedsProofs` | the proofs about the first four |
| `FiguresProofs` | the proofs about the calendar, the sums and the figures |

A definition whose comment begins with "Slip" is a plausible mistake in the definition
below it; no specification uses it. `PROJECT.json` lists under `mutants` which property notices it.

### Billing

A goroutine `t` is `thr[t]`: the statement it runs next (`pc`) and the locals it
keeps across it. One action is one statement or one call to LiqPay, because that
is the code's atomicity: no service opens a transaction.

| code | actions |
|---|---|
| `StartTrial`, `Subscribe` | `StartTrial`, `Subscribe` (read, refuse unless `subscription_status` is empty, make the order id), `FinishCheckout` (`BeginCheckout`, form returned) |
| `HandleCallback` | `UnknownOrder`, `LookUpOrder`, `RecordPayment`, `ApplyCallback` (the switch, and the webhook's 200) |
| `Cancel` | `Cancel`, `Unsubscribe` (a 200, whatever is in it) or `UnsubscribeFails`, `Downgrade` |
| admin | `SetPlan`; `ExtendTrial`, `FinishExtend`; `CancelSubscription`, `AdminCancel` or `Release` |
| errors, restarts | `DbFails`, `Crash` |
| LiqPay (external) | `Pay`, `Report`, `Charge`, `Terminate`, `EndOrRefuse` (its side of an unsubscribe); it sends a callback again until it sees a 200 |

Order ids have the code's resolution: two made in one tick with the same
arguments are equal. Repeated receipts are one element of a set, since nothing
reads their number. LiqPay may refuse an unsubscribe in the body of a 200, or say 200
to one for an order nobody paid: the code reads the HTTP status only (`liqpay.go:146-153`), so
`Unsubscribe` goes on to the downgrade either way. `ended` are the paid orders that LiqPay really
ended; `answered` are the users whose unsubscribe had a 200, for the properties only. Left out: signatures, amounts, the list of receipts.

`Entitlement` has three variables: purchases, each user's access, and its label.
`Billing!Promise` instantiates it with the orders paid at LiqPay, `users.plan`
and `users.subscription_status`.

### Sessions

| code | actions |
|---|---|
| sign-up and sign-in handlers, `Issue` | `SignIn` (access token made), `Issue` (row stored, cookies on their way) |
| `Refresh` | `Refresh` (the request, with the cookie of that moment), `LookUp` or `Refuse`, `RevokeOld`, then `Issue` |
| `Revoke` | `Logout`, `Revoke` |
| `RevokeForUser` | `RevokeSession` (`withAuth`), `RevokeForUser` |
| `setCookies`, `clearCookies` | `Respond` |
| errors, lost answers, restarts | `Fail` |

A token is also its row's id, the way a hash stands for its token; a row keeps one
thing the table does not, for the properties only: the token it replaced. Left out: `ListActive` (it reads only; the id given
to `RevokeSession` is any that ever existed, which covers stale lists), the
browser dropping a cookie at its `Max-Age` (a browser that presents the dead token
meets the same refusal), the Bearer header, and Apple sign-in, which uses no session.

### MonobankSync

| code | actions |
|---|---|
| `Connect` | `Connect` (checks, a fresh secret), `SetWebHook` or `SetWebHookUnanswered`, then `Upsert`, or `UpsertOfNull` for the nil slices of the gRPC controller |
| `UpdateAccounts`, `Disconnect` | one statement each |
| `SyncNow` | `SyncNow` (the row is read), `Statement`, an `ImportItem` for each item, `TouchSync` |
| webhook | `Webhook` (a post reaches a goroutine), `Process` (the row is looked up by secret), `ImportItem`, `TouchSync` with the 200 |
| `Importer.Item`, `CreateWithExternalID` | `ImportItem`: the currency chosen, and the insert that does nothing on a conflict |
| `service/transaction` | `Update`, `Delete` of an imported row |
| errors, restarts | `DbFails`, `Lost` |
| Monobank (external) | `Book` (an item happens and is posted to the URL of each token that covers it), `GiveUp`; one URL per token, the last one set |

`Init` has users who connected before the currency column existed (migration
00019): their lists have no currencies, which the importer takes as unknown. Of a row the model keeps
whose it is, its item and the currency the import gave it, `Edited` once its user saved it. `maker`,
`given` and `picked` record what users asked for; no action reads them but to tell used
secrets from fresh ones. Left out: categories by MCC, amounts (items of amount 0
are not items), the 31 days a statement covers, lists that name an account
twice, which the picker cannot make, and the plan check of the REST handlers, which the gRPC
controller and the webhook do not make.

### Identity

A sign-in is two statements: the look-up, after which a goroutine holds the row
it is about to insert, and the INSERT, which the unique indexes may refuse.

| code | actions |
|---|---|
| `SignInWithApple`, `DevSignIn`, `findOrCreateAndIssueToken`; `SignInWithGoogle` | the same names: the row is found and answered, or the goroutine goes on to create it |
| `SignUpWithEmail`, `SignInWithEmail` | the same names |
| the repository's `Create`, `CreateWithEmail`, `CreateWithGoogle` | `Create`, `Refuse` (a unique index), `DbFails` |
| `UpdatePreferences`, `UpdateBaseCurrency`, `UpdateGoals`, `UpdateProfile` and their handlers | `Settings`: body decoded, value tested, one UPDATE |
| `ListUsers`, `UserListForAdmin`, `parsePagination` | `FirstPage`, `NextPage`, `Leave` |

`granted` and `refused` record answers, for the properties only. A refusal changes nothing else,
so it is an action (`Refuse`) only after the second statement.
`Accounts` has three variables: who each user is, their settings, and the tokens given out. `Identity!Promise`
instantiates it with the credential each row was made from, its settings columns, and `granted`. Left out: search and the plan
filter of the list, bcrypt's work, the columns Billing has.

### Ledger

| code | actions |
|---|---|
| transaction `Create`, `Update`, `Delete` | `Create` then `Insert` or `InsertRefused`; `Update` then `FinishUpdate` or `UpdateRefused`; `Delete` |
| category `Create`, `Delete` | `CreateCategory`, `DeleteCategory` (ON DELETE SET NULL is part of it) |
| `Import` | `Import` (the cache is filled), then for each row `SkipRow`, or `NewCategory` as needed, `CreateRow` and the insert |
| `Export` | `Export` (transactions), `FinishExport` (names), `Download` |
| retention `Run`, `sweepOnce` | `SweepStarts`, `sweepOnce` for each limited plan, `SweepFails` |
| the two transports | `Web`, `TransactionController`, `CategoryController` |
| errors, restarts, plans, days | `DbFails`, `Restart`, `ChangePlan`, `NextDay` |

Reading a date or an amount is abstracted to whether it parses. A row keeps the name its file
gave it (`row`), which the table does not, for `ImportFiled` only. Left out: notes,
currencies, icons, the lists (they read only), the messages of an import's errors.

### Translations, RateFeed, KeyCache, Insights, Figures

| code | actions |
|---|---|
| category `List`, `healTranslations`, `translateBoth`, `Create`, `DeleteForUser` | `Translations`: `List`, `healTranslations`, `WriteHealed`; `Create`, `Insert`; `Delete` |
| `pkg/translate`: `Translate`, the breaker | `NoRequest` (open, or nothing to translate), `Translate` with `resetCircuit` or `tripCircuit`; `CooldownEnds`, `EndpointDown`, `EndpointUp`, `Restart` |
| `ratesync`: `Run`, `fetchAndStore` | `RateFeed`: `Tick`, `fetchAndStore`, `StoreRate` for each currency, `FetchFails`, `StoreFails` |
| `HistoricalRates` | `HistoryAt`, a hit or a miss, `Answer`, `AnswerEmpty` and `AnswerFails`, `Set`, `Reply` |
| `appleauth`, `googleauth`: `Verify`, `publicKey`, `refreshKeysLocked` | `KeyCache`: `Verify`, `Lock`, `publicKey`, `refreshKeysLocked`, `FetchFails`, `EmptyAnswer` |
| advisor `insights`, `Insights` | `Insights`: gate and currency, cache, summary, model, entry, answer |
| `FinancialScore`, `buildSummary`, `DetectSubscriptions`, `Runway`, `BudgetPace` | `Figures`: operators of the same names; `Record` adds transactions |

A rate is the day it is the rate of, a translation the row and language it is of, an
insight whose data it was made from and when: what the properties tell apart. What a
heal has to do is a set of places in its list, of which it takes the first. `Figures`
computes with integers and fractions where the program uses `float64`; amounts are any integers
that convert exactly (`ExactAssumption`), as the service takes zero and negative amounts too. Its
calendar is Go's from 1901 to 2099, leap years included. A transaction is of an instant
(`timestamptz`), counted in hours: `ListForUser` compares it with the instant `now - 30*24h`, in the
middle of a day, for the score and the burn alike (`advisor.go:141`, `insights.go:172`), and with
midnights for calendar months. `Since` is that query, and also leaves out what lies after now. `Feeds` puts the five
side by side: they share nothing, so in each behaviour one of them moves (`part`),
and their states add up instead of multiplying.

## 4. What is checked

| run | shows | bounds |
|---|---|---|
| `BillingRace` | `AccessIsPaidFor`, `CanceledHasCause`, `OrderOwnership`, `EventsSound` with failing statements and LiqPay requests | 2 users, 2 goroutines, 2 checkouts, 2 callbacks sent, 2 ticks |
| `BillingOps` | `TypeOK`, `RowConsistent`, `ImplementsPromise` while the operator interferes and the server restarts | 1 user, 2 goroutines, 1 checkout, 2 callbacks, 1 restart |
| `BillingLive` | `PaidLeavesPending` under `FairSpec` | 1 user, 2 goroutines, 2 checkouts, 2 callbacks, 1 restart |
| `SessionsRotation` | `TypeOK`, `OldTokenRevoked`, `FinishedForGood` | 1 user, 1 browser, 2 goroutines, 3 tokens, 3 ticks |
| `SessionsUsers` | `CookiesAgree`, `EndedByOwner`, and `DeadTokenDropped` under `FairSpec` | 2 users at 1 browser, 2 goroutines, 2 tokens, 3 ticks |
| `MonobankSync` | `TypeOK`, `OneRowPerItem`, `OnlyConsented`, `CurrencyOfItsAccount`, `EditsSurvive`, `DisconnectHolds`, and `FirstAccountRecovers` under `FairSpec` | 1 user, 2 goroutines, 1 token for 2 accounts in 3 lists, 2 secrets, 1 item, 2 rows, 1 failure |
| `Identity` | `TypeOK`, `SameIdentitySameUser`, `PasswordReachable`, `RaceRefusesFew`, `NoUserSkipped`, `ImplementsAccounts` | 3 users, 2 goroutines, 1 subject of each provider, 3 spellings of addresses, 2 passwords, 1 setting saved, pages of 1, 1 failure |
| `Ledger` | `TypeOK`, `CategoryVisible`, `ImportFiled`, `ExportNamed`, and `OverdueGoes` under `FairSpec` | 2 users, 1 goroutine beside single-statement requests and the job, 3 categories (2 default), 2 rows, 1 file of 3 rows, 2 days, 1 change of plan, 1 failure or restart |
| `Feeds` | `HealCompletes`, `RatesFresh`, `SignInEnds` (liveness), `RetiredKeysExpire`, `HistoryTrue`, `InsightsSound`, `FiguresSound` | 3 categories and 2 heals; 2 days; 2 keys, 2 sign-ins, 2 rotations; 2 users, 2 currencies, 3 ticks; 3 batches of transactions, asked about at 5 instants; 1 failure in each part |

Why the bounds are enough. A race in this code is between one read and one
write of a row, so two goroutines show it; a third would only repeat one of them.

- *Billing, Sessions.* Two callbacks sent cover the pairs repeated, reordered and crossing a
  handler (the second one is the repetition); two orders cover a superseded one; three tokens
  cover two rotations, and a rotation beside a rival session.
- *MonobankSync.* Two secrets are one reconnect, which already leaves a stale one at the
  bank; one item arrives by both paths, twice by each; two row ids show a second row if there
  were one. `OnlyConsented` across users rests on the proof.
- *Identity.* Two goroutines race for one identity and a third user is on the operator's pages.
  The Google subject has the address that one of two spellings of an e-mail sign-up folds to,
  so that the two compete for an index.
- *Ledger.* Everything a goroutine races here is a single statement without locals
  (delete a category, change a plan, a sweep), so one goroutine with locals is enough to
  be overtaken between any two of its own. The default categories have one name and two types, and
  the file has a row under one of them in another spelling, a new category and a row that does not
  parse. Free keeps today's history and pro a day more, so within two days a row becomes overdue under
  either; the change of plan, the failure or the restart falls between any two statements of a sweep.
- *Feeds.* Of the categories one predates translation and one has a blank name; the second rotation
  retires the key the first one brought; the insights' clock runs past their time to live; the figures
  are asked for at five instants of one year, on January 31st, February 28th, April 30th, May 1st
  (at its midnight) and May 31st, for single transactions at month ends, at midnight, in the
  morning or in the evening (one of a negative amount, one in a currency without a rate), for two on
  the day the thirty days begin, one before the hour of it and one after, and for a statement of
  twenty evenings. Leap days are beyond the run and within the proof.

The safety properties of every module are proved for every value, so
for them the bounds only limit what was tried before the proof. Symmetry is used in safety
runs only. Deadlock checking is off: under the bounds everybody may stop, and a server
at rest is a legal state.

**Fairness.** `FairSpec` of Billing, Sessions and MonobankSync gives each goroutine weak
fairness: the Go scheduler runs it and every call it makes returns or fails (pgx by the
request's context, the clients of LiqPay and Monobank by their timeouts). Delivery of callbacks has strong
fairness: LiqPay repeats a callback until it is answered, and the server starts a goroutine
for each, however often another one is in the way. Browsers, customers, the operator and
the clock owe nothing. `BillingLive` has no failing statements: after one the
webhook answers 200 all the same and the payment stays pending (hazard
`billing.go:189`). For `FirstAccountRecovers` each user has strong fairness of "sync
now": the button is there whenever a connection is, the property is about what
clicking again achieves, and goroutines that are busy end. Its failures are
bounded because recovery is promised only once the bank and the database answer.

In `Ledger` only the job has fairness, weak: a sweep that was begun is carried on, and
another one begins after it (a ticker, and a sweep at every start, `retention.go:30-43`). No request has to end
for what is overdue to go. Failures are bounded: a database that fails for ever deletes nothing.

In `MCFeeds` goroutines run on, lists keep being asked for (each list is what starts a heal), the
cooldown and an outage end, and the syncer's ticker ticks. `Lock` has strong fairness: a
`sync.Mutex` is handed to a waiter that has waited for a millisecond. Failures are bounded for the
same reason as above. The rate syncer and the key fetch have no timeout, so "every request
ends" is an assumption about the network there (`ratesync.go:74`, `googleauth.go:89`).

**Where the code differs from its comments** (runs that expect a violation):

| run | comment | what happens |
|---|---|---|
| `BillingReplay` | a replayed callback "just won't find anyone and is dropped" (`billing.go:160-163`) | the order id stays in the row after a cancellation; a `subscribed` that was applied before it, and is delivered again after it, finds the canceled row and goes on to be applied |
| `SessionsLogout` | the token "stops working immediately" | a `Refresh` past its test stores a session after the logout |
| `MonobankIos` | iOS passes nil currencies, "the safe default" | nil is NULL in a NOT NULL column: every Connect from iOS fails, after the bank was given the new URL |

**Known divergences.** The models contain these too; the properties are stated so
that they say what does hold beside them.

- Two concurrent `StartTrial` both pass the check of "a user can only ever do this once"
  (`billing.go:80`), and both trials can be started. An abandoned checkout stays
  pending (`billing.go:93`). The `subscribed` branch writes back the `TrialEndsAt` it read (`billing.go:213`).
- "Cancel ends the subscription immediately" (`billing.go:230`), but nothing reads the body of LiqPay's
  answer (`billing.go:244`): after a refusal in a 200 the row says canceled, LiqPay goes on charging it, and
  each `success` makes the row active again.
- The operator's cancellation "always downgrades regardless of whether that call succeeds"
  (`admin.go:94-98`), but `billing.Cancel` returns before its downgrade when the request to LiqPay
  fails, and the error is dropped (`admin.go:105`).
- A charge that fails downgrades at once, before LiqPay tries again, and the next sweep deletes the
  history of the plan that was paid for (`retention.go:52`). `OverdueGoes` counts that history as overdue,
  as the code does; nothing spares it.
- The thirty days of the score begin at an hour of the day and touch 31 dates, so the model may be told of
  31 active days "of 30" (`advisor.go:356`). Full marks for
  consistency are had for 20 of the 30 dates up to today and need 19 of them, not 20: `ScoreAsDocumented`
  says both.
- Two requests with one refresh token can both get a session, against
  `session.go:60-62`; `FinishedForGood` says that a token is dead once no handler that read
  it alive is running. A token is accepted up to and including `expires_at`, where the list of sessions no
  longer shows it (`session.go:72`). A rotation gives a session another id, so a revocation from a
  list loaded before it finds nothing (`session.go:133`).
- "Sync now" always fetches the first account of the list, so other accounts are not caught
  up by "clicking again a minute later" (`monobank.go:184-188`). A deleted imported row comes back
  with the next one (`transaction.go:109`).
- Providers' addresses are not folded to lower case (`auth.go:73`), so a Google address
  in capitals and an e-mail sign-up with the same address are two users.
- An import that fails leaves the rows before the failure (`reports.go:167`), and importing the file again
  doubles them.
- A category whose name is blanks "fails" to translate and ends each heal before the rows
  behind it (`category.go:51-53`); `HealCompletes` is about the rows before it.
- A past day asked for before the bank has published its rates is answered with other rates
  for ever (`rate.go:128`); `HistoryTrue` excludes exactly those days.
- With nothing spent in thirty days, a negative balance still "will make it" (`insights.go:228`).
  Subscriptions are told by the average interval alone, so irregular charges can
  pass for monthly ones.
- An answer of the key endpoints is taken for keys whatever its status (`refreshKeysLocked`); one
  that parses to no keys is an error of that sign-in, and the next one fetches again.

## 5. What is proved

All for every value of the constants (users, goroutines, tokens, categories, keys, lengths,
bounds, faults), from the named assumptions of the modules alone. They say: null values are not values;
lengths and bounds are natural numbers; maps are maps and requests are of their types;
Apple's and Google's subjects and addresses are told apart, and there are finitely many goroutines
(`Identity`); folding a name or an address twice is folding it once (`NormalAssumption`,
`FoldAssumption`). For the feeds: an hour is at least a tick and a time to live is a natural number
(`TicksAssumption`); a category has one place in a list (`ListedAssumption`: its id is a primary key);
batches of transactions are finite and amounts and instants are integers, rates are positive
(`BatchesAssumption`, `RateAssumption`, `MomentsAssumption`), and every amount is a whole number in every
currency (`ExactAssumption`), which is what makes "the base currency does not matter" true at all.

**Billing.** `BillingProofs` proves the invariant `TypeOK`, `RowConsistent`,
`OrderOwnership`, `AccessIsPaidFor`, `CanceledHasCause` and `EventsSound` together.
`EventsSound` is the strengthening that makes the others inductive: a callback in flight, a receipt
and a goroutine's locals already satisfy what the row will have to satisfy when
they are written to it. What makes stale locals harmless is that everything they
rely on only grows: `issued`, `paid`, `answered` and `receipts`. `CanceledForCause` says that a
canceled row had LiqPay answer an unsubscribe of that user with 200, or has the receipt of a failed
charge or an ended subscription. It does not say that the subscription is over, which
is not so after a refusal.
`BillingRefinement` maps every step to one of `Entitlement` or to a stutter.

**Sessions.** `SessionsProofs!Inv` says what a row, a cookie and a goroutine's locals
know of other rows. `Later` collects what no step takes back (a row's user,
predecessor and expiry are fixed, a revoked row stays revoked, the clock does not
go back), each step is shown to satisfy it, and each part of `Inv` is shown to
survive it. `FinishedForGood` and `EndedByOwner` follow for each step from `Inv`
and from two lemmas about who can come to hold a token.

**MonobankSync.** `MonobankProofs!Inv` says of each connection, local, hook, post
and row that it is backed by what its user gave, picked and asked for (`given`,
`picked`, `maker`). These only grow (`Later`), so a stale local or a post to a secret
long replaced stays as good as when it was made, and `OnlyConsented` and `CurrencyOfItsAccount`
follow. `EditsSurvive` and `DisconnectHolds` go through the steps: an
import fills an empty row or nothing (`ImportFills`), and no step hands a retired
secret to a connection or a goroutine (`StepRetired`, `RequestRetired`).

**Identity.** `IdentityProofs!Inv` is `TypeOK`, the unique indexes over the rows that exist
(`Distinct`), and what holds of a row, of the row a goroutine is about to insert, and of every
sign-in that was answered. The last needs the rows' identity columns to be immutable, which is
`IdentitiesFixed` (an action property only the proof is about).
`IdentityImplementsAccounts` maps each step to the promise's: an INSERT that the indexes accept
registers a free identity, because every row has exactly one credential that opens it, and a unique
column holds that credential's key (`IdentityOfRow`), and a row on its way still has a new user's settings (`PendingNew`). Two more invariants ride on `Inv`. `WalkInv`: the users known when the operator began
are among those seen or stand behind the offset in the order of creation, since new rows push
old ones down and never up. `RaceInv`: once an identity has its row, refusals so
far and goroutines still about to insert it are together fewer than all goroutines, because the
one that succeeded is among neither; it counts with `FiniteSetTheorems`.

**Ledger.** `LedgerProofs!Inv` says that a category id in a row names a category there, visible to
the row's owner, and that an id in a goroutine's locals or in an import's cache named such a
category once and was given out. `Later` is why that is enough: a category changes only by
being deleted, and an id is never given out again, so between the check and
the write the category is the same or is gone, and the foreign key refuses
what is gone. An import's cache and an export's rows are the same argument over a longer
time.

**Feeds.** `FeedsProofs` is about `KeyCache`, `Insights`, `RateFeed` and `Translations`. Each has an
invariant of its own, with constants of any value and without fairness; every step of `FeedsSpec` is a
step of one part or leaves it alone, so the theorems are about `FeedsSpec` and state the properties the
run checks. Keys: a cached key has been retired for no longer than the map is old, at any
moment; `RetiredKeysRefused` follows from the test of the age. Insights: an entry under a key, and a
goroutine's locals, are about the user and currency of that key and no older than the clock allows.
Rates: an entry or a local for a day that was not asked for early has that day's rates, because a
day once published stays published.

Translations: `NamesOwn` and `NamesKept` are about heals that write whole rows from old lists, and are
proved only; no run has them. The invariant `NameInv` says that a goroutine's text is that
of the row it is at, that a row not made yet is on the list of its maker and of nobody
else, and that only a maker has such a row. So an INSERT never meets a row that is there, an
UPDATE never makes one, and because a heal stops before it writes two empty names, no step
takes a row's last translation. One of the two languages it can take: a heal that
got half of a name writes that half over both.

**Figures.** `FiguresProofs` proves `FiguresSound` in five parts, for every ledger and every instant.
The invariant is small (`txs` is a finite set of transactions of the batches); the
work is in the operators, and in five groups of lemmas:

- *sums*: `SumFunction` over a finite set is additive, and a set that is split by a key (`SumByName`)
  sums to the sum of its parts. The library's induction rules take an operator, which the provers
  cannot instantiate, so `SetInduction` is stated with a set of good subsets and proved from a minimal
  counterexample under the strict subset order, which the library proves to be well-founded;
- *instants and days*: a midnight parts the instants of the days before it from those after (`DaysAre`), and
  `Since` from `now - n*24h` is what happened in the last n times 24 hours, for the score and the burn
  alike;
- *the calendar*: months have 28 to 31 days, and `Month` finds the one month each day is in, for
  every integer, the years 1901 to 2099 among them;
- *quotients*: what `div` does at the score's thresholds, to negative numbers, and under `Cut`;
- *currencies*: a total in one currency times its rate is the same in all of them (`TotalIsWorth`), so
  quotients of totals, and with them the score, do not depend on the base.

`RunwayHonest` is the hardest of the five: a usual day that this month does not have runs into the next
and adding a month may do so again, yet the payday is ahead by 31 days at most.

Only model-checked: the liveness properties (`PaidLeavesPending`, `DeadTokenDropped`,
`FirstAccountRecovers`, `OverdueGoes`, `HealCompletes`, `RatesFresh`, `SignInEnds`), which need fairness
and are out of the provers' reach, and the violations.

## 6. Not modelled

- `pkg/dbq`, `api/v1/pb` (generated): a model takes a query of `dbq` as one atomic step with
  the constraints of its table; the messages of `pb` carry data only.
- The gRPC interceptors, routing, CORS, JSON, configuration, start-up, logging, deployments: no state
  a property could be about.
- Cryptography (`pkg/cryptobox`, bcrypt, signatures of tokens and callbacks): taken to be sound.
- The merchant category table (`pkg/mcc`): a constant table.
- The advisor's chat and the wording of its summary: no state, and no property of what a language
  model says.
- Floating point in the advisor: `Figures` is exact, so rounding at a threshold is out of its reach.
- The steps of the migrations: `Init` has the rows they leave behind.

`PROJECT.json` lists each component with its status, and the hazards that a property covers
only in part, with the reason.
