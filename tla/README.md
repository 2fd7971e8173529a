# A verification of the CPaaS platform

CPaaS sends messages for other programs: an application calls an HTTP API, and
the platform hands an SMS to a carrier, or to an Android phone that somebody
registered as a gateway. Around this it keeps projects and API keys, a prepaid
wallet for each organisation, one-time codes, webhooks, and dashboards.

This directory holds TLA+ models of the parts of the platform where several
requests, replicas and phones work on the same rows, the configurations that
model-check them with TLC, and theorems about them with proofs for TLAPS.
Paths below are relative to the root of the repository.

## 1. Inventory

The API (`apps/api`, NestJS) runs in several replicas and keeps all its state
in one PostgreSQL database through Prisma. A handler is a sequence of database
statements; a statement is atomic, a handler is not, and few handlers use a
transaction. The worker (`apps/worker`) serves four BullMQ queues and a timer.
The phone app (`android/gateway`) polls the API.

| component | state | operations | what is hard |
|---|---|---|---|
| Device lifecycle (`devices.service.ts`) | `Device.status`, `lastHeartbeatAt`, `DevicePairing` | create a code, pair, register, heartbeat, status, list, disable, enable, markStale | a heartbeat reads, checks and writes in two statements; a code is read and claimed in two; the answer that tells the token may be lost |
| SMS gateway delivery (`devices.service.ts`, `android-gateway.adapter.ts`) | `DeviceOutbox` rows and their `Message` | create row, link row, pull (reclaim, read, claim), report | the row is visible before it is linked; claim and read are apart; calls are lost, repeated and abandoned |
| Android app (`GatewayForegroundService.kt`, `CpaasApi.kt`, `SmsReceiver.kt`) | the items of one iteration, in memory only | heartbeat, pull, send, report; upload of incoming SMS; pairing | timeouts of 8 and 20 s, HTTP retransmission, restarts of the service |
| Messaging (`messaging.service.ts`) | `Message.status`, usage records | send now, send later, e-mail, call | seven statements and a remote call in a row, any of which may be the last |
| Router and adapters (`providers/`) | routes, providers | score and try routes, fall back to a chain, send | the health of the gateway is checked in one query and used in another, devices come and go between |
| Wallet (`billing.service.ts`, `debitWallet`) | `Wallet.balanceMinor`, `WalletTransaction` | charge, recharge | read, compute, write: lost updates |
| Verification (`verify.service.ts`) | `Verification.status`, `attempts` | send, check | concurrent checks decide on what they read; expiry |
| Webhooks, e-mail and calls (`apps/worker`, `webhooks.service.ts`) | `WebhookDelivery`, `EmailMessage`, `Call`, the jobs in Redis | store and enqueue; deliver, mail, call; create and disable a webhook | one failing hook ends the job; the queue repeats a job after a crash; the record and the remote call are apart |
| Sessions (`auth.service.ts`, `apps/dashboard/src/lib`) | refresh tokens, password, reset links; the tokens in localStorage | login, refresh, logout, reset; the pages of a browser that refresh the same token | check, revoke and issue are separate statements; two pages and the shell share one store |
| API keys (`api-keys.service.ts`) | keys | create, rotate, disable; the guard | rotation finds, revokes and creates in three statements |
| Organisations (`auth.service.ts`, `orgs.service.ts`, `projects.service.ts`) | users, organisations, members, invitations, projects | register, invite, accept, create | registration in steps; an invitation is read, and accepted later |
| Inbox (`SmsReceiver.kt`, `pushInbox`) | `DeviceInbox`, inbound messages | receive, upload, store | uploads once, in the background: lost or repeated calls |
| Seed (`packages/database/prisma/seed.ts`) | the first rows of a database | upsert in order, look for and create routes and a test key, print its secret | it is ended half-way, run again on a database in use, or run twice at once; routes and the test key have no unique key |
| Analytics, admin, dashboards, SDKs, logging, deployment | none of their own | reads | none |

How they interact: `MessagingService.send` calls the router, the router asks
the device table for a healthy phone and inserts the outbox row; the phone
drains the outbox through the device endpoints and its reports update the
message; `send` goes on to charge the wallet of the project's organisation and
to enqueue a webhook job, which the worker delivers. `VerifyService.send` calls
`MessagingService.send`, `sendEmail` or `createCall`. The device endpoints are
guarded by `AuthGuard`, which reads `Device.status` on every call.

What makes each part correct:

- *Devices*: a device is ONLINE only by its heartbeats, goes OFFLINE without
  them, and a disabled device stays so until somebody enables it.
- *Delivery*: a message is sent once for each time its row was granted to the
  phone; SENT means sent; what has been decided is not reopened; a row does not
  wait for ever; the message learns what its row knows.
- *Wallet*: the statement and the balance agree; LIVE charges are covered;
  announced messages have been charged.
- *Verification*: wrong codes are limited, an expired code is worthless, a
  closed verification stays closed.
- *Webhooks, e-mail and calls*: every job ends; a completed job has done its
  work; a peer is called once, and once more for each death of a worker; what
  was missed can be explained from the records.
- *Pairing*: a code makes one device; a device is heard of only from the phone
  that was told its token; a row nobody speaks for can be explained.
- *Sessions*: rotation leaves one live token; a reset ends the sessions of the
  old password; a session that is over stays so; a browser does not throw away
  a good session without a cause.
- *Keys and organisations*: a rotation never just takes a key away; members
  come by registration or invitation.
- *Routing*: a provider is passed over only if it could not be used.
- *Inbox*: an SMS that got no row was not stored for a cause that can be named.
- *Seed*: a run that ends well leaves a complete database, whatever was there; what
  is doubled, lost or set back can be explained.

`PROJECT.json` lists the hazards at their lines; each names the properties
below that would show it going wrong, or says why none does.

## 2. Modules

| module | models | with |
|---|---|---|
| `Devices` | the device table | heartbeat in two steps, crash between them, stale timer, operators |
| `Gateway` | send request, outbox table, outbox and report endpoints, polling loop | extends `Devices` |
| `Delivery` | what the gateway promises | abstract: no devices, calls or loops |
| `Billing` | the wallet, and `send` after the provider answered | charges and recharges |
| `Verify` | one verification | its creation and concurrent checks |
| `Queue` | the BullMQ queues | external: what the code relies on |
| `Worker` | requests that add jobs, the four processors, webhooks | extends `Queue` |
| `Pairing` | pairing codes, registration, the phone's token and its heartbeat loop | extends `Devices` |
| `Router` | the choice of a provider, and the answers of the adapters | extends `Devices` |
| `Inbox` | incoming SMS, from the receiver to the rows | extends `Devices` |
| `Traffic` | routing and inbox over the same devices | extends `Router`, `Inbox` |
| `Sessions` | tokens, logins, refreshes, resets, and one browser | |
| `Accounts` | users, organisations, members, invitations, projects | |
| `ApiKeys` | the keys of one project and the guard | |
| `Seed` | runs of the seed script | |
| `Tenants` | keys of a project a registration has made; the seed before any registration | extends `Accounts`, `ApiKeys`, `Seed` |
| `GatewayProofs` | theorems about `Gateway`, and that it implements `Delivery` | |
| `BillingProofs`, `VerifyProofs`, `WorkerProofs`, `PairingProofs`, `SessionsProofs`, `TenantsProofs`, `TrafficProofs` | theorems about the module they are named after | |
| `MC...` | values for the constants, one module for each specification that is run | |

One action stands for one database statement with the code around it that no
other process can see, or for one step of the phone. What a handler holds
between statements is in the record of its process: `hb` (heartbeats), `send[m]`
(the send request of a message), `call[k]` (the server side of an outbox or
report call), `loop[c]` (a polling loop), `charge[m]`, `topup[r]`, `check[k]`,
`signin[l]`, `query[q]`, `setter[s]`, `form[r]`, `acceptance[a]`, `request[r]`,
`sending`, `upload[s]`.

**Devices.** `status` and `beat` are `Device.status` and the age of
`lastHeartbeatAt`, which only matters in three classes: never, younger than
two minutes, older. `HeartbeatRead` and `HeartbeatWrite` are the two statements
of `heartbeat`; `MarkStale` is the worker's timer and the calls of `markStale`;
`SetDisabled` is disable and enable. `Authenticated` is the device branch of
`AuthGuard`, `Online` the condition of the adapter's queries. `Register` inserts
a row; `Gateway` and `Traffic` use it as it is, `Pairing` says who may take it.

**Pairing.** `call[p]` is the pair or register call of a phone: sent, with its
code found, or answered. `LookUpCode` and `ClaimCode` are the lookup and the
transaction of `pairWithCode`, which repeats its conditions; `RegisterByKey` is
`register`. A device stands for its token too: the server keeps only a hash, so
the token is known to the phone whose answer arrived, and `token[p]` is the
phone's `TokenStore`. `AnswerLost` covers a broken connection, an activity that is
gone, and the client that sends the call again, which then finds its own code
used. `running`, `PhoneHeartbeat` and the rest are the service; the server's
half of a heartbeat is that of `Devices`. `lost` and `replaced` are history.

**Router.** `SelectRoute` is the query of the routes; `TryRoute` takes the best of
those left, by score and then by the order of the query, since the sort is
stable; `TryChain` walks `fallbackOrder`. A carrier's `healthCheck` returns true,
the gateway's is a query of the devices at that moment. `FindDevice` and
`QueueRow` are the two statements of the gateway's `sendSMS`. `AskCarrier` has the
outcomes of a carrier's call: `Reads` says which refusals inside a 2xx answer an
adapter sees; without credentials the send is simulated. Strings name the
providers, since the rows, the adapters and the chain do. `steady` and
`seen` are history.

**Inbox.** `Receive` is the receiver of the app, `Store` the guard with the
transaction of `pushInbox`, `UploadAgain` the HTTP client's repetition, at most
`MaxAgain` times. `barred` is history.

**Traffic.** Devices move under both; routing and inbox share no other row.

**Sessions.** A refresh token is a JWT that names user and family and its second
of issue, so a token is a pair of family and second; `row[t]` is its row.
`FindToken`, `RevokeToken`, `IssueToken` are the three statements of `refresh`;
that a second token of a family in one second hits the unique index is the
`ELSE` of `IssueToken`. `LoginVerify` and `LoginIssue` are the hash comparison and
the end of `login`, `FindLink` and `SetPassword` the halves of `resetPassword`.
`query[q]` is a call of `apiFetchAuth` with the refresh it leads to: it reads the
store when it sends (`SendRefresh`) and writes it when the answer is there
(`StoreTokens`). Calls in `Shell` are `bootstrapSession`'s, which clears the store
on a failure (`ShellClears`), again before it leaves (`ShellLeaves`), and once more
on the login page (`LoginPageClears`), which a login in another tab leaves open
(`LoginStores`). `born`, `forked` and `spared` are history.

**Accounts, ApiKeys, Tenants.** `CheckAddress`, `CreateUser`, `CreateOrg` and
`FormEnds` are the statements of `register`; a replica may die between any two.
`FindInvite` and `Join` are the read and the transaction of `acceptInvite`, which
does not look again. `FindKey`, `RevokeKey` and `CreateHeir` are the three
statements of `rotate`, `FindKey` and `DisableKey` those of `disable`; `LetsIn` is the
guard's verdict. Keys need a project: `Tenants` runs their steps once a registration
has made one, with the accounts at rest, since the two share no row
beyond that and their steps commute.

**Seed.** `at[r]` is the row a run of the script writes next; `Row` numbers the rows in
its order, the permissions, grants and providers being one each: a run that ends
among them leaves some, which the next run completes. `Upsert` is `upsert`: it creates
the row, leaves it, or sets back what its `update` names (`SetBack`: passwords, the
owner's role, the balance). `Find` and `Create` are the lookup and the insert of routes
and test key; two runs at once may both find nothing. An upsert that loses the race
for a unique key throws, which is `SeedDies`. `InUse` is the API changing a row that an
upsert sets back. `made`, `reset` and `met` are history. The seed's users are nobody's
of `Accounts`; the steps commute with theirs, and `Tenants` takes them on a database
where nobody has registered, which is when `README.md:63` runs the script first.

**Gateway.** A message creates at most one outbox row, so `row[m]` is the row
of message m and its `linked` says that `messageId` is set; `old` says that
`updatedAt` is more than two minutes ago. The send request goes through
`CreateMessage`, `RouteToGateway` or `RouteElsewhere`, `PickDevice`,
`CreateRow`, `SaveResult`, `LinkRow`. A carrier's adapter is one step that
accepts or refuses. `Pull` and `Report` are the phone's calls arriving past the
guard; `Reclaim`, `ReadQueued`, `ClaimAndAnswer` are the three statements of
`pullOutbox`, and `FindRow`, `UpdateRow`, `UpdateMessage` the three of each item
of `reportSend`. A call is `live` while its loop waits for the answer.
`LoopResets` is a timeout, a broken connection or a restart of the app: the loop
starts again, the server goes on. `Retransmits` is the HTTP client repeating a
call by itself, which OkHttp does by default. `CallDies`, `SendDies` and
`BeatDies` are crashes of a replica or statements that throw. `sms`,
`reclaims` and `missed` are history variables: no action reads them.

**Delivery.** A message is accepted with one grant to send, granted again while
its fate is open, sent at most once for each grant, and declared SENT only
after a send. `Gateway!Promise` instantiates it with the fate of the row, one
grant for the row and one for each reclaim, and `sms`.

**Billing.** Starts where the provider has answered. `ReadWallet` and `Debit`
are the query and the transaction of `debitWallet`, `RechargeRead` and
`RechargeWrite` those of `recharge`. `ledger` is the wallet's
`WalletTransaction` rows in the order of their commits. Amounts are unbounded:
the code uses BigInt. `crossed` is history.

**Verify.** `BeginCheck` is the read of `check` with the decision it leads to,
and `WriteExpired`, `WriteLimit`, `CountAttempt` are the three writes. The
increment of `attempts` is the database's, so it never loses one; the limit is
compared with the value read. The hash is abstracted to whether the code is
right.

**Queue and Worker.** `Queue` is what the code gets from BullMQ with the options
it sets, which are none: a processor that throws fails its job for good, since
jobs are added without `attempts`; the job of a worker that died is found
stalled and handed out once more (`maxStalledCount` 1), and failed the next
time. That a job is handed out again while its first processor still runs,
which takes a worker that cannot renew its lock for half a minute, is not
modelled. `Worker` has a record for each job: `Store` and `Enqueue` are the two
steps of `sendEmail`, `createCall` and of a scheduled `send`, and of
`enqueueWebhook`, which stores nothing. `work[j]` is where the processor of a
job stands: `at` the next statement or remote call, `todo` the webhooks it has
found and not begun, `on` the one it is delivering to. `FindHooks`,
`CreateDelivery`, `Post`, `SaveSuccess` and `SaveFailure` are the steps of
`processWebhook`; `SendMail`, `SaveSent`, `SaveFailed` those of `processEmail`;
`StartCall`, `EndCall` of `processVoice`, whose call is a stub; `Requeue` is
`processSms`. `Throws` is a statement that throws outside the `try` block,
`SaveThrows` one inside it, which the `catch` block takes for a failure of the
remote call. `log[j][h]` holds the `WebhookDelivery` rows that the runs of job j
made for webhook h: the idempotency key hashes a fresh random id, so no run finds
the row of another. `found`, `mails`, `posts` and `doubt` are history.

## 3. Runs

| run | expects | shows |
|---|---|---|
| `gateway` | pass | safety of delivery and the refinement of `Delivery` |
| `gateway_live` | pass | every outbox row is settled |
| `gateway_overlap` | violation | two loops of one phone send a row twice |
| `gateway_report` | violation | a report ahead of the link never reaches the message |
| `devices` | pass | what a code makes, who knows a token, ONLINE comes and goes |
| `devices_disable` | violation | a heartbeat undoes a disable |
| `billing` | pass | what the wallet keeps although updates are lost |
| `verify` | pass | the limit, with and without overlapping checks |
| `worker` | pass | copies, records and missed webhooks of a job, and that it ends |
| `sessions` | pass | how many tokens live, when sessions end, what the shell clears |
| `tenants` | pass | founders, members, key rotations and runs of the seed that die half-way are explained |
| `traffic` | pass | why a provider was taken or passed over; what became of an SMS |

### Properties

- `NotSentEarly`: neither row nor message says SENT before a phone handed the
  message to the radio.
- `OneSendPerClaim`: sends are at most one more than reclaims. It holds for a
  phone with one loop, however many abandoned calls still run on the server: the
  answer of an abandoned call reaches nobody. With two loops it fails.
- `UndecidedIsExplained`: when the row is decided and the message is not, the
  report is just being recorded, came before the link, or died in the middle.
- `DecidedStaysDecided`: SENT and FAILED are never left for another status, by
  row or message, so the late save of `send` is harmless.
- `EveryRowSettles`: a QUEUED or SENDING row is reported in the end.
- `StaleGoesOffline`, `StartedComesOnline`: a device whose phone has the service
  started comes ONLINE, and not for long after the last heartbeat.
- `CodeMakesOneDevice`: a used code has one device, an unused one has none, though
  two phones may find it open at once.
- `UnheldIsExplained`: a row whose token no phone holds has its answer under way
  or lost, or its phone was paired again. It stays in the dashboard.
- `OnlineWasDelivered`: a device is heard of only after its token reached a phone,
  never when the answer was lost, and one phone speaks for it.
- `HeadIsBalance`: the newest `balanceAfter` is the balance, even when updates
  are lost, so the lost money cannot be seen by comparing the two.
- `AddsUpUnlessCrossed`: each line of the statement is the line before it plus or
  minus its amount, as long as no transaction commits between another request's
  read and write.
- `LiveChargesCovered`: a check on a balance that is out of date still never
  lets a LIVE charge write a negative balance, since the charge writes what it
  computed from the balance it checked.
- `AnnouncedIsCharged`: a webhook job exists only for a message that was
  recorded and charged, or that no provider took.
- `AttemptsBounded`, `ExactWithoutOverlap`: attempts exceed the limit by less
  than the number of checks in flight; without overlap the limit is exact and an
  approval is not taken back.
- `SettledStays`, `NoLateApproval`: a closed verification with no check in
  flight does not change; an expired one is not approved any more.
- `CopiesAreStalls`: an e-mail or an event reaches its peer at most once more
  than the worker died; errors of the database never repeat a remote call.
- `CompletedMeansDone`: a completed job has its e-mail SENT, its call COMPLETED,
  and for each webhook it found a delivery that succeeded or was given up.
- `MissedHookIsExplained`: a webhook without a delivery stood behind one that
  failed (the first failure ends the loop), behind a statement that threw, or the
  workers died too often.
- `RecordsAreRight`: in a single run without a throw or an unclear answer, no
  record is left open, and FAILED means that the peer got nothing.
- `EveryJobEnds`: no job stays in its queue.
- `OneLiveUnlessForked`: a family has one live token, unless two refreshes found
  one token valid at once: then both get a successor, and neither is refused.
- `ResetEndsSessions`: what is live was begun with today's password, but for
  logins and refreshes that had passed their check when it was set; these go on.
- `OverIsOver`: a family without a live token and without a refresh past its check
  never gets a live token again.
- `DroppedIsExplained`: a shell that clears a good token was refused for an older
  one, or its refresh was cut off before the revocation.
- `MembersExplained`: a user without an organisation is being registered or the
  registration died, which cannot be repeated since the address is taken; members
  have the role of an invitation; an invitation brings one, unless two requests
  found it open at once; a founder is OWNER unless an invitation was accepted.
- `KeysExplained`: a revoked key has an heir, its rotation is under way, or it died,
  and then the project has lost its key; two heirs mean two rotations; the guard
  never lets a revoked key in, disabled later or not.
- `SeedIsExplained`: a row is there only after all it refers to, so no lookup of the
  script throws; a run that ends well leaves every row; a doubled route or test key
  comes from two runs that were under way at once; when nobody knows the secret of
  the test key, its run was ended between making and printing it, and no later run
  makes another; what was changed in use is set back only by a second run.
- `RouteIsExplained`: a route with a better score, and a provider earlier in the
  chain, is passed over only without an adapter, or if no device was ONLINE for a
  moment of the request; the gateway fails a message only then.
- `InboxIsExplained`: an SMS whose upload is over has a row, unless the phone held
  no token, a call was lost, or its device had been disabled; repeated calls can
  make one row each.

### Findings

1. `pullOutbox` answers what it read, not what it claimed. Two loops of one
   phone (the service was stopped and started while the old loop sits in a
   blocking call, which cancellation does not interrupt) send a row twice.
2. `send` links the row to the message after the row became visible. A phone
   that polls in between reports success on a row without `messageId`, and the
   message stays SENDING.
3. `heartbeat` writes ONLINE without a condition and can undo a disable.

Three more disagreements have no run, since what is missing is an action, or a
guard restates them. `setDisabled(false)` writes OFFLINE (`devices.service.ts:353`)
for a device that never was online, which `CONTINUE.md:24` calls PENDING until its first
heartbeat. A delivery that failed gets a `nextRetryAt` that nothing reads, and its
job has no attempts: the retries of `webhooks/page.tsx:112` never happen, and
the status DLQ is out of reach. `README.md:128` lists Exotel, which `fallbackOrder`
(`router.service.ts:90`) leaves out: a project with Exotel alone and no route to it
sends nothing, as `ChoiceIsExplained` says of the chain. The comment above
`fallbackOrder` speaks of projects without routes; the chain is also tried when
none of the routes can be used.

### Bounds

- `gateway`: two messages, one device, one loop, two server calls, one fault,
  batches of two. Two messages make a report with two items and a batch that can
  be split; two calls let an abandoned pull overlap the next one; one fault
  is any one of a lost call, a retransmission, a dead replica or an operator's
  command. Aging of rows and heartbeats costs no fault, so reclaims repeat until
  a report closes the row: a lost report followed by two reclaims is in reach.
  Messages are symmetric and so are calls.
- `gateway_live`: one message and two faults, no symmetry.
- `gateway_overlap`, `gateway_report`: one message and no fault are enough.
- `sms` and `reclaims` have no bound of their own. A row can be reclaimed again
  only after a loop lost it, which is a fault, or while its loop is slower than
  two minutes; with one loop that is finite.
- `devices`: two phones, two devices and one code, so both phones may send the code,
  pair again or register by key, and each device may be given either way. A phone
  uses one of its two buttons at a time.
- `billing`: costs 2 and 1 (LIVE) and 3 (TEST), an opening balance of 2 and a
  recharge of 1: each LIVE charge can be covered or refused, and debt is
  possible. Every request is made once, so the run ends in states without
  a successor, as the system does when nobody calls it.
- `verify`: three checks in flight and a limit of two, so more checks overlap
  than the limit allows. It ends when every check finds the verification closed.

- `worker`: one job, since jobs share nothing but the table of webhooks, which no
  job writes; its kind is any of the four. Three webhooks: one that succeeded,
  one that fails, one behind it. Two deaths of a worker are all the queue allows.
- `sessions`: one login after another in two families, the shell and one page of a
  browser, one reset, a clock of two seconds (`MaxTime` 1): both calls may hold
  one token, a reset may fall between any two statements, and a family may be
  refreshed twice in one second or in two. Families are symmetric. The step
  properties are about a step and say nothing that tells families apart.
- `tenants`: two persons, two registrations that may be of one address, one
  invitation and two requests that accept it, one project made later; three keys and
  two requests, so that one key can be rotated by both; two runs of the seed, which
  may overlap or follow each other, and one row changed in use (`MaxInUse` 1), since
  rows are set back one by one and know nothing of each other. It ends when everything was
  used up, as the system does when nobody calls it.
- `traffic`: one device, one heartbeat in flight, one request, one SMS, one repeated
  upload (`MaxAgain` 1); eight sets of active providers, three sets of routes, one
  country and an unknown one. Requests share nothing but the devices, so one is
  enough, and one device is enough to come and go.

### Fairness

`gateway_live` assumes weak fairness of a send request once it has begun, of
each server call, of each loop and its heartbeat, and of the two minutes after
a claim. The code's grounds: handlers run to their end unless the replica
dies, which is a fault and bounded; the service is `START_STICKY` and its loop
has no exit; time passes. No fairness is assumed of registration, of operators, of
faults or of new messages. Without the assumption that the device does not stay
disabled the property fails, as it should. `devices` assumes that the worker's
timer fires, that a started service goes on looping, and that of the heartbeats a
phone sends again and again some are served to their end (strong fairness, since
each may be cut off); none of buttons, codes or operators. `worker` assumes that
what a processor can do next is done unless its worker dies: there are two
replicas, and the cluster restarts them. No fairness is assumed of the
requests: one that stored its record may die before it adds the job.

## 4. Proofs

The proofs hold for every value of the constants under their assumptions: each
loop polls for one device, the placeholders for "none" are not members, bounds
are naturals (`Gateway`); costs and the opening balance are naturals, amounts
integers, messages and recharges differ (`Billing`); checks in flight are
finitely many, the limit is positive (`Verify`); the stall limit is a natural,
the attempts allowed are positive (`Worker`); the clock stops at a natural, the
shell's calls are calls, "none" is neither token nor link (`Sessions`); "none"
and the mark of a registration by key are not codes, "none" is no device (`Pairing`);
"none" is no invitation, key or person (`Tenants`); active providers are providers,
routes have a provider, a country or none, and naturals for priority and cost, the
penalties of a bad health score are naturals, and so is the number of times the HTTP
client repeats a call (`Traffic`).

**Gateway.** `GatewayProofs` proves `Inv`: the types, and

- `CallsOK`: one live call for each loop, and the loop waits where the call is;
- `LoopsOK`: only a sending loop has rows in hand;
- `RowsKnown`: what a phone or its calls handle are rows of its device;
- `SendOK`: until it has linked the row, the send request owns the message;
- `SuccessOK`: every success on its way was preceded by a send.

`NotSentEarly` needs `SuccessOK`, since a success travels from the radio through
the loop and the call to row and message. `DecidedStaysDecided` needs `SendOK`: the
save of `send` cannot come after a report has reached the message, since the
message is reachable only through the link. `UndecidedIsExplained` needs the link
known to a call (`CallsOK`) to be the row's. On top of `Inv`, `OneSendPerClaim` needs
`WithinGrants`: sends made, plus one if the row waits or was read for a live
loop, plus one if it is in hand, are within the grants. It is inductive only
with one loop for each device, which is the premise of `OneSend` and of
`Implements`, the refinement of `Delivery`.

**Billing.** The inductive invariant says that a request about to write
already has a covered balance (LIVE) or leaves a reason for debt on the
statement (TEST). The corollary `LiveOnlyNeverInDebt`: without TEST projects the
balance never is negative. `AnnouncedIsCharged` needs `Stations`: a request about to
announce has written usage and statement, or found no provider; neither is ever
taken back (`StaysBooked`). `AddsUpUnlessCrossed` needs `Current`: a request past its
read that nothing has crossed holds the balance of the newest line, which
`HeadIsBalance` says is the wallet's; the line it commits then starts where the last
one ended. `CommitsOrReads` reduces the actions to those that write the statement and
those that leave it alone.

**Verify.** A check about to count was begun while attempts were below the limit
and the verification was open; counting the checks in flight bounds the
attempts. Without overlap there is at most one.

**Worker.** Types are inductive only together with `Shape`: which places a
processor of each kind can be at, and that the delivery to be written is there.
`Holds` adds one part for each property. `Copies`: a run that has not yet
reached the remote call has one copy less to its account. `Done`: a webhook that
was found is still held by the run or has its outcome. `Blamed`: a failed job has
its reason on record. `RightRecord` and `RightLog`: in a first, undisturbed run the
records follow the remote calls. A step of another job leaves all of this alone
(`Frame`), and one lemma for each action says what it makes of its own job.

**Sessions.** Beside the types, `Inv` says that a refresh under way carries a token
(`Carrying`) and that every token in anybody's hands has a row (`Known`), so that a
family chosen by a login is held by no refresh. On top of it each property has its
own strengthening. `Rotation`: in a family that was not forked one refresh at most
is past its check, it holds the live token, the only one, and after the revocation
there is none. `Resets`: what is past a check, refresh or login, is accounted for
as the live tokens are. `Refusals`: a refresh that was not cut off and failed
had found its token over or revoked it. `OverIsOver` needs only `Inv`: the one action
that issues without holding a token is the login, and its family is unused.
`CallSteps` reduces the ten steps of a call to the three that matter.

**Pairing.** `Whereabouts` says of each device where its token is: nowhere before the
row; then in one answer and nowhere else; then on one phone, or lost, or replaced;
and it is heard of (ONLINE, a heartbeat written or under way) only when told and
not lost. Most steps are `Still` for a device; the making of a row, the arrival and
the loss of its answer have a lemma each. `CodeMakesOneDevice` needs that a row that
does not exist yet has no code, so that the claim takes none from another.

**Tenants.** `AccountsInv` adds three parts to the types. `Registering`: a
registration that has made its user is the only one of that address, and no
organisation of it exists, so `CreateOrg` founds the first. `Inviting`: whatever an
invitation was accepted for had been sent, and a sent invitation keeps its
organisation and role, which makes a member's role explicable later. `OneJoins`: an
invitation that was not crossed is held by one request at most, and by none once
somebody joined. `KeysInv` says the same of keys: only keys that are out have heirs
(`Rotating`); a key that was not rotated again has one heir at most, and none while
the rotation that revoked it is under way (`OneHeir`); and `OutForCause` is what
`KeysExplained` says of causes. `SeedInv`: a run has every row behind it (`Seeding`),
runs under way have met, and whoever made a row that a run has looked for in vain has
met that run (`Meeting`). That is why a double needs two runs that met, and the
proof of `CreateInv` is where it is used. Each step of `Tenants` is a step of one part
that leaves the others alone.

**Traffic.** `RouterInv` adds to what `RouteIsExplained` says `Trying`: of the matching
routes, those no longer left are excused, in the chain all of them, and every active
provider before the next one; and `Watching`: what the histories say of the moment, so
that a gateway that is down now is excused from now on (`UnusableIsExcused`). An
excuse is never taken back, so device steps do no harm (`DevicesMoveInv`). `InboxInv`
adds `Barring` (a DISABLED device is remembered) and `Uploading`, the exact number of
rows at each point of a call: as many as there were repetitions while it is sent, one
more once it is stored. `BecomesInv` says once what has to be shown of a step of one
SMS. The router's proof needs of the devices only that they exist; the inbox's that
one that exists does not vanish (`DeviceSteps`).

**Only model-checked.** The liveness properties (`EveryRowSettles`,
`StaleGoesOffline`, `StartedComesOnline`, `EveryJobEnds`), which are out of TLAPS's
reach. Every other property of a passing run is a theorem. Three invariants are proved
and no longer run: the types of `Verify`, `OpenRowsUncounted` (a row that may be handed
out has no counted attempt, so `attempts < 5` in the reclaim query excludes nothing, and
a phone whose reports are lost sends the same message every two minutes without end)
and `DebtIsFromTest` (a debt goes back to a charge of a TEST project).

## 5. Not modelled

Read-only code (analytics, the admin console, listings), the SDK, the pages of the
dashboards that are forms over the API, logging, metrics, migrations and
deployment keep no state that a step of another part could find changed.
A verification by voice places a call that carries no code (`verify.service.ts:82`), so
it can only expire; what a call says is not modelled. `Billing` takes the
balance of the seed for its `Opening`, with nothing on the statement. A second run sets
it back without a line: from then on the statement of the seeded organisation does not
add up, which `ResetIsExplained` records and `Billing` does not see.
`verifyEmail` sets a column that nothing reads. The adapters' calls for a balance
or a delivery status are made nowhere. Phone numbers, message bodies, passwords,
hashes and signatures are abstracted where they appear. Invoices, coupons and
pricing plans exist as tables without code. Other clients of the API than the
dashboard may hold tokens too; they do what `Query` and `Logout` do. The admin console
keeps an access token of its own and never refreshes it.

## 6. Order of the work

Built in this order: the core of delivery (`Devices`, `Gateway`, `Delivery`) with
its proofs; `Billing`, `Verify`, `Worker` with theirs; `Sessions`, `Pairing`, then
`Router`, `Inbox`, `Accounts`, `ApiKeys` and the modules that compose them; the proofs
of `Sessions` and `Pairing`, of `Tenants` and `Traffic`; `Seed` with its own. Left:
`Gateway` composed with `Router`, so that a message that moves to a carrier and its
outbox row are seen in one run; a `Sessions` instance with two browsers; and `Seed`
against `Billing`, so that a balance set back meets a charge under way.
