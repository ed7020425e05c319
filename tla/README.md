# Hawelly: formal models of the transfer workflow and its clients

Hawelly moves money for senders: a sender asks for a transfer, staff quote it,
the sender accepts and funds it, staff pay it out through an associate, and the
parties confirm, dispute or refund it. This directory models the API that
carries this out (`apps/api`), the sessions and limits around it, and the web
and Android clients that drive it; it checks the models with TLC and proves
their most important properties with TLAPS. Paths below are relative to the
repository root; `service.ts` alone means the service of the component under
discussion.

## 1. The system

The API is a stateless Node process over one PostgreSQL database. Every
operation of a workflow service is one HTTP request. Almost all of them run one
transaction that first locks the `TransferRequest` row
(`SELECT ... FOR UPDATE`), so operations on one transfer are serialised by the
database, and operations on different transfers touch different rows. What is
not serialised is what a request reads before its transaction: the status in
`transition`, the clock in the quote operations, the file write of an upload.
The web portal, the Android client and several staff members act on the same
transfer at once; requests are retried, abandoned, and the process may stop
between any two steps.

Around the workflow there are three places that a row lock does not cover, each
with a protocol of its own: sessions (conditional UPDATEs, Serializable
transactions and a version number on the account), submissions (advisory locks
on the idempotency key and on the sender) and the configuration (a Serializable
transaction behind an advisory lock, with unique indexes as the last word).

| component | state | operations | what makes it hard |
|---|---|---|---|
| transfer state machine (`transfers/state.ts`) | the table of allowed moves | `assertTransferTransition`, `reviewActionTarget` | one operation bypasses it, several rows of it are never used |
| transfer service (`transfers/service.ts`) | `TransferRequest`, `TransferCreationIdempotency`, `Recipient` | create, cancel, review, recipients | status read outside the transaction; idempotent retries; limits under concurrency |
| quotes (`quotes/service.ts`) | `Quote` versions, `acceptedQuoteId` | createDraft, sendDraft, listSenderQuotes, decide | clock read before the lock; lazy expiry; replacement while the sender decides |
| funding (`funding/service.ts`) | `FundingInstruction`, `FundingProof` | publishInstruction, submitProof, completeUpload, reviewProof, confirmFunds | a slow upload against the deletion of its placeholder; resubmission |
| evidence storage (`funding/storage.ts`) | files by object key | writeObject, deleteObject | file and row are written in two steps |
| payout (`payout/service.ts`) | `PayoutCase`, `PayoutEvidence`, `AssociateContact`, the staff `TransferConfirmation` | createCase, updateCase, addEvidence, completeUpload, reportPayout, hold, release, updateAssociate | two rows must agree; the contact changes under the case |
| resolution (`resolution/service.ts`) | `Dispute`, `RefundCase`, the sender `TransferConfirmation` | request/confirm receipt, completeByAdmin, dispute open/take/resolve, refund start/confirm | returning to a remembered status; refund against completion |
| database (`prisma/migrations`) | constraints and triggers | reject writes | their errors are never translated by the services |
| sessions (`auth/service.ts`) | `AuthSession` families, `sessionVersion` | login, refresh, logout, changePassword, authenticate | rotation races, replay detection, stale access tokens |
| rate limits (`auth/rateLimit.ts`) | `AuthRateLimit` windows | lock, read, record, clear | window edges, concurrent attempts |
| administration (`admin/service.ts`) | `AdminConfiguration`, `StaffProfile`, capability grants | activate, create/update staff, grant, revoke | activation races, live sessions of a demoted member |
| HTTP layer (`app.ts`, routers) | none | authenticate, authorise, parse, time out | guards that must agree with the services' |
| web portal (`apps/web`) | two session cookies, one refresh under way in each tab | refresh on 401, login, logout, the proxy; the pages of staff and sender | cookies shared by tabs; lists of statuses and capabilities repeated by hand |
| Android client (`apps/android-client`) | a saved idempotency key, the stored session | submit, refresh on 401, restart, logout | answers lost around a submission |
| audit log, release scripts | | | not modelled |

`PROJECT.json` lists every component with what is modelled of it, and every
hazard at the line where it bites with the properties that watch it.

## 2. The modules

```
TransferState            the table (constant level)
  +- TransferRecord      status, clock, requests in flight
  |    +- QuoteService
  |         +- TransferService      cancel and review
  |         +- FundingService
  |         +- PayoutService
  |              +- ResolutionService
  |    TransferWorkflow  the five services on one transfer: Spec, properties
  |      +- Portal                     what the clients offer to whom
  |      |    +- MCTransferWorkflow    small instances for TLC
  |      +- TransferWorkflowProofs     theorems and proofs
  |           +- PortalProofs          the same for Portal
  +- TransferLifecycle   the abstract promise TransferWorkflow implements

ProofRows                the abstract promise about a sender's proofs, which
                         TransferWorkflow and EvidenceUpload both implement
EvidenceUpload           attachment rows and their files
  +- MCEvidenceUpload    small instances for TLC
  +- EvidenceUploadProofs

SessionFamilies          the abstract promise of refresh tokens
AuthSessions             accounts, sessions and the requests that write them
  +- AuthSessionsProofs -> AuthSessionsRefinement
RateLimit                the windows of the login limiter
  +- RateLimitProofs
  MCAuthSessions         AuthSessions and RateLimit for TLC

AdminConfiguration       policies and the first administrator
  +- TransferCreation    recipients and the submission of transfers
       +- SenderApp      the Android app over a lossy network
            +- SubmissionsProofs
RequestLedger            the abstract promise of submissions
Browser                  tabs, cookies and the backend-for-frontend
  +- BrowserProofs
  MCClients              SenderApp and Browser for TLC
```

### The workflow

How state and actions correspond to the code:

- One action is one transaction under the row lock, with every write it makes.
  A request that reads before its transaction is two or three actions, and what
  it read stays in `inFlight[c]` in between: `ReadStatus` / `ApplyTransition`
  for `transition`; `RequestSend` / `SendDraft` for `sendDraft`, which captures
  the clock first; `RequestDecision` / `ExpireSent` or `NothingToExpire` /
  `AcceptQuote` or `RejectQuote` for `decide`, which runs `expireIfNeeded` in a
  transaction of its own and captures the clock twice. `Abandon` ends such a
  request without a write: a 4xx answer, a rollback, a lost connection, a crash.
- A guard is the code's early returns. Where the code answers 4xx the model has
  no step, because nothing is written but an audit row.
- `status` is `TransferRequest.status`; `quotes[v]`, `proofs[p]`, `disputes[d]`
  are the status columns of those rows with `"ABSENT"` for no row yet;
  `payoutCase` and `refundCase` are single rows (`"NONE"` before they exist).
  A row the database deletes goes back to `"ABSENT"`; reusing the name stands
  for a new row with a fresh UUID.
- The associate directory is reduced to whether the contact of this case is
  active and compatible (`USABLE`), which `UpdateAssociate` flips at any time.
  Evidence is reduced to what `reportPayout` asks: whether some reference or
  uploaded receipt is recorded.
- One transfer is enough: no modelled operation reads or writes a row of
  another transfer, except the contact, whose changes are free.

Abstractions that a reader may look for:

- `createDraft` and `submitProof` also capture the clock before their lock. The
  lag only makes a draft or an upload expire earlier, which any other validity
  already allows, so it has no state of its own.
- `CompleteUpload` has no expiry guard: the code checks expiry before it writes
  the file, so a slow upload may commit after `uploadExpiresAt`.
- `DISPUTE_RESUME_UNSAFE` protects disputes migrated from an older schema with
  an unverified prior status. No operation creates one, so they do not occur.
- Rows of the table that no operation uses: `NEEDS_INFO -> REQUESTED`, every
  move into `ON_HOLD` but the one from `PAYOUT_IN_PROGRESS`,
  `ON_HOLD -> DISPUTED`, `PAYOUT_IN_PROGRESS -> FAILED`,
  `REFUND_PENDING -> FAILED`.
- Amounts, currencies, notes, audit rows and projections are left out of the
  workflow: no property is about them. Who may call what is in `Portal`.

`TransferLifecycle` is the abstract specification: a status that walks the
table (plus the release of a hold), and the custody of the sender's money, which
moves from the sender to Hawelly at `FUNDS_CONFIRMED` and from Hawelly to the
recipient or back to the sender at most once. `TransferWorkflow` reads custody
off its rows (`Custody`) and implements it.

`Portal` adds no state. It writes down the lists of statuses and capabilities
that the operations portal, the sender's web pages and the Android screen repeat
(`OffersTo`, `WebOffers`, `AndroidOffers`), the routes with the capability each
asks for (`Routes`, `Permitted`, `RouteRules`), and what the services accept
(`Accepted`). The last is made of the guards of the actions themselves: what an
operation asks of the rows before it writes is an operator (`CanPublish`,
`CanResolve(d, action)`, ...) that its action and `Accepted` share, and
`NothingElseIsAsked` says that nothing else can refuse it. A page is taken as
just loaded: a stale page is answered by the guards of the services, which the
interleavings of the workflow exercise.

### Evidence

`EvidenceUpload` is the other half of an upload, which `FundingService` and
`PayoutService` reduce to its transaction: the file. There a request of
`completeUpload` is in a stage: it read the row (`BeginUpload`), created the
file (`OpenFile`, or `RefuseUpload` when one exists), wrote it (`FinishWrite` or
`BreakWrite`), committed or rolled back, and removed the file after an error
(`RemoveFile`). `deleteObject` unlinks by path, so an upload whose file was
unlinked goes on writing to a file without a name; `linked` says whether the
file an upload opened is still the one under the key. `sweep` holds what
`submitProof` has deleted in its transaction and not yet unlinked. The transfer
is reduced to which of the two kinds of upload its status allows, and other
operations move it at will (`StatusMoves`), which allows every schedule of the
real services. `Faults` lists what may go wrong besides rejected or broken
uploads and rolled back transactions, which are always possible: `CRASH` stops
the process between any two steps, `LOST_ACK` loses the answer to a commit that
took effect. An error of `unlink` itself is left out.

The module shares no definition with the workflow, so something has to say that
they are two halves of one thing. `ProofRows` does: it has the rows of the
proofs alone, which are waited for one at a time, lapse, arrive, are recorded,
or are taken away by the submission after them. Both modules implement it, each
with a `ProofRow` of its own: `TransferWorkflow` forgets reviews and the clock,
`EvidenceUpload` the files.

### Sessions

`AuthSessions` follows a request from what it reads first to its commit, in
`request[r]`: `LoginRead` / `LoginCommit`, `RefreshRead` / `Rotate` or
`RefreshLoses`, `ReplayClaim` / `ReplayCommit` for `revokeFamilyForReplay`,
`OpenRevocation` / `LogoutAllCommit` or `ChangePasswordCommit`, `LockStaff` /
`StaffCommit`. `Logout`, `RegisterSender` and `CreateStaff` write in one
statement or create what nobody else can name, and are one action each. `Abort`
ends any request without a write.

- PostgreSQL's isolation is modelled by its effect. An UPDATE revokes the rows
  it finds when it starts (`seen`), so a session inserted later survives it. A
  Serializable transaction fails when a row that it writes was written by a
  commit after its snapshot: every commit marks what it overtakes as `stale`
  (`Overtaken`), and a stale Serializable transaction can only `Abort`. Staff
  operations hold the account's row lock (`Locked`), which a login waits for
  only when it writes `lastLoginAt` (`LoginWritesUser`).
- A token is the session it belongs to, because the code finds the session by
  id and compares a hash; a family is named after its first session. A password
  is a number that a change raises.
- `SessionFamilies` is the promise: one token of a family works at a time, each
  worked once, a family that ended never works again.

`RateLimit` has the three buckets of one account and one address. A request
captures the clock before it waits for the locks, so `at` may lie up to
`MaxDelay` ticks behind `tick`, and buckets may be moved by a request that is
older than what they say. A login decides and records in one transaction;
`changePassword` in two (`AdmitChange`, `ChangeFails`), so several changes may
be admitted together. `failures` and `cleared` are logs for the property, not
state of the code.

### Submissions

`AdminConfiguration` has the policy rows and the administrators. An activation
reads under a snapshot that is older than its wait for the advisory lock, so
what it computes may be refused by the unique indexes (`Accepts`); the bootstrap
reads after the wait. `ValidateConfiguration` is the validator, over small sets.

`TransferCreation` follows `createTransfer` through its steps in `creation[q]`:
`Receive` reads the policy, the recipient, the stored key and the clock;
`LockKey` waits for the key and reads it again; `Count` takes the sender's lock
and counts; `Create` inserts; `Retry` starts again after a conflict on a unique
index and `Fail` gives up after `Attempts`. Recipients and policies change
between any two of these. A transfer is reduced to whether it is active.

`RequestLedger` is what all these steps promise: a ledger in which a submission
is entered whole and at once, within both limits and under an unused key, is
never edited or taken back, and is what a reported success names. `SenderApp`
reads it off the rows and the answers under way (`entered`, `reported`).

`SenderApp` is the app's one submission: what it saved before sending
(`SavedStateHandle`), the 401 that starts a refresh, the answer, its loss
(`Disconnected`), a restart of the process, a logout. Whether the API still
takes its refresh token is a free choice, because it is `AuthSessions` that
decides. `page` keeps a sender who was signed out from submitting before signing
in. Two variables are logs for the properties, not state of the code: `fate`
says of each key that the app made whether it is held, was answered with a
transfer (`REPORTED`), was dropped on a 4xx (`REFUSED`) or was given up by the
sender (`LEFT`: another content was submitted, or the app closed), and
`uncertain` has the keys of which an attempt that the API got ended without a
clear answer.

`Browser` has the cookies that the tabs share and what is under way in each tab.
A cookie is read when a request is sent and written when its answer arrives; a
refresh may time out in the proxy and still be served by the API (`late`). The
API is reduced to what it says of a token.

## 3. The runs

Every step of the workflow, of a submission or of a session is taken by a person
or a retrying client and nothing in the API schedules them, so these
specifications have no fairness and claim no liveness. `EvidenceUpload` alone
assumes some, in `FairSpec`: a request that has its file open goes on
(`Continue`), because `index.ts` sets a `requestTimeout` that ends a body which
does not arrive, and everything after it is an awaited promise; so does a sweep
that was begun. That a request is made is never assumed. Deadlock is not an
error, because transfers, families and key sets end. `SomebodyCanGoOn` states
what can be said of progress without fairness: that the clients never leave a
transfer in a state from which they offer no way on.

| run | instance | result |
|---|---|---|
| `workflow` | 2 requests in flight over 2 quote versions and 2 clock ticks; then 1 request after 1 quote, with 2 proofs and 2 disputes; nine kinds of staff | passes, 570,925 states |
| `cancelled_case` | as small as the counterexample | `CancelledCaseIsClosed` violated |
| `expired_quote` | as small as the counterexample | `ObservedExpiryMovesTransfer` violated |
| `expired_draft` | as small as the counterexample | `QuotingCanContinue` violated |
| `evidence` | 2 proofs, 1 receipt, 2 uploads at once, crashes, with fairness | passes, 210,630 states |
| `lost_commit` | 1 proof, 1 upload, lost answers | `SubmittedEvidenceStays` violated |
| `refused_retry` | 1 proof, 1 upload, crashes | `RefusalIsTrue` violated |
| `sessions` | 1 account, 3 sessions, 2 requests at once, lifetimes of 2 ticks; windows of 4 ticks, limits of 2, one password change | passes, 1,729,536 states |
| `replayed_family` | 1 account, 3 sessions, 2 requests | `ReplayRevokesFamily` violated |
| `clients` | 2 submissions at once, 2 keys, 2 activations and bootstraps, the app; 2 tabs, 2 calls, 2 tokens | passes, 611,065 states |
| `logout_during_refresh` | the same | `LogoutEndsFamily` violated |
| `dropped_key` | the same | `KeyKeptWhileAmbiguous` violated |

Two runs check components that share no state side by side, instead of the
product of their states, which would show nothing more. `MCAuthSessions` moves
the limiter only while no account exists and the sessions only while no attempt
was counted. `MCClients` does the same with `Browser` and `SenderApp`, and
splits the latter into three scenes: `Administrators` with activations and
bootstraps that overlap each other and submissions that have read; `Clients`
with overlapping submissions while policies are activated one at a time and
recipients change; `App` with one policy and one recipient that stay. What the
scenes leave out is the app while policies change, while other clients submit or
while a transaction is retried. Every property of `SubmissionsSpec`,
`BrowserSpec` and `LimiterSpec` is proved without scenes.

`MCTransferWorkflow` has two scenes of one transfer. Quoting, until a proof is
announced, has two requests in flight and all quotes. Settling, from then on,
goes on only from one quote with at most one request in flight
(`OneQuoteOneRequest`): an accepted quote ends all quote races but those of a
stale request, and one such request may be left. What it read of statuses that do
not come back, or of a clock by which no quote expires any more, makes no
difference then and is left out. The theorems about the workflow hold for
`Spec`, without scenes.

Bounds. Two requests in flight show every race of two actors; two versions and
two ticks let a quote be replaced, or expire, while a request that captured an
earlier clock is waiting. Two proofs give resubmission and the deletion of a
stale placeholder; two disputes give a second dispute after a resumption. In
`evidence`, two uploads race for one file and two proofs let one replace the
other while its upload is still being written; a second receipt would only
repeat the first, since nothing deletes receipts. Three sessions are a family
with a successor and either a second family or a second rotation, and two
requests a race for one token; the lifetime of two ticks lets a session expire
inside its family. The version of the account is raised once, so an account that
is closed and opened again is left to `AccessTokensEnd`, which holds for any
number of changes. The limiter runs over two windows and a half with limits of
two. One account suffices for sessions, one sender for submissions, as no lock,
limit or key spans two. One active transfer, one in a window and two keys reach
every limit. The theorems hold without these bounds.

Properties of the workflow and of evidence:

- `AcceptanceIsFinal`: the accepted quote, the link and the status agree; nothing
  newer was on offer when it was accepted, nothing is on offer after.
- `CaseAgreesWithTransfer`, `DisputeAgreesWithCase`: the rows written by
  different services agree at every commit.
- `FundsRestOnVerifiedProof`: funds are confirmed only behind the one verified
  proof for the instruction of the accepted quote.
- `PaidOutOrRefunded`: no transfer is both paid out and refunded, and a payout
  that was reported is never in progress again, so the recipient is not paid
  twice.
- `DatabaseAcceptsEveryStep`: no step is one that a status trigger or a partial
  unique index rejects, so the services never fail with a database error they do
  not translate.
- `ImplementsLifecycle`: the composition implements `TransferLifecycle`.
- `ImplementsProofRows`: in the workflow, and again where their files are
  modelled, the sender's proofs move as `ProofRows` says.
- `OfferIsAccepted`: what a page just loaded offers, its user may do and the
  service accepts, but for the refusals listed below.
- `SomebodyCanGoOn`: a transfer that has not ended is in somebody's list with a
  step they may take. Two waits are named: a draft past its expiry (the
  `expired_draft` run) and an upload that was lost, until its link lapses.
- `NothingElseIsAsked`: a service that found its conditions met takes its step;
  it is not refused half way by the table of moves or for a row that it needs
  then. The release of a hold, which the table does not contain, is what this
  watches most.
- `RecordedEvidenceIsWhole`: a row that promises evidence has its whole file.
- `NoStrayFile`: any other file belongs to an upload or a sweep that will remove
  it, unless the process died over it. `cutOff` remembers what it died over, and
  forgets a row that `submitProof` replaces: from then on its sweep answers for
  the file.
- `FilesSettle`: such a file is in the end recorded or removed.

Properties of sessions and limits:

- `OneLiveSessionPerFamily`: however refreshes overlap, a family has one session
  that works; `FamilyEndsOnTime`: no chain of refreshes outlives its login.
- `PasswordIsCurrent`: no session works that an older password opened, whatever
  login was verifying it while the password changed.
- `EveryDeviceSignedOut`: when an operation that ends all sessions of an account
  commits, none works, the ones issued while it ran included.
- `AccessTokensDie`: when the session version is raised every access token of the
  account is refused, also in families that go on, and no token that was refused
  is accepted again: not when its account is reopened, nor when a slow request
  signs it with the version it read before.
- `ReplayHandledOnce`: a replay that was handled stays handled.
- `ImplementsFamilies`: the sessions implement `SessionFamilies`.
- `FailuresBounded`: an interval of a window's length, less the delay of the
  clocks, has at most twice the limit of failures and of admitted changes: the
  factor is what fixed windows cost.
- `RetryAfterIsEnough`: who waits for the time in the answer is not refused by
  the same block.

Properties of submissions and clients:

- `OneActiveConfiguration`, `OneBootstrap`: what overlapping administrators leave.
- `SubmissionLimitsKept`: no window has more transfers than its limit, and no
  more are active than allowed, with the clock captured before the lock.
- `KeyNamesOneTransfer`: a key names one transfer, and every success answered
  for it is that transfer, made from the content sent.
- `TransferIsPayable`: the recipient and corridor checked before the transaction
  still carry the transfer after it.
- `AppKnowsItsTransfers`: a transfer that the app's keys made was reported to it,
  or the key that finds it is still saved, whatever was lost or restarted. The
  exception is a key given up after an attempt without an answer, by the sender
  or by a refusal; that the latter happens is what `dropped_key` shows.
- `ImplementsLedger`: the submissions implement `RequestLedger`.
- `TokenPresentedOnce`: a tab that got an answer never presents the same refresh
  token again, which would end its session as a replay.
- `SessionEndsBeforeItsCookies`: when a logout clears the cookies, the session
  whose token the logout sent does not work any more (the cookies may be another
  session's by then: `logout_during_refresh`).

What the violated runs show:

- A sender may cancel a transfer `ON_HOLD`, whose funds are confirmed: its
  payout case stays `ON_HOLD`, and no refund is recorded. The resolution
  migration says the case status "must agree with the terminal transfer
  outcome".
- A `START_QUOTING` review takes a `QUOTED` transfer back to `QUOTING` and leaves
  its quote on offer. Observing the expiry of that quote then does not move the
  transfer (while the audit event says it did).
- A draft that outlives its expiry can be neither sent nor replaced, so its
  transfer can never be quoted again.
- `completeUpload` deletes the file after any error of its transaction. When the
  commit took effect and only its answer was lost, the file of a submitted proof
  is gone, although "there is no automatic deletion of submitted evidence".
- A file that a crash left behind refuses every retry of its upload with
  "Evidence has already been uploaded", until the URL expires.
- The sweep of a replayed family misses the successor that a concurrent refresh
  inserts after the sweep's statement began, and the marker written with it
  keeps later replays from sweeping again. The account's version is raised, so
  access tokens die, but the successor's refresh token works on.
- A tab that logs out with a token another tab is just rotating revokes nothing,
  is answered 204 and clears the cookies; the family goes on with the successor
  that the other answer brings.
- The Android app drops a submission's key on any 4xx (`HawellyViewModel.kt:209`),
  also when an earlier attempt with that key has no answer yet. A submission is
  sent and its answer lost; the sender taps again with an expired access token,
  the refresh is refused, and the 401 drops the key, while the API still commits
  the first attempt. After signing in again the same form is sent with a new key
  and makes a second transfer, within the limits of the sender. The design says
  of the key that it is "retained ... only while the result is ambiguous"
  (`ANDROID_RECIPIENT_TRANSFER_PROFILE_V3.md`), which it still is. A retry that is
  refused for a limit, or because a policy or recipient changed meanwhile, drops
  the key in the same way.

Also noticed, with no document to hold it against: a proof that was verified
cannot be reviewed again, so a transfer whose verified money never arrives is
stuck in `FUNDING_SUBMITTED` (it can be neither returned nor cancelled; confirming
it is all the clients offer). `Portal` names the offers that the API refuses:

- "Request information" at `NEEDS_INFO`, always; a quote still `SENT` after a
  review took its transfer back; a draft past its expiry;
- keeping or reporting with a contact that is no longer usable; completing by
  resolution a dispute over a payout in progress;
- hold and release without `TRANSFER_HOLD`, the confirmation request without
  `PAYOUT_MANAGE`, a resolution as refund without `REFUND_MANAGE`;
- a proof while an upload is pending; and the dispute category `PAYOUT_ISSUE` of
  the Android form (`HawellyApp.kt`), which `resolution/validation.ts` does not
  know.

## 4. The proofs

| theorem | says | module |
|---|---|---|
| `TypeCorrect` | `Spec => []TypeOK` | `TransferWorkflowProofs` |
| `CaseCorrect` | `Spec => [](CaseAgreesWithTransfer /\ DisputeAgreesWithCase)` | `TransferWorkflowProofs` |
| `DisputesCorrect` | `Spec => []DisputeAgreesWithCase` | `TransferWorkflowProofs` |
| `AcceptanceCorrect` | `Spec => []AcceptanceIsFinal` | `TransferWorkflowProofs` |
| `FundingCorrect` | `Spec => []FundsRestOnVerifiedProof` | `TransferWorkflowProofs` |
| `MoneyCorrect` | `Spec => []PaidOutOrRefunded` | `TransferWorkflowProofs` |
| `DatabaseCorrect` | `Spec => DatabaseAcceptsEveryStep` | `TransferWorkflowProofs` |
| `RefinementCorrect` | `Spec => ImplementsLifecycle` | `TransferWorkflowProofs` |
| `ProofRowsCorrect` | `Spec => ImplementsProofRows` | `TransferWorkflowProofs` |
| `OffersCorrect` | `Spec => []OfferIsAccepted` | `PortalProofs` |
| `WaysOnCorrect` | `Spec => []SomebodyCanGoOn` | `PortalProofs` |
| `UploadTypeCorrect` | `Spec => []TypeOK` of `EvidenceUpload` | `EvidenceUploadProofs` |
| `EvidenceCorrect` | `Spec => []RecordedEvidenceIsWhole` if no answer to a commit is lost | `EvidenceUploadProofs` |
| `FilesAccountedFor` | `Spec => []NoStrayFile` | `EvidenceUploadProofs` |
| `UploadRowsCorrect` | `Spec => ImplementsProofRows` of `EvidenceUpload` | `EvidenceUploadProofs` |
| `SessionTypesCorrect` | `Spec => []TypeOK` of `AuthSessions` | `AuthSessionsProofs` |
| `FamiliesHaveOneLiveSession` | `Spec => []OneLiveSessionPerFamily` | `AuthSessionsProofs` |
| `RotationKeepsTheEnd` | `Spec => []FamilyEndsOnTime` | `AuthSessionsProofs` |
| `OldPasswordsOpenNothing` | `Spec => []PasswordIsCurrent` | `AuthSessionsProofs` |
| `SignOutIsComplete` | `Spec => EveryDeviceSignedOut` | `AuthSessionsProofs` |
| `AccessTokensEnd` | `Spec => AccessTokensDie` | `AuthSessionsProofs` |
| `ReplaysHandledOnce` | `Spec => ReplayHandledOnce` | `AuthSessionsProofs` |
| `SessionsImplementFamilies` | `Spec => ImplementsFamilies` | `AuthSessionsRefinement` |
| `ConfigurationsCorrect` | `SubmissionsSpec => []OneActiveConfiguration` | `SubmissionsProofs` |
| `BootstrapCorrect` | `SubmissionsSpec => []OneBootstrap` | `SubmissionsProofs` |
| `KeysCorrect` | `SubmissionsSpec => []KeyNamesOneTransfer` | `SubmissionsProofs` |
| `TransfersPayable` | `SubmissionsSpec => []TransferIsPayable` | `SubmissionsProofs` |
| `LimitsCorrect` | `SubmissionsSpec => []SubmissionLimitsKept` | `SubmissionsProofs` |
| `SubmissionsTyped` | `SubmissionsSpec => []SubmissionsTypeOK` | `SubmissionsProofs` |
| `AppTransfersKnown` | `SubmissionsSpec => []AppKnowsItsTransfers` | `SubmissionsProofs` |
| `SubmissionsImplementLedger` | `SubmissionsSpec => ImplementsLedger` | `SubmissionsProofs` |
| `AttemptsBounded` | `LimiterSpec => []FailuresBounded` | `RateLimitProofs` |
| `RetryAfterCorrect` | `LimiterSpec => []RetryAfterIsEnough` | `RateLimitProofs` |
| `TokensPresentedOnce` | `BrowserSpec => []TokenPresentedOnce` | `BrowserProofs` |
| `LogoutComesFirst` | `BrowserSpec => SessionEndsBeforeItsCookies` | `BrowserProofs` |

They hold for every set of clients, proofs and disputes, of capabilities that
members of staff have, of attachments and of uploads at once, of accounts,
sessions and requests, of submissions, keys, transfers, policies and
administrators, of tabs, calls and tokens, of password changes at once, and
every limit and every bound on versions and time. The assumptions, which TLC
evaluates on the instances: the bounds, limits and lifetimes are natural
numbers, and a submission has at least one attempt; the limits of the login
limiter are at least two, as `auth/config.ts` demands, and finitely many
password changes are under way, none for longer than a window; a draft is valid
for at least one tick (the validation asks for five minutes), and so is an
upload link (`funding/config.ts` asks for a minute); the two kinds of attachment
are distinct and `Faults` are known ones; `"NONE"` and `None` are nobody's name;
a submission names a recipient that could exist.

The workflow. The weak point is `ApplyTransition`, which writes a target that
was checked against a status read earlier. `RequestsChecked` says that every
transition in flight was allowed by the table from the status it saw; since the
update asks for that same status, the step is a table move after all. The table
then splits the workflow (`EarlyStep`, `LateStep`): a review or a cancellation
can only touch the rows of quotes, before the payout exists or from a hold.

- `CaseInvariant` is the two case properties, inductive together with the types
  and `RequestsChecked`: neither is inductive alone, because resolving a dispute
  needs to know what the case was paused in, and pausing needs the status.
- `QuoteInvariant` adds `QuotesInOrder`: versions are created without gaps, a
  sent quote is newer than any decided one and older than any draft, so the
  accepted version is the last that was on offer.
- `FundingInvariant` relates the instruction, the proofs and the status, and
  needs `QuoteInvariant` for the link.
- `MoneyInvariant` adds what the refund case and the confirmations say, and
  needs `CaseInvariant`.
- `Invariant` is their conjunction; every step from it is a step the database
  accepts and a step, or a stutter, of `TransferLifecycle`.

The offers. A page shows what one status list, and often one row, says; the
service asks for the status and for every row. So `OfferIsAccepted` rests on the
agreement of the rows, which is `Invariant`: that a case in progress means a
transfer in progress, that a proof waits only while the transfer says so, that
an active dispute means `DISPUTED` and a reported payout has the staff's
confirmation. Two facts are missing from it, and `PortalInvariant` adds them: a
quote is on offer only at `QUOTED` or where a review took the transfer since
(`QuotesInForce`), and nothing is published yet for a quote just accepted
(`NotYetInstructed`). `EarlySteps`, `PayoutSteps` and `ResolutionSteps` say once
that a guard that holds is never refused by the table; a lemma for each panel
says that what it offers is `Good`. For `SomebodyCanGoOn` one of these offers is
named at each status, from `QuotingGoesOn` to `ResolutionGoesOn`: the sender's,
or the administrator's, whom nothing but the rows can hold up.

For `EvidenceUpload`, `RecordedEvidenceIsWhole` is not inductive: what a commit
promises depends on what was written, and on nobody having taken the file away.
`LinksAgree` says that an upload in hand either still holds the file under its
key, as far as it has written it, or lost it to the deletion of its row; that no
two uploads hold one file, because creation is exclusive; and that a row in hand
is not recorded, which is exactly what a lost answer breaks. `NoStrayFile` is
inductive with the types alone, for every choice of `Faults`.

The proofs' rows. In the workflow, a row is lapsed when the clock has passed
what its link was given, so the step to `ProofRows` needs that a link lives for
at least one tick: otherwise a proof would be announced and lapsed at once. The
tick itself may make any links lapse, and every other step but a submission and
a recorded upload leaves the rows alone; a review needs `TypeOK` only. In
`EvidenceUpload` lapsing is a step of its own, and `NothingLapsesBefore` says
that it happens to no row before there is one; a submission could otherwise
announce a proof whose link had already lapsed.

Sessions. None of the session properties is inductive alone. `AccountEffect`,
`SessionEffect` and `RequestEffect` first say, for all actions together, what a
step may do: an account only moves on; the sessions see some end (`SomeEnd`),
one opened (`Opened`) or one replaced (`Replaced`), and whoever is overtaken by
that becomes stale; a request waits, moves on or is over. From these follow

- `Consistent`: the types, and that sessions and requests belong to accounts and
  families that exist;
- `SweepsInv`: a Serializable transaction that is not stale has seen exactly
  the live sessions of its user, and a staff operation, which holds the row
  lock, at least these. This is what makes a sign-out complete;
- `ClaimsInv`: a replay is claimed by one open transaction at a time, so a
  rollback cannot reopen one that another has handled;
- and the three session properties, conjoined in `IInv`;
- `VersionsInv`, beside it: no access token, and no request that will sign one,
  has a version ahead of its account's. `VersionKept` says that a step which
  closes or opens an account raises its version, so a token signed before is
  behind for good, which is `AccessTokensDie`.

`SessionsImplementFamilies` maps a family's working token to its one live
session (which is unique by `IInv`) and its spent tokens to the rotated ones:
`Opened` begins, `Replaced` rotates, `SomeEnd` ends.

Submissions. `AdminInv` counts the policy rows against their versions
(`Numbered`), which is why an activation computed from an old snapshot collides
with an index; nothing else writes these rows. `SubmissionInv` adds `Truthful`
(what a submission was answered is the transfer under its key), `Checked` (what
it read before its transaction was allowed by a policy that is still stored, as
policies are only ever added or deactivated) and that keys are unique among
transfers: a `Create` whose key was seen free still finds it free, because it
holds the key's lock.

`ServedInv` is about the two locks. It says what a submission that holds them
may rely on until it inserts (`Served`): its key is unused, and the counts still
have room, although a window is counted from a clock that was read before either
lock. Two holders never share a key, and only one has counted (`Apart`). The
limit of a window follows: if the new transfer falls in a stretch that starts
with an older one, every transfer of the stretch is recent for the new one too,
so it was counted; that `Recent` has no upper end is what the argument needs.
`AppLogInv` keeps the logs of the app in step with what it saved: a key is held
exactly while it is saved. `AttemptsInv` accounts for what was sent under its
keys: each such request is the one that the app waits for, or its key is in
`uncertain`; and so is the key of each transfer, but for one that was reported
or whose answer is on the way. A refusal that the app gets from the API itself
therefore names no transfer, unless an earlier attempt is in doubt, and
`AppKnowsItsTransfers` follows. `AppMoves`, `CreationMove` and `AppMove` reduce
every step of the composition to a few kinds; only `Create` enters something in
the ledger, in the state that `ServedInv` describes.

The limiter. A bucket counts the last failures of the log, and the ones before
belong to windows that are over, but only nearly so: clocks are read before the
locks, so a failure may be recorded up to `MaxDelay` after the time it counts
for, and a change that was admitted before the block may still add to a window
that is full. `WindowCounts` says which failures of the log the window counts;
`WindowBlocks`, that from the limit on only changes admitted earlier (`Early`)
can still add to it, and never beyond the quota. An interval that ends in the
current window reaches back into one earlier window at most (`Previous`), which
gives the factor two. The invariant first failed for a limit of one, and TLC
showed why: the attempt that opens a window never blocks
(`recordBucketAttempt`, `rateLimit.ts`), so with a limit of one each new window
would admit an attempt too many, and `FailuresBounded` would be false. The API
refuses such a limit at its start, and the model now states that.

The browser. Two facts about the cookie that the tabs share carry
`TokenPresentedOnce`. While the cookie holds a token that a tab has presented,
this tab's refresh with it is under way (`PresentedIsPending`), so the tab, which
has one refresh at a time, cannot present it again; and the token that a refresh
brings is new to the cookie, to every tab and to the other refreshes
(`RenewalsAreNew`), so an answer, even a late one, never puts a presented token
back. The second needs that whatever the browser holds was issued by the API
(`AllIssued`), which issues a token once. For `SessionEndsBeforeItsCookies`, the
token of a logout that succeeded is rotated or revoked, and stays so
(`LogoutsEnded`).

Only model-checked: `FilesSettle`, since liveness under fairness is out of this
prover's reach, and `NothingElseIsAsked`, which compares the guards with
`ENABLED`, for which it has no rules. The second is what the offers' theorems
leave to TLC: they prove that the guards hold, not that the whole action can
then be taken. The violated properties are refuted by their runs.

## 5. Not modelled

- The audit log is written inside each transaction and never read back; the
  release and verification scripts run once, sequentially.
- `updateFullName` writes one column that nothing decides on; registration with
  an address in use leaves no trace; the registration bucket counts as the login
  buckets do. Funding templates are independent rows with one writer each;
  listings and projections change nothing, except that `listSenderQuotes`
  observes expiry, which is modelled.
- The associate directory is reduced to whether the case's contact is usable.
  The portal's own filter of contacts (`payout-actions.tsx`) ignores currencies
  that the service checks; the model has no currencies there.
- Of the clients, the administrators' console, recipient forms, dashboards,
  profile and the encryption of stored tokens are left out.
- Signed URLs, hashing, token formats and cookies' attributes are taken to do
  what they are for. Parsing, validation of bodies, configuration and the
  mapping of errors keep no state.
- Database constraints other than status triggers and the unique indexes over
  statuses, versions and keys: no modelled operation writes a column that the
  immutability triggers protect twice.

What would come next: payout receipts tied to their files as the proofs now
are, and the liveness of files by hand, as no prover here takes it.
