# mpgd-kit: a TLA+ model of its purchases, refund sweeps, guest sessions, account deletion and post operations

mpgd-kit is a TypeScript kit for shipping one game to many stores. Most of it is
contracts, adapters over vendor SDKs and packaging scripts. The part whose
correctness depends on what several processes do at once is the game services
backend: Cloudflare Workers that share one D1 database, receive verify requests
from clients, notifications from stores and deletions from players, and run in
isolates that may die between any two statements. The identity Worker that
keeps a guest's session is of the same kind, and so are two parts outside of the
Workers: the journal with which the game client follows its purchases from the
store's sheet to the grant, and the coordinator that posts to Reddit from
Devvit. This project models them statement by statement, or call by call,
model-checks them with TLC and proves their main safety properties with TLAPS.

Source paths below are relative to `src/`; `game-services` is
`packages/game-services/src`, `worker` is `apps/game-services-worker/src`,
`identity` is `apps/game-identity-worker/src`.

## 1. Inventory

| Component | State it keeps | Operations | Talks to |
|---|---|---|---|
| Entitlement ledger, `worker/d1Store.ts`, migrations 0001, 0004, 0006 | `entitlement_transactions` (grants), `entitlement_revocations`, unique indexes, a foreign key | insert-or-ignore and read back; finds by key, id, evidence, evidence prefix | every component below |
| Purchase verification and restore sharing, `game-services/server.ts` | none between requests; locals of a request | `verifyPurchaseForRetry`, `shareRestoredPurchase`, `recordEntitlementGrantWithEvidence` | ledger, store verifiers, finalizers |
| Revocations, `game-services/commerce-ledger.ts` | none; locals of a call | `revokeEntitlementGrant` and its fan-out over a purchase's holders | ledger |
| Store events, `app-store-server-notifications.ts`, `google-play-store-server.ts`, `google-play-rtdn.ts`, `worker/storeServerCron.ts` | delivery state at the store; sweep cursors and finalization rows in D1 | match an event to a grant, revoke, answer (acknowledge or ask for a retry); cron sweeps | ledger, revocations |
| Account deletion, `game-services/account-deletion.ts`, `worker/accountDeletion.ts`, `deletionTombstones.ts` | pending erasures, tombstones | delete at the identity service, erase every store, cron's final pass, retention purge | identity service, ledger, all other stores |
| Guest identity, `identity/identityService.ts`, `d1Store.ts` | session families, refresh tokens and their successors, deletion confirmations | create, refresh (rotation, grace, replay detection), revoke, delete | game services (token checks) |
| Guest session coordinator, `game-services/guest-session.ts` | the session in memory, the refresh token in secure storage, a queue of operations | start, refresh, bind, logout | guest identity, secure storage |
| Client journal, `game-services/commerce-reconciler.ts`, `monetization-operation-store.ts`, `monetization-recovery.ts` | operation records with compare-and-swap versions | start, recover, verify, finish a purchase | store SDK, backend |
| Devvit post operations, `adapters/devvit/src/server` | operation records, a registry of them, reconciliation leases in Redis | execute, read, reconcile, list | Reddit API |
| Notifications, `game-services/notifications`, `worker/notifications*` | subscriptions, claims, deferred sends | subscribe, claim, send, sweep | push providers |
| Verified leaderboards, progress links | attempts and best scores; one-time codes | submit, rank; issue, redeem | ledger of scores |
| Evidence verifiers, platform contracts, CLI, native plugins | none shared | checks of payloads, SDK calls, file scripts | stores |

What makes them correct, and what is hard about each:

- **Ledger, verification, sharing.** No more than `maxHolders` players hold a
  purchase; nobody is granted it twice; an answer `verified` is backed by a
  grant. Hard because a request reads holders, decides, and writes in separate
  statements while other isolates do the same; the only arbiter is a unique
  index, and insert-or-ignore is silent.
- **Refunds against restores.** A refund ends every grant of the purchase,
  those in flight included. Hard because neither side locks: the refund writes
  its first entry and then reads holders, the restore writes its share and then
  reads entries.
- **Redelivery and crashes.** A store repeats an event until it is answered; an
  isolate may die anywhere. What an earlier attempt left part-way must be
  finished, and an acknowledged event must have missed nothing.
- **Voided purchases.** The cron reads what Google voided in slices, run after
  run. Hard because a run is cut by a budget, a page cap, an error or a lost
  isolate between any two writes of its five cursors, and Google lists a void
  some time after recording it: a cursor moved too far loses a refund for good,
  one not moved repeats the same slices for ever.
- **Account deletion.** The deleted player's id leaves every row while requests
  that authenticated earlier still run, and the rewrite must not lose a
  revocation appended between its reads and its batch. The pending erasure must
  survive a lost answer of the identity service.
- **Identity.** A refresh token rotates once; the loser of a race, or a client
  that lost the answer, gets the successor, while a replayed token ends the
  session.
- **Client journal.** The store's sheet opens once for a key, a transaction is
  finished only after its grant and verified under one key, and a purchase that
  was paid for is finished at last. Hard because the sheet outlives the app and
  its timeout, the store reports a purchase by event, by list and by answer, and
  two contexts of one install write the journal.
- **Post operations.** A post is submitted once. Hard because a crash between
  the fence and the answer leaves a submission nobody knows the outcome of, and
  reconcilers race with it, and with each other once a lease expired.

`PROJECT.json` lists every hazard at its line.

## 2. Modules

```
PurchaseLedger      the rows of one purchase, one operator per SQL statement
  GrantRevocation   revokeEntitlementGrant, a statement per step
    RestoreSharing  verify requests, restores, refunds, admin entries, faults
      RestoreSharingProofs   theorems
        RefundProofs         theorems about the refund
      MCRestoreSharing       small instances
      RetainedPurchases      account deletion and the retention purge
        RetainedPurchasesProofs   theorems, on those of RefundProofs
        MCRetainedPurchases  small instances

GuestIdentity         a guest's session family and the device that holds it
  GuestIdentityProofs theorems
  MCGuestIdentity     a small instance

AccountDeletion       account deletion across services, the cron's sweep
  AccountDeletionProofs  theorems
  MCAccountDeletion   small instances

PublishOnce           what a post operation promises
PostOperation         execute and reconcile on Redis; implements PublishOnce
  PostOperationProofs theorems
  MCPostOperation     a small instance

VoidedSweep           the cron's sweep of Google Play's voided purchases
  VoidedSweepProofs   theorems
  MCVoidedSweep       a small instance

PurchaseJournal       the client's reconciler and its journal
  PurchaseJournalProofs  theorems
  MCPurchaseJournal   a small instance
```

**PurchaseLedger.** `grants`, `revocations` and `tombstones` are the tables,
restricted to one purchase of a non-consumable. A grant is its player, its
idempotency key, its slot (slot 0 is the purchase's own evidence id, slot n the
evidence id `<id>#mpgd-holder:n`) and `across` (`restoredAcrossAccounts`). A
ledger id is the pair of player and key, from which the code derives it. An
entry keeps what its payload says of its origin (`by`: the store's notification,
the support tool, a closing restore), which its derivations and the rewrite of a
deletion copy (`detachRetainedLedgerPayload` drops the player id only). Every
operator is one statement, with the conflicts of its unique indexes
(`GrantInserts`, `RevocationInserts`).

**GrantRevocation.** `call[c]` is the one revocation call caller `c` runs:
the request's entry, the holders read by the current pass, those left to
revoke, the pass. Steps: read the named grant, insert the entry, read it back,
and for a store event read shares, first grant and revocations, then insert
and read back one entry per active holder, pass after pass, until a pass finds
none or the passes run out. The foreign key refuses an entry for a grant that is
gone, unless insert-or-ignore skips the row for a unique conflict (`Refused`).

**RestoreSharing.** `req[r].at` is where a verify request stands, the other
fields what it has read. The steps follow `verifyPurchaseForRetry`: the key's
grant (`Lookup`, `Replay`), the store's verdict (`Verify`), the path of a
purchase bound to the player (`Bound...`), the path of a share (`Share...`),
the insert and its read back, and the recheck after a share (`Reread`,
`ReadEnded`, `DecidePrior`, `Closed`). `event[e]` is a store event from the
refund to its settlement. `AdminRevokes` is a support tool, `LoseRequest` and
`LoseDelivery` an isolate lost at any statement, `Resend` and `Redeliver` the
retries of clients and store.

**RetainedPurchases** runs RestoreSharing beside account deletions:
`erasure[p]` is the eraser's progress (tombstone, read grants, read
revocations, one batch, then the cron's final pass), `Purge` the retention
purge of detached rows.

**GuestIdentity** composes the identity service and the coordinator on the
guest's device. `family` is the one row of the session family, with two flags
for the clock (the grace and the inactivity window are over), `access` its
access token rows, `req[r]` a request at the service with what it has read,
`client` the coordinator's status, the token it holds, the token in secure
storage and the request in flight. The coordinator runs one operation at a time
(`enqueue`), but a request it gave up on (`GiveUp`, the HTTP timeout) or that a
killed app left behind (`Reopen`) still runs at the service, beside those sent
later. Service actions are the statements of `refresh` and `revoke`: `FindToken`,
`ReadFamily`, `Rotate` (the compare-and-swap batch), `AddAccess` (the retry
within the grace), `Revoke`, and `DeletePlayer` of an account deletion. Device
actions are the operations and their outcomes, a save or a removal that fails
included. A rotation derives the next token from the one it replaces and a
nonce kept in the row, so tokens of a family are numbered.

**AccountDeletion** is the protocol around the erasure that RetainedPurchases
has in detail. `live` are the players the identity service knows, `phase` and
`earlier` the pending erasures and the order in which a sweep lists them,
`tombs` the tombstones and `rows` what is kept under a player's id at the game
services. A deletion request records the pending entry, deletes the
identity with retries, marks the entry, writes the tombstone, erases the rows
and leaves the entry to the cron when it was marked, each a step whose answer
may be lost and after each of which the isolate may be. The sweep lists a page
of entries, takes them one after the other, discards the stale ones, erases,
defers what failed and clears what is final. A signed-in request and an ad
network's callback check and write in separate steps.

**PublishOnce** is the abstract post operation: `submissions`, `outcome`,
`disputed` and `told`, with four actions. **PostOperation** is the coordinator:
`record` is the operation's value in Redis, `indexed` its membership in the
registry, `lease` the lease's token, `posted` what Reddit has, `call[c]` one
`execute`, `reconcile` or `read` with the raw record its compare-and-set expects
(`seen`) and what it found. A refused comparison is re-read and tried again
`StoreAttempts` times as in the code (`Reread`, `Converge`). `reconcile` returns
the promise of its commit from inside a `try` without awaiting it, so the
`finally` that releases the lease runs beside the commit: `lets` says that the
release is still to come, and a call is over when both are.

**VoidedSweep** counts time in minutes. `void[v]` is when Google recorded a void
and whether it lists it yet, `cursors` the five rows of `store_server_cursors`
(`end`, `behind`, `reread`, `stalls`, `slice`), `run` the run in progress with
what `sweepVoidedPurchases` keeps in locals, and `run.at` the query or the write
it does next. `ReadSlice`, `SliceErrs`, `SliceSkipped`, `SliceTooLarge` and
`Interrupted` are the ends of one slice; `Remember`, `ClearReread`, `MoveCursor`
and the others are single writes; `Fails` is a step that throws, before or after
its write took effect, with the `catch` that follows or without it. Which error,
cap or budget ends a slice is a choice, so is the set of voids it had applied.

**PurchaseJournal** is the reconciler with its journal, its store and the
backend. `journal` holds the records; `mem[c]` and `fresh[c]` are what a
context remembers of them and which of those revisions are still the
journal's. Revisions only grow, so a compare-and-set succeeds exactly for a
record in `fresh`. `job[c]` is what the context does under its lock: a pass
(`PassStarts`, `Ingest...`, `ListRecoverable`, `Drive...`, `SendVerify`,
`SettleVerify`, `Finish`, `Finished`) or the journal work of a purchase
(`Prepare`, `Serialize`, `OpenAttempt`, then `RecordAnswer`, `JournalAnswer`,
`JournalBought`). `calls[c][k]` is the store call outside of the lock, which is
`late` once `inFlightTimeoutMs` has passed, `sheet` and `shop` the store's sheet
and transactions, `ledger` the backend's verdicts. `Opens` is `start`, which loads
the open and the granted records; `Stops` is `stop`, which empties the memory and the
inbox and leaves the calls running: they are answered and journaled by a context
that is stopped, and a purchase may begin in one (`Prepare` then loads the records
first). `Dies` is the end of the process, the only one of the calls and of
what was finished again (`again`). `detached` keeps the keys whose call outlived
a stop.
`requested` with a retryable error is the state `refused`, `pending` with a
saved request the state `review`.

The atomic step is one D1 statement, or one D1 batch, which D1 runs as a
transaction. Computation between two statements touches only a handler's
locals and is merged into the statement before it.

### What the model takes for granted

- D1 reads see every committed write (the Workers use the primary).
- The two reads with which a write statement's result is confirmed (by key,
  then by evidence or id) are one step.
- Locks held in an isolate's memory order nothing between isolates and are left
  out, as are caches.
- A refund that matches no grant is retried for an hour. No request lasts that
  long, so the delivery that gives up starts when the requests it overlapped
  are done (`Quiet`).
- Entries are recent, so the purge (five years after the grant and after any
  entry) takes only grants of the starting ledger that no entry reverses.
- `restoreSharing` is in mode `share`; the mode `refuse` never reaches the
  share path. The App Store's optional offline revocation registry is off.
- An admin entry is written by a support tool with a key of its own.
- One device holds a guest's token: a stolen copy is not modelled. Secure storage
  keeps either the old or the new value when a save or a removal fails.
- The retry grace is shorter than the inactivity window, as the identity
  service's configuration check requires. Rows of old refresh tokens are not
  purged.
- No request runs longer than `finalErasureDelayMs`, so a deletion becomes due
  when its own request is over and so are the writers that authenticated, or
  passed the tombstone check, before it (`RequestsOver`); this is what the
  comment at `account-deletion.ts:240` assumes. A sweep that listed a young
  deletion is over before that deletion is stale.
- Lease tokens and attempt ids are unique (`readToken`): a call's name stands
  for both. A Redis transaction that met a change of its key is aborted and
  compares again, so a compare-and-set is one step.
- One player is signed in for all of `PurchaseJournal`, and the store reports
  transactions of one consumable. The journal's reads succeed; its writes may
  fail, take effect or both. The backend decides a transaction once and repeats
  its verdict under any key, as the ledger does. The order of events that wait
  in a context is left open, and an event is kept once: handling one twice
  changes nothing. `stop` finds the lock free, as it waits for it; a job queued
  while it waits is taken to come after it. A start that fails leaves what `Stops`
  does, and `reconcile()` is not called on a context that is not started. A
  transaction id is sold once: a record that ended with it did so after the attempt
  it is compared with was reserved.
- Google lists a void before it is `voidedSweepOverlapMs` old, which is what the
  overlap is for. A run of the cron is over within the cron's period, as the
  Worker's wall budget sees to, so runs do not overlap; the clock does not step
  back. A void older than Google's window is `dropped` when the run says so, or
  in the first sweep: there was nothing to read it from.
- `rotate` and `addAccessToken` compare the deadline of the row with the clock
  read before them, and only on the row that was read then: the model needs no
  second look at the deadline.

## 3. What is checked

The ledger's runs have the buyer, one or two other players, their requests, one
store event. "Fresh" starts from an empty ledger, "bought" after the first grant.

| Run | Instance | Properties | Shows |
|---|---|---|---|
| `restore_race` | buyer's verify and two devices of another player, fresh or bought; two places; one attempt each; one refund; one admin entry | `TypeOK`, `HolderLimit`, `OneGrantPerPlayer`, `VerifiedIsRecorded`, `RefundEndsEveryHolder`, `AcknowledgedEventsMissNothing` | every interleaving of first grant, shares, refund and admin entry keeps the limit, one grant a player, honest answers and the refund |
| `restore_live` | one key sent twice at once, and again after an error; one lost isolate, one admin entry, redelivery, a fan-out that gives up after one pass; three places, fairness | `RefundEndsEveryHolder`, `RequestsAnswered`, `RefundTakesHold` | a refund ends every holder and ends the purchase for good, and every request ends |
| `erasure` | buyer's verify and a restore while the buyer deletes its account, a store fails or an isolate dies once, one old grant may be purged | `RetainedTypeOK`, `LedgerIntegrity`, `ErasedLeavesNothing`, `RevocationStands`, `RefundEndsHoldersUnlessOvertaken` | nothing names the deleted player after the final pass and no revocation is lost by the rewrite |
| `guest_session` | one guest, four requests of any kind, every failure of the device, deletion, both deadlines | `TypeOK`, `SameSuccessor`, `StoredTokenWorks`, `AwaitedNeverReplays`, `NoAccessOutlivesFamily`, `ForgottenMeansEnded` | racing, retried and abandoned refreshes of one token agree on its successor, the guest can come back with what its device kept, and neither a logout nor a deletion leaves access behind |
| `account_deletion` | one player deletes the account from two devices; two tries a step; a signed-in request and a callback write; a sweep of two entries | `TypeOK`, `LivePlayersKeepTheirData`, `FinalPassIsFinal`, `MarkedEntryStaysUntilFinalPass` | nobody who can sign in is erased, and a marked erasure is kept until a pass that nothing outlives |
| `account_sweep` | two players, one whose rows can never be erased; one try a step; a sweep of one entry; fairness | `MarkedIsErased` | a failing erasure does not starve the others |
| `post_operation` | three calls at a time of any kind, two payloads, three posts, two store attempts; a record of an earlier release or none | `TypeOK`, `PublishedOnce`, `EvidenceIsKept`, `AmbiguityIsRecorded`, `WorkerHoldsLease`, `RegistryMissesNothing` | the coordinator refines `PublishOnce` and drops neither evidence nor an operation |
| `purchase_journal` | one key of the game, one transaction, two contexts of which one buys; two faults or stops while contexts follow each other, none once they overlap; fairness | `TypeOK`, `StoreOpensOnce`, `FinishedIsGranted`, `VerifiedOnce`, `NothingUndone`, `PaidIsFinished` | the sheet opens once, nothing is finished ungranted or, but for a call that outlived a stop, verified under two keys, no context undoes another, and what was paid is finished |
| `voided_sweep` | one void at any time; overlap 5, interval 6, window 7, slices of 4 down to 1 minutes; two stalls; two intervals of time; one failing write or lost run | `TypeOK`, `NoVoidPassed`, `ProgressKept` | no void is left behind the cursors unread and a run's progress survives it |

Three runs show where the code does less than its comments and documents say;
section 5 describes them.

**Bounds.** Three players suffice: the arguments involve a holder that was
there, one that writes and one that competes for the slot. `MaxHolders` is 2 in
the race, so that the third player meets the limit, and 3 where the limit
should not hide the refund. `Attempts` is the code's 3, and 1 in the race,
where every further attempt repeats the same steps. `FanOutPasses` is the code's 10, never reached
with so few holders; `restore_live` sets it to 1 so that the fan-out gives up and
the store's redelivery has to finish it.
`MaxAdmins`, `MaxFaults` and `MaxResends` bound admin entries, lost isolates and
retries at one or none each; every place at which the one fault can strike is
explored. Deadlock is not checked in the ledger's runs because the system
stops when every request and event is settled. In `guest_session` four requests
allow two rotations, an abandoned request and its retry, or a logout, which is
where every mutant fails; requests differ in nothing but what they do, hence the
symmetry.

Two deletions of one player are the case that matters in `account_deletion`:
one may be marked while the other is discarded as stale. `RetryAttempts` is 3 in
the source; two tries already separate a step that failed from one that took
effect and lost its answer. `account_sweep` lists one entry a sweep, which makes
the starvation that `attempted_at` prevents as easy as possible.
`post_operation` needs three calls (one that publishes, two that reconcile, or
two that hold different evidence) and three posts (two found, a third
recorded); with two store attempts a call loses a comparison and goes round
again in every loop. `submissions` is not bounded: no behaviour passes one. In
`purchase_journal` the transaction's derived key is a second key, so two records
of one transaction are possible. `MaxFaults` counts crashes, stops, lost answers,
journal failures and refusals before the sheet; the longest story the mutants
need has two, and so has the one of section 5. `Overlapping` is the number of them
once two contexts were in use together; an overlap after a fault is left out too,
and so are the late sheets and the store's events of such a history, to keep the
run small: what holds there is proved, and checked without them. One context
buys, so two contexts that ask for one key at once are covered by the theorem
`StoreOpensOnceHolds` only. With one transaction the answer that could belong to two
attempts (an ambiguous match) does not come up in the run; the safety theorems
are for every number of them.
`MaxInbox` bounds how many events wait in a context; the store reports again.
`voided_sweep` keeps the order of the code's lengths (smallest slice < overlap <
interval < window), with slices that begin below the overlap, where the code's
get after some halvings, so that an overlap takes several of them. One void suffices: voids do not influence each
other, except through errors, and a slice may fail for voids outside of the
model. The clock stops at `Horizon`, two intervals after the start, and there
the run stops with it.
Deadlock is checked in `post_operation` and `purchase_journal`, whose systems
never stop; deletions do.

**Fairness** (`FairSpec`, in `restore_live`). Weak fairness of every
handler's steps: Workers run a handler to its end and D1 answers each
statement. Weak fairness of a delivery's start: the store redelivers until it is
answered. Clients, refunds, admins and faults owe nothing: a request whose
isolate was lost is answered with an error, and nobody has to send it again.
`RefundTakesHold` excepts a share whose writer was lost, and the refund that met
only admin-revoked grants (section 5, first finding).

In `account_sweep` handlers, the cron and the clock are weakly fair. The steps of
a pass over one deletion are strongly fair in their successful form, for the
player whose stores work, and in their failing form for the other: the cron runs
for ever and a store that works does not fail for ever, though it may fail, and
the cron's isolate be lost, any number of times.

In `purchase_journal` a job under the lock goes on (weak fairness), and a context
that is infinitely often free to start, to read the store's purchases once
started, or to end with its process after it has read them, does so (strong
fairness): players open the game again and again, in a new process each time,
which is what clears `again`; nobody owes a stop. The purchase call, the player,
the store and its events owe nothing: `PaidIsFinished` rests on the list of
available purchases alone.

**Exemptions written into the properties.**

- `RefundEndsEveryHolder` applies to an event that left an entry, or whose entry
  another was derived from (`LeftEntry`). An event that met only grants the
  support tool or another event had ended leaves none, and then the property is
  false: section 5, first finding, and with two events also beside the other
  one's entry.
- `Undecided`: a share whose writer is still before its recheck is allowed to
  live; the recheck ends it. A share whose writer was lost before its recheck
  is in `orphans`: nothing in the code closes it until the same request is sent
  again, and a resend answers from the key's grant without the recheck. This is
  a gap of the code, narrow because the isolate must die between two
  statements.
- `RefundEndsHoldersUnlessOvertaken` leaves out behaviours in which an
  erasure's batch, or the purge, committed while a handler held ledger ids it
  had read (`overtaken`): the recheck of a restore looks up revocations under
  ids the batch has renamed, or of a first grant the purge has deleted and
  another restore has written anew, and can miss them.
- `HolderLimit` and `OneGrantPerPlayer` are not claimed once a `Purge` overtook a
  handler: a kept first grant deleted between a restore's read and its write
  frees the place of the first grant, or the highest slot, for a writer that
  counted before. Until then they hold (`BesideHolds`).

- `AwaitedNeverReplays` speaks of requests the device still waits for. A request
  it abandoned that reads the family for the first time after two later
  rotations does end the family as a replay: the service cannot tell it from a
  stolen token, as the comment at `identityService.ts:345` says.

- `FinalPassIsFinal` allows a callback's row when the deletion's own request
  never wrote the tombstone (`d \notin inline`): its first tombstone is then the
  final pass's own, and a callback that checked before it writes after. The
  comment at `deletionTombstones.ts:8` does not mention the case. An entry that
  could not be marked in `retryAttempts` tries is discarded once stale, and
  nothing is claimed of a deletion whose request was lost before its mark.
- `NoVoidPassed` leaves out the voids in `slipped`: still within the overlap,
  hence maybe not listed yet, when a run remembered a re-read position past
  them or failed with the next start past them. Section 5 says what happens to
  them.
- `ProgressKept` allows a run that read the overlap up to the cursor and no
  further to be repeated while the cursor itself is within the overlap.
- `VerifiedOnce` speaks of histories in which one context is in use at a time, and
  leaves out the keys whose purchase call outlived the stop of its context
  (`detached`): section 5 has the history in which such a call journals, and the
  next start verifies, a transaction that was verified before.
  Two contexts in use may verify a transaction under two keys: each remembers the
  records it has seen, so one can journal a transaction under the derived key
  between the other's search for it and its answer. The backend's verdict is
  one all the same, which `FinishedIsGranted` relies on.
- `StoreOpensOnce` and `NothingUndone` hold beside overlapping contexts too.

## 4. What is proved

`RestoreSharingProofs` proves, for every set of players, keys, requests and
events, every limit, number of attempts and passes and every bound on faults:

| Theorem | Statement |
|---|---|
| `InvariantHolds` | `Spec => []IInv` |
| `TypesHold` | `Spec => []TypeOK` |
| `HolderLimitHolds` | `Spec => []HolderLimit` |
| `OneGrantHolds` | `Spec => []OneGrantPerPlayer` |
| `IntegrityHolds` | `Spec => []LedgerIntegrity` |
| `VerifiedHolds` | `Spec => []VerifiedIsRecorded` |

`RefundProofs` proves, from the same assumptions and for the same constants:

| Theorem | Statement |
|---|---|
| `RefundInvariantHolds` | `Spec => [](IInv /\ RInv)` |
| `RefundHolds` | `Spec => []RefundEndsEveryHolder` |
| `AcknowledgedHolds` | `Recorded \/ OneDelivery` gives `Spec => []AcknowledgedEventsMissNothing` |

`Recorded` says that behaviours start with the first grant on the ledger,
`OneDelivery` that the store sends one event and no isolate is lost.

`RetainedPurchasesProofs` proves, beside any number of deletions and purges:

| Theorem | Statement |
|---|---|
| `RetainedInvariantHolds` | `SpecRetained => []RetainedInv` |
| `RetainedTypesHold` | `SpecRetained => []RetainedTypeOK` |
| `RetainedIntegrityHolds` | `SpecRetained => []LedgerIntegrity` |
| `ErasedHolds` | `SpecRetained => []ErasedLeavesNothing` |
| `RevocationStandsHolds` | `SpecRetained => RevocationStands` |
| `BesideHolds` | `SpecRetained => []Beside`, with `IInv /\ RInv` until a handler is overtaken |
| `RefundEndsHoldersHolds` | `SpecRetained => []RefundEndsHoldersUnlessOvertaken` |

`AccountDeletionProofs` proves, for every set of players, deletions, writers and
broken stores, any number of retries and every limit of a sweep:

| Theorem | Statement |
|---|---|
| `DeletionInvariantHolds` | `Spec => []IInv` |
| `TypeHolds` | `Spec => []TypeOK` |
| `LivePlayersKeepTheirDataHolds` | `Spec => []LivePlayersKeepTheirData` |
| `FinalPassIsFinalHolds` | `Spec => []FinalPassIsFinal` |
| `MarkedEntryStaysHolds` | `Spec => []MarkedEntryStaysUntilFinalPass` |

`GuestIdentityProofs` proves, for every set of requests, with or without a grace:

| Theorem | Statement |
|---|---|
| `InvariantHolds` | `Spec => []IInv` |
| `TypesHold` | `Spec => []TypeOK` |
| `SameSuccessorHolds` | `Spec => []SameSuccessor` |
| `StoredTokenHolds` | `Spec => []StoredTokenWorks` |
| `AwaitedHolds` | `Spec => []AwaitedNeverReplays` |
| `NoAccessHolds` | `Spec => []NoAccessOutlivesFamily` |
| `ForgottenHolds` | `Spec => []ForgottenMeansEnded` |

`PostOperationProofs` proves, for every set of calls, payloads and posts, every
number of attempts at the store and every earlier record:

| Theorem | Statement |
|---|---|
| `TypeCorrect` | `Spec => []TypeOK` |
| `LeaseIsHeld` | `Spec => []WorkerHoldsLease` |
| `RegistryIsComplete` | `Spec => []RegistryMissesNothing` |
| `AmbiguityRecorded` | `Spec => []AmbiguityIsRecorded` |
| `EvidenceKept` | `Spec => EvidenceIsKept` |
| `ImplementsPublishOnce` | `Spec => PublishedOnce`, the refinement of `PublishOnce` |

`VoidedSweepProofs` proves, for every set of voids, all lengths of the overlap,
the interval, the window and the slices, and any number of failed runs:

| Theorem | Statement |
|---|---|
| `InvariantHolds` | `Spec => []IInv` |
| `TypesHold` | `Spec => []TypeOK` |
| `NoVoidPassedHolds` | `Spec => []NoVoidPassed` |
| `ProgressKeptHolds` | `Spec => ProgressKept` |

`PurchaseJournalProofs` proves, for every set of contexts, keys and transactions
and every bound on faults and events, whether contexts overlap or not:

| Theorem | Statement |
|---|---|
| `JournalInvariantHolds` | `Spec => []JInv` |
| `JournalTypeHolds` | `Spec => []TypeOK` |
| `StoreOpensOnceHolds` | `Spec => []StoreOpensOnce` |
| `FinishedIsGrantedHolds` | `Spec => []FinishedIsGranted` |
| `VerifiedOnceHolds` | `Spec => []VerifiedOnce` |
| `NothingUndoneHolds` | `Spec => NothingUndone` |

**Assumptions.** Those named in the modules: `GraceAssumption`, `FanOutPassesPositive`,
`RequestAssumption` (requests have a player and a key, kept ids are not player
ids, the limits are positive), `SeedAssumption` (the ledger starts empty or
with the first grant), `SweepAssumption` (the lengths and the limit of stalls
are positive, the overlap is shorter than the window, and the clock starts late
enough for both), `DeletionAssumption` of `RetainedPurchases` (each player's kept
id is its own, as it holds a fresh deletion id) and of `AccountDeletion` (deletions
and writers have a player, tries and limit are positive), `OriginalAssumption`
(the rows a player had are no writer's) and `JournalAssumption` (keys,
transactions and the words for neither are disjoint, and `closed` and `open`,
the states of a sheet that sold nothing, are no transactions).

**Argument, the ledger.** `HolderLimit` is not inductive: a request that counted the
holders a while ago writes on a ledger that may have changed. What saves it is
the slot. `Contiguous` says that the slots of the shares on the ledger are 1..k.
`MayWrite` says that a request about to write slot s read the holders of all the
lower slots (`Lower`), the shares among them at 1..s-1, none of them its player's,
fewer than the limit of them active. Its insert goes through only if slot s is
free, hence k < s, hence the ledger holds exactly the grants it read
(`InsertFinds`): the count and the search for its own grant are current after
all. A first grant goes in only on an empty ledger: where there are holders and a
request is about to write one, slot 0 is taken (`Headed`). Revocations only end
grants and never disturb what a request knows, except that its reading of reversed
ids becomes an underestimate, which errs on the safe side. The reads keep
`MayWrite` true because the shares are read before the first grant
(`HoldersAreLower`): the shares read are 1..k at that moment, and the first grant
is then read with them or never follows, as it goes in only on an empty ledger.
`SoundGrows` carries what every
other request knows across a write.

`SoundAt` also bounds the attempts (which `TypeOK` needs) and says which
requests have their own row on the ledger (which `VerifiedIsRecorded` needs).
The proof has one lemma per action, one per way the ledger changes
(`LedgerTakesRow`, `LedgerTakesEntry`) and general lemmas for steps that leave
it alone.

**Argument, the refund.** The fan-out of an event reverses every holder it read,
so the grants to worry about are those it did not read (`Fence`). Such a grant was
written after the event's entry, on a slot above the entry's grant, and its
writer had read all the lower slots (`MayWrite`, kept for the recheck by
`Wrote`). Its recheck meets the entry and closes it: a grant is `Settled` when it is
reversed, when its writer has yet to recheck it below an entry, or when that
writer was lost first (`orphans`). The entry an insert asks for is kept out
only by an entry of the same grant (`InsertEnds`): its evidence id ends with the
grant's slot (`Names`), and its key is unique to the player, who holds one grant
(`OneGrantPerPlayer`). The foremost entry that `FirstEnding` picks exists because
slots are well-founded.

**Argument, an acknowledged event.** Every event's entry carries the evidence id of
the purchase, which one entry can hold (`Owned`). Where the first grant is
recorded, every delivery of every event names that grant, so an id in use means
that the first grant has ended (`FirstEnded`), and the read-back finds it so: no
delivery meets a conflict. On an empty ledger the one event may name a share; a
first grant written meanwhile is reached by the first pass of its fan-out
(`Chasing`), which no loss cuts short, before another delivery could name it. A
delivery that gives up starts when no request is in flight: if it finds no grant
there is none, and there never will be one, since the store verifies a refunded
purchase no more (`Nobody`). Outside the two hypotheses the property is false:
section 5 has a run for each way.

**Argument, the ledger with deletions.** A purge breaks `Contiguous` and a batch
what requests know of the holders they read (`MayWrite`), so the invariant is
another one, and the ledger's own holds for a while (below). `LedgerOK` is the integrity of the ledger, that kept grants are
keyed by their slots (`KeptBySlot`), which is why two renames never meet under
one ledger id, and that a player's entry names a grant of that player
(`EntriesName`), which is why the eraser's subquery finds all of them. `Control`
is the soundness of what handlers hold. `EraserSound` says that what an eraser
read is still on the ledger and its player's: only its own batch takes it away,
and the purge takes kept grants only. The final pass starts when the player's
last request is over and none authenticates any more, so what it reads is all
there is and stays all there is. An entry appended between the reads and the
batch makes the batch fail on its foreign key (`BatchCommits`), or names a grant
the batch does not touch, and in neither case is it lost. All steps of handlers
are treated at once: they let the ledger rest, add a row under a fresh slot, or
add an entry (`Works`).

**Argument, the refund beside deletions.** The ledger's invariant and the refund's
say nothing of the first grant while no request relies on it, so a purge of it
does not break them; what they say of requests, calls and deliveries is void when
none is in flight. `Beside` carries both for as long as `overtaken` is false. A
step of a handler is a step of `Next`, for which they are proved. A batch or a
purge that leaves `overtaken` false found the ledger unused (`UnusedKeepsRefund`,
`UnusedKeepsRequests`), or renamed no row, and then changed only whom the entries
name (`NoRowsKeepRefund`). On an unused ledger a batch keeps every slot, puts each
entry on the row its grant became (`RewrittenBy`, `RewrittenFrom`) and so keeps
what is reversed, what every event left, and the active holders but the deleted
one; that one's answers of `verified` are excused by the tombstone, which the
eraser wrote before it read (`Marked`). The purge takes slot 0, which no entry
names: the shares, the active holders and every entry stay.

**Argument, account deletion.** A sweep erases for an entry it read a while ago,
so the proof follows what the entry said. Marked `identity-deleted`, it was
written behind the identity service's answer (`Gone`); due, it is older than
every request that passed a check before (`Aged`); so its player is `Quiet`,
has no session and no writer that could still write, and stays so. `QuietRows`,
`QuietBatch` and `QuietPassed` carry that from the table to the page a sweep
holds and to the deletions it finished. A page's entries are taken in the order
of the list, which is total (`Ordered`), so one at a time has its turn
(`Queue`), and only the pass that erased every store clears its entry. An
entry that is discarded as stale is of a deletion that was never told it was marked
(`Unmarked`).

**Argument, the journal.** A record only moves on (`Follows`): it keeps its
transaction, its grant and its end. What a context remembers is a state the
record went through (`Memory`), so either its compare-and-set fails or it writes
on what it decided from; that gives `NothingUndone`. The right to open the sheet for a
key is a token that one call holds (`Tokens`), taken by the compare-and-set that
made the record and handed on by each step, which gives `StoreOpensOnce`.
`FinishedIsGranted` follows a transaction from the verdict over the journal to
the store. `VerifiedOnce` needs `Alone`: while contexts do not overlap, one record
holds a transaction, those of detached calls left out, and a context remembers
it whenever one of its other calls may still be answered with that transaction
(`Answering`), because it wrote the record itself, or has listed it in this pass, or
has not yet come to the step that would list it (`Remembered`). A stop breaks
that for the calls in progress and for no other: they are detached by it. A call
begun later, or by a context that is stopped, begins with the records loaded
or with nothing to remember, as no pass runs before the next start (`Running`)
and that start loads what is open or granted.

**Argument, the session.** None of the session's properties but
`NoAccessOutlivesFamily` is inductive. What they rest on is where the device's
token can be: `Position` says it is the current one or the one before it. That
stays true under a rotation only if no request presents a later token than the
device's (`Presents`): the swap then goes through only if the device's token is
the current one, and moves it to one behind. It stays true under a save because
an answer names its token's successor (`Successor`), and the answer the device
waits for was asked with its own token (`Awaiting`). `Late` is the same argument
read from the request that is about to revoke: awaited, it presented the
device's token, which reads neither as current nor as replaced only when the
grace is over or the family has ended. `Confirmed` carries the end of the
family from the service's answer to the device that forgets its token.

**Argument, the post operation.** Two facts carry the proof. The fence: nothing
is submitted, and no outcome recorded, before one call has moved the record from
the reservation to the attempt, and only the call that did may submit. The
rank: the record only rises, from reservation over attempt and the recorded
uncertainties to the terminal outcomes, so a comparison that is lost was lost to
a record closer to the end. A call in `commitTerminal` that lost one is closer
to an end by a rank, and the attempts it has left are more than the ranks above
what it expects: it never gives up with evidence in hand, which is why
`AmbiguityIsRecorded` and `EvidenceIsKept` hold although the loop is bounded.
The refinement follows action by action, since a step of the coordinator writes
the record or the posts and never both.

**Argument, the sweep.** Between two runs `NoVoidPassed` compares a void with the
start of the next run, but the three cursors that give it are written one at a
time and a run may be lost after each. `Ahead` says where a void nobody dealt
with lies at every step: at or after the run's position while a slice is read,
after the slice's end while its writes are made, or else in the overlap of the
run's clock, which no write of this run puts behind the sweep (`StoppedState`
asks for it). The stored re-read position is before it, and so is the start of
the stored cursor's overlap, which is why a lost write costs a repeated read
and no void. A void that is not listed yet is younger than the overlap
(`Clocked`), so it is in the second case whenever a run begins. `Places` ties
the run's position to the cursor it moved; `AtStep` says what a run with a
slice behind it stored, from which `ProgressKept` follows.

**Only model-checked.** Liveness under fairness (`RequestsAnswered`,
`RefundTakesHold`, `MarkedIsErased`, `PaidIsFinished`), which is out of the
prover's reach. Every safety property of the passing runs is proved,
`AcknowledgedEventsMissNothing` under `Recorded \/ OneDelivery`, which its run's
instance satisfies.

## 5. Where the code and its documents differ

- `refund_without_entry` (`server.ts:2048`). A refund that meets only
  admin-revoked grants leaves no entry. Of two restores in flight, the later one
  takes the earlier one's share, not yet closed, for a holder: it finds neither
  an entry nor an abandoned purchase, and answers `verified`. The comment at
  `server.ts:2036` says the share ends.
- `refund_redelivered` (`app-store-server-notifications.ts:345`). The evidence
  id of a refund is one per purchase. If a delivery that named a share is lost
  before its fan-out and the first grant lands meanwhile, the redelivery names
  the first grant, its entry is kept out by the evidence id already used, and
  the event is acknowledged as a conflict with no fan-out. The document says
  a replay finishes what an earlier attempt left part-way.
- `refund_overtaken` (`app-store-server-notifications.ts:369`). An erasure
  renames the grant between the delivery's lookup and the revocation. The event
  is acknowledged as `grant_not_found`, though another holder keeps the
  purchase and a redelivery would have reached it.

Beside these, the overlap of the voided-purchase sweep does not always catch
what it is for (`storeServerCron.ts:385`). A void recorded late, the comments at
lines 97 and 327 and `docs/CLOUDFLARE_WORKER_DEPLOY.md:1011` say, is read when
the overlap before the cursor is read again. But a run left in state 1 remembers
how far it got in the overlap even where Google need not have listed everything
yet, and the next runs resume there. The comment at line 389 relies on the next
caught-up run, which reads the overlap of its own, later cursor: when the sweep
catches up more than an overlap later, the void lies before it and is never
read. The same follows when a run that found state 2 moved the cursor to a
position within the overlap and was lost, or failed also in its `catch` (line
561), before state 1 was written: the next run starts exactly at the cursor. TLC finds the first without any
failure in the instance of `voided_sweep` once `slipped` is no longer excepted
and only what lies before `end - Overlap` counts. `slipped` holds exactly these
voids; every other one is read.

Nor is a transaction always verified once. The comment in `journalAnswer`
(`commerce-reconciler.ts:2457`) says "The transaction is verified once, under the
holder's key", but the holder is looked for in the memory of the context
(line 2448), which `stop` empties (line 2669) while the purchase calls run on; the
runtime's `dispose` waits a bounded time for them. TLC finds the following with one
context and two faults once `VerifiedOnce` no longer leaves out `detached`:
the sheet of a key outlives `inFlightTimeoutMs`; the store's event is journaled
under the key derived from its transaction, and verified; the backend
rejects it, so the record ends ungranted; the write that would end the key's stale
attempt is lost, so the key stays `requested`; the context is stopped and, maybe,
started again, which loads the open and the granted records and hence not
this one; the sheet answers with the transaction, no holder is found, the key is
journaled as purchased, and the next pass verifies the transaction a second time,
under the key. If the answer comes before the context is started again the
verdict does not matter: the memory is empty and no record of any state is
found. The backend repeats its verdict under any key (`Verdicts`), so no grant
is made twice.

Beside these too, `reconcile` (`post-operation.ts:546`) lets its lease go before its
outcome is recorded, because the promise of the commit is returned without
`await`. No document promises otherwise, and the compare-and-set keeps the
outcome (`PublishedOnce`), but the lease does not order the commits of two
reconcilers.

## 6. Not modelled yet, and the plan

In order of importance:

1. What `GuestIdentity` leaves out: the deletion confirmation (put, replaced,
   consumed once, beside rotations and revocations), `issueGuest` with its daily
   limit, account binding, the end of the notification session, and the purge
   of old token rows.
2. What `PurchaseJournal` leaves out: a second player on the same install (keys
   of their own, records parked for another account, Restore Purchases), stores
   that are polled or finished by the server, the revocation step and revoked
   purchases.
3. The rest of the store cron: RTDN pushes, their clock window and the outbox of
   owed finalizations, which a purchase's own finalization races with.
4. An abstract `PurchaseEntitlement` (who holds a purchase, granted, ended)
   that RestoreSharing implements.
5. `listPending` of the post operations, with the registry's pages.

Left out for good: signature and field checks of store payloads (no state),
platform contracts and SDK adapters (no shared state), the CLI and packaging
scripts (sequential I/O), rendering, translations, examples and native plugins.

Verified leaderboards, progress links and notifications keep shared state and
are candidates after the list above; the notifications service is large and
mostly leases and sweeps of the kind `PostOperation` models.
