# Verification of WELCOME

WELCOME is a Next.js application over one PostgreSQL database (`postgres.js`, no ORM): event
attendees publish a profile, are listed and recommended to each other, ask for introductions, and are
reached by e-mail or Telegram. Everything that leaves the system goes through one durable queue,
`outbox_jobs`. This directory holds TLA+ models of the parts of the program in which several
requests, workers, browser forms or people act on the same state, the TLC configurations that check
them, and TLAPS proofs about them.

All paths below are relative to the repository's root, which is `src/` here, so that the
application code is under `src/src/`. `PROJECT.json` maps every definition to the lines it models.

Contents: 1 the system, 2 the modules and how they correspond to the code, 3 what is model-checked,
4 what is proved, 5 where code and documentation differ, 6 what is left out and what comes next.

## 1. The system

Processes: any number of Next.js server instances (one transaction or several per request), any
number of long-running workers (`scripts/worker`, `runWorker`), an HTTP tick that a scheduler calls
(`/api/internal/worker-tick`), a tick that the Telegram webhook runs after its response
(`post-response-tick.ts`), operators' scripts, and the browsers. The servers share nothing but the
database, except that a process keeps its rate-limit buckets in memory. Transactions (`sql.begin`)
run at PostgreSQL's default, READ COMMITTED; a statement outside `sql.begin` is a transaction of its
own.

| Component | State it keeps | Operations | Interacts with | Modules |
|---|---|---|---|---|
| **Outbox queue** `infra/outbox.ts` | `outbox_jobs`: status, attempt, due_at, lease_until, payload, dedupe key | enqueue, claim (`SKIP LOCKED`), three finalizers, expiry sweep, shutdown release, suppression hooks | every producer of messages; campaign counters and completion inside the finalizers | `JobLifecycle`, `Outbox` |
| **Worker** `infra/worker.ts`, the two ticks | the claimed batch, the claimed copy of each row, the shutdown flag (memory only) | tickOnce, processJob, requeueWithErrorCap, signals | queue, transports, recipient channel, Telegram handlers | `Outbox` |
| **Campaigns** `domain/campaigns.ts`, `api/organizer/campaigns/*` | `campaigns` (state, revision, approved revision, counters), `campaign_audience` | create, edit, approve, send, cancel, completion, stats | queue, consents | `Campaign`, `CampaignCard` (its screen) |
| **Consents** `domain/consent.ts`, `api/consents/*` | append-only `consents`, the latest record counts | grant, withdraw | suppression hooks; read again at send time | `Campaign` (a withdrawal) |
| **Recipient channel** `infra/recipient-channel.ts` | none (reads bindings, preferences, consents, blocks) | decide the channel at send time | worker | `Outbox!Refuse`, `FollowUp` |
| **Introductions, blocks, reports** | `introductions`, `introduction_consents`, `blocks`, `reports` | request, respond, withdraw, view, block | consents, queue (notices), profiles | `Introductions`, `IntroWindows` (its screens) |
| **Telegram** `infra/telegram-handlers.ts`, webhook, challenge route | inbox of update ids, link challenges, channel bindings | issue, confirm, /start, /stop, unlink | queue (inbound jobs) | `TelegramLink` |
| **Follow-up** `infra/followup-scan.ts` | notes with a due date, the member's switch | scan, enqueue, last check before a send | queue (dedupe keys), retention | `FollowUp` |
| **One-time codes, sessions** `api/auth/*` | codes with attempt counters, failures, sessions | request, verify, extend, log out | rate limits | `SignIn` |
| **Second factor** `lib/mfa.ts` | encrypted TOTP secret, recovery codes, step-up time | enrol, confirm, step up, recover, remove | organizer routes | `SecondFactor` |
| **Google OAuth** `lib/oauth-*.ts`, `api/oauth/*` | flow rows, one grant per account | connect, callback, load and refresh a token, disconnect | contacts import, calendar | `ConnectionLifecycle`, `OAuthGrants` |
| **Key rotation** `domain/key-rotation.ts`, its script | every encrypted column, keyring of each environment | seal, census, paged rewrite, verdict | all writers of encrypted columns | `KeyRotation` |
| **Rate limits** `lib/ratelimit.ts` | token buckets in memory | take a token, prune | routes | `RateLimits` |
| **Events, membership, imports, claims** | `event_memberships`, `registrations`, claim links | join, edit, leave, import a file, invite, claim | retention, accounts | `Membership`, `AtomicImport`, `FileImport` |
| **Retention** `infra/cleanup.ts`, `api/me` | deletes from most tables | cleanup pass, account deletion and purge | queue (dedupe keys), bindings | `Membership`, `FollowUp`, `FileImport` |
| **Public card** `api/me/profile`, wizard, editor | `profiles` (revision, hidden_fields), `contact_fields`, a draft in the browser | open, tick, publish, save, conflict, reload | card page | `ProfileCard` |
| **Enrichment** `api/me/enrich` | hourly ledger | press, count, charge, call with deadline and one retry | provider | `Enrichment` |
| **Calendar** `api/me/calendar/google` | none (Google's calendar) | render, press, create, answer | OAuth, introductions | `MeetingCalendar` |
| **Demo reset** `scripts/*demo*` | the demo's introductions, notices, memberships | plan, delete, seed | members, worker | `DemoData` |
| **Recommendations, directory** `domain/scoring*`, `recommendations.ts`, two routes | profiles, memberships, blocks, introductions | list, gate, score, rank, explain | introductions | `Scoring`, `Matching`, `DirectoryPanel` (its screen) |
| **Taxonomy** pickers, validators, `migrate-tags-to-v3` | interests and keywords of profiles and memberships | pick, validate, backfill | profile, membership | `Taxonomy`, `TagBackfill` |
| **Contacts matching** `contact-import.ts`, two routes | nothing is stored | read a file or Google's pages, match, answer | OAuth, accounts | `ContactMatch` |

### What is hard in it

- **Several workers, one queue.** A claim is a lease of 60 s, and the worker keeps the row *as it
  was claimed*. A batch of ten calls of up to 10 s each outlives its lease, so a live worker may
  finish after a sweep re-queued its job and another worker claimed it. The attempt a finalizer
  writes is the claimed one plus one. A worker that dies between the transport's acceptance and the
  finalizer leaves a leased row; the sweep re-queues it, up to a cap compared in three places.
- **Exceptions.** `requeueWithErrorCap` writes a row by its id, without looking at its status.
- **Checks before writes.** Nearly every route reads, decides, and writes in a later statement or
  transaction that repeats a part of the check: campaigns, memberships, grants, second factor, codes.
- **READ COMMITTED.** `completeCampaignsIfDrained` is one statement with `NOT EXISTS`, evaluated on
  the statement's snapshot; finalizers and cancellation lock the same rows in opposite orders.
- **Answers that come late, out of order or not at all**: Google's tokens against a disconnect, two
  loads of a list, a preview of a file under another file's name, a save whose answer was lost.
- **A deployment that changes under its own data**: a key rotation walks the columns while instances
  of two environments still write.
- **Things that must agree although they are written apart**: directory and recommendations, gates and
  reasons, pickers and validators, deny list and form.

`PROJECT.json` lists 40 hazards, each at its line, with the properties that cover it.

### What makes each component correct

- Queue and workers: no job in two hands; a bounded number of sends; an outcome recorded is never
  retried; every job ends; the row follows the documented life cycle.
- Campaigns: only text an owner approved is sent; the counters are the jobs; a campaign completes only
  when nothing is open; a cancelled one stays cancelled.
- Introductions: the state is what both have consented to; one outcome and its notices; nothing is
  answered or revealed by a request that comes in under a block.
- Access: a token of one consent never serves another; every instance reads every value during a
  rotation; a bounded number of guesses per code; a recovery code steps up once; a session that ended
  stays ended; a limit lets through exactly its budget.
- Members: a chat is activated by consuming a challenge confirmed on the web; nobody is reminded after
  opting out; one membership per registration.
- Card and money: a field is never shown that was unticked; the provider is called at most as the
  quota says; a card tells what is in the calendar; a reset erases only what it planned.
- Lists: what the preview showed is what is committed, atomically; a recommendation has a reason and is
  in the directory; lists go through the validators unchanged; no match is silently dropped.
- Screens: a list is the one the filters ask for; a proposal reveals what was ticked for that person; a
  step-up repeats the action asked for last.

## 2. Modules

A component is a module with its own `Init`, actions, next-state relation and specification. What it
shares with other components is named in its head. `X!Y` is definition `Y` of module `X`.

The records and initial states that stand for rows are the tables of `db/migrations/*.sql`: the columns
no action reads or writes, and columns that only display, are left out. Constants of the code that
bound something are CONSTANTS of the modules, or written out where the value itself matters.

| Modules | Model | Instance and run |
|---|---|---|
| `JobLifecycle`, `Outbox` | the queue and its workers; the life cycle its header draws | `MCOutbox`: `outbox_lease`, `outbox_faults` |
| `Campaign` | one campaign, its audience and jobs | `MCCampaign`: `campaign_*` |
| `Introductions` | the introduction of one pair | `MCIntroductions`: `introductions` |
| `ConnectionLifecycle`, `OAuthGrants`, `KeyRotation`, `SignIn`, `SecondFactor`, `RateLimits` | what guards an account | `MCAccess`: `access` |
| `TelegramLink`, `FollowUp`, `Membership` | what members do outside of introductions | `MCMembers`: `members`; `FollowUp`: `followup_starved` |
| `ProfileCard`, `Enrichment`, `MeetingCalendar`, `DemoData` | what one person does, and the demo | `MCPeople`: `people` |
| `AtomicImport`, `FileImport`, `Scoring`, `Matching`, `Taxonomy`, `TagBackfill`, `ContactMatch` | lists of people | `MCOrganizer`: `organizer` |
| `DirectoryPanel`, `IntroWindows`, `CampaignCard` | the screens whose requests overlap | `MCScreens`: `screens` |
| `*Proofs` | theorems | |

### Sums of components

`MCAccess`, `MCMembers`, `MCPeople`, `MCOrganizer` and `MCScreens` are *sums*: several components that
share no state are checked in one run, each from its own initial states while the others rest in theirs
(`part` says which one moves). So the states of a sum are those of its components added up, not
multiplied. In a sum the components also share model values and symmetry: `x1` may be a request of one
and a page of another, which is harmless because no value is ever compared across components. That a
behaviour of a sum is a behaviour of each component is a theorem (`AccessCompose`, `MembersCompose`,
`PeopleCompose`, `ScreensCompose`, `OrganizerCompose`), and holds for any values of the constants.

### Outbox

*State.* `status`, `attempt`, `text`, `due`, `lapsed` are columns of the row of each job: `text` says
whether the payload still carries the message (it is scrubbed when the message is sent), `due` is
`due_at <= now()` and `lapsed` is `lease_until < now()`, so that the clock is two actions (`ComeDue`,
`LeaseLapse`) and no number. A job is its dedupe key. The status `cancelled`, which the schema
allows, is written by no code and does not appear. Per worker: `pc` is the place in `tickOnce`,
`todo` the claimed jobs not yet begun, `cur` the one being processed, `snap` the row as the claim
returned it, `outcome` the answer about to be recorded, `stopping` the shutdown flag. `holder`,
`tries` and `limited` are history variables that no guard but a bound reads.

*Steps.* One action is one transaction, or one step of a worker between two of them.

| Code | Action |
|---|---|
| `enqueueOutbox` | `Enqueue` |
| `requeueExpiredLeases` | `RequeueExpired` |
| `claimJobs` | `Claim` |
| loop of `tickOnce`, `shouldStop` | `BeginJob`, `EndTick`, `Exit` |
| `processJob`, `processOutbound` | `Refuse`, `Call`, `Answer` |
| `applyOutcome`, `applySuppression`, `applyUpdateProcessed` | the actions of those names |
| `catch` of `tickOnce`, `requeueWithErrorCap` | `Throw`, `RequeueWithErrorCap` |
| `releaseUnattemptedJobs`, signals | `ReleaseUnattempted`, `Stop` |
| `suppressJobsFor...` | `SuppressQueued`, for every row set of `Hooks` |
| process death, supervisor or scheduler | `Crash`, `Restart` |

A claim of fewer rows than the batch limit takes every row that is due; `SKIP LOCKED` and the short
transactions make a claim one step. The send-time preconditions are a free choice between `Refuse`
and `Call`: nothing about the queue depends on which of them failed. Inbound Telegram updates
(`Inbound`) are jobs of the same table whose handler never answers anything but "processed".

*Faults.* The constant `Faults` names what the environment may do: `crash` (the process dies), `stop`
(SIGTERM), `lapse` (a lease runs out under a live worker), `throw` (an exception in `processJob`).
Properties are stated with the faults under which they hold, since that is what the code promises:
leases exclude each other only while no live worker outlives its lease.

`JobLifecycle` is the abstract specification; `Outbox!Lifecycle` is its `Spec` for the same `status`.

### Campaign

*State.* `campaign` is the row, `audience` the frozen snapshot, `eligible` what a query for the
current audience would return, `job` and `jobText` the row `campaign:<id>:<account>` of each member
and the revision its text was taken from. These are the *committed* values. A transaction that spans
several statements is several actions; what it has written and not committed is its locks
(`campaignLock`, `jobLock`) and its local record (`req` for a request, `fin` for a finalizer or a
withdrawal), and becomes visible in its last action. `JobsSeen` is what one statement of a
transaction sees: its own writes and what others have committed.

*Requests.* `Load` is the load and the check of a route before its transaction. `EditUpdate`,
`ApproveRead`/`ApproveUpdate`, `SendRead`/`SendEnqueue`/`SendCommit` and
`CancelUpdate`/`CancelScan`/`CancelCommit` follow, with the `WHERE` of each `UPDATE` evaluated on the
row as it is by then. Two overlapping approvals of one campaign insert the same snapshot rows; the
second waits for the first, which the model renders by making the write one step.

*Workers.* `Claim`, `Answer`, `Retry`, and the finalizing transaction: `LockJob` (the row lock and the
status guard), `BumpSentCount` (the campaign row's lock), `CheckDrained` (the `WHERE` of
`completeCampaignsIfDrained` on its snapshot), `CommitFinal` (the wait, the second look at the
campaign's row, the commit). `Withdraw` runs the same steps for `/stop`, one transaction;
`Revoke`/`RevokeSuppress`/`CheckDrained` are the consent route's three statements, and `RevokeDies` a
failure between them. `Deadlocked`, `AbortCancel` and `AbortFinalizer` are PostgreSQL's deadlock
detection (external: modelled from the order in which the code takes locks).

Leases do not lapse here and no worker dies: what happens to a row then is `Outbox`'s subject, and its
effect on a campaign is that of `Retry` or `Answer`.

### Introductions

*State.* `state` is the row of `introductions` (`none` before it exists), `consent` the row of each party
in `introduction_consents`, `blocks` the parties that have blocked the other, `lock` the transaction that
holds the introduction's row `FOR UPDATE`, `notices` the outbox jobs by kind and recipient (their dedupe
key). `req` is what each HTTP request has asked and read. `mutuals` (audit rows), `agreed`, `shown` and
`late` are history.

*Steps.* A request arrives with the first read that other requests can change. `CheckEligible` is the
create route up to its transaction (session, target, membership, blocks, rate limit; only the blocks are
state here), `Create` that transaction. `RespondBegin` is the `SELECT ... FOR UPDATE` and the read of the
blocks; `RespondEnd` (decline, withdraw) and `RespondAccept` the rest of the transaction, whose writes
nobody reads before it commits, since the consents are written under the row's lock. The view route is
three reads without a transaction: `ViewState`, `ViewConsents`, `ViewReveal`. `Block` and `Unblock` are
one statement each and take no lock that an answer waits for.

A block therefore stops requests that come in under it (`LateRefused`) and not those that have passed
their check. Not modelled: reports, the matching reason, membership and the rate limit, the deletion of an
account.

### Behind an account: OAuthGrants, KeyRotation, SignIn, SecondFactor, RateLimits

All five model one account (or two, for grants) and any number of requests at once; a request is a
record with its `phase` and what it has read so far, and each of its database statements is an action.

- **`OAuthGrants`**: `flow` and `grant` are the rows of `oauth_flow_states` and `oauth_grants`; a token is
  the number of the consent it came from. `google` is Google's side (external). `StartFlow`, `Callback`
  (the flow row is taken by one `UPDATE ... SET consumed_at ... RETURNING`), `Exchanged`/`ExchangeFailed`,
  `UpsertGrant` are the way to a grant; `LoadAccessToken`, `RefreshAnswered`, `RecordRefresh` the token
  loader, whose last write names the account and the provider only, so that a late refresh may be written
  over a newer grant; `Disconnect`, `DeleteGrant`, `RevokeAtGoogle` the way out. Flows and
  tokens expire and consents are withdrawn at any time. `ConnectionLifecycle` is what
  `/me/connections` promises: a connection comes from a consent redeemed for this account and from nothing
  else; `ImplementsConnection` is the refinement.
- **`KeyRotation`**: a payload is the id of the key that sealed it and a value. `live` is the set of
  environments that instances still serve under, `stage` the newest one (`single`, `expanded`, `flipped`,
  `contracted`). `Seal` and `Store` are the two halves of a writing request, which may span a deployment.
  The command is `StartScript`, `Census`, `ReadPage`/`SwapPage` (compare-and-swap row by row) and the two
  verdicts, which know nothing of the instances that still serve: the command may run while the flip is
  rolling out, and its clean verdict sets `cleared` all the same. The operator goes by the newest run,
  contracts only when it was clean, and steps back only to the stages in `WayBack`, which is
  `{"expanded"}`. With `"single"` in it, as the runbook allows, TLC finds an unreadable value (section 5).
  `late` is a history variable, the rows that instances of the environment before the flip have written
  since the newest census began; `EveryInstanceReads` excepts them, and fails without that exception.
- **`SignIn`**: `code` are the rows of `auth_otp_codes`, `failures` and `recent` the counts of the two
  sliding windows, `session` the sessions. `Verify`, `Pick`, `CountAttempt`, `RecordFailure`, `Redeem` are
  the statements of the verify route; `Supersede` and `MakeCode` those of the request route.
- **`SecondFactor`**: a TOTP code is the secret it was made with; every route reads the credential and
  writes in a later statement that names only the account (`EnrollTotp`, `SetConfirmed`, `DeleteFactor`,
  `SpendRecovery`, `StampSession`, `RecordMfaFailure`, `ClearFailures`).
- **`RateLimits`**: `Take` is `takeToken`, pruning of the map included; `Elapse` is the clock, `Restart` a
  new process. Levels are counted in tokens times the window, which makes them whole numbers. The clock
  (`Date.now()`) is assumed not to be set back.

### Members: TelegramLink, FollowUp, Membership

- **`TelegramLink`**: `Webhook` inserts the inbox row and its job; `Handle`, `Link`, `FinishUpdate` are
  the handler in a worker, which reads first and writes in later transactions; `Die` and `RequeueUpdate`
  are what the outbox does to it (`MaxRedone` bounds how often). The web side is `IssueChallenge`,
  `WebConfirm`, `Unlink`.
- **`FollowUp`**: `SaveNote` and `Ages` make notes due; `Scan`, `Reach`, `EnqueueReminder` are a tick's
  steps and overlap with other ticks; `Claim`, `CheckSwitch`, `CheckChannel`, `Send` a worker's; `ForgetJob`
  the retention pass that deletes a job with its dedupe key. Unlinking the chat ends what is queued in its
  own transaction (`CloseChannel`); a withdrawal of the consent is two (`WithdrawConsent`,
  `SuppressWithdrawn`), with whatever happens in between, and the second may never come.
- **`Membership`**: `Join`/`JoinEvent`, `PatchRead`/`PatchWrite`, `ClaimRead`/`ClaimCommit` are routes that
  read, then write the whole row. `Import` writes a registration, `Invite` and `InviteLapses` the claim
  link, `SweepInvites`/`SweepGuests` the two statements of the retention pass, `DeleteAccount`/`Purge` the
  end of an account. Quarantine is set and lifted by any import of a file and is a free choice. `Wishes`
  are the changes of visibility a PATCH may carry; the run takes `{"keep"}` for its size.

### People: ProfileCard, Enrichment, MeetingCalendar, DemoData

- **`ProfileCard`**: `profile` is the row with its revision and deny list, `published` the contacts' public
  flags, `draft` the draft in the browser, `wizard` and `editor` the open forms. A save carries a revision
  and is refused when it is stale; the editor then shows the conflict and may reload or save over it.
- **`Enrichment`**: `Count` and `Charge` are the quota's two statements; `AskProvider` one call, with what it
  took of the deadline: one that ends before the answer is a failure, one that ends while its body is read is
  no usable answer, which is degraded; `NoToken`, `LoseConnection`, `Die` the ways an answer is lost.
- **`MeetingCalendar`**: `card` is the control as rendered, `press` a request; `LosePress` loses it before
  or after the event was made.
- **`DemoData`**: a run of the reset plans, deletes notices, then introductions (`DeleteNotices`,
  `DeleteIntroductions`, one transaction at READ COMMITTED), and undoes a membership (`LoadMembership`,
  `Unjoin`), while members propose and respond and the seeder seeds.

### Lists: AtomicImport, FileImport, Scoring, Matching, Taxonomy, TagBackfill, ContactMatch

- **`AtomicImport`** maps rows of a file to records by the organizer's selection, each at the number of
  its row, and writes a whole file in one step; **`FileImport`** goes through the records one by one, the
  first of those left (`left`, `NextRecord`; `Select`, `Update`, `Insert`, `Commit`, `Fail`) next to other
  imports and the retention pass, and has the panel: files are picked and read, previewed, selects
  changed, buttons pressed, answers land in any order. `ImplementsAtomicImport` is the refinement.
- **`Scoring`** are the pure functions of the recommender, in exact arithmetic: a component between 0 and
  1 is counted in sixtieths and a weight in twentieths, which needs lists of at most two needs and two
  goals. The loop of `rankCandidates` is the list each place of which is the best of those left
  (`IsRanking`, `PickOf`), the sort of the tag matches the list of those with so many before them
  (`TagMatches`). **`Matching`** is the two routes over members that change meanwhile.
- **`Taxonomy`** are normalisation, validators and pickers over a fragment of the catalogue;
  **`TagBackfill`** the script that moved old tags, with its rows read before its transaction.
- **`ContactMatch`** reads an address book by its places (`PlacesOf`: page, line, cell; `CardPlaces`,
  `CsvPlaces`, `ReadPages`), looks it up and answers.

### Screens: DirectoryPanel, IntroWindows, CampaignCard

A screen is what its React component keeps, and the requests it has under way. An answer is two steps
where the code reads headers and body apart (`Answered`/`BodyRead`, `BothAnswered`/`DirectoryRead`). The
server is the little of it that the screen can tell apart: `intro` are two decisions, `campaign` a state.
`IntroWindows` aborts no fetch: a request whose page is left, or whose answer is lost, goes into `adrift`
and takes effect at any later moment (`ServeAdrift`), perhaps behind a card that was opened again meanwhile;
`page.behind` says that this has happened to the card on the page since it was loaded.

## 3. What is checked

| Run | Instance | Shows |
|---|---|---|
| `outbox_lease` | 2 jobs (one inbound), 2 workers, crash and stop, 2 outages, cap 3, batch 2, one 429 | `OneHolder`, `RecordedNotRetried`, and the refinement `Lifecycle` |
| `outbox_faults` | 1 job, 2 workers, all four faults, 1 outage, cap 2, fair | `TriesBounded`, and `Settles`: every job ends for good |
| `campaign_requests` | 2 members, one edit, approval, send and cancellation, 2 workers or withdrawals, exceptions | `QueuedAsApproved`, `CountersHonest`, `CompletedDrained` |
| `introductions` | one pair, one field, four requests of any kind by either party, blocks and unblocks | `StateIsConsent`, `NoticesTellTheOutcome`, `ShownAgreed`, `LateRefused` |
| `access` | 2 accounts, 3 requests, 2 consents; 2 rows in pages of 1, 5 deployments; 2 codes; 2 secrets; windows of 2 and 3 units | `ConsentsNotCrossed`, `ImplementsConnection`, `EveryInstanceReads`, `GuessesBounded`, `EndedStaysEnded`, `RecoveryCodeOnce`, `BudgetExact` |
| `members` | 2 accounts, chats, challenges, updates and handlers; 2 notes, 2 ticks, scan limit 1; 2 people, 1 registration, 2 links, 2 requests | `ActivationConsumesChallenge`, `OptedOutLeftAlone`, `RegistrationBoundOnce` |
| `people` | one wizard and two editors, 3 revisions; 2 panels, 3 requests, quota 1, deadline 3; 2 cards, 3 presses; 2 personas, 2 runs | `PeopleTypesOK`, `HiddenUntilTicked`, `SpendBounded`, `CalendarTold`, `NoticesHaveRows`, `ErasedAsPlanned` |
| `organizer` | 2 files, 2 imports, 2 picks; 3 people out of 5 profiles, all modes, 1 change; 2 tables, 2 passes; 5 address books and 3 at Google | `OrganizerTypesOK`, `PreviewedIsCommitted`, `ImplementsAtomicImport`, `PicksExplained`, `RecommendedAreListed`, `RoundTrips`, `AnswersWhole` |
| `screens` | 2 loads at a time, 1 change; 2 others, 1 kind of contact; 2 requests | `ScreensTypesOK`, `ListIsOfItsFilters`, `ProposedAsChosen`, `OwnAnswerShown`, `RetriedAsAsked` |
| `campaign_stuck` | an approval and a send, 2 workers, no exception | *violated:* `RunningHasWork` |
| `campaign_resumed` | an approval, two sends, a cancellation, no exception | *violated:* `CancelledStays` |
| `followup_starved` | 2 notes, a scan limit of 1, one tick, fair | *violated:* `NothingStarves` |

Each property is stated in natural language above its definition.

### Findings

1. **A campaign may stay `running` for ever** (`campaign_stuck`). Two transactions that end the last
   two jobs at the same time each evaluate `NOT EXISTS` on a snapshot in which the other's job is
   still open. Neither completes the campaign, and no later step looks.
2. **A cancelled campaign may be resumed** (`campaign_resumed`). The send sets `running` by id alone. Of
   two overlapping sends the second has loaded the campaign while it was approved; if the first commits
   and the campaign is cancelled in between, the second sets it running, or completed, again. No message
   is enqueued twice (the dedupe keys hold), but the cancellation is undone.
3. **Notes can starve** (`followup_starved`). The scan takes the 25 oldest candidates and drops those
   whose introduction is not mutual only afterwards, without marking them: they take up the limit of every
   later tick, and a due note behind them is never reminded of.

Section 5 lists what else the modelling showed.

### Bounds

- `MaxUnknownAttempts` is the code's own value, 3, in the safety run, and 2 in the fair one, which is a
  matter of cost: with 2 an attempt can already be re-queued once and end at the cap. `RateLimitBound` = 1:
  the code has no cap on 429 answers (outbox.ts:245), so without a bound neither `tries` nor `Settles` would
  be finite; one of them already takes the path that gives the job back without ending it at the cap.
- `OutageBound`: crashes and signals in a behaviour. Two of them let each worker be lost once or one
  worker twice. Without a bound a job can be released for ever and nothing would end.
- Two jobs, one of each kind, and a batch limit of two let one worker hold a batch while the other
  claims, sweeps or finalizes; the hooks select one job or both. `outbox_faults` has one job since every
  property of it is per job and rows are independent but for the batch; two workers suffice for a stale
  finalizer and a sweep to race.
- `campaign_requests`: two members and two workers are what `campaign_stuck` needs (two last jobs); one
  edit makes an approval stale (`RevisionBound` = 2), before the send loads the campaign or after it.
- `introductions`: four requests are a creation, two overlapping answers and a view, or a creation, an
  accept, a view and the accept that changes the fields meanwhile. Both parties hold one field or none, and
  fields do not interact.
- `access`: three requests are a callback, a loader and a disconnect, or three step-ups; two consents are
  the fewest that can be crossed; five deployments are expand, flip, contract with a step back; pages of one
  row put a writer before and behind the script. `MaxPerWindow`, `MaxAttempts`, `MaxFailures` = 2 are the
  fewest with an attempt below the limit. `MaxNow` = 4 is more than both windows.
- `members`: `MaxRedone` = 1 handles each update once more; a scan limit of 1 lets one note hide another.
- `people`: three revisions are a creation, a save and a conflict about it. A quota of 1 with three
  requests passes the count twice; a deadline of 3 leaves room for the retry or does not.
- `organizer`: the first file has a key twice and one guest under two keys, the second no key column. Three
  profiles out of five cover the gates of all four modes; the address books have every defect the parsers
  treat, and limits one below and one above what they hold.
- `screens`: one change while two loads are under way, so that every pair of answers can cross; one request
  at a time that its page has been left by (`MaxAdrift` = 1), next to the one of the page.

The theorems of section 4 have none of these bounds.

### Fairness

- `outbox_faults`: `WF` of what a live worker does next: every transport call has a timeout, the loop of
  `runWorker` is under a supervisor and the HTTP tick under a scheduler, which is also what `Restart` is.
  `WF` of `ComeDue` and `LeaseLapse`: time passes. No fairness of `Throw`, `Crash`, `Stop`, the hooks or
  `Enqueue`, and no strong fairness: a job that is due is claimed because a claim of fewer rows than the
  limit takes all of them. With more due jobs than the batch limit holds, that argument needs the claim's
  `ORDER BY due_at`, which the instance does not exercise.
- `followup_starved`: `WF` of the scan and of time, and `SF` of the two later steps of a tick: errors do
  not end every scan at the same step. It is a counterexample, so the strong assumption makes it stronger.

No other run assumes any. Runs with `CHECK_DEADLOCK FALSE` are those whose bounded instances end (all
requests made, all keys used); the others cannot stop.

### Mutants

Each property of a passing run has a mutation of the code that breaks it, named in `PROJECT.json` and
defined in the module just before the definition it replaces (`ClaimableWhenDue`, `RowExists`,
`LockNothing`, `Kept`, `OwnBlocks`, `BudgetIsEnd`, ...): a dropped guard, an attempt that is not counted, a
recheck that is left out.

## 4. What is proved

TLAPS checks the theorems for every value of the constants: any number of jobs, workers, members,
requests, accounts, panels; any bounds. Every one is an inductive invariant (`*Inv`, a conjunction of
named parts), with one lemma per action that shows that the action keeps each part, or an action property
from it. Each invariant was first checked by TLC on the instance of its component.

The refinements and the action properties are proved like the invariants: the initial states map to
initial states, and a step taken in a state of the invariant maps to an abstract step or a stutter.

### The proof modules and their inductive invariants

**`OutboxProofs`**

| Theorem | States | From |
|---|---|---|
| `TypeCorrect` | `TypeOK` | `TypeInv`: with `CurOK` (a worker past `BeginJob` has a job in hand and its copy of the row) |
| `LifecycleImplemented`, `TerminalStays` | `Lifecycle`, `TerminalIsFinal`, if `"throw" \notin Faults` | `NoneFailing` (no worker is in the exception path, which writes a row whatever its status) |
| `LeasesExclusive` | `OneHolder`, if `Steady` | `LeaseInv`: `HeldOK`, what a worker holds is leased to it with the attempt of its copy, or was ended by a hook |
| `TriesStayCapped` | `TriesCapped`, if `Steady` | `CapInv`: `CapOK`, `WaitOK`, `LimitOK` balance tries against the row's attempt, place by place of the worker |
| `TriesStayBounded` | `TriesBounded`, whatever fails | `PurseInv`: `PurseOK`, the tries a job has had and the coins in its purse together stay within the bound |
| `NoSecondTry` | `RecordedNotRetried`, if `Steady` | `RecordInv`: `LeaseInv` and `Unrecorded`, a job in hand has no recorded outcome unless a hook ended it |

`Steady` is "no `lapse`, no `throw`". The hypothesis is about the environment and is not idle: the runs
`outbox_lease` (without those faults) and `outbox_faults` (with them) are instances on both sides of it,
and with `lapse` TLC finds two holders of one job.

`TriesStayBounded` needs none of it. A job is given a purse: a row at attempt *a* is worth
2^(M-a) - 1 coins, what a worker holds is worth the try it may still make and its retry, an open shutdown
what it may release. A claim changes coins for coins of the same worth, a try spends one, an answer 429 and
an outage pay in what they allow. The purse is a set, its sum a `Cardinality` (`Exchange`, `CoinsAre`), so
that no sum over the workers is needed; that 2^(n+1) = 2 * 2^n is proved by counting subsets
(`PowerDoubles`).

**`CampaignProofs`**

| Theorem | States | From |
|---|---|---|
| `CampaignTypes` | `TypeOK` | `TypeInv` with `FinOK`: a finalizer past its job lock knows whom it finalizes |
| `TextWasApproved`, `ApprovalsPinned` | `QueuedAsApproved`, `ApprovalPinned` | `Approved`: `SendsApproved`, a send between its read and its commit holds a revision an owner approved, and one that no edit has overtaken finds the approval in force (`ApprovedStays`: only an edit drops it) |
| `CountersAreHonest` | `CountersHonest` | `CountInv`: `HeldOK`, `LockOK` (who holds which lock), `DecidedOK` (what a finalizer has decided about its job and not committed), `EnqueuedOK` (what a send has inserted and not committed) |
| `CompletedIsDrained` | `CompletedDrained`, if `OneSend` | `DrainInv`: `SentBefore` (a running campaign has no send left to come) and `SeenDrained` (a completion that has passed its check) |

`OneSend` says that the requests contain one send. It cannot be dropped: with two that overlap, TLC finds
an eighteen-step trace in which the second queues jobs between a finalizer's drained check and its wait
for the campaign row (section 5). The proof is why it is known that nothing else breaks it.

**`IntroductionsProofs`**: `IntroductionTypes`, `ConsentDecides` (`StateIsConsent`), `OneOutcome`
(`NoticesTellTheOutcome`), `RevealNeedsBoth` (`ShownAgreed`), all from `IntroInv`, whose parts are
`Locked` (what the transaction with the row's lock has read is still so), `Fresh` (a view's reads, in
their order), and `Covered` (what a view has read of the consents was agreed since the introduction became
mutual). `BlocksFreeze` (`LateRefused`) adds `LateInv`: a request that came in under a block has not
passed its check.

**`AccessProofs`**

| Theorem | States | From |
|---|---|---|
| `SignInTypes`, `OneSessionPerCode`, `EndedSessionsStay` | `SignInTypeOK`, `CodeOpensOneSession`, `EndedStaysEnded` | `SignInInv`: `HasCode`, `NoneAhead`, `OpenedByUsed` |
| `GuessesAreBounded` | `GuessesBounded` | `GuessInv`: guesses = attempts counted + requests that have compared and not counted yet |
| `FactorTypesHold`, `OneStepUpPerCode`, `CodesFitTheSecret` | `FactorTypeOK`, `RecoveryCodeOnce`, `RecoveryFitsFactor` | `FactorInv`: `CarriedOK`, `SpentGone`, `OnFile` |
| `GrantTypes`, `ConsentsStayApart`, `FlowsRedeemedOnce`, `ConnectionImplemented` | `GrantsTypeOK`, `ConsentsNotCrossed`, `FlowRedeemedOnce`, `ImplementsConnection` | `GrantsInv`: `IdleHolds`, `FlowsTaken`, `FlowInHand`, `TokensBelong`, `NewlyAnswered` |
| `ReadableThroughout`, `ValuesSurviveRotation` | `EveryInstanceReads`, `RotationKeepsValues`, if `"single" \notin WayBack` | `RotInv`: `Typed`, `Staged`, `NothingNew`, `ScriptRuns`, `CensusHolds`, `OldIsGone` (once the columns are clear, a row under the old key is in `late`) |
| `CallsWithinBudget` | `BudgetExact` | `BudgetInv`: `ClockOK`, and `Enough` / `NotTooMuch`, the level of a bucket against the calls of every span that ends now |
| `AccessCompose` | the sum's specification implies all five | |

`"single" \notin WayBack` is the only way back the values survive; that the runbook allows the other one is
in section 5.

**`MembersProofs`**: `TwoSidedLinking` (`ActivationConsumesChallenge`, from `RowsTyped`); `OptOutHolds`
(`OptedOutLeftAlone`) and `RemindedOnce` (`OneReminderOnFile`) from `FollowUpInv` (`JobsTyped`,
`HeldOnFile`, `RemindersCounted`); `OneMemberPerRegistration` (`RegistrationBoundOnce`) and
`RegistrationKept` (`BoundUntilPurged`) from `MembershipInv` (`OpenNamed`: a claim in flight has a
registration that its link names); `MembersCompose`.

**`PeopleProofs`**: `EnrichmentTypes`, `ProviderSpendBounded` (`SpendBounded`) from `FillInv`;
`CalendarTypes`, `CardsTellTheCalendar` (`CalendarTold`) from `CalendarInv`; `DemoTypes`,
`NoticesKeepTheirRows` (`NoticesHaveRows`), `ErasedOnlyAsPlanned` (`ErasedAsPlanned`) from `DemoInv`;
`CardTypes`, `ShownOnlyWhenTicked` (`HiddenUntilTicked`) from `CardInv` (`WizardOK`, `EditorOK`: what an
open form would save is what its person ticked); `PeopleTypes` (`PeopleTypesOK`), `PeopleCompose`.

**`ScreensProofs`**: `CardTypesHold`, `StepUpRepeatsTheWish` (`RetriedAsAsked`) from `CardInv`
(`OneWish`); `WindowTypesHold`, `RevealedAsTicked` (`ProposedAsChosen`), `DecisionShown`
(`OwnAnswerShown`) from `WindowsInv` (`CallOK`, which speaks of the requests `adrift` too, `WindowOK`,
`MarksOK`, `DetailOK`); `DirectoryTypesHold`,
`ListMatchesFilters` (`ListIsOfItsFilters`) from `DirectoryInv` (`LoadsOK`, `ShownOK`); `ScreensTypes`
(`ScreensTypesOK`), `ScreensCompose`.

**`OrganizerProofs`**: `ImportsAreAtomic` (`ImplementsAtomicImport`) from `ImportInv`, in which `Sound`
says of an open commit that what it has written is the part of its plan it has done, that it holds the lock
of every such row, and that its counts are those of these rows as they were before it; so a commit counts
what a whole import would count at that moment. `CommitIsOfItsPreview` (`PreviewedIsCommitted`) from
`PanelInv`: a request in flight that nothing overlapped is of the text and the selection on the page, and the
selects made from an answer resolve to the mapping that was answered (`SelectsAskTheSame`). That the
next record, the one of the smallest number left, exists is `LeastNumber`, from the library's
well-founded induction. `OrganizerCompose`. The proof found an error of the model: a request of the panel
that failed was taken for one of a program.

`RecommendedFromDirectory` (`RecommendedAreListed`) and `PicksComeWithReasons` (`PicksExplained`) need the
types only, and that what the code computes by loops and sorts is well defined: the scores are numbers
(`UsefulnessIsNumber`), so that a finite pool has a best one (`FirstInOrder`) and the greedy list can be
continued while somebody is left (`RankingIsContinued`, `RankingExists`); the tag matches are an order
in which every place is taken (`EveryRankIsTaken`). `AnyPairHasReasons` is the case split of the two
lines of reasons. All of it follows from counting in finite sets; no recursion is unfolded.

`ListsRoundTrip` (`RoundTrips`) is by `BackfillInv`: what a row, a plan of the script and a form hold is
what the API takes or what a picker makes of it. Its lemmas say what the lists by their places are: the
places kept are in their order (`PlacesInOrder`), removing doubles keeps the first of each (`DedupeFacts`),
a selection keeps what is allowed (`AmongFacts`). `OrganizerTypes` (`OrganizerTypesOK`): the counts of a
request and the records left to it add up to its plan (`CountsAddUp`), a row's sources stay those of its
imports (`RowsHaveSources`), an answer never shows more than the limit (`ContactInv`).

`AnswersAreWhole` (`AnswersWhole`) is by the same `ContactInv`: every answer under way and on a page is
whole. Its lemmas follow a book from its places to the addresses looked up: the places are finite
(`PlacesFacts`), those found lose no address of a page (`FoundFacts`), all are looked up when they are not too
many (`TakenFacts`), and what the parsers read is what the book offers (`OfferedByCards`, `OfferedByTable`,
`PagesAreRead`). `FewOnPages` counts what the pages of a Google book may hold, where the last page's
overflow goes untold.

### Assumptions

The `ASSUME`s of the modules are the whole of what is assumed of constants: bounds are natural numbers
(positive where a limit of zero would be meaningless), the markers such as `"nobody"` are not members, sets
that are counted are finite. Each is evaluated by TLC on the instances. The hypotheses of single theorems
are the ones above: `Steady`, `OneSend`, `"throw" \notin Faults`, `"single" \notin WayBack`.

### Only model-checked

- Liveness and the runs that starve or get stuck (`Settles`, `RunningHasWork`, `CancelledStays`,
  `NothingStarves`): TLAPS has no rules for fairness and `ENABLED` here.

Every invariant and every action property of the runs that expect no violation is a theorem.

## 5. Where code and documentation differ

The three findings of section 3 have a run. What follows was met while modelling; a line of the code or
of a document is given where the two disagree. Nothing here is in a passing property as if it held.

*Queue.* A message suppressed between its claim and its send is sent all the same, and its outcome is not
recorded (outbox.ts:502 "the job will not be attempted again"; the hook's `UPDATE` is at :519).
An answer 429 counts an attempt but is never ended by the cap (outbox.ts:245), so that their number is
bounded by the provider only. `requeueWithErrorCap` may put a row that a hook has ended back on the queue.

*Campaigns.* An edit that overlaps a send turns a running or completed campaign into a draft: its
compare-and-set covers the revision and not the state (campaigns.ts:266; the check is in route.ts:59). A send
that loaded the campaign before an edit and commits after it queues the earlier approved text and sets the
campaign running although the edit has dropped its approval (send/route.ts:46 checks outside the transaction;
AC-40 at campaigns.ts:264 "any edit invalidates a prior approval", :281-282 "must be re-approved before it can
run"): `QueuedAsApproved` says so in its second case. Two overlapping sends can leave a completed campaign with
open jobs, which the stats route calls impossible. An approval that loses its compare-and-set still commits the
audience snapshot (approve/route.ts:61).

*Introductions.* An accept whose check preceded a block still commits `mutual` after it (respond/route.ts:50
"no new mutual transition after the block"); the view checks again, so nothing is revealed. Proposing to
someone whose own proposal is pending answers `already_existed`; the window marks it proposed, and
neither an acceptance nor the ticked kinds are recorded.

*Access.* `WayBack` with `"single"` (RUNBOOK.md:143, KEY_ROTATION_ASSESSMENT.md:234) leaves instances that
cannot read values sealed since. The runbook (docs-internal/ops/RUNBOOK.md:107) and the script's header
(rotate-encryption-key.mts:49-51) let the backfill overlap the roll-out of the flip; a census that comes out
clean meanwhile lets the operator contract (RUNBOOK.md:120-125), and what an instance of the old environment
writes after it is then unreadable. Nothing in the script asks whether the roll-out has ended. `mfa.ts:118`
confirms whatever secret the row holds by then. A clock that is set back grants extra tokens. Wrong join codes
are counted before the attempt is inserted, so that overlapping requests pass the count together.

*Members.* `/stop` handled twice after a new link stops the new one (telegram-handlers.ts:110). A unique violation is
caught inside the transaction it has aborted (:269). A note that goes from proposed to confirmed and back
stays a candidate whose key is taken. The worker sends a reminder without looking at its note again. A
claim does not look at the e-mail or the quarantine again in its transaction (registration-claims:57, :79);
with a membership already active it binds nothing (:129-132 against :8); a membership it re-activates keeps
the visibility it had (:123 against :103). `max_participants` is checked before the transaction
(join/route.ts:97-108). A PATCH that read before a leave can undo it. Terminal jobs lose their dedupe key
after 90 days (cleanup.ts:126). An invitation made between the two statements of the retention pass aborts
the pass. Data of a person forgotten by retention can come back with a write that had read before.

*Lists.* The file input is not disabled while a preview is under way, so an old preview can land under a
newer file and be committed; `busy` is false while a second request is in flight; changed selects can be
committed without a new preview; a second file sends the first one's selection. A column recognised as a
later field is mapped against the comment at import-panel.tsx:169, and "Ignore" has no effect on a column
recognised by its name. The backfill reads rows before its transaction and writes them by id (script
lines 15-16 "user-entered v3 data is never lost"). A membership's interests hide the profile's.
`picker.ts:170` "the same way the API does" does not hold for every input. `truncated: !readEveryPage`
(me/contacts/google/route.ts:185) is false when the last page overflows 5000; `matched_truncated` is set at 200
although more than 50 are cut (contact-match.ts:58); a second address of a row is not looked up. "my top
need weighing most" follows the catalogue's order. "Profiles without intents and interests never
enter the v4 layer" does not hold in the modes grow and similar. After the cooldown a pair is recommended
again but a proposal returns the old row. A list can recommend in an event whose directory has closed.

*Card and calendar.* The wizard sends unticked kinds of links in `hidden_fields`, which the schema refuses
(onboarding-flow.tsx:296, profile.ts:206), so that such a card is never published. When the answer to
the creating request is lost, retries are refused as `revision_required` (profile/route.ts:75). A member
without a profile is charged a quota row before the 400 (enrich/route.ts:89). The contacts have no revision
(contacts/route.ts:69). "Nothing was added" (i18n/en.ts:504) is untrue when an answer was lost, and the
retry makes a second event.

*Demo.* A response between the reset's two `DELETE`s leaves a notice without its introduction. The seeder
commits `mutual` before the consents and overwrites an answer of the real owner.

*Screens.* A list's body is read after the check that its load is the latest, so an overtaken load can replace
the newer list; an answer 500 is shown as an empty list. The count in the send dialogue can be that of an
unsaved preview. Closing the step-up window does not stop the action whose code is being checked; of two gated
actions that cross, the older may be repeated. "A failed write reverts the box" (followup-toggles.tsx:14-18)
fails with overlapping writes. An introduction's card stays "loading" when a reload fails, and does not reload
after a 409. Leaving the page aborts no request (intro-card.tsx:109-126), so an answer that the service commits
after the card was opened and loaded again leaves a stale decision on it. The owner whose ownership lookup
failed is offered an introduction to themself (p/[slug]/page.tsx:176-180). A re-render moves the focus out of an
open modal (modal.tsx:52-56 against :6).

## 6. Not modelled, and the plan

Left out: HTTP wrapper, logging, environment and health report (plumbing); the weekly digest; reports;
consent scopes and the consent log; the recipient channel's decision table; the life of an event; the
splitting of CSV text into cells; the arithmetic of TOTP, ciphers, PKCE; the formatting of `.ics`, vCard
and badge; the due gate of retention; pages that show what they loaded. `PROJECT.json` says for each
component what of it is left out.

Next: components of their own for the switch of accounts in one browser, the scope of a request
(`src/src/lib/http.ts`) and the health report.
