# A specification of ai-kanban

TLA+ models of this repository: the core and its services (`packages/core`), the
database adapters (`packages/db`), the server around them (`packages/server`) and
the stateful parts of the web client (`packages/web`); the TLC instances that check
them; and TLAPS proofs of the theorems that matter most. Paths below are relative to
`src/packages/`, files named without a path are the ones of the section's table.

1. [The system and its parts](#1-the-system-and-its-parts)
2. [The modules](#2-the-modules)
3. [What the runs check](#3-what-the-runs-check)
4. [What is proved](#4-what-is-proved)
5. [Findings](#5-findings)
6. [Not modelled](#6-not-modelled)

## 1. The system and its parts

A kanban board for facilities work orders. A Fastify server (REST, MCP, Slack, SSE)
calls services of a framework-free core; every service call runs in one *unit of work*
of a database adapter, SQLite or Postgres. After its commit a unit publishes hints on an
in-process bus; the server sends them to browsers over SSE and turns them into
notifications; a React client invalidates its cached queries and fetches again.

| Part | State | Operations | What is hard |
| --- | --- | --- | --- |
| Card lifecycle (`core/.../card-service.ts`) | the `cards` row, the append-only `card_events` | create, update, move, cancel, reopen, archive, block, unblock, delete, the alert claim | many calls write the same fields; reopen and archival rebuild a past state from events; columns and policy change under the cards |
| Columns, policy (`lane-admin-service.ts`, `policy-service.ts`) | ordered columns whose keys carry behaviour; a versioned document of roles, graph, reasons | create, remove, reorder; apply | any column may go or come first; stored rows still name reasons and roles |
| Units of work (`db/src/unit-of-work.ts`, `db/src/pg/unit-of-work.ts`, `runWithPositionRetry`) | SQLite: a promise chain around one connection; Postgres: a READ COMMITTED transaction per call | run, the retry after a collision | what a transaction read may be stale when it writes; crashes; lost answers |
| Order in a column (`positionBefore`, `position-rebalance.ts`) | fractional keys, UNIQUE(lane, position) | insert at an edge or in a gap, rebalance | stale neighbours, hidden and archived rows in the gap |
| Boards and access (`board-service.ts`, `board-access.ts`) | boards, groups, defaults, roles | create, update, archive, group and preference edits | administrators act at once, on rights that change |
| Accounts, sessions (`server/src/auth`, `server/src/users`) | users, sessions, failures per account | setup, login, password, administration, purge | hashing outside transactions; the first and the last administrator; touches nobody awaits |
| OAuth, service tokens (`server/src/oauth`, `server/src/tokens`) | codes, families of refresh tokens, secrets | authorize, exchange, rotate, revoke | replays, retries and resets race |
| Attachments (`attachment-service.ts`, blob store, quota) | blobs next to rows; counters | add, remove, discard | two stores, no common transaction |
| Comments, relations, watchers, notifications | rows by card | add, relate, watch, fan out | written after the commit or never; numbers that are reused |
| Locations (`location-admin-service.ts`) | a tree, and the cards that point into it | create, rename, delete a subtree | rows added under what is being deleted |
| Board queries (`board-routes.ts`, `board-query-service.ts`) | the memo of GET /board | snapshot, feed pages, follow-up feed | computations that raced a change; events discarded between pages |
| Live updates (`stream-routes.ts`, `web/src/api`) | open streams; cached queries | open, hint, drop, reconnect, optimistic move | missed hints; rollbacks to old snapshots |
| Web editors (`web/src/settings`, `card`, `shell`, `undo`) | drafts, stacks of undo | edit, save, undo, redo | refetches under a draft; answers that come late |
| Slack (`server/src/slack`) | seen ids, sliding windows | mention, shortcut, submission | redelivery, restarts, one message failing |
| Process and jobs (`main.ts`, `wiring/jobs.ts`, `server/src/jobs`) | what runs, the snapshots | boot, signals, nightly jobs | signals at any await; crashes between two steps |

`PROJECT.json` lists every part with its sources, its modules and what is left out, and
the hazards (what a test would hardly reach), each with the properties that are about it.

## 2. The modules

One module per component; an action is a whole handler, or a statement or an `await`
of it where others come between. Refused calls that change nothing are no step.

**The core**

| Module | Code | State and actions |
| --- | --- | --- |
| `CardLifecycle` | `core/src/services/card-service.ts`, `server/src/lanes/lane-admin-service.ts`, the part of `policy-service.ts` cards depend on | `cards[c]` the row, `audit[c]` its trail, `lanes`, `graph`, `reasons`, `today`; one action per service call, each with all it writes. `prior` is a history variable: the card as its last cancel found it |
| `CardStates` | `docs/product/workflow.md` | abstract: the stages of a card and how they follow one another |
| `ArchiveSweep` | `archiveExpired`, `wiring/jobs.ts` | extends `CardLifecycle` by the nightly run: list, then one transaction a card, crashes between |
| `FollowUp` | `BoardQueryService.staleCards` | extends `CardLifecycle` by what the feed reports |
| `CardTransactions` | both adapters, `runWithPositionRetry`, the alert job | calls on one row, statement by statement: queue, begin, read, check, write, commit, roll back, retry, crash, lost answer |
| `OptimisticLock` | ADR-012 | abstract: an edit is accepted only against the newest version |
| `LaneOrder` | `move`, `positionBefore`, `edgeOfLane`, `position-rebalance.ts` | the keys of one column, call by call and update by update, on either adapter |
| `CardDiscard` | `card-service.ts` (create, delete), `comment-service.ts`, `relation-service.ts`, `card-repository.ts` | ticket numbers and what hangs on them, statement by statement |
| `AttachmentBlobs`, `UploadQuota` | `attachment-service.ts`, `local-blob-store.ts`, `upload-quota.ts` | files in two stores, each step of which may fail; the daily counter |
| `Boards` | `board-service.ts`, `policy-service.ts` | boards, groups, defaults, roles under the lock of the initial board's row |
| `Notifications` | `notification-service.ts`, `watch-service.ts`, `comment-service.ts`, `fan-out.ts` | events, hints, watchers, notices; comments added (mentions) or edited and deleted (quiet) |

**The server**

| Module | Code | State and actions |
| --- | --- | --- |
| `Accounts` | `auth-service.ts`, `setup-service.ts`, `user-admin-service.ts`, `create-admin.ts`, `slack/identity.ts` | accounts and sessions; what a call reads before its unit of work, or on Postgres before its write, is a step of its own |
| `SessionExpiry` | `auth-service.ts`, `session-purge.ts` | one session over time: touches, logout, purge, in or out of order |
| `LoginThrottle` | `auth-service.ts`, `backoff.ts` | the chain of attempts and the failures remembered |
| `TokenGrants` | `authorization-service.ts`, `token-service.ts` | codes, access tokens, refresh families |
| `ServiceTokens` | `service-token-service.ts` | create, rotate, revoke against the role policy |
| `Locations` | `location-admin-service.ts` and repositories | the tree, statement by statement, with Postgres' row locks and foreign keys |
| `BoardMemo` | `board-routes.ts` | version, memo, coalesced computations, entity tags |
| `ActivityFeed` | `board-query-service.ts` | pages of events by cursor |
| `SlackIntake` | `server/src/slack` | deliveries, the guard, modals, limits, failures, restarts |
| `StreamAccess` | `stream-routes.ts` | the streams of one user: limit, checks, hints, keepalive, shutdown |
| `ServerProcess` | `main.ts`, `wiring/jobs.ts` | boot, scheduler, requests, signals, exits |
| `SnapshotRotation` | `sqlite-snapshot.ts`, `sqlite-snapshot-store.ts` | copy, rename, prune; failures, crashes, an operator |

**The browser**

| Module | Code | State and actions |
| --- | --- | --- |
| `LiveBoard` | `web/src/api/sse.ts`, `board.ts` | the stream, the cached board and open card, optimistic moves |
| `InboxView` | `NotificationBell.tsx`, `notifications.ts` | the bell: count and lists, polls, the user's own changes |
| `UndoStack` | `web/src/undo` | the two stacks, key presses, answers that come late |
| `BoardMoves` | `move-options.ts`, `board-cache.ts` | what a drop means on a filtered, old board, and where the server puts it |
| `PolicyDrafts` | `SettingsPage.tsx`, `meta.ts` | four forms that hold copies of one document |
| `WaitingBanner`, `CommentComposer`, `NewCard` | `CardPanel.tsx`, `CommentsThread.tsx`, `NewCardButton.tsx` | drafts against refetches, answers and unmounts |

**What is abstracted.** Texts, names and payloads are members of small sets; in
`CardLifecycle` every field the workflow does not look at is one boolean (`other`), and
the trail keeps the newest cancel, the newest cancel or move and the fold of all events,
which is all the code queries of it. Dates are days, other times a clock of small
numbers. Positions are only in `LaneOrder`, whose two library functions are constants of
which it assumes what ADR-006 relies on: a new key lies strictly inside its gap, `n`
fresh keys ascend. A permission matters where it can change under a call (`Boards`,
`Accounts`, `ServiceTokens`, `StreamAccess`, `Notifications`); elsewhere it would only
remove behaviours. External and modelled from its use (marked so in the map): Postgres'
locks and foreign keys, EventSource, the query library, Slack, the file system.

`LaneOrder` reads what a call is about in one step, before its key: on Postgres this
leaves out a commit between two of those SELECTs.

## 3. What the runs check

The components share little: most meet through the database, and a module models the
tables it writes. A run therefore checks several of them side by side: its MC module
declares the variables of each, and `part`, chosen at the start and never changed, says
which one, and which instance of it, a behaviour follows; the others stay at rest, so
that their properties are those of the component alone. Where components do share state,
one module extends the other (`ArchiveSweep`, `FollowUp`) or models both sides
(`BoardMoves`, `Notifications`, `Locations`, `CardDiscard`).

| Run | Parts: instance | Distinct states | What it shows |
| --- | --- | --- | --- |
| `live` (`MCLive`) | *streams*: two connections, one allowed. *board*, *panel*: two moves, or a move and a drop; a change of a card and one of a file. *bell*: one notice, two changes. *calm*, *early*: two jobs, two requests, two signals; *early* with signals at any time and Slack failing. *nights*, *tidied*: six days, two snapshots retained, *tidied* with an operator | 168,630 | `NoGhosts`, `HintsNeedAccess`: registered streams have a client, and a hint is sent on the result of its own check. `ShownIsTheServers`: no order of failed moves leaves a ghost, no answer older than the user's change counts as fresh. `CatchesUpAndEnds`: board, open card and badge catch up; lost sessions end their streams and signals the process. `ProcessIsSound`: streams within the limit; the database closes after the last request and, in *calm*, after the last run; snapshots are whole and within their number, and one goes only when newer ones are complete |
| `lifecycle_one` (`MCCards`, `CardLifecycle_one.cfg`) | one card, six versions, two days, two reasons, seven arrangements of five columns | 612,908 | `BoardInv`, `DisciplineInv`: the rules of a card (section 4). `ReopenRestores`: a cancelled card returns exactly. `VersionsAndAlertsTell`: a row with its version is the same row, an overdue episode is alerted once. `ImplementsStages`: refinement of `CardStates` |
| `cards` (`MCCards`, `Cards.cfg`) | *sweep*: the nightly job with crashes. *feed*: one card over four days. *two*: two cards, four arrangements. *enforced*: the seeded graph, ten versions | 253,496 | `FullStaysAreArchived`: a card is archived after a full stay in done and not before, and a missed night is caught up. `CardsKeepTheRules`: the follow-up feed reports every card that is due; two cards keep the rules of one; under the enforced graph only started work is completed |
| `units` (`MCUnits`) | *row*: two clients and the alert job. *numbers*: SQLite, two numbers, six calls; Postgres, three numbers, two calls at a time of five. *files*: three blobs, room for two, one per card; on either adapter, unharmed, or on the board. *quota*: three uploads, three days | 448,950 | `NoLostUpdate`, `TrailInv`, `ImplementsLock`, `EveryCallSettles`: the optimistic lock under retries, lost answers and crashes. `NumbersHold`: what was meant for one card reaches no other, discards take drafts whole. `FilesInv`: what is listed can be downloaded, the limit of a card and the daily quota hold, nothing is left behind; the limit of the disk *on the board*, where no discard doubles a deletion |
| `lane` (`MCLaneOrder`) | *night*: SQLite, three cards, eleven keys, a mover and the rebalance. *pair*: Postgres, three cards, four keys, two movers | 1,277,811 | `KeysStayApart`: no key is ever found taken and what was read is so. `LandsWhereDropped`: in the gap; on Postgres before the neighbour named, unless it moved. `OnlyTheMovedCardMoves`: a commit changes no other card's place. These are of the *night*; `PairIsSound`, of the *pair*: no key is twice in the column, and a drop lands before the neighbour it named unless that one moved |
| `credentials` (`MCCredentials`) | *accounts* (SQLite, with the command line; with Slack; Postgres): two accounts, two clients. *grants*, *two apps*: five secrets, one user; *one by one*: one app, one request at a time, six secrets. *tokens* (both adapters): four secrets, three roles. *sessions* (both): one beyond the absolute limit. *burst*, *three accounts*: logins | 4,422,013 | `GrantsInv`: a consent is worth one family, nothing outlives its reset, replay or expiry. `RevocationsSpareNewerGrants`: revoking a family again takes nothing that was granted since. `SessionsFollowTheAccount`: no session outlives a change of password, role or status. `EndedOrUsable`: a retired secret, a session logged out or past its cap stay dead; secrets that were shown open, sessions in use live. `AdministratorsRemain`: one first, a last. `LimitsHold`: guesses are spaced, idle sessions end, one verification at a time |
| `administration` (`MCAdmin`, `Admin.cfg`) | *boards*: two administrators, two boards, eleven operations. *site* (both adapters): four nodes, one card, three or four calls. *redelivered*, *at the limit*: Slack. *lossily*, *fickly*: notices | 2,101,458 | `BoardsInv`: one board remains visible, grants name what exists. `AuthorityIsCurrent`: a commit needs the rights of its moment. `SiteIsSound`: the tree stays whole, siblings differ, a card loses its place with its row only. `NothingTwice`: one ticket a request, one notice a change, within limits |
| `answered` (`MCAdmin`, `Admin_answered.cfg`) | *boards*, *site of two calls*, *one fails*, *calmly*, *logins* | 44,850 | `EverybodyIsAnswered`: whoever waits for the lock, for a row, for Slack, for a notice or in the chain of logins is answered |
| `reads` (`MCReads`) | *memo* (both adapters), *feed* (both; on Postgres events are committed in another order than stamped): two cards, three events, pages of one | 9,019,639 | `ReadYourWrites`, `MemoIsTheBoard`: the memo serves what was committed. `ReadsAreWhole`: one snapshot; pages in order and without gaps |
| `browser` (`MCBrowser`) | *drafts*, *banner*, *one composer*, *two composers*, *calm* and *fast* undo, *filter* and *whole* board, the *header*, *hasty* and *gone* forms | 633,682 | `QuietEditorsAreCurrent`, `ReasonsStay`: the settings forms. `NothingTypedIsLost`: texts are saved once, where they were typed, and not cleared before. `MovesAndUndoAgree`: a drop lands where it is shown, undo restores, an entry is undone once on its own board |
| `rebalance_undone` (`MCLaneOrder`) | *night* on Postgres | violated | see section 5 |
| `transactions_postgres` (`CardTransactions`) | two clients and the job on Postgres | violated | see section 5 |

### Why the bounds are enough

- *Cards.* A card's rules look at its row, its newest cancel and its newest arrival; six
  versions allow cancel, reopen, complete, reopen and one more edit in every order, which
  reaches each combination of an old cancel with a newer life. Two cards are needed only
  where cards meet: the columns and the reuse of numbers. On the enforced graph ten
  versions go round it twice.
- *Transactions.* Two clients and the job give every pair of writers; a third could do
  nothing new, and the proofs have no bound. Three cards in a column are the moving one
  and the two ends of a gap, or an end and a hidden row inside it.
- *Accounts, tokens.* Two accounts: the last administrator needs another one who takes
  the right away. Two requests: every race here is between two. A family of tokens has
  its code, two generations and a replay within five secrets.
- *Time.* Each clock runs past the longest delay the module looks at, so that a limit is
  met before, at and after its expiry: `Absolute + 1` in `SessionExpiry`, two windows in
  `SlackIntake`, a night more than are retained in `SnapshotRotation`.
- *Browser.* Two moves, or a move and a drop: a rollback to a snapshot taken before the
  other. Three actions and four presses on the undo stacks: fork, undo and redo of one
  entry with another below it.

All bounds are constants (`Max...`, `NBoards`, the sets of requests) and stand in guards.

### Fairness

`EveryCallSettles` assumes that each open transaction that can take a step eventually
does (`CardTransactions!Fairness`): the event loop resolves promises in order and a
statement of SQLite runs to its end. Nothing is asked of clients, the cron or crashes.
`FullStaysAreArchived` assumes that nights come and that a run works through its list,
which is what croner and a restarted process give. `CatchesUpAndEnds` assumes that a fetch
is answered, that EventSource tries again, that polls recur while the page is shown and
that a check of access returns; drops and failures are bounded and not fair.
`EverybodyIsAnswered` assumes that the holder of a lock goes on (its statements return)
and that Slack's and the database's answers come, positive or not; a request may fail once
and is still answered. No fairness is on a user's action anywhere. The other runs
check safety only, and stop where their bounds do (`CHECK_DEADLOCK FALSE`); the runs
`lifecycle_one`, `cards`, `lane` and `transactions_postgres` check deadlock as well.

### Mutants

Every property of a passing run is broken by a small change of a definition that stands
for code (an operator next to it, used nowhere else): a field left behind when
clearing, a check left out after a re-read, an event left out of a transaction, a queue
that does not serialize, a lock that reads the old row, a handle kept after its client.

## 4. What is proved

For every value of the constants: any number of cards, columns, clients, streams,
boards, administrators, and any bound. Eight modules hold the proofs; PROJECT.json lists 60 of
their theorems. What a theorem assumes of the constants is in its statement; where it
names one adapter, section 5 says what goes wrong on the other.

**`CardLifecycleProofs`.** `TypeCorrect`. `BoardCorrect`: `BoardInv` is inductive on any
board; it joins `ArchivedInDone`, `CardHasColumn`, `ReplayMatches` and `ReasonsResolve` with
the types and `ResolvedInDone`. None of them is preserved alone, since reopen computes a
column, a resolution and a reason from the trail; `ArchiveCorrect`, `ColumnsCorrect`,
`ReplayCorrect` and `ReasonsCorrect` are its parts. `DisciplineCorrect`: under `PlainEntry`
(no arrangement of the columns starts with done or waiting) `WaitingDiscipline` and
`TerminalDiscipline`. Neither is inductive: reopen takes the waiting fields from the cancel
event, so the invariant adds `CancelRecorded` (a recorded reason comes with its date, no
cancel starts in done). The assumption cannot be dropped, see disagreements 1 and 2.
`StagesImplemented`: under it `CardLifecycle` implements `CardStates`.
`ReopenCorrect` and `VersionsAndAlertsCorrect`, on the same boards: `ReopenRestores` and
`VersionsAndAlertsTell`. The first needs that while a card has the resolution of a cancel,
the newest event of that type and the work start are those of the row the cancel found
(`CancelKept`); every call on a card in done keeps them, and a move out of it ends the
resolution. The second follows from the discipline: a card outside the waiting column is
not alerted, so no call has a flag to clear there.
`CompletedCorrect`, on the same boards: a completed card had its work start stamped
(`CompletedWasWorked`). It assumes a set of columns behind in_progress (`BehindWork`): no
arrangement starts with one of them, ready is not one, and every graph a policy may allow
enters them, and done, from one of them or by in_progress, so it says nothing of a board
whose policy allows every move. The invariant is `WorkInv`, with `CancelKept` for the
reopen that puts a card back in such a column.
`FullStaysOnly` is the action property `AfterFullStay` of `ArchiveSweep`: what the nightly
job archives has been in done without a break for as long as it must, whatever happened
since the candidates were listed. `SweepIInv`: since a card came to done it was written, and
the arrival event the sweep reads is no older than the stay; a run keeps the cutoff of the
day it started. `FeedMissesNothing`, where no arrangement starts with done or waiting, is
`FeedIsComplete` of `FollowUp`: a stay begins with the newest arrival or later, and an alert
is up only past its date (`FeedIInv`). Both rest on one lemma about every call, `StayStep`:
it keeps a card in its column and the newest arrival with it, ends the stay, or begins one
today and says so in the trail.

**`CardTransactionsProofs`.** Of `CardTransactions`, for `Adapter = "sqlite"` (on Postgres the
statements are false). `TransactionsExclusive`: `LockInv`, i.e. exactly the owner of the connection is inside a
transaction, and from its read to its commit the row it read is the committed row.
`LockImplemented` and `NothingLost` follow: the refinement of `OptimisticLock`,
`NoLostUpdate`, and `VersionsNameEdits`. `TrailCorrect`: a call is applied at most once
whatever is retried or repeated after a lost answer, answers match the trail, an
episode is alerted once. It needs that the row is what the trail folds to and what an
open transaction holds of it (`TrailIInv`).

The same module proves what surrounds a transaction:

- `CardDiscard`. `TicketsHoldTogether`, on either adapter: no row outlives its card, the
  trail of every card begins with its creation, a relation is stored once each way, and on
  Postgres nothing that was meant for one card reaches another. `TicketInv` says of every
  unit what it has read and whether that still binds it (`UnitOK`), and that two units
  about to commit do not make the same row (`Apart`). `OneAtATime`, on SQLite: a symmetric
  relation is stored once, a discard succeeds, and takes drafts only; there what a unit found
  still holds when it commits (`AloneInv`).
- `AttachmentBlobs`. `ListedCanBeDownloaded`, for all constants: every listed file has
  its blob (`FilesIInv`). `CardsKeepTheCap` on SQLite (`CapInv`: an upload past its count
  still has room). `NothingIsLeftBehind` without faults (`TidyInv`: a blob has a row or a
  call that will add or delete it). `UploadsFitTheDisk` where no write fails half done and no
  discard doubles a removal: the total is what is on the disk and what is
  being written (`TallyInv`), and stays below the mark (`WaterInv`).
- `SnapshotRotation`. `SnapshotsAreWhole`: what has the name of a snapshot is complete,
  whatever crashes or fails; without an operator who deletes some, `RemovedAreSucceeded`: one
  is pruned only when as many newer ones as are retained are complete (`RotationInv`).
- `ServerProcess`. `RequestsAreAnsweredFirst`, for all constants: the database closes
  after the last request (`ClosingInv`). `RunsAreAwaited`, when Slack starts and no signal
  comes during the boot: after the last job too (`DrainInv`; disagreements 40 and 41).
- `UploadQuota`. `DailyQuotaHolds`, for any uploads at once and failing, none of which spans
  midnight (disagreement 12 otherwise): what is admitted in a day is within the quota,
  and the counter is what is reserved on the day it was last read (`QuotaIInv`).

**`LaneOrderProofs`**, for any cards, calls and keys and any `Between` and `Fresh` that meet
their assumptions. `DroppedCardsLand`, on either adapter: a drop commits in its gap, on Postgres before
the neighbour it named unless that one moved. `KeysKeptApart`: no key is twice
in the column on either adapter, and on SQLite no write ever meets a taken one, so the retry
is never reached. `OthersStayInOrder`, on SQLite: a commit leaves the other cards in order.
`LaneIInv` follows the open call through its list of updates: how many are written, and
that each that is left is lawful for the rows as they now are, which for the rebalance needs
that fresh keys ascend beyond the greatest. `OpenIInv`, on either adapter: no transaction
sees a key twice, and two that are open write different rows and keys. The module also
holds `PagesFollow`, about `ActivityFeed`: for any page size and any events, created between
the pages or discarded, no event comes twice or out of order, what was there from the start
and is still in the window is read by the last page, and on SQLite the history of a card has
whatever is older than its last event (on Postgres an event may be committed after the page
that passed its time). Time and id order the events totally, the cursor is the last row
read, and what it has passed has been read (`FeedIInv`). Its last part, `MovesLand`, is about
`BoardMoves`, a column as the list of its cards: each card is in one place of one column
(`OnePlaceOnServer`), and however old and filtered the board was, a move, an undo or a redo
that is accepted lands behind the one neighbour it named and before the other
(`LandsBetweenNeighbours`). Taking a card out and putting it in keep the order of the others
(`TakenFrom`, `InsertedAt`), so the place that the check looked at is still the one
between the two (`PlacesIInv`).

**`CredentialsProofs`**, five components:

- `TokenGrants` (`GrantsIInv`). `ConsentIsWorth`: `GrantsInv`, one grant per code, one
  usable refresh token in its family, none after a replay or a change of the account.
  `RepeatedRevocationsSpare`: revoking what is revoked touches no newer grant.
- `ServiceTokens` (`ServiceIInv`). `RetiredSecretsStayDead`, on either adapter;
  `ShownSecretsAreGood` on SQLite (disagreements 44 and 45).
- `Accounts` (`AccountsIInv`: what each call in flight has read of whom, and which of it the
  write will check again). `SessionsFollowPasswords`, on either adapter, also while a
  password is being hashed; on SQLite `SessionsFollowStatus` and `SetupIsFirst`, and without
  Slack `SessionsFollowRoles` and `AdministratorsStay` (disagreements 4 to 7).
- `SessionExpiry` (`ExpiryIInv`: no touch under way writes more than the time it was
  read). `SessionsEnd` and `IdleSessionsEnd`, on either adapter and in any order of the
  touches; `UsedSessionsStay` on SQLite when no touch is lost (`UseIInv`).
- `LoginThrottle`. `OnePasswordAtATime`, for any attempts, some of which break: the promises
  chained on an account are a queue (`ChainIInv`), each waits for the one before it, and only
  the first can be past waiting. `StalestIsDropped`: the map has one entry of an account, is
  in the order of the last failures and within its cap, and whom it has dropped failed no
  later than those it has (`EntriesIInv`; a failure takes the entry out and appends it).
  `GuessesAreSpaced`, the action property `SpacedGuesses`, assumes room in the map for every
  account (`Roomy`): its entry then counts all failures since the last success
  (`CountsIInv`). With more accounts than entries the property is false, which is what a cap
  means: a dropped account starts again without a delay.

**`BoardsProofs`.** `BoardsCorrect`: `BoardsInv`, the types with what each request has read
under the lock of the initial board's row: nobody writes what another read while
that one holds it. From it `LastBoardCorrect`, `GrantsCorrect`, `LandingCorrect`
and, as an action property, `AuthorityCorrect`: whoever commits holds the permission then.
The second part is about `Locations`. `TreeStaysWhole` and the action property
`PlacesClearTogether` hold on both adapters. On Postgres it is the locks that keep calls
apart, and the invariant (`TreeIInv`) says how: the ids that calls create are different and
no other call's; what a call has removed is nothing another one stands on (the key lock on
the row a new row or a card's place refers to); no two calls hold the same card. A row is
removed together with everything that hung on it, because a removal starts from the leaves
and a row whose children come in meanwhile fails. `SiblingsAndRemovals` is about SQLite,
where one unit of work runs at a time (disagreements 31 and 32 otherwise): what a call
has read is still so when it writes, a subtree is at most as deep as the kinds are, and the
levels a removal walks are the tree below its node (`SoleIInv`). The theorems assume a sound
tree to begin with (`TreeConstants`), and for the last one no siblings of one name in it.
The third part is about `Notifications`: `NoticesCorrect` (types, `ToldOnce`,
`NoStrayNotice`), with losses, closed boards and discarded cards. Its invariant
(`TellIInv`): while the hint of a change is on the way nobody but the mentioned has a notice
of that change, no change has two hints, and every notice has its event in the table.
`HiddenNoticesStay` is the action property `KeepsTheHidden`.
The fourth part is about `SlackIntake`, for any numbers of requests, repetitions and failures,
while the process runs (a restart forgets the ids and the times: disagreement 21 for the
first). `MentionsCountOnce`: `OnceEach`, a mention makes one ticket. The guard's list is the
end of the requests in the order of their last deliveries, and what Slack still delivers
again is in it (`OnceIInv`). `LimitsAreKept`: `WithinLimits`, for any limits and spans. The
times a limiter keeps are the newest of those it gave slots at, what it dropped had expired,
so a slot is a span later than the one as many slots before it as there are (`MetersIInv`).

**`BoardMemoProofs`.** When every kind of change moves the memo's key (`Kinds = {"card"}`;
disagreements 24 and 25 otherwise) `MemoCorrect`: memo, computations and answers are
bounded by what was committed when their version was current. `WritesAreRead`,
`MemoIsCurrent`, and for SQLite `SnapshotCorrect` follow. `BoardFollowsServer` is about
`LiveBoard`, the board in a browser that was connected before it fetched and from which
nothing is discarded (disagreements 13 and 15 otherwise): after any moves, changes and broken
connections it shows what the server has as soon as nothing is on the way. What the cached
board lacks is on the wire, invalid, being fetched, or a move is under way whose end fetches
anyway; what it has too much is being fetched over, or such a move is under way (`LiveIInv`).
`OwnChangesAreShown` is about `InboxView`, the bell of a user who does one thing after the
other (disagreement 46 otherwise): a list that is not shown is not being fetched, and a change
is under way only when what is shown has had an answer, so that the fetch its end causes
replaces an older one (`BellIInv`). The two are the conjuncts of `ShownIsTheServers`.
Another part is about `UndoStack`. `EntriesInOnePlace` holds however presses, actions and
switches of boards overlap: the actions are told apart by their numbers, and each recorded
one is in one place of one stack or in one request under way (`UndoIInv`: a press pops what
it sends, and the answer puts it on one side). `HistoryIsLinear` is about a tab that does one
thing at a time (disagreements 16 to 18 otherwise): both stacks
are in the order of the actions, the undone newer than the rest, and nothing is recorded
late (`CalmIInv`).
The last part is about what is typed, the conjuncts of `NothingTypedIsLost`. The banner of a
waiting card: `EditsAreKept` (`ShowsTheServer`, `EditsSurvive`) for any cards the panel goes
through, since a field counts as typed exactly as long as it differs from the server's value
in the browser (`BannerIInv`); `SavesAreTyped` (`SavesWhatWasTyped`) for a panel of one card,
where a save that is still accepted was made from the row it changes (`SaveIInv`). The
composers of comments: `DraftsAreKept` (`ClearedWasPosted`), if a text is not edited while it
is posted; `CommentedOnce` (`PostedOnce`, `SpinsUntilSettled`) where the thread has one. The
form of a new card: `NothingHalfApplied` (`NewCardTypeOK`, `NeverHalfApplied`) for any buttons,
users in a hurry and switches of boards; its invariant (`FormIInv`) says that the forms in
modals, posts and loops are told apart, so that no second Create changes what is under way;
`EverythingIsSettled` (`StagedIsSettled`) where the button stays, and `FormsStayOpen`
(`OnlyItsOwnModalCloses`) where, besides, the user waits. The hypotheses are those of the
runs; without them there are disagreements 28 to 30, 42 and 43.

**`PolicyDrafts`** (with its proofs). `ReasonsAreKept`; and when no stream is lost `EditorsAreCurrent`,
by an invariant that says of a form on an old document that a fetch or a hint is under way.

**`StreamAccess`** (with its proofs). `NoHandleOutlivesItsClient`, `HintsReachOnlyReaders` and
`HandlesAreCounted` (`StreamsAreCounted`), by `HandleInv` (a registered handle is that of an
open stream whose client is there or whose end has been noticed), `SendsInv` (a send under
way carries the result of its check) and `CountInv` (the list names each open handle
once, so that what is pushed out, reaped or closed leaves list and gauge together).

The shape is always the same: a lemma per action that it keeps the invariant, written
over the common step where there is one (`Commit` in `CardLifecycle`: `Lawful` and
`Disciplined` say what a written row and its event must satisfy), a case split over
`Next`, one temporal step.

A run checks several parts of a system side by side, and where it has one property for them,
its conjuncts, the types aside, have theorems of their own:

| Property of a run | Conjuncts proved, by the theorem |
| --- | --- |
| `ShownIsTheServers` | all: `BoardFollowsServer`, `OwnChangesAreShown` |
| `ProcessIsSound` | all: `HandlesAreCounted`, `RequestsAreAnsweredFirst`, `RunsAreAwaited`, `SnapshotsAreWhole`, `RemovedAreSucceeded` |
| `CardsKeepTheRules` | all: `FeedMissesNothing`, `BoardCorrect`, `DisciplineCorrect`, `CompletedCorrect` |
| `FilesInv` | all: `ListedCanBeDownloaded`, `CardsKeepTheCap`, `NothingIsLeftBehind`, `UploadsFitTheDisk`, `DailyQuotaHolds` |
| `NumbersHold` | all: `TicketsHoldTogether`, `OneAtATime` |
| `PairIsSound` | all: `KeysKeptApart`, `DroppedCardsLand` |
| `SessionsFollowTheAccount` | all: `SessionsFollowPasswords`, `SessionsFollowStatus`, `SessionsFollowRoles` |
| `EndedOrUsable` | all: `RetiredSecretsStayDead`, `ShownSecretsAreGood`, `SessionsEnd`, `UsedSessionsStay` |
| `AdministratorsRemain` | all: `SetupIsFirst`, `AdministratorsStay` |
| `LimitsHold` | all: `GuessesAreSpaced`, `OnePasswordAtATime`, `StalestIsDropped`, `IdleSessionsEnd` |
| `SiteIsSound` | all: `TreeStaysWhole`, `PlacesClearTogether`, `SiblingsAndRemovals` |
| `NothingTwice` | all: `MentionsCountOnce`, `LimitsAreKept`, `NoticesCorrect`, `HiddenNoticesStay` |
| `ReadsAreWhole` | all: `SnapshotCorrect`, `PagesFollow` |
| `NothingTypedIsLost` | all: the seven about what is typed |
| `MovesAndUndoAgree` | `EntriesInOnePlace`, `HistoryIsLinear`, `MovesLand`; not what the browser shows of a move |
| `FullStaysAreArchived` | `FullStaysOnly`: never before a full stay; that it comes is liveness |

Only model-checked: what the browser shows of a move before the server has answered
(the rest of `BoardMoves`: the filtered snapshot is a fold over the column); and all liveness
(`CatchesUpAndEnds`, `FullStaysAreArchived`, `EveryCallSettles`, `EverybodyIsAnswered`). Out of the prover's reach: liveness,
ENABLED, and what a recursive definition computes for every input, since the library's
induction theorems take an operator as parameter. Induction over a finite set is within
reach where a minimal element will do: `LaneOrderProofs!SubsetInduction` gets it from
well-foundedness.

## 5. Findings

Two runs expect a violation.

1. `transactions_postgres` (`NoLostUpdate`): on Postgres, the production database of
   ADR-020, two edits of one version both commit and the first is lost. The version is
   compared in memory after an unlocked SELECT, the UPDATE is conditional on the id alone
   (`db/src/pg/repositories/card-repository.ts:86-97`), against ADR-012's promise of a
   409. The comment of `db/src/pg/unit-of-work.ts` takes transactions for isolation.
2. `rebalance_undone` (`OnlyTheMovedCardMoves`): the rebalance writes `{ ...card, position }`,
   the whole row as it listed it. On Postgres a move out of the column, or an archival,
   that commits after the listing is undone with its event in the trail and no version to
   tell (`server/src/jobs/position-rebalance.ts:39-47`), against "rebalancing is not a
   user-visible reorder" (`:9`).

### Further disagreements between code and documents

Each is a property of a module that fails for the constants named; the passing runs
use the constants under which it holds, or check the weaker statement that does.

1. `CardLifecycle.WaitingDiscipline`, an arrangement that starts with `waiting_parts_vendor`: a created card is in the waiting column with no reason and no date (`core/src/services/card-service.ts:152`; `docs/product/workflow.md:81`).
2. `CardLifecycle.TerminalDiscipline`, an arrangement that starts with `done`: a created card is in done without a resolution (`core/src/services/card-service.ts:168`; `docs/product/workflow.md:47`).
3. `LaneOrder.RebalanceNeverCollides`, `Adapter = "postgres"`: a card appended after the greatest key was read gets the first of the fresh keys (`server/src/jobs/position-rebalance.ts:43`; `position-rebalance.ts:13-17`).
4. `Accounts.AdminRemains`, `Slack = TRUE`: binding a Slack identity writes back a whole row that was read in an earlier unit of work: a demotion, deactivation or reset is undone (`server/src/slack/identity.ts:55`; `user-admin-service.ts:25-26`).
5. `Accounts.OneFirstAdmin`, `Postgres = TRUE`: two setups both count zero users and both insert an administrator (`server/src/auth/setup-service.ts:81`; `setup-service.ts:19-20`).
6. `Accounts.AdminRemains`, `Postgres = TRUE`: two administrators demote each other: each transaction still finds the other one (`server/src/users/user-admin-service.ts:166`; `user-admin-service.ts:137-139`).
7. `Accounts.ProfileSaveIsOnlyPreferences`, `Postgres = TRUE`: saving one's profile writes all columns of a row read without a lock: role, status and password go back (`server/src/auth/auth-service.ts:287`; `auth-service.ts:276-279`).
8. `Accounts.NobodyOrphaned`, two policies: an account is activated whose role was removed while it was inactive (`server/src/users/user-admin-service.ts:181`; `policy-service.ts:40-42`).
9. `AttachmentBlobs.TotalCountsDisk`, `FirstColumn = TRUE, Faults = {}`: a removal and a discard of the card delete one blob, and its size is taken off the total twice; with four blobs `DiskWithinHighWater` fails as well (`server/src/adapters/blob/local-blob-store.ts:94`; `local-blob-store.ts:18`).
10. `AttachmentBlobs.DiskWithinHighWater`, `Faults = {"partialWrite"}`: what a failed write leaves on the disk is neither counted nor deleted (`server/src/adapters/blob/local-blob-store.ts:65`; `server/src/routes/attachment-routes.ts:86`).
11. `AttachmentBlobs.ActiveWithinCap`, `Postgres = TRUE`: two uploads count nine files each and both insert (`core/src/services/attachment-service.ts:72`; `docs/architecture/security.md:160`).
12. `UploadQuota.DailyLimit`, `SpansMidnight = TRUE`: what was reserved before midnight and fails after it is refunded to the new day (`server/src/uploads/upload-quota.ts:46`; `docs/architecture/security.md:162`).
13. `LiveBoard.BoardCatchesUp`, `StartsConnected = FALSE`: a change after the first fetch was read and before the stream is registered is hinted to nobody (`web/src/api/sse.ts:161`; `docs/architecture/decisions/ADR-008-sse-realtime.md:7`).
14. `LiveBoard.CardCatchesUp`, `MaxDrops = 1`: after a reconnect only the board is fetched again, the open card is not (`web/src/api/sse.ts:163`; `docs/architecture/decisions/ADR-008-sse-realtime.md:24`).
15. `LiveBoard.BoardCatchesUp`, `Discards = {d1}`: a discard publishes no hint, so other browsers keep the card (`core/src/services/card-service.ts:703`; `docs/architecture/decisions/ADR-008-sse-realtime.md:7`).
16. `UndoStack.NoRedoAcrossFork`, `Overlapping = TRUE`: an undo answered after a new action was recorded puts its entry on the redo stack (`web/src/undo/action-history.ts:52`; `web/src/undo/action-history.ts:28-29`).
17. `UndoStack.EveryActionRecorded`, `Overlapping = TRUE`: of two moves sent before either is answered the first is not recorded (`web/src/undo/use-undoable-board.ts:119`; `web/src/undo/use-undoable-board.ts:39-40`).
18. `UndoStack.OnlyThisBoard`, `Overlapping = TRUE, MaxSwitches = 1`: an undo under way across a switch of boards leaves its entry on the other board's stack (`web/src/undo/action-history.ts:52`; `docs/architecture/frontend.md:31-32`).
19. `UndoStack.ArchiveCanBeUndone`, `Kinds = {"archive"}`: the undo of an archival looks for the card on the board it has left, fails, and blocks the entries below (`web/src/undo/use-undoable-board.ts:98`; `web/src/undo/use-undoable-board.ts:139`).
20. `BoardMoves.BreachShown`, `Filtered = {c2}`: after a move on a filtered board the WIP marker counts the cards that are shown (`web/src/api/board-cache.ts:51`; `docs/architecture/board-filters.md:154-156`).
21. `SlackIntake.OnceEach`, `MaxCrashes = 1`: the ids of deliveries do not survive a restart, a redelivery then makes a second ticket (`server/src/slack/guards.ts:65`; `docs/architecture/slack.md:54-55`).
22. `SlackIntake.SubmittedOnce`, `MaxFailures = 1`: a submission that is acknowledged late can be sent again, and both make a ticket (`server/src/slack/submission-listener.ts:98`; `docs/architecture/slack.md:54-56`).
23. `SlackIntake.HonestFailure`, `MaxFailures = 1`: when only the link cannot be posted, the user is told that there is no ticket (`server/src/slack/mention-listener.ts:70`; `server/src/slack/messages.ts:19`).
24. `BoardMemo.MemoIsTheBoard`, `Kinds = {"extra"}`: attachments and locations are part of the memoized body and do not move its version (`core/src/domain/sse.ts:45`; `docs/architecture/rest-api.md:103`).
25. `BoardMemo.MemoIsTheBoard`, `Kinds = {"discard"}`: a discard does not move the version: the client that discarded a card fetches a body that has it (`core/src/services/card-service.ts:698`; `core/src/services/card-service.ts:704`).
26. `BoardMemo.OneSnapshot`, `Postgres = TRUE`: the board is read statement by statement at READ COMMITTED: a card that moves is in two columns or none (`db/src/pg/unit-of-work.ts:26`; `db/src/pg/unit-of-work.ts:25`).
27. `Boards.PolicyStaysEditable`, a policy in which no role grants `managePolicy`: such a policy is accepted, and nobody can apply another (`core/src/services/policy-service.ts:58`; `core/src/services/policy-service.ts:44`).
28. `WaitingBanner.SavesWhatWasTyped`, two cards: the banner keeps its draft on the way to another waiting card and saves it there (`web/src/card/CardPanel.tsx:508`; `web/src/card/CardBody.tsx:69`).
29. `CommentComposer.SpinsUntilSettled`, two composers: `pending` is that of the newest post, so the older composer is released and can post twice (`web/src/card/CommentsThread.tsx:496`; `web/src/card/CommentsThread.tsx:488`).
30. `CommentComposer.ClearedWasPosted`, `EditsInFlight = TRUE`: what is typed while a post is under way is cleared by its success (`web/src/card/CommentsThread.tsx:528`; `web/src/card/CommentsThread.tsx:526`).
31. `Locations.SiblingNamesDiffer`, `Postgres = TRUE`: two creates read the tree before either commits and share a name (`server/src/locations/location-admin-service.ts:143`; `server/src/locations/location-admin-service.ts:131`).
32. `Locations.MissingIsTheOnlyFailure`, `Postgres = TRUE`: a child or a card added under a collected subtree makes the delete fail on a foreign key (`db/src/pg/repositories/location-repository.ts:112`; `server/src/locations/location-admin-service.ts:114`).
33. `FollowUp.ReportedReviewsAreOld`, `MaxVersion = 5`: a card that is reopened into review is reported on the day it arrives (`core/src/services/board-query-service.ts:580`; `core/src/services/board-query-service.ts:573`).
34. `CardDiscard.MeantForThisCard`, `Postgres = FALSE`: the next card gets the number of the discarded one, and what was sent to that one (`db/src/repositories/card-repository.ts:65`; `core/src/ports/repositories.ts:106`).
35. `CardDiscard.DiscardsDrafts`, `Postgres = TRUE`: a card moved after the discard read it is discarded with its move (`core/src/services/card-service.ts:689`; `core/src/services/card-service.ts:668`).
36. `CardDiscard.DiscardsSucceed`, `Postgres = TRUE`: a comment committed after its table was cleared makes the discard fail on a foreign key (`db/src/pg/repositories/card-repository.ts:341`; `docs/architecture/rest-api.md:108`).
37. `CardDiscard.RelatedOnce`, `Postgres = TRUE`: two creates of one symmetric relation, one each way, are both stored (`core/src/services/relation-service.ts:72`; `core/src/services/relation-service.ts:56`).
38. `PolicyDrafts.QuietEditorsAreCurrent`, `Drops = TRUE`: the hint of a policy is lost with its stream, and a form saves an old document over a newer one (`web/src/api/sse.ts:163`; `web/src/settings/SettingsPage.tsx:125`).
39. `StreamAccess.NoStreamAfterStop`, `Stops = TRUE`: a request that awaits its check while the server closes registers a stream nobody ends (`server/src/routes/stream-routes.ts:56`; `server/src/routes/stream-routes.ts:17`).
40. `ServerProcess.RunsEndFirst`, `SlackFails = TRUE`: when Slack does not start the database is closed under a job that runs (`server/src/main.ts:112`; `server/src/wiring/jobs.ts:26`).
41. `ServerProcess.RunsEndFirst`, `EarlySignals = TRUE`: a signal during the boot drains no jobs, and those scheduled afterwards run into the close (`server/src/main.ts:37`; `server/src/wiring/jobs.ts:63`).
42. `NewCard.StagedIsSettled`, `Buttons = {header, cta}`: the button of an empty board goes before the answer, and what was staged is never applied (`web/src/shell/NewCardButton.tsx:37`; `docs/architecture/frontend.md:219`).
43. `NewCard.OnlyItsOwnModalCloses`, `Patient = FALSE`: the end of one creation closes the form of the next (`web/src/shell/NewCardButton.tsx:61`; `docs/architecture/frontend.md:227`).
44. `ServiceTokens.LiveTokensHaveRoles`, `Postgres = TRUE`: a token is created while a policy without its role is saved (`server/src/tokens/service-token-service.ts:71`; `server/src/tokens/service-token-service.ts:51`).
45. `ServiceTokens.ShownSecretsOpen`, `Postgres = TRUE`: a rotation that read the row before a revocation shows a secret that opens nothing (`db/src/pg/repositories/service-token-repository.ts:82`; `server/src/tokens/service-token-service.ts:83`).
46. `InboxView.OwnChangesShow`, `Hasty = TRUE`: an invalidation joins the first fetch, whose answer was read before the user's change (`web/src/api/notifications.ts:51`; `web/src/api/notifications.ts:50`).

## 6. Not modelled

- Formatting, wording, rendering, logging, metrics; validation of single fields;
  redirect and audience matching, MIME sniffing, the password policy (pure predicates).
- Reads of one statement: filters, search, dashboards, exports, the stale-blocked leg of
  the follow-up feed. REST and MCP adapters parse, call a service and serialize.
- Schema, migrations and seed: declarations. Their tables are the initial states of the
  modules, their constraints the guards.
- Labels and WIP limits of columns, which show and warn; saved filter presets; OAuth
  client registration (an insert); `lastUsedAt` of tokens.
- The read connection of SQLite and its reentrancy guard; the text of Slack drafts and
  the outbound notifier.
- The details form of a card, whose state is a form library's; the other settings pages.
- A list of ten thousand common passwords, the strings of the web client, the tool
  descriptions of MCP, demo data and wiring hold no behaviour; with the views they are
  most of the lines no definition stands for.
