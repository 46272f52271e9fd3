# Cubix in TLA+

Cubix is a practice app for speedcubing. Its data lives on the device first and
is synchronised with a server written in Go; the same server pairs players for
duels, runs tournaments and coaching, and keeps statistics. This directory holds
TLA+ modules of the parts of it where order, concurrency and failures matter, the
TLC configurations that check them, and proofs of what matters most in them.

Paths below are relative to the repository's root.

## 1. The system

| Component | Source | State it keeps | Operations |
|---|---|---|---|
| Change feed | `go-api/sync.go` | `sync_changes`: for each row of the practice tables its only, latest change, numbered by one sequence shared by all accounts; `sync_receipts`: the answers to operations already applied | triggers on every insert, update, deletion; `syncPull` (a page of at most 500 changes); `syncPush` (a batch in one transaction); `syncMigrate`, `syncPrune`, `syncCompact` |
| Practice routes | `go-api/api.go` | sessions, solves, cases, training: rows of SQLite | creation, edition, deletion, `GET sync`, `POST sync` |
| Live socket | `go-api/live.go` | the hub: account to sockets, each with a slot (pending, wake-up, cursor); each socket: account, delivered cursor, allowances | `auth`, `notifySync`, `stream`, `onSync`, `leave`, hand-over of duel, match and coaching messages |
| Local-first client | `src/client/local/client.ts` | the workspace: rows, outbox, cursor; its storage, cached parse, journal | one handler per user action; `synchronize`, `merge`, `receiveLive`, `reconnected`, `data`, `save` |
| Transport | `src/client/api-client.ts`, `src/client/live.ts` | pending requests, the current socket, its account | HTTP requests, sync over the socket, open, close, retry |
| Web engine | `desktop/engine/core.ts`, `desktop/renderer/{worker,bridge,idbStorage}.ts` | one engine for all the tabs, a lock, a memory written through to IndexedDB | requests, events, hand-over to a newer version |
| Duel arena | `go-api/duel.go` | queue, races, seats, watchers | queue, leave, tick, scrambles, solve, penalty, cancel, rematch |
| Duel client | `src/client/lib/duel.ts` | a mirror of one race, the level read, the battle recorded | search, leave, next, solve, penalty, cancel, rematch; queued, match, state received |
| Tournaments | `go-api/tournament.go` | tournaments, their players, the bracket's matches | register, start, withdraw, award, cancel, `tournamentAdvance` after each match, the ticker's pass |
| Matches | `go-api/tournament.go`, `src/client/lib/match.ts` | a match's row and solves; the rooms of those who have it open; the client's copy, the scrambles it draws | join, leave, scramble, solve, penalty, cancel, forfeit; the states told |
| Practice page | `desktop/renderer/{store.ts,practice.tsx,launchSessions.ts}` | the timer's context, its scramble and the next ones drawn ahead, the attempt to save, the figures shown | save, retry, skip, move, refresh; the engine's answers |
| Coaching | `go-api/coaching.go`, `src/client/lib/coaching.ts` | coaches, availability, bookings, rooms and calls | book, cancel, review, join, leave, signal |
| Social, daily | `go-api/social.go`, `go-api/daily.go` | friendships, groups, messages; daily attempts | requests, roles, posts; one ranked attempt a day |
| Practice timer | `src/client/lib/practiceTimer.ts` | phase, hold, inspection, splits, two timeouts | press, release, expiry, cancel |
| Scramble pool | `src/client/lib/scramblePool.ts` | lists by event, the filling under way | take, ask first, fill |
| Statistics | `go-api/stats.go`, `src/client/local/stats.ts`, `src/client/lib/format.ts` | none | averages, means, records |

The rest (catalogs, cube solvers, decoders of smart cubes, rendering,
administration, sign-in, backups) is listed in `PROJECT.json`, each with the reason
it is left out.

How they interact:

- A user's action changes the **workspace** and appends an operation to its
  **outbox**, in one write of the device's storage. Some changes are kept as a
  journal entry instead of the whole workspace.
- `synchronize` uploads the outbox in batches, over the live socket when it is
  ready and over HTTP otherwise, then pulls pages of the **change feed** until it
  has read them all. Each operation carries an id of its own; the server keeps the
  answer it gave under that id (a **receipt**), so a retry changes nothing.
- Every committed write tells the **hub**, which marks and wakes the account's
  sockets; each socket's loop reads a page past what it delivered and streams it.
  The client merges a streamed page when it continues what it has, and pulls
  otherwise.
- On the web, the local-first client runs in a shared worker, one **engine** for all
  the tabs, which send it numbered requests. The engine of another version takes its
  lock and its place.
- The **practice page** ends attempts with its timer, and asks the engine to keep
  them, to draw scrambles and to read the figures again.
- A **match** is raced over the live socket, like a duel, but lives in the database; its
  end advances the **tournament** it belongs to, statement by statement.
- A **duel** is played over the same socket: the arena is a single object under a
  mutex, the client sends its moves and mirrors the state the arena broadcasts.
  Once a game is over, the device keeps a battle and the server records the game.

### What is hard here

| Behaviour | Where it bites | What makes the component correct |
|---|---|---|
| A page is read by two statements while others write | `syncPull` | a device that has read everything holds exactly the account's rows |
| Pages pulled and pages streamed come interleaved, late, or not at all | `merge`, `receiveLive` | a stale row is always still ahead of the device's cursor |
| An answer is lost and the operation sent again, alone or in another batch | `syncPush`, `synchronize` | a solve is created once, and its operations are applied in order |
| Operations are made while the request that carries others is awaited | `synchronize` | the acknowledgement takes those operations and no other |
| A wake-up comes while the loop is reading or sending | `notifySync`, `stream` | no announced change is forgotten |
| The process stops between two writes of the storage, or a write throws | `save`, `journal` | a change is kept whole, once, and what was said saved is saved |
| Messages cross: a move and the state that makes it late | `play`, `duel.ts` | rounds stay in order, and each device ends showing what the arena has |
| A socket is lost while its account is back on another | `pair`, `leave` | nobody is in two places or races itself |
| A new engine takes the lock while the old one has requests and writes under way | `worker.ts`, `idbStorage.ts` | one engine writes; what was answered is kept; every request ends; no tab stays behind |
| Timeouts race inputs, and inputs are dispatched late | `practiceTimer.ts` | a solve starts by a full hold, with the penalty of its inspection |
| An attempt ends, the context moves, scrambles and figures are found later | `store.ts` | an attempt is kept once, on its scramble; the figures shown are the engine's |
| A handler of several statements stops between two of them | `tournamentAdvance` | rounds stay in order; results stay |
| Each player's app draws the next scramble when it thinks it should | `match.ts` | one scramble for each solve, the same for both |
| Work must go on after a failure | `synchronize`, `reconnected`, `stream` | the outbox drains, the pull ends, the device catches up |

`PROJECT.json` ("hazards") has each one at its line, with the properties that
would catch it, or why none does yet.

## 2. The modules

| Module | Models | Role |
|---|---|---|
| `ChangeFeed` | `sync.go` (triggers, `syncPull`), `client.ts` (`merge`, the pull loop, `receiveLive`), `live.go` (`stream`) | how pages are cut, read, carried and merged |
| `LiveStream` | `live.go` (`hub`, `auth`, `notifySync`, `stream`, `onSync`), the device's side of it | how sockets learn that something changed |
| `LiveStream_proofs` | | its theorems |
| `PracticeSync` | `client.ts` (solves, outbox, `synchronize`), `sync.go` (`syncPush`, receipts), `api.go` (solves) | the life of a solve, from the device to the account and back |
| `PracticeSync_proofs` | | its theorems |
| `WorkspaceJournal` | `client.ts` (`data`, `save`, `journal`), `idbStorage.ts` | how a workspace is kept on a device's storage |
| `KeptWorkspace` | | the abstract promise `WorkspaceJournal` implements |
| `Workspace_proofs` | | the theorems of `ChangeFeed` and `WorkspaceJournal` |
| `Duel` | `duel.go`, `duel.ts`, `live.ts` | the arena and the clients that mirror it |
| `Duel_proofs` | | its theorems |
| `EngineHost` | `worker.ts`, `bridge.ts`, `idbStorage.ts`, the queue of `core.ts` | the web's engine, its tabs, and the engine that replaces it |
| `EngineHost_proofs` | | its theorems |
| `PracticeTimer` | `practiceTimer.ts` | the timer, as operators on its snapshot |
| `PracticePage` | `store.ts`, `practice.tsx`, `launchSessions.ts` | the timer's page, which owns a timer and asks the engine |
| `PracticePage_proofs` | | its theorems |
| `Tournament` | `tournament.go` (the bracket), `db.go` (how handlers are cut) | a tournament from its registrations to its champion |
| `Tournament_proofs` | | its theorems |
| `Match` | `tournament.go` (rooms, moves, score), `match.ts`, `live.ts` | a match, between the server and two apps |
| `Match_proofs` | | its theorems |
| `MC...` | | the constants TLC needs |

`ChangeFeed`, `LiveStream` and `PracticeSync` cut one subsystem along three
questions, so that each stays small enough to be checked in full:

- `ChangeFeed` has rows and contents, and lets anything be read, streamed,
  dropped or abandoned at any moment. It asks whether what arrives is right.
- `LiveStream` reduces the feed to its last number and keeps every step of the
  hub and of the loop. It asks whether something arrives.
- `PracticeSync` reads a page whole and keeps the outbox, the receipts and both
  transports. It asks whether what the device made gets there and back.

### ChangeFeed

One account; `Entity` is the set of its rows. A write (`Insert`, `Update`,
`Delete`) commits and its trigger gives the row the next number; writes of other
accounts only consume numbers (`OtherAccountWrites`). A page is read in two steps,
`PullRows` (the query of `sync_changes`) and `PullValues` (the queries of the rows
it names), because `syncPull` runs them as separate statements with no transaction
around them; `StreamRows` and `StreamValues` are the same for the socket.
`TakePage` is one turn of the client's pull loop, with the batches of `MergeSize`
changes it merges at once; `AbandonPull` is any way the loop ends early;
`ReceiveChanges` is `receiveLive`. `Upgrade` is an app that starts to read kinds it
used to ignore and goes back to the feed's beginning, once.

### LiveStream

`Commit` and `NotifySync` are the two halves of a write: the commit, and the
announcement that follows it. A socket signs in with `AuthReads` (the cursor is
read) and `HubAdd` (registered, and "ready" sent). Its loop is a program counter
over the code's steps: `Wake`, `SwapPending`, `ReadPage`, `SendPage`, and
`ServePull` for a sync the device asks over the socket. The device is
`ReceiveReady`, `TakePull`, `ReceiveChanges`. `Leave` loses the socket at any point.
`Race` says whether a write may commit between `AuthReads` and `HubAdd`.

### PracticeSync

`AddSolve`, `EditSolve` and `DeleteSolve` are the user's handlers, with the
coalescing of queued edits and the withdrawal of a solve never uploaded. The
synchronization is `StartSync`, `Push`, `AckPush` (or `PushRefused`, `ServerBusy`),
`AskPull`, `TakePull`; the server is `ServePush` (a batch in one transaction,
receipts first), `ServePull`, `Stream`. A request can be lost (`RequestLost`), or
given up and served later (`ServeLate`); a socket can be lost (`Disconnect`), and the
app stopped and restarted from its storage (`Crash`). A failed synchronization
leaves its outbox for the next one, and `Reconnected` is the one that a socket
coming back asks for. Other devices of the account are the changes they make. A page
of changes waits for one synchronization only (`client.ts:502`): when `reconnected`
begins another in the meantime the page is `due`, and is merged during that one
(`ReceiveChanges`, with `Overlap`).

Constants separate what the code handles from what it does not:

- `Overlap`: whether the live socket may become ready in the middle of a
  synchronization that began over HTTP;
- `Busy`: whether the server answers 429 or 5xx;
- `Refusals`: the sets of operations it may answer with a 4xx; one of them, `refused`,
  is chosen at the start;
- `Coalesce`: whether edits replace each other in the outbox (a note) or not (a
  penalty).

### WorkspaceJournal and KeptWorkspace

A workspace is the sequence of changes made to it. A handler runs at once
(`EditEntry` by the journal, `EditWhole` by the whole workspace, `EditUnread`,
`EditFails`, `EditUnrevised` for the ways a write throws, `ReadWhole`, `ReadJournal`,
`ReadUnrevised` for `data`); its writes reach the disk one by one, `Flush`, unless
the disk gives one up, `Abort`. `Crash` loses the memory and the writes on their way.
`Platform` is the set of storages: mobile's, synchronous, where each call may throw;
one that two clients share; and the web's, a memory written through later.

`KeptWorkspace` says what storage promises: the disk's log only ever grows by
one new change at its end. `WorkspaceJournal` implements it under
`kept <- Log(disk)`, where `Log` is what a restart would read: the workspace and the
journal's entries that carry its mark.

### Duel

The arena's handlers run under its mutex, so each is one action, except a search
which leaves and joins under two locks (`Queue`, `Join`). `Tick` pairs those whose
range has widened. `PlayScrambles`, `PlaySolve`, `PlayPenalty`, `PlayCancel` and
`PlayRematch` are the messages of a race, ignored when they are wrong or late, as
`play` does. Each device has one socket at a time and a client that sends (`Search`,
`Quit`, `Another`, `Solve`, `Penalise`, `Cancel`, `AskRematch`), receives
(`ReceiveMatch`, `ReceiveState`, `ReceiveQueued`, `ReceiveLate`) and awaits
(`LevelRead`, `Draw`, `DrawFails`). `Lose` and `Reconnect` are its socket; the server
hears of a lost one only when its "closed" comes after all it had sent.

### EngineHost

A document (`Doc`) is a tab from one load to the next; a `Worker` is the shared worker
of one version. `Start` is `start()`, begun by the first document and joined by the
others; `Steal`, `OpenStorage`, `CreateEngine` are its awaits, `StartFails` the one that
throws, and `Retire` the task that tells a worker its lock was stolen. `Request` numbers
a document's request, queues a change and handles a search at once; `Run` handles a
change (the workspace in memory, then the device unless `Frozen`), `Answer` and
`AnswerSearch` route the answer to who asked, under the number it gave, and tell the
others of a change. The document's side is `Load`, `Ask`, `Receive...`, `Close`. A worker
that lost the lock and was not told is in `broken`; `Prompt` says whether it is told
before the next one reads the storage.

Two things the model shows of the code: a second `start` of a worker whose `openStorage`
failed takes the lock from itself, and so retires its own worker (`worker.ts:50`, `:89`):
its tabs are told "replaced" and reload; and a worker told it was replaced before it was
ready answers every request with an error, as it should.

### PracticeTimer and PracticePage

`PracticeTimer` has no variable: each input and each timeout is an operator on a timer's
record (`Press`, `Release`, `HoldElapses`, `Expire`...). `PracticePage` holds one, gives
it its inputs when they are *dispatched*, which may be after they were made
(`Dispatch(kind, at)`), and keeps the attempts it ends: `Save`, `SavePending`,
`SessionCreated`, `SolveAdded`, `Retry`. `NextScramble`, `DrawAhead` and `SyncScramble`
choose what is shown, `Found` and `NotFound` answer; `Refresh`, `SnapshotRead` and `NextLoad` read
one snapshot at a time. The engine answers its requests in order, and searches of
scrambles when it likes, as `core.ts` does. Each answer may fail.

A context is a puzzle, a solve mode and a type of scramble. `Puzzle` gives the puzzle of
each, `Events` says which are drawn ahead whatever is shown (`Drawn` is `drawAllAhead`), and
`Opening` is what was kept when the app was last closed. `Move` goes by the address
(`applyRoute`). Within a puzzle the scramble shown is looked at as it was left; to
another puzzle, `loadContext` has shown the one kept there before `syncScramble` looks
(`Entering`), and `syncScramble` then does nothing.

Five behaviours of the page are in the model as they are in the code, and the
properties say where they end:

- whatever fails, `fail()` clears `saving` and `generating` (`store.ts:457`): an attempt
  may then end while another is being saved. `disturbed` records it, and `KeptOnce` speaks
  of what happens without;
- an attempt whose saving failed stays to be sent again; if its error is dismissed
  instead, the next attempt is dropped without a word (`store.ts:940`,
  `practice.tsx:375-381`);
- leaving a context before its next scramble is found shows the same scramble again on
  return, so one may be solved twice (`left` in `NewScramble`); and once a scramble could
  not be drawn and its error is dismissed, a solve may start on none (scramble 0), which
  is none to be solved twice;
- a scramble being drawn for a puzzle left is not outdated by going to another that has
  one kept: it is shown there, and kept for the puzzle left, which may show it again
  (`stray` in `NewScramble`; section 3);
- the end of an inspection may fire before a release made in time is dispatched
  (`practiceTimer.ts:45-48`): the attempt is a DNF of its inspection.

### Tournament

A handler owns the database until it returns, and each of its statements is a step:
`doing` is what is left of it, and `Stop` cuts it short, as a crash or a failed statement
does. `Register`, `Unregister`, `Withdraw`, `Award`, `Cancel` are the routes; `Begin`, `Win`
and `Forfeit` what a match makes of its tournament; `Finish` closes a match and
`Rests`, `Close`, `OpenFirst`, `OpenAnother`, `Turn` are `tournamentAdvance`. `Start` draws
the players into the bracket, in one transaction. `Purge` deletes an account, which
empties its seats (`ON DELETE SET NULL`). The bracket is a function from `<<round, slot>>`
to matches.

`RoundsInOrder` and `WinnersMeet` hold whatever is cut short. The others are of `Whole`
handlers, because the code has no repair: cut between a match's end and the advance, the
round is over and nothing opens the next one, until the organiser cancels; cut between two
slots of the next round, in brackets of three rounds or more, the slots already open may
be played, and are set again, their results forgotten, when the round opens at last
(`tournament.go:953-957`). The file says "a match survives a restart"
(`tournament.go:17-18`). An account deleted under an open match leaves it to the
organiser.

### Match

The server reads the match for a join (`ReadToJoin`) and enters the room after
(`Enter`), under another lock (`tournament.go:1556-1582`); between them a move may pass
(`passed`), and the state told is then older than the last. `Play` is a move, ignored
when it is wrong or late (`Ignored`), followed by the score (`Settled`) and the broadcast
(`Publish`). Each app has one client and one socket: it shows the state told
(`Receive`), draws the next scramble when `Turn` says it is its own (`Draw`, `DrawFails`),
and sends its player's moves. A scramble carries who drew it and for which number, and a
result the scramble it was made on, so that `SameScramble` is about them.

Two behaviours to know: the second player's app never draws, since `Turn` asks for both
players present (`match.ts:110-111`), though the comment there says it does while the
first is away; and a scramble lost with the socket, or whose search failed without another
state to come, is not drawn again until the match is opened anew (`spoiled`).

## 3. What is checked

The sizes are TLC's distinct states. `tlc -workers 2 -config X.cfg M` repeats a run;
module and config are `MC` followed by the module's name unless said otherwise.

| Run | Module | States | Shows |
|---|---|---|---|
| `feed` | `ChangeFeed` | 192,814 | `CaughtUp`, `StaleIsPending`, `CursorForward`; and `PullEnds` under fairness |
| `live` | `LiveStream` | 48,012 | `WakeKept`, `NoGap`; and `ToldEverything` under fairness, when no write commits while a socket registers |
| `sync` | `PracticeSync` | 1,138,586 | `SolvesOnce` (the type, `CreatedOnce`, `NoTwins`), `DeletionWins`, `Converged`, `AppliedInOrder`, when one synchronization does not use both transports |
| `sync_settles` | `PracticeSync`, `MCPracticeSyncLive.cfg` | 672,426 | `CreatedOnce` and `OperationsKept` with mixed transports, a busy server and operations it refuses; and `Settles`: once failures stop, the outbox drains and every living solve of the account is listed on the device |
| `twins` | `PracticeSync`, `MCPracticeSyncTwins.cfg` | violation | with mixed transports, `NoTwins` fails |
| `journal` | `WorkspaceJournal` | 1,987,816 | `MemoryIsTrue` (the type, `CacheIsTrue`), `SavedIsKept`, and the refinement `KeptSpec` |
| `duel` | `Duel` | 764,997 | `SeatsAgree` (the type, `OnePlace`, `NeverItself`, `RoundsInOrder`), `BattlesCounted`, `RoundsKept`, and, with one event, `Mirrors` |
| `host` | `EngineHost` | 654,250 | `OneServes` (the type, `OneEngine`, `RightAnswer`), `Kept` while an engine is told at once; and, under fairness, `Settled` and `TabsFollow` (`NoneLeftBehind`, `OthersTold`) |
| `engines_overlap` | `EngineHost`, `MCEngineHostOverlap.cfg` | violation | when the old engine is told a moment later, `Kept` fails |
| `page` | `PracticePage` | 3,031,482 | `KeptOnce`, `ScramblesMatch`, `Shown`, `StartsFair`, `NothingStuck` |
| `tournament` | `Tournament` | 89,799 | `BracketHolds` (the type, `WinnersMeet`), `NeverStuck` (`Going`, `NothingLeft`, `StillIn`), `RoundsInOrder`, `LastStanding`, `ResultsStay` |
| `match` | `Match` | 1,601,068 | `Mirrors`, `ScrambleComes`, `SameScramble`, `EndsRight` (the type, `FairEnd`), `SolvedStay` |

Properties that answer one question are checked as one conjunction of named parts, each
with its own comment. The types of `ChangeFeed` and `LiveStream`, and `ChangeFeed`'s
`Numbered`, are proved instead of run. Every property is stated, with the behaviour it
is about, in a comment above it. A definition named `X_Y` under the comment
"Mutant" is `X` with a plausible slip; no specification uses one, and putting it
in `X`'s place makes TLC find the property it is listed with violated.

Every config but `ChangeFeed`'s says `CHECK_DEADLOCK FALSE`, because each of those models
may end: users do only so many things, connections are lost only so often, a match or a
tournament is over. That nothing *hangs* before then is what `Settles`, `Settled`,
`TabsFollow`, `NothingStuck`, `NeverStuck` and `ScrambleComes` say.

### What the code does against what it says

Two runs end in a violation: the code does something its own comments say it does not.

- **`twins`**. `client.ts:490` says a streamed page waits for upload
  acknowledgements, "so echoed server IDs cannot duplicate offline rows".
  `receiveLive` waits for the synchronization running *now*. When that one uploads over
  HTTP, the server commits, the answer is lost, and the socket delivers the echo:
  it is merged before any acknowledgement, and the retried one names the first
  row. The workspace has the solve twice, for good: once the solve is deleted on
  another device one of the two goes and the other stays, which is why `Settles` says
  nothing of the rows the account has not. A busy answer, or an operation
  refused before the retried one, opens the same window.
- **`engines_overlap`**. `worker.ts:40-41` says "One engine writes the data at a time" and
  the one that loses the lock "stops at once". It hears of it in the rejection of its own
  lock request, a task that may run after the new engine has been granted the lock and
  has read the device (`worker.ts:50`, `:67`). A change it handles in between is answered
  as done and then written over.

Other behaviours that a reader of the code should know of, with what makes TLC show each:

- *A deletion is undone* (`MCPracticeSync.cfg` with `Overlap = TRUE`: `DeletionWins`).
  `client.ts:336` says a remote deletion wins. In the window of `twins`, a deletion of
  the solve made on another device finds no row to delete and moves the cursor past
  itself; the retried upload then gets its receipt, and the row stays.
- *A row stays stale* (`MCPracticeSync.cfg` with `Overlap = TRUE`, `MaxSeq = 3` and
  `MaxFaults = 1`: `NoTwins => Converged`). In the same window, a solve edited here and on another device is skipped in
  the streamed page, because its edit waits (`client.ts:345`), and the cursor moves past it.
  When the server had that edit before the other's, its retry gets the receipt only
  (`sync.go:252-269`), and nothing brings the other's value until the solve changes again.
  `Settles` is therefore of the solves listed, not of their values; `Converged` is
  of both, without the window.
- *A scramble drawn for one puzzle is shown on another* (`MCPracticePage.cfg` with
  `MaxAttempts = 3` and `MaxFaults = 0`: `ScramblesMatch`, once `stray` is taken out of
  `NewScramble`). `store.ts:1140` says "show the one of the current context". Going to a
  puzzle with a scramble kept, `loadContext` shows it first (`store.ts:701-704`), so
  `syncScramble` finds nothing to do (`store.ts:1146`): the search under way for the puzzle
  left keeps its `revision`, passes `store.ts:865`, replaces the scramble of the puzzle
  shown, and is kept for the one left, where it may be solved a second time. The
  command that changes the puzzle calls `loadContext` too.
- *A newer note is overwritten by an older one* (`MCPracticeSync.cfg` with `Coalesce = TRUE`,
  `MaxOps = 3`: `AppliedInOrder`). "Only the latest note of a solve needs uploading"
  (`client.ts:736`), so a note written again drops the one queued (`client.ts:742`), though a
  request may have it. When that request is given up and reaches the server after the
  one with the newer note, the older note is applied last, and every device reads it.
  Penalties stay queued until acknowledged, and `AlwaysInOrder` is of these.
- *One refused operation may block all those behind it.* `client.ts:380` retries a refused
  batch one by one so that "the operation at fault is the only one marked". An edit of
  the refused solve has no server id to name, throws before it is sent
  (`client.ts:426`), and every synchronization ends there (`MCPracticeSyncLive.cfg` with
  `Refusals = {{1}}`: `Settles`). In `sync_settles` nothing is behind what is refused.
- *A device may miss a change until the next one* (`MCLiveStream.cfg` with `Race = TRUE`:
  `ToldEverything`). `auth` reads the cursor at `live.go:498` and registers at 504: a
  write in between is neither in "ready" nor announced.
- *A device may stay in a race the server has freed* (`MCDuel.cfg` with
  `Event = {e1, e2}`: `Mirrors`). A search of another event awaits its level before it is
  sent; a match of the search just left is taken for its own (`duel.ts:323`), and the
  search then gives up.
- *A match's second player never draws*, *a tournament cut between two statements waits
  for its organiser*, and *the page may drop an attempt whose error was dismissed*: see
  `Match`, `Tournament` and `PracticePage` above.

### Bounds, and why they are enough

| Model | Bounds | Why |
|---|---|---|
| `ChangeFeed` | one device; a row of each sort of kind; two values; pages of 1; merges of 2; 3 changes; 1 streamed page in flight | Devices share only the server's rows. A page of 1 cuts after each change, so that each read, page and merge can be separated by a write, which a page of 500 makes rare. Two pages in one merge are the least that can disagree. Three changes let one row change while the other is being read, and again while the first page is on its way. |
| `LiveStream` | one device; pages of 1; 4 changes; 2 sockets lost | Sockets share only the writer. Four changes put one in each stage at once: announced, being read, being sent, merged. |
| `PracticeSync` | 2 operations; 1 solve made elsewhere; other devices write below change 2; 2 faults (1 in `sync_settles`, `twins`); batches of 2; 2 messages in flight | Two operations make a batch, a solve and its edit, a solve and its deletion, or two solves; one elsewhere is enough to delete, edit or echo. Two faults are a lost answer and the loss of what would have repaired it. In `sync_settles` the second operation may be refused: behind an accepted one, in its batch or alone. |
| `WorkspaceJournal` | a journal of 3 entries; 6 changes; 3 faults; 3 storages | Six changes fill a journal, rewrite the workspace and begin another; three faults break the rewriting, the removal and the restart that repairs it. |
| `Duel` | 2 devices with accounts; 2 rounds; 2 sockets each; 2 races; 2 games; 4 acts of users (or sockets lost) | A race has two players. Two rounds have a first, a last and an order. Two sockets are a lost one and the next; two games a rematch. Four acts are a search each and two moves, or a search, a loss, and two more. |
| `EngineHost` | 3 loads of a tab; 2 versions; 2 requests in all; 1 fault | Three loads are two tabs side by side and one that reloads into the newer version. A worker cares for one that came before it and one that comes after. Two requests are one being handled and one queued, of one tab or of two; a fault is a start that fails, so that it is begun again, or a tab closed under its requests. |
| `PracticePage` | 3 contexts, 2 of one puzzle and 1 of another; 2 attempts; 1 move away (or skip, or change elsewhere); 1 answer that fails; inspection on | A move within a puzzle and one to another are two cases, one context away has a scramble kept as the page opens and one has none; an attempt that ends while another is being saved needs two; both save paths, with a session and without, occur. Without inspection the timer has fewer states of the same kinds. |
| `Tournament` | up to 5 players; 1 handler cut short; 1 account deleted | Five players make a bracket of 8: three rounds, byes, and a next round whose slots are opened by several statements. |
| `Match` | 1 point for 1 set; times of 1 and 2; 2 solves; 2 sockets; 1 act | A draw then a win takes two solves; two times make a better, a worse and a tie. Two sockets are a lost one and the next; the act is a choice of a player, a search of a scramble that fails or a socket lost. |

Symmetry is used where only safety is checked: values in `PracticeSync` (`sync`,
`twins`), devices in `Duel`, players in `Tournament`. `ResultsStay`, `AppliedInOrder` and
`RoundsKept` are about one step, which symmetry preserves.

Assumptions a pass depends on:

- `sync`: the socket does not become ready in the middle of a synchronization over HTTP,
  the server is never too busy, and it refuses nothing. `sync_settles` has all three.
- `live`: no write commits between `auth`'s two steps.
- `journal`: the web's disk gives up removals and revisions only. Were it to give up
  an entry or the whole workspace, a change the caller was told is saved would be
  lost: those writes go on after the handler has answered, and no one hears of the
  failure.
- `duel`: one event; queue and allowances never full (four acts are far below a burst
  of 30 messages and a queue of 512).
- `host`: an engine hears that it lost the lock before the next one reads the device
  (`Prompt`). `Kept` needs it; `OneServes` holds without it too.
- `page`: `KeptOnce` is of what happens until a failure is told while other calls are under
  way (`disturbed`), and of attempts before which none failed to be saved (`failed`);
  `ScramblesMatch` of the same, on scrambles that were drawn, not left before the next
  was found (`left`), and drawn for the context they were shown in (`stray`).
- `tournament`: all but `RoundsInOrder` and `WinnersMeet` are of handlers that were not
  cut short.
- `match`: `Mirrors` is of joins during which no move passed, `ScrambleComes` of scrambles
  neither lost nor failed (`spoiled`).

### Fairness

- `ChangeFeed`: weak fairness of the pull loop's own steps (`PullRows`, `PullValues`,
  `TakePage`): a request is answered or abandoned, and the loop goes on. Nothing else
  is fair, so `PullEnds` holds though writes never stop.
- `LiveStream`: weak fairness of the writer's announcement (it follows the commit in
  the same call), of signing in, of the socket's goroutine and of the device; strong
  fairness of serving a pull, since Go's `select` chooses at random among ready cases
  and a socket's messages cannot be passed over for ever by its wake-ups.
- `PracticeSync`: weak fairness of synchronizing (the app retries every 30 seconds and
  on every reconnection), of the server's answers, and of the socket's messages. What
  users do, and every failure, is not fair, and failures are bounded: `Settles` is
  about what happens once they stop.
- `EngineHost`: weak fairness of `Progress`, the steps of workers and tabs taken together:
  some message, queued change, search or start that is ready goes on. Tabs are not
  opened, closed or made to ask fairly, and starts do not fail fairly.

The other modules are checked for safety only. Where something must not hang
(`NothingStuck`, `NeverStuck`, `ScrambleComes`), the property says that what would move it
on is there: a request in flight, an error with its retry, a match open, a player who
draws.

## 4. What is proved

`tlapm` checks these for every value of the constants, hence for pages of 500, any
number of rows, devices, tabs, players and solves. The bounds `MaxSeq`, `MaxStream`,
`MaxFaults`, `MaxCalls`, `MaxStops` and the like are constants too, arbitrary naturals.

| Theorem | Statement |
|---|---|
| `Workspace_proofs!TypeCorrect` | `Spec => []TypeOK` |
| `Workspace_proofs!StaleAlwaysPending` | `Spec => []StaleIsPending` |
| `Workspace_proofs!AlwaysNumbered` | `Spec => []Numbered` |
| `Workspace_proofs!CaughtUpIsEqual` | `Spec => []CaughtUp` |
| `Workspace_proofs!CursorNeverBack` | `Spec => CursorForward` |
| `LiveStream_proofs!StreamTypeCorrect` | `Spec => []TypeOK` |
| `LiveStream_proofs!WakeNeverLost` | `Spec => []WakeKept` |
| `LiveStream_proofs!StreamLeavesNoGap` | `Spec => []NoGap` |
| `Tournament_proofs!RoundsAlwaysInOrder` | `Spec => []RoundsInOrder` |
| `Tournament_proofs!OverLeavesNothing` | `Spec => []NothingLeft` |
| `Tournament_proofs!ResultsAlwaysStay` | `Spec => ResultsStay` |
| `Tournament_proofs!BracketAlwaysHolds` | `Spec => []BracketHolds` |
| `Tournament_proofs!NeverGetsStuck` | `Spec => []NeverStuck` |
| `Tournament_proofs!ChampionStandsAlone` | `Spec => []LastStanding` |
| `Match_proofs!AlwaysSameScramble` | `Spec => []SameScramble` |
| `Match_proofs!SolvedAlwaysStay` | `Spec => SolvedStay` |
| `Match_proofs!AlwaysEndsRight` | `Spec => []EndsRight` |
| `Match_proofs!AlwaysMirrors` | `Spec => []Mirrors` |
| `Match_proofs!ScrambleAlwaysComes` | `Spec => []ScrambleComes` |
| `EngineHost_proofs!AlwaysOneServes` | `Spec => []OneServes` |
| `EngineHost_proofs!AlwaysKept` | `ASSUME Prompt PROVE Spec => []Kept` |
| `PracticeSync_proofs!AlwaysTyped` | `Spec => []TypeInv` |
| `PracticeSync_proofs!AlwaysCreatedOnce` | `Spec => []CreatedOnce` |
| `PracticeSync_proofs!AlwaysKeepsOperations` | `Spec => OperationsKept` |
| `PracticeSync_proofs!AlwaysInOrder` | `ASSUME ~Coalesce PROVE Spec => AppliedInOrder` |
| `PracticeSync_proofs!AlwaysOnce` | `ASSUME Plain PROVE Spec => []SolvesOnce` |
| `PracticeSync_proofs!DeletionAlwaysWins` | `ASSUME Plain PROVE Spec => []DeletionWins` |
| `PracticeSync_proofs!AlwaysConverges` | `ASSUME Plain PROVE Spec => []Converged` |
| `Workspace_proofs!AlwaysTrue` | `ASSUME Trusted PROVE JournalSpec => []MemoryIsTrue` |
| `Workspace_proofs!AlwaysSaved` | `ASSUME Trusted PROVE JournalSpec => []SavedIsKept` |
| `Workspace_proofs!AlwaysKeeps` | `ASSUME Trusted PROVE JournalSpec => KeptSpec` |
| `PracticePage_proofs!AlwaysKeptOnce` | `Spec => []KeptOnce` |
| `PracticePage_proofs!AlwaysScramblesMatch` | `Spec => []ScramblesMatch` |
| `PracticePage_proofs!AlwaysShown` | `Spec => []Shown` |
| `PracticePage_proofs!AlwaysStartsFair` | `Spec => []StartsFair` |
| `PracticePage_proofs!AlwaysNothingStuck` | `Spec => []NothingStuck` |
| `Duel_proofs!AlwaysAgree` | `Spec => []SeatsAgree` |
| `Duel_proofs!AlwaysSolved` | `Spec => RoundsKept` |
| `Duel_proofs!AlwaysCounted` | `Spec => []BattlesCounted` |
| `Duel_proofs!AlwaysMirrors` | `ASSUME \E e : Event = {e} /\ e # NoEvent PROVE Spec /\ []~QueueFull => []Mirrors` |

They assume `FeedAssumption` (the rows are finitely many, the page and merge sizes
positive), `StreamAssumption`, `SyncAssumption`, `TournamentAssumption`, `MatchAssumption`,
`HostAssumption`, `JournalAssumption`, `DuelAssumption`, `TimerAssumption` and
`PageAssumption` (the bounds are naturals; the contexts finitely many, the first with a
scramble kept, no two with the same; a journal and a duel have room for something); TLC evaluates all of them. The theorems of
`LiveStream` hold whatever `Race` is: a write during the registration delays a device, it
never makes a gap. Five hypotheses are the theorems' own:

- `Prompt`, of `AlwaysKept` alone; `engines_overlap` shows that it is needed;
- `~Coalesce`, of `AlwaysInOrder` alone: edits that replace those queued before them (notes,
  hand-written solutions) may be applied out of order (section 3);
- `Plain`, of three about the device's copy in `PracticeSync`: a synchronization does not
  use both transports, and the server answers and refuses nothing. `twins` shows what
  happens otherwise (section 3). The constants of `sync` are so, and its faults, crashes
  and late requests are all there;
- `Trusted`, of the three about the journal. It says two things of every storage. The
  disk gives up only removals and revisions: were the web's to give up an entry or the
  workspace, the change it held would be lost after its caller was told (section 3). And
  where several clients share a storage, the revision's write does not throw: it is what
  tells the others that their copies are stale. The storages of the code are so: the one
  whose calls throw, mobile's, has one client, as the web's has one engine.
  The three storages of the run are `Trusted`;
- one event and `[]~QueueFull`, of the `AlwaysMirrors` of `Duel_proofs` alone. With two
  events a device may stay in a race the server has freed (section 3). A search that finds
  512 sockets queued is dropped without a word (`duel.go:404`), so its device goes on
  searching and is in no queue. In `duel` there is one event and the queue has room
  for every socket opened.

**The feed.** `StaleIsPending` is not inductive: it says nothing of the pages on
their way. `IInv` adds, for each device:

- `ReadingInv`: a reading between its two statements has in it, or in the feed
  after its end, every change past its start;
- `ValuesInv`: a batch of values read for the changes from `from` to `at` gives,
  for each row the device reads, its current contents, unless the row's change is
  past `at` by now. This is where the two statements meet: a row written between
  them is read as it will be, and its change has moved past the page;
- the same of the pull's batch (`PullInv`), the socket's reading (`SocketInv`) and
  each streamed page (`StreamInv`), and `CopyInv` of the workspace.

A write can only make a row's change larger than every cursor (`Grows`), which
preserves all of them at once: one lemma each, cited for every write and every
reading. A merge (`MergeCopy`) then puts the batch's values in the workspace exactly
when its cursor moves to the batch's end. `CaughtUp` follows from `CopyInv` and
`Numbered`: no change is past the sequence's last number. `CursorForward` needs types
only: a merge of an older batch is refused, and every other step leaves the cursor
alone but `Upgrade`.

**The socket.** `WakeInv` is `TypeOK`, `WakeKept`, and three facts the code relies on
without saying so: nothing is announced before it is committed (`Announced`), a loop
that has cleared its mark reads a feed that has what it was told (`Fresh`), and a page
never goes back (`Forward`). `GapInv` then follows a socket's messages from the
device's cursor: "ready" comes first, each page starts at most where the one before it
ends, and the server's mark is covered by them or by the pull on its way. The two
together are inductive.

**The tournament.** `OrderInv` places the statements still to run (`doing`) in the
bracket: the rounds before the one being played are over, those after it are not set,
and what is left of a handler speaks of the round it closed or opens. It holds whatever
is cut short, and gives `RoundsInOrder`. `WholeInv` adds what the code relies on when
nothing is cut: nothing is left to do before the start and at the end (`AtEnds`), and
the next round is set slot after slot, each once (`SetInOrder`). It gives `NothingLeft`,
and `ResultsStay` by steps: the only statement that resets a match speaks of a slot not
set yet.

`BracketInv` is `OrderInv` with the types and with who meets whom (`Meeting`): a match is
won by one of its players (`Won`), nobody is in two matches of a round (`OnceEach`), and
who plays a match won all those before it (`Unbeaten`). It too holds whatever is cut
short, matches set again included: the two that feed a match are over by then, and
nothing changes them but an account deleted, which leaves their winner's seat and the
next one alike. `WinnersMeet` is inductive with these.

`GoingInv` adds what whole handlers keep while the tournament is under way (`RunInv`). The
matches reached are set, from the winners of the round before (`Filled`, `Fed`), and the
others are empty (`Empty`); those who play did not give up, but for the one whose match
is about to be given (`InPlay`); nobody still in it is in a match cancelled (`Void`);
between two handlers the round has a match to play (`GoesOn`); who neither lost nor gave
up has a seat in the round (`Seated`); and the final's winner did not give up (`Crowned`).
The delicate step is a withdrawal: it gives one match, so it is right because `OnceEach`
says the player has no other, and the match goes to the other seat, which is not the
player's own. The bracket's arithmetic (its size doubles until the players fit, each
match is fed by two and feeds one, every place is drawn) is proved by induction over sets
of numbers: `Induction` says that a set with 0 and the successor of each of its members
is `Nat`, which follows from the cardinality of finite sets.

**The match.** A match only grows: a solve made stays, and a new one is added after the
last. `Agrees` says of a list of solves that it is such an earlier one, and `MatchInv`
that everything told, in a room or on its way to an app, or shown by it, agrees with the
match. A result is then made on the scramble its number has, however old the state its
player looks at.

The score is a recursive function over the solves, of which `WinnerIs`, `WinnerBefore` and
`WinnerOpen` say what the proofs need, by set induction: it depends on no solve
past its own, a winner once found stays, and an open solve at the end scores nothing. `EndInv`
is `EndsRight` with the row's own fields.

`MirrorInv` follows a message to the app that hears it: what a room was last told is the
match as it is (`LastIsNow`), and the last state on an app's way, or the one it shows, is
that too (`Hearing`), unless the app is ahead of the server by a move of its own still to
reach it (`Ahead`). A client that left or lost its socket joins again before anything
else (`Rejoining`), so an app whose join is done is in the room (`Linked`).

`ScrambleComes` needs four more. Whatever an app was told of the match as long as it is
now has its last solve over if it had (`ToldInv`); an app draws for a number it was
told of (`DrawnInv`); a socket lost or closed says so to the server before it goes
(`SocketInv`), so who is present in the room is there or about to leave it; and a scramble
drawn for is being searched, or is on its way from a socket that is in the room, or joins it
before (`DrawInv`). With nothing on its way, only the search is left. The app that draws
is the first player's: it shows the match as it is, by `Mirrors`, and it is its turn.

**The engines.** `HostInv` is the type, the order of each queue (`InOrder`), the silence of
a tab not loaded (`Fresh`), and `Held`: a worker past the lock holds it, or has lost it and
been told or not. It gives `OneEngine`. `AnswerInv` says that a request is in one place:
on its way to the worker, queued or searched for, on its way back, or answered; with
the owners of the worker's numbers it gives `RightAnswer`. For `Kept`, `WorkspaceInv`: one
engine is alive (it has read the device and was not told it was replaced), and its
memory is what the device has. This is where `Prompt` is needed, when the next engine
reads. `RanDone`, `Placed`, `Deaf` and `AllHeard` follow a change from there: handled, it
is on the device or its worker was replaced; each tab that may have asked a worker
replaced hears so before any answer that is not true.

**The synchronization.** An operation is in several places at once: queued, in the request
under way, in requests given up that the server may still have, in a receipt. `TypeInv`
says of a request that it is solves only, or one operation (`Asked`), which is what makes
its transaction tractable: `Applied` states what it does to the account, whatever part of
it was done before, and `AppliedSolves` and `AppliedOne` prove it of `Apply`. With it go
`CreatedOnce` and that each solve made here has a receipt, so that a request served again
makes none. `OwnInv` says that rows and operations sent name the solve made of their
row, `ReceiptInv` the same of receipts, and that an operation answered with nothing was on
a solve that is gone; `RefusedInv` and `GoneInv` that what was refused is never done, and
that a page does not say of a living solve that it is gone. `OperationsKept` is then a
fact of each step. `OrderInv` is of the changes sent (`Later`): whatever is queued before
one is done or refused already, and a change sent and not done is still queued, or on a
solve that is gone.

The three of `Plain` are proved together, from what the device has read. `FeedInv` says that
a page tells of every change from its start to its end as it is, unless it changed since
(`Tells`). `TurnInv` is what the comment at `client.ts:490` means: when a page may be merged
(`Merging`), no operation queued was ever sent, so the page cannot be the echo of one; it
needs `LinkInv`, that a ready socket carries the synchronization, and that one begins when
the socket becomes ready. `OutboxInv` says of each queued operation that its row is
there, and that what its receipt names was changed past the cursor. `CopyInv` is `NoTwins`,
`DeletionWins`, that a row without a server's id has its creation queued, and that each living
solve changed up to the cursor is `Held`: as the server has it, or with operations
queued. `CopyMerges` is the step where all meet; `CopyAcks` the other, since what is
acknowledged leaves the outbox and its row must then be as the account was when read.

**The journal.** The disk lags behind the memory by the writes on their way, and the
properties are of both. `JournalInv` therefore looks at storages as `ViewOf` does: the mark, the
changes a restart would read, the entries it would replay. `QueueInv` says that the queue
is a chain of views (`Chain`): it begins at the disk's, ends at the memory's, and each
write takes one view to the next by one change at most (`Follows`). The step lemmas
`ApplyWhole`, `ApplyEntry` and `ApplyOther` say what each kind of write does to a view, and
`ChainOn`, `ChainTail` and `ChainFront` what a write queued, done, or given up does to a
chain. `Flush` is then one step of the chain, which is the refinement; a crash reads the
disk's view, which is a view of the chain. `Fits` says that no entry has a
mark past the workspace's, and that those with its mark come first, so that a new mark
silences every entry left behind. `CacheIsTrue` and `CachesInv` are of the parsed copies, and `SavedInv` of
what was said saved: in the memory always, and on the disk where handlers wait for it.

**The duel.** `ArenaInv` is the arena's: a socket is seated in the race that lists it, and
in no other (`Seated`, `OneRace`); one that searches, or is between the two locks of its
search, does nothing else (`Searching`, `Joining`, `OneSearch`); with `NeverItself` and the
order of rounds it is inductive, and `OnePlace` follows. `RoundsKept` is then a fact of
each handler (`RacesGoOn`): of the moves, only a rematch unsolves a round, and it begins
another game. `BattlesCounted` relates a device's list to the server's statistics, which
never speak directly: a device counts a battle when a state it is told shows every
round solved, and the state may be old, or of a race the device has left. `BattleInv`
follows the messages: `About(ms, c, k, r)` says that a client is in race `r` once it took
the first `k` of them, `Genuinely` that a state that shows a game over, taken by a client
in that race, tells the truth of it, and `SeatTold` that the last race it will be in is the
one its socket is seated in. With `Fresh` (a socket not open yet is nowhere) they give
`KeptOver`: a battle kept is over in the arena; `StatsInv` says that the arena records a
game over before it goes on, or before its last player is gone.

`Mirrors` speaks of a device that has heard everything, `MirrorInv` of each device at any
moment. The last word of its socket of being in the arena, on its way or taken, is what
the device shows: that it leaves if it is off (`Away`), that it joins if it is not
(`Coming`); and until its level is read it has asked for nothing (`Unknown`). Once that
word is taken, the messages on the device's way tell it what the arena has
(`There`): the last "queued" if it waits (`HearsQueue`), the last "match" if it is seated
(`HearsSeat`), and after it the state of the race as it is now (`HearsState`). A
device also shows its solves before the arena has them, so `Shows` allows it to be
ahead: in rounds the arena has unsolved, the first of which is still on its way. The
arena does not ignore that one, since every round before it is solved (`Ignored`), and
the state it then sends is what the device shows next. A message that comes late is of no
harm: a level, because with one event it is the level of the search the device makes now; a
match of the search before, because the device's last word is then still on its way, and
`queue` leaves first whatever the socket did.

**The practice page.** The page asks, goes on, and hears the answer in another context, so
the invariant says of everything asked what will be true when it is answered. `StoreInv`
has seven parts, and holds whatever fails. `PageTypes` is what is held, requests and calls
of `savePending` included. `TimerInv` (`Sound`) says what `StartsFair` needs of the timer:
an inspection is of a solve not started, a solve that runs has no DNF, and no timeout of a
press let go is left. `RequestInv` (`Backed`) matches the engine's queue with the page:
there is a request for each call that sends, each session being created and the snapshot,
and no other but synchronizations, each once (`Single`). `WaitInv` says that a call without
a request of its own waits for one of those (`CallsWait`) and that the page saves and draws
only while something is under way; with `RequestInv` it is `NothingStuck`. `SessionInv`
says that a session is created only for a context without one, which gives `OneSession`.
`ReadInv` follows `Shown` to the answer: unless another is queued, the snapshot under way
reads the context shown, and its session or none at all where there is nothing yet to read
(`Current`); what the engine will add to is what the page holds, since a request carries
the page's list and nothing changes it before the answer. `ScrambleInv` says that a
scramble is kept, or ahead, in one place, and that the one shown is kept by some context,
which need not be the one shown (`PlacesInv`); that one tried is ahead nowhere and, unless
it was `stray`, kept only where it was tried, by a page that is still there or left
(`TriedInv`); and that one search at most will be shown (`ComingInv`).

`SaveInv` is what holds besides as long as nothing was `disturbed`, and needs `StoreInv` of
both states of a step. `CallInv`: one call of `savePending` is under way, it is of the
attempt pending, and the page counts as saving. `CalmInv`: until a saving has failed, an
attempt pends only while it is saved, and no solve runs while the page saves or draws, so
a solve ends on the scramble it started on. `MadeInv` says of the attempts that each
is saved once or pends (`AllMine`), that two of them have two scrambles (`AllNew`), and that
the scramble of one saved is still kept only while the next of its context is being
drawn by the call that saved it (`NextComes`), but for a `stray` one; that call keeps the page saving, so none is tried again. The steps
of the page are seven kinds for it: what changes nothing of these (`Waits`), a
failure that leaves nothing under way (`Halts`), an attempt sent again, the timer, a skip,
an answer and a move.

### What is only model-checked

- Liveness (`PullEnds`, `ToldEverything`, `Settles`, `Settled`, `TabsFollow`) and whatever
  needs `ENABLED`: out of the prover's reach.

## 5. What is not modelled

- In the modelled components: the ageing of receipts after 30 days (`syncPrune`), guests
  given an account (`syncCompact`, the import), sessions and training rows in
  `PracticeSync` (they use the same queue and merge, and are further rows of
  `ChangeFeed`); the caps on sockets and the allowances of messages; a duel's lobby
  counts, chat, watchers and relayed timers, and the penalties of a recorded game;
  of tournaments, their creation and deletion, battles between friends and the ticker's
  pass; of matches, watchers; of the web's engine, the dedicated worker and the service
  worker, and a worker that crashes; of the practice page, training, the daily scramble,
  multi-blind and casual attempts.
- Times: a retry, a timeout or a tick may happen at any moment the code lets it.
- SQLite itself: its only writer is a mutex in the code, so a route's transaction is
  one step, and a read outside one sees whatever is committed.
- The scramble pool, coaching, social, the daily scramble, statistics, the traffic limits
  and the other components listed `not_modelled` in `PROJECT.json`, with the reason of each.
- Most of the repository is screens: components, styles, texts, their layout and their
  tests. They keep no state that another part relies on, and are outside the modules
  and outside the map.

## 6. Plan

Done: `ChangeFeed`, `LiveStream`, `PracticeSync`, `WorkspaceJournal` over
`KeptWorkspace`, `Duel`, `EngineHost`, `PracticeTimer` and `PracticePage`, `Tournament`,
`Match`; the theorems of section 4.

Every invariant and action property that a passing run checks is a theorem. Modules next, each
with its theorems, in this order:

1. `LiveLink` (`live.ts`, `live.go`): sockets opened, replaced and lost while the
   account changes; the caps and allowances; abstract specification: one current
   link, whose messages are all of one account.
2. `ScramblePool`: a filling, what is taken from it, and the event asked first.
3. `Coaching` (bookings against availability and each other; calls joined from two
   apps), then `Social` and `Daily`.
4. `Averages` (`stats.go`, `stats.ts`): operators against their definition on
   bounded lists, both implementations agreeing.

Runs stay one for each question: a module that joins takes a run, and the questions of
one module share theirs, as `sync_settles` does.
