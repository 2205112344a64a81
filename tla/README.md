# piplayer in TLA+

Specifications of piplayer's consoles, player and SD flasher, the TLC runs that check
them on small instances, and TLAPS proofs of the results that matter most for every
instance. Source paths are relative to the repository's root.

Contents: 1 the system, 2 the models, 3 the runs, 4 fairness, 5 the proofs, 6 what
the models leave out, 7 findings, 8 the plan.

Run everything from this directory:

    tlc -workers 2 -config Console.cfg MCConsole
    tlapm CommandsProofs.tla

## 1. The system

piplayer drives unattended Raspberry Pi screens. A **console** holds the media library,
playlists, schedules and devices. There are two with the same player protocol: a
Cloudflare Worker (`cloud/`) over D1, a SQL database, and R2, an object store; and a
FastAPI program (`cms/`) over SQLite and a directory, for one site on a LAN. A **player**
(`player/`) on each Pi asks its console for a manifest every few seconds with
`/api/sync`, downloads media, plays it through **mpv**, and carries out commands. A
desktop **flasher** (`tools/flasher/`) writes the SD cards and the scripts of their first
start.

What is stored where decides what can go wrong:

- D1 has single statements and batches that are atomic, and nothing else: a handler's
  `await`s are the points where other requests run. R2 is a second store; nothing spans
  the two.
- The LAN console's handlers run in a pool of threads. sqlite3 opens a transaction at a
  handler's first write, so what was selected before it may be stale when it is used;
  only a handler that begins with `BEGIN IMMEDIATE` is one step.
- A player keeps a few JSON files on its card (cached manifest, index of the media,
  ledger of executed commands, update status and its marker) and a lot in the memory of
  one daemon, which systemd restarts. Power may go at any moment.
- mpv is a third process with a playlist of its own, spoken to over a socket whose
  replies may be lost, and it goes on playing between two commands.
- The flasher's threads post callbacks to one window; the cards it writes may be swapped
  at any time, and the card it has written runs scripts under power cuts.

### Components

`PROJECT.json` lists them with their sources, and the hazards of each at their lines.
"partly" means that the operations that change state are actions and the rest, named in
section 6, is left out.

| component | state | what is hard | what makes it correct | status |
| --- | --- | --- | --- | --- |
| Remote commands (player and Worker) | `device_commands`, the player's ledger | overlapping syncs, lost results, a reboot in a reboot command, reused ids, a full card | a reboot does not repeat, a cancelled command never starts, each is closed once | partly: `Commands` |
| Playback reconciliation | mpv's playlist; the client's options and stale entry; applied hash, two counters, the screen | mpv moves between two IPC commands, dies, gives up; the daemon restarts under it | at rest mpv plays the manifest's list with its options; content comes back by itself | partly: `Mpv`, `Playback` |
| Media synchronisation | `.part` files, media, index, cached manifest | drops, crashes, power cuts, damaged objects, a card that loses bytes | a name only for the right bytes; every file arrives and is repaired | partly: `MediaSync` |
| Chunked uploads, library page (Worker) | `uploads` rows with etags and claims, the R2 multipart, media row, object | two tabs, two stores, slow and dead Workers | no part twice, no row without bytes, nothing left for ever | partly: `Uploads` |
| Player daemon loop | what the parts keep | their order in one cycle | see the parts | partly: with its parts |
| Player updates | status file, marker, a guard in memory | the update restarts the program that reports it; a window that wraps midnight | each outcome reported, one attempt per night | partly: `PlayerUpdates` |
| Projector control | last applied `want`, retry, in memory only | one button for on and off, sends in doubt, restarts | the projector as wanted, its state reported as it is | partly: `Projector` |
| Tunnel and camera files on the Pi | a file each, a version, the running service | settings newer than the manifest that announced them, restarts that fail | the service runs with the file, the file is the console's | partly: `ServiceFiles` |
| LAN library, playlists, uploads | `media`, `playlists`, `playlist_items`, the media directory, the body being received | reads before the write lock, a body cut anywhere | one row per content, no dangling item, the order kept, no byte stored without a token | partly: `LanContent`, `LanReceive` |
| LAN devices, groups, enrollment | `devices`, `device_groups`, `device_schedules`, settings | rows that go between lookup and write, two boots that enroll at once | references resolve; a Pi's token works | partly: `LanDevices` |
| LAN commands | `device_commands`, learned codes | polls that do not claim, two results at once | bounded deliveries, one open update, codes stay | partly: `LanCommands` |
| LAN accounts, sessions, throttle | `users`, cookies, failure stamps | sessions that outlive their account, slow password checks | an admin remains, a session is its own account's, guesses bounded | partly: `LanAccess`, `LanThrottle` |
| Schedules and the manifest's choice | none | midnight, weekday of a wrapped window, ties | a rule matches in its windows, the announced start is the next | partly: `Schedules` |
| Alerts (Worker) | `alerts` rows, stamps | overlapping and dying cron runs | each opening and recovery told once, repeats only when due | partly: `Alerts` |
| Flasher sign-in codes (Worker) | `device_codes`, `api_tokens` | two polls, an approval, a denial and the prune of one code | one token to one taker, none left behind | partly: `DeviceCodes` |
| Devices and ownership (Worker) | owner, references and token of a device | a change of account in four statements, crossed by pages, registrations, syncs | it plays its account's content, and only that account's card is it | partly: `Ownership` |
| Flasher: writing a card | the disk number, table, body and files of cards, the image cache | cards swapped anywhere, worn cards, Windows offering to format | done means a card that works; no other card is touched | partly: `Flash` |
| Flasher: window, sign-in, own updates | the window's fields, threads, posted callbacks, saved state | answers that arrive late, questions that hold a handler | there is always a way on; a fresh sign-in stays; no flash under an install | partly: `FlasherApp` |
| First boot | files on the card, boot arguments, a counter | power cuts that lose any unsynced write | secrets gone when it says so; a card still installs itself | partly: `Provision` |
| Not modelled | | | see section 6 | |

## 2. The models

### Commands, CommandPromise

One device of the Worker, its rows, any number of overlapping `/api/sync` handlers
(`Handlers`), one player. The await between `pending_commands`' SELECT and its batch is
the step between `Select` and `Batch`; the batch is one action because D1 runs it as one
transaction.

| state | code |
| --- | --- |
| `rows`, `nextId` | `device_commands` and its AUTOINCREMENT; `count` is `delivery_count`, `result` is who set `completed_at` |
| `clock`, `issued` | `issued_at`, abstracted to the order of the INSERTs |
| `hpc`, `snap`, `resp` | a sync handler: where it is, the rows it has read, its answer |
| `ppc`, `todo`, `cur`, `mem` | the locals of `execute_commands` |
| `disk` | `executed_commands.json` |
| `posts` | result POSTs that may still reach the console: applied any number of times, at any time, or never |
| `runs`, `diskFailures` | history: runs of a command; writes of the ledger that failed |

`SelfKilling` kinds are remembered and reported before they act, the others act first:
`FirstStep` is that order. `Crash` is a power loss, the reboot that was asked for or an
update replacing the daemon, between any two steps. `Restore` puts back the copy of
`TakeBackup`, the sequence included, so ids are used again for other commands.

`CommandPromise` says what an operator may rely on for one command: issued, handed out
or withdrawn, closed for good; run only after it was handed out, so never when it was
cancelled; a self-killing one at most once more than the player's record of it failed.
`Commands` implements it (`ImplementsPromise`), with `life` mapped to `Life(id)` and
`failed` to `diskFailures`.

### Mpv, Playback

`Mpv` is what the player's IPC commands do to mpv's playlist. mpv is not part of the
repository, so its entries are marked external; they are pure operators on a record
`[up, pid, list, pos]`. `Playback` is the daemon's cycle: `StartCycle` (a sync may change
the manifest), `Progress` (`on_progress`), `Reconcile` (what `_reconcile_mpv` decides),
then one action per IPC command of `apply_playlist`, `load_full_playlist`,
`remove_stale_entry` and `StatusScreens.show`. Between any two of them mpv's own actions
`FileEnds`, `GivesUp`, `MpvDies`, `MpvStarts`, and `DaemonRestarts`, may happen. Each IPC
command is `Answered`, `Unanswered` (no mpv; or a lost request or reply, the command
executed or not), or `Refused` for a missing entry.

| state | code |
| --- | --- |
| `applied`, `knownPid`, `idle`, `streak` | `DaemonState.applied_hash`, `mpv_pid`, `idle_cycles`, `idle_streak` |
| `screen` | `StatusScreens.current` |
| `known`, `stale` | `MpvClient._entry_options`, `_stale` |
| `cur`, `old`, `k`, `swap` | the locals of a push and of a swap |

`streak` grows without bound in the code and is compared with `FaultAfter` and modulo
`RetryEvery`: the model keeps it below `2 * RetryEvery`, which no comparison can tell.
A behaviour keeps to one `menu` of item lists (`Menus`), so that one run has short lists
and loops of three files without their mixtures.

### MediaSync

`sync_once` item by item, chunk by chunk, save by save. A file's content is what the
properties tell apart: a media file is absent, good or bad; a `.part` is its length and
whether its bytes are the file's first. The index is abstracted to the question asked of
it: is there an entry with the sha256, size and mtime this file has (`vouched` on disk,
`mem` in the running sync)? `Replaced` makes an entry on disk stale because the rename
gives the file a new mtime.

| state | code |
| --- | --- |
| `media`, `part`, `vouched`, `cached` | `media_dir/<file>`, `<file>.part`, `media_index.json`, `manifest.json` |
| `list`, `i`, `mem`, `verify` | the locals of `sync_once` |
| `attempt`, `hashed`, `pos`, `moved` | `_download_item`'s connection, hasher and `done`, position, progress |
| `due` | `force_verify`, or `last_full_verify` 24 h ago |
| `object`, `assigned` | the store; the list the console assigns |

`Crash` is a killed process; `PowerCut` also loses bytes nothing has flushed; `Rots` is a
worn card. The last two set `damaged`.

### Uploads

The handlers of `uploads.js` for one file of one account, one action per await that
touches D1 or R2, over several upload rows that share the R2 key, plus `libraryDelete`.
`pc[r]` is the await request `r` is at. `claimPart`'s conditional UPDATE is `ClaimPart`;
`Stale` is CLAIM_STALE_SECONDS: a claim whose Worker is gone or, with `SlowWorkers`, merely
slow. R2's etags are per-part counters, so "the etag that R2 holds now" is visible.
`intact` says whether the bytes sent match the declared sha256. `MCUploadsBoth` runs two
instances in one run.

### Alerts

`alerts.evaluate` for one device: a run reads the devices (`ReadDevices`, any state at any
time), then the open rows (`ReadOpen`, which fixes what it will do), writes one row per
await (`Open`, `Close`), sends the digest (`Send`) and stamps it in one batch (`Stamp`).
`rows[i].stamp` is `notified_at`. Runs overlap, and `Die` ends one at any await. History:
`told`, what was announced of a row and when; `crossed`, rows that overlapping runs had in
hand or whose run died after its digest; `lost`, rows closed by a run that died before its
digest; `early`, rows repeated too soon.

### DeviceCodes

`device_codes.js` for one address. A code's `age` is live (ten minutes), expired, or old
(an hour, when it is pruned). `req[w].at` is the await a request is at: "count" and
"insert" of a new code, "claim" and "discard" of a poll, "deny", "mint", "set" and "undo"
of the answer in the browser, "prune". `tokens` is `api_tokens`, `taken` (history) the
tokens answered to polls. A request lasts less than the 50 minutes between expired and
old.

### Ownership

One projector among the Worker's accounts. Each account has one playlist, its Default, and
one group, so a reference is named by its account. `Pick` and `Picked` are the look and
the write of the pages that set or clear a reference; `ReadRow`, `Keep`, `HandOver` the
statements of `reassignDevice`; `Register` and `SetToken` `registerDevice` of a known id;
`DeleteUser` the cascade of an account; `Sync`, `ReadRules`, `ReadRefs`, `AnswerSync` what
a sync reads of the device and may play. `card` is the account whose card holds the row's
token. `raced` (history) is set when a request's look and write were crossed by a change
it should have seen.

### The LAN console

Seven modules. In each, a request is `req[w]`: "idle", or what it has read and is about to
write, so that the read and the write of a handler that does not lock first are two steps.

- `LanContent`: `UploadProbe` / `UploadStore` are the probe outside the lock and the check
  and insert under it; `DeleteRead` / `DeleteRow` / `DeleteFile` a deletion, which
  renumbers lists read before it; `AddItem`, `RemoveItem`, `ReorderRead` / `ReorderWrite`
  the items and their positions.
- `LanReceive`: a body is a sequence of events (token, file part, block, closing boundary).
  `Feed` is one callback of the parser, on the state of `_UploadReceiver` in `recv`;
  `EndChunk` what the handler checks and writes once a chunk is parsed. A chunk ends after
  any number of events, as the network cuts it, or in none.
- `LanThrottle`: `Attempt` asks `login_locked_for`, `Wrong` and `Right` come after the slow
  password check.
- `LanAccess`: sessions name a user id and are resolved on every request; `Ask` checks the
  role, `Write` acts later.
- `LanDevices`: lookups (`CheckForm`, `EnrollRead`) and writes, with SQLite's foreign keys
  in between; `card` is the token a Pi was last given.
- `LanCommands`: `PollRead` / `PollWrite` of `_pending_commands`, which adds a delivery
  without a claim, and `ReportRead` / `ReportWrite` of results and learned codes.
- `Schedules`: the functions of `schedules.py` and `api.py` as operators over minutes,
  compared at every minute with `Window` and `On`, a definition by intervals.

### The flasher and the first boot

- `Flash`: `run_flash` step by step over a disk number (`slot`) that any card may have.
  `card[c]` is a card's table, body and first-boot files; `conf` is the card as the
  operator confirmed it; `sees` the partitions the computer shows. `Windows` chooses the
  disk module; `Replug` swaps cards between any two steps, `UserFormats` is Explorer's
  offer, a worn card loses writes without a word.
- `FlasherApp`: `posts` is `App.q`, run in order by `Callback`; `ui.asking` says whether a
  click or a callback has a question box open, and so what else may run. `saved` and `st`
  are on disk and survive `Quit`.
- `Provision`: `fs` is the card as the running system sees it, `maybe` what a power cut may
  leave: every write not yet synced is there or not. `FirstRun` is the list of
  firstrun.sh's commands; the provisioning service's states follow in `pc`.

### The player's upkeep

- `PlayerUpdates`: `status` and `marker` are the two files, an outcome's `id` its mtime;
  the scripts run in units of their own (`unit`) while the daemon's cycle (`pc`) syncs,
  marks, reboots, and starts the nightly update at its end. A day is `Day` ticks.
- `Projector`: `power` is the projector's own; `After` what a code does with two codes or a
  toggle; a failed send may have arrived.
- `ServiceFiles`: the same compare, write and restart for cloudflared's token and the camera
  bridge's environment.

### Composition and conventions

`MCConsole` and `MCDevice` check the small modules in one run each: a behaviour belongs to
one `part`, whose module's variables it uses; the variables of the others are `Off`. Modules
that use one name share the variable. The parts do not interact. A property of such a run
is the conjunction of what its parts promise on one subject. A module that is instantiated
for two parts is one instance with the part as its parameter (`Library(p)`, `Told(p)`,
`SignIn(p)`, `Owners(p)`), so that what is proved of it is proved once.

Bounds are constants named `Max...` and are guards of the action they bound. Histories are
marked so where they are declared. A property that excepts something does it by a history
variable that says exactly when. Helpers named for a broken variant (`ClaimedAnyCount`,
`TrustedAlways`, ...) are the mutated forms `PROJECT.json` lists: each property has one or
more, a plausible bug in the definition next to it, under which TLC reports the property
violated in the same run.

## 3. The runs

| run | instance | what it shows |
| --- | --- | --- |
| `Commands_overlap` | 2 handlers, 2 deliveries, 2 commands, kinds reboot and sync | Overlapping syncs with lost and late messages and power cuts: at most one run of a reboot, runs within deliveries, `CommandPromise` is implemented |
| `Commands_restore` | 1 handler, 1 delivery, 2 commands, 1 restore, 1 failed ledger write | Reused ids and a failed write: the inductive invariant, a report means a run, every command closes |
| `Playback` | 3 files, 2 option sets, 2 menus of 4 lists, 2 edits, a death, 2 give-ups, a restart | The list at rest is right, the options of loops too; content always comes back by itself |
| `Uploads` | "races": 2 requests, 2 uploads of one key, 2 parts, a dead Worker; "slow": one upload, claims taken over, a deletion | Etags are R2's, the library has its file, settled objects stay; `received` is exact, every upload row goes |
| `MediaSync` | 2 files of 3 chunks, 3 lists, 2 connections, 1 edit, 2 mishaps | Hasher, `.part` and server position agree; only whole files get a name; every file arrives, for good |
| `Console` | 14 parts: the LAN modules and `Alerts`, `DeviceCodes`, `Ownership`, two requests at once | The tables agree, order, tokens, codes and commands stay, accounts and sign-in codes hold, schedules are right, alerts are told, projectors play their owner's content |
| `Device` | 7 parts: flashing on Windows and on a Mac, the window, first boot, updates, projector, service files | Done means good and other cards are kept; the window goes on; first boot holds; outcomes are reported, one update a night; manifest followed |

Violation runs, each a finding of section 7: `Playback_ContentComesBack`,
`Uploads_DuplicateIsThere`, `MediaSync_CachedListOnDisk`,
`FlasherApp_NoFlashUnderInstall`, `PlayerUpdates_RebootOnce`.

### Why the bounds are enough to be interesting

- *Commands.* Two commands of two kinds are the least for order in one answer, for one
  open row per kind, and for two commands under one id after a restore. The delivery
  limit of 2 (5 in the code) gives a first hand-out, a repeat and the give-up; with a
  restore it is 1, which keeps the give-up. Two handlers give both orders of two reads
  and two batches; their names are interchangeable, so `SYMMETRY` is used there, in a run
  without liveness properties.
- *Playback.* One menu has the empty list, a one-item loop whose entry never ends its turn,
  its options changed, and a second item in front of it. The other has loops of three files,
  the least for playback to move on twice inside one push, in two orders, with one file's
  options changed, and without one of them. One death, two give-ups (first try and
  retry) and one restart each cut every push at every command.
- *Uploads.* Two requests and two parts are the least for a complete that must wait, a
  double PUT and two completes; `MaxPuts = 2` lets each part be replaced once.
- *MediaSync.* Three chunks give an empty, a started and an almost complete `.part`, of
  which a short object can also be one; two connections a failed and a resumed one. Two
  mishaps combine any two of crash, power cut, rot, damaged object, full disk, lost
  connection.
- *Console.* Two requests give every order of two reads and two writes. Three items, or three
  files, are the least for an order that can be broken; bodies of up to four events with and
  without the closing boundary give a token before, between and after two parts; days of
  four minutes and rules with every combination of start, end, weekdays and dates give
  windows that wrap, touch and tie, followed over nine days, more than a week. Three
  seconds of lock and two failures let a stamp leave the window while others stay.
  *Alerts* runs twice: two overlapping runs over one row (`FewAlerts`), and one run at a time
  over two rows of two kinds (`ManyAlerts`, `Kinds`), with a death (`MaxDeaths`) and enough
  time for a repeat (`MaxAlertTime`). *DeviceCodes* likewise: two tokens for one code
  (`OneCode`, `ManyTokens`), and two codes with one token and a limit of one an hour
  (`Codes`, `FewTokens`, `MaxPerHour`). *Ownership*: two requests between two accounts, and
  one at a time between three, with groups (`TwoAccounts`, `ThreeAccounts`; `AdminAccounts`
  have the role admin, `SiteAdmin` is one of them in both). Workers, devices and infrared names are
  interchangeable where `SYMMETRY` says so; the run has no liveness property.
- *Device.* Three cards: two of one size, two of one signature, so that each identity check
  has a card that passes it; two flashes and one swap. Two sign-ins and four starts of
  the flasher: an old token's answer meets a newer sign-in, an update fails twice. Two power
  cuts with any subset of the unsynced writes. Two nights in a window that wraps midnight,
  one cut, one failed marker, one command. Three changes of `want`, two failed sends, a
  restart.

Deadlock is checked in `Commands`, `Playback` and `MediaSync`. The others may really stop:
all requests are answered, a card is done, and the bounds are spent.

## 4. Fairness

- *Commands* (`EveryCommandCloses`). Weak fairness of the handlers' steps (a Worker
  finishes the request it serves), of the player's steps and of `Restart` (systemd), and
  of the end of a waiting sync, by answer or by timeout. Strong fairness of `StartSync`:
  a device that is up again and again does poll again and again. Nothing is assumed of
  result POSTs: they may all be lost. A device that stays away for ever is the daily
  job's business and is not assumed to exist here.
- *Playback* (`ContentComesBack`). Weak fairness of the daemon's loop and of
  `MpvStarts` (systemd). Nothing is assumed of files ending. mpv's deaths and give-ups are
  bounded: the property is about what happens after the last of them.
- *Uploads* (`SlowUploadsEnd`). Weak fairness of each request's next await; strong fairness of
  `AskAbort`, the daily cron's housekeeping, which meets a row again and again.
- *MediaSync* (`FilesArrive`). Weak fairness of `sync_once` and `Restart`. Strong fairness of
  `ObjectRepaired` (somebody puts a wrong object right) and of `VerifyDue`: the full
  verification comes, which the code guarantees to a daemon that lives 24 hours or is sent
  a force-sync. Connections may drop after every single chunk.

`Console` and `Device` state safety only: what must come next there depends on a person or on
the next cron, and the invariants say instead what must not be lost meanwhile.

## 5. The proofs

TLAPS proves the following for every value of the constants allowed by the named
assumptions of the modules, which TLC evaluates in the runs. Where a theorem has a
hypothesis of its own (`ASSUME ... PROVE`), it is said and explained here. Each part of an
inductive invariant was first checked by TLC on the instance of its run.

**CommandsProofs.** `TypeCorrect` is `Spec => []TypeOK`. `LedgerAlwaysAhead` and
`SelfKillingOnce` need `MaxIssued <= LedgerMax`, that is, that the ledger does not forget
an entry; they rest on `CommandsAssumption` and `NamesAssumption` besides.
`SelfKillingAtMostOnce` is not inductive: it says nothing about the moment between the
ledger write and the reboot, nor about what the ledger says of an id used twice. The
invariant that is, `LedgerAhead`, has four parts:

1. `StampsUnique`: wherever a command is mentioned (tables, backup, answers, ledger), its
   insert determines its id. So the pair (id, issued_at) the ledger compares tells
   commands apart although ids are used again. `Send` is the only step that makes a new
   pair, under a new stamp; every other step only copies.
2. `LedgerFaithful`: the ledger in memory holds all that is in the file and neither holds
   a command twice, so `_was_executed` answers about the file too.
3. `InHandNew`: a command taken up and still to be remembered is in neither. `Take`
   establishes it; memory grows only by `Remember`.
4. `RunsRecorded`: the runs of a self-killing command, the one about to happen included,
   are at most its ledger entry plus the writes that failed. `Remember` pays for the run
   before `Act` makes it, and the entry stays.

The last part gives `SelfKillingAtMostOnce` at once. The proof that a step keeps a part has a
lemma per part and a case per action.

Its second half is about what the console counts. `RunsAreDelivered`
(`RunsWithinDeliveries`) needs a count that is kept
at every step, also while a command is on its way. `RunsCounted` says of every command that
its runs, plus the one to come if it is in an answer, on the player's list or about to act,
are at most its row's count; that no handler's snapshot is ahead of the row; and that the
player is never handed a command twice at once. `Batch` is the step that pays: it counts
the row before its answer exists. `WorkCurrent` says that what is in flight belongs to the
tables as they are now, `Phases` which locals mean something where. The property speaks of a
console whose backup was not put back. `ResultMeansRun` (`ReportMeansRun`) holds with
restores as well: `SaidMeansRan` says of every ledger entry, result under way and closed
row that the command it names, told by its insert (`InsertsDiffer`), ran.

`PromiseIsKept` is the refinement `Spec => ImplementsPromise`, step by step: for every id the
initial state maps to an initial state of `CommandPromise`, and under `PromiseInv` (the
invariants above) every action is one of its steps for that id or a stutter. It needs
`MaxIssued <= LedgerMax` as above and `MaxRestores = 0`: a restored database takes a closed
command back to pending, which the promise forbids and the code cannot help.

**MediaSyncProofs.** `HasherCoversPart` is `Spec => [](TypeOK /\ TransferExact)`, from
`MediaSyncAssumption`. The two are inductive together: types need the index bounds of
`TransferExact`, and the agreement of hasher and `.part` needs their types. The clause on
"connect" is what makes a resumed transfer right: either the hasher has seen the `.part`, or
the lengths differ and `Resume` reads it again. `OnlyWholeFilesNamed` is `Spec =>
[]NamedFilesWhole`: a name is given by `Settle` or `FinishPart` only, and at both the bytes
hashed are those of the `.part`.

**UploadsProofs, MCUploadsBothProofs.** `Sound` is the types, the meaning of the requests'
locals at each await, and `ReceivedExact`, which are inductive together
(`EveryPartCounted`). That needs the parts to be finite, since `received` is their
cardinality. Then, on top of `Sound`:

- `RecordedEtagIsHeld` (`EtagsCurrent`) assumes `SlowWorkers = FALSE`: with slow Workers it is
  false, as two Workers then put one part with a claim each. `Fresh` (nobody else is about an
  upload whose row is still to be inserted) and `ClaimsHeld` (a Worker between its claim and
  its record still holds the claim, so nobody else puts that part, and the etag in its hand
  is R2's) make it inductive.
- `LibraryFileIsThere` (`LibraryHasFile`) and `SettledObjectKept` rest on `OneCompletes`, at most
  one request is between `uploadComplete`'s batch and its answer for one media row, and
  `FileThere`, which says of that await what is already true. Both properties speak
  of a library nobody deletes from and, the first, of Workers that do not die: section 7
  says what happens otherwise.

`MCUploadsBothProofs` carries them to the two cases of the run: "races" is `Uploads`
itself, "slow" an instance, and a step of one leaves the other's case alone.

**PlaybackProofs.** For any files, options, menus and lists, and any number of edits, deaths,
give-ups and restarts.

- `TypesKept` is `Spec => []TypeOK`, lost replies included. `TypeOK` alone is not inductive: that a
  swap's index is in the list it was recorded for needs `Phases` (what each place of the
  daemon presupposes of its locals), `Memory` and `Instances` (an mpv that is down holds
  nothing; a pid is never used again). Together they are `Typed`.
- `AppliedListKept` is `[](losses = 0 => AppliedListRight)`. A push is many commands and mpv's list
  is right only before and after it, so `Progressed` says for every place of a push or a
  swap how far the list has got: the entry that played and the items before `k`
  (`Appended`), everything in place (`Placed`), the first items of a full load (`Filled`),
  the list with the swapped entry doubled, taken out, put at the end. It speaks of an mpv
  the daemon has seen (`Mine`): one that died and came back is noticed by its pid before its
  list is believed. Every command must then lead from one of these to the next whatever file
  mpv has moved on to, which rests on what `Mpv`'s operators do to a list (`Moved`,
  `Cleared`, `Removed`, `Queued`, ...) and on a file being on a list once (`OnceAssumption`).
- `LoopOptionsKept` is `[](losses = 0 => LoopOptionsRight)`. `Truthful` adds the client's memory: what
  `_entry_options` holds of a file is what mpv has every entry of it loaded with, but for
  nothing recorded (`KnownTrue`), so is what a push read from it (`OldTrue`); a load never
  meets its own file still in the list (`LoadedBefore`), which is what fails for one-item
  lists (section 7); `OptionsInPlace` is `Progressed` for options.

Both hold in every state until the first lost reply, whatever `MaxLosses` is; with a lost reply
they are false (section 7). The run has `MaxLosses = 0`, for which the corollaries
`AppliedListRightKept` and `LoopOptionsRightKept` state the plain invariants.

**MCDeviceProofs.** One invariant per part of the run, and `DeviceSound`, their
conjunction under `part`. The two flashing parts are one parametrised instance,
`Disk(Windows)`, and have one proof. The assumptions are that the model's "nothing" is not a
value (`NothingAssumption`, `CardsAssumption`) and that the bounds are numbers.

- `OtherCardsStay`: `DiskTyped` and `DiskKept`, for any cards, flashes and swaps. `DiskKept` ties
  the disk number to the identity checks: from the check to the next swap the
  card in the slot is one that looks like the confirmed one, and `swapped` remembers.
- `DoneIsGood` assumes `MaxSwaps <= 1`: with two swaps the property is false, as the image and
  the first-boot files may then go to two cards. `DiskFinished` says place by place which
  card has been opened and mounted and what is on it by then, or that a swap has happened.
- `FlasherWayOn` and `SignInKept`: `AppTyped`, `PostsTyped` (posted callbacks name tokens the
  console issued, and rejected ones it revoked) and `AppWay`: wherever the window has no control to offer, a
  worker or a posted callback will give one back. `AppFetches` bounds the fetches of one
  failing update by a measure over what is saved and under way.
- `ProvisionIsSafe`: `FirstTyped`, `FirstClean`, `FirstReady`. A power cut may leave any subset
  of the unsynced writes, so the invariants speak of all of `maybe`: `FirstClean` that
  in every state a cut may leave "ok" comes without secrets, `FirstReady` that in each the
  commands of firstrun.sh still to run can finish the job. The order of the script is used
  as the number of commands left.
- `OutcomesReported` and `OneNightlyUpdate`: `UpdatesMarked` (what the marker and the
  daemon's memory say of a status), `UpdatesPaid` (for each outcome: its reboots and the one
  about to be made are at most one for its marker and one for each marker that failed),
  `UpdatesNight` (the start of the last nightly update can be read from its unit, then from
  its outcome). They hold for every window, gap and length of the day, midnight included.
- `ManifestIsFollowed`: `RemoteSound` and `ServicesSound`, at every state of the loop and not
  only at rest.

**MCConsoleLanProofs, MCConsoleProofs.** The same for the console's fourteen parts:
`PartsSound` has an inductive invariant per part, named after it, and `PartsHold` proves it;
the theorems on the run's nine invariants and its action property follow. The first module
has the LAN console's parts, the second the Worker's and the theorems. They hold for any
number of requests, devices, accounts, runs and codes. The named assumptions
(`LibraryBounds`, `ReceiveBounds`, `TableBounds`, `RemoteBounds`, `ThrottleBounds`,
`AccountBound`, `ScheduleBounds`, `OwnerNames`, `AlertBounds`, `CodeBounds`) say that bounds
are numbers, that what is counted is finite, that "nothing" is not a value, and what the
code grants: a first library has one row per content, a form's rules have distinct ids and
do not end where they start, `PROJECTOR_LEAD_MINUTES` is at most a day (config.py clamps it).

- `TablesStayRight`, `OrderStaysKept`: `LibrarySound` and `TableSound`. An id is never given
  twice, so what a request read before may be gone but never be another row. A playlist's
  positions are below the number of items ever made. `Renumber` gives an item the number of
  items before it (`NewPlace`), which grows strictly along `Before`: that is why a deletion
  and a removal keep every pair in order, also items with equal positions.
- `TokensWork`: with `TableSound`; `Given` and the write that makes it true are one step.
- `FormsReceivedWhole`: `ReceiveSound`. `Tallied` ties the receiver's counters to what has
  arrived, for any body; a refused block is counted and not kept. `Looked`: when a chunk is
  over, nothing is left to refuse.
- `CommandsAreKept`: `RemoteSound`. The deliveries of a row and the polls that will still add
  one (`Adding`) are within the limit together, which a poll that reads an unspent row keeps.
  `Learning`: a result alone with its device has read the codes as they are.
- `AccessIsSafe`: `AccessSound` (`AccessLasts`: one request at a time, and an admin it leaves
  alone) and `ThrottleSound` (`GuessesLeft`: the failures since a recent one, and the checks
  under way that may add to them, are within the bound; `RecentKept`: the list in memory has
  every recent failure).
- `SchedulesAreRight`: `TimesSound` and the arithmetic of days and minutes, for days and weeks
  of any length. `MatchesOn` is the equality of `ScheduleMatches` with its definition by
  intervals, `OpensAtStart` that a rule begins to match only where a window opens, so the
  least of the starts (`LeastOf`) is the next; `PickIs` that the rule picked is the one
  with none above it.
- `OwnersStayKept`: `OwnersSound`. `OwnerAsks` holds whatever crosses and gives `PlaysOwn`;
  `Fits` says of each await what a request read is still so, or is on the safe side: a
  handover that found a reference not to clear will find none.
- `AlertsAreTold`: `AlertsSound`. `RunAlone`: a run that nobody joined is alone. `RowTold` ties
  the table to what was told, with the run in between that has announced and not yet stamped
  (`Holds`); `RunTells` says what a run has in hand.
- `SignInHolds` (`CodesHold`, a conjunct of `AccessHolds`): `CodesSound`. `CodeRight` per code (its token waits in the row or was taken, at
  most once), `AskRight` per request and await (`InTime`, `ClaimsRight`, `DiscardsRight`,
  `PrunesRight`: what it read of the row may have changed in these ways only), `MintsRight`
  (a minted token is in one hand), `HourRight` (room for the one request that counted).

What the proof attempts changed in the models: in `LanReceive` two arms of a CASE were true of
one event, which leaves open what the definition says (TLC takes the first arm); the arms now
exclude each other, and the callbacks and the handler's checks are steps of their own. A
failure in `LanThrottle` is known by its place among the failures, a run of `Alerts` holds the
kinds still to be written as a set taken in order, and a reorder in `LanContent` names the
position of each id: the same behaviours, in a form that can be reasoned about.

Only model-checked, and why:

- Liveness (`EveryCommandCloses`, `ContentComesBack`, `SlowUploadsEnd`, `FilesArrive`): fairness and
  ENABLED are out of the prover's reach.

Every other property of a passing run is stated by a theorem, within the hypotheses and
assumptions said above.

## 6. What the models leave out

- *Commands.* What the actions do, texts of results, the vocabulary beyond one kind of
  each order, IR codes a result carries, several devices (rows of different devices do not
  meet), a player without `issued_at`. The ledger never overflows in the runs, nor
  where a theorem assumes `MaxIssued <= LedgerMax`.
- *Playback.* `_reconcile_mpv`'s reads of pid, playlist and activity are one step, as nothing
  is written between them. USB, overlays, decoder and render options, volume and
  screenshots are left out. In the passing runs no reply is lost while mpv is up
  (`MaxLosses = 0`): one lost reply is what `Playback_ContentComesBack` is about. A file of
  the list is on the disk.
- *MediaSync.* One response carries one object's bytes: the object does not change while it
  is sent. Backoff, error texts, free-space estimates, unsafe names and manifest fields
  other than the list are left out; a manifest that cannot be fetched changes nothing.
- *Uploads.* `uploadInit`'s three reads are one step. Validation, permissions, other accounts,
  the playlist item a complete may add. Files too large to verify are the case
  `intact = TRUE`.
- *Alerts.* One device and one account; the digest with its channels is one step that always
  counts as told (a failed channel is logged and never tried again); a device deleted or
  handed over during a run.
- *DeviceCodes.* One address; the pages, the account behind a token, the flasher's side (in
  `FlasherApp`, which polls until it is answered).
- *Ownership.* One device; the camera version, the tunnel and the Wyze bridge that a handover
  also resets; `ensureDefaultPlaylist` and `adoptOrphans`; a group's own playlist; the insert
  of a new id (`LanDevices` has the LAN console's).
- *The LAN console.* Names, durations, ffprobe's answers, the audit log, CSRF values (but
  where the stream checks them), rotation of the enrollment key, camera and projector
  settings of a device. `schedules.js` of the Worker is the same algorithm as `schedules.py`
  and is not mapped.
- *Flash, FlasherApp, Provision.* Image formats, sector sizes, PowerShell's and diskutil's
  output, forms and Wi-Fi lists, network and locale settings. In `FlasherApp` callbacks
  already posted run before the next click, and the flash thread is gone when `_finished`
  runs (both are 50 ms of `_pump`).
- *PlayerUpdates.* The install itself, its rollback (`--postcheck`) and `--recover`.
- *Projector, ServiceFiles.* The transports, the stream's address, the capture thread.

Not modelled at all, and why: `player/usb.py`, sessions, password resets and sign-up of the
Worker, its playlist, group and settings pages and `cloudflare.js` (planned, section 8);
`screens.py`, `screenshots.py`, `pi_info.py`, `config.py`, `camera.py`, the flasher's
platform helpers, and the plumbing of both consoles (rendering, capture, encryption, audit,
operating-system calls: I/O without a protocol of its own); `media.js` (it is `Served` in
`MediaSync`).

## 7. Findings

Each has a run.

1. `tools/flasher/flasher.py:1453`: an update that is ready while the erase question is up
   starts its install; the answer yes starts a flash under it.
2. `player/player/updater.py:130`: when the marker of a reported `update-os` cannot be
   written, the Pi restarts again at every start.
3. `player/player/status.py:43`: a lost reply to a status screen's loadfile leaves the screen
   on for good.
4. `cloud/src/uploads.js:264`: a request is told "Already in the library" by a row that is
   taken back.
5. `player/player/sync.py:457`: old files are removed before the new manifest is saved; dying
   in between leaves a cached playlist without files.

Seen while modelling, without a run of their own (what a property excepts is marked *):

Player.

- `status.py:34`: with an empty manifest, a screen mpv gave up on is not shown again, since
  `current` still names it.
- `mpv_client.py:219`: one-item lists can end with the wrong options and no stale entry to mend
  it. The list's options change from y to x, so the entry with x waits behind the one that
  plays; before it is swapped in, the manifest returns to y, and mpv moves on to the entry
  with x between the read of `path` and playlist-clear. The recorded options y are then those
  wanted, nothing is to be swapped, and x stays (mpv_client.py:202 says "the change
  takes effect on that item's next play"). `LoopOptionsRight` is therefore about menus without one-item
  lists*; TLC finds this behaviour when the hypothesis is dropped.
- A push that fails half way leaves `applied_hash` naming the list before it; a manifest
  that returns to that list is then taken for applied (covered by the full retry only if
  mpv ends up idle). Needs a lost reply.
- `commands.py:182-195`: force-sync, projector and ir-learn are remembered after they act, so
  power lost in between repeats them. The delivery limit bounds it
  (`RunsWithinDeliveries`).
- `README.md:200` promises a full verification every 24 h; the clock starts with the
  daemon, so one restarted daily never verifies.
- `updater.py`: update-os writes over the status of update-player: the nightly update may run
  twice in its window, or an outcome go unreported*. A crash between the marker and the
  reboot drops the reboot.
- `tunnel.py:41-43` says failures are retried; a restart of the service that is refused or cut
  off is not, since the file no longer differs. The camera bridge likewise*.
- `projector.py`: with a toggle, a failed transition withdrawn before its retry turns the
  projector the wrong way, and it stays inverted; a send that raised after it was
  transmitted is sent twice*.

Worker.

- `alerts.js:100`: an alert closed by a run that dies before its digest is never announced as
  recovered*, although `alerts.js:11-12` says the next run announces the rows of such a run.
  Overlapping runs announce an opening not yet stamped, and a recovery, twice*.
- `device_codes.js`: an approval that straddles expiry, a Worker that dies between the mint and
  the UPDATE, a row that turns an hour old between prune's SELECT and its batch, and a denial
  after an approval can leave a token without a taker or delete a taken one*; two requests
  for a code at the same time both pass the hourly limit*.
- `accounts.js:108`: an assignment, rule, registration or new token whose look and write are
  crossed by a handover can leave another account's reference, or the old account's card, on
  the projector*. The references do no harm: `device_content` joins them with the owner, and
  `PlaysOwn` holds without exception.
- `api.js:217`: `storeLearnedCode` reads, adds and writes back: two results at once lose one.
- A Worker that dies between `uploadComplete`'s batch and `mp.complete` leaves a media row
  without an object*.
- `library.js:114`: the object is deleted after the row; the same file uploaded again in
  between loses its bytes. TLC shows it in `Uploads` with `MaxDeletes = 1` and two uploads.

LAN console.

- Overlapping reorders and additions leave items with equal positions; ties are broken by id.
- `web.py:642`: the file is unlinked after its row is gone; the same content uploaded again in
  between loses its file.
- Two administrators who delete or demote each other at the same time leave none*; the Worker
  has the guard inside its statements.
- `api.py:480`: two learned codes at once lose one*.

Flasher and first boot.

- `find_boot_volume` looks at the disk number alone: on a Mac nothing catches a swap there*, on
  Windows the reveal does, except for another unfinished card of the same image*. The
  first-boot files are not read back.
- A flash registers the device before it writes: a flash that fails has ended the old card's
  token.
- A token rejected during a flash may not bring the sign-in box back while the flash thread is
  alive.
- `firstboot.py:250-261`: power cut between the zeroing and the removal of the provisioning
  script runs firstrun.sh again, which installs the zeroed script and still reports success*;
  after firstrun.sh is gone and before the boot arguments are stripped the Pi is stuck*; a
  copy that failed still wipes the script*; the player's installation is not synced before
  the script is removed*.

## 8. The plan

Done: the modules of section 2.

Done too: the proofs of section 5, for every safety property a passing run checks.

Next, proofs: what holds of `Playback` once a reply has been lost (the list at rest is right again
after the next successful full push).

Next, models: USB as an extension of `Playback`; tunnel provisioning (`cloudflare.js`), several
calls of which any may fail, with `ServiceFiles` at the other end; password resets and
sign-up; the Worker's playlist pages with `LanContent`'s properties; camera versions bumped
by two requests.
