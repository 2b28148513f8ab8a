# A TLA+ model of Bifrost

Bifrost keeps a handheld's ROM links and save files together with a RomM
server. This directory models the parts of it where the order of steps decides
whether a save survives, checks them with TLC on small instances, and proves
the most important facts for every instance with TLAPS. Paths below are those
of the repository; `save_sync.py:430` means `bifrost/save_sync.py`, line 430.

## 1. Inventory

| Component | State it keeps | Operations | Talks to |
|---|---|---|---|
| Save sync (`save_sync.py`, `cli.py:1598-1886`) | a preview per process; the save files, their `.bak` and `.part` | preview (scan, list, repair, negotiate), execute (upload, link, download), complete | RomM, the lock, the file system, the emulator through the files |
| Lock (`locking.py`) | one `flock` on `save-sync.lock` | take without waiting, release | every Bifrost process |
| HTTP client (`api/client.py`) | a connection; retry counters | requests with retries, pagination, cached collections | RomM, the cache |
| RomM's save API (not in the repository) | rows per (rom, slot), a sync record per (row, device) | list, track, negotiate, POST, PUT, GET content, confirm, untrack | every device |
| Play sessions (`play_sessions.py`) | a start marker per ROM, `pending.jsonl` | start, end, consume | the hooks, the completion of a sync |
| Watcher (`watcher.py`) | a debounce timer, the time of the last sync | on a change: (re)start the timer; when it rings: sync | save sync |
| Library cache (`cache.py`, `client.py:257-309`, `:608-778`) | `*.json` per collection, `cache_meta.json` with their stamps | get, set, delta merge, invalidate | RomM, library sync, save sync |
| Library sync (`cli.py:1207-1542`, `symlink_manager.py`, `launch_targets.py`, `multidisc.py`) | the links and playlists of the ROM directory | full, incremental, stale check: plan, apply in parallel, prune | the cache, the NAS mount, the user |
| Directory saves (`saves/folder_pack.py`, `saves/dir_map.py`) | directories of a memory card, their `.bak`, a staging directory, `dir_saves.json` | attribute, pack, unpack | save sync, the sessions |
| Savestate sync (`state_sync.py`) | state files | preview, execute | RomM |
| Gamelist (`gamelist.py`) | `gamelist.xml` | merge, write | the cache, ES-DE |
| Configuration, wizard, doctor, installers (`config.py`, `cli.py`, `preflight.py`, `data/`) | `config.toml`, unit files | load, edit, print | the user |

How they interact. ES-DE's hooks, three systemd services, a timer and the user
each start `bifrost save sync` as a process of its own. These processes share
the save files (with the emulator, which takes no lock), the lock and the
server. A process looks at everything *before* it takes the lock and acts on
what it saw while holding it. The hooks game-start and quit have an alarm that
raises `TimeoutError` at an arbitrary instruction.

`bifrost sync` and `bifrost gamelist` are run by a timer of their own, by ES-DE's
startup hook (incremental, killed after 15 s, with a stale check beside it) and by
the user. They take no lock at all: what keeps them from harm is how they plan,
look again, and merge. The cache's stamps tie them to each other and to the save
syncs, which list the ROMs too.

What is hard: plans that are stale when they are carried out; the three steps
(backup, write `.part`, rename) by which a download replaces a file; requests
that act although their answer is lost; the alarm, because `TimeoutError` is an
`OSError` and is caught wherever one is; processes that are killed; and a server
that discards an upload it has already without saying so. `PROJECT.json` lists
each of these hazards at its line.

What makes each component correct:

* save sync: files are never torn; what is overwritten is in the backup; what is
  put in place is what was fetched; the server does not believe the device has
  what it never had; hooks work in one direction; syncs converge;
* play sessions: each session is reported at most once, is not lost unless a
  step fails, and does not stay in the log;
* watcher: a change is eventually followed by a sync that saw it; syncs of the
  watcher do not overlap;
* cache: what is listed is what RomM had, as far as its stamps tell;
* library sync: runs converge to the cached listing, and nothing of the user's is
  touched;
* gamelist: the entries are those of the listing, and the user's tags stay;
* directory saves: whatever fails, the old or the new directory is there, whole,
  and belongs to the right game.

## 2. Plan

Done:

1. `RommServer`, `SaveSync`, `SaveVault`: the core.
2. `SaveSyncProofs`, `SaveSyncSafety`, `SaveSyncRecords`: the inductive invariant,
   then backups, hooks, records, and the refinement of `SaveVault`.
3. `Watcher`, `WatcherProofs`: debounce and cooldown with time counted in ticks;
   is a change ever forgotten, do runs overlap.
4. `PlaySessions` and `DirSaves`, composed in `GameHooks` because a directory is
   attributed by its session's start: two plays, hooks in the background, the
   timer. `GameHooksProofs`: the sessions' accounts and the directories;
   `AttributionProofs`: whose the directories are.
5. `RomLibrary`, `LibraryCache`, `LinkSync`, `Gamelist`, each on top of the one
   before and composed in `LibrarySync`: every command that mirrors the library,
   without a lock. `LibraryProofs`: folders and tags of the user.

6. `LinkProofs`: what `LinkPlan` returns, by an induction about sets; with it the
   types of `LibrarySync`, the user's files, game files of one name kept apart, and that
   what matches is left alone.
7. `DirVault`, the abstract specification of the directory saves, and its refinement.

Next:

8. BIOS and media links; an abstract "entries equal to the listing" for `Gamelist`,
   over which its merges could be compared.

## 3. Modules

| Module | Models |
|---|---|
| `RommServer` | What Bifrost relies on of RomM's save API: a slot as a record, an operator per request. No state of its own. External: read off `client.py` and the comments of `save_sync.py`. |
| `SaveSync` | The command `save sync --apply`: processes, lock, files, server, emulator, user and other devices. |
| `SaveVault` | Abstract: the save files beside their copies. |
| `SaveSyncProofs` | The inductive invariant of `SaveSync` and what follows from it. |
| `SaveSyncSafety` | Hooks, backups and the refinement of `SaveVault`, proved from it. |
| `SaveSyncRecords` | That confirmed downloads keep the server's record behind the disk. |
| `Watcher` | `bifrost save watch`: observer, debounce timer, cooldown, the command it runs. |
| `WatcherProofs` | The theorems about `Watcher`. |
| `PlaySessions` | `play_sessions.py`: markers, the log, what RomM recorded. |
| `DirSaves` | `folder_pack.py` and `dir_map.py`: the card, `.bak`, staging, the map, RomM's archives. |
| `GameHooks` | Composes both: ES-DE, its hooks, the timer, the lock. |
| `DirVault` | Abstract: the directories of a card beside the one spare of each. |
| `GameHooksProofs` | Its types, five safety properties, and the refinement of `DirVault`. |
| `AttributionProofs` | That directories stay with their games. |
| `RomLibrary` | RomM's library of one platform and the NAS. External. |
| `LibraryCache` | `cache.py` and the listings of `client.py`. |
| `LinkSync` | Plans, removals, evaluation and application of links; playlists; the orphan folder. |
| `Gamelist` | The two merges of `gamelist.py`. |
| `LibrarySync` | Composes the four: the commands as processes, RomM, NAS, user, faults. |
| `LibraryProofs` | The user's folders and tags stay. |
| `LinkProofs` | What the recursive plan of links returns; the types of `LibrarySync`; the user's files stay; game files of one name are kept apart; a directory that matches is left alone. |
| `MCSaveSync`, `MCWatcher`, `MCGameHooks`, `MCLibrary` | Model values, scenes and symmetry for the runs. |

### How `SaveSync` corresponds to the code

A *save* is one (rom, slot) pair with its local file. A *content* stands for a
file's bytes, or for their hash. RomM keeps one row per content of a slot, so
rows are named by their content. A process is a record:

| Field | Code |
|---|---|
| `pc` | where it is: `survey`, `negotiate` (build_save_sync_preview), `lock`, `next` (the head of the loop over operations), `lookup`, `link`, `post` (an upload), `get`, `backup`, `part`, `replace`, `confirm` (a download) |
| `kind`, `scope` | how it was started; the ROM of `--rom-path`, or all |
| `snap` | the content hashes of the local files it negotiated with; after the locking, those of the second scan (`local_index`) |
| `view` | the indexed listing: the row a file name leads to, whether this device is current on it, the untracked rows |
| `todo`, `cur` | the operations left, the one under way |
| `buf` | an upload's hash, a download's bytes |
| `timed_out` | history: the alarm has rung |

Every action is one request or one file operation with all that follows from it
in memory; between any two of them the other processes, the emulator and the
server may act. Start covers the timer, the watcher and the startup hook
(`timer`), the hooks, a terminal (`manual`) and `--resync`. Operations are taken
up in any order: the server lists them in its own. What survives of the answer
of the negotiation is in `Kept`: untracked rows, uploads of what the listing
shows, and a hook's other direction are dropped. `Resolve` is the conflict
resolution of CLI and executor together. `Request` lets a request be answered,
be lost, or act and lose its answer; the attempts of `_request` are one request,
for repeating any of these changes nothing.

Failures are actions: a failing request of the preview (`Abort`), a kill
(`Crash`, which may leave a `.part` cut short), and the alarm. What the alarm
does depends on where it rings, and there is one action for each way the code
treats it: it ends the command, fails the operation, is swallowed by the backup,
is swallowed by a scan, or is turned by the HTTP library into a transport error
that `_request` retries.

History variables: `held` (every content the file ever had here) and `fresh`
(saves the emulator wrote since their last backup). No action reads them.

### How `Watcher` corresponds to the code

`changes` counts what happens to save files, `noted` how much of it the observer
has passed to `trigger`, `synced` how much a sync of the watcher has carried. A
`threading.Timer` is a thread with a label: `armed` while it waits (`left` ticks),
`rung` once nothing can cancel it, then in `_run_sync`: `starting`, the sync
(`scanning`, `locking`, `syncing`, a sync of which only that much matters here),
`ended` when `subprocess.run` has returned, and `off`. `cool` is what is left of
`_COOLDOWN_SECONDS` since `_last_sync_time`; the clock counts from the boot, so
the watcher may start cooling. inotify and polling differ only in how many
changes one notice covers. A restart loses the threads, and what changes while
the service is down is never noticed; `given_up` records this, and every run
refused or failed, as history. Two processes are abstracted by their effect: the
watcher's sync (its detail is `SaveSync`) and any other holder of the lock.

### How `GameHooks` corresponds to the code

Sessions are numbered, the number standing for the start time; the game-end hook
of a session is the process of that number. ES-DE waits for the game-start hook
(`exec`, `cli.py:3013`) and not for game-end (`setsid`, `:3021`), so that the next
game starts beside it: `phase` and `played` say where ES-DE is. A process first
records (`truncating`, `marking`: `write_text` truncates before it writes; `ended`
to `unmarking`), then previews (`surveying`, and `learning`/`mapping`, the two
halves of `remember_dir`), plans, takes the lock or ends, carries out at most one
operation, and completes (`consuming`, `removing`, `completing`). Unpacking has a
step per file-system call that others can see: `clearing` the staging directory,
`extracting`/`filling` it, and for each directory `swapping` (the older `.bak`
goes), `backing`, `moving`.

A *scene* fixes which games are played, how many of their sessions are over and
what markers those left behind, whose each directory is, what lies on the
card and in the map, and which events (another device's save, failures, crashes)
happen how often; TLC checks all scenes in one run. A marker is left behind when
the hook was killed or its record failed: `RecordFails` is the handler of
`cli.py:1652`, which swallows the error and goes on. A game-end hook that is late may
unlink the marker between the two halves of the next session's `write_text`, which
then writes a file that has no name any more (`Mark`).

History variables: `ended`, `twice`, `kept`, `lost` (entries of the log), `had`
(directories), and `blurred`: directories that came into one of the windows in
which the code may mistake their game: their own game saved beside the hook of an
earlier session (`Blurs`), or saved after the session whose old marker a hook reads
as its own (`Misdated`), or they were moved in and not yet mapped, or their entry of
the map was written over (`Move`, `Remember`). A failing transfer empties the staging
directory (`finally`, `folder_pack.py:123`); a crash leaves it.

### How `LibrarySync` corresponds to the code

One platform. A *name* is a `fs_name`, a file or a folder; `Inner` says which game
files of a folder ES-DE launches. A *target* is what a link points at, a *dest*
the name of the link. RomM numbers its ROMs, keeps the id when a file becomes a
folder, and stamps what changes. Time stamps are abstracted by what they are asked
for: `behind` and `unapplied` hold the ROMs changed since `fetched_at` and since
`last_applied`; stamping "now" empties the set.

A command is a process: `caching` and `stamping` are the two halves of
`BifrostCache.set`, `listed`/`planning` the plan, `applying` the thread pool and
the loop beside it (links evaluated and made in any order, then playlists,
removals, the orphan folder, as `_sync_apply_ops` and `all_ops` order them; what others
can come between is a step of its own: the look at what is in the way, `CheckLink`, its
unlinking, `UnlinkOld`, and `symlink_to`, `MakeLink`; `CheckRemoval` and `Remove`, with
`cut` the entry a removal has looked at; a kill may fall between any two),
`merging`/`finishing` the cache and stamp of an incremental sync, `entries` to
`writing` its gamelist or that of `bifrost gamelist`; `checking` is
`--check-stale`. `bifrost-sync.service` runs its second command only when the
first has ended without an error (`failed`): a link that somebody else made first, or
an entry that is gone when it is unlinked, is an error too, and so is a full disk under
`set_last_applied` (`FinishFails`), which no handler is around.

The firmware and platform listings appear only through the stamp they move
(`MaybeStamp`). The orphan folder of another platform is `clean`, `mixed` (with a
file of the user) or `gone`; `forced` is the user's consent to remove a mixed one.
`owed`, `late` and `risked` are history: marks that no race or crash put at risk, a
file the user kept after the re-check, and the names where he put a file between a
command's look at the entry and its unlink, where the code removes it: `risked` says
that no other window loses one.

### Assumptions

* RomM: POST of content the slot has is discarded and links nothing
  (`save_sync.py:388-397` says so); it may store a row without its sync record
  (`:762-766`); the verdicts of the negotiation compare heads, hashes and
  times, so that a file that holds content the device synced before may be
  called a conflict; it names only the newest row.
* `LinkRefreshes`: a PUT without a file makes its row the newest. The check of
  `Converges` needs it: with `LinkRefreshes = FALSE` TLC finds a device that
  resolves the same conflict for ever by linking an older row that never
  becomes the newest. The safety checks and every proof hold for both values.
* A process writes a `.bak` atomically (`.bak.tmp` and rename), so `.bak` is old
  or new. Nothing is synced to disk by the code: power failures that lose what
  the kernel had not written are outside the model.
* `romm.legacy_upload_fallback` and `sync.autocleanup` are off, their defaults.
  With autocleanup the server may delete rows, and `PlanExists` would not hold.
* The hash of a file is its content: no collisions, and the scan that hashes a
  file is one step.
* The survey's listings and repairs are one step.
* RomM reports ROMs changed since a stamp exactly, one ROM has a folder or file
  name, and a completion it accepts is recorded at once. A completion retried
  after its answer was lost (`client.py:896`) finds the session finalized, so that
  it counts as one.
* No folder holds a game file of its own name (`LibraryAssumption`): a target names
  the file in the folder, or the folder itself.
* The hook's `--rom-path` names exactly one ROM; the second `list_roms` of a sync
  is the copy in memory; `write_text` and `chmod` of the cache's `.tmp` and its
  renaming are one step, and so is a read-modify-write of `cache_meta.json`.

## 4. Runs

| Run | Question | Instance |
|---|---|---|
| `save_sync` | Do files stay whole, backups cover, records stay behind the disk, hooks one-way, and does every step keep the vault? | two processes, one save, three contents, five kinds of start, lost requests, crashes, full disks and orphan rows, four events; downloads confirmed |
| `save_sync_alarm` | Does the alarm, ringing anywhere, or a failing backup break the inductive invariant `SafeInv` (whole files and what a download lands among its parts), or turn a hook round? | two processes, two saves, two contents, optimistic downloads, three events |
| `save_sync_live` | Do file and server agree in the end? | two processes, one save, two contents, lost requests and crashes, three events |
| `backup_fails` | Does a download wait for its backup? No. | one process, a failing backup |
| `timeout_goes_on` | Does a timeout end the sync? No. | one process, two saves |
| `pull_only_uploads` | Does `direction` restrict a sync? No. | one process, `pull_only` |
| `quit_does_not_pull` | Does the quit hook pull? No. | one process |
| `watcher` | Is a change ever forgotten, do transfers overlap, does a timer ring too soon, is each change dealt with? | three threads, three changes, quiet window of one tick, cooldown of two, failing runs, restarts, a busy lock |
| `watcher_cooldown` | Does a sync of the watcher carry every change? No. | two threads, two changes, nothing fails |
| `game_hooks` | Are sessions reported once, kept and not mixed up, do they drain, do directories survive, whole and with the right game, is none written over? | two sessions of one or two games, in one scene after a third that left its marker; two directories, the timer, six scenes |
| `library` | Does what is the user's stay, are game files of one name kept apart, is what matches left alone, and do links, playlists and gamelist follow the cached listing in the end? | two ROMs, among a plain file and two folders that hold a game file of its name (one of them two discs), the timer and another process, eight scenes |
| `full_sync_drifts` | Does the timer's full sync correct what incremental ones missed? No. | one ROM, the timer and the startup hook, two events |

The bound `MaxEvents` counts edits, deletions, untracking, other devices'
uploads, hooks, manual syncs and faults together. `timer` and `quit` starts are
not counted: a process may sync any number of times. Three contents tell apart
what was fetched, what lies on disk and what a third party wrote; two processes
are all that can differ for one lock (a third would be refused just the same);
two saves are needed where one operation follows another. Four events suffice
for the longest story the properties tell: play, another device's upload, a
crash in the download, a second sync's fault. The instances with `Symmetry`
check safety only.

In `watcher`, a change takes up at most one thread, so that three threads never
keep a notice waiting for three changes; three changes make two runs overlap
while a third timer waits. The window is shorter than the cooldown, as in the
code; theorems cover other lengths.

In `game_hooks` the timer may sync any number of times; the scene's `left` bounds
failures, crashes and other devices' saves. Two sessions are what a background
game-end and the next game need; a third, over before, is what leaves an old marker; a
directory per game shows an attribution to the wrong one, two directories of one game show an unpacking that stops between them.
In `library` the timer's commands repeat without bound, while `left` bounds the
other process's commands with the events. The scenes put together what can
meet: two folders that want one name; the timer against each command of the
startup hook, and against a save sync, which writes the cache too; a lost NAS or
full disk while the library changes; two full syncs that prune while the user
works in the directories; two writers of `gamelist.xml`, with marks and kills. A
scene with everything would be larger and tell no more apart: the processes share
only the cache, the links and the list, and each scene has every writer of one. ROMs are
renamed, so that a file becomes a folder that holds it (`README.md:475`), two folders
want one name, and a folder's game file has the name of a plain ROM beside it.

Deadlock is checked in every run but those of `LibrarySync`: a process can always
be started, and time always passes. There an incremental command is bounded by
`left`, and a scene without the timer ends when its events do.

Properties (each with the mutant of the code that breaks it in `PROJECT.json`):

* `NoTornSave`: a file or backup never holds a half-written copy. A mutant that
  resumes a leftover `.part` breaks it.
* `BackupCovers`: a download about to land finds in `.bak` the file it overwrites,
  unless the emulator wrote it since. It rests on the lock, and on backups that
  do not fail: the run `backup_fails` shows the latter.
* `LandsWhatItFetched`: all processes write the same `.part`; with the lock
  ignored one renames the other's bytes.
* `RecordedOnlyIfHeld`: with `optimistic_downloads = false` the server's record
  never runs ahead of the disk. With optimistic downloads (the default) it does,
  by design: the GET marks the row before the file is written.
* `HooksOneWay`, `KeepsVault` (the refinement of `SaveVault`), `Converges`.
* `NothingForgotten`: while the last change is not at RomM, it is still to be
  noticed, a thread is still to look at it, or a run was refused or failed after
  it. A timer that would not be set anew beside a run in progress breaks it.
* `TransfersExclude`: runs overlap (the cooldown counts from the end of a run), and
  only the lock of the sync keeps their transfers apart.
* `Debounced`, `TimerInv`: an uncancelled timer would ring too soon.
* `DealtWith`: every change is carried or given up, in the end.
* `ReportedOnce`, `SessionsKept`: what the log, the syncs that took it away and RomM
  hold are compared. With a lock that anyone may take two syncs send the same
  entries; a log opened for writing loses one. The four windows in which the code
  does lose or repeat entries are in `kept` and `lost`, at the actions they open in.
* `PendingDrains`: a logged session is taken by some sync. A lock that outlived its
  holder breaks it.
* `EntriesOfOneGame`: hooks overlap, and a late one reads, logs or removes the marker of
  the next session; what an entry holds then is at least two sessions of one game, and
  each end once. A marker that games shared would break it.
* `KeepsDirVault` (the refinement of `DirVault`) is about steps: nothing that is in place
  is ever written over, and no spare thrown away without the directory in place. An
  unpacking that replaced a directory the game made between the two renames breaks it,
  and breaks none of the next two.
* `NeverNowhere`, `DirsWhole`: removing the old directory instead of renaming it, or
  a staging directory that is not cleared after a crash, breaks them.
* `AttributedRight`: outside `blurred` a directory belongs to its game or to none. A
  hook that took any unknown directory for its game's breaks it. It is also what
  says that `blurred` has all the windows.
* `UsersFilesStay`, `UsersFoldersStay`: plans are old when they are carried out. A
  replacement that unlinks what the evaluation saw, without the second look
  (`symlink_manager.py:693`), a folder removed without the second scan, break them. What
  the user puts between the last look and the removal is excepted by `risked` and `late`.
* `OneGameFilePerName`: folders may hold game files of one name, and the thread pool makes
  links in any order. A plan that did not ask who claimed a name breaks it. It does not
  say that a name has one operation: a folder's game file and a plain ROM of its name
  may both be planned (section 6).
* `SettledIsLeftAlone`: the planned links, the removals and the evaluation judge a link by
  three different tests; where the directory matches the listing all must agree that there
  is nothing to do. Removals that go by the plan alone (an unplanned link goes, whoever's
  it is, and a planned one stays, broken or not) break it: a link of the user's own to
  another place belongs to a directory that matches.
* `FavouritesKept`: between a read of the list and its write lies everything else. It
  is about marks made while nobody was writing.
* `LinksFollowCache`, `GamelistFollowsCache`: in the end, whatever happened before, the
  timer's runs leave exactly the links, playlists and entries of the cached listing
  (and leave them: `<>[]`). Removals that go by the plan alone leave a planned link that is
  broken. The cached listing may be older than the NAS: a name planned for a file that
  is not there keeps whatever link it has. They except listings that want two links under one name
  (`Disputed`): those links may replace each other in every sync, and a sync that
  fails on one keeps the timer's gamelist from running. Nor do they say that a ROM
  whose folder cannot be read keeps its link (`README.md:481`): it does not (section 6).
* `FullSyncCorrects` (README.md:244) fails: see section 6.

Fairness. `Converges` is checked under weak fairness of each process's own steps
(a process that is not killed runs on) and of starting full syncs
(`bifrost-save-sync.timer` fires every two hours). No fairness is assumed of the
emulator, the other devices, or that a fault happens; faults end because events
are bounded, which stands for "once things calm down". `DealtWith` assumes that
time passes, that the observer is told of changes, and that threads and the
command run on (it is killed after 300 s); nothing of the lock's other holders.

`PendingDrains` assumes weak fairness of every process's steps and of the timer's
sync (`bifrost-save-sync.timer`); nothing of ES-DE, the games and the faults.
`LinksFollowCache` and `GamelistFollowsCache` assume the steps of running commands, the
timer's two commands (`bifrost-sync.timer`, two `ExecStart` lines of
`bifrost-sync.service:10-11`), that TTLs pass, and that the NAS comes back: without
it every command ends at its preflight. The other process's commands and every
event are bounded by the scene, which stands for "once they stop".

## 5. What is proved

`SaveSyncProofs` proves for every number of processes, saves and contents, and
every setting, with all faults allowed:

* `Safe`: `Spec => []SafeInv`;
* `Typed`, `NeverTorn`, `Lands`: the invariants `TypeOK`, `NoTornSave` and
  `LandsWhatItFetched` of the run `save_sync`.

`SafeInv` is the inductive invariant. Torn bytes reach a file only through a
`.part` of another download; so one must know what the `.part` holds when it is
renamed (`TransferReady`: the row fetched), that nobody else wrote it since
(`LockHeld`: a process from locking to end is the lock's only holder), that the
row exists and so is a content (`PlanExists`, `HeadExists`: plans name rows of the
server), and that the server loses no row (`ServerGrows`, shown for each of its
operators). The lemma `StaysReady` says what a step of one process leaves to the
others; `OneMoves` reduces the step of a process to its own part; then there is
one lemma per action. The only assumption is `ConstantsAssumption`.

`SaveSyncSafety` adds, from `SafeInv`:

* `HooksKeepDirection`: `HooksOneWay`, with the invariant that what a hook has left
  to do, and is doing, has its direction: the filter after the negotiation, the
  fallback, and the conflict resolution are each shown to keep it;
* `BackupsCover`: `BackupCovers`, under `BackupsSucceed` (the faults are without
  failing backups and alarms, either of which it swallows; the run `backup_fails` shows that it is needed). Between
  a process's backup and its rename no other process is in that window (the lock),
  and an emulator that writes marks the save as fresh;
* `ImplementsVault`: under the same assumption every step of `SaveSync` is a step of
  `SaveVault` or leaves its variables alone.

`SaveSyncRecords` proves `RecordsAreHeld`: `RecordedOnlyIfHeld`. Its invariant adds
that what a process is about to record (the hash it uploads, the row it confirms)
is a content the file had, in every stage of an operation, whatever a lost answer
made the server do.

`WatcherProofs` proves `ForgetsNothing`, `OneTransfers` and `RingsWhenQuiet` for any
number of threads and changes and any lengths of window and cooldown. The
invariant is `WatchInv`: the properties themselves, and that the only timer that
waits is the debouncer's own and lacks what the quiet window lacks.

`TimersInOrder` states the part of `WatchInv` about the timer as a property of its own.

`GameHooksProofs` proves for every number of games, sessions and directories, and
all scenes:

* `TypesKept`. The invariant is `HooksInv`: types, that a process in a label has
  what the label needs (`Fit`: the game-end hook has its own session, what is under
  way has an operation and a directory), and that a process in a label after
  the lock is its holder (`Holds`). One lemma per group of actions says what a
  process becomes (`...Moves`), one that this fits (`...Fits`).
* `SessionsReportedOnce`, `NoSessionDisappears`. `Fresh` says that the entry a hook
  is about to log was not logged before (a session ends once); `Accounts` says
  where the entries are: those in the log and not at RomM except `kept`, those a
  sync took no longer in the log except `kept`, and only the lock's holder has any.
* `EntriesBelongTogether`: `EntriesOfOneGame`. `EntriesInv` adds that a game's marker names a
  session of that game, and that a hook's session, and what it is about to log, are of
  its game (`Fitting`); that an end is logged once is `Fresh`.
* `DirectoriesSurvive`, `DirectoriesWhole`. `DirsInv` has the properties themselves,
  with what lies in the staging directory at each label of the unpacking (nothing,
  then partial directories of its archive only, whole ones from `swapping` on), and
  that a directory about to become a `.bak` is on the card; only the lock's holder
  unpacks (`UnpacksAlone`), so that no other process disturbs it.
* `ImplementsDirVault`: `KeepsDirVault`. Initial states map to initial states, the removal of
  a `.bak` and the two renames to `Discard`, `Spare` and `Bring` by `DirsInv`, `Play` to `Write`
  (the directory then holds the running session's version and no other), starting and
  quitting to `Begin` and `End`; every other step leaves directories, `.bak` and the running
  session as they are (`Stutters`).

`AttributionProofs` adds, from these invariants, `AttributionRight`: `AttributedRight`.
`AttributionInv` says that every archive at RomM, every directory a process has to
remember, pack or put in place, and every entry of the map is the right game's or
blurred (`Right`), and that a hook which still has to look at the card cannot go
wrong: whatever unmapped, unblurred directory it will find changed since its
session's start is its own game's (`Knows`). The step lemmas split a step into what it
leaves to the other processes (`Tame`: nothing unmapped and unblurred appears or
changes) and what its process turns into; only `Play` changes such a directory, and
then it blurs it for the hooks that would see it. Read from the code's side: the
windows listed in `blurred` are *all* the ways in which a wrong game can be written
down, for any number of sessions and processes.

`LibraryProofs` proves for every library, number of processes, and all scenes:

* `FoldersStay`: `UsersFoldersStay`. `FolderInv`: while a process has scanned the
  folder again and not removed it, the folder is not mixed, or `late` is true.
* `TagsKept`: `FavouritesKept`. `ListInv`: every list somebody holds in memory has all
  the marks owed, and so has the file unless somebody is between truncation and
  write; reading beside another writer, and a kill in between, owe nothing more.

`LinkProofs` adds, for every library, NAS and listing:

* what a plan returns. `LinkPlan` is a function defined by recursion on the numbers of
  the ROMs. The library's induction theorems take a predicate, which the provers cannot
  instantiate; `UpTo` states the same induction about a *set* of numbers, from the
  well-foundedness of `<` on the naturals (`WFMin`). With it `PlansExist` (there is a
  function with the recursion's equations), `LinkPlanIs` (so `LinkPlan` has them), `PlanTargets`
  and `PlanFits`: of a plan's links no two for one name are of game files in folders
  (`Distinct`);
* `TypesHold`: `TypeOK`, which is inductive as it stands once plans are typed;
* `OneGameFileForAName`: `OneGameFilePerName`. `HandInv` says that the operations a process has
  left and those queued for the thread pool are together `Distinct`, and that
  nothing is queued but while they are applied; a plan starts that way (`PlanFits`),
  evaluating moves one operation from the first set to the second, or drops it, and
  carrying one out changes the stage it is at;
* `FilesStay`: `UsersFilesStay`. A part of `HandInv`, `AimsOK`, says of every operation and
  removal that has looked and not yet unlinked (`Aims`) that a link, or nothing, is there,
  or a file the user put there in between (`risked`). A look establishes it, whatever the
  age of the plan; the unlinks and links of the other processes put no file there
  (`LinksStay`), and the user's step adds to `risked` what it disturbs (`OutsideAims`);
* `SettledStays`: `SettledIsLeftAlone`. It needs `LinksOwn`: a link in the directory that is
  Bifrost's stands under the name of its operation; then a link that matches is one of
  the plan, whose file is there, or stands for one whose file is not, and neither the
  removals nor the evaluation want it.

The assumptions are those on the constants: `LibraryAssumption`, `LinksAssumption`,
`GamelistAssumption`, `SessionsAssumption`, `DirsAssumption`, `HooksAssumption`,
`SyncAssumption`, `ScenesAssumption`.

Only model-checked: liveness (`Converges`, `DealtWith`, `PendingDrains`,
`LinksFollowCache`, `GamelistFollowsCache`), which is out of the prover's reach. Every
safety property of the passing runs is the subject of a theorem.

## 6. Disagreements met

* The alarm (`cli.py:1587`, "Hard timeout in seconds; exits 0 on expiry") is
  swallowed by `except Exception` (`save_sync.py:1351`), the backup (`:439`) and
  the scan (`:210`), rings once, and the sync goes on without limit.
* `[sync].direction` reaches only the fallback of the negotiation
  (`save_sync.py:876`, `:901`).
* `README.md:223` promises a full sync at quit; `cli.py:100` makes it upload-only.
* `README.md:435` promises a backup; `save_sync.py:439` goes on without it.
* `README.md:311` promises that saves reach RomM within seconds of being written;
  `watcher.py:40` drops a change whose quiet window ends within the cooldown, and
  nothing runs until another file changes (the timer unit syncs within two hours).

* `README.md:244` promises that the 6 h timer's full sync corrects drift. A full sync
  lists the ROMs from the cache or by a delta since its stamp; stamps are taken
  when the cache is written (`cache.py:170`, `:184`), not when RomM answered, and
  two processes write over each other's `roms.json`. A ROM that appears in between
  is in no later delta, and no full sync links it until RomM changes it again or
  the cache is invalidated (`full_sync_drifts`).

Met and modelled, without a run of their own (they are among the hazards): every
delta write drops `id_set` (`cache.py:178`), so that `--check-stale` ends at once
(`cli.py:1246`) and deleted ROMs stay listed; when the NAS is lost after the preflight,
folder ROMs leave the plan and their links are removed, although `README.md:481`
says the ROM is left as it is; a conflict about a directory save is uploaded
outside a session (`save_sync.py:914`, `README.md:420`).

Met in a proof, and in the run `library` (`Disputed`): `claimed` keeps two folders with a
game file of one name apart (`symlink_manager.py:127`), but not a folder and a plain ROM:
where `Game`, which holds `Game.chd`, is listed before a plain `Game.chd`, the plain ROM finds
its name claimed, falls back to "its folder link" (`:137`), which is the same name, and both
operations are planned. The order of the thread pool decides where the link points, and
the next sync may turn it round. A sync in which one is evaluated before the other is
made fails on it (`FileExistsError`, `:700`) and exits with an error, after which
`bifrost-sync.service` does not run its second command, `gamelist`. Listed the other way
round nothing is wrong.

## 7. Not modelled

* Save sync: cross-core routing and file naming (a save's name always leads to its
  slot), counters, which paths the watcher ignores, `legacy_upload_fallback`,
  `autocleanup`, and a RomM that does not know the negotiation and answers 404 or 405
  (`save_sync.py:896-903`): every start then compares as `--resync` does, which is modelled.
* Hooks: a torn append or read of the log, two directory operations in one sync,
  two emulators, archives of the older single-directory form, directory names
  that are unsafe in an archive.
* Library: BIOS and media links, links made by older versions for directories,
  flat files as discs of one game, several platforms, contents of playlists and
  errors in writing them, `rmtree` that stops half-way, `--no-cache`, the metadata
  of an entry, XML text. In `gamelist.xml` a truncated file is an empty one.
* Savestates (`state_sync.py`): no command reaches them (`README.md:231`).
* Configuration commands, the wizard, the doctor, status output, installers,
  logging and parsing hold no state that interleaves with anything.
