# ScreenSpace: a TLA+ verification project

ScreenSpace is a macOS live-wallpaper application (`src/app`, Swift) with a
server (`src/server`, Go) on which users share wallpapers that administrators
review. This directory holds TLA+ models of the program, the TLC
configurations that check them on small instances, and proofs for instances of
any size. Paths below are relative to the repository root, `src/`.

Contents: [inventory](#1-inventory), [modules and how they follow the
code](#2-modules), [runs](#3-runs), [proofs](#4-proofs),
[disagreements found](#5-where-code-and-documents-disagree),
[what is not modelled](#6-not-modelled), [plan](#7-plan).

## 1. Inventory

### Server

One Go process (`server/main.go`). Every HTTP request runs in a goroutine of
its own: request id, recovery and CORS, then per-IP rate limit, then for most
routes `Auth` (JWT), `BannedCheck`, per-user rate limit and, for `/admin`,
`Admin`. Handlers call services, services call sqlc-generated queries
(PostgreSQL) and an object store (S3). **No call is part of a transaction**, and
no `UPDATE` has a condition other than the id: every check-then-act in the
server can be overtaken.

| component | state | operations | hard behaviour | correct when |
|---|---|---|---|---|
| wallpaper pipeline: `service/wallpaper.go`, `handler/wallpaper.go`, `service/video.go`, `storage/s3.go`, parts of `handler/admin.go` | `wallpapers` rows, objects `wallpapers/<id>/...`, temp files of a running Finalize | Create, upload to a presigned URL, Finalize (download, probe, validate, generate, put, update), Approve, Reject, Download | overlapping and retried requests; write timeout of 30 s shorter than a Finalize; a failure at any of eight calls; process killed | a reviewed wallpaper is servable and within limits, statuses move forward only, failures leave a retriable row, no file is leaked |
| accounts, sessions and bans: `handler/auth.go`, `middleware/auth.go`, `middleware/banned.go`, `service/auth.go`, user operations of `handler/admin.go` | `users` rows (role, banned), issued tokens, `BannedCache` | Register, Login, Me, BannedCheck, ban, unban, promote | cache filled from a read that an eviction overtakes; token role never re-read; UPDATE that reports an error after it took effect | a ban takes effect and stays in effect, a wrong verdict goes away, only admins administer |
| rate limiting: `middleware/ratelimit.go` | one `{count, windowEnd}` per key, under a mutex | `Allow`, `PerIP`, `PerUser` | boundary between windows, limit 0, refusals and `Retry-After` | the quota bounds the traffic, nobody is refused without cause |
| listings and review queue: `handler/wallpaper.go` List/Popular/Recent, `handler/category.go`, `handler/admin.go` Queue, ListWallpapers, ListUsers | none of their own; read several rows in several calls | a page and a count in two queries, in either order; pagination clamped to the configuration | rows enter and leave between the two; overtaken reviews; offsets beyond 32 bits | pages fit their totals, public lists name what can be opened |
| favorites: `service/favorite.go` | `favorites` rows | Toggle, ListByUser | check then insert/delete without a transaction, against a primary key | the answer is what the table says |
| reports: `service/report.go`, `handler/report.go`, `handler/admin.go` | `reports` rows | Create, list, dismiss | a report dismissed between page and count | page and total agree up to those |
| seeder: `cmd/seed/seed.go` | rows and objects of the seed accounts | run (idempotent) | interrupted between row and objects, run again | a second run completes the first |
| assembly and shutdown: `main.go`, `config/config.go`, `db/` | listening socket | migrate, serve, graceful shutdown (25 s unless configured), then exit | a Finalize longer than the grace period | nothing half done becomes visible |

### Application

| component | state | operations | hard behaviour | correct when |
|---|---|---|---|---|
| playback and pause: `Engine/WallpaperEngine.swift`, `Engine/PauseController.swift`, `AppState.swift` | a controller (player, window) per screen, the set of pause reasons | set wallpaper, screen added/removed, battery, full-screen, display sleep, manual pause | a wallpaper set while paused, overlapping calls that set different wallpapers | nothing plays while there is a reason to pause; no display goes back to a choice that was replaced; when choices do not overlap, players and menu agree |
| configuration and playlists: `ConfigManager`, `PlaylistManager`, `LiveConfigStore`, settings view model | `config.json`, one in-memory copy per owner | load, change, save | two owners each write their own copy of one file; a file that cannot be written, removed or decoded | what is shown survives a relaunch; a saved value stays until an older copy overwrites it |
| wallpaper cache: `Helpers/CacheManager.swift` | files with access dates | add, evict to a limit, clear | sizes rounded down one way per file and another in the sum; a copy keeps an old date; a removal fails | the limit holds, a new video does not evict itself |
| event log: `EventLog` | log file and rotated file | log, rotate | each of several moves may fail or be cut short by a kill | what is left are the last events, without gap |
| session, upload, explore and favorites views: view models and `APIClient` | items, offset, loading flags, token | load, load more, toggle, upload | a slow reply to an old query arrives after the newer one; offset moved before the page arrived | what is shown answers one question, and the last one unless questions overlapped; favorites loaded page after page are a prefix; the answer to the last toggle is right |
| user interface, lock screen, screensaver | views | - | - | out of scope, see section 6 |

How they interact: the application calls the server over HTTP only
(`openapi.yaml`); uploads and downloads go to the object store through URLs the
server signs; the screensaver reads the configuration file. The server's
goroutines share the database, the bucket, the ban cache and the rate limiters.

`PROJECT.json` lists under `hazards` each place where this code is hard to
test, with the properties that watch it.

## 2. Modules

| module | models | kind |
|---|---|---|
| `WallpaperLifecycle` | the status diagram of a wallpaper | abstract specification |
| `Moderation` | the wallpaper pipeline, call by call | detailed specification, refines the former while requests do not overlap |
| `BanGate` | login, token role, ban check and its cache, admin operations on users | detailed specification |
| `RateLimiter` | one limiter, all keys | detailed specification with history |
| `Playback` | engine, pause controller, their wiring in `AppState`, and the menu | detailed specification |
| `Seeder` | the seed command, call by call | detailed specification |
| `Queries` | the SQL behind what people are shown: one operator per query | operators |
| `Browse` | the view models of the application, the handlers that answer them query by query, and everybody else | detailed specification, uses `Queries` |
| `LocalData` | the application's own files: configuration, playlists, video cache, event log | detailed specification |
| `MCApp` | `Browse` beside `LocalData`, which share no variable | composition and instance |
| `MC...` | constants and symmetries TLC needs | instances |
| `..._proofs` | theorems about the module of that name; `Paging_proofs` continues `Browse_proofs` | proofs |

Operators called "Mutant" in comments are faulty variants of the definition
below them; no specification uses them. Putting one in the place of the
correct definition must break a property (`mutants` in `PROJECT.json`), which
shows that the property depends on that line of the code.

### Moderation

An action is **one call** to PostgreSQL or S3, or one external program, with
the local work that precedes and follows it. Between two actions of a request
any other request can move, which is what the Go scheduler and the network
allow.

| variable | code |
|---|---|
| `row` | table `wallpapers`: `status`, `storage_key` (none / placeholder / made from the id), `thumbnail_key` and `preview_key` (always written together), `rejection_reason`, `download_count`; `probed` is the file the columns `width` ... `resolution` describe |
| `store` | bucket: for each of the three objects, which upload it is or was derived from |
| `uploadUrl` | whether the uploader holds a presigned PUT URL and whether it is still good |
| `request` | per goroutine: next call, the id in the path, the video in the temp file, the temp files with a deferred `Remove` |
| `litter` | temp files whose removal was never deferred or whose process died |
| `crashes` | bound on kills |

Create is `CreateInsert`, `CreateSetKey`, `CreatePresign`; Finalize is
`FinalizeRead`, `FinalizeDownload`, `FinalizeProbe`, `FinalizeGenerate`,
`FinalizePutThumbnail`, `FinalizePutPreview`, `FinalizeUpdate`; Approve, Reject
and Download are two actions each. `RequestFails` is any call that fails
without effect, and a client that went away (the context is cancelled); a call
that takes effect and still reports an error is the second disjunct of its
action. `ProbedSize` keeps the arithmetic of `io.LimitReader(reader,
MaxFileSize+1)`: what ffprobe measures is the truncated copy.

### BanGate

| variable | code |
|---|---|
| `role`, `banned` | columns of `users` |
| `token` | role claim of the token a user holds |
| `cache` | `BannedCache.entries`: verdict and ticks until `expiresAt` |
| `request` | goroutines: login, the lookup of `BannedCheck`, its `Set`, the handler, and the second calls of ban/unban (`Evict`) and promote (`SetRole`) |

`IsBanned`, `Set` and `Evict` hold the mutex, so each is atomic; the
`GetUserByID` between `IsBanned` and `Set` is not protected, and is a step of
its own. Every route that is not an admin operation is the operation `serve`.
Registration is not an action: the accounts exist from the start, those of
`Admins` with the role that registering under `AdminEmail` gives them.

### RateLimiter

`Allow` holds the mutex throughout and is a single step with three outcomes
(`Open`, `Count`, `Refuse`). `log` and `first` are history variables: the times
of the requests let through, and for each the index of the request that opened
its window. The limiter in the code never forgets a key; the model has a fixed
set of keys and says nothing about memory.

### Playback

All of this code is on the main actor, so an action is what runs between two
suspension points. Each kind of notification is consumed by a task of its own
(`for await ... in notifications`), and the tasks are scheduled independently:
a later notification of one kind can be handled before an earlier one of
another kind. That is why `inbox` is a set of kinds and not a queue.

| variable | code |
|---|---|
| `screens`, `conditions` | what `NSScreen.screens`, `IOPSCopyPowerSourcesInfo`, `ProcessInfo`, and the lock notifications report |
| `inbox` | notifications not yet handled; lock, unlock and low power all lead to the same `evaluate()`, hence one kind |
| `isSleeping`, `shouldPause` | `PauseController` |
| `loop`, `applied` | the `withObservationTracking` loop of `AppState`: waiting or resumed, and what it last told the engine |
| `windows` | `WallpaperEngine.windows`, with the player of each |
| `task` | calls of `AppState.setWallpaper`: about to play, to save, to show the title |
| `isPaused` | `AppDelegate.isPaused`, the menu's own idea of being paused |
| `nowPlaying`, `lastPlayed` | `AppState.currentWallpaperURL`; `lastPlayedURL` in the configuration |
| `recent` | history: the wallpapers chosen since a call began with no other under way |
| `acts` | bound on user actions |

`EqualNotifies` is a property of the toolchain: the setter that `@Observable`
generates notifies on every assignment, or, in later releases, only when the
value differs. `NoLostWakeup` holds and is proved for both. `PauseBites` needs
the former: with the latter, a wallpaper set while paused is never silenced.
`PauseOnBattery` is read when the controller is made and does not change
afterwards. The gravity of a window is left out, and so are `stopAll` and the
setting of one display's wallpaper, which nothing calls. That all displays get one
wallpaper is what the code does, not what its design asks for (section 5), and no
property requires it.

### Seeder

| variable | code |
|---|---|
| `users`, `rows`, `favorites` | the tables: which of the two accounts exist; id and title of seeded wallpapers; the regular user's favorites |
| `objects` | bucket: id and kind |
| `step`, `pos`, `wpID`, `wallpaperIDs` | where a running command is: its next call, the index of its loop, the locals of that name |
| `failed` | history: the runs that logged an error |

`run` loops over the manifest and then over the favorites; `seedWallpaper` is
`Check`, `Prepare` (download or generate, thumbnail, preview, probe: all in a
temp directory of its own), three times `Put`, and `Insert`. Each call to the
database or the bucket may succeed, fail, or fail after it took effect. An error
of `seedUser` ends the command, one of `seedWallpaper` passes the title over.
Wallpapers that users uploaded under a seeded title are not in the model.

### Queries

Tables of wallpapers, users and reports are sequences in the order of creation;
an index is an id. `Pages` is `ORDER BY ... DESC LIMIT lim OFFSET off` as the
set of its answers: one, or none (an error) when an argument is negative. The
favorites of one user are a function to the time each was added.

### Browse

An action is **one query of a handler**, or what a view model does between two
`await`s. Answers may be late, out of order, or lost (`Fails`), at any call.

| variable | code |
|---|---|
| `wallpapers`, `users`, `reports`, `favorites` | the tables, as far as lists show them; `favorites` of the user who is signed in, on any number of devices |
| `cfg` | `config.Config`: `DefaultPageSize` and `MaxPageSize` after `Load` and `Validate` |
| `call` | a request from the click to the answer: the handler's next query, its arguments and what it has read so far. Several can be under way, also of one view model |
| `view` | the view that is open |
| `shown` | the lists of `HomeViewModel`, `ExploreViewModel`, `FavoritesViewModel`, `AdminViewModel` |
| `selectedCategory`, `searchQuery` | `ExploreViewModel` |
| `currentOffset`, `hasMore` | `FavoritesViewModel` |
| `isFavorited` | `DetailViewModel` |
| `asked`, `answered`, `since` | history: the last question of the explore view and the one whose answer it shows (number, category, text); the first of the questions that overlap with the last one |
| `edited`, `withdrawn`, `version`, `heartAt`, `steady` | history, for the conditions under which the properties hold |

`Click` are the view models' methods up to the first `await`, `Serve` the
handlers, `Answered` the rest of the view models' methods. `Type` is a change of
the text field of the explore view, to any text or to none, which asks nothing;
`Search` asks for what the field holds when it is submitted. `Popular`, `Recent`,
`List` and the favorites count first and then read the page (`Count`, `Page`);
the lists of the administration read the page first (`PageFirst`, `CountLast`).
`Replies` is the decoding of the answer: the application cannot read a
wallpaper without a category, nor the `null` that favorites of nobody are sent
as; to its user that is an error. `Panics` is the nil handler of the review
queue (section 5). `Toggle` is `ToggleCheck` and then `ToggleInsert`, which the
primary key may refuse, or `ToggleDelete`.

`Others` are uploaders, administrators and other devices. Wallpapers move
along `WallpaperLifecycle` (`Finalize`, `Approve`, `Reject`), and once more in
the way that `Moderation` shows to be possible: an overtaken write takes an
approval back (`Withdraw`). `EditWallpaper` changes title and category.

### LocalData

| variable | code |
|---|---|
| `file`, `manager`, `settings` | `config.json`; the copies of `ConfigManager` and of `SettingsViewModel` |
| `disk`, `playlists` | the playlist files; `PlaylistManager._playlists` |
| `cache` | files of the cache directory, by date of modification |
| `log`, `step`, `written` | `events.jsonl` and `events.1.jsonl` ...: the events in each, as an interval; the step of `EventLog.write`; events appended so far |
| `running` | whether the application runs |
| `memo`, `leftovers`, `lastCached` | history |

Every write, move and removal may fail; the code goes on (`try?`) or leaves
memory as it was. `Kill` stops the application anywhere, also between two steps
of a rotation, and with a video half copied; `Launch` starts it again and reads
what is there. A rotation is one step per file operation (`RemoveOldest`,
`Move`, `AppendLine`). `Evicted` keeps the arithmetic of `evictIfNeeded`: the
total is rounded down once, each removed size again; `Sum` adds up the sizes,
and `Tried` is how far the loop gets.

## 3. Runs

| run | instance | shows |
|---|---|---|
| `mod_overlap` | 1 wallpaper, 3 requests, files at, just above and far above the size limit, 1 crash | `ReviewedServable`, `ReviewedWithinLimits`, `PendingUntouched`, `VideoFileReclaimed` and `ReviewOrder`, under arbitrary overlap |
| `mod_serial` | 2 wallpapers of 2 users, 1 request at a time, two different good files | what holds only without overlap: refinement of `WallpaperLifecycle`, `ReasonMeansRejected`, `AssetsAgree` |
| `ban_gate` | an admin and a user, 2 requests, TTL 2, failing calls, restarts, admin operations aimed at the user, fairness | `AdminOpsByAdmins`, `NoRenewal`, `BanEventuallyBites`, `WrongBanExpires` |
| `rate_limit` | 2 keys, quota 2, window 2, 7 instants | `AtMostTwoQuotas`, `RefusedOnlyOverQuota`, `RetryAfterSuffices` |
| `play_safety` | 2 displays, 2 files, 2 overlapping calls, low power and lock, 2 user actions | `NoLostWakeup`, `WindowsFollowScreens`, `OlderChoicesStayGone` |
| `play_serial` | 1 display, 2 files, 1 call at a time, battery and sleep, 2 user actions, fairness | `MenuTellsTheTruth`, `PauseBites`, `ResumeFollows` |
| `seeder` | 2 seeders, 2 titles, 4 ids, 1 favorite | `SeedsServable`, `CleanRunCompletes`, `NoMoreCopiesThanSeeders` |
| `app_views` | 3 wallpapers, 2 users, 2 reports, 2 calls at once, 3 acts of people, pages of 1, 3 configurations; 2 playlists, 3 videos of 1, 2 or 4 half megabytes, 3 log files, 6 local acts | of `Browse`: `ShownCanBeOpened`, `HeartTellsTheTruth`, `ShownIsPrefix`, `ResultsAnswerQuestion`, `PageWithinTotal`; of `LocalData`: `ConfigRemembered`, `PlaylistsSurviveRelaunch`, `LimitHolds`, `LogIsSuffix` |
| `mod_finalize_twice`, `ban_next_call`, `play_set_paused`, `queue_answers` | as small as the case allows | statements of the documents that the code does not satisfy, see section 5 |

**Why the bounds are enough.** In `mod_overlap`, three requests let two
requests overtake a third (two Finalizes and an Approve; Approve, Reject and a
Finalize). The operations of different wallpapers touch disjoint rows and
objects, so one wallpaper suffices for overlap; `mod_serial` has two, to see
that an action leaves the other alone. Sizes are scaled: limit 4, files of 4
(accepted), 5 (the byte that `LimitReader` lets through to be refused) and 9
(truncated to 5, still refused). One crash is enough because a crash returns
every request to idle. In `BanGate` one tick is "some part of the TTL"; with
TTL 2 an entry is fresh, half gone, gone. A ban race needs the admin's request
and one of the user's. Admin operations are aimed at the user alone
(`Targets`), who can be promoted and then ban himself; operations on the admin
would only repeat the same steps for a second entry of the cache. In `rate_limit` seven instants hold three windows, hence
two boundaries. In `Playback` two
displays and two calls give every order of "display connected", "call plays",
"other call plays"; two user actions are a call and another call, or a toggle,
or a relaunch. Of sleep and of wake one notification each may be pending, which
is the shortest case in which one overtakes the other.
In `Seeder` four ids
are enough for two copies of each title, or fewer copies and the objects that
failed runs leave behind; with one favorite and two titles the loop over the
favorites ends by either of its conditions.
In `app_views` one view is open, or one part of the files is used, throughout a
behaviour (`Views`, `Parts`): view models share no state with each other, so two
open views would only multiply the states. For the same reason other people
change, and ask for, only what the open view reads (`ReadIn`). Two calls are
what it takes for answers to be out of order, for two toggles to interleave, and
for a dismissal to fall between a page and its count; three acts are two calls
and a change of somebody else, or a load, a loadMore and a toggle elsewhere.
Pages hold one row, so that a list of three has pages to skip and to repeat.
`Half` stands for 2^31 and is 4, with offsets on either side of it. The code
keeps three rotated log files, the model two: a file in the middle is what the
moves need. Six acts fill all files and rotate with a kill in between. At
most one file of the cache refuses to be removed. Symmetry exchanges calls,
which are compared with nothing and chosen by no `CHOOSE`.

The safety properties of these runs are proved without bounds (section 4); what
rests on the bounds alone is liveness, and what fails.

`CHECK_DEADLOCK FALSE` is set where a model stops by its bounds: all ids
finished and the URLs expired and the download counters full in `Moderation`,
the clock at `MaxTime` in `RateLimiter`, all acts done
in `MCApp`. `BanGate`, `Playback` and
`Seeder` are checked for deadlock.

**Properties with conditions.** Some properties hold only under a condition,
because the code does the opposite outside of it. What each leaves out:

| property | says nothing of |
|---|---|
| `FollowsLifecycle`, `ReasonMeansRejected`, `AssetsAgree` | overlapping requests: the later of two decisions stands, and a reason may survive an approval |
| `ReviewOrder` | decided wallpapers going back to `pending_review` by an overtaken Finalize (`mod_finalize_twice` shows it) |
| `NoRenewal` | the one verdict of a lookup that a ban overtook (`ban_next_call` shows it) |
| `MenuTellsTheTruth` | overlapping calls of `setWallpaper`, of which players and menu may show different ones; what holds then is `OlderChoicesStayGone` |
| `ResumeFollows` | a wrong `isSleeping`: the engine follows the controller, whatever the controller believes |
| `ShownCanBeOpened` | wallpapers whose approval an overtaken write took back (`withdrawn`) |
| `HeartTellsTheTruth` | hearts that do not show the answer to the last change (`heartAt # version`); and two taps at once may count as one |
| `ShownIsPrefix` | a `loadMore` that failed or overlapped with another, favorites changed meanwhile (`steady`) |
| `ResultsAnswerQuestion` | which of several overlapping questions has the last word, and the text in the field |
| `ConfigRemembered` | values that the other owner of `config.json` has overwritten with an older copy (`managerFresh`, `settingsFresh`) |
| `PlaylistsSurviveRelaunch` | playlists whose file could not be removed (`leftovers`) |

The steps that lead outside the condition are in the models all the same.

**Fairness** (`BanGate`, `Fairness`): weak fairness of `Tick` and, for each
request, of `Proceed`. Time passes; a goroutine that can run is run, and a
database call returns (with or without an error), which is all `Proceed` says.
Nothing is assumed about users or administrators: nobody has to log in, call,
ban or unban, and `Restart` may happen any number of times. Neither liveness
property is helped by restarts being rare: a restart empties the cache.

**Fairness** (`Playback`, `Fairness`): weak fairness of each handler, of the
loop and of each call under way. Jobs queued on the main actor and on
`ConfigManager` are run, notifications reach their consumers, the timer of 30
seconds fires. Nothing is assumed about users, displays or the machine, and
nothing about the order in which two queued jobs run.

## 4. Proofs

Checked by TLAPS for any values of the constants that satisfy
`ModerationAssumption`, `BanGateAssumption`, `RateLimiterAssumption`,
`PlaybackAssumption`, `SeederAssumption`, the three assumptions of `Browse`
(`BrowseAssumption`, `EnvsAssumption`, `TablesAssumption`) or the two of
`LocalData` (`LocalAssumption`, `ConfigAssumption`).

| module | theorem | statement |
|---|---|---|
| `Moderation_proofs` | `TypeCorrect` | `Spec => []TypeOK` |
| | `AlwaysServable` | `Spec => []ReviewedServable` |
| | `AlwaysWithinLimits` | `Spec => []ReviewedWithinLimits` |
| | `AlwaysInOrder` | `Spec => ReviewOrder` |
| | `AlwaysRetriable` | `Spec => []PendingUntouched` |
| | `AlwaysReclaimed` | `Spec => []VideoFileReclaimed` |
| | `ImplementsLifecycle`, `ReasonsOnRejected`, `AssetsOfOneFile` | with `OneRequest`: `Spec => FollowsLifecycle`, `Spec => []ReasonMeansRejected`, `Spec => []AssetsAgree` |
| `BanGate_proofs` | `TypeCorrect`, `OnlyAdminsAdminister`, `BanNeverRenewed` | `TypeOK`, `AdminOpsByAdmins`, `NoRenewal` |
| `RateLimiter_proofs` | `TypeCorrect`, `NeverMoreThanTwoQuotas`, `NoUnjustRefusal`, `RetryAfterHonest` | `TypeOK`, `AtMostTwoQuotas`, `RefusedOnlyOverQuota`, `RetryAfterSuffices` |
| `Playback_proofs` | `TypeCorrect`, `WakeupsKept`, `WindowsMatch`, `OlderChoicesAlwaysGone` | `TypeOK`, `NoLostWakeup`, `WindowsFollowScreens`, `OlderChoicesStayGone` |
| | `MenuAlwaysTellsTheTruth` | with `OneTask`: `MenuTellsTheTruth` |
| `Seeder_proofs` | `TypeCorrect`, `AlwaysServable`, `CleanRunsComplete`, `CopiesBounded` | `TypeOK`, `SeedsServable`, `CleanRunCompletes`, `NoMoreCopiesThanSeeders` |
| `Browse_proofs` | `TypeCorrect`, `HeartAlwaysTellsTheTruth`, `ShownCanAlwaysBeOpened`, `ResultsAlwaysAnswerQuestion` | `TypeOK`, `HeartTellsTheTruth`, `ShownCanBeOpened`, `ResultsAnswerQuestion` |
| `Paging_proofs` | `PageAlwaysWithinTotal` | `PageWithinTotal` |
| | `ShownIsAlwaysPrefix` | with `OffsetsFit`: `ShownIsPrefix` |
| `LocalData_proofs` | `LocalTypeCorrect`, `PlaylistsAlwaysSurviveRelaunch`, `ConfigAlwaysRemembered`, `LimitAlwaysHolds`, `LogIsAlwaysSuffix` | `LocalTypeOK`, `PlaylistsSurviveRelaunch`, `ConfigRemembered`, `LimitHolds`, `LogIsSuffix` |

Three hypotheses go beyond the modules' assumptions. `OneRequest` and `OneTask`
say that requests, or calls of `setWallpaper`, do not overlap: with overlap the
properties are false, and the runs that check them (`mod_serial`,
`play_serial`) have one request and one call. `OffsetsFit` says that a user has
no more favorites than 32 bits count, so that no offset of the view wraps round
to a page that is already there. `SeederAssumption` asks for finitely many
seeders, since their number is a bound.

**Moderation.** `ReviewedServable` is not inductive: that the final `UPDATE`
may set `pending_review` depends on what the goroutine did calls ago. `IInv`
adds, per request, what each step may rely on *although the row may have been
changed by others since*: objects once put are never removed (only replaced),
a video that passed `validateVideo` stays in the request, the storage key is
set before a URL is handed out, and no file can be in the bucket without a URL.
The last one is why the key is final in `FinalizeUpdate` even if Create died
half way. The refinement needs `SerialInv` on top: with one request at a time,
the status a request has read is still in the row when it writes.
`AlwaysServable` and `AlwaysWithinLimits` do *not* need that. `SerialInv` also
carries `ReasonMeansRejected` (a rejection writes status and reason at once, and
nobody has approved since its read) and `AssetsAgree` (what the row is about to
describe is what the same request has put). `VideoFileReclaimed` needs only
types: `FinalizeDownload` defers the removal in the step in which it fills the
file.

**BanGate.** `AdminOpsByAdmins` follows from monotonicity: a role is only ever
raised, so an admin role in a token, in a login under way or in an admitted
request is still in the table. `NoRenewal` needs only types: the one action
that writes a clear verdict is `Admit`.

**RateLimiter.** `IInv` describes the log as a sequence of windows
(`FirstInv`), at least `Window + 1` ticks apart from opener to opener
(`ApartInv`), of which the entry describes the last (`EntryInv`). Of
`2 * Quota + 1` consecutive grants the first and the last cannot lie in the same
or in neighbouring windows.

**Playback.** The invariants are not inductive by themselves. `IInv` adds that
a call under way has a recent file to play, and that players show recent files
from the moment one of the recent calls has played: playing replaces all players
in one job. Until then (`NothingPlayedYet`) they show what the calls before left,
which is why `OlderChoicesStayGone` speaks only of states with no call under way.
`MenuInv` is for the menu: until a call has played its file, players and menu
agree; between the playing and the showing, the players have the call's file, and
the menu is about to.

**Seeder.** `IInv` says, per seeder, what is already in the bucket at each step
(`HasStored`) and, as long as it met no error, that it has an id with the right
title for each entry it has been through (`Clean`). Rows, objects and favorites
only grow, so one seeder cannot take from another what it relies on.
`RoomForMaking` counts: wallpapers of a title and seeders that are making one
are together no more than the seeders there are. A seeder starts making one only
after it saw none, when all the others make one at most, and its row takes over
the place it had.

**Browse.** `TypeInv` is `TypeOK` without the flags, and with the order of the
two page sizes that `Validate` sees to. Five inductive invariants stand on it. `HeartInv`: an answer to a toggle
carries the number of the change it made; the answer with the number of the
last change carries the present state of the row, because every change of the
favorites takes a new number, and the heart's number is never ahead of the
table's. `OpenInv`: calls and lists of home and explore name wallpapers of
`Openable`, those that are approved or were approved and withdrawn, a set that
only grows. `ResultsInv`: each call carries the question it was sent with, and what it has
read fits that question; a row may change status under an answer, but only
`EditWallpaper` changes what it says. An answer brings its question's number with
it, so that once none is under way the number shown is at least `since`. What the
field holds (`searchQuery`) occurs nowhere in it.
`PageInv`: between the page and the count a page fits what is in the table, up
to the reports that have left (`left` counts them); users only become more, and
the count adds nothing. `PrefixInv`: while favorites do not change, the one page
that is asked for begins where the list on the screen ends, and two neighbouring
pages together are a page: the lemma behind it counts what is `Ahead` of each
row. When no page is asked for, the list ends at `currentOffset + PageSize` if
there is more, which is why the next offset neither skips nor repeats a row.

**LocalData.** `PlaylistInv` and `ConfigInv` relate each copy to the file:
`managerFresh` and `settingsFresh` say whose copy has the other's last value, so
that saving it overwrites nothing. `LogInv` orders the files at each step of a
rotation; the rest follows from a move never replacing a file that is there.
`PartsApart` is the frame: a step in one part leaves the others alone.
`LimitHolds` is about sums. The files left are those after the first `Tried`,
so their sum is the total less that of the removed (`SumOfRest`); what was
subtracted for the removed, rounded down file by file, is at most their sum
(`RoundedSum`), and so the sum of the rest, rounded down once, is at most what
`evictIfNeeded` took for the rest. With whole megabytes nothing is rounded, and
the loop stops before a newest file that fits. The induction over the files is
written as the search for a least counterexample (`Least`, from the
well-foundedness of `<`), which needs no operator as a parameter.

**Only model-checked:** the liveness properties `BanEventuallyBites`,
`WrongBanExpires`, `PauseBites` and `ResumeFollows`, since liveness under
fairness and `ENABLED` are outside what the prover handles. Every invariant and
every action property of the passing runs has a theorem. No module declares a
`RECURSIVE` operator; the one recursive definition is the function in `Sum`.

## 5. Where code and documents disagree

| run | statement | what happens |
|---|---|---|
| `mod_finalize_twice` | `service/wallpaper.go:36`: "Status transition enforced: pending -> pending_review only." | two Finalizes of one wallpaper overlap (a client retries after the write timeout); the slower one writes `pending_review` over an approval |
| `ban_next_call` | refactor design:927: "The per-request banned check catches them on their very next API call" | a lookup before the ban stores its verdict after the eviction |
| `play_set_paused` | design:66-67: "Auto-pause triggers: - Battery mode" | a wallpaper set, or restored at launch, while paused starts to play |
| `queue_answers` | `handler/admin.go:34`: "Queue returns wallpapers in pending_review status." | `Queue` passes no handler to `recentRowToMap`, which dereferences it for every row with a thumbnail, that is, for every wallpaper that waits for a review: the request panics and is answered 500 |

The design promises a wallpaper per display, and the code stores the choice but
does not act on it: design:116 says "Each display can have its own playlist or
share one", the settings offer a picker for each display
(`UI/Views/SettingsView.swift:129-157`) and keep what was picked in
`screenAssignments` (`Config/AppConfig.swift:23`), which nothing else reads.
Every wallpaper the engine plays goes through `setWallpaperOnAllDisplays`
(`Engine/WallpaperEngine.swift:29-35`), which gives all displays the same one; the
engine's function for one display is called by nothing but an overload in
`AppState` that no view calls. There is no run for this: no step of the program
depends on an assignment.

The models contain more such behaviour, for which no run is kept: Approve and
Reject overlap and the later write wins (refactor design:334-335 calls both
states terminal); a thumbnail's temp file survives an ffmpeg that fails half way
(`FinalizeGenerate`); a ban between the two calls of promote is not seen
(`PromoteRead`, `PromoteWrite`); `didWake` handled before `willSleep` leaves
`isSleeping` set (`ObserveWake`, `ObserveSleep`); the window of a display that is
added stays empty (`ScreenParametersChanged`); the two owners of `config.json`
overwrite each other's changes (`RememberPlayed`, `ChangeSetting`); the answer to an
older question replaces the results of a newer one, and results stay while other
text is typed or the field is cleared (`ResultsArrive`, `Type`); a page with
one wallpaper without a category, and favorites that are empty, are errors to
the application (`Replies`); favorites list wallpapers of any status, of which
the detail view then says "not found" (`ListFavoritesByUser`, `Get`); a field
left out of `EditWallpaper` becomes empty; the heart says "not a favorite" until
it is first clicked (`isFavorited`); the same report can be made any number of
times; the limit set for the cache is not the one used (`CacheFile`).

Seen while reading, outside the models: `loadMore` of favorites and the
application's calls to edit, list and promote are in the view models and the
client but called by no view. The event `search_performed` logs the text that the
field holds when the answer arrives, not the text that was searched for
(`ExploreViewModel.swift:51`).

(Design: `docs/superpowers/specs/2026-03-23-screenspace-design.md`.)
(Refactor design: `docs/superpowers/specs/2026-03-23-refactor-design.md`.)

## 6. Not modelled

- SwiftUI views, the lock-screen and screensaver bundles: drawing and platform
  calls, no state of their own.
- The login form and the token in the keychain; `Me`; password hashing and JWT
  signatures (a token is what it says).
- HTTP encoding except for the fields the application cannot decode, request
  validation, CORS, request ids, migrations, and the settings of the server
  other than its page sizes and limits.
- The driver calls and scans in `db/generated`: each query is an operator of
  `Queries` or a step of `Moderation`, `BanGate` or `Seeder`. `mock_querier.go`
  is for tests; `server.gen.go` is generated and imported by nothing.
- ffmpeg and ffprobe are external: they succeed with the facts of the file, or
  fail.
- Several processes of the server: the ban cache and the limiters are per
  process, and the models have one.
- Two hazards are outside the models' reach and not in `PROJECT.json`: a ban
  between the two calls of `PromoteUser` (`handler/admin.go:253`; the steps are
  in `BanGate`, but no document says what should happen), and the growth of the
  limiter's map (`middleware/ratelimit.go:42`; nothing bounds it).

## 7. Plan

Done, in this order: `WallpaperLifecycle` and `Moderation`, `BanGate`,
`RateLimiter`, `Playback`, `Seeder`, `Queries` and `Browse`, `LocalData`, each
with proofs. Left:

1. Composition: `Browse` over the rows of `Moderation` in place of its own
   `Finalize`, `Approve`, `Reject` and `Withdraw`; `LocalData` under `Playback`
   (last wallpaper, pause on battery).
2. The safety half of the liveness properties as theorems: how old an entry of
   the ban cache can be, and what a pending notification stands for.
3. What holds of two overlapping calls of `setWallpaper` for the menu, in place
   of `OneTask`.
