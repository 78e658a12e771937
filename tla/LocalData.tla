------------------------------ MODULE LocalData ------------------------------
(***************************************************************************)
(* What the application keeps in files of its own: config.json, one file   *)
(* per playlist, the cache of downloaded videos, and the event log with    *)
(* its rotated files.  Writes, moves and removals may fail, and the code   *)
(* goes on (try?); the application may be killed at any time, also between *)
(* the steps of a rotation, and be started again.                          *)
(*                                                                         *)
(* config.json has two writers, each with a copy of its own: ConfigManager *)
(* loads it when the application starts, the Settings window when it is    *)
(* opened, and both save their whole copy.                                 *)
(*                                                                         *)
(* The four parts share nothing but the process; one is used throughout.   *)
(***************************************************************************)
EXTENDS Integers, Sequences

CONSTANTS
  Parts,                   \* of AllParts
  Urls, NoUrl,             \* lastPlayedURL
  Settings, StdSetting,    \* the other fields of AppConfig, all in one
  PlaylistIds, Contents,
  Absent, Undecodable,     \* what a file may be, instead of what it should
  VideoIds, Sizes,         \* videos in the cache, sizes in ...
  UnitsPerMB, LimitMB,
  MaxFileCount, MaxLines,  \* of the log; a file is full at MaxLines
  MaxLocalActs             \* bound on what happens

AllParts == {"none", "config", "playlists", "cache", "log"}

ASSUME LocalAssumption ==
  /\ Parts \subseteq AllParts
  /\ NoUrl \notin Urls /\ StdSetting \in Settings
  /\ \A x \in {Absent, Undecodable} : x \notin Contents
  /\ Absent # Undecodable
  /\ VideoIds # {}
  /\ Sizes \subseteq Nat \ {0} /\ UnitsPerMB \in Nat \ {0} /\ LimitMB \in Nat
  /\ MaxFileCount \in Nat \ {0} /\ MaxLines \in Nat \ {0}
  /\ MaxLocalActs \in Nat

VARIABLES
  part, running, localActs,
  file,          \* config.json
  manager,       \* ConfigManager.config
  settings,      \* SettingsViewModel.config; Absent while the window is closed
  memo,          \* history: what was last saved, and whose copy has it
  disk,          \* the playlist files
  playlists,     \* PlaylistManager._playlists
  leftovers,     \* history: files whose removal failed, or that cannot be read
  cache,         \* the cached files, by date of modification
  lastCached,    \* history: how the last cacheFile went
  log,           \* the events in events.jsonl (0) and events.i.jsonl, as intervals
  step,          \* of EventLog.write
  written        \* history: number of events appended so far

configVars == <<file, manager, settings, memo>>
playlistVars == <<disk, playlists, leftovers>>
cacheVars == <<cache, lastCached>>
logVars == <<log, step, written>>
localVars == <<part, running, localActs, configVars, playlistVars, cacheVars, logVars>>

LocalAct(p) ==
  /\ part = p /\ running
  /\ localActs < MaxLocalActs /\ localActs' = localActs + 1
  /\ UNCHANGED <<part, running>>

-----------------------------------------------------------------------------
(* Configuration.                                                          *)

Config == [setting : Settings, lastPlayed : Urls \cup {NoUrl}]

ASSUME ConfigAssumption == Absent \notin Config /\ Undecodable \notin Config

DefaultConfig == [setting |-> StdSetting, lastPlayed |-> NoUrl]

\* Mutant: a file that is there is taken for a configuration.
DecodedIfThere(f) == IF f = Absent THEN DefaultConfig ELSE f

\* ConfigManager.load and LiveConfigStore.load.
Decoded(f) == IF f \in {Absent, Undecodable} THEN DefaultConfig ELSE f

\* What an owner of a copy last saved, and whether it is in the file and in
\* the other's copy.
NoMemo == [played |-> NoUrl, playedKept |-> FALSE, managerFresh |-> TRUE,
           setting |-> StdSetting, settingKept |-> FALSE, settingsFresh |-> FALSE]

\* WallpaperEngine: ConfigManager.update sets lastPlayedURL and saves.
RememberPlayed(url, saves) ==
  /\ LocalAct("config")
  /\ manager' = [manager EXCEPT !.lastPlayed = url]
  /\ file' = IF saves THEN manager' ELSE file
  /\ memo' = [memo EXCEPT !.played = url, !.playedKept = saves, !.settingsFresh = FALSE,
                          !.settingKept = @ /\ (saves => memo.managerFresh)]
  /\ UNCHANGED <<settings, playlistVars, cacheVars, logVars>>

\* Mutant: a view model that was opened before keeps its configuration.
OpenSettingsAgain ==
  /\ LocalAct("config")
  /\ settings' = IF settings = Absent THEN Decoded(file) ELSE settings
  /\ memo' = [memo EXCEPT !.settingsFresh = TRUE]
  /\ UNCHANGED <<file, manager, playlistVars, cacheVars, logVars>>

OpenSettings ==
  /\ LocalAct("config")
  /\ settings' = Decoded(file)
  /\ memo' = [memo EXCEPT !.settingsFresh = TRUE]
  /\ UNCHANGED <<file, manager, playlistVars, cacheVars, logVars>>

\* SettingsViewModel.updateConfig, commitServerURL, setLaunchAtLogin.
ChangeSetting(setting, saves) ==
  /\ LocalAct("config") /\ settings # Absent
  /\ settings' = [settings EXCEPT !.setting = setting]
  /\ file' = IF saves THEN settings' ELSE file
  /\ memo' = [memo EXCEPT !.setting = setting, !.settingKept = saves, !.managerFresh = FALSE,
                          !.playedKept = @ /\ (saves => memo.settingsFresh)]
  /\ UNCHANGED <<manager, playlistVars, cacheVars, logVars>>

-----------------------------------------------------------------------------
(* Playlists.                                                              *)

\* Mutant: memory changes first.
SavePlaylistInMemoryFirst(id, content, saves) ==
  /\ LocalAct("playlists")
  /\ disk[id] = Absent \/ playlists[id] # Absent
  /\ playlists' = [playlists EXCEPT ![id] = content]
  /\ disk' = IF saves THEN [disk EXCEPT ![id] = content] ELSE disk
  /\ UNCHANGED <<leftovers, configVars, cacheVars, logVars>>

\* create (with a new id) and update: the file is written first.
SavePlaylist(id, content, saves) ==
  /\ LocalAct("playlists")
  /\ disk[id] = Absent \/ playlists[id] # Absent
  /\ IF saves
     THEN disk' = [disk EXCEPT ![id] = content] /\ playlists' = [playlists EXCEPT ![id] = content]
     ELSE UNCHANGED <<disk, playlists>>
  /\ UNCHANGED <<leftovers, configVars, cacheVars, logVars>>

\* try? removeItem, and then removeAll.
DeletePlaylist(id, removes) ==
  /\ LocalAct("playlists") /\ playlists[id] # Absent
  /\ disk' = IF removes THEN [disk EXCEPT ![id] = Absent] ELSE disk
  /\ playlists' = [playlists EXCEPT ![id] = Absent]
  /\ leftovers' = IF removes THEN leftovers ELSE leftovers \cup {id}
  /\ UNCHANGED <<configVars, cacheVars, logVars>>

\* loadAll skips what it cannot decode.
LoadAll == [id \in PlaylistIds |-> IF disk[id] = Undecodable THEN Absent ELSE disk[id]]

-----------------------------------------------------------------------------
(* Cache.                                                                  *)

Video == [id : VideoIds, size : Sizes]

\* The sum of the first n of the numbers.
Sum(numbers, n) ==
  LET sum[k \in 0..Len(numbers)] == IF k = 0 THEN 0 ELSE sum[k - 1] + numbers[k]
  IN sum[n]

TotalSize(files) == Sum([i \in DOMAIN files |-> files[i].size], Len(files))

\* currentCacheSizeMB rounds the sum down.
CurrentMB(files) == TotalSize(files) \div UnitsPerMB

\* Mutant: the sizes are rounded up.
RemainingRoundedUp(files, k) ==
  CurrentMB(files)
    - Sum([i \in DOMAIN files |-> (files[i].size + UnitsPerMB - 1) \div UnitsPerMB], k)

\* What evictIfNeeded takes for the rest when it has tried to remove k files:
\* it rounds down the size of each.
Remaining(files, k) ==
  CurrentMB(files) - Sum([i \in DOMAIN files |-> files[i].size \div UnitsPerMB], k)

\* How many files evictIfNeeded tries to remove, oldest first.
Tried(files) ==
  CHOOSE k \in 0..Len(files) :
    /\ k = Len(files) \/ Remaining(files, k) <= LimitMB
    /\ \A j \in 0..k - 1 : Remaining(files, j) > LimitMB

\* One file at most, number stuck if any, cannot be removed.
Evicted(files, stuck) ==
  (IF stuck \in 1..Tried(files) THEN <<files[stuck]>> ELSE <<>>)
    \o SubSeq(files, Tried(files) + 1, Len(files))

\* A video is cached at most once.
Without(id) ==
  IF \A i \in DOMAIN cache : cache[i].id # id THEN cache
  ELSE LET i == CHOOSE i \in DOMAIN cache : cache[i].id = id
       IN SubSeq(cache, 1, i - 1) \o SubSeq(cache, i + 1, Len(cache))

\* A copy keeps the date of the download, so that it may be older than files
\* cached before it.
CopiedTo(files, k, id, size) ==
  SubSeq(files, 1, k) \o <<[id |-> id, size |-> size]>> \o SubSeq(files, k + 1, Len(files))

NotCached == [id |-> CHOOSE id \in VideoIds : TRUE, clean |-> FALSE, fits |-> FALSE]

\* cacheFile with the default limit: the limit of the settings is not used.
CacheFile(id, size, k, stuck) ==
  LET files == CopiedTo(Without(id), k, id, size) IN
  /\ LocalAct("cache") /\ k \in 0..Len(Without(id)) /\ stuck \in 0..Len(files)
  /\ cache' = Evicted(files, stuck)
  /\ lastCached' = [id |-> id, clean |-> stuck = 0,
                    fits |-> /\ k = Len(Without(id)) /\ size <= LimitMB * UnitsPerMB
                             /\ \A i \in DOMAIN files : files[i].size % UnitsPerMB = 0]
  /\ UNCHANGED <<configVars, playlistVars, logVars>>

\* The old file is removed, and then the copy fails.
CopyFails(id) ==
  /\ LocalAct("cache")
  /\ cache' = Without(id) /\ lastCached' = NotCached
  /\ UNCHANGED <<configVars, playlistVars, logVars>>

\* CacheManager.clearCache ends at the first file it cannot remove.
ClearCache(k) ==
  /\ LocalAct("cache") /\ k \in 0..Len(cache)
  /\ cache' = SubSeq(cache, 1, k) /\ lastCached' = NotCached
  /\ UNCHANGED <<configVars, playlistVars, logVars>>

-----------------------------------------------------------------------------
(* Event log.                                                              *)

NoEvents == [first |-> 1, last |-> 0]

Exists(i) == log[i].first <= log[i].last

Size(i) == log[i].last - log[i].first + 1

\* Steps of a write: MaxFileCount removes the oldest file, i moves events.i
\* on, 0 moves events.jsonl.
Appending == MaxFileCount + 1
Waiting == MaxFileCount + 2

WriteStep(s) ==
  /\ part = "log" /\ running /\ step = s
  /\ UNCHANGED <<part, running, localActs, configVars, playlistVars, cacheVars>>

\* EventLog.write and rotateIfNeeded.
Write ==
  /\ LocalAct("log") /\ step = Waiting
  /\ step' = IF Size(0) >= MaxLines THEN MaxFileCount ELSE Appending
  /\ UNCHANGED <<log, written, configVars, playlistVars, cacheVars>>

RemoveOldest ==
  /\ WriteStep(MaxFileCount)
  /\ log' \in {log, [log EXCEPT ![MaxFileCount] = NoEvents]}
  /\ step' = MaxFileCount - 1
  /\ UNCHANGED written

\* Mutant: a move replaces what is there, as rename does.
MoveOnto(i) ==
  /\ i < MaxFileCount /\ WriteStep(i)
  /\ \/ UNCHANGED log
     \/ Exists(i) /\ log' = [log EXCEPT ![i + 1] = log[i], ![i] = NoEvents]
  /\ step' = IF i = 0 THEN Appending ELSE i - 1
  /\ UNCHANGED written

\* A file is not moved onto another.
Move(i) ==
  /\ i < MaxFileCount /\ WriteStep(i)
  /\ \/ UNCHANGED log
     \/ /\ Exists(i) /\ ~Exists(i + 1)
        /\ log' = [log EXCEPT ![i + 1] = log[i], ![i] = NoEvents]
  /\ step' = IF i = 0 THEN Appending ELSE i - 1
  /\ UNCHANGED written

\* append, to a new file if there is none.
AppendLine ==
  /\ WriteStep(Appending)
  /\ \/ UNCHANGED <<log, written>>
     \/ /\ log' = [log EXCEPT ![0] = [first |-> IF Exists(0) THEN log[0].first ELSE written + 1,
                                      last |-> written + 1]]
        /\ written' = written + 1
  /\ step' = Waiting

-----------------------------------------------------------------------------
(* The process.                                                            *)

\* ConfigManager.init moves a file it cannot decode out of the way.
Launch ==
  /\ ~running
  /\ running' = TRUE
  /\ manager' = Decoded(file)
  /\ file' = IF file = Undecodable THEN Absent ELSE file
  /\ memo' = [memo EXCEPT !.managerFresh = TRUE]
  /\ playlists' = LoadAll
  /\ leftovers' = {id \in PlaylistIds : disk[id] = Undecodable}
  /\ UNCHANGED <<part, localActs, settings, disk, cacheVars, logVars>>

\* What is only in memory is lost; a video may be half copied.
Kill ==
  /\ running /\ part # "none"
  /\ running' = FALSE
  /\ localActs < MaxLocalActs /\ localActs' = localActs + 1
  /\ settings' = Absent
  /\ step' = Waiting
  /\ UNCHANGED <<part, file, manager, memo, playlistVars, log, written>>
  /\ \/ UNCHANGED cacheVars
     \/ /\ part = "cache"
        /\ \E id \in VideoIds, size \in Sizes : cache' = Append(Without(id), [id |-> id, size |-> size])
        /\ lastCached' = NotCached

LocalInit ==
  /\ part \in Parts
  /\ running = (part = "none") /\ localActs = 0
  /\ file \in IF part = "config" THEN {Absent, Undecodable, DefaultConfig} ELSE {Absent}
  /\ manager = DefaultConfig /\ settings = Absent /\ memo = NoMemo
  /\ disk \in IF part = "playlists" THEN [PlaylistIds -> {Absent, Undecodable}]
              ELSE {[id \in PlaylistIds |-> Absent]}
  /\ playlists = [id \in PlaylistIds |-> Absent] /\ leftovers = {}
  /\ cache = <<>> /\ lastCached = NotCached
  /\ log = [i \in 0..MaxFileCount |-> NoEvents] /\ step = Waiting /\ written = 0

LocalNext ==
  \/ \E succeeds \in BOOLEAN :
       \/ \E url \in Urls : RememberPlayed(url, succeeds)
       \/ \E setting \in Settings : ChangeSetting(setting, succeeds)
       \/ \E id \in PlaylistIds : \/ \E content \in Contents : SavePlaylist(id, content, succeeds)
                                 \/ DeletePlaylist(id, succeeds)
  \/ OpenSettings
  \/ \E id \in VideoIds :
       \/ \E size \in Sizes, k \in 0..Len(cache),
           stuck \in 0..Len(cache) + 1 : CacheFile(id, size, k, stuck)
       \/ CopyFails(id)
  \/ \E k \in 0..Len(cache) : ClearCache(k)
  \/ Write \/ RemoveOldest \/ AppendLine
  \/ \E i \in 0..MaxFileCount : Move(i)
  \/ Launch \/ Kill

LocalSpec == LocalInit /\ [][LocalNext]_localVars

-----------------------------------------------------------------------------
(* Properties.                                                             *)

Events == [first : Nat, last : Nat]

\* Files and copies have their types.
LocalTypeOK ==
  /\ part \in AllParts /\ running \in BOOLEAN /\ localActs \in Nat
  /\ file \in Config \cup {Absent, Undecodable}
  /\ manager \in Config /\ settings \in Config \cup {Absent}
  /\ memo \in [played : Urls \cup {NoUrl}, playedKept : BOOLEAN, managerFresh : BOOLEAN,
               setting : Settings, settingKept : BOOLEAN, settingsFresh : BOOLEAN]
  /\ disk \in [PlaylistIds -> Contents \cup {Absent, Undecodable}]
  /\ playlists \in [PlaylistIds -> Contents \cup {Absent}]
  /\ leftovers \subseteq PlaylistIds
  /\ cache \in Seq(Video)
  /\ lastCached \in [id : VideoIds, clean : BOOLEAN, fits : BOOLEAN]
  /\ log \in [0..MaxFileCount -> Events] /\ step \in 0..Waiting /\ written \in Nat

\* A wallpaper or a setting that was saved is in the file as long as the
\* other owner of the file has not saved a copy that is older, over failed
\* saves and restarts (ConfigManager.swift:34-37, SettingsViewModel.swift:81-83).
\* That an older copy does overwrite it is what the condition is for.
ConfigRemembered ==
  /\ memo.playedKept => Decoded(file).lastPlayed = memo.played
  /\ memo.settingKept => Decoded(file).setting = memo.setting

\* The playlists that the application shows are the ones it will show after a
\* restart, except that a playlist whose file could not be removed comes back
\* (PlaylistManager.swift:60-90).
PlaylistsSurviveRelaunch ==
  running => \A id \in PlaylistIds \ leftovers : disk[id] = playlists[id]

\* After cacheFile, unless a removal failed, the files are within the limit in
\* spite of the rounding; and if sizes are whole megabytes and the video is the
\* newest and fits, it has not evicted itself (CacheManager.swift:30-41, 57-81).
LimitHolds ==
  lastCached.clean =>
    /\ CurrentMB(cache) <= LimitMB
    /\ lastCached.fits => \E i \in DOMAIN cache : cache[i].id = lastCached.id

\* What the log files hold, from the oldest to the newest, are the last events
\* written, without gap, whichever moves and removals failed and wherever a
\* rotation was cut short (EventLog.swift:75-97).
LogIsSuffix ==
  /\ \A i \in 0..MaxFileCount : Exists(i) /\ (\A j \in 0..i - 1 : ~Exists(j)) => log[i].last = written
  /\ \A i, j \in 0..MaxFileCount :
       i < j /\ Exists(i) /\ Exists(j) /\ (\A k \in i + 1..j - 1 : ~Exists(k)) =>
         log[j].last + 1 = log[i].first
  /\ written > 0 => \E i \in 0..MaxFileCount : Exists(i)

=============================================================================
