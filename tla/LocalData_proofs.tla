-------------------------- MODULE LocalData_proofs --------------------------
(***************************************************************************)
(* Proofs about LocalData, for any settings, playlists and videos, any     *)
(* number of log files of any length, and behaviours of any length.        *)
(***************************************************************************)
EXTENDS LocalData, WellFoundedInduction, TLAPS

-----------------------------------------------------------------------------
(* Sums.                                                                   *)

\* A set of numbers that is not empty has a least one.
LEMMA Least ==
  ASSUME NEW T \in SUBSET Nat, T # {}
  PROVE  \E n \in T : \A m \in T : n <= m
<1>1. PICK R : R = OpToRel(<, Nat) /\ IsWellFoundedOn(R, Nat)
  BY NatLessThanWellFounded
<1>2. \E n \in T : \A m \in T : ~ (<<m, n>> \in R)
  BY <1>1, WFMin
<1>3. R = {ss \in Nat \X Nat : ss[1] < ss[2]}
  BY <1>1 DEF OpToRel
<1>4. \A m, n \in Nat : <<m, n>> \in R <=> m < n
  BY <1>3
<1>5. PICK n \in T : \A m \in T : ~ (<<m, n>> \in R)
  BY <1>2
<1>6. ASSUME NEW m \in T
      PROVE  n <= m
  <2>1. m \in Nat /\ n \in Nat
    OBVIOUS
  <2>2. ~(m < n)
    BY <2>1, <1>4, <1>5
  <2> QED BY <2>1, <2>2
<1> QED BY <1>5, <1>6

\* A function that satisfies the equation of sum up to n.
SumsTo(f, numbers, n) == f = [k \in 0..n |-> IF k = 0 THEN 0 ELSE f[k - 1] + numbers[k]]

LEMMA SumsExist ==
  ASSUME NEW numbers \in Seq(Int)
  PROVE  \E f : SumsTo(f, numbers, Len(numbers))
<1> DEFINE T == {n \in 0..Len(numbers) : ~\E f : SumsTo(f, numbers, n)}
<1> SUFFICES ASSUME ~\E f : SumsTo(f, numbers, Len(numbers)) PROVE FALSE
  OBVIOUS
<1>1. Len(numbers) \in T
  OBVIOUS
<1>2. PICK n \in T : \A m \in T : n <= m
  <2>1. T \in SUBSET Nat
    OBVIOUS
  <2> HIDE DEF T
  <2> QED BY <1>1, <2>1, Least
<1>3. CASE n = 0
  <2>1. SumsTo([k \in 0..0 |-> 0], numbers, 0)
    BY DEF SumsTo
  <2> QED BY <2>1, <1>3
<1>4. CASE n # 0
  <2>1. n - 1 \in 0..Len(numbers) /\ n - 1 \notin T /\ n \in Nat
    BY <1>2, <1>4
  <2>2. PICK f : SumsTo(f, numbers, n - 1)
    BY <2>1
  <2> DEFINE g == [k \in 0..n |-> IF k = n THEN f[n - 1] + numbers[n] ELSE f[k]]
  <2>3. \A k \in 0..n - 1 : f[k] = IF k = 0 THEN 0 ELSE f[k - 1] + numbers[k]
    BY <2>2 DEF SumsTo
  <2>4. ASSUME NEW k \in 0..n
        PROVE  g[k] = IF k = 0 THEN 0 ELSE g[k - 1] + numbers[k]
    <3>1. CASE k = n
      BY <3>1, <2>1, <1>4
    <3>2. CASE k # n
      <4>1. k \in 0..n - 1 /\ g[k] = f[k] /\ (k # 0 => g[k - 1] = f[k - 1])
        BY <3>2, <2>1
      <4> QED BY <4>1, <2>3
    <3> QED BY <3>1, <3>2
  <2>5. SumsTo(g, numbers, n)
    <3>1. g = [k \in 0..n |-> g[k]]
      OBVIOUS
    <3> HIDE DEF g
    <3> QED BY <2>4, <3>1 DEF SumsTo
  <2> QED BY <2>5
<1> QED BY <1>3, <1>4

LEMMA SumEquations ==
  ASSUME NEW numbers \in Seq(Int)
  PROVE  /\ Sum(numbers, 0) = 0
         /\ \A n \in 1..Len(numbers) : Sum(numbers, n) = Sum(numbers, n - 1) + numbers[n]
<1> DEFINE sum == CHOOSE f : f = [k \in 0..Len(numbers) |-> IF k = 0 THEN 0 ELSE f[k - 1] + numbers[k]]
<1>1. sum = [k \in 0..Len(numbers) |-> IF k = 0 THEN 0 ELSE sum[k - 1] + numbers[k]]
  BY SumsExist DEF SumsTo
<1>2. \A n : Sum(numbers, n) = sum[n]
  BY DEF Sum
<1> HIDE DEF sum
<1>3. \A k \in 0..Len(numbers) : sum[k] = IF k = 0 THEN 0 ELSE sum[k - 1] + numbers[k]
  BY <1>1
<1>4. Len(numbers) \in Nat
  OBVIOUS
<1>5. sum[0] = 0
  BY <1>3, <1>4
<1>6. \A n \in 1..Len(numbers) : sum[n] = sum[n - 1] + numbers[n]
  BY <1>3, <1>4
<1> QED BY <1>2, <1>5, <1>6

-----------------------------------------------------------------------------

\* What cannot fail first holds everywhere, and sums are integers.
LEMMA SumType ==
  ASSUME NEW numbers \in Seq(Int)
  PROVE  \A n \in 0..Len(numbers) : Sum(numbers, n) \in Int
<1> DEFINE T == {n \in 0..Len(numbers) : Sum(numbers, n) \notin Int}
<1> SUFFICES ASSUME T # {} PROVE FALSE
  OBVIOUS
<1>1. PICK n \in T : \A m \in T : n <= m
  <2>1. T \in SUBSET Nat
    OBVIOUS
  <2> HIDE DEF T
  <2> QED BY <2>1, Least
<1>2. n # 0
  BY <1>1, SumEquations
<1>3. n - 1 \in 0..Len(numbers) /\ n - 1 \notin T
  BY <1>1, <1>2
<1>4. Sum(numbers, n) = Sum(numbers, n - 1) + numbers[n]
  BY <1>2, SumEquations
<1> QED BY <1>3, <1>4

\* The sum of what follows the first m numbers.
LEMMA SumOfRest ==
  ASSUME NEW numbers \in Seq(Int), NEW m \in 0..Len(numbers),
         NEW rest \in Seq(Int), Len(rest) = Len(numbers) - m,
         \A k \in 1..Len(rest) : rest[k] = numbers[m + k]
  PROVE  \A n \in 0..Len(rest) : Sum(rest, n) = Sum(numbers, m + n) - Sum(numbers, m)
<1> DEFINE T == {n \in 0..Len(rest) : Sum(rest, n) # Sum(numbers, m + n) - Sum(numbers, m)}
<1> SUFFICES ASSUME T # {} PROVE FALSE
  OBVIOUS
<1>1. PICK n \in T : \A k \in T : n <= k
  <2>1. T \in SUBSET Nat
    OBVIOUS
  <2> HIDE DEF T
  <2> QED BY <2>1, Least
<1>2. Sum(numbers, m) \in Int
  BY SumType
<1>3. n # 0
  BY <1>1, <1>2, SumEquations
<1>4a. n \in 1..Len(rest) /\ m + n \in 1..Len(numbers) /\ n \in Nat /\ m \in Nat
  BY <1>1, <1>3
<1>4. Sum(rest, n - 1) = Sum(numbers, m + (n - 1)) - Sum(numbers, m)
  <2>1. n - 1 \in 0..Len(rest) /\ ~(n <= n - 1)
    BY <1>4a
  <2>2. n - 1 \notin T
    BY <1>1, <2>1
  <2> QED BY <2>1, <2>2
<1>5. Sum(rest, n) = Sum(rest, n - 1) + numbers[m + n]
  BY <1>4a, SumEquations
<1>6. \A i \in 1..Len(numbers) :
         /\ Sum(numbers, i) = Sum(numbers, i - 1) + numbers[i]
         /\ Sum(numbers, i - 1) \in Int /\ numbers[i] \in Int
  <2>1. \A i \in 1..Len(numbers) : i - 1 \in 0..Len(numbers) /\ numbers[i] \in Int
    OBVIOUS
  <2> QED BY <2>1, SumEquations, SumType
<1>7. /\ Sum(numbers, m + n) = Sum(numbers, m + n - 1) + numbers[m + n]
      /\ Sum(numbers, m + n - 1) \in Int /\ numbers[m + n] \in Int
  <2>1. PICK i \in 1..Len(numbers) : i = m + n
    BY <1>4a
  <2>2. Sum(numbers, i) = Sum(numbers, i - 1) + numbers[i]
        /\ Sum(numbers, i - 1) \in Int /\ numbers[i] \in Int
    BY <2>1, <1>6
  <2> QED BY <2>1, <2>2
<1>8. m + (n - 1) = m + n - 1
  BY <1>4a
<1>9. Sum(rest, n) = Sum(numbers, m + n) - Sum(numbers, m)
  BY <1>2, <1>4, <1>5, <1>7, <1>8
<1> QED BY <1>1, <1>9

\* Rounding down.
LEMMA Rounding ==
  ASSUME NEW a \in Int, NEW u \in Nat \ {0}
  PROVE  /\ a \div u \in Int
         /\ u * (a \div u) <= a
         /\ a < u * (a \div u) + u
         /\ (a % u = 0 => a = u * (a \div u))
  OBVIOUS

LEMMA RoundingDownMore ==
  ASSUME NEW u \in Nat \ {0}, NEW a \in Int, NEW q \in Int, u * q <= a
  PROVE  q <= a \div u
  BY Rounding


-----------------------------------------------------------------------------
(* The parts.                                                              *)

ConfigStep ==
  \/ \E succeeds \in BOOLEAN : \/ \E url \in Urls : RememberPlayed(url, succeeds)
                               \/ \E setting \in Settings : ChangeSetting(setting, succeeds)
  \/ OpenSettings \/ Launch \/ Kill

PlaylistStep ==
  \/ \E succeeds \in BOOLEAN, id \in PlaylistIds :
       \/ \E content \in Contents : SavePlaylist(id, content, succeeds)
       \/ DeletePlaylist(id, succeeds)
  \/ Launch

CacheStep ==
  \/ \E id \in VideoIds :
       \/ \E size \in Sizes, k \in 0..Len(cache),
           stuck \in 0..Len(cache) + 1 : CacheFile(id, size, k, stuck)
       \/ CopyFails(id)
  \/ \E k \in 0..Len(cache) : ClearCache(k)
  \/ Kill

LogStep ==
  \/ Write \/ RemoveOldest \/ AppendLine
  \/ \E i \in 0..MaxFileCount : Move(i)
  \/ Kill

\* A step of one part leaves the files of the others alone.
LEMMA PartsApart ==
  ASSUME [LocalNext]_localVars
  PROVE  /\ ConfigStep \/ UNCHANGED configVars
         /\ PlaylistStep \/ (UNCHANGED playlistVars /\ (running' => running))
         /\ CacheStep \/ UNCHANGED cacheVars
         /\ LogStep \/ UNCHANGED logVars
<1> DEFINE Apart == /\ ConfigStep \/ UNCHANGED configVars
                    /\ PlaylistStep \/ (UNCHANGED playlistVars /\ (running' => running))
                    /\ CacheStep \/ UNCHANGED cacheVars
                    /\ LogStep \/ UNCHANGED logVars
<1> USE DEF LocalAct, WriteStep
<1>1. ASSUME NEW succeeds \in BOOLEAN, NEW url \in Urls, RememberPlayed(url, succeeds)
      PROVE  Apart
  BY <1>1 DEF RememberPlayed, ConfigStep
<1>2. ASSUME NEW succeeds \in BOOLEAN, NEW setting \in Settings, ChangeSetting(setting, succeeds)
      PROVE  Apart
  BY <1>2 DEF ChangeSetting, ConfigStep
<1>3. ASSUME NEW succeeds \in BOOLEAN, NEW id \in PlaylistIds, NEW content \in Contents,
             SavePlaylist(id, content, succeeds)
      PROVE  Apart
  BY <1>3 DEF SavePlaylist, PlaylistStep
<1>4. ASSUME NEW succeeds \in BOOLEAN, NEW id \in PlaylistIds, DeletePlaylist(id, succeeds)
      PROVE  Apart
  BY <1>4 DEF DeletePlaylist, PlaylistStep
<1>5. CASE OpenSettings
  BY <1>5 DEF OpenSettings, ConfigStep
<1>6. ASSUME NEW id \in VideoIds, NEW size \in Sizes, NEW k \in 0..Len(cache),
             NEW stuck \in 0..Len(cache) + 1, CacheFile(id, size, k, stuck)
      PROVE  Apart
  BY <1>6 DEF CacheFile, CacheStep
<1>7. ASSUME NEW id \in VideoIds, CopyFails(id)
      PROVE  Apart
  BY <1>7 DEF CopyFails, CacheStep
<1>8. ASSUME NEW k \in 0..Len(cache), ClearCache(k)
      PROVE  Apart
  BY <1>8 DEF ClearCache, CacheStep
<1>9. CASE Write
  BY <1>9 DEF Write, LogStep
<1>10. CASE RemoveOldest
  BY <1>10 DEF RemoveOldest, LogStep
<1>11. CASE AppendLine
  BY <1>11 DEF AppendLine, LogStep
<1>12. ASSUME NEW i \in 0..MaxFileCount, Move(i)
       PROVE  Apart
  BY <1>12 DEF Move, LogStep
<1>13. CASE Launch
  <2>1. UNCHANGED logVars /\ UNCHANGED cacheVars
    BY <1>13 DEF Launch
  <2> QED BY <1>13, <2>1 DEF ConfigStep, PlaylistStep
<1>14. CASE Kill
  BY <1>14 DEF Kill, ConfigStep, CacheStep, LogStep
<1>15. CASE UNCHANGED localVars
  BY <1>15 DEF localVars
<1> QED
  BY <1>1, <1>2, <1>3, <1>4, <1>5, <1>6, <1>7, <1>8, <1>9, <1>10, <1>11, <1>12,
     <1>13, <1>14, <1>15 DEF LocalNext

-----------------------------------------------------------------------------
(* Playlists.                                                              *)

\* The property needs nothing but types.
PlaylistInv ==
  /\ disk \in [PlaylistIds -> Contents \cup {Absent, Undecodable}]
  /\ playlists \in [PlaylistIds -> Contents \cup {Absent}]
  /\ PlaylistsSurviveRelaunch

LEMMA PlaylistsInit == LocalInit => PlaylistInv
<1> SUFFICES ASSUME LocalInit PROVE PlaylistInv
  OBVIOUS
<1>1. /\ playlists = [id \in PlaylistIds |-> Absent]
      /\ running = (part = "none")
      /\ disk \in IF part = "playlists" THEN [PlaylistIds -> {Absent, Undecodable}]
                  ELSE {[id \in PlaylistIds |-> Absent]}
  BY DEF LocalInit
<1>2. CASE part = "playlists"
  BY <1>1, <1>2 DEF PlaylistInv, PlaylistsSurviveRelaunch
<1>3. CASE part # "playlists"
  BY <1>1, <1>3 DEF PlaylistInv, PlaylistsSurviveRelaunch
<1> QED BY <1>2, <1>3

LEMMA PlaylistsStep == PlaylistInv /\ [LocalNext]_localVars => PlaylistInv'
<1> SUFFICES ASSUME PlaylistInv, [LocalNext]_localVars PROVE PlaylistInv'
  OBVIOUS
<1> USE DEF PlaylistInv, PlaylistsSurviveRelaunch
<1>1. ASSUME NEW id \in PlaylistIds, NEW content \in Contents, NEW succeeds \in BOOLEAN,
             SavePlaylist(id, content, succeeds)
      PROVE  PlaylistInv'
  BY <1>1 DEF SavePlaylist, LocalAct
<1>2. ASSUME NEW id \in PlaylistIds, NEW succeeds \in BOOLEAN, DeletePlaylist(id, succeeds)
      PROVE  PlaylistInv'
  BY <1>2 DEF DeletePlaylist, LocalAct
<1>3. CASE Launch
  BY <1>3 DEF Launch, LoadAll
<1>4. CASE UNCHANGED playlistVars /\ (running' => running)
  BY <1>4 DEF playlistVars
<1> QED BY <1>1, <1>2, <1>3, <1>4, PartsApart DEF PlaylistStep

\* PlaylistManager shows what it will show after a relaunch, but for files
\* that could not be removed (PlaylistManager.swift:60-90).
THEOREM PlaylistsAlwaysSurviveRelaunch == LocalSpec => []PlaylistsSurviveRelaunch
<1>1. PlaylistInv => PlaylistsSurviveRelaunch
  BY DEF PlaylistInv
<1> QED BY <1>1, PlaylistsInit, PlaylistsStep, PTL DEF LocalSpec

-----------------------------------------------------------------------------
(* Configuration.                                                          *)

\* A copy that is as new as the other owner's last save holds what that owner
\* saved.
ConfigInv ==
  /\ file \in Config \cup {Absent, Undecodable}
  /\ manager \in Config
  /\ settings \in Config \cup {Absent}
  /\ memo \in [played : Urls \cup {NoUrl}, playedKept : BOOLEAN, managerFresh : BOOLEAN,
               setting : Settings, settingKept : BOOLEAN, settingsFresh : BOOLEAN]
  /\ memo.managerFresh /\ memo.settingKept => manager.setting = memo.setting
  /\ settings # Absent /\ memo.settingsFresh /\ memo.playedKept =>
       settings.lastPlayed = memo.played
  /\ ConfigRemembered

LEMMA DecodedType ==
  ASSUME NEW f \in Config \cup {Absent, Undecodable}
  PROVE  /\ Decoded(f) \in Config
         /\ f \in Config => Decoded(f) = f
  BY LocalAssumption, ConfigAssumption DEF Decoded, DefaultConfig, Config

LEMMA ConfigInit == LocalInit => ConfigInv
<1> SUFFICES ASSUME LocalInit PROVE ConfigInv
  OBVIOUS
<1>1. DefaultConfig \in Config
  BY LocalAssumption DEF DefaultConfig, Config
<1>2. /\ file \in {Absent, Undecodable, DefaultConfig}
      /\ manager = DefaultConfig /\ settings = Absent /\ memo = NoMemo
  BY DEF LocalInit
<1> QED BY <1>1, <1>2, LocalAssumption DEF ConfigInv, ConfigRemembered, NoMemo, DefaultConfig

LEMMA ConfigStepKeeps == ConfigInv /\ [LocalNext]_localVars => ConfigInv'
<1> SUFFICES ASSUME ConfigInv, [LocalNext]_localVars PROVE ConfigInv'
  OBVIOUS
<1>1. ASSUME NEW url \in Urls, NEW saves \in BOOLEAN, RememberPlayed(url, saves)
      PROVE  ConfigInv'
  <2>1. /\ manager' \in Config /\ manager'.lastPlayed = url
        /\ manager'.setting = manager.setting
    BY <1>1 DEF RememberPlayed, ConfigInv, Config
  <2>2. Decoded(manager') = manager'
    BY <2>1, DecodedType
  <2>3. /\ memo' \in [played : Urls \cup {NoUrl}, playedKept : BOOLEAN, managerFresh : BOOLEAN,
                      setting : Settings, settingKept : BOOLEAN, settingsFresh : BOOLEAN]
        /\ memo'.played = url /\ memo'.playedKept = saves /\ ~memo'.settingsFresh
        /\ memo'.settingKept = (memo.settingKept /\ (saves => memo.managerFresh))
        /\ memo'.managerFresh = memo.managerFresh /\ memo'.setting = memo.setting
    BY <1>1 DEF RememberPlayed, ConfigInv
  <2> QED BY <1>1, <2>1, <2>2, <2>3 DEF RememberPlayed, ConfigInv, ConfigRemembered
<1>2. ASSUME NEW setting \in Settings, NEW saves \in BOOLEAN, ChangeSetting(setting, saves)
      PROVE  ConfigInv'
  <2>1. /\ settings \in Config /\ settings # Absent
        /\ settings' \in Config /\ settings'.setting = setting
        /\ settings'.lastPlayed = settings.lastPlayed
    BY <1>2 DEF ChangeSetting, ConfigInv, Config
  <2>2. Decoded(settings') = settings'
    BY <2>1, DecodedType
  <2>3. /\ memo' \in [played : Urls \cup {NoUrl}, playedKept : BOOLEAN, managerFresh : BOOLEAN,
                      setting : Settings, settingKept : BOOLEAN, settingsFresh : BOOLEAN]
        /\ memo'.setting = setting /\ memo'.settingKept = saves /\ ~memo'.managerFresh
        /\ memo'.playedKept = (memo.playedKept /\ (saves => memo.settingsFresh))
        /\ memo'.settingsFresh = memo.settingsFresh /\ memo'.played = memo.played
    BY <1>2 DEF ChangeSetting, ConfigInv
  <2> QED BY <1>2, <2>1, <2>2, <2>3 DEF ChangeSetting, ConfigInv, ConfigRemembered
<1>3. CASE OpenSettings
  <2>1. settings' = Decoded(file) /\ settings' \in Config
    BY <1>3, DecodedType DEF OpenSettings, ConfigInv
  <2>2. memo' = [memo EXCEPT !.settingsFresh = TRUE] /\ UNCHANGED <<file, manager>>
    BY <1>3 DEF OpenSettings
  <2> QED BY <2>1, <2>2 DEF ConfigInv, ConfigRemembered
<1>4. CASE Launch
  <2>1. /\ manager' = Decoded(file) /\ manager' \in Config
        /\ file' \in Config \cup {Absent, Undecodable} /\ Decoded(file') = Decoded(file)
    BY <1>4, DecodedType DEF Launch, ConfigInv, Decoded
  <2>2. memo' = [memo EXCEPT !.managerFresh = TRUE] /\ UNCHANGED settings
    BY <1>4 DEF Launch
  <2> QED BY <2>1, <2>2 DEF ConfigInv, ConfigRemembered
<1>5. CASE Kill
  BY <1>5 DEF Kill, ConfigInv, ConfigRemembered
<1>6. CASE UNCHANGED configVars
  BY <1>6 DEF configVars, ConfigInv, ConfigRemembered
<1> QED BY <1>1, <1>2, <1>3, <1>4, <1>5, <1>6, PartsApart DEF ConfigStep

\* What ConfigManager or the Settings window saved stays in config.json until
\* the other saves an older copy (ConfigManager.swift:34-37,
\* SettingsViewModel.swift:81-83).
THEOREM ConfigAlwaysRemembered == LocalSpec => []ConfigRemembered
<1>1. ConfigInv => ConfigRemembered
  BY DEF ConfigInv
<1> QED BY <1>1, ConfigInit, ConfigStepKeeps, PTL DEF LocalSpec

-----------------------------------------------------------------------------
(* Event log.                                                              *)

\* A rotation starts with a file to move: otherwise removing the oldest file
\* could remove the only one.
LogInv ==
  /\ log \in [0..MaxFileCount -> Events]
  /\ step \in 0..Waiting
  /\ written \in Nat
  /\ step = MaxFileCount => Exists(0)
  /\ LogIsSuffix

LEMMA LogInit == LocalInit => LogInv
BY LocalAssumption DEF LocalInit, LogInv, LogIsSuffix, NoEvents, Exists, Events, Waiting

\* A file that did not exist takes the events of its neighbour.
LEMMA MoveKeepsOrder ==
  ASSUME LogInv, NEW i \in 0..MaxFileCount, i < MaxFileCount, Exists(i), ~Exists(i + 1),
         log' = [log EXCEPT ![i + 1] = log[i], ![i] = NoEvents], written' = written
  PROVE  LogIsSuffix'
<1> USE LocalAssumption
<1>1. i + 1 \in 0..MaxFileCount
  OBVIOUS
<1>2. /\ log'[i + 1] = log[i] /\ log'[i] = NoEvents
      /\ \A k \in 0..MaxFileCount \ {i, i + 1} : log'[k] = log[k]
  BY <1>1 DEF LogInv
<1>3. /\ Exists(i + 1)' /\ ~Exists(i)'
      /\ \A k \in 0..MaxFileCount \ {i, i + 1} : Exists(k)' <=> Exists(k)
  <2>1. Exists(i + 1)'
    BY <1>2 DEF Exists
  <2>2. ~Exists(i)'
    BY <1>2 DEF Exists, NoEvents
  <2>3. \A k \in 0..MaxFileCount \ {i, i + 1} : Exists(k)' <=> Exists(k)
    BY <1>2 DEF Exists
  <2> QED BY <2>1, <2>2, <2>3
<1>4. ASSUME NEW p \in 0..MaxFileCount, Exists(p)', \A j \in 0..p - 1 : ~Exists(j)'
      PROVE  log'[p].last = written'
  <2>1. CASE p = i + 1
    BY <1>1, <1>2, <1>3, <1>4, <2>1 DEF LogInv, LogIsSuffix
  <2>2. CASE p # i + 1
    BY <1>1, <1>2, <1>3, <1>4, <2>2 DEF LogInv, LogIsSuffix
  <2> QED BY <2>1, <2>2
<1>5. ASSUME NEW p \in 0..MaxFileCount, NEW q \in 0..MaxFileCount,
             p < q, Exists(p)', Exists(q)', \A k \in p + 1..q - 1 : ~Exists(k)'
      PROVE  log'[q].last + 1 = log'[p].first
  <2>1. CASE p = i + 1
    <3>1. \A k \in i + 1..q - 1 : ~Exists(k)
      BY <1>3, <1>5, <2>1
    <3> QED BY <1>2, <1>3, <1>5, <2>1, <3>1 DEF LogInv, LogIsSuffix
  <2>2. CASE q = i + 1
    BY <1>2, <1>3, <1>5, <2>2 DEF LogInv, LogIsSuffix
  <2>3. CASE p \notin {i, i + 1} /\ q \notin {i, i + 1}
    <3>1. \A k \in p + 1..q - 1 : ~Exists(k)
      BY <1>1, <1>3, <1>5, <2>3
    <3> QED BY <1>2, <1>3, <1>5, <2>3, <3>1 DEF LogInv, LogIsSuffix
  <2> QED BY <1>3, <1>5, <2>1, <2>2, <2>3
<1> QED BY <1>1, <1>3, <1>4, <1>5 DEF LogIsSuffix

LEMMA LogStepKeeps == LogInv /\ [LocalNext]_localVars => LogInv'
<1> SUFFICES ASSUME LogInv, [LocalNext]_localVars PROVE LogInv'
  OBVIOUS
<1> USE LocalAssumption
<1>1. CASE Write
  <2>1. CASE Size(0) >= MaxLines
    <3>1. log[0] \in Events
      BY DEF LogInv
    <3> QED BY <1>1, <2>1, <3>1 DEF Write, LogInv, LogIsSuffix, Exists, Size, Waiting, Appending, Events
  <2>2. CASE ~(Size(0) >= MaxLines)
    BY <1>1, <2>2 DEF Write, LogInv, LogIsSuffix, Exists, Waiting, Appending
  <2> QED BY <2>1, <2>2
<1>2. CASE RemoveOldest
  <2>1. /\ Exists(0) /\ written' = written /\ step' = MaxFileCount - 1
        /\ log' \in {log, [log EXCEPT ![MaxFileCount] = NoEvents]}
    BY <1>2 DEF RemoveOldest, WriteStep, LogInv
  <2>2. CASE log' = log
    BY <2>1, <2>2 DEF LogInv, LogIsSuffix, Exists, Waiting
  <2>3. CASE log' = [log EXCEPT ![MaxFileCount] = NoEvents]
    <3>1. /\ log' \in [0..MaxFileCount -> Events]
          /\ log'[MaxFileCount] = NoEvents
          /\ \A k \in 0..MaxFileCount - 1 : log'[k] = log[k]
      BY <2>3 DEF LogInv, NoEvents, Events
    <3>2. /\ ~Exists(MaxFileCount)'
          /\ \A k \in 0..MaxFileCount - 1 : Exists(k)' <=> Exists(k)
      BY <3>1 DEF Exists, NoEvents
    <3>3. LogIsSuffix'
      BY <2>1, <3>1, <3>2 DEF LogInv, LogIsSuffix
    <3> QED BY <2>1, <3>1, <3>2, <3>3 DEF LogInv, Waiting
  <2> QED BY <2>1, <2>2, <2>3
<1>3. CASE AppendLine
  <2>1. CASE UNCHANGED <<log, written>>
    BY <1>3, <2>1 DEF AppendLine, LogInv, LogIsSuffix, Exists, Waiting
  <2>2. CASE /\ log' = [log EXCEPT ![0] = [first |-> IF Exists(0) THEN log[0].first ELSE written + 1,
                                           last |-> written + 1]]
             /\ written' = written + 1
    <3>1. log[0] \in Events
      BY DEF LogInv
    <3>2. /\ log' \in [0..MaxFileCount -> Events]
          /\ log'[0].first = IF Exists(0) THEN log[0].first ELSE written + 1
          /\ log'[0].last = written + 1
          /\ \A k \in 1..MaxFileCount : log'[k] = log[k]
      BY <2>2, <3>1 DEF LogInv, Events
    <3>3. Exists(0) => log[0].last = written
      BY DEF LogInv, LogIsSuffix
    <3>4. /\ Exists(0)'
          /\ \A k \in 1..MaxFileCount : Exists(k)' <=> Exists(k)
      BY <3>1, <3>2, <3>3 DEF Exists, LogInv, Events
    <3>5. ASSUME NEW p \in 0..MaxFileCount, NEW q \in 0..MaxFileCount,
                 p < q, Exists(p)', Exists(q)', \A k \in p + 1..q - 1 : ~Exists(k)'
          PROVE  log'[q].last + 1 = log'[p].first
      <4>1. CASE p # 0
        BY <3>2, <3>4, <3>5, <4>1 DEF LogInv, LogIsSuffix
      <4>2. CASE p = 0 /\ Exists(0)
        BY <3>2, <3>4, <3>5, <4>2 DEF LogInv, LogIsSuffix
      <4>3. CASE p = 0 /\ ~Exists(0)
        <5>1. \A k \in 0..q - 1 : ~Exists(k)
          BY <3>4, <3>5, <4>3
        <5>2. Exists(q) /\ log[q].last = written
          BY <3>4, <3>5, <4>3, <5>1 DEF LogInv, LogIsSuffix
        <5> QED BY <3>2, <3>5, <4>3, <5>2
      <4> QED BY <4>1, <4>2, <4>3
    <3>6. ASSUME NEW p \in 0..MaxFileCount, \A j \in 0..p - 1 : ~Exists(j)'
          PROVE  log'[p].last = written'
      BY <2>2, <3>2, <3>4, <3>6
    <3>7. LogIsSuffix'
      BY <3>4, <3>5, <3>6 DEF LogIsSuffix
    <3> QED BY <1>3, <2>2, <3>2, <3>4, <3>7 DEF AppendLine, LogInv, Waiting
  <2> QED BY <1>3, <2>1, <2>2 DEF AppendLine
<1>4. ASSUME NEW i \in 0..MaxFileCount, Move(i)
      PROVE  LogInv'
  <2>1. /\ i < MaxFileCount /\ written' = written
        /\ step' \in 0..Waiting /\ step' # MaxFileCount
    BY <1>4 DEF Move, WriteStep, Waiting, Appending
  <2>2. CASE UNCHANGED log
    BY <2>1, <2>2 DEF LogInv, LogIsSuffix, Exists, Waiting
  <2>3. CASE Exists(i) /\ ~Exists(i + 1) /\ log' = [log EXCEPT ![i + 1] = log[i], ![i] = NoEvents]
    <3>1. log' \in [0..MaxFileCount -> Events]
      BY <2>1, <2>3 DEF LogInv, NoEvents, Events
    <3> QED BY <2>1, <2>3, <3>1, MoveKeepsOrder DEF LogInv, Waiting
  <2> QED BY <1>4, <2>2, <2>3 DEF Move
<1>5. CASE Kill
  BY <1>5 DEF Kill, LogInv, LogIsSuffix, Exists, Waiting
<1>6. CASE UNCHANGED logVars
  BY <1>6 DEF logVars, LogInv, LogIsSuffix, Exists, Waiting
<1> QED BY <1>1, <1>2, <1>3, <1>4, <1>5, <1>6, PartsApart DEF LogStep

\* The log files hold the last events written, in order and without gap,
\* whichever steps of a rotation fail and wherever it is cut short
\* (EventLog.swift:75-97).
THEOREM LogIsAlwaysSuffix == LocalSpec => []LogIsSuffix
<1>1. LogInv => LogIsSuffix
  BY DEF LogInv
<1> QED BY <1>1, LogInit, LogStepKeeps, PTL DEF LocalSpec

-----------------------------------------------------------------------------
(* Cache.                                                                  *)

SizesOf(files) == [i \in DOMAIN files |-> files[i].size]
MegabytesOf(files) == [i \in DOMAIN files |-> files[i].size \div UnitsPerMB]

\* Both are sequences of integers.
LEMMA SizesType ==
  ASSUME NEW files \in Seq(Video)
  PROVE  /\ SizesOf(files) \in Seq(Int) /\ MegabytesOf(files) \in Seq(Int)
         /\ Len(SizesOf(files)) = Len(files) /\ Len(MegabytesOf(files)) = Len(files)
         /\ DOMAIN files = 1..Len(files) /\ Len(files) \in Nat
         /\ \A i \in 1..Len(files) : /\ files[i] \in Video /\ files[i].size \in Int
                                     /\ SizesOf(files)[i] = files[i].size
                                     /\ MegabytesOf(files)[i] = files[i].size \div UnitsPerMB
<1>1. DOMAIN files = 1..Len(files) /\ Len(files) \in Nat
  OBVIOUS
<1>2. \A i \in 1..Len(files) : files[i] \in Video /\ files[i].size \in Int
                               /\ files[i].size \div UnitsPerMB \in Int
  <2>1. ASSUME NEW i \in 1..Len(files)
        PROVE  files[i] \in Video /\ files[i].size \in Int
    <3>1. files[i] \in Video
      OBVIOUS
    <3>2. files[i].size \in Sizes
      BY <3>1 DEF Video
    <3>3. \A x \in Sizes : x \in Int
      BY LocalAssumption
    <3>4. files[i].size \in Int
      BY <3>2, <3>3, Zenon
    <3> QED BY <3>1, <3>4
  <2>2. ASSUME NEW a \in Int PROVE a \div UnitsPerMB \in Int
    BY LocalAssumption, Rounding
  <2> QED BY <2>1, <2>2
<1> QED BY <1>1, <1>2 DEF SizesOf, MegabytesOf

\* What is rounded down file by file is at most the sum, and no less when
\* there is nothing to round.
LEMMA RoundedSum ==
  ASSUME NEW files \in Seq(Video)
  PROVE  \A n \in 0..Len(files) :
           /\ UnitsPerMB * Sum(MegabytesOf(files), n) <= Sum(SizesOf(files), n)
           /\ (\A i \in DOMAIN files : files[i].size % UnitsPerMB = 0) =>
                UnitsPerMB * Sum(MegabytesOf(files), n) = Sum(SizesOf(files), n)
<1> DEFINE u == UnitsPerMB
           Whole == \A i \in DOMAIN files : files[i].size % u = 0
           Good(n) == /\ u * Sum(MegabytesOf(files), n) <= Sum(SizesOf(files), n)
                      /\ Whole => u * Sum(MegabytesOf(files), n) = Sum(SizesOf(files), n)
           T == {n \in 0..Len(files) : ~Good(n)}
<1> SUFFICES ASSUME T # {} PROVE FALSE
  OBVIOUS
<1>1. PICK n \in T : \A k \in T : n <= k
  <2>1. T \in SUBSET Nat
    BY SizesType
  <2> HIDE DEF T
  <2> QED BY <2>1, Least
<1>2. n # 0
  BY <1>1, SizesType, SumEquations, LocalAssumption
<1>3. n \in 1..Len(files) /\ n \in Nat /\ n - 1 \in 0..Len(files) /\ ~(n <= n - 1)
  BY <1>1, <1>2, SizesType
<1>4. Good(n - 1)
  BY <1>1, <1>3
<1> DEFINE d == files[n].size \div u
           M == Sum(MegabytesOf(files), n - 1)
           S == Sum(SizesOf(files), n - 1)
<1>5. /\ Sum(MegabytesOf(files), n) = M + d
      /\ Sum(SizesOf(files), n) = S + files[n].size
      /\ M \in Int /\ S \in Int /\ d \in Int /\ files[n].size \in Int
  <2>1. Sum(MegabytesOf(files), n) = M + d
    BY <1>3, SizesType, SumEquations
  <2>2. Sum(SizesOf(files), n) = S + files[n].size
    BY <1>3, SizesType, SumEquations
  <2>3. M \in Int /\ S \in Int
    BY <1>3, SizesType, SumType
  <2>4. files[n].size \in Int
    BY <1>3, SizesType
  <2>5. d \in Int
    BY <2>4, Rounding, LocalAssumption
  <2> QED BY <2>1, <2>2, <2>3, <2>4, <2>5
<1>6. u \in Nat \ {0} /\ u * d <= files[n].size
  BY <1>5, Rounding, LocalAssumption
<1>7. Whole => u * d = files[n].size
  <2>1. Whole => files[n].size % u = 0
    BY <1>3, SizesType
  <2> QED BY <1>5, <1>6, <2>1, Rounding
<1>8. u * M <= S /\ (Whole => u * M = S)
  BY <1>4
<1>9. u * (M + d) = u * M + u * d
  BY <1>5, <1>6
<1>10. /\ u * (M + d) <= S + files[n].size
       /\ Whole => u * (M + d) = S + files[n].size
  <2> DEFINE x == u * M
             y == u * d
  <2>1. x \in Int /\ y \in Int
    BY <1>5, <1>6
  <2>2. u * (M + d) = x + y
    BY <1>9
  <2>3. /\ x <= S /\ (Whole => x = S)
        /\ y <= files[n].size /\ (Whole => y = files[n].size)
    BY <1>6, <1>7, <1>8
  <2> HIDE DEF M, S, d, u, x, y, Whole
  <2> QED BY <1>5, <2>1, <2>2, <2>3
<1>11. Good(n)
  BY <1>5, <1>10
<1> QED BY <1>1, <1>11

\* The files that evictIfNeeded tries to remove are enough, or all, and no
\* more than needed.
LEMMA TriedEnough ==
  ASSUME NEW files \in Seq(Video)
  PROVE  /\ Tried(files) \in 0..Len(files)
         /\ Tried(files) = Len(files) \/ Remaining(files, Tried(files)) <= LimitMB
         /\ \A j \in 0..Tried(files) - 1 : Remaining(files, j) > LimitMB
<1> DEFINE T == {k \in 0..Len(files) : k = Len(files) \/ ~(Remaining(files, k) > LimitMB)}
<1>1. Len(files) \in T
  BY SizesType
<1>2. PICK k \in T : \A j \in T : k <= j
  <2>1. T \in SUBSET Nat
    BY SizesType
  <2> HIDE DEF T
  <2> QED BY <1>1, <2>1, Least
<1>3. /\ k \in 0..Len(files) /\ k \in Nat /\ Len(files) \in Nat
      /\ k = Len(files) \/ ~(Remaining(files, k) > LimitMB)
  BY <1>2, SizesType
<1>4. ASSUME NEW j \in 0..k - 1 PROVE Remaining(files, j) > LimitMB
  <2>1. j \in 0..Len(files) /\ ~(k <= j)
    BY <1>3
  <2> QED BY <1>2, <2>1
<1>5. Remaining(files, k) \in Int /\ LimitMB \in Int
  <2>1. Sum(MegabytesOf(files), k) \in Int /\ Sum(SizesOf(files), Len(files)) \in Int
    BY <1>3, SizesType, SumType
  <2>2. Sum(SizesOf(files), Len(files)) \div UnitsPerMB \in Int
    BY <2>1, Rounding, LocalAssumption
  <2> QED BY <2>1, <2>2, LocalAssumption
          DEF Remaining, CurrentMB, TotalSize, SizesOf, MegabytesOf
<1>6. k = Len(files) \/ Remaining(files, k) <= LimitMB
  BY <1>3, <1>5
<1> QED BY <1>3, <1>4, <1>6 DEF Tried

LEMMA EvictedType ==
  ASSUME NEW files \in Seq(Video), NEW stuck \in Nat
  PROVE  Evicted(files, stuck) \in Seq(Video)
<1>1. /\ Tried(files) \in 0..Len(files) /\ Len(files) \in Nat
  BY TriedEnough, SizesType
<1>2. SubSeq(files, Tried(files) + 1, Len(files)) \in Seq(Video)
  BY <1>1
<1>3. stuck \in 1..Tried(files) => <<files[stuck]>> \in Seq(Video)
  BY <1>1, SizesType
<1>4. <<>> \in Seq(Video)
  OBVIOUS
<1> QED BY <1>2, <1>3, <1>4 DEF Evicted

\* When every removal succeeds, the files that are left are those from some
\* number on.
LEMMA EvictedRest ==
  ASSUME NEW files \in Seq(Video)
  PROVE  LET rest == Evicted(files, 0) IN
           /\ rest \in Seq(Video) /\ Len(rest) = Len(files) - Tried(files)
           /\ \A i \in 1..Len(rest) : rest[i] = files[Tried(files) + i]
<1>1. /\ Tried(files) \in 0..Len(files) /\ Len(files) \in Nat
  BY TriedEnough, SizesType
<1>2. Evicted(files, 0) = <<>> \o SubSeq(files, Tried(files) + 1, Len(files))
  BY <1>1 DEF Evicted
<1>3. SubSeq(files, Tried(files) + 1, Len(files)) \in Seq(Video)
  BY <1>1
<1>4. Evicted(files, 0) = SubSeq(files, Tried(files) + 1, Len(files))
  BY <1>2, <1>3
<1>5. /\ Len(Evicted(files, 0)) = Len(files) - Tried(files)
      /\ \A i \in 1..Len(Evicted(files, 0)) : Evicted(files, 0)[i] = files[Tried(files) + i]
  <2> DEFINE t == Tried(files)
  <2>1. t \in 0..Len(files) /\ Evicted(files, 0) = SubSeq(files, t + 1, Len(files))
    BY <1>1, <1>4
  <2> HIDE DEF t
  <2>2. Len(SubSeq(files, t + 1, Len(files))) = Len(files) - t
    BY <1>1, <2>1
  <2>3. \A i \in 1..Len(files) - t : SubSeq(files, t + 1, Len(files))[i] = files[t + i]
    BY <1>1, <2>1
  <2> QED BY <2>1, <2>2, <2>3 DEF t
<1> QED BY <1>3, <1>4, <1>5

\* What is left is within the limit, although the removed files may have been
\* larger than what was subtracted for them.
LEMMA EvictedWithinLimit ==
  ASSUME NEW files \in Seq(Video)
  PROVE  CurrentMB(Evicted(files, 0)) <= LimitMB
<1> DEFINE rest == Evicted(files, 0)
           t == Tried(files)
           S(k) == Sum(SizesOf(files), k)
           M(k) == Sum(MegabytesOf(files), k)
           all == S(Len(files))
           u == UnitsPerMB
<1>1. /\ t \in 0..Len(files) /\ Len(files) \in Nat
      /\ t = Len(files) \/ Remaining(files, t) <= LimitMB
  BY TriedEnough, SizesType
<1>2. /\ rest \in Seq(Video) /\ Len(rest) = Len(files) - t
      /\ \A i \in 1..Len(rest) : rest[i] = files[t + i]
  BY EvictedRest
<1>3. CurrentMB(rest) = Sum(SizesOf(rest), Len(rest)) \div u
  BY DEF CurrentMB, TotalSize, SizesOf
<1>4. /\ all \in Int /\ S(t) \in Int /\ M(t) \in Int
      /\ u \in Nat \ {0} /\ LimitMB \in Nat
  BY <1>1, SizesType, SumType, LocalAssumption
<1>5. Sum(SizesOf(rest), Len(rest)) = all - S(t)
  <2> HIDE DEF rest, t
  <2>1. /\ SizesOf(rest) \in Seq(Int) /\ Len(SizesOf(rest)) = Len(rest)
        /\ SizesOf(files) \in Seq(Int) /\ Len(SizesOf(files)) = Len(files)
    BY <1>2, SizesType
  <2>2. \A i \in 1..Len(rest) : SizesOf(rest)[i] = SizesOf(files)[t + i]
    <3>1. ASSUME NEW i \in 1..Len(rest) PROVE t + i \in 1..Len(files)
      BY <1>1, <1>2
    <3> QED BY <1>2, <3>1, SizesType
  <2>3. \A n \in 0..Len(rest) : Sum(SizesOf(rest), n) = S(t + n) - S(t)
    BY <1>1, <1>2, <2>1, <2>2, SumOfRest
  <2>4. Len(rest) \in 0..Len(rest) /\ t + Len(rest) = Len(files)
    BY <1>1, <1>2
  <2> QED BY <2>3, <2>4
<1>6. CASE t = Len(files)
  <2>1. Sum(SizesOf(rest), Len(rest)) = 0
    BY <1>4, <1>5, <1>6
  <2>2. u * (0 \div u) <= 0 /\ 0 \div u \in Int
    BY <1>4, Rounding
  <2> QED BY <1>3, <1>4, <2>1, <2>2
<1>7. CASE Remaining(files, t) <= LimitMB
  <2>1. (all \div u) - M(t) <= LimitMB
    BY <1>7 DEF Remaining, CurrentMB, TotalSize, SizesOf, MegabytesOf
  <2>2. u * M(t) <= S(t)
    BY <1>1, RoundedSum
  <2> DEFINE q == (all - S(t)) \div u
  <2>3. q \in Int /\ u * q <= all - S(t)
    <3>1. all - S(t) \in Int
      BY <1>4
    <3> QED BY <1>4, <3>1, Rounding
  <2>4. u * (q + M(t)) = u * q + u * M(t) /\ u * q \in Int /\ u * M(t) \in Int
    BY <1>4, <2>3
  <2>5. u * (q + M(t)) <= all
    <3> HIDE DEF q, all
    <3> QED BY <1>4, <2>2, <2>3, <2>4
  <2>6. q + M(t) <= all \div u
    <3>1. q + M(t) \in Int
      BY <1>4, <2>3
    <3> HIDE DEF q, all
    <3> QED BY <1>4, <2>5, <3>1, RoundingDownMore
  <2>7. all \div u \in Int
    BY <1>4, Rounding
  <2>8. q <= LimitMB
    <3> HIDE DEF q, all
    <3> QED BY <1>4, <2>1, <2>3, <2>6, <2>7
  <2> QED BY <1>3, <1>5, <2>8
<1> QED BY <1>1, <1>6, <1>7

\* A video that is the newest and fits is not removed, if every size is a
\* whole number of megabytes.
LEMMA EvictedKeepsNewest ==
  ASSUME NEW files \in Seq(Video), Len(files) > 0,
         files[Len(files)].size <= LimitMB * UnitsPerMB,
         \A i \in DOMAIN files : files[i].size % UnitsPerMB = 0
  PROVE  Tried(files) < Len(files)
<1> DEFINE n == Len(files)
           u == UnitsPerMB
           S(k) == Sum(SizesOf(files), k)
           M(k) == Sum(MegabytesOf(files), k)
           size == files[n].size
<1>1. /\ Tried(files) \in 0..n /\ n \in Nat
      /\ \A j \in 0..Tried(files) - 1 : Remaining(files, j) > LimitMB
  BY TriedEnough, SizesType
<1>2. SUFFICES ASSUME Tried(files) = n PROVE FALSE
  BY <1>1
<1>3. n \in 1..n /\ n - 1 \in 0..n - 1 /\ n - 1 \in 0..n
  BY <1>1
<1>4. (S(n) \div u) - M(n - 1) > LimitMB
  BY <1>1, <1>2, <1>3 DEF Remaining, CurrentMB, TotalSize, SizesOf, MegabytesOf
<1>5. S(n) = S(n - 1) + size
  BY <1>3, SizesType, SumEquations
<1>6. u * M(n - 1) = S(n - 1)
  BY <1>3, RoundedSum
<1>7. /\ u \in Nat \ {0} /\ LimitMB \in Nat /\ size \in Int
      /\ S(n) \in Int /\ S(n - 1) \in Int /\ M(n - 1) \in Int
  BY <1>3, SizesType, SumType, LocalAssumption
<1> DEFINE q == S(n) \div u
<1>8. q \in Int /\ u * q <= S(n)
  BY <1>7, Rounding
<1>9. u * q <= u * M(n - 1) + LimitMB * u
  <2>1. size <= LimitMB * u /\ LimitMB * u \in Int
    BY <1>7
  <2> DEFINE before == u * M(n - 1)
             capacity == LimitMB * u
             taken == u * q
  <2>2. before \in Int /\ taken \in Int
    BY <1>7, <1>8
  <2>3. taken <= S(n - 1) + size /\ before = S(n - 1) /\ size <= capacity /\ capacity \in Int
    BY <1>5, <1>6, <1>8, <2>1
  <2> HIDE DEF S, q, size, before, capacity, taken
  <2>4. taken <= before + capacity
    BY <1>7, <2>2, <2>3
  <2> QED BY <2>4 DEF before, capacity, taken
<1>10. q - M(n - 1) <= LimitMB
  <2> DEFINE m == M(n - 1)
  <2>1. m \in Int /\ u * q <= u * m + LimitMB * u
    BY <1>7, <1>9
  <2> HIDE DEF m, q
  <2>2. u * q <= u * (m + LimitMB)
    BY <1>7, <1>8, <2>1
  <2>3. q <= m + LimitMB
    BY <1>7, <1>8, <2>1, <2>2
  <2> QED BY <1>7, <1>8, <2>1, <2>3 DEF m
<1> QED BY <1>4, <1>7, <1>8, <1>10

\* The property needs nothing but types.
CacheInv ==
  /\ cache \in Seq(Video)
  /\ lastCached \in [id : VideoIds, clean : BOOLEAN, fits : BOOLEAN]
  /\ LimitHolds

LEMMA NotCachedType ==
  /\ NotCached \in [id : VideoIds, clean : BOOLEAN, fits : BOOLEAN]
  /\ ~NotCached.clean
BY LocalAssumption DEF NotCached

LEMMA WithoutType ==
  ASSUME cache \in Seq(Video), NEW id
  PROVE  Without(id) \in Seq(Video)
<1>1. CASE \A i \in DOMAIN cache : cache[i].id # id
  BY <1>1 DEF Without
<1>2. CASE ~\A i \in DOMAIN cache : cache[i].id # id
  <2> DEFINE i == CHOOSE i \in DOMAIN cache : cache[i].id = id
  <2>1. i \in DOMAIN cache
    BY <1>2
  <2>2. Without(id) = SubSeq(cache, 1, i - 1) \o SubSeq(cache, i + 1, Len(cache))
    BY <1>2 DEF Without
  <2> HIDE DEF i
  <2>3. i \in 1..Len(cache) /\ Len(cache) \in Nat
    BY <2>1
  <2>4. SubSeq(cache, 1, i - 1) \in Seq(Video) /\ SubSeq(cache, i + 1, Len(cache)) \in Seq(Video)
    BY <2>3
  <2> QED BY <2>2, <2>4
<1> QED BY <1>1, <1>2

\* The new copy is where it was put; last, if nothing is newer.
LEMMA CopiedType ==
  ASSUME NEW files \in Seq(Video), NEW k \in 0..Len(files), NEW video \in Video
  PROVE  LET copied == CopiedTo(files, k, video.id, video.size) IN
           /\ copied \in Seq(Video) /\ Len(copied) = Len(files) + 1
           /\ k = Len(files) => copied[Len(copied)] = video
<1> DEFINE before == SubSeq(files, 1, k)
           after == SubSeq(files, k + 1, Len(files))
<1>1. /\ before \in Seq(Video) /\ Len(before) = k
      /\ after \in Seq(Video) /\ Len(after) = Len(files) - k
      /\ Len(files) \in Nat /\ k \in Nat
  OBVIOUS
<1>2. [id |-> video.id, size |-> video.size] = video
  BY DEF Video
<1>3. CopiedTo(files, k, video.id, video.size) = before \o <<video>> \o after
  BY <1>2 DEF CopiedTo
<1> HIDE DEF before, after
<1>4. /\ before \o <<video>> \in Seq(Video) /\ Len(before \o <<video>>) = k + 1
      /\ (before \o <<video>>)[k + 1] = video
  BY <1>1
<1> DEFINE copied == (before \o <<video>>) \o after
<1>5. /\ copied \in Seq(Video) /\ Len(copied) = Len(files) + 1
      /\ copied[k + 1] = video
  BY <1>1, <1>4
<1> QED BY <1>3, <1>5

LEMMA CacheFileKeeps ==
  ASSUME CacheInv, NEW id \in VideoIds, NEW size \in Sizes, NEW k \in 0..Len(cache),
         NEW stuck \in 0..Len(cache) + 1, CacheFile(id, size, k, stuck)
  PROVE  CacheInv'
<1> DEFINE rest == Without(id)
           video == [id |-> id, size |-> size]
           files == CopiedTo(rest, k, id, size)
           fits == /\ k = Len(rest) /\ size <= LimitMB * UnitsPerMB
                   /\ \A i \in DOMAIN files : files[i].size % UnitsPerMB = 0
<1>1. /\ k \in 0..Len(rest) /\ cache' = Evicted(files, stuck)
      /\ lastCached' = [id |-> id, clean |-> stuck = 0, fits |-> fits]
  BY DEF CacheFile
<1>2. rest \in Seq(Video)
  BY WithoutType DEF CacheInv
<1>3. video \in Video /\ video.id = id /\ video.size = size
  BY DEF Video
<1>4. /\ files \in Seq(Video) /\ Len(files) = Len(rest) + 1
      /\ k = Len(rest) => files[Len(files)] = video
  <2> HIDE DEF rest, video
  <2> QED BY <1>1, <1>2, <1>3, CopiedType
<1> HIDE DEF files, video
<1>5. cache' \in Seq(Video)
  BY <1>1, <1>4, EvictedType
<1>6. lastCached' \in [id : VideoIds, clean : BOOLEAN, fits : BOOLEAN]
  BY <1>1
<1>7. /\ lastCached'.id = id /\ lastCached'.clean = (stuck = 0) /\ lastCached'.fits = fits
  BY <1>1
<1>8. stuck = 0 => CurrentMB(cache') <= LimitMB
  BY <1>1, <1>4, EvictedWithinLimit
<1>9. ASSUME stuck = 0, fits
      PROVE  \E i \in DOMAIN cache' : cache'[i].id = id
  <2>1. Len(files) > 0 /\ Len(files) \in Nat /\ files[Len(files)] = video
    BY <1>2, <1>4, <1>9
  <2>2. Tried(files) < Len(files) /\ Tried(files) \in 0..Len(files)
    BY <1>3, <1>4, <1>9, <2>1, EvictedKeepsNewest, TriedEnough
  <2>3. /\ Len(cache') = Len(files) - Tried(files)
        /\ \A i \in 1..Len(cache') : cache'[i] = files[Tried(files) + i]
    BY <1>1, <1>4, <1>9, EvictedRest
  <2>4. /\ Len(cache') \in 1..Len(cache')
        /\ Tried(files) + Len(cache') = Len(files)
    BY <2>1, <2>2, <2>3
  <2>5. cache'[Len(cache')].id = id
    BY <1>3, <2>1, <2>3, <2>4
  <2> QED BY <1>5, <2>4, <2>5
<1>10. LimitHolds'
  BY <1>7, <1>8, <1>9 DEF LimitHolds, CurrentMB, TotalSize, Sum
<1> QED BY <1>5, <1>6, <1>10 DEF CacheInv

LEMMA CacheInit == LocalInit => CacheInv
BY NotCachedType DEF LocalInit, CacheInv, LimitHolds

LEMMA CacheStepKeeps == CacheInv /\ [LocalNext]_localVars => CacheInv'
<1> SUFFICES ASSUME CacheInv, [LocalNext]_localVars PROVE CacheInv'
  OBVIOUS
<1>1. ASSUME NEW files \in Seq(Video), cache' = files, lastCached' = NotCached
      PROVE  CacheInv'
  BY <1>1, NotCachedType DEF CacheInv, LimitHolds
<1>2. CASE UNCHANGED cacheVars
  BY <1>2 DEF cacheVars, CacheInv, LimitHolds, CurrentMB, TotalSize, Sum
<1>3. ASSUME NEW id \in VideoIds, CopyFails(id)
      PROVE  CacheInv'
  BY <1>1, <1>3, WithoutType DEF CopyFails, CacheInv
<1>4. ASSUME NEW k \in 0..Len(cache), ClearCache(k)
      PROVE  CacheInv'
  <2>1. SubSeq(cache, 1, k) \in Seq(Video)
    BY DEF CacheInv
  <2> QED BY <1>1, <1>4, <2>1 DEF ClearCache
<1>5. CASE Kill
  <2>1. ASSUME NEW id \in VideoIds, NEW size \in Sizes,
               cache' = Append(Without(id), [id |-> id, size |-> size]), lastCached' = NotCached
        PROVE  CacheInv'
    <3>1. [id |-> id, size |-> size] \in Video
      BY DEF Video
    <3>2. Without(id) \in Seq(Video)
      BY WithoutType DEF CacheInv
    <3>3. Append(Without(id), [id |-> id, size |-> size]) \in Seq(Video)
      BY <3>1, <3>2
    <3> QED BY <1>1, <2>1, <3>3
  <2> QED BY <1>2, <1>5, <2>1 DEF Kill
<1> QED BY <1>2, <1>3, <1>4, <1>5, CacheFileKeeps, PartsApart DEF CacheStep

\* After cacheFile has evicted what it can, the cache is within the limit in
\* spite of the rounding, and a video that fits has not evicted itself
\* (CacheManager.swift:30-41, 57-81).
THEOREM LimitAlwaysHolds == LocalSpec => []LimitHolds
<1>1. CacheInv => LimitHolds
  BY DEF CacheInv
<1> QED BY <1>1, CacheInit, CacheStepKeeps, PTL DEF LocalSpec

-----------------------------------------------------------------------------
(* Types.                                                                  *)

\* Of what the parts have in common.
CommonType ==
  /\ part \in AllParts /\ running \in BOOLEAN /\ localActs \in Nat
  /\ leftovers \subseteq PlaylistIds

LEMMA CommonInit == LocalInit => CommonType
BY LocalAssumption DEF LocalInit, CommonType, AllParts

LEMMA CommonStep == CommonType /\ [LocalNext]_localVars => CommonType'
<1> SUFFICES ASSUME CommonType, [LocalNext]_localVars PROVE CommonType'
  OBVIOUS
<1>1. leftovers' \subseteq PlaylistIds
  <2>1. ASSUME NEW id \in PlaylistIds, NEW removes \in BOOLEAN, DeletePlaylist(id, removes)
        PROVE  leftovers' \subseteq PlaylistIds
    BY <2>1 DEF DeletePlaylist, CommonType
  <2>2. CASE UNCHANGED leftovers
    BY <2>2 DEF CommonType
  <2> QED BY <2>1, <2>2, PartsApart DEF PlaylistStep, SavePlaylist, Launch, playlistVars
<1>2. /\ part' = part /\ running' \in BOOLEAN
      /\ localActs' = localActs \/ localActs' = localActs + 1
  BY DEF CommonType, LocalNext, localVars, LocalAct, WriteStep, RememberPlayed, ChangeSetting,
         SavePlaylist, DeletePlaylist, OpenSettings, CacheFile, CopyFails, ClearCache,
         Write, RemoveOldest, AppendLine, Move, Launch, Kill
<1> QED BY <1>1, <1>2 DEF CommonType

\* Files, copies and the cache have their types (ConfigManager.swift:18-37,
\* PlaylistManager.swift:32-58, CacheManager.swift:30-42, EventLog.swift:49-55).
THEOREM LocalTypeCorrect == LocalSpec => []LocalTypeOK
<1>1. CommonType /\ PlaylistInv /\ ConfigInv /\ CacheInv /\ LogInv => LocalTypeOK
  BY DEF CommonType, PlaylistInv, ConfigInv, CacheInv, LogInv, LocalTypeOK
<1> QED BY <1>1, CommonInit, CommonStep, PlaylistsInit, PlaylistsStep, ConfigInit, ConfigStepKeeps,
           CacheInit, CacheStepKeeps, LogInit, LogStepKeeps, PTL DEF LocalSpec

=============================================================================
