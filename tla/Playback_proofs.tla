-------------------------- MODULE Playback_proofs --------------------------
(***************************************************************************)
(* Proofs about Playback, for any displays, files, conditions and users,   *)
(* and whether or not equal assignments notify.                            *)
(***************************************************************************)
EXTENDS Playback, TLAPS

\* The tasks of a launch.
LEMMA RestoringType ==
  ASSUME NEW url \in Urls \cup {NoUrl}, NEW f \in Restoring(url)
  PROVE  /\ f \in [Tasks -> Task]
         /\ \A t \in Tasks : f[t] # Idle => f[t].step # "idle" /\ f[t].url # NoUrl
<1> DEFINE none == [t \in Tasks |-> Idle]
           x == [step |-> "play", url |-> url]
<1>1. Idle \in Task
  BY DEF Idle, Task
<1>2. CASE f = none
  BY <1>1, <1>2
<1>3. CASE \E t \in Tasks : url # NoUrl /\ f = [none EXCEPT ![t] = x]
  <2>1. x \in Task /\ x.step # "idle" /\ x.url = url
    BY DEF Task
  <2> HIDE DEF x
  <2> QED BY <1>1, <1>3, <2>1
<1> QED BY <1>2, <1>3 DEF Restoring

\* The files of those tasks.
LEMMA RestoringUrls ==
  ASSUME NEW url \in Urls \cup {NoUrl}, NEW f \in Restoring(url)
  PROVE  /\ UrlsOf(f) \in SUBSET Urls
         /\ \A t \in Tasks : f[t] # Idle => f[t].url \in UrlsOf(f)
         /\ UrlsOf(f) # {} => \E t \in Tasks : f[t] # Idle
<1>1. /\ f \in [Tasks -> Task]
      /\ \A t \in Tasks : f[t] # Idle => f[t].step # "idle" /\ f[t].url # NoUrl
  BY RestoringType
<1>2. \A t \in Tasks : f[t].url \in Urls \cup {NoUrl}
  BY <1>1 DEF Task
<1>3. Idle.url = NoUrl
  BY DEF Idle
<1> QED BY <1>1, <1>2, <1>3 DEF UrlsOf

\* The kinds of window.
LEMMA WindowFields ==
  /\ Gone \in Window /\ Blank \in Window /\ Gone # Blank
  /\ Gone.url = NoUrl /\ Blank.url = NoUrl
  /\ Gone.state = "gone" /\ Blank.state = "blank"
  /\ \A u \in Urls : LET p == [state |-> "playing", url |-> u] IN
       p \in Window /\ p # Gone /\ p.url = u /\ p.state = "playing"
  /\ \A w \in Window : w.state \in {"gone", "blank", "paused", "playing"}
                       /\ w.url \in Urls \cup {NoUrl}
BY DEF Window, Gone, Blank

\* Pausing and resuming changes neither the url nor what counts as a player.
LEMMA Toggled ==
  ASSUME TypeOK, PauseAll \/ ResumeAll
  PROVE  /\ windows' \in [Displays -> Window]
         /\ \A d \in Displays : /\ windows'[d].url = windows[d].url
                                /\ windows'[d] = Gone <=> windows[d] = Gone
                                /\ HasPlayer(d)' <=> HasPlayer(d)
<1>1. ASSUME NEW w \in Window, NEW s \in {"paused", "playing"},
             w.state \in {"paused", "playing"}
      PROVE  LET x == [w EXCEPT !.state = s] IN
             /\ x \in Window /\ x.url = w.url /\ x.state = s
             /\ x # Gone /\ w # Gone
  BY <1>1 DEF Window, Gone
<1>2. ASSUME NEW d \in Displays
      PROVE  /\ windows'[d] \in Window
             /\ windows'[d].url = windows[d].url
             /\ windows'[d] = Gone <=> windows[d] = Gone
             /\ windows'[d].state \in {"paused", "playing"}
                  <=> windows[d].state \in {"paused", "playing"}
  <2>1. windows[d] \in Window
    BY DEF TypeOK
  <2>2. \/ windows'[d] = windows[d]
        \/ /\ windows[d].state \in {"paused", "playing"}
           /\ \E s \in {"paused", "playing"} : windows'[d] = [windows[d] EXCEPT !.state = s]
    BY DEF PauseAll, ResumeAll
  <2>3. CASE windows'[d] = windows[d]
    BY <2>1, <2>3
  <2>4. ASSUME NEW s \in {"paused", "playing"}, windows[d].state \in {"paused", "playing"},
               windows'[d] = [windows[d] EXCEPT !.state = s]
        PROVE  /\ windows'[d] \in Window /\ windows'[d].url = windows[d].url
               /\ windows'[d] # Gone /\ windows[d] # Gone
               /\ windows'[d].state \in {"paused", "playing"}
    <3>1. PICK w \in Window : w = windows[d]
      BY <2>1
    <3> DEFINE x == [w EXCEPT !.state = s]
    <3>2. x \in Window /\ x.url = w.url /\ x.state = s /\ x # Gone /\ w # Gone
      BY <1>1, <2>4, <3>1
    <3>3. windows'[d] = x
      BY <2>4, <3>1
    <3> HIDE DEF x
    <3> QED BY <2>4, <3>1, <3>2, <3>3
  <2> QED BY <2>2, <2>3, <2>4
<1>3. windows' = [d \in Displays |-> windows'[d]]
  BY DEF PauseAll, ResumeAll
<1> QED BY <1>2, <1>3 DEF HasPlayer

\* What a task is after a step.
LEMMA StepType ==
  ASSUME TypeOK, NEW t \in Tasks, NEW from, NEW to \in {"save", "show", "idle"},
         from \in {"play", "save", "show"}, Step(t, from, to)
  PROVE  /\ task' \in [Tasks -> Task]
         /\ \A u \in Tasks : task'[u] = task[u] \/ task'[u] = Idle
              \/ (u = t /\ task'[u].step # "idle" /\ task'[u].url = task[t].url)
<1> DEFINE x == [task[t] EXCEPT !.step = to]
<1>1. /\ Idle \in Task
      /\ x \in Task /\ x.step = to /\ x.url = task[t].url
  BY DEF TypeOK, Task, Idle
<1>2. task' = [task EXCEPT ![t] = IF to = "idle" THEN Idle ELSE x]
  BY DEF Step
<1> HIDE DEF x
<1> QED BY <1>1, <1>2 DEF TypeOK

\* The type invariant.
LEMMA TypeInit == Init => TypeOK
<1> SUFFICES ASSUME Init PROVE TypeOK
  OBVIOUS
<1>1. task \in [Tasks -> Task]
  BY RestoringType DEF Init
<1>2. windows \in [Displays -> Window]
  BY WindowFields DEF Init
<1>3. acts \in 0..MaxActs
  BY PlaybackAssumption DEF Init
<1>4. recent \in SUBSET Urls
  BY RestoringUrls DEF Init
<1> QED BY <1>1, <1>2, <1>3, <1>4, PlaybackAssumption DEF Init, TypeOK, MustPause

LEMMA TypeStep == TypeOK /\ [Next]_vars => TypeOK'
<1> SUFFICES ASSUME TypeOK, [Next]_vars PROVE TypeOK'
  OBVIOUS
<1>0. ASSUME NEW what, Act(what) PROVE acts' \in 0..MaxActs
  BY <1>0, PlaybackAssumption DEF TypeOK, Act
<1>e. ASSUME NEW s \in BOOLEAN, Evaluate(s), inbox' \in SUBSET Kinds PROVE TypeOK'
  BY <1>e DEF TypeOK, Evaluate, MustPause, chosen
<1>1. CASE Relaunch
  <2>1. PICK f \in Restoring(lastPlayed) : Launched(screens, f)
    BY <1>1 DEF Relaunch
  <2>2. task' \in [Tasks -> Task]
    BY <2>1, RestoringType DEF Launched, TypeOK
  <2>3. windows' \in [Displays -> Window]
    BY <2>1, WindowFields DEF Launched
  <2>4. recent' \in SUBSET Urls
    BY <2>1, RestoringUrls DEF Launched, TypeOK
  <2> QED BY <1>0, <1>1, <2>1, <2>2, <2>3, <2>4 DEF Relaunch, Launched, TypeOK, MustPause
<1>2. CASE TogglePlayPause
  BY <1>0, <1>2, Toggled DEF TogglePlayPause, TypeOK, controller, chosen
<1>3. ASSUME NEW t \in Tasks, NEW url \in Urls, SetWallpaper(t, url) PROVE TypeOK'
  <2>1. [step |-> "play", url |-> url] \in Task
    BY DEF Task
  <2> QED BY <1>0, <1>3, <2>1 DEF SetWallpaper, TypeOK, controller
<1>4. CASE Environment
  BY <1>4 DEF Environment, PowerChanges, LockChanges, FallsAsleep, WakesUp, ScreensChange,
              ConditionChanges, TypeOK, Kinds, controller, chosen
<1>5. CASE ObserveSleep \/ ObserveWake \/ ObserveCondition \/ ObservePeriodically
  BY <1>5, <1>e DEF ObserveSleep, ObserveWake, ObserveCondition, ObservePeriodically,
                    Consume, TypeOK
<1>6. CASE PassOn
  BY <1>6, Toggled DEF PassOn, TypeOK, chosen
<1>7. CASE ScreenParametersChanged
  BY <1>7, WindowFields DEF ScreenParametersChanged, TypeOK, Consume, controller, chosen
<1>8. ASSUME NEW t \in Tasks, Proceed(t) PROVE TypeOK'
  <2>1. CASE SetPlay(t)
    <3>1. task' \in [Tasks -> Task]
      BY <2>1, StepType DEF SetPlay
    <3>2. [state |-> "playing", url |-> task[t].url] \in Window
      BY DEF TypeOK, Task, Window
    <3>3. windows' \in [Displays -> Window]
      BY <2>1, <3>2, WindowFields DEF SetPlay
    <3> QED BY <2>1, <3>1, <3>3 DEF SetPlay, Step, TypeOK, controller
  <2>2. CASE SetSave(t)
    <3>1. task' \in [Tasks -> Task]
      BY <2>2, StepType DEF SetSave
    <3>2. task[t].url \in Urls \cup {NoUrl}
      BY DEF TypeOK, Task
    <3> QED BY <2>2, <3>1, <3>2 DEF SetSave, Step, TypeOK, controller
  <2>3. CASE SetShow(t)
    <3>1. task' \in [Tasks -> Task]
      BY <2>3, StepType DEF SetShow
    <3>2. task[t].url \in Urls \cup {NoUrl}
      BY DEF TypeOK, Task
    <3> QED BY <2>3, <3>1, <3>2 DEF SetShow, Step, TypeOK, controller
  <2> QED BY <1>8, <2>1, <2>2, <2>3 DEF Proceed
<1>9. CASE UNCHANGED vars
  BY <1>9 DEF vars, TypeOK, controller, chosen
<1> QED BY <1>1, <1>2, <1>3, <1>4, <1>5, <1>6, <1>7, <1>8, <1>9 DEF Next, User

\* The state is always of its type.
THEOREM TypeCorrect == Spec => []TypeOK
<1>1. Init => TypeOK
  BY TypeInit
<1>2. TypeOK /\ [Next]_vars => TypeOK'
  BY TypeStep
<1> QED BY <1>1, <1>2, PTL DEF Spec

-----------------------------------------------------------------------------
(* The inductive invariant.                                                *)

\* What IInv says of the calls under way, of the players, and of the menu.
TasksInv == \A t \in Tasks : task[t] # Idle => task[t].step # "idle" /\ task[t].url \in recent

PlayersRecent == \A d \in Displays : HasPlayer(d) => windows[d].url \in recent

MenuRecent == NoCallUnderWay /\ recent # {} => nowPlaying \in recent

ChoicesInv == TasksInv /\ (NothingPlayedYet \/ PlayersRecent) /\ MenuRecent

LEMMA Parts == IInv <=> NoLostWakeup /\ WindowsFollowScreens /\ ChoicesInv
BY DEF IInv, TasksInv, PlayersRecent, MenuRecent, ChoicesInv

\* A launch: windows without players, and a call for what was chosen.
LEMMA LaunchChoices ==
  ASSUME NEW url \in Urls \cup {NoUrl}, NEW f \in Restoring(url)
  PROVE  /\ task = f /\ recent = UrlsOf(f) => TasksInv /\ MenuRecent
         /\ (task = f /\ recent = UrlsOf(f) => TasksInv /\ MenuRecent)'
<1>1. /\ \A t \in Tasks : f[t] # Idle => f[t].step # "idle" /\ f[t].url \in UrlsOf(f)
      /\ UrlsOf(f) # {} => \E t \in Tasks : f[t] # Idle
  BY RestoringType, RestoringUrls
<1> QED BY <1>1 DEF TasksInv, MenuRecent, NoCallUnderWay

LEMMA InvInit == Init => IInv
<1> SUFFICES ASSUME Init PROVE IInv
  OBVIOUS
<1>1. TasksInv /\ MenuRecent
  BY LaunchChoices DEF Init
<1>2. PlayersRecent /\ WindowsFollowScreens
  BY WindowFields DEF Init, PlayersRecent, HasPlayer, WindowsFollowScreens
<1>3. NoLostWakeup
  BY DEF Init, NoLostWakeup
<1> QED BY <1>1, <1>2, <1>3, Parts DEF ChoicesInv

\* The loop: woken by every change, and up to date when it waits.
LEMMA LoopStep == TypeOK /\ NoLostWakeup /\ [Next]_vars => NoLostWakeup'
<1> SUFFICES ASSUME TypeOK, NoLostWakeup, [Next]_vars PROVE NoLostWakeup'
  OBVIOUS
<1>1. CASE Relaunch
  BY <1>1 DEF Relaunch, Launched, NoLostWakeup
<1>2. ASSUME NEW s \in BOOLEAN, Evaluate(s) PROVE NoLostWakeup'
  BY <1>2 DEF Evaluate, NoLostWakeup, TypeOK
<1>3. CASE ObserveSleep \/ ObserveWake \/ ObserveCondition \/ ObservePeriodically
  BY <1>2, <1>3 DEF ObserveSleep, ObserveWake, ObserveCondition, ObservePeriodically, TypeOK
<1>4. CASE PassOn
  BY <1>4 DEF PassOn, NoLostWakeup
<1>5. CASE UNCHANGED <<shouldPause, loop, applied>>
  BY <1>5 DEF NoLostWakeup
<1> QED
  BY <1>1, <1>3, <1>4, <1>5
  DEF Next, User, Environment, TogglePlayPause, SetWallpaper, PowerChanges, LockChanges,
      FallsAsleep, WakesUp, ScreensChange, ConditionChanges, ScreenParametersChanged,
      Proceed, SetPlay, SetSave, SetShow, Step, controller, vars

\* Which steps change windows: a launch, the engine, and nobody else.
LEMMA WindowSteps ==
  ASSUME [Next]_vars
  PROVE  \/ Relaunch \/ ScreenParametersChanged \/ ScreensChange
         \/ (PauseAll \/ ResumeAll) /\ UNCHANGED <<screens, inbox>>
         \/ \E t \in Tasks : SetPlay(t)
         \/ UNCHANGED <<windows, screens>> /\ ("screens" \in inbox => "screens" \in inbox')
<1> DEFINE Quiet == UNCHANGED <<windows, screens>>
                    /\ ("screens" \in inbox => "screens" \in inbox')
<1>1. CASE PowerChanges \/ LockChanges \/ FallsAsleep \/ WakesUp
  <2>1. Quiet
    BY <1>1 DEF PowerChanges, LockChanges, FallsAsleep, WakesUp, ConditionChanges
  <2> QED BY <2>1
<1>2. CASE ObserveSleep \/ ObserveWake \/ ObserveCondition \/ ObservePeriodically
  <2>1. Quiet
    BY <1>2 DEF ObserveSleep, ObserveWake, ObserveCondition, ObservePeriodically,
                Consume, Evaluate
  <2> QED BY <2>1
<1>3. CASE PassOn \/ TogglePlayPause
  BY <1>3 DEF PassOn, TogglePlayPause
<1>4. CASE \E t \in Tasks : SetSave(t) \/ SetShow(t) \/ \E url \in Urls : SetWallpaper(t, url)
  <2>1. Quiet
    BY <1>4 DEF SetSave, SetShow, SetWallpaper, Step
  <2> QED BY <2>1
<1>5. CASE UNCHANGED vars
  <2>1. Quiet
    BY <1>5 DEF vars
  <2> QED BY <2>1
<1> QED BY <1>1, <1>2, <1>3, <1>4, <1>5 DEF Next, User, Environment, Proceed

LEMMA WindowsStep ==
  ASSUME TypeOK, WindowsFollowScreens, [Next]_vars
  PROVE  WindowsFollowScreens'
<1>1. CASE Relaunch
  BY <1>1, WindowFields DEF Relaunch, Launched, WindowsFollowScreens
<1>2. CASE ScreenParametersChanged
  BY <1>2, WindowFields DEF ScreenParametersChanged, WindowsFollowScreens
<1>3. CASE ScreensChange
  BY <1>3 DEF ScreensChange, WindowsFollowScreens
<1>4. CASE (PauseAll \/ ResumeAll) /\ UNCHANGED <<screens, inbox>>
  BY <1>4, Toggled DEF WindowsFollowScreens
<1>5. ASSUME NEW t \in Tasks, SetPlay(t) PROVE WindowsFollowScreens'
  <2>1. [state |-> "playing", url |-> task[t].url] # Gone
    BY DEF Gone
  <2> QED BY <1>5, <2>1 DEF SetPlay, Step, WindowsFollowScreens
<1>6. CASE UNCHANGED <<windows, screens>>
           /\ ("screens" \in inbox => "screens" \in inbox')
  BY <1>6 DEF WindowsFollowScreens
<1> QED BY <1>1, <1>2, <1>3, <1>4, <1>5, <1>6, WindowSteps

\* Which steps change the calls: a launch, a call that begins, one that goes
\* on, and nobody else.
LEMMA ChoiceSteps ==
  ASSUME [Next]_vars
  PROVE  \/ Relaunch
         \/ \E t \in Tasks, url \in Urls : SetWallpaper(t, url)
         \/ \E t \in Tasks : Proceed(t)
         \/ UNCHANGED <<task, nowPlaying, recent>>
BY DEF Next, User, Environment, TogglePlayPause, PowerChanges, LockChanges,
       FallsAsleep, WakesUp, ScreensChange, ConditionChanges, Evaluate, ObserveSleep,
       ObserveWake, ObserveCondition, ObservePeriodically, ScreenParametersChanged,
       PassOn, chosen, vars

\* What the players play is left alone by all steps but a launch and a call
\* that plays; windows come without player.
LEMMA SamePlayers ==
  ASSUME TypeOK, [Next]_vars, ~Relaunch, \A t \in Tasks : ~SetPlay(t)
  PROVE  \A d \in Displays : HasPlayer(d)' => HasPlayer(d) /\ windows'[d].url = windows[d].url
<1>1. CASE ScreenParametersChanged
  <2>1. \A d \in Displays :
          \/ windows'[d] = windows[d]
          \/ windows'[d] = Gone
          \/ windows'[d] = Blank
    BY <1>1 DEF ScreenParametersChanged
  <2> QED BY <2>1, WindowFields DEF HasPlayer
<1>2. CASE PauseAll \/ ResumeAll
  BY <1>2, Toggled
<1>3. CASE UNCHANGED windows
  BY <1>3 DEF HasPlayer
<1> QED BY <1>1, <1>2, <1>3, WindowSteps DEF ScreensChange

LEMMA ChoicesStep ==
  ASSUME TypeOK, ChoicesInv, [Next]_vars
  PROVE  ChoicesInv'
<1>1. CASE Relaunch
  <2>1. PICK f \in Restoring(lastPlayed) : Launched(screens, f)
    BY <1>1 DEF Relaunch
  <2>2. lastPlayed \in Urls \cup {NoUrl} /\ task' = f /\ recent' = UrlsOf(f)
    BY <2>1 DEF Launched, TypeOK
  <2>3. TasksInv' /\ MenuRecent'
    BY <2>2, LaunchChoices
  <2>4. PlayersRecent'
    BY <2>1, WindowFields DEF Launched, PlayersRecent, HasPlayer
  <2> QED BY <2>3, <2>4 DEF ChoicesInv
<1>2. ASSUME NEW t \in Tasks, NEW url \in Urls, SetWallpaper(t, url)
      PROVE  ChoicesInv'
  <2> DEFINE x == [step |-> "play", url |-> url]
  <2>1. x.step = "play" /\ x.url = url /\ x # Idle
    BY DEF Idle
  <2>2. /\ task' = [task EXCEPT ![t] = x] /\ UNCHANGED <<windows, nowPlaying>>
        /\ recent' = IF NoCallUnderWay THEN {url} ELSE recent \cup {url}
        /\ task[t] = Idle
    BY <1>2 DEF SetWallpaper
  <2> HIDE DEF x
  <2>3. task'[t] = x /\ \A u \in Tasks \ {t} : task'[u] = task[u]
    BY <2>2 DEF TypeOK
  <2>4. TasksInv'
    BY <2>1, <2>2, <2>3 DEF ChoicesInv, TasksInv, NoCallUnderWay
  <2>5. MenuRecent'
    BY <2>1, <2>3 DEF MenuRecent, NoCallUnderWay
  <2>6. CASE NoCallUnderWay
    <3>1. NothingPlayedYet'
      BY <2>1, <2>3, <2>6 DEF NothingPlayedYet, NoCallUnderWay, Idle
    <3> QED BY <2>4, <2>5, <3>1 DEF ChoicesInv
  <2>7. CASE ~NoCallUnderWay /\ NothingPlayedYet
    <3>1. NothingPlayedYet'
      BY <2>1, <2>3, <2>7 DEF NothingPlayedYet
    <3> QED BY <2>4, <2>5, <3>1 DEF ChoicesInv
  <2>8. CASE ~NoCallUnderWay /\ PlayersRecent
    <3>1. PlayersRecent'
      BY <2>2, <2>8 DEF PlayersRecent, HasPlayer
    <3> QED BY <2>4, <2>5, <3>1 DEF ChoicesInv
  <2> QED BY <2>6, <2>7, <2>8 DEF ChoicesInv
<1>3. ASSUME NEW t \in Tasks, Proceed(t)
      PROVE  ChoicesInv'
  <2>1. task[t] # Idle /\ recent' = recent
    BY <1>3 DEF Proceed, SetPlay, SetSave, SetShow, Step, Idle
  <2>2. task[t].url \in recent
    BY <2>1 DEF ChoicesInv, TasksInv
  <2>3. TasksInv'
    <3>1. \A u \in Tasks : task'[u] = task[u] \/ task'[u] = Idle
            \/ (u = t /\ task'[u].step # "idle" /\ task'[u].url = task[t].url)
      BY <1>3, StepType DEF Proceed, SetPlay, SetSave, SetShow
    <3> QED BY <2>1, <2>2, <3>1 DEF ChoicesInv, TasksInv
  <2>4. task \in [Tasks -> Task]
    BY DEF TypeOK
  <2>5. CASE SetPlay(t)
    <3>1. PlayersRecent'
      BY <2>1, <2>2, <2>5, WindowFields DEF SetPlay, PlayersRecent, HasPlayer
    <3>2. task'[t] # Idle
      <4> DEFINE x == [task[t] EXCEPT !.step = "save"]
      <4>1. x # Idle /\ task' = [task EXCEPT ![t] = x]
        BY <2>4, <2>5 DEF SetPlay, Step, Task, Idle
      <4> HIDE DEF x
      <4> QED BY <2>4, <4>1
    <3>3. MenuRecent'
      BY <3>2 DEF MenuRecent, NoCallUnderWay
    <3> QED BY <2>3, <3>1, <3>3 DEF ChoicesInv
  <2>6. ASSUME SetSave(t) \/ SetShow(t)
        PROVE  PlayersRecent'
    <3>1. PlayersRecent
      BY <2>6 DEF ChoicesInv, NothingPlayedYet, SetSave, SetShow, Step
    <3> QED BY <2>1, <2>6, <3>1 DEF SetSave, SetShow, PlayersRecent, HasPlayer
  <2>7. CASE SetSave(t)
    <3>1. task'[t] # Idle
      <4> DEFINE x == [task[t] EXCEPT !.step = "show"]
      <4>1. x # Idle /\ task' = [task EXCEPT ![t] = x]
        BY <2>4, <2>7 DEF SetSave, Step, Task, Idle
      <4> HIDE DEF x
      <4> QED BY <2>4, <4>1
    <3>2. MenuRecent'
      BY <3>1 DEF MenuRecent, NoCallUnderWay
    <3> QED BY <2>3, <2>6, <2>7, <3>2 DEF ChoicesInv
  <2>8. CASE SetShow(t)
    <3>1. MenuRecent'
      BY <2>1, <2>2, <2>8 DEF SetShow, MenuRecent
    <3> QED BY <2>3, <2>6, <2>8, <3>1 DEF ChoicesInv
  <2> QED BY <1>3, <2>5, <2>7, <2>8 DEF Proceed
<1>4. CASE /\ UNCHANGED <<task, nowPlaying, recent>>
           /\ ~Relaunch /\ \A t \in Tasks : ~SetPlay(t)
  <2>1. PlayersRecent => PlayersRecent'
    BY <1>4, SamePlayers DEF PlayersRecent
  <2> QED BY <1>4, <2>1 DEF ChoicesInv, TasksInv, MenuRecent, NothingPlayedYet, NoCallUnderWay
<1> QED BY <1>1, <1>2, <1>3, <1>4, ChoiceSteps DEF Proceed

LEMMA InvStep == TypeOK /\ IInv /\ [Next]_vars => IInv'
<1> SUFFICES ASSUME TypeOK, IInv, [Next]_vars PROVE IInv'
  OBVIOUS
<1>1. NoLostWakeup /\ WindowsFollowScreens /\ ChoicesInv
  BY Parts
<1>2. NoLostWakeup' /\ WindowsFollowScreens' /\ ChoicesInv'
  BY <1>1, LoopStep, WindowsStep, ChoicesStep
<1> QED BY <1>2 DEF IInv, TasksInv, PlayersRecent, MenuRecent, ChoicesInv

THEOREM Invariant == Spec => []IInv
<1>1. Init => TypeOK /\ IInv
  BY TypeInit, InvInit
<1>2. TypeOK /\ IInv /\ [Next]_vars => (TypeOK /\ IInv)'
  BY TypeStep, InvStep
<1> QED BY <1>1, <1>2, PTL DEF Spec

\* While AppState's loop waits, the engine has been told the controller's
\* last verdict.
THEOREM WakeupsKept == Spec => []NoLostWakeup
<1>1. IInv => NoLostWakeup
  BY DEF IInv
<1> QED BY <1>1, Invariant, PTL

\* The engine has exactly the windows of the displays it knows of.
THEOREM WindowsMatch == Spec => []WindowsFollowScreens
<1>1. IInv => WindowsFollowScreens
  BY DEF IInv
<1> QED BY <1>1, Invariant, PTL

\* However calls overlap and displays come and go: once no call is under way,
\* players and menu show wallpapers of the last calls that overlapped
\* (WallpaperEngine.swift:29-35, AppState.swift:85-90).
THEOREM OlderChoicesAlwaysGone == Spec => []OlderChoicesStayGone
<1>1. IInv => OlderChoicesStayGone
  <2>1. NoCallUnderWay => ~NothingPlayedYet
    BY DEF NoCallUnderWay, NothingPlayedYet, Idle
  <2> QED BY <2>1 DEF IInv, OlderChoicesStayGone
<1> QED BY <1>1, Invariant, PTL

-----------------------------------------------------------------------------
(* What the menu says, as long as calls do not overlap.                    *)

OneTask == \A t, u \in Tasks : t = u

\* Before a call plays its file, and without a call, the players play what the
\* menu says; from then on until the menu is told, what the call has set.
MenuInv ==
  /\ (\A t \in Tasks : task[t].step \in {"idle", "play"}) =>
       \A d \in Displays : HasPlayer(d) => windows[d].url = nowPlaying
  /\ \A t \in Tasks : task[t].step \in {"save", "show"} =>
       \A d \in Displays : HasPlayer(d) => windows[d].url = task[t].url

LEMMA MenuInit == Init => MenuInv
<1> SUFFICES ASSUME Init PROVE MenuInv
  OBVIOUS
<1>1. \A d \in Displays : ~HasPlayer(d)
  BY WindowFields DEF Init, HasPlayer
<1> QED BY <1>1 DEF MenuInv

LEMMA MenuStep ==
  ASSUME OneTask, TypeOK, MenuInv, [Next]_vars
  PROVE  MenuInv'
<1>1. CASE Relaunch
  <2>1. \A d \in Displays : ~HasPlayer(d)'
    BY <1>1, WindowFields DEF Relaunch, Launched, HasPlayer
  <2> QED BY <2>1 DEF MenuInv
<1>2. ASSUME NEW t \in Tasks, SetPlay(t)
      PROVE  MenuInv'
  <2>1. \A u \in Tasks : u = t
    BY DEF OneTask
  <2>2. task[t] \in Task
    BY DEF TypeOK
  <2>3. task'[t].step = "save" /\ task'[t].url = task[t].url
    BY <1>2, <2>2 DEF SetPlay, Step, TypeOK, Task
  <2>4. \A d \in Displays : HasPlayer(d)' => windows'[d].url = task[t].url
    BY <1>2, WindowFields DEF SetPlay, HasPlayer
  <2> QED BY <2>1, <2>3, <2>4 DEF MenuInv
<1>3. CASE ~Relaunch /\ \A t \in Tasks : ~SetPlay(t)
  <2>1. \A d \in Displays : HasPlayer(d)' => HasPlayer(d) /\ windows'[d].url = windows[d].url
    BY <1>3, SamePlayers
  <2>2. ASSUME NEW t \in Tasks, NEW url \in Urls, SetWallpaper(t, url)
        PROVE  MenuInv'
    <3>1. \A u \in Tasks : u = t
      BY DEF OneTask
    <3>2. task[t].step = "idle" /\ task'[t].step = "play" /\ nowPlaying' = nowPlaying
      BY <2>2 DEF SetWallpaper, TypeOK, Idle
    <3> QED BY <2>1, <3>1, <3>2 DEF MenuInv
  <2>3. ASSUME NEW t \in Tasks, SetSave(t)
        PROVE  MenuInv'
    <3>1. \A u \in Tasks : u = t
      BY DEF OneTask
    <3>2. task[t] \in Task
      BY DEF TypeOK
    <3>3. task[t].step = "save" /\ task'[t].step = "show" /\ task'[t].url = task[t].url
      BY <2>3, <3>2 DEF SetSave, Step, TypeOK, Task
    <3> QED BY <2>1, <3>1, <3>3 DEF MenuInv
  <2>4. ASSUME NEW t \in Tasks, SetShow(t)
        PROVE  MenuInv'
    <3>1. \A u \in Tasks : u = t
      BY DEF OneTask
    <3>2. /\ task[t].step = "show" /\ task'[t].step = "idle"
          /\ nowPlaying' = task[t].url
      BY <2>4 DEF SetShow, Step, TypeOK, Idle
    <3> QED BY <2>1, <3>1, <3>2 DEF MenuInv
  <2>5. CASE UNCHANGED <<task, nowPlaying>>
    BY <2>1, <2>5 DEF MenuInv
  <2> QED
    BY <1>3, <2>2, <2>3, <2>4, <2>5
       DEF Next, User, Environment, TogglePlayPause, PowerChanges, LockChanges,
           FallsAsleep, WakesUp, ScreensChange, ConditionChanges, Evaluate, ObserveSleep,
           ObserveWake, ObserveCondition, ObservePeriodically, ScreenParametersChanged,
           PassOn, Proceed, chosen, vars
<1> QED BY <1>1, <1>2, <1>3

\* With one call at a time, when none is under way every player plays what the
\* menu says, over display changes, manual pauses and relaunches.
THEOREM MenuAlwaysTellsTheTruth ==
  ASSUME OneTask
  PROVE  Spec => []MenuTellsTheTruth
<1>1. Init => MenuInv
  BY MenuInit
<1>2. TypeOK /\ MenuInv /\ [Next]_vars => MenuInv'
  BY MenuStep, OneTask
<1>3. MenuInv => MenuTellsTheTruth
  BY DEF MenuInv, MenuTellsTheTruth, NoCallUnderWay, Idle
<1> QED BY <1>1, <1>2, <1>3, TypeCorrect, PTL DEF Spec

=============================================================================
