------------------------------ MODULE Playback ------------------------------
(***************************************************************************)
(* What plays on the desktops: WallpaperEngine with a window per display,  *)
(* PauseController, which watches power, lock and sleep, the loop in       *)
(* AppState that passes its verdict on to the engine, the menu's manual    *)
(* pause, and the setting and restoring of a wallpaper.                    *)
(*                                                                         *)
(* All of it runs on the main actor, one job at a time: an action is what  *)
(* runs between two suspensions.  Notifications are consumed by tasks of   *)
(* their own, one per kind, so kinds can overtake each other.              *)
(***************************************************************************)
EXTENDS Naturals

CONSTANTS
  Displays,
  Urls,            \* video files a wallpaper can be set to
  NoUrl,
  Tasks,           \* setWallpaper calls that can be under way at once
  Conditions,      \* which of AllConditions can occur
  UserActions,     \* which of AllUserActions can occur
  MaxActs,         \* bound on the number of user actions
  PauseOnBattery,  \* the setting as PauseController read it at launch
  EqualNotifies    \* whether assigning an @Observable property the value it
                   \* has notifies its observers: toolchains differ

AllConditions == {"battery", "lowpower", "locked", "asleep"}

AllUserActions == {"set", "toggle", "relaunch"}

ASSUME PlaybackAssumption ==
  /\ NoUrl \notin Urls
  /\ Conditions \subseteq AllConditions
  /\ UserActions \subseteq AllUserActions
  /\ MaxActs \in Nat
  /\ PauseOnBattery \in BOOLEAN /\ EqualNotifies \in BOOLEAN

VARIABLES
  screens,       \* displays that are connected
  conditions,    \* what is the case: power, lock, sleep
  inbox,         \* kinds of notification not consumed yet
  isSleeping, shouldPause,   \* PauseController
  loop, applied, \* the loop of AppState: its state, what it last told the engine
  windows,       \* WallpaperEngine.windows
  task,          \* the setWallpaper calls under way
  isPaused,      \* AppDelegate.isPaused: the menu entry says Resume
  nowPlaying,    \* AppState.currentWallpaperURL
  lastPlayed,    \* lastPlayedURL in config.json
  acts,          \* user actions so far
  recent         \* history: the wallpapers chosen since no call was under way

controller == <<isSleeping, shouldPause, loop>>
chosen     == <<task, nowPlaying, lastPlayed, recent>>
vars == <<screens, conditions, inbox, controller, applied, windows, chosen, isPaused, acts>>

-----------------------------------------------------------------------------

Kinds == {"sleep", "wake", "evaluate", "screens"}

\* No window; a window without a player; a player that is paused or plays.
Window == [state : {"gone", "blank", "paused", "playing"}, url : Urls \cup {NoUrl}]

Gone  == [state |-> "gone", url |-> NoUrl]
Blank == [state |-> "blank", url |-> NoUrl]

Task == [step : {"idle", "play", "save", "show"}, url : Urls \cup {NoUrl}]

Idle == [step |-> "idle", url |-> NoUrl]

TypeOK ==
  /\ screens \in SUBSET Displays
  /\ conditions \in SUBSET Conditions
  /\ inbox \in SUBSET Kinds
  /\ isSleeping \in BOOLEAN /\ shouldPause \in BOOLEAN
  /\ loop \in {"waiting", "woken"} /\ applied \in BOOLEAN
  /\ windows \in [Displays -> Window]
  /\ task \in [Tasks -> Task]
  /\ isPaused \in BOOLEAN
  /\ nowPlaying \in Urls \cup {NoUrl} /\ lastPlayed \in Urls \cup {NoUrl}
  /\ acts \in 0..MaxActs /\ recent \in SUBSET Urls

\* evaluate(): all but sleep is asked of the system anew each time.
MustPause(sleeping) ==
  \/ PauseOnBattery /\ "battery" \in conditions
  \/ {"lowpower", "locked"} \cap conditions # {}
  \/ sleeping

UrlsOf(tasks) == {tasks[t].url : t \in Tasks} \ {NoUrl}

\* The application is launched: windows for the displays there are, the
\* controller's first verdict, the loop about to run for the first time, and,
\* if it is in the configuration and the file exists, the last wallpaper
\* about to be set again.  Nobody launches it on a locked or sleeping machine.
Launched(screenSet, restoring) ==
  /\ inbox' = {} /\ isSleeping' = FALSE
  /\ shouldPause' = MustPause(FALSE)
  /\ loop' = "woken" /\ applied' = FALSE
  /\ windows' = [d \in Displays |-> IF d \in screenSet THEN Blank ELSE Gone]
  /\ task' = restoring /\ recent' = UrlsOf(restoring)
  /\ isPaused' = FALSE /\ nowPlaying' = NoUrl

\* The calls under way after a launch: none, or the one that restores url.
Restoring(url) ==
  LET none == [t \in Tasks |-> Idle] IN
  {none} \cup {[none EXCEPT ![t] = [step |-> "play", url |-> url]] :
                 t \in IF url = NoUrl THEN {} ELSE Tasks}

Init ==
  /\ screens \in SUBSET Displays
  /\ conditions \in SUBSET (Conditions \ {"locked", "asleep"})
  /\ lastPlayed \in Urls \cup {NoUrl}
  /\ inbox = {} /\ isSleeping = FALSE
  /\ shouldPause = MustPause(FALSE)
  /\ loop = "woken" /\ applied = FALSE
  /\ windows = [d \in Displays |-> IF d \in screens THEN Blank ELSE Gone]
  /\ task \in Restoring(lastPlayed) /\ recent = UrlsOf(task)
  /\ isPaused = FALSE /\ nowPlaying = NoUrl
  /\ acts = 0

Act(what) ==
  /\ what \in UserActions /\ acts < MaxActs
  /\ acts' = acts + 1

Relaunch ==
  /\ Act("relaunch")
  /\ conditions \cap {"locked", "asleep"} = {}
  /\ \E restoring \in Restoring(lastPlayed) : Launched(screens, restoring)
  /\ UNCHANGED <<screens, conditions, lastPlayed>>

-----------------------------------------------------------------------------
(* The machine.                                                            *)

\* c begins or ends.  A change of battery is not announced to anyone.
ConditionChanges(c, kinds) ==
  /\ c \in Conditions
  /\ conditions' = IF c \in conditions THEN conditions \ {c} ELSE conditions \cup {c}
  /\ inbox' = inbox \cup kinds
  /\ UNCHANGED <<screens, controller, applied, windows, chosen, isPaused, acts>>

PowerChanges == ConditionChanges("battery", {}) \/ ConditionChanges("lowpower", {"evaluate"})

\* Locked or unlocked: SystemLockState hears of it at once.
LockChanges == ConditionChanges("locked", {"evaluate"})

\* Bound: of each kind, sleep and wake, one notification is unconsumed at most.
FallsAsleep ==
  /\ "asleep" \notin conditions /\ "sleep" \notin inbox
  /\ ConditionChanges("asleep", {"sleep"})

WakesUp ==
  /\ "asleep" \in conditions /\ "wake" \notin inbox
  /\ ConditionChanges("asleep", {"wake"})

ScreensChange ==
  /\ screens' \in SUBSET Displays \ {screens}
  /\ inbox' = inbox \cup {"screens"}
  /\ UNCHANGED <<conditions, controller, applied, windows, chosen, isPaused, acts>>

-----------------------------------------------------------------------------
(* PauseController.                                                        *)

\* Mutant: a reason to pause, once found, is never dropped.
EvaluateSticky(sleeping) ==
  LET pause == MustPause(sleeping) \/ shouldPause IN
  /\ isSleeping' = sleeping
  /\ shouldPause' = pause
  /\ loop' = IF pause # shouldPause \/ EqualNotifies THEN "woken" ELSE loop
  /\ UNCHANGED <<screens, conditions, applied, windows, chosen, isPaused, acts>>

\* Mutant: only the beginning of a pause is passed on.
EvaluateWakesOnPause(sleeping) ==
  /\ isSleeping' = sleeping
  /\ shouldPause' = MustPause(sleeping)
  /\ loop' = IF MustPause(sleeping) THEN "woken" ELSE loop
  /\ UNCHANGED <<screens, conditions, applied, windows, chosen, isPaused, acts>>

\* evaluate(), with onChange of the observation that AppState has registered.
Evaluate(sleeping) ==
  LET pause == MustPause(sleeping) IN
  /\ isSleeping' = sleeping
  /\ shouldPause' = pause
  /\ loop' = IF pause # shouldPause \/ EqualNotifies THEN "woken" ELSE loop
  /\ UNCHANGED <<screens, conditions, applied, windows, chosen, isPaused, acts>>

Consume(kind) == kind \in inbox /\ inbox' = inbox \ {kind}

ObserveSleep == Consume("sleep") /\ Evaluate(TRUE)
ObserveWake  == Consume("wake") /\ Evaluate(FALSE)

\* observePowerState, observeScreenLocked, observeScreenUnlocked.
ObserveCondition == Consume("evaluate") /\ Evaluate(isSleeping)

\* Mutant: there is no timer.
ObserveNothing == UNCHANGED vars

\* Every 30 seconds.
ObservePeriodically == Evaluate(isSleeping) /\ UNCHANGED inbox

-----------------------------------------------------------------------------
(* AppState's loop, and the menu.                                          *)

PauseAll == windows' =
  [d \in Displays |-> IF windows[d].state = "playing"
                      THEN [windows[d] EXCEPT !.state = "paused"] ELSE windows[d]]

ResumeAll == windows' =
  [d \in Displays |-> IF windows[d].state = "paused"
                      THEN [windows[d] EXCEPT !.state = "playing"] ELSE windows[d]]

\* Mutant: the loop ends after one round.
PassOnOnce ==
  /\ loop = "woken" /\ loop' = "ended"
  /\ applied' = shouldPause
  /\ IF shouldPause THEN PauseAll ELSE ResumeAll
  /\ UNCHANGED <<screens, conditions, inbox, isSleeping, shouldPause, chosen, isPaused, acts>>

\* It reads the verdict, tells the engine, and registers for the next change,
\* without a suspension in between.
PassOn ==
  /\ loop = "woken" /\ loop' = "waiting"
  /\ applied' = shouldPause
  /\ IF shouldPause THEN PauseAll ELSE ResumeAll
  /\ UNCHANGED <<screens, conditions, inbox, isSleeping, shouldPause, chosen, isPaused, acts>>

\* The menu's Pause or Resume.
TogglePlayPause ==
  /\ Act("toggle")
  /\ IF isPaused THEN ResumeAll ELSE PauseAll
  /\ isPaused' = ~isPaused
  /\ UNCHANGED <<screens, conditions, inbox, controller, applied, chosen>>

-----------------------------------------------------------------------------
(* WallpaperEngine.                                                        *)

\* Mutant: windows of displays that are gone are kept.
ScreenParametersChangedKeep ==
  /\ Consume("screens")
  /\ windows' = [d \in Displays |->
       IF d \in screens /\ windows[d] = Gone THEN Blank ELSE windows[d]]
  /\ UNCHANGED <<screens, conditions, controller, applied, chosen, isPaused, acts>>

\* Windows of displays that are gone are stopped and dropped, new displays
\* get an empty one, the others keep theirs.
ScreenParametersChanged ==
  /\ Consume("screens")
  /\ windows' = [d \in Displays |->
       IF d \notin screens THEN Gone
       ELSE IF windows[d] = Gone THEN Blank ELSE windows[d]]
  /\ UNCHANGED <<screens, conditions, controller, applied, chosen, isPaused, acts>>

NoCallUnderWay == \A t \in Tasks : task[t] = Idle

\* setWallpaperOnAllDisplays is called, and first asks ConfigManager, an
\* actor of its own, for the gravity.  (From the library, or the menu's Next
\* Wallpaper; setWallpaper for one display has no caller.)
SetWallpaper(t, url) ==
  /\ Act("set")
  /\ task[t] = Idle
  /\ recent' = IF NoCallUnderWay THEN {url} ELSE recent \cup {url}
  /\ task' = [task EXCEPT ![t] = [step |-> "play", url |-> url]]
  /\ UNCHANGED <<screens, conditions, inbox, controller, applied, windows, isPaused,
                 nowPlaying, lastPlayed>>

Step(t, from, to) ==
  /\ task[t].step = from
  /\ task' = [task EXCEPT ![t] = IF to = "idle" THEN Idle ELSE [@ EXCEPT !.step = to]]
  /\ UNCHANGED <<screens, conditions, inbox, controller, applied, isPaused, acts, recent>>

\* Mutant: a window that is paused is left as it is.
SetPlayUnpaused(t) ==
  /\ Step(t, "play", "save")
  /\ windows' = [d \in Displays |->
       IF windows[d].state \in {"gone", "paused"} THEN windows[d]
       ELSE [state |-> "playing", url |-> task[t].url]]
  /\ UNCHANGED <<nowPlaying, lastPlayed>>

\* Every window gets a new player, and it plays: nobody asks for shouldPause.
SetPlay(t) ==
  /\ Step(t, "play", "save")
  /\ windows' = [d \in Displays |->
       IF windows[d] = Gone THEN Gone ELSE [state |-> "playing", url |-> task[t].url]]
  /\ UNCHANGED <<nowPlaying, lastPlayed>>

\* ConfigManager.update; an error writing the file is dropped.
SetSave(t) ==
  /\ Step(t, "save", "show")
  /\ lastPlayed' \in {task[t].url, lastPlayed}
  /\ UNCHANGED <<windows, nowPlaying>>

\* Mutant: the title is that of the file the configuration names.
SetShowSaved(t) ==
  /\ Step(t, "show", "idle")
  /\ nowPlaying' = lastPlayed
  /\ UNCHANGED <<windows, lastPlayed>>

SetShow(t) ==
  /\ Step(t, "show", "idle")
  /\ nowPlaying' = task[t].url
  /\ UNCHANGED <<windows, lastPlayed>>

Proceed(t) == SetPlay(t) \/ SetSave(t) \/ SetShow(t)

-----------------------------------------------------------------------------

Environment == PowerChanges \/ LockChanges \/ FallsAsleep \/ WakesUp \/ ScreensChange

User == Relaunch \/ TogglePlayPause \/ \E t \in Tasks, url \in Urls : SetWallpaper(t, url)

Next ==
  \/ Environment
  \/ User
  \/ ObserveSleep \/ ObserveWake \/ ObserveCondition \/ ObservePeriodically
  \/ PassOn
  \/ ScreenParametersChanged
  \/ \E t \in Tasks : Proceed(t)

Spec == Init /\ [][Next]_vars

\* Jobs of the main actor and of ConfigManager are run, notifications reach
\* their consumers, the timer fires.  Nothing is assumed about the user, the
\* displays or the machine, and nothing about the order of jobs.
Fairness ==
  /\ WF_vars(ObserveSleep) /\ WF_vars(ObserveWake) /\ WF_vars(ObserveCondition)
  /\ WF_vars(ObservePeriodically)
  /\ WF_vars(PassOn) /\ WF_vars(ScreenParametersChanged)
  /\ \A t \in Tasks : WF_vars(Proceed(t))

FairSpec == Spec /\ Fairness

-----------------------------------------------------------------------------
(* Properties.                                                             *)

\* The loop never sleeps through a change of the verdict: while it waits,
\* what it last told the engine is what the controller says
\* (AppState.swift:66-82).
NoLostWakeup == loop = "waiting" => applied = shouldPause

\* Once the engine has heard of the last change of displays, it has a window
\* for each one connected and for no other, however displays come and go
\* while wallpapers are being set (WallpaperEngine.swift:56-73).
WindowsFollowScreens ==
  "screens" \notin inbox => \A d \in Displays : windows[d] = Gone <=> d \notin screens

HasPlayer(d) == windows[d].state \in {"paused", "playing"}

\* Calls that set wallpapers overlap, and players and menu may end with
\* different winners.  But once no call is under way, both show one of the
\* wallpapers of the last calls that overlapped: what was chosen before never
\* comes back, on a display connected meanwhile, from a player that was
\* paused, or in the menu (WallpaperEngine.swift:29-35, AppState.swift:85-90).
OlderChoicesStayGone ==
  NoCallUnderWay =>
    /\ \A d \in Displays : HasPlayer(d) => windows[d].url \in recent
    /\ recent # {} => nowPlaying \in recent

\* While calls do not overlap: when none is under way, every player plays
\* what the menu says (AppState.swift:85-90).
MenuTellsTheTruth ==
  NoCallUnderWay => \A d \in Displays : HasPlayer(d) => windows[d].url = nowPlaying

\* A reason to pause that stays silences every player in the end, although a
\* wallpaper set meanwhile starts to play and a drop to battery power is
\* announced to no one (PauseController.swift:181-187).  Needs EqualNotifies.
PauseBites ==
  <>[](MustPause(FALSE)) => <>[](\A d \in Displays : windows[d].state # "playing")

\* When no reason to pause is left, as far as the controller knows, the engine
\* is told to resume and not to pause again.
ResumeFollows == <>[](~MustPause(isSleeping)) => <>[](~shouldPause /\ ~applied)

\* No player has been replaced since the last calls began.
NothingPlayedYet ==
  /\ \A t \in Tasks : task[t].step \in {"idle", "play"}
  /\ \E t \in Tasks : task[t].step = "play"

\* Inductive invariant behind the invariants above, but for the one of calls
\* that do not overlap.  A call under way has a recent file to play.
IInv ==
  /\ NoLostWakeup
  /\ WindowsFollowScreens
  /\ \A t \in Tasks : task[t] # Idle => task[t].step # "idle" /\ task[t].url \in recent
  /\ NothingPlayedYet \/ \A d \in Displays : HasPlayer(d) => windows[d].url \in recent
  /\ NoCallUnderWay /\ recent # {} => nowPlaying \in recent

-----------------------------------------------------------------------------
(* Properties the repository states and the application does not have.     *)

Settled == inbox = {} /\ loop = "waiting" /\ NoCallUnderWay

\* docs/superpowers/specs/2026-03-23-screenspace-design.md:66: "Auto-pause
\* triggers: Battery mode ... Screen locked ...".
NothingPlaysWhilePaused ==
  Settled /\ shouldPause => \A d \in Displays : windows[d].state # "playing"

=============================================================================
