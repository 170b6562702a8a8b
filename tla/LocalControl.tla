---------------------------- MODULE LocalControl ----------------------------
(***************************************************************************)
(* The station without WiFi: the front panel button and its menus, the      *)
(* delay timer with its manual override, and the limits of a session, which *)
(* all put the charge controller to sleep and wake it.                      *)
(*                                                                          *)
(* loop() is a cycle of turns: Update(), a RAPI command, the button, the    *)
(* timer.  The charge controller is reduced to the states the others read;  *)
(* a pass of Update() is one step and the choice of the pilot state free.   *)
(***************************************************************************)
EXTENDS Integers

CONSTANTS
    Day,            \* the slots of a day, 24 * 60 minutes in the program
    Settings,       \* the <<start, stop>> that $ST sends
    Limits,         \* the limits in use: "time" (TIME_LIMIT), "charge" (CHARGE_LIMIT)
    LimitValues,    \* what they can be set to; 0 is off
    MaxUsed,        \* bound: time and energy of a session saturate here
    Items,          \* the menu items the user opens
    Commands,       \* the RAPI commands in use, and "reset" for a loss of power
    Short, Long, VeryLong   \* BTN_PRESS_SHORT, _LONG, _VERYLONG in ticks

ItemNames == {"time", "charge", "delay", "onoff", "start", "stop", "setup", "item", "reset"}

ASSUME LocalAssumption ==
    /\ Day \in Nat \ {0} /\ Settings \subseteq (0 .. Day - 1) \X (0 .. Day - 1)
    /\ Limits \subseteq {"time", "charge"} /\ LimitValues \subseteq 0 .. MaxUsed
    /\ MaxUsed \in Nat /\ Items \subseteq ItemNames
    /\ Commands \subseteq {"F1", "FE", "FD", "FS", "ST", "S3", "SH", "reset"}
    /\ {Short, Long, VeryLong} \subseteq Nat /\ Short < Long /\ Long < VeryLong

VARIABLES
    state,          \* m_EvseState
    relay,          \* chargingIsOn()
    conn,           \* EvConnected()
    limit,          \* m_timeLimitEnd and m_chargeLimitTotWs; 0 is no limit
    limitSleep,     \* LimitSleepIsSet()
    used,           \* time and energy of the session
    timer,          \* DelayTimer: enabled, start and stop; all in EEPROM
    override,       \* m_ManualOverride
    menu,           \* m_CurMenu
    skip,           \* SettingsMenu::m_skipLimits
    btn,            \* Btn: buttonState, lastDebounceTime # 0 and its age, vlongDebounceTime # 0
    turn,           \* what loop() does next
    \* environment
    ev,             \* the level the vehicle puts on the pilot
    now,            \* the slot the RTC shows
    pressed,        \* the button is down
    \* history
    stopped,        \* a limit stopped the session, and nobody woke the station since
    acted           \* the button's present hold has already had its effect

charger == <<state, relay, conn, used>>
limits == <<limit, limitSleep>>
delay == <<timer, override>>
panel == <<menu, skip, btn, acted>>
env == <<ev, now, pressed>>
vars == <<state, relay, conn, limit, limitSleep, used, timer, override, menu, skip, btn,
          turn, ev, now, pressed, stopped, acted>>

Slots == 0 .. Day - 1
NoLimit == [k \in {"time", "charge"} |-> 0]
Released == [state |-> "off", armed |-> FALSE, age |-> 0, held |-> FALSE]

Init ==
    /\ state = "UNKNOWN" /\ relay = FALSE /\ conn = FALSE
    /\ limit = NoLimit /\ limitSleep = FALSE /\ used = 0
    /\ timer = [on |-> FALSE, start |-> 0, stop |-> 0] /\ override = FALSE
    /\ menu = "none" /\ skip = FALSE /\ btn = Released /\ turn = "update"
    /\ ev = "none" /\ now = 0 /\ pressed = FALSE
    /\ stopped = "no" /\ acted = FALSE

\* A loss of power, or Reboot(): only the timer's settings survive.
Restart ==
    /\ state' = "UNKNOWN" /\ relay' = FALSE /\ conn' = FALSE
    /\ limit' = NoLimit /\ limitSleep' = FALSE /\ used' = 0
    /\ override' = FALSE /\ menu' = "none" /\ skip' = FALSE /\ btn' = Released
    /\ turn' = "update" /\ stopped' = "no" /\ acted' = FALSE
    /\ UNCHANGED <<timer, env>>

-----------------------------------------------------------------------------
(* DelayTimer.                                                              *)

IsTimerValid == timer.start # timer.stop

\* Faulty variant: an interval over midnight counts its last minute.
AwakeAtStop(start, stop, t) ==
    IF stop < start THEN t >= start \/ t <= stop
    ELSE t >= start /\ t < stop

\* The comparisons of IsInAwakeTimeInterval(); the first case crosses midnight.
Awake(start, stop, t) ==
    IF stop < start THEN (t >= start /\ t > stop) \/ (t <= start /\ t < stop)
    ELSE t >= start /\ t < stop

InAwakeTimeInterval ==
    timer.on /\ IsTimerValid /\ Awake(timer.start, timer.stop, now)

\* Faulty variant: set although there is nothing to override.
SetManualOverrideAlways == override' = TRUE

SetManualOverride == override' = (override \/ timer.on)
ClrManualOverride == override' = FALSE

-----------------------------------------------------------------------------
(* The charge controller, as far as the others see it.                      *)

Resting == {"SLEEPING", "DISABLED"}

\* Enable(), in a context that gives the other variables.
Enable ==
    IF state \in Resting THEN state' = "UNKNOWN" /\ limitSleep' = FALSE
    ELSE UNCHANGED <<state, limitSleep>>

Sleep == state' = "SLEEPING" /\ UNCHANGED limitSleep

\* Somebody other than the timer wakes the station, or the vehicle leaves.
Woken == stopped' = IF state \in Resting /\ state' \notin Resting THEN "no" ELSE stopped

ReadPilot == conn' = (ev # "none")
UsedSince == IF conn' /\ ~conn THEN 0 ELSE used

UpdateOver == turn' = "inputs" /\ UNCHANGED <<timer, panel, env>>

UpdateDisabled ==
    /\ turn = "update" /\ state = "DISABLED"
    /\ UpdateOver /\ UNCHANGED <<charger, limits, override, stopped>>

\* The grace period: the contacts open with the vehicle's, or 3 s later.
UpdateAsleepClosed ==
    /\ turn = "update" /\ state = "SLEEPING" /\ relay
    /\ ReadPilot /\ used' = UsedSince
    /\ relay' \in IF ev = "charge" THEN BOOLEAN ELSE {FALSE}
    /\ stopped' = IF conn' THEN stopped ELSE "no"
    /\ UpdateOver /\ UNCHANGED <<state, limits, override>>

\* Faulty variant: the flag outlives the sleep.
LimitSleepOverNever == FALSE

\* Faulty variant: the sleep ends while the vehicle is still there.
LimitSleepOverHasty == limitSleep

LimitSleepOver == limitSleep /\ ~conn'

\* Unplugging ends the override, and the sleep if a limit caused it.
UpdateAsleep ==
    /\ turn = "update" /\ state = "SLEEPING" /\ ~relay
    /\ ReadPilot /\ used' = UsedSince
    /\ override' = (override /\ ~(conn /\ ~conn'))
    /\ IF LimitSleepOver THEN limitSleep' = FALSE /\ state' = "UNKNOWN"
       ELSE UNCHANGED <<state, limitSleep>>
    /\ stopped' = IF conn' THEN stopped ELSE "no"
    /\ UpdateOver /\ UNCHANGED <<relay, limit>>

\* The state the pilot and the checks choose, debounced or not yet.
NextStates ==
    {state, "UNKNOWN", "FAULT"}
      \union (IF ev = "none" THEN {"A"} ELSE {"B"})
      \union (IF ev = "charge" THEN {"C"} ELSE {})

LimitReached == \E k \in Limits : limit[k] # 0 /\ used' >= limit[k]

UpdateAwake ==
    /\ turn = "update" /\ state \notin Resting
    /\ ReadPilot /\ used' = UsedSince
    /\ \E s \in NextStates :
         /\ relay' = IF s = state THEN relay ELSE s = "C"
         /\ IF s = "C" /\ LimitReached
            THEN state' = "SLEEPING" /\ limit' = NoLimit /\ limitSleep' = TRUE
                 /\ stopped' = "yes" /\ UNCHANGED override
            ELSE /\ state' = s /\ UNCHANGED <<limitSleep, stopped>>
                 /\ IF s = "A" /\ s # state THEN limit' = NoLimit /\ ClrManualOverride
                    ELSE UNCHANGED <<limit, override>>
    /\ UpdateOver

-----------------------------------------------------------------------------
(* The commands, one at most per turn.                                      *)

InputsOver == turn' = "button" /\ UNCHANGED <<conn, used, menu, skip, btn, acted, env>>

NoCommand ==
    /\ turn = "inputs"
    /\ InputsOver /\ UNCHANGED <<state, relay, limits, delay, stopped>>

RapiEnable ==
    /\ turn = "inputs" /\ "FE" \in Commands
    /\ Enable /\ Woken
    /\ InputsOver /\ UNCHANGED <<relay, limit, delay>>

RapiSleep ==
    /\ turn = "inputs" /\ "FS" \in Commands
    /\ Sleep
    /\ InputsOver /\ UNCHANGED <<relay, limit, delay, stopped>>

RapiDisable ==
    /\ turn = "inputs" /\ "FD" \in Commands
    /\ state' = "DISABLED" /\ relay' = FALSE
    /\ InputsOver /\ UNCHANGED <<limits, delay, stopped>>

\* $ST: all zero disables the timer.
RapiTimer ==
    /\ turn = "inputs" /\ "ST" \in Commands
    /\ \/ timer' = [timer EXCEPT !.on = FALSE]
       \/ \E s \in Settings : s # <<0, 0>>
                              /\ timer' = [on |-> TRUE, start |-> s[1], stop |-> s[2]]
    /\ ClrManualOverride
    /\ InputsOver /\ UNCHANGED <<state, relay, limits, stopped>>

\* SetTimeLimit15() and SetChargeLimitkWh(): a limit takes precedence over the timer.
SetLimit(k, v) ==
    /\ limit' = [limit EXCEPT ![k] = v]
    /\ IF v # 0 THEN SetManualOverride ELSE ClrManualOverride

\* $S3 and $SH, where LimitsAllowed().
RapiLimit ==
    /\ turn = "inputs" /\ state \in {"B", "C"}
    /\ \E k \in Limits, v \in LimitValues :
         /\ (IF k = "time" THEN "S3" ELSE "SH") \in Commands
         /\ SetLimit(k, v)
    /\ InputsOver /\ UNCHANGED <<state, relay, limitSleep, timer, stopped>>

\* DoShortPress() outside the menus and faults; the override is kept where the user
\* and the schedule disagree.
Toggle ==
    /\ IF state \in Resting THEN Enable ELSE Sleep
    /\ override' = IF timer.on THEN InAwakeTimeInterval <=> state' = "SLEEPING" ELSE override
    /\ Woken

\* $F1: in a fault, and in a menu, nothing but the display changes.
RapiShortPress ==
    /\ turn = "inputs" /\ "F1" \in Commands
    /\ IF menu = "none" /\ state # "FAULT" THEN Toggle
       ELSE UNCHANGED <<state, limitSleep, override, stopped>>
    /\ InputsOver /\ UNCHANGED <<relay, limit, timer>>

Inputs ==
    \/ NoCommand \/ RapiEnable \/ RapiSleep \/ RapiDisable \/ RapiTimer \/ RapiLimit
    \/ RapiShortPress

-----------------------------------------------------------------------------
(* Btn.                                                                     *)

Least(a, b) == IF a <= b THEN a ELSE b

\* The sample of the pin moves the debouncer.
Sampled(b) ==
    IF b.state = "off" \/ (b.state = "short" /\ b.armed)
    THEN IF pressed
         THEN [b EXCEPT !.armed = TRUE,
                        !.state = IF @ = "off" /\ b.age >= Short THEN "short"
                                  ELSE IF @ = "short" /\ b.age >= Long THEN "long" ELSE @]
         ELSE [b EXCEPT !.armed = FALSE, !.age = 0]
    ELSE IF pressed /\ b.held /\ b.age >= VeryLong
    THEN [b EXCEPT !.held = FALSE]
    ELSE b

\* read(): the release after a long press is a new beginning.
BtnRead ==
    Sampled(IF ~pressed /\ btn.state = "long" /\ ~btn.armed THEN Released ELSE btn)

IsShortPress(b) == b.state = "short" /\ ~b.armed
IsLongPress(b) == b.state = "long" /\ b.armed

\* Faulty variant: a long press is reported until the button is released.
AfterPressRepeating(b) ==
    IF IsShortPress(b) THEN Released
    ELSE IF IsLongPress(b) THEN [b EXCEPT !.held = TRUE] ELSE b

\* shortPress() and longPress() report a press once.
AfterPress(b) ==
    IF IsShortPress(b) THEN Released
    ELSE IF IsLongPress(b) THEN [b EXCEPT !.armed = FALSE, !.held = TRUE] ELSE b

-----------------------------------------------------------------------------
(* The menus.  Which item of a menu a long press selects is the user's      *)
(* choice: the short presses that lead to it change nothing else.           *)

ButtonOver ==
    /\ turn' = "timer" /\ btn' = AfterPress(BtnRead)
    /\ UNCHANGED <<conn, used, env>>

Acts == acted' = TRUE /\ ButtonOver

ActedBefore == acted /\ ~(pressed /\ btn.state = "off" /\ ~btn.armed)

NoPress ==
    /\ turn = "button" /\ ~IsShortPress(BtnRead) /\ ~IsLongPress(BtnRead)
    /\ acted' = ActedBefore
    /\ ButtonOver /\ UNCHANGED <<state, relay, limits, delay, menu, skip, stopped>>

ShortPress ==
    /\ turn = "button" /\ IsShortPress(BtnRead)
    /\ ~(menu = "none" /\ state = "FAULT")
    /\ IF menu = "none" THEN Toggle ELSE UNCHANGED <<state, limitSleep, override, stopped>>
    /\ Acts /\ UNCHANGED <<relay, limit, timer, menu, skip>>

\* In a fault a short press does what a long one does.
LongPress ==
    /\ turn = "button"
    /\ IsLongPress(BtnRead) \/ (IsShortPress(BtnRead) /\ menu = "none" /\ state = "FAULT")

\* A fault leads to the setup menu; else the station sleeps while the menu is open.
MenuOpens ==
    /\ LongPress /\ menu = "none"
    /\ skip' = (state \notin {"B", "C"})
    /\ IF state = "FAULT" THEN menu' = "setup" /\ UNCHANGED <<state, limitSleep>>
       ELSE menu' = "settings" /\ Sleep
    /\ Acts /\ UNCHANGED <<relay, limit, delay, stopped>>

Submenus(m) ==
    CASE m = "settings" -> (IF skip THEN {} ELSE {"time", "charge"} \intersect Limits)
                             \union {"delay", "setup", "reset"}
      [] m = "delay"    -> {"onoff", "start", "stop"}
      [] m = "setup"    -> {"item"}
      [] OTHER          -> {}

ItemSelected ==
    /\ LongPress
    /\ menu' \in Submenus(menu) \intersect Items
    /\ Acts /\ UNCHANGED <<state, relay, limits, delay, skip, stopped>>

\* Leaving the menus wakes the station.
MenuExit == menu' = "none" /\ Enable /\ Woken

Exit ==
    /\ LongPress /\ menu \in {"settings", "reset"}
    /\ MenuExit
    /\ Acts /\ UNCHANGED <<relay, limit, delay, skip>>

\* A limit that is set leaves the menus, one that is cleared does not.
LimitSelected ==
    /\ LongPress /\ menu \in Limits
    /\ \E v \in LimitValues :
         /\ SetLimit(menu, v)
         /\ IF v # 0 THEN MenuExit
            ELSE menu' = "settings" /\ UNCHANGED <<state, limitSleep, stopped>>
    /\ Acts /\ UNCHANGED <<relay, timer, skip>>

\* DelayMenuEnableDisable and the menus of hours and minutes, which store both at
\* the end of the second.
TimerSelected ==
    /\ LongPress
    /\ \/ /\ menu = "onoff" /\ ClrManualOverride
          /\ \E b \in BOOLEAN : timer' = [timer EXCEPT !.on = b]
       \/ /\ menu = "start" /\ UNCHANGED override
          /\ \E s \in Slots : timer' = [timer EXCEPT !.start = s]
       \/ /\ menu = "stop" /\ UNCHANGED override
          /\ \E s \in Slots : timer' = [timer EXCEPT !.stop = s]
    /\ menu' = "settings"
    /\ Acts /\ UNCHANGED <<state, relay, limits, skip, stopped>>

\* The settings of the controller, which it keeps itself.
SetupSelected ==
    /\ LongPress /\ menu = "item" /\ menu' = "setup"
    /\ Acts /\ UNCHANGED <<state, relay, limits, delay, skip, stopped>>

\* The exit of the setup menu and "yes" in the reset menu.
Reboot == LongPress /\ menu \in {"setup", "reset"} /\ Restart

Button ==
    \/ NoPress \/ ShortPress \/ MenuOpens \/ ItemSelected \/ Exit \/ LimitSelected
    \/ TimerSelected \/ SetupSelected \/ Reboot

-----------------------------------------------------------------------------
(* CheckTime(), once per second.                                            *)

CheckOver ==
    turn' = "env" /\ UNCHANGED <<relay, conn, limit, used, timer, panel, env>>

CheckTimeIdle ==
    /\ turn = "timer"
    /\ CheckOver /\ UNCHANGED <<state, limitSleep, override, stopped>>

TimerGoverns ==
    /\ turn = "timer" /\ state \notin {"FAULT", "DISABLED"} /\ timer.on /\ IsTimerValid

TimerWakes ==
    /\ TimerGoverns /\ InAwakeTimeInterval /\ ~override /\ state = "SLEEPING"
    /\ Enable /\ stopped' = IF stopped = "yes" THEN "timer" ELSE stopped
    /\ CheckOver /\ UNCHANGED override

TimerSleeps ==
    /\ TimerGoverns /\ ~InAwakeTimeInterval /\ ~override /\ state # "SLEEPING"
    /\ Sleep
    /\ CheckOver /\ UNCHANGED <<override, stopped>>

\* Faulty variant: only waking up ends an override.
OverrideEndsAwake ==
    /\ TimerGoverns /\ override /\ InAwakeTimeInterval /\ state # "SLEEPING"
    /\ ClrManualOverride
    /\ CheckOver /\ UNCHANGED <<state, limitSleep, stopped>>

\* The override ends when the schedule agrees with it.
OverrideEnds ==
    /\ TimerGoverns /\ override /\ (InAwakeTimeInterval <=> state # "SLEEPING")
    /\ ClrManualOverride
    /\ CheckOver /\ UNCHANGED <<state, limitSleep, stopped>>

CheckTime == TimerWakes \/ TimerSleeps \/ OverrideEnds

-----------------------------------------------------------------------------
(* Between two rounds: the vehicle, the user's finger, the clocks.          *)

Meanwhile ==
    /\ turn = "env"
    /\ ev' \in {"none", "ready", "charge"} /\ pressed' \in BOOLEAN
    /\ now' \in {now, (now + 1) % Day}
    /\ \E tick \in {0, 1} :
         /\ btn' = IF btn.armed \/ btn.held
                   THEN [btn EXCEPT !.age = Least(@ + tick, VeryLong)] ELSE btn
         /\ used' = IF relay /\ state = "C" THEN Least(used + tick, MaxUsed) ELSE used
    /\ turn' = "update"
    /\ UNCHANGED <<state, relay, conn, limits, delay, menu, skip, stopped, acted>>

Reset == "reset" \in Commands /\ Restart

Update == UpdateDisabled \/ UpdateAsleepClosed \/ UpdateAsleep \/ UpdateAwake

Next ==
    \/ Update \/ Inputs \/ Button \/ CheckTime \/ CheckTimeIdle \/ Meanwhile \/ Reset

Spec == Init /\ [][Next]_vars

\* loop() goes on, a second passes, and the grace period of a sleep ends.
FairSpec ==
    /\ Spec
    /\ WF_vars(Update \/ Inputs \/ Button \/ CheckTimeIdle \/ Meanwhile)
    /\ SF_vars(CheckTime) /\ SF_vars(UpdateAsleepClosed /\ ~relay')

-----------------------------------------------------------------------------
ChargerTypeOK ==
    /\ state \in {"UNKNOWN", "A", "B", "C", "FAULT"} \union Resting
    /\ relay \in BOOLEAN /\ conn \in BOOLEAN /\ limitSleep \in BOOLEAN
    /\ limit \in [{"time", "charge"} -> 0 .. MaxUsed] /\ used \in 0 .. MaxUsed
    /\ stopped \in {"no", "yes", "timer"}

\* Only an enabled timer is overridden.
TimerTypeOK ==
    /\ timer \in [on : BOOLEAN, start : Slots, stop : Slots] /\ now \in Slots
    /\ override \in BOOLEAN /\ (override => timer.on)

Buttons ==
    [state : {"off", "short", "long"}, armed : BOOLEAN, age : 0 .. VeryLong, held : BOOLEAN]

PanelTypeOK ==
    /\ menu \in ItemNames \union {"none", "settings"} /\ skip \in BOOLEAN
    /\ btn \in Buttons /\ pressed \in BOOLEAN /\ acted \in BOOLEAN
    /\ turn \in {"env", "update", "inputs", "button", "timer"}
    /\ ev \in {"none", "ready", "charge"}

LocalTypeOK == ChargerTypeOK /\ TimerTypeOK /\ PanelTypeOK

\* The interval of the timer runs from start up to stop, over midnight or not: one is
\* in it iff stop is further away from start than the present.
AwakeFromStartToStop ==
    timer.on /\ IsTimerValid =>
        (InAwakeTimeInterval <=> (now - timer.start) % Day < (timer.stop - timer.start) % Day)

\* A limit that was reached ends the session: nothing but the user, the client, a new
\* vehicle or the timer's interval lets the station charge again.
LimitStops == stopped = "yes" => state # "C"

\* A press of the button, however long it is held, has one effect.
OnePressOneEffect ==
    [][turn = "button" /\ (IsShortPress(BtnRead) \/ IsLongPress(BtnRead)) => ~acted]_vars

\* The timer stays overridden until the limit of the session is met or the vehicle leaves.
TimerYieldsToLimit ==
    [][CheckTime /\ override /\ conn /\ limit # NoLimit => override']_vars

-----------------------------------------------------------------------------
LeftAlone == <>[][~(RapiEnable \/ RapiSleep \/ RapiDisable \/ RapiTimer \/ RapiLimit
                      \/ RapiShortPress \/ ShortPress \/ LongPress \/ Reset)]_vars
ClockRuns == \A s \in Slots : []<>(now = s)

\* The override of the timer is temporary: within a day the schedule is back.
OverrideIsTemporary ==
    LeftAlone /\ ClockRuns /\ <>[](timer.on /\ IsTimerValid /\ state \notin {"FAULT", "DISABLED"})
      => <>[]~override

\* The sleep after a limit ends when the vehicle leaves.
LimitSleepEnds ==
    LeftAlone /\ <>[](ev = "none") => [](limitSleep /\ state = "SLEEPING" => <>~limitSleep)
=============================================================================
