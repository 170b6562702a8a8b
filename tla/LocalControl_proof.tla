------------------------- MODULE LocalControl_proof -------------------------
(***************************************************************************)
(* What TLAPS proves of LocalControl, for a day of any length, all timer    *)
(* settings, limits and button times.                                       *)
(***************************************************************************)
EXTENDS LocalControl, TLAPS

\* A limit that was reached left the station asleep, and it still is.
Rests == stopped = "yes" => state \in Resting

\* A hold that had its effect is not counted again before the button is released.
Held == acted => ~btn.armed /\ btn.state \in {"off", "long"}

LEMMA Constants ==
  /\ VeryLong \in Nat /\ MaxUsed \in Nat /\ Day \in Nat /\ Day > 0
  /\ Limits \subseteq {"time", "charge"} /\ LimitValues \subseteq 0 .. MaxUsed
  /\ Settings \subseteq (0 .. Day - 1) \X (0 .. Day - 1)
  BY LocalAssumption

LEMMA Zero ==
  /\ 0 \in 0 .. MaxUsed /\ 0 \in Slots
  /\ Released \in Buttons /\ NoLimit \in [{"time", "charge"} -> 0 .. MaxUsed]
  <1>1. 0 \in 0 .. MaxUsed /\ 0 \in Slots /\ 0 \in 0 .. VeryLong
    BY Constants DEF Slots
  <1>2. QED
    BY <1>1 DEF NoLimit, Released, Buttons

LEMMA NextSlot == \A s \in Slots : (s + 1) % Day \in Slots
  BY Constants DEF Slots

LEMMA ReadType ==
  ASSUME btn \in Buttons, pressed \in BOOLEAN
  PROVE  BtnRead \in Buttons
  <1>1. VeryLong \in Nat
    BY Constants
  <1>2. Released \in Buttons
    BY Zero
  <1>3. ASSUME NEW b \in Buttons PROVE Sampled(b) \in Buttons
    <2>1. [b EXCEPT !.armed = FALSE, !.age = 0] \in Buttons
      <3>1. 0 \in 0 .. VeryLong
        BY <1>1
      <3>2. QED
        BY <1>3, <3>1 DEF Buttons
    <2>2. [b EXCEPT !.held = FALSE] \in Buttons
      BY <1>3 DEF Buttons
    <2>3. ASSUME NEW s \in {"off", "short", "long"}
          PROVE  [b EXCEPT !.armed = TRUE, !.state = s] \in Buttons
      BY <1>3 DEF Buttons
    <2>4. b.state \in {"off", "short", "long"}
      BY <1>3 DEF Buttons
    <2>5. QED
      BY <1>3, <2>1, <2>2, <2>3, <2>4 DEF Sampled
  <1>4. QED
    BY <1>2, <1>3 DEF BtnRead

LEMMA ButtonType ==
  ASSUME btn \in Buttons, pressed \in BOOLEAN
  PROVE  AfterPress(BtnRead) \in Buttons
  <1>1. VeryLong \in Nat
    BY Constants
  <1>2. Released \in Buttons
    BY Zero
  <1>3. ASSUME NEW b \in Buttons PROVE [b EXCEPT !.armed = FALSE, !.held = TRUE] \in Buttons
    BY <1>3 DEF Buttons
  <1>4. QED
    BY <1>2, <1>3, ReadType DEF AfterPress

LEMMA PressEnds ==
  ASSUME btn \in Buttons, pressed \in BOOLEAN, IsShortPress(BtnRead) \/ IsLongPress(BtnRead)
  PROVE  ~AfterPress(BtnRead).armed /\ AfterPress(BtnRead).state \in {"off", "long"}
  <1>1. BtnRead \in Buttons
    BY ReadType
  <1>2. QED
    BY <1>1 DEF AfterPress, IsShortPress, IsLongPress, Released, Buttons

LEMMA HoldGoesOn ==
  ASSUME btn \in Buttons, pressed \in BOOLEAN, ~btn.armed, btn.state \in {"off", "long"}
  PROVE  /\ ~IsShortPress(BtnRead) /\ ~IsLongPress(BtnRead)
         /\ \/ pressed /\ btn.state = "off"
            \/ ~BtnRead.armed /\ BtnRead.state \in {"off", "long"}
  <1> USE DEF BtnRead, Sampled, IsShortPress, IsLongPress, Released, Buttons
  <1>1. CASE ~pressed
    BY <1>1
  <1>2. CASE pressed /\ btn.state = "long"
    BY <1>2
  <1>3. CASE pressed /\ btn.state = "off"
    BY <1>3
  <1>4. QED
    BY <1>1, <1>2, <1>3

LEMMA Older ==
  ASSUME btn \in Buttons, NEW tick \in {0, 1}
  PROVE  [btn EXCEPT !.age = Least(@ + tick, VeryLong)] \in Buttons
  BY Constants DEF Buttons, Least

LEMMA InitType == Init => LocalTypeOK
  <1> SUFFICES ASSUME Init PROVE LocalTypeOK
    OBVIOUS
  <1>1. ChargerTypeOK
    BY Zero DEF Init, ChargerTypeOK
  <1>2. TimerTypeOK
    BY Zero DEF Init, TimerTypeOK
  <1>3. PanelTypeOK
    BY Zero DEF Init, PanelTypeOK
  <1>4. QED
    BY <1>1, <1>2, <1>3 DEF LocalTypeOK

-----------------------------------------------------------------------------
(* Types: an override has an enabled timer.                                 *)

LEMMA ChargerTypeStep ==
  ASSUME ChargerTypeOK, TimerTypeOK, [Next]_vars
  PROVE  ChargerTypeOK'
  <1> USE DEF ChargerTypeOK, Resting, charger, limits, delay, panel, env
  <1>1. ASSUME UpdateDisabled PROVE ChargerTypeOK'
    BY <1>1 DEF UpdateDisabled, UpdateOver
  <1>2. ASSUME UpdateAsleepClosed PROVE ChargerTypeOK'
    BY <1>2, Zero DEF UpdateAsleepClosed, UpdateOver, ReadPilot, UsedSince
  <1>3. ASSUME UpdateAsleep PROVE ChargerTypeOK'
    BY <1>3, Zero DEF UpdateAsleep, UpdateOver, ReadPilot, UsedSince, LimitSleepOver
  <1>4. ASSUME UpdateAwake PROVE ChargerTypeOK'
    BY <1>4, Zero DEF UpdateAwake, UpdateOver, ReadPilot, UsedSince, NextStates,
      LimitReached, NoLimit, ClrManualOverride
  <1>5. ASSUME NoCommand \/ RapiTimer
        PROVE  ChargerTypeOK'
    BY <1>5 DEF NoCommand, InputsOver, RapiTimer, ClrManualOverride
  <1>6. ASSUME RapiEnable PROVE ChargerTypeOK'
    BY <1>6 DEF RapiEnable, InputsOver, Enable, Woken
  <1>7. ASSUME RapiSleep PROVE ChargerTypeOK'
    BY <1>7 DEF RapiSleep, InputsOver, Sleep
  <1>8. ASSUME RapiDisable PROVE ChargerTypeOK'
    BY <1>8 DEF RapiDisable, InputsOver
  <1>9. ASSUME RapiLimit PROVE ChargerTypeOK'
    BY <1>9, Constants DEF RapiLimit, InputsOver, SetLimit, SetManualOverride,
      ClrManualOverride
  <1>10. ASSUME RapiShortPress PROVE ChargerTypeOK'
    BY <1>10 DEF RapiShortPress, InputsOver, Toggle, Enable, Sleep, Woken
  <1>11. ASSUME NoPress \/ ItemSelected \/ TimerSelected \/ SetupSelected
        PROVE  ChargerTypeOK'
    BY <1>11 DEF NoPress, ButtonOver, ActedBefore, ItemSelected, Acts, LongPress,
      Submenus, ItemNames, TimerSelected, ClrManualOverride, SetupSelected
  <1>12. ASSUME ShortPress PROVE ChargerTypeOK'
    BY <1>12 DEF ShortPress, ButtonOver, Acts, Toggle, Enable, Sleep, Woken
  <1>13. ASSUME MenuOpens PROVE ChargerTypeOK'
    BY <1>13 DEF MenuOpens, ButtonOver, Acts, LongPress, Sleep
  <1>14. ASSUME Exit PROVE ChargerTypeOK'
    BY <1>14 DEF Exit, ButtonOver, Acts, LongPress, MenuExit, Enable, Woken
  <1>15. ASSUME LimitSelected PROVE ChargerTypeOK'
    BY <1>15, Constants DEF LimitSelected, ButtonOver, Acts, LongPress, SetLimit,
      SetManualOverride, ClrManualOverride, MenuExit, Enable, Woken
  <1>16. ASSUME TimerWakes PROVE ChargerTypeOK'
    BY <1>16 DEF TimerWakes, CheckOver, TimerGoverns, Enable
  <1>17. ASSUME TimerSleeps PROVE ChargerTypeOK'
    BY <1>17 DEF TimerSleeps, CheckOver, TimerGoverns, Sleep
  <1>18. ASSUME OverrideEnds \/ CheckTimeIdle
        PROVE  ChargerTypeOK'
    BY <1>18 DEF OverrideEnds, CheckOver, TimerGoverns, ClrManualOverride, CheckTimeIdle
  <1>19. ASSUME Meanwhile PROVE ChargerTypeOK'
    BY <1>19, Constants DEF Meanwhile, Least
  <1>20. ASSUME Reboot \/ Reset
        PROVE  ChargerTypeOK'
    BY <1>20, Zero DEF Reboot, LongPress, Restart, NoLimit, Released, Reset
  <1>21. ASSUME UNCHANGED vars PROVE ChargerTypeOK'
    BY <1>21 DEF vars
  <1>22. QED
    BY <1>1, <1>2, <1>3, <1>4, <1>5, <1>6, <1>7, <1>8, <1>9, <1>10, <1>11, <1>12, <1>13,
       <1>14, <1>15, <1>16, <1>17, <1>18, <1>19, <1>20, <1>21
    DEF Next, Update, Inputs, Button, CheckTime

LEMMA TimerTypeStep ==
  ASSUME TimerTypeOK, [Next]_vars
  PROVE  TimerTypeOK'
  <1> USE DEF TimerTypeOK, charger, limits, delay, panel, env
  <1>1. ASSUME UpdateDisabled PROVE TimerTypeOK'
    BY <1>1 DEF UpdateDisabled, UpdateOver
  <1>2. ASSUME UpdateAsleepClosed PROVE TimerTypeOK'
    BY <1>2 DEF UpdateAsleepClosed, UpdateOver, ReadPilot, UsedSince
  <1>3. ASSUME UpdateAsleep \/ UpdateAwake
        PROVE  TimerTypeOK'
    BY <1>3 DEF UpdateAsleep, UpdateOver, ReadPilot, UsedSince, LimitSleepOver,
      UpdateAwake, NextStates, LimitReached, NoLimit, ClrManualOverride
  <1>4. ASSUME NoCommand \/ RapiEnable \/ RapiSleep \/ RapiDisable
        PROVE  TimerTypeOK'
    BY <1>4 DEF NoCommand, InputsOver, RapiEnable, Enable, Woken, RapiSleep, Sleep,
      RapiDisable
  <1>5. ASSUME RapiTimer PROVE TimerTypeOK'
    <2>1. [timer EXCEPT !.on = FALSE] \in [on : BOOLEAN, start : Slots, stop : Slots]
      BY DEF TimerTypeOK
    <2>2. ASSUME NEW s \in Slots \X Slots
          PROVE  [on |-> TRUE, start |-> s[1], stop |-> s[2]]
                   \in [on : BOOLEAN, start : Slots, stop : Slots]
      BY <2>2
    <2>3. Settings \subseteq Slots \X Slots
      BY Constants DEF Slots
    <2>4. QED
      BY <1>5, <2>1, <2>2, <2>3 DEF RapiTimer, InputsOver, ClrManualOverride
  <1>6. ASSUME RapiLimit PROVE TimerTypeOK'
    BY <1>6 DEF RapiLimit, InputsOver, SetLimit, SetManualOverride, ClrManualOverride
  <1>7. ASSUME RapiShortPress PROVE TimerTypeOK'
    BY <1>7 DEF RapiShortPress, InputsOver, Toggle, Enable, Sleep, Woken
  <1>8. ASSUME NoPress \/ MenuOpens \/ ItemSelected \/ Exit \/ SetupSelected
        PROVE  TimerTypeOK'
    BY <1>8 DEF NoPress, ButtonOver, ActedBefore, MenuOpens, Acts, LongPress, Sleep,
      ItemSelected, Submenus, ItemNames, Exit, MenuExit, Enable, Woken, SetupSelected
  <1>9. ASSUME ShortPress PROVE TimerTypeOK'
    BY <1>9 DEF ShortPress, ButtonOver, Acts, Toggle, Enable, Sleep, Woken
  <1>10. ASSUME LimitSelected PROVE TimerTypeOK'
    BY <1>10 DEF LimitSelected, ButtonOver, Acts, LongPress, SetLimit,
      SetManualOverride, ClrManualOverride, MenuExit, Enable, Woken
  <1>11. ASSUME TimerSelected PROVE TimerTypeOK'
    <2>1. ASSUME NEW b \in BOOLEAN, NEW s \in Slots
          PROVE  /\ [timer EXCEPT !.on = b] \in [on : BOOLEAN, start : Slots, stop : Slots]
                 /\ [timer EXCEPT !.start = s] \in [on : BOOLEAN, start : Slots, stop : Slots]
                 /\ [timer EXCEPT !.stop = s] \in [on : BOOLEAN, start : Slots, stop : Slots]
                 /\ [timer EXCEPT !.start = s].on = timer.on
                 /\ [timer EXCEPT !.stop = s].on = timer.on
      BY <2>1 DEF TimerTypeOK
    <2>2. 0 \in Slots
      BY Zero
    <2>3. QED
      BY <1>11, <2>1, <2>2 DEF TimerSelected, ButtonOver, Acts, ClrManualOverride
  <1>12. ASSUME TimerWakes \/ TimerSleeps \/ CheckTimeIdle
        PROVE  TimerTypeOK'
    BY <1>12 DEF TimerWakes, CheckOver, TimerGoverns, Enable, TimerSleeps, Sleep,
      CheckTimeIdle
  <1>13. ASSUME OverrideEnds PROVE TimerTypeOK'
    BY <1>13 DEF OverrideEnds, CheckOver, TimerGoverns, ClrManualOverride
  <1>14. ASSUME Meanwhile PROVE TimerTypeOK'
    BY <1>14, NextSlot DEF Meanwhile, Least
  <1>15. ASSUME Reboot \/ Reset
        PROVE  TimerTypeOK'
    BY <1>15 DEF Reboot, LongPress, Restart, NoLimit, Released, Reset
  <1>16. ASSUME UNCHANGED vars PROVE TimerTypeOK'
    BY <1>16 DEF vars
  <1>17. QED
    BY <1>1, <1>2, <1>3, <1>4, <1>5, <1>6, <1>7, <1>8, <1>9, <1>10, <1>11, <1>12, <1>13,
       <1>14, <1>15, <1>16
    DEF Next, Update, Inputs, Button, CheckTime

LEMMA PanelTypeStep ==
  ASSUME PanelTypeOK, [Next]_vars
  PROVE  PanelTypeOK'
  <1> USE DEF PanelTypeOK, charger, limits, delay, panel, env
  <1>1. ASSUME UpdateDisabled \/ UpdateAsleepClosed \/ UpdateAsleep \/ UpdateAwake
        PROVE  PanelTypeOK'
    BY <1>1 DEF UpdateDisabled, UpdateOver, UpdateAsleepClosed, ReadPilot, UsedSince,
      UpdateAsleep, LimitSleepOver, UpdateAwake, NextStates, LimitReached, NoLimit,
      ClrManualOverride
  <1>2. ASSUME NoCommand \/ RapiEnable \/ RapiSleep \/ RapiDisable \/ RapiTimer \/
              RapiLimit \/ RapiShortPress
        PROVE  PanelTypeOK'
    BY <1>2 DEF NoCommand, InputsOver, RapiEnable, Enable, Woken, RapiSleep, Sleep,
      RapiDisable, RapiTimer, ClrManualOverride, RapiLimit, SetLimit, SetManualOverride,
      RapiShortPress, Toggle
  <1>3. ASSUME NoPress PROVE PanelTypeOK'
    BY <1>3, ButtonType DEF NoPress, ButtonOver, ActedBefore
  <1>4. ASSUME ShortPress PROVE PanelTypeOK'
    BY <1>4, ButtonType DEF ShortPress, ButtonOver, Acts, Toggle, Enable, Sleep, Woken
  <1>5. ASSUME MenuOpens PROVE PanelTypeOK'
    <2>1. skip' \in BOOLEAN
      BY <1>5 DEF MenuOpens
    <2>2. menu' \in {"setup", "settings"} /\ acted' = TRUE
      BY <1>5 DEF MenuOpens, Acts
    <2>3. btn' \in Buttons /\ turn' = "timer" /\ ev' = ev /\ pressed' = pressed
      BY <1>5, ButtonType DEF MenuOpens, ButtonOver, Acts
    <2>4. QED
      BY <2>1, <2>2, <2>3 DEF ItemNames
  <1>6. ASSUME ItemSelected PROVE PanelTypeOK'
    BY <1>6, ButtonType DEF ItemSelected, ButtonOver, Acts, LongPress, Submenus,
      ItemNames, ItemNames
  <1>7. ASSUME Exit PROVE PanelTypeOK'
    BY <1>7, ButtonType DEF Exit, ButtonOver, Acts, LongPress, MenuExit, Enable, Woken
  <1>8. ASSUME LimitSelected PROVE PanelTypeOK'
    BY <1>8, ButtonType, Constants DEF LimitSelected, ButtonOver, Acts, LongPress,
      SetLimit, SetManualOverride, ClrManualOverride, MenuExit, Enable, Woken, ItemNames
  <1>9. ASSUME TimerSelected PROVE PanelTypeOK'
    BY <1>9, ButtonType DEF TimerSelected, ButtonOver, Acts, LongPress,
      ClrManualOverride
  <1>10. ASSUME SetupSelected PROVE PanelTypeOK'
    BY <1>10, ButtonType DEF SetupSelected, ButtonOver, Acts, LongPress, ItemNames
  <1>11. ASSUME TimerWakes \/ TimerSleeps \/ OverrideEnds \/ CheckTimeIdle
        PROVE  PanelTypeOK'
    BY <1>11 DEF TimerWakes, CheckOver, TimerGoverns, Enable, TimerSleeps, Sleep,
      OverrideEnds, ClrManualOverride, CheckTimeIdle
  <1>12. ASSUME Meanwhile PROVE PanelTypeOK'
    BY <1>12, Older DEF Meanwhile, Least
  <1>13. ASSUME Reboot \/ Reset
        PROVE  PanelTypeOK'
    BY <1>13, Zero DEF Reboot, LongPress, Restart, NoLimit, Released, Reset
  <1>14. ASSUME UNCHANGED vars PROVE PanelTypeOK'
    BY <1>14 DEF vars
  <1>15. QED
    BY <1>1, <1>2, <1>3, <1>4, <1>5, <1>6, <1>7, <1>8, <1>9, <1>10, <1>11, <1>12, <1>13,
       <1>14
    DEF Next, Update, Inputs, Button, CheckTime

LEMMA RestsStep ==
  ASSUME ChargerTypeOK, Rests, [Next]_vars
  PROVE  Rests'
  <1> USE DEF ChargerTypeOK, Rests, Resting, charger, limits, delay, panel, env
  <1>1. ASSUME UpdateDisabled PROVE Rests'
    BY <1>1 DEF UpdateDisabled, UpdateOver
  <1>2. ASSUME UpdateAsleepClosed PROVE Rests'
    BY <1>2 DEF UpdateAsleepClosed, UpdateOver, ReadPilot, UsedSince
  <1>3. ASSUME UpdateAsleep PROVE Rests'
    BY <1>3 DEF UpdateAsleep, UpdateOver, ReadPilot, UsedSince, LimitSleepOver
  <1>4. ASSUME UpdateAwake PROVE Rests'
    BY <1>4 DEF UpdateAwake, UpdateOver, ReadPilot, UsedSince, NextStates, LimitReached,
      NoLimit, ClrManualOverride
  <1>5. ASSUME NoCommand \/ RapiTimer \/ RapiLimit
        PROVE  Rests'
    BY <1>5 DEF NoCommand, InputsOver, RapiTimer, ClrManualOverride, RapiLimit,
      SetLimit, SetManualOverride
  <1>6. ASSUME RapiEnable PROVE Rests'
    BY <1>6 DEF RapiEnable, InputsOver, Enable, Woken
  <1>7. ASSUME RapiSleep \/ RapiDisable
        PROVE  Rests'
    BY <1>7 DEF RapiSleep, InputsOver, Sleep, RapiDisable
  <1>8. ASSUME RapiShortPress PROVE Rests'
    BY <1>8 DEF RapiShortPress, InputsOver, Toggle, Enable, Sleep, Woken
  <1>9. ASSUME NoPress \/ ItemSelected \/ TimerSelected \/ SetupSelected
        PROVE  Rests'
    BY <1>9 DEF NoPress, ButtonOver, ActedBefore, ItemSelected, Acts, LongPress,
      Submenus, ItemNames, TimerSelected, ClrManualOverride, SetupSelected
  <1>10. ASSUME ShortPress PROVE Rests'
    BY <1>10 DEF ShortPress, ButtonOver, Acts, Toggle, Enable, Sleep, Woken
  <1>11. ASSUME MenuOpens PROVE Rests'
    BY <1>11 DEF MenuOpens, ButtonOver, Acts, LongPress, Sleep
  <1>12. ASSUME Exit PROVE Rests'
    BY <1>12 DEF Exit, ButtonOver, Acts, LongPress, MenuExit, Enable, Woken
  <1>13. ASSUME LimitSelected PROVE Rests'
    BY <1>13 DEF LimitSelected, ButtonOver, Acts, LongPress, SetLimit,
      SetManualOverride, ClrManualOverride, MenuExit, Enable, Woken
  <1>14. ASSUME TimerWakes PROVE Rests'
    BY <1>14 DEF TimerWakes, CheckOver, TimerGoverns, Enable
  <1>15. ASSUME TimerSleeps \/ OverrideEnds \/ CheckTimeIdle
        PROVE  Rests'
    BY <1>15 DEF TimerSleeps, CheckOver, TimerGoverns, Sleep, OverrideEnds,
      ClrManualOverride, CheckTimeIdle
  <1>16. ASSUME Meanwhile PROVE Rests'
    BY <1>16 DEF Meanwhile, Least
  <1>17. ASSUME Reboot \/ Reset
        PROVE  Rests'
    BY <1>17 DEF Reboot, LongPress, Restart, NoLimit, Released, Reset
  <1>18. ASSUME UNCHANGED vars PROVE Rests'
    BY <1>18 DEF vars
  <1>19. QED
    BY <1>1, <1>2, <1>3, <1>4, <1>5, <1>6, <1>7, <1>8, <1>9, <1>10, <1>11, <1>12, <1>13,
       <1>14, <1>15, <1>16, <1>17, <1>18
    DEF Next, Update, Inputs, Button, CheckTime

LEMMA HeldStep ==
  ASSUME PanelTypeOK, Held, [Next]_vars
  PROVE  Held'
  <1> USE DEF PanelTypeOK, Held, charger, limits, delay, panel, env
  <1>1. ASSUME UpdateDisabled \/ UpdateAsleepClosed \/ UpdateAsleep \/ UpdateAwake
        PROVE  Held'
    BY <1>1 DEF UpdateDisabled, UpdateOver, UpdateAsleepClosed, ReadPilot, UsedSince,
      UpdateAsleep, LimitSleepOver, UpdateAwake, NextStates, LimitReached, NoLimit,
      ClrManualOverride
  <1>2. ASSUME NoCommand \/ RapiEnable \/ RapiSleep \/ RapiDisable \/ RapiTimer \/
              RapiLimit \/ RapiShortPress
        PROVE  Held'
    BY <1>2 DEF NoCommand, InputsOver, RapiEnable, Enable, Woken, RapiSleep, Sleep,
      RapiDisable, RapiTimer, ClrManualOverride, RapiLimit, SetLimit, SetManualOverride,
      RapiShortPress, Toggle
  <1>3. ASSUME NoPress PROVE Held'
    BY <1>3, HoldGoesOn DEF NoPress, ButtonOver, ActedBefore, AfterPress
  <1>4. ASSUME ShortPress \/ MenuOpens \/ ItemSelected \/ Exit \/ LimitSelected \/
              TimerSelected \/ SetupSelected
        PROVE  Held'
    BY <1>4, PressEnds DEF ShortPress, ButtonOver, Acts, Toggle, Enable, Sleep, Woken,
      MenuOpens, LongPress, ItemSelected, Submenus, ItemNames, Exit, MenuExit,
      LimitSelected, SetLimit, SetManualOverride, ClrManualOverride, TimerSelected,
      SetupSelected
  <1>5. ASSUME TimerWakes \/ TimerSleeps \/ OverrideEnds \/ CheckTimeIdle
        PROVE  Held'
    BY <1>5 DEF TimerWakes, CheckOver, TimerGoverns, Enable, TimerSleeps, Sleep,
      OverrideEnds, ClrManualOverride, CheckTimeIdle
  <1>6. ASSUME Meanwhile PROVE Held'
    BY <1>6 DEF Meanwhile, Least
  <1>7. ASSUME Reboot \/ Reset
        PROVE  Held'
    BY <1>7 DEF Reboot, LongPress, Restart, NoLimit, Released, Reset
  <1>8. ASSUME UNCHANGED vars PROVE Held'
    BY <1>8 DEF vars
  <1>9. QED
    BY <1>1, <1>2, <1>3, <1>4, <1>5, <1>6, <1>7, <1>8
    DEF Next, Update, Inputs, Button, CheckTime

-----------------------------------------------------------------------------
\* Every variable keeps its type, and no timer is overridden that is not enabled, for
\* every day, setting, limit and button time.
THEOREM LocalTypes == Spec => []LocalTypeOK
  <1>1. LocalTypeOK /\ [Next]_vars => LocalTypeOK'
    BY ChargerTypeStep, TimerTypeStep, PanelTypeStep DEF LocalTypeOK
  <1>2. QED
    BY InitType, <1>1, PTL DEF Spec

\* A limit that was reached ends the session: until somebody wakes the station or the
\* vehicle leaves it is not charged again, whatever the menus and the timer do.
THEOREM LimitEndsSession == Spec => []LimitStops
  <1>1. Init => Rests
    BY DEF Init, Rests
  <1>2. LocalTypeOK /\ Rests /\ [Next]_vars => Rests'
    BY RestsStep DEF LocalTypeOK
  <1>3. Rests => LimitStops
    BY DEF Rests, LimitStops, Resting
  <1>4. QED
    BY <1>1, <1>2, <1>3, LocalTypes, PTL DEF Spec

\* A hold of the button has one effect, for all times that tell a short press from a
\* long one.
THEOREM PressedOnce == Spec => OnePressOneEffect
  <1>1. Init => Held
    BY DEF Init, Held
  <1>2. LocalTypeOK /\ Held /\ [Next]_vars => Held'
    BY HeldStep DEF LocalTypeOK
  <1>3. LocalTypeOK /\ Held =>
          (turn = "button" /\ (IsShortPress(BtnRead) \/ IsLongPress(BtnRead)) => ~acted)
    BY HoldGoesOn DEF Held, LocalTypeOK, PanelTypeOK
  <1>4. QED
    BY <1>1, <1>2, <1>3, LocalTypes, PTL DEF Spec, OnePressOneEffect

-----------------------------------------------------------------------------
(* The interval of the timer.                                               *)

\* The distance from one slot to the next of its kind, over midnight if need be.
LEMMA Distance ==
  ASSUME NEW a \in Slots, NEW b \in Slots
  PROVE  (a - b) % Day = IF a >= b THEN a - b ELSE a - b + Day
  BY Constants DEF Slots

LEMMA AwakeIsInterval ==
  ASSUME NEW start \in Slots, NEW stop \in Slots, NEW t \in Slots, start # stop
  PROVE  Awake(start, stop, t) <=> (t - start) % Day < (stop - start) % Day
  <1>1. /\ (t - start) % Day = IF t >= start THEN t - start ELSE t - start + Day
        /\ (stop - start) % Day = IF stop >= start THEN stop - start ELSE stop - start + Day
    BY Distance
  <1>2. QED
    BY <1>1, Constants DEF Awake, Slots

\* One is in the interval of the timer exactly from its start up to its stop, over
\* midnight or not, for a day of any length.
THEOREM AwakeInterval == Spec => []AwakeFromStartToStop
  <1>1. LocalTypeOK => AwakeFromStartToStop
    <2> SUFFICES ASSUME LocalTypeOK, timer.on, timer.start # timer.stop
                 PROVE  InAwakeTimeInterval
                          <=> (now - timer.start) % Day < (timer.stop - timer.start) % Day
      BY DEF AwakeFromStartToStop, IsTimerValid
    <2>1. timer.start \in Slots /\ timer.stop \in Slots /\ now \in Slots
      BY DEF LocalTypeOK, TimerTypeOK
    <2>2. InAwakeTimeInterval <=> Awake(timer.start, timer.stop, now)
      BY DEF InAwakeTimeInterval, IsTimerValid
    <2>3. QED
      BY <2>1, <2>2, AwakeIsInterval
  <1>2. QED
    BY <1>1, LocalTypes, PTL

=============================================================================
