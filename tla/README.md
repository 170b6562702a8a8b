# OpenEVSE in TLA+

TLA+ models of the OpenEVSE charging-station firmware (`src/firmware`), the TLC
configurations that check them on small instances, and theorems about them that
TLAPS checks for every value of their constants. Line references are to
`open_evse/J1772EvseController.cpp` unless a file is named.

## 1. The system

One 8-bit (or SAMD) processor runs `loop()` (main.cpp 2517-2548) for ever:
`g_EvseController.Update()`, then the energy meter, the display, the front panel and
`ProcessInputs()` (RAPI commands), and the delay timer. There are no threads. What
makes it hard is that

- one **interrupt**, `SetGfiTripped()` (573-592), changes the contacts, the pilot,
  the flags and a time stamp between any two instructions of the main program;
- `ProcessInputs()` also runs **inside loops** in the middle of `Update()`
  (`HardFault()` 549-570, `DoPPError()` 524-546, the loops of the start-up), so a
  command meets half-finished passes;
- **several masters** start and end charging: the vehicle, the client's commands, the
  button and its menus, the delay timer, the limits of a session, faults;
- states depend on **unsigned time differences** to stamps that several handlers
  write for several purposes;
- the **EEPROM** survives a restart and RAM does not;
- the client talks over a **serial line** that loses and alters characters.

| Component | State | Operations | Hard part |
|---|---|---|---|
| Charge controller, `J1772EVSEController` | `m_EvseState`, the charging pins and `ECVF_CHARGING_ON`, connect flag, debounce state, time stamps, retry and trip counters, check switches | `Update`, `HardFault`, `Enable`, `Disable`, `Sleep`, `Reboot`, `$FF` switches | interrupt, nested polling, time-outs, retries |
| GFCI, `Gfi` | latch, `testInProgress` | `SetGfiTripped`, `Reset`, `SelfTest` | masks itself, erases its latch |
| Pilot, `J1772Pilot` | `P12`, `PWM`, `N12`, duty | `SetState`, `SetPWM` | set by everybody |
| Start-up | - | `setup`, `EvseReset`, `doPost`, boot lock | spin loops |
| Current capacity | `m_CurrentCapacity`, per-level maximum in EEPROM, hardware maximum, service level | `SetCurrentCapacity`, `$SC`, `$SC M`, `$SL` | several writers, no memory of why a limit was set |
| Heartbeat supervision | interval, fallback, trigger, last pulse | `$SY` in four forms, `HsExpirationCheck` | integer width, acknowledgement protocol |
| Throttling, `TempMonitor` | two flags, sensors | throttle, restore, over-temperature fault | competes with the two above |
| Proximity pin, `AutoCurrentCapacityController` | last rating read | read, limit, fault | read at other moments than used |
| Session clock and `EnergyMeter` | three charge times, session energy, total in EEPROM, five flags | `chargingOn/Off`, `Update`, `calcUsage`, `$SK`, `$FC` | carried over between closings, booked once |
| Connector lock, `MennekesLock` | locked, manual mode | `ReadPilot`, `$S5`, `Disable` | driven from one place, changed from others |
| Limits | time and energy limit, the sleep they cause | `$S3`, `$SH`, menus, `Update` | four ways in, five ways out |
| Delay timer, `DelayTimer` | enabled, start, stop in EEPROM, manual override | `CheckTime`, `$ST`, menus | override set and cleared by everybody, midnight |
| Button and menus, `Btn`, `BtnHandler`, `Menu` | button state, open menu | debounce, short and long press, `$F1` | one hold, one effect |
| RAPI, `EvseRapiProcessor` | buffer, sequence id, last state told | `doCmd`, `tokenize`, `processCmd`, `RapiSendEvseState` | remains of broken frames |
| Display, ammeter, sensors, buses, bootloader | see section 7 | | |

What must be true of them: contacts are closed only over a vehicle that asked for
current and is offered it; no fault leaves them closed; a ground-fault trip opens
them and keeps them open until somebody answered the fault; the interrupt is never
masked under load; a fault offers no current; an irrecoverable fault is not declared
on a glitch; a disabled charger stays disabled; Sleep() ends in open contacts; faults
that are promised to clear do clear; a limit that was reached ends the session; the
timer's schedule comes back after every override; no energy is metered that did not
flow, and none booked twice; an answer names the frame it answers; and the client
knows the state of the station.

## 2. Modules

| Module | What it is |
|---|---|
| `EvseController` | controller, GFCI and pilot, interrupt, commands, environment; its properties |
| `SafeCharging` | the abstract charger that `EvseController` implements |
| `ChargingSession` | composes `EvseController` with connector lock, session clock and energy meter |
| `Ampacity` | the current offered: `$SC`, `$SL`, `$SY`, throttle, proximity limit, duty cycle |
| `LocalControl` | button, menus, delay timer and limits around a reduced controller |
| `RapiProtocol` | frames, noise, sequence ids, answers and `$AT` notifications |
| `MCEvseController`, `MCChargingSession`, `MCAmpacity`, `MCLocalControl`, `MCRapiProtocol` | the sets TLC uses for them |
| `EvseController_proof` | type correctness of the controller |
| `EvseSafety_proof` | the inductive invariant of the contacts and the safety theorems |
| `EvseService_proof` | prompt opening, grace period, what the pilot offers, the relay and its debounce, the disabled state |
| `EvseRefinement_proof` | the controller implements `SafeCharging` |
| `ChargingSession_proof` | the composition takes only the controller's steps; types, lock, charge time, energy |
| `Ampacity_proof` | types, bounds, duty cycle, cable, throttle |
| `LocalControl_proof` | types, limits, button, the timer's interval |
| `RapiProtocol_proof` | answers match frames, an undamaged frame is heard, the client is told |

### EvseController

Variables carry the names of what they stand for (`state` is `m_EvseState`, `relay`
the charging pins, `chargingOn` the flag `ECVF_CHARGING_ON`, which is not the same
thing, and so on; the declarations say which). `pc` is the next step of the main
program. A pass of `Update()` runs through

    idle -> supply -> gfi -> pilot -> act -> (selftest -> testrun -> close ->
            holding -> closed) -> tail -> finish -> idle

with `hf` for `HardFault()`, `cool` and `ocwait` for the waits before contacts are
opened, `boot`, `postfault`, `bootlock`, `pperror`, `reboot` for start-up and its
loops. A step is what no interrupt can split observably; where two writes of the
code can be told apart by an interrupt (pins, hold duty and flag in `chargingOn()`,
the latch before and after the test, the AC pins and the charging flag) they are two
steps, or the later one may see what the earlier one saw (`pass.live`). `chargingOn()`
drives DC1, DC2 and AC in separate statements (445-463): a trip between two of them has
opened the first again, so `PinsDriven` leaves it open whether a close over a trip completes
the circuit. `kont` remembers where
`HardFault()` returns to, because the code after the call runs on with its locals.

`SupplyCheck` is 1546-1653, with and without the ground monitor (`HasCGMI`);
`GfiCheck` is 1655-1693; `FaultChosen` and `PilotChosen` are 1697-1878;
`Transition` is 1879-1996; `AfterTransition` is 1997-2209. `GfiInterrupt` may fire in
every state but before the interrupt is attached. The commands fire where
`ProcessInputs()` runs (`Polling`).

**Abstractions.** Pilot voltage is the level it classifies as; the minimum and maximum
of one sampling are one level. Time stamps are ages in ticks, saturating above the
longest comparison made with them (`Cap`); two special ages stand for "0 means not
set" and for a stamp the interrupt wrote after the pass sampled `curms` (`Ahead`:
the unsigned difference is huge). A pass takes less than a tick outside its waits
and a pass runs in every tick. Temperatures are bands between the thresholds.
An EEPROM write is atomic. `ECVF_CHARGING_ON` may survive an interrupt that came
in the middle of a read-modify-write of the flags. The `Faults` constant says what can
go wrong; within that, each reading is nondeterministic.

**Left out.** The limits and the delay timer (they are in `LocalControl`); AUTOSVCLEVEL
and what no environment compiles (AUTH_LOCK, FT_*); the wait for zero current and the
zero crossing before a graceful opening (`chargingOff()` 481-488, at most about a
second, during which the interrupt may open the pins itself: the opening is then done
twice); the `$SR` switches that disconnect a relay output; the boot-lock switch (a
constant).

### SafeCharging and the refinement

`SafeCharging` is what a station promises whatever goes on inside: a charging period
begins with open contacts and no unanswered trip; only within it may contacts close; a
trip opens them at once; a trip is answered only over open contacts; and a fault the
client can see has open contacts. `EvseController` maps `m_EvseState` to one of four
services, the pins to `closed`, the ghost `owed` (a trip opened closed contacts and
nothing has answered it) to itself and `pc \in Polling` to `listening`. The run `gfi`
checks the refinement (`SafelyCharges`) with the interrupt at every step and
`EvseRefinement_proof` proves it for every value of the constants.

### ChargingSession

EXTENDS the controller: each of its steps is one of the controller's together with what
lock, clock and meter do in that step, or a step of theirs in which the controller
stands still (`SessionsLeaveController` is the theorem). `ReadsPilot` is the lock in
`ReadPilot()` (1430-1450), `ChargingOn` and `ChargingOff` the time keeping of 446-520,
`AfterConnect`, `AfterUsage` and `Booked` are `EnergyMeter::Update()`, `calcUsage()` and
the booking in `EnergyMeter.cpp`. The power is one unit of energy per tick; what is
checked is when energy and time are counted, not how much. `stage` puts the meter
between the pass and the polling, as `loop()` does. `closedFor`, `chargedFor`,
`closings` and `unbooked` are ghosts: what really happened.

### Ampacity

One variable, `m_CurrentCapacity`, has four kinds of writers, and none of them records why
it set a limit. The module keeps all of the control of the writers: `SetCurrentCapacity`
is 2267-2315 with its two ceilings (what is saved is held to the level's maximum, what is
temporary to the saved maximum and to a fresh reading of the proximity pin),
`MaxCapacity` is `GetMaxCurrentCapacity()` with the last reading instead, `CableSeen` and
`CableRefused` are `StateTransitionReqFunc()` with `AutoSetCurrentCapacity()`,
`HsExpirationCheck`, `Release` and `Throttle` are the three checks at the end of a pass,
and the `$SC`, `$SC n M`, `$SL`, `$SY` commands and start-up are actions of their own.
`offer` is the duty cycle: what the vehicle is told.

The state machine is reduced to what these handlers see of it: `B`, `C`, everything else
that runs passes (`A`, `other`), sleeping or disabled (`off`, where a pass returns before
its checks) and the polling loops (`hf`, `pperror`), where commands arrive and no check
runs. Its transitions are free, so the module contains more behaviours than
`EvseController` has, never fewer. Time is counted in ticks of `Unit` ms since the last
pulse; `IntModulus` is the width of `unsigned int`, in which `m_HsInterval * 1000` is
computed. Not modelled: switching the proximity and temperature checks at run time
(`$FF P`, `$FF T`; both are on or off for good), the AUTOSVCLEVEL change of level, and the
display updates. Thermal bands leave out the temperature of exactly 65.0 C, at which both
the throttle and the end of the shutdown apply.

### LocalControl

`loop()` is a cycle of turns, and so is `turn`: `Update()`, a command, the button, the
timer, and then time and vehicle may move. The controller is reduced to the states the
others read; a pass is one step and the state the pilot asks for is free. What is kept
whole is everything that wakes the station or puts it to sleep: the limits in `Update()`
(2181-2201) and the sleep they cause with its end (1484-1540), `Btn::read()` with its
debounce and three durations (main.cpp 1007-1075), short and long press in and out of the
menus, the menus that set limits, the timer and its override, `CheckTime()`
(main.cpp 2325-2390) and the commands `$F1`, `$FE`, `$FD`, `$FS`, `$ST`, `$S3`, `$SH`. The day has
`Day` slots instead of 1440 minutes; the timer's settings survive a restart, the rest does
not. The menu items that only configure or show something are one abstract item.

### RapiProtocol

The line carries symbols: the delimiters, and one symbol each for the text of a command,
its sequence id and its checksum. Noise loses a symbol or turns it into another, also into
a delimiter. `Receives` is `doCmd()` (rapi_proc.cpp 115-154) one character at a time,
`Tokenized` and `Verified` are `tokenize()` with the checksum, `ProcessCmd` executes,
answers, forgets the frame and notifies; `RapiSendEvseState` is the check that state and
flags agree. The checksum is ideal: errors that cancel each other are left out.

## 3. Properties and hazards

- Contacts against state, pilot and stamps where commands can be received:
  `FaultIsOpen` (which includes `HardFault()`, where no check runs), `ClosedMeansOffered`,
  `SleepGraceBounded`.
- The interrupt against the pass: `TripOpensPromptly`, `NoRecloseAfterTrip`,
  `TripNotMasked`, `TripNotForgotten`, `WorkingRelayNotStuck` (a trip between the reading
  of the AC pins and that of the flag looks like a welded relay).
- What several writers could undo, each said of every step with the exceptions the code
  makes: `FaultOffersNothing` (in a fault only the thermal monitor turns PWM on),
  `DisabledStays` (only the client or a restart ends the disabled state, but for the ends of
  a proximity error and of a hard fault that a trip interfered with), `StuckRelayDebounced`
  (the whole debounce behind open contacts; the interrupt can make their age count as long
  enough, not the reading), `N12MeansDisabled`.
- `CapacityBounds`, `OfferIsCapacity`, `CableRespected`, `ThrottleHolds`: several writers
  of one capacity, with level, hardware maximum, cable and throttle changing under it.
  `HeartbeatLimitReturns`, `HsNotEarly`, `HsLimitKept`: the promises of `$SY`, of which
  the code keeps the first.
- `LockFollowsVehicle`, `ChargeTimeHonest`, `MeterKeepsUp`, `BookedOnce`: what is left of a
  session that was interrupted, disabled, continued or cut by a restart.
- `LimitStops`, `OnePressOneEffect`, `AwakeFromStartToStop`, and `override => timer.on`
  in the type invariant: masters of one state that do not know of each other.
- `AnswersMatch`, `HeardAfterNoise`, `ClientKnowsState`: the line and the notifications.
- What must eventually happen: `UnpluggingRecovers`, `ChargingResumes`, `TripOpens`,
  `SleepOpens`, `OverrideIsTemporary`, `LimitSleepEnds`, `HeartbeatLimitReturns`.

PROJECT.json ties each hazard of the code to the properties that would catch it.

## 4. Runs

TLC explores every behaviour of each instance.

| Run | Question | Instance |
|---|---|---|
| `gfi` | the interrupt and the commands at every step, self test, resets: open contacts in faults, prompt reaction, an answered trip before contacts close again, no masking; the debounce of a relay that sticks or lies, and the disabled state, under trips; the inductive invariant of the proofs and the refinement | CGMI, boot lock, relay and proximity faults, all pilot levels |
| `supply` | what faults of the supply and excess current do to contacts, pilot, sleep and -12 V | CGMI, RELAY_PWM, boot lock, failing ground, relay, diode and excess current, two checks switched |
| `noground` | does every fault open, and stay without an offer | no CGMI, ground, relay and proximity faults, sensors cool, at shutdown and at panic, temperature check switched |
| `recovery` | what must eventually happen; no working relay condemned by a trip | no CGMI, RELAY_PWM, trips, ground and diode faults, enable and sleep, `FairSpec` |
| `session` | lock, clock and meter through unplugging, sleeping, disabling, diode faults, `$SK`, `$S5`, `$FC`, restarts | CGMI, delays of 0 and 1 tick |
| `capacity` | all writers of the capacity in any order, and does the heartbeat's fallback come | cables short, 20 A, none; levels 1 and 2; a legal and a refused hardware maximum; supervision of 1 s; sensors cool, warm and at shutdown; `FairSpec` |
| `local` | panel, timer, limit, commands, restarts in any order | a day of two slots, every menu item |
| `local_live` | interval over midnight, overrides and the sleep after a limit end | a day of three slots, `FairSpec` |
| `rapi` | answers, resynchronisation, notifications | two frames, two damages of five kinds, buffer of six symbols |
| `trip_reclosed` | RELAY_PWM: a trip during the close pulse is undone by the hold duty | violation |
| `heartbeat_early` | a pulse is missed before its 100 s are over | violation; ticks of 10 s, 16-bit `unsigned int` |
| `timer_over_limit` | a limit is to suspend the timer, the timer resumes within a second | violation |

**Bounds.** In `EvseController` delays are 0, 1, 2 and 3 ticks: only their order matters
(`DelayAssumption`), and each is long enough for the interrupt, an unplugging or a
command to fall before, at and after its end. `NoGndRecord` is 0, its default (open_evse.h:362). `RetryCount` is 1, so that the last retry
and the one before it are different. For `Ampacity` the bounds are sets of values, chosen
on both sides of every comparison: 40 A is above every maximum but the hardware's, a
20 A cable is below the saved maximum and above half of it, the fallback of 10 A is below half
of some maxima and above half of others, 16 A is a hardware maximum below the default and
100 A one that is refused; an interval of 1 s is over in the first tick of 2 s, since
whether the limit comes back is asked, not when. Of the bands above the throttle point the run
has the highest: a pass may throttle or not, so whatever it does in the lower one it can
do there.
`ChargingSession` allows three ticks of charge time (`MaxTime`), a gap of one tick between
two updates of the meter (`MaxGap`: without an over-current the meter sees every tick on
which the contacts are closed, as `MeterSees` of the proofs says), three closings before the
history saturates (a session continued twice), and a total that wraps at 2. `SlowHands`
says that a plug pulled under closed contacts is not back before the contacts opened. The
vent check is on, as the theorems about the session ask. Of the arguments of `$S5` the run
has `0` and `1`, which make the lock arbitrary wherever commands are received: in manual mode
`LockFollowsVehicle` asks nothing. The theorems cover all four arguments, every gap, `$FR`,
and throttling, which the run leaves out to stay small. `LocalControl` needs
a day just long enough for an interval, its outside and, for midnight, its inside on both
sides of slot 0; `Short`, `Long` and `VeryLong` are 1, 2, 3 ticks; one unit of use reaches
a limit. In `RapiProtocol` a second frame meets what the first one left behind, and two damages
can turn two frames into one, or one into two.

**Fairness.** `FairSpec` of the controller asks that the main program takes steps (`WF`:
the processor runs), that the clock ticks (`SF`: `Tick` is disabled while a pass is under
way and enabled again in every idle moment, and time does not wait; in `Ampacity` too),
and that the reset `Reboot()` asks of the watchdog comes. Nothing is asked of vehicle,
client or interrupt. In `LocalControl` the turns of `loop()` are taken (`WF`);
`CheckTime` is asked to run by `SF` although it is disabled while a menu is open or the
clock's second has not changed, because `loop()` comes by in every second; and the wait of a sleeping
pass for the contacts ends, because its grace period does. The RTC is not assumed to run:
`ClockRuns` is a premise. Each liveness property names its premises (`Intact`: faults
stop, `LeftAlone`: commands, presses and resets stop, `EvSteady`: the vehicle stops changing).

### Where the code departs from what is said of it

| Run | What happens |
|---|---|
| `trip_reclosed` | RELAY_PWM: a trip during the close pulse is undone by the hold duty |
| `heartbeat_early` | 2411: the deadline is a product of 16 bits, so a pulse that may take 100 s is missed after 34.464 s, against rapi_proc.h:234 |
| `timer_over_limit` | `CheckTime()` takes the override that a limit set for that of a short press and clears it; at the end of the interval the session ends with the limit not met, against CHANGELOG:343 |

`findings` in PROJECT.json quotes both sides. Further deviations that the models reach,
with what to put into a cfg to see them (they have no run of their own):

| Property | cfg and change | Cause |
|---|---|---|
| `TripNotForgotten` | `gfi` as it is | `Gfi::SelfTest` (Gfi.cpp:107) erases a trip that came between `Update()`'s look at the latch and the test; the refinement says what remains true: it is erased only over open contacts |
| `TripNotMasked` | `gfi`, `Toggles = {"gfitest"}` | `SelfTest()` returns early and leaves `testInProgress` set |
| `FaultIsOpen` | `gfi`, `Toggles = {"vent"}` | switching the vent check off in state D makes it C under closed contacts; the self test then runs under load and its hard fault leaves them closed |
| `FaultIsOpen`, `NoRecloseAfterTrip`, `TripNotMasked`, `SafelyCharges` | `gfi`, `Temps = {0, 2}` | `$FS`, then `$FE` within the grace period, leave the unknown state over closed contacts (710); the end of a throttling (2131) turns PWM on in it, C is entered over closed contacts, and the self test runs under load |
| `WorkingRelayNotStuck` | `recovery`, `Toggles = {"stuck"}` | a stuck check switched off just after a trip keeps the debounce stamp it started; switched on again while charging, the next trip condemns a relay that works |
| `SleepOpens` | `recovery`, `Faults = {}`, `EvLevels = {"none", "charge", "short"}` | `Enable()` (710) in the grace period: the contacts stay closed while the pilot reads an unknown level |
| `N12MeansDisabled` | `supply`, `Faults = {"pp"}` | the end of `DoPPError()` (544) makes a charger unknown that was disabled during it and leaves its pilot at -12 V |
| `ClosedMeansOffered` | `supply`, `Faults = {"gnd"}`, `Temps = {0, 2}` | the throttle and its end (2131) call `SetCurrentCapacity()`, which turns the PWM on in any state |
| `HsLimitKept` | `capacity` as it is | 2168: the throttle sets half the maximum, which may be above an unacknowledged heartbeat limit |
| `CoolMeansFull` | `capacity` as it is | 2120: leaving throttle and shutdown takes two passes, the second halves the current |
| `ThrottleLowers` | `capacity`, `Requests = {10, 40}` | after `$SC 10 V` the throttle sets half the maximum, 20 A |
| `ClientKnowsVehicle` | `rapi` as it is | a vehicle unplugged in the grace period of a sleep is never reported (1486-1513 against 1528-1536) |
| `MeterKeepsUp` | `session`, `Faults = {"oc"}`, `Checks0 = {"oc", "vent"}` | the wait under an over-current is not metered |
| `MeterKeepsUp` | `session`, `Temps = {0, 4}`, `Checks0 = {"temp", "vent"}` | nor are the 5 s under a panic |
| `MeterKeepsUp`, `BookedOnce` | `session`, `Faults = {"gfi"}` | a trip opens the pins and leaves `ECVF_CHARGING_ON` set; until a pass has noticed it, `EnergyMeter::Update()` takes the contacts for closed (what it then adds is the current it measures) |
| `ChargeTimeHonest`, `MeterKeepsUp` | `session`, `SlowHands = FALSE` | the plug pulled and put back under closed contacts |

The passing runs leave out these combinations, and each cfg says by its constants what
it includes.

Read in the code while modelling, without a property: `$FF E 0` compares the digit 0 with
the character '0' and switches the echo on (rapi_proc.cpp 327); frames without a checksum
are accepted, so a lost `^` lets a damaged frame through (rapi_proc.h:36 says of
this "FOR TESTING ONLY"); `$` CR tokenises what the previous frame left in the buffer, so
its `$NK` can carry an old sequence id; a vehicle unplugged and replugged while the
station is disabled continues one energy session (EnergyMeter.cpp 35); alternating `$FS`
and `$FE` restart the grace period of the sleep; `$S5 0` and `$S5 1` are obeyed in
automatic mode although rapi_proc.h 182-183 says manual only (the next pass corrects it);
a manually locked connector, `$FD` and `$S5 A` leave it locked while disabled; limits
outlive a vehicle unplugged while sleeping or disabled; `m_skipLimits` of the settings menu
may be stale (main.cpp 1083); unplugging in the grace period does not clear the override;
the sleep after a limit keeps its flag through `$FD` and a later `$FS`; the test of
the timer at the end of `Init()` (1384) runs before `g_DelayTimer.Init()`; leaving a menu enables the
station, also one that `$FD` disabled; and the timer wakes it under an open menu.

## 5. Proofs

All for every value of the constants that satisfies the named assumptions of the modules
(`FeatureAssumption`, `DelayAssumption`, `CableAssumption`, `SessionAssumption`,
`LocalAssumption`, `RapiAssumption`: sets of the right kind, natural numbers in the order
the header files give them).

**EvseController_proof.** `TypeCorrect`: `Spec => []TypeOK`. Induction over one case per
action; the lemmas say that stamps, counters and the pass record keep their types.

**EvseSafety_proof.** `TripNeverReclosed` and `FaultsOpen` follow from the inductive
invariant `Guarded = ConfigKept /\ PassState /\ ClosedWhere /\ OwedWhere /\ WokenWhere`.
`FaultIsOpen` alone is not inductive: a state is declared some steps before the contacts
open, so `PassState` says how state, previous state and `nofault` hang together within a
pass, `ClosedWhere` at which steps contacts may be closed and under which state and pilot,
and `OwedWhere` that an unanswered trip is still latched and that no step between the latch
and the contacts is about to close them.

These theorems assume the station `Sheltered`: the vent check is never switched off
(section 4 shows why), and the monitor never throttles (`Unthrottled`: the sensors stay
below the throttle point or the check is off for good) or the client has no use for both
`$FS` and `$FE` (`Unwoken`). The second half is what the thermal steps need, which turn PWM
on in any state: harmless over open contacts and in state C, and the only other state with
closed contacts between two passes is a sleep in its grace period, which `$FE` makes the
unknown state that C may be entered from. `WokenWhere` says that without one of the two
commands no pass meets it, so that throttling, shutdown and panic are covered with all other
commands and faults. With both, and hot, TLC finds the properties violated (section 4).
TLC also checked `Guarded` and the properties of `gfi` on that run at `Temps = {0, 3, 4}`
without `$FS` and at `{0, 2, 4}` without `$FE`. `TripNeverReclosed` also needs `~RelayPwm`,
because of `trip_reclosed`. `NeverMasked`: `MaskWhere` on top of `Guarded`, with the self
test left enabled (section 4 says why).

**EvseService_proof.** Two more invariants on top of `Guarded`. `Kept` (`PromptWhere`,
`SleepWhere`) follows a latched trip through the rest of a pass and ties the flag that lets a
sleep open the contacts to the contacts: `OpensPromptly`, `SleepEnds`. `Offered` (`N12Where`,
`OfferWhere`) says where each pilot level may be met; `N12IsDisabled` needs a proximity pin
that is not shorted at start-up, `ClosedIsOffered` also that no trip occurs, since the
interrupt changes the pilot in any state. `StuckWhere` shows why a trip does not condemn a
relay that works: the debounce of a stuck relay starts only from a reading that a trip has
overtaken; then the latch or the fault it became keeps the pass from closing the contacts,
so the next pass reads them open and ends it (`WorkingRelayKept`). It needs the check not
to be switched meanwhile; section 4 shows why.

`FaultsOfferNothing`, `StuckIsDebounced` and `OnlyClientEnables` have no hypothesis: trips,
throttling, proximity errors and switched checks are all in. They rest on `SteadyWhere`, which
needs no `Guarded` either: a stamp ahead of the pass belongs to a trip it has yet to look at,
a pass looks at the supply in the state it started from, and the disabled state
is met only where commands are polled, never inside a pass. What the code does allow is in the
properties, as steps that are named.

**EvseRefinement_proof.** `ImplementsSafeCharging`: every step of the controller is a step
of `SafeCharging` or leaves its variables alone, action by action, under `Guarded` before
and after. Most actions are a `Retire`; the interrupt is `Trip`, the transition to C is `Begin`, `chargingOn()` is
`Close`, and what clears the latch is `Answer`, where `Guarded` supplies the open
contacts. `KeepsPromise` draws the abstract invariant back to the controller.

**ChargingSession_proof.** `SessionsLeaveController` is `SessionSpec => Spec`, so each
theorem about the controller holds of the composition; `ConnectorFollowsVehicle` uses that
for `Offered` (a disabled pilot never reaches the inside of a pass) and an induction
over what reads the pilot and what moves the lock.

Charge time and energy rest on one more invariant of the controller, `Served`: closed
contacts and state C belong to a vehicle that a pass has noticed (`VehicleWhere`), contacts
that are open in state C were opened by a trip that a pass will still look at (`TripWhere`),
two waits keep contacts closed and neither is in state C (`WaitWhere`), and state C is not
what a pass wants for a vehicle that has left, nor is a newcomer met by PWM and a level that
already asked for current, although a throttling may turn PWM on for nobody (`ReadyWhere`).
TLC checked `Served` and the invariants below on variants of `session` with sensors at
shutdown and panic and with ground, over-current, proximity, trip and diode faults. On top
of it:

- `SessionTypeCorrect` (which needs no `Served`): the total stays within its width by the
  arithmetic of `%` and `\div`, which the module states as lemmas.
- `ChargeTimeCorrect`: `TimeWhere` relates the sum of the earlier closings, the closing under
  way and the ghosts, with a tick less per closing, and says that a new session starts from
  nothing.
- `NothingBookedTwice`: `MeterTurn` puts the meter's view of the vehicle in step with the
  passes, `MeterFresh` says that whoever closes the contacts (which takes PWM in another
  state than C first) meets a meter that saw them open, and `BookWhere` that what the next update will add has been counted. `Wrapped` is
  the lemma that a total modulo its width grows by at most what was added.
- `EnergyMetered`: `MeterSees` (a closing is seen before the clock goes on), `Newcomer` (a
  vehicle the meter does not know yet is not served) and `MeterCount`, with `Late` for the tick
  between the two.

The last three assume `Sheltered`, on which `Guarded` rests; the two that count the
vehicle's time assume `SlowHands`, the two about energy that there are no trips, and
`EnergyMetered` neither over-current nor panic (`Unpanicked`). Without one of the hypotheses
after the first TLC finds the properties violated (section 4). The seconds of a `Reboot()` are counted by nobody, which the two
properties of time and energy except.

**Ampacity_proof.** The invariant `Inv = TypeOK /\ CapacityBounds /\ OfferIsCapacity` is
inductive. `SetCurrentCapacityRange` says once what that procedure leaves behind
(whatever it is asked for), and each action is reduced to it (`SetKeepsRated`) or to a step
that leaves the capacity alone (`StayKeepsRated`). `ThrottleIsHeld` needs in addition that
no setting goes above what was asked for (`SetAtMost`); `CableIsRespected` that none goes
above what the cable carries unless it saves what it sets (`SetRespects`).

**LocalControl_proof.** `LocalTypes`; `LimitEndsSession` from `Rests` (after a limit
stopped it the station rests, sleeping or in a fault or disabled, or it was woken by
something that counts as new); `PressedOnce` from `Held` (how the button's state, its time
stamps and the ghost of an effect hang together during one hold); `AwakeInterval` by
arithmetic modulo the length of the day.

**RapiProtocol_proof.** `AnswerIsTheFrames` from `LineInv`: every symbol on the line and in
the buffer belongs to a frame that was sent, a checksum is on at most one of the two, and
what follows it on the line is later. `VerifiedNames` is the step from there to a verified
answer. `IntactFrameHeard` adds `InTransit`: as long as nothing of the last frame was damaged,
what has arrived of it is the buffer, and the rest of it is the line. No premise about
earlier frames is needed, because a `$` restarts the buffer whatever is in it; `FrameShape`
says what a frame is symbol by symbol, so that its end finds all of it in the buffer, which
holds any frame (`RapiAssumption`). `ClientIsTold`: every path that can leave the station in a confirmed state notifies, or
did not change it.

**Only model-checked.** The liveness properties, which are out of the prover's reach:
`UnpluggingRecovers`, `ChargingResumes`, `TripOpens`, `SleepOpens`, `HeartbeatLimitReturns`,
`OverrideIsTemporary`, `LimitSleepEnds`. Every invariant, every action property and the
refinement that a passing run checks is stated by a theorem, too.

## 6. Plan

1. (done) `EvseController`: runs, type correctness, the contacts, the services.
2. (done) `Ampacity`: capacity, heartbeat, throttling, proximity limit and pilot current.
3. (done) `SafeCharging` and the refinement, checked and proved.
4. (done) `RapiProtocol`, `ChargingSession`, `LocalControl` and their safety theorems.
5. (done) The session's types, clock and energy and `HeardAfterNoise`, for every value of the
   constants.
6. (done) The theorems about contacts and sessions with throttling, shutdown and panic.
7. Left: the service-level detection of AUTOSVCLEVEL
   boards; the zero-crossing wait of `chargingOff()`; the boot lock against the front panel;
   AUTH_LOCK.

## 7. Not modelled

Display (presentation), ammeter and voltmeter arithmetic (its outcome is an input of the
models), drivers for sensors, buses, LCD and clock, the items of the setup menu, the
station as a sender of commands (RAPI_SENDER), RAPI over I2C, AUTH_LOCK and FT_* (no
environment compiles them), and the vendored bootloader `uf2-samdx1`, whose headers make
up most of the lines of the repository.
