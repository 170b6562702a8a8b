--------------------------- MODULE EvseController ---------------------------
(***************************************************************************)
(* The charge controller of OpenEVSE: J1772EVSEController with the two      *)
(* objects it owns, J1772Pilot and Gfi, driven by loop() in main.cpp.       *)
(*                                                                          *)
(* Three actors share the state:                                            *)
(*   - the main loop: Update(), one pass after the other.  A pass is cut    *)
(*     into the steps between which an interrupt can be told apart; the     *)
(*     program counter pc names the next one.                               *)
(*   - the GFCI interrupt SetGfiTripped(), which may fire between any two   *)
(*     steps.                                                               *)
(*   - the RAPI commands, which ProcessInputs() runs between two passes and *)
(*     inside the loops that poll it (HardFault(), DoPPError(), boot).      *)
(* The vehicle, the sensors and the clock are the environment.              *)
(***************************************************************************)
EXTENDS Integers, FiniteSets

CONSTANTS
    HasCGMI,        \* continuous ground monitor: always on SAMD, detected on m328p
    RelayPwm,       \* RELAY_PWM on a V6 board: the pins are written twice, see HoldContacts
    BootLock,       \* ECF_BOOT_LOCK_DISABLED is clear
    Checks0,        \* the self checks enabled in EEPROM at first boot
    Toggles,        \* the checks the client switches with $FF
    Faults,         \* what can go wrong: gfi gnd relay oc diode pp
    EvLevels,       \* the pilot levels the vehicle can ask for
    Temps,          \* the temperature bands the sensors can report
    Commands,       \* the RAPI commands in use, and "reset" for a loss of power
    DebounceA,      \* DELAY_STATE_TRANSITION_A    25 ms
    Debounce,       \* DELAY_STATE_TRANSITION     250 ms
    RelayDelay,     \* GROUND_CHK_DELAY, STUCK_RELAY_DELAY: 1 s
    NoGndRecord,    \* NO_GND_RECORD_DELAY: 0, more in some builds
    ULWindow,       \* a fault so soon is a hard fault: 2 s
    SleepGrace,     \* how long Sleep() leaves the EV to open its contactor: 3 s
    OcTimeout,      \* OVERCURRENT_TIMEOUT         10 s
    GfiTimeout,     \* GFI_TIMEOUT                5 min
    RetryCount,     \* GFI_RETRY_COUNT                6
    TripCap         \* the trip counters stop here (253)

CheckNames == {"diode", "vent", "gnd", "stuck", "gfitest", "temp", "oc"}
FaultNames == {"gfi", "gnd", "relay", "oc", "diode", "pp"}
CommandNames == {"FE", "FD", "FS", "FC", "FR", "reset"}

\* Nominal is at most TEMPERATURE_AMBIENT_RESTORE_AMPERAGE, Warm at most
\* THROTTLE_DOWN, Hot reaches THROTTLE_DOWN, Hotter SHUTDOWN and Panic PANIC.
Nominal == 0
Warm == 1
Hot == 2
Hotter == 3
Panic == 4

ASSUME FeatureAssumption ==
    /\ HasCGMI \in BOOLEAN /\ RelayPwm \in BOOLEAN /\ BootLock \in BOOLEAN
    /\ Checks0 \subseteq CheckNames /\ Toggles \subseteq CheckNames
    /\ Faults \subseteq FaultNames /\ Commands \subseteq CommandNames
    /\ EvLevels \subseteq {"none", "ready", "charge", "vent", "short"}
    /\ "none" \in EvLevels
    /\ Temps \subseteq Nominal .. Panic /\ Nominal \in Temps

\* Only the order of the delays matters.
ASSUME DelayAssumption ==
    /\ {DebounceA, Debounce, RelayDelay, NoGndRecord, ULWindow, SleepGrace,
        OcTimeout, GfiTimeout, RetryCount, TripCap} \subseteq Nat
    /\ DebounceA <= Debounce /\ Debounce <= RelayDelay /\ RelayDelay < ULWindow
    /\ ULWindow <= SleepGrace /\ SleepGrace <= OcTimeout /\ OcTimeout <= GfiTimeout
    /\ NoGndRecord <= GfiTimeout

VARIABLES
    \* RAM of the controller, the pilot and the GFCI
    state,          \* m_EvseState
    pilot,          \* m_Pilot.m_State
    relay,          \* the charging pins: contacts closed
    chargingOn,     \* ECVF_CHARGING_ON, what chargingIsOn() reports
    conn,           \* ECVF_EV_CONNECTED
    tmp,            \* m_TmpEvseState
    thermal,        \* g_TempMonitor's two flags, a subset of {"throttle", "shutdown"}
    gfiFault,       \* m_Gfi.m_GfiFault
    testing,        \* m_Gfi.testInProgress
    retry,          \* m_GfiRetryCnt and m_NoGndRetryCnt
    age,            \* now minus each time stamp, saturating at Cap; see Timers
    \* EEPROM
    checks,         \* m_wFlags: the enabled checks
    trips,          \* m_GfiTripCnt, m_NoGndTripCnt, m_StuckRelayTripCnt
    \* the control flow of the main program
    pc,             \* the next step
    pass,           \* the locals of Update() that live across steps
    kont,           \* where HardFault() returns to; "never" when not recoverable
    ran,            \* a pass has begun since the clock last advanced
    \* environment
    ev,             \* the level the vehicle puts on the pilot
    temp,           \* the hottest sensor
    \* history
    owed            \* a trip opened the closed contacts and is still unanswered

ctl == <<state, pilot, conn, tmp, thermal, retry, age>>
contacts == <<relay, chargingOn>>
gfi == <<gfiFault, testing>>
eeprom == <<checks, trips>>
flow == <<pc, pass, kont>>
env == <<ev, temp>>
vars == <<state, pilot, relay, chargingOn, conn, tmp, thermal, gfiFault, testing,
          retry, age, checks, trips, pc, pass, kont, ran, ev, temp, owed>>

FaultStates == {"D", "DIODE_CHK_FAILED", "GFCI_FAULT", "NO_GROUND", "STUCK_RELAY",
                "GFI_TEST_FAILED", "OVER_TEMPERATURE", "OVER_CURRENT",
                "RELAY_CLOSURE_FAULT", "PP_SHORTED", "PP_MISSING"}
States == FaultStates \union {"UNKNOWN", "A", "B", "C", "SLEEPING", "DISABLED"}

\* ProcessInputs() runs here.
Polling == {"idle", "hf", "bootlock", "postfault", "pperror"}
\* The program stays here for longer than a tick of the clock.
Blocking == {"hf", "bootlock", "postfault", "pperror", "selftest", "testrun",
             "cool", "ocwait", "reboot"}
Steps == Polling \union Blocking
           \union {"boot", "supply", "gfi", "pilot", "act", "close", "holding",
                   "closed", "tail", "finish"}

Timers == {"on",     \* m_ChargeOnTimeMS
           "off",    \* m_ChargeOffTimeMS
           "stuck",  \* m_StuckRelayStartTimeMS
           "gfi",    \* m_GfiFaultStartMs
           "gnd",    \* m_NoGndStart
           "oc",     \* m_OverCurrentStartMs
           "tmp"}    \* m_TmpEvseStateStart
Cap == [on |-> ULWindow + 1, off |-> SleepGrace + 1, stuck |-> RelayDelay + 1,
        gfi |-> GfiTimeout, gnd |-> GfiTimeout + 1, oc |-> OcTimeout, tmp |-> Debounce]

\* A time stamp of 0 means "not set"; the age of a stamp an interrupt wrote after
\* the pass sampled curms is negative, which the unsigned subtraction makes huge.
NotSet == -1
Ahead == -2
Ages == {a \in [Timers -> Int] : \A t \in Timers : a[t] \in Ahead .. Cap[t]}

Retries == [{"gfi", "gnd"} -> 0 .. RetryCount + 1]
TripCounts == [{"gfi", "gnd", "stuck"} -> 0 .. TripCap]
Passes == [prev : States, level : {"none", "ready", "charge", "vent", "short"},
           live : BOOLEAN, nofault : BOOLEAN, ul : BOOLEAN]

NoPass == [prev |-> "UNKNOWN", level |-> "none", live |-> FALSE, nofault |-> TRUE,
           ul |-> FALSE]

-----------------------------------------------------------------------------
(* Helpers.                                                                 *)

AcCheck(c) == c \in checks
\* Faulty variant: the boundary belongs to the delay.
ElapsedEarly(t, delay) == age[t] = Ahead \/ age[t] >= delay

Elapsed(t, delay) == age[t] = Ahead \/ age[t] > delay

\* Faulty variant: the flag is cleared and the pins are forgotten.
OpenContactsFlagOnly == relay' = relay /\ chargingOn' = FALSE

\* chargingOff(): the charging pins and ECVF_CHARGING_ON.
OpenContacts == relay' = FALSE /\ chargingOn' = FALSE
Opened == [age EXCEPT !["off"] = 0]

\* Faulty variant: the counter runs past its cap.
CountedUncapped(t) == [trips EXCEPT ![t] = @ + 1]

Counted(t) == [trips EXCEPT ![t] = IF @ < TripCap THEN @ + 1 ELSE @]

\* What the ADC sees on the pilot: nothing above -12 V while the pilot is N12.
PilotLevel == IF pilot = "N12" THEN "short" ELSE ev

\* The connect flag after ReadPilot(), which leaves it alone while the pilot is N12.
ReadPilot == IF pilot = "N12" THEN conn ELSE ev # "none"

\* Faulty variant: every hard fault is treated as one that cannot be recovered from.
HardFaultForGood(k) == pc' = "hf" /\ kont' = "never"

\* HardFault(): spin until the vehicle is unplugged, then go on at k.
HardFault(k) == pc' = "hf" /\ kont' = k

EndPass == pc' = "idle" /\ pass' = NoPass

-----------------------------------------------------------------------------
(* Power-on, setup() and the power-on self test.                            *)

Init ==
    /\ state = "UNKNOWN" /\ pilot = "P12" /\ conn = FALSE /\ tmp = "UNKNOWN"
    /\ relay = FALSE /\ chargingOn = FALSE
    /\ thermal = {} /\ gfiFault = FALSE /\ testing = FALSE
    /\ retry = [gfi |-> 0, gnd |-> 0]
    /\ age = [on |-> 0, off |-> 0, stuck |-> NotSet, gfi |-> 0, gnd |-> NotSet,
              oc |-> NotSet, tmp |-> 0]
    /\ checks = Checks0
    /\ trips = [gfi |-> 0, gnd |-> 0, stuck |-> 0]
    /\ pc = "boot" /\ pass = NoPass /\ kont = "idle" /\ ran = FALSE
    /\ ev \in EvLevels /\ temp = Nominal
    /\ owed = FALSE

\* Loss of power, or the watchdog that Reboot() lets expire: RAM starts anew and
\* the pins fall back to inputs; EEPROM stays.
PowerUp ==
    /\ state' = "UNKNOWN" /\ pilot' = "P12" /\ conn' = FALSE /\ tmp' = "UNKNOWN"
    /\ OpenContacts
    /\ thermal' = {} /\ gfiFault' = FALSE /\ testing' = FALSE
    /\ retry' = [gfi |-> 0, gnd |-> 0]
    /\ age' = [on |-> 0, off |-> 0, stuck |-> NotSet, gfi |-> 0, gnd |-> NotSet,
               oc |-> NotSet, tmp |-> 0]
    /\ pc' = "boot" /\ pass' = NoPass /\ kont' = "idle" /\ ran' = FALSE
    /\ owed' = FALSE
    /\ UNCHANGED <<eeprom, env>>

Reset ==
    /\ "reset" \in Commands \/ pc = "reboot"
    /\ pc # "boot"
    /\ PowerUp

\* doPost() found a fault: spin until power is cycled.
PostFails ==
    /\ pc = "boot"
    /\ \/ /\ "stuck" \in checks /\ "relay" \in Faults
          /\ state' = "STUCK_RELAY" /\ UNCHANGED testing
       \/ /\ "gfitest" \in checks /\ "gfi" \in Faults
          /\ state' = "GFI_TEST_FAILED" /\ testing' \in BOOLEAN
    /\ pc' = "postfault"
    /\ UNCHANGED <<pilot, conn, tmp, thermal, retry, age, contacts, gfiFault, eeprom,
                   pass, kont, ran, env, owed>>

\* The POST passed: on through EvseReset(), which stops at a shorted proximity
\* pin, to the boot lock and loop().
PostPasses ==
    /\ pc = "boot"
    /\ gfiFault' \in IF "gfitest" \in checks \/ "gfi" \notin Faults THEN {FALSE} ELSE BOOLEAN
    /\ \/ pc' = (IF BootLock THEN "bootlock" ELSE "idle") /\ UNCHANGED state
       \/ "pp" \in Faults /\ pc' = "pperror" /\ state' = "PP_SHORTED"
    /\ UNCHANGED <<pilot, conn, tmp, thermal, retry, age, contacts, testing, eeprom,
                   pass, kont, ran, env, owed>>

\* DoPPError(): the short is gone.  The pilot is left as the commands set it.
PpErrorEnds ==
    /\ pc = "pperror"
    /\ state' = "UNKNOWN"
    /\ pc' = IF BootLock THEN "bootlock" ELSE "idle"
    /\ UNCHANGED <<pilot, conn, tmp, thermal, retry, age, contacts, gfi, eeprom,
                   pass, kont, ran, env, owed>>

\* $SB from the WiFi module.
ClearBootLock ==
    /\ pc = "bootlock" /\ state \notin FaultStates
    /\ pc' = "idle"
    /\ UNCHANGED <<ctl, contacts, gfi, eeprom, pass, kont, ran, env, owed>>

-----------------------------------------------------------------------------
(* Update(): one pass.                                                      *)

\* Disabled: the pass does nothing.
PassDisabled ==
    /\ pc = "idle" /\ state = "DISABLED"
    /\ ran' = TRUE
    /\ UNCHANGED <<ctl, contacts, gfi, eeprom, flow, env, owed>>

\* Faulty variant: no grace period, a vehicle that keeps drawing keeps the contacts.
PassSleepingPatient ==
    /\ pc = "idle" /\ state = "SLEEPING"
    /\ ran' = TRUE /\ conn' = ReadPilot
    /\ \E drawing \in BOOLEAN :
         IF chargingOn /\ (~drawing \/ PilotLevel \in {"none", "ready"})
         THEN OpenContacts /\ age' = Opened
         ELSE UNCHANGED <<contacts, age>>
    /\ UNCHANGED <<state, pilot, tmp, thermal, retry, gfi, eeprom, flow, env, owed>>

\* Sleeping: open the contacts once the vehicle let go, draws no current, or had
\* its grace period.
PassSleeping ==
    /\ pc = "idle" /\ state = "SLEEPING"
    /\ ran' = TRUE /\ conn' = ReadPilot
    /\ \E drawing \in BOOLEAN :
         IF chargingOn /\ (~drawing \/ PilotLevel \in {"none", "ready"}
                             \/ age["off"] >= SleepGrace)
         THEN OpenContacts /\ age' = Opened
         ELSE UNCHANGED <<contacts, age>>
    /\ UNCHANGED <<state, pilot, tmp, thermal, retry, gfi, eeprom, flow, env, owed>>

PassBegins ==
    /\ pc = "idle" /\ state \notin {"DISABLED", "SLEEPING"}
    /\ ran' = TRUE /\ conn' = ReadPilot
    /\ pc' = "supply"
    /\ pass' = [NoPass EXCEPT !.prev = state, !.level = PilotLevel, !.live = relay]
    /\ UNCHANGED <<state, pilot, tmp, thermal, retry, age, contacts, gfi, eeprom,
                   kont, env, owed>>

\* The readings of the AC pins: no voltage behind the relay (lineOpen).  They are read
\* before the flag ECVF_CHARGING_ON is, so a trip in between opens contacts that were
\* read closed.  A broken relay makes the reading differ from the position of the
\* contacts; without CGMI so does an open ground.
LineReadings ==
    {~relay, ~pass.live} \union (IF "relay" \in Faults THEN BOOLEAN ELSE {})
             \union (IF "gnd" \in Faults /\ ~HasCGMI THEN {TRUE} ELSE {})

Supplied == pc = "supply"
SupplyDone == pc' = "gfi" /\ UNCHANGED <<pilot, conn, tmp, thermal, gfi, checks, kont,
                                         ran, env, owed>>
Faulted == pass' = [pass EXCEPT !.nofault = FALSE]
\* A stamp ahead of curms is an ordinary one in the next pass.
Settled(a) == [a EXCEPT !["off"] = IF @ = Ahead THEN 0 ELSE @]

RelayDidNotClose(lineOpen) ==
    HasCGMI /\ AcCheck("stuck") /\ Elapsed("on", RelayDelay) /\ lineOpen
GroundNotSeen(lineOpen) ==
    ~HasCGMI /\ AcCheck("gnd") /\ Elapsed("on", RelayDelay) /\ lineOpen
AwaitsGround == ~HasCGMI /\ pass.prev = "NO_GROUND"

\* CGMI: the ground monitor reports an open ground, whatever the relay does.
CgmiGroundFault ==
    /\ Supplied /\ HasCGMI /\ AcCheck("gnd") /\ "gnd" \in Faults
    /\ state' = "NO_GROUND" /\ Faulted /\ OpenContacts
    /\ IF pass.prev # "NO_GROUND"
       THEN age' = [Opened EXCEPT !["gnd"] = 0] /\ UNCHANGED trips
       ELSE IF age["gnd"] >= NoGndRecord /\ trips["gnd"] < TripCap
       THEN age' = [Opened EXCEPT !["gnd"] = NotSet] /\ trips' = Counted("gnd")
       ELSE age' = Opened /\ UNCHANGED trips
    /\ SupplyDone /\ UNCHANGED retry

\* CGMI: the relay was told to close and no voltage appeared behind it.
RelayClosureFault ==
    /\ Supplied /\ chargingOn /\ TRUE \in LineReadings /\ RelayDidNotClose(TRUE)
    /\ state' = "RELAY_CLOSURE_FAULT" /\ Faulted /\ OpenContacts /\ age' = Opened
    /\ SupplyDone /\ UNCHANGED <<retry, trips>>

\* No CGMI: the ground can be checked only through the closed relay.
GroundFaultUnderLoad ==
    /\ Supplied /\ chargingOn /\ TRUE \in LineReadings /\ GroundNotSeen(TRUE)
    /\ state' = "NO_GROUND" /\ Faulted /\ OpenContacts
    /\ age' = [Opened EXCEPT !["gnd"] = 0]
    /\ trips' = IF pass.prev # "NO_GROUND" THEN Counted("gnd") ELSE trips
    /\ SupplyDone /\ UNCHANGED retry

\* No CGMI: waiting out a ground fault; unplugging ends it at once.
GroundFaultUnplugged ==
    /\ Supplied /\ ~chargingOn /\ AwaitsGround /\ ~conn
    /\ state' = "UNKNOWN" /\ EndPass /\ age' = Settled(age)
    /\ UNCHANGED <<pilot, conn, tmp, thermal, retry, contacts, gfi, eeprom, kont, ran,
                   env, owed>>

\* ... the time-out allows a retry: with a stamp of 0 it is measured from boot.
GroundFaultRetry ==
    /\ Supplied /\ ~chargingOn /\ AwaitsGround /\ conn
    /\ retry["gnd"] < RetryCount /\ (age["gnd"] = NotSet \/ age["gnd"] > GfiTimeout)
    /\ retry' = [retry EXCEPT !["gnd"] = @ + 1] /\ age' = Settled(age)
    /\ SupplyDone /\ UNCHANGED <<state, contacts, trips, pass>>

\* Faulty variant: every pass stamps the fault anew.
GroundFaultRestamped ==
    /\ Supplied /\ ~chargingOn /\ AwaitsGround /\ conn
    /\ ~(retry["gnd"] < RetryCount /\ age["gnd"] > GfiTimeout)
    /\ state' = "NO_GROUND" /\ Faulted /\ age' = [Settled(age) EXCEPT !["gnd"] = 0]
    /\ SupplyDone /\ UNCHANGED <<contacts, retry, trips>>

\* ... or the fault stays.
GroundFaultStays ==
    /\ Supplied /\ ~chargingOn /\ AwaitsGround /\ conn
    /\ ~(retry["gnd"] < RetryCount /\ age["gnd"] > GfiTimeout)
    /\ state' = "NO_GROUND" /\ Faulted /\ age' = Settled(age)
    /\ SupplyDone /\ UNCHANGED <<contacts, retry, trips>>

\* Faulty variant: the voltage need not have lasted.
StuckReadingOnce ==
    /\ Supplied /\ ~chargingOn /\ ~AwaitsGround /\ AcCheck("stuck")
    /\ FALSE \in LineReadings
    /\ age' = Settled(age)
    /\ IF pass.prev = "STUCK_RELAY" \/ Elapsed("off", RelayDelay)
       THEN /\ state' = "STUCK_RELAY" /\ Faulted
            /\ trips' = IF pass.prev # "STUCK_RELAY" THEN Counted("stuck") ELSE trips
       ELSE UNCHANGED <<state, trips, pass>>
    /\ SupplyDone /\ UNCHANGED <<contacts, retry>>

\* Voltage behind the open relay: a stuck relay once both debounces are over.
StuckReading ==
    /\ Supplied /\ ~chargingOn /\ ~AwaitsGround /\ AcCheck("stuck")
    /\ FALSE \in LineReadings
    /\ LET start == IF pass.prev # "STUCK_RELAY" /\ age["stuck"] = NotSet
                    THEN [age EXCEPT !["stuck"] = 0] ELSE age
           stuck == \/ pass.prev = "STUCK_RELAY"
                    \/ Elapsed("off", RelayDelay) /\ start["stuck"] > RelayDelay
       IN  /\ age' = Settled(start)
           /\ IF stuck
              THEN /\ state' = "STUCK_RELAY" /\ Faulted
                   /\ trips' = IF pass.prev # "STUCK_RELAY" THEN Counted("stuck") ELSE trips
              ELSE UNCHANGED <<state, trips, pass>>
    /\ SupplyDone /\ UNCHANGED <<contacts, retry>>

\* Nothing found.
SupplyGood ==
    /\ Supplied
    /\ \E lineOpen \in LineReadings :
         \/ /\ chargingOn /\ ~RelayDidNotClose(lineOpen) /\ ~GroundNotSeen(lineOpen)
            /\ age' = Settled(age)
         \/ /\ ~chargingOn /\ ~AwaitsGround /\ ~AcCheck("stuck")
            /\ age' = Settled(age)
         \/ /\ ~chargingOn /\ ~AwaitsGround /\ AcCheck("stuck") /\ lineOpen
            /\ age' = [Settled(age) EXCEPT !["stuck"] = NotSet]
    /\ SupplyDone /\ UNCHANGED <<state, contacts, retry, trips, pass>>

-----------------------------------------------------------------------------
(* Update(): the GFCI fault latched by the interrupt.                       *)

TripChecked == pc = "gfi" /\ gfiFault
TripHandled == pc' = "pilot" /\ UNCHANGED <<conn, tmp, thermal, pilot, contacts, checks,
                                           kont, ran, env>>

\* Gfi::Reset(): the latch follows the pin, which is high only in a lasting fault.
GfiReset == gfiFault' \in BOOLEAN /\ testing' = FALSE

NoTrip ==
    /\ pc = "gfi" /\ ~gfiFault
    /\ TripHandled /\ UNCHANGED <<state, retry, age, trips, pass, gfi, owed>>

\* Faulty variant: the pass goes on as if nothing was found.
TripNoticedOnly ==
    /\ TripChecked /\ pass.prev # "GFCI_FAULT"
    /\ state' = "GFCI_FAULT"
    /\ trips' = Counted("gfi") /\ age' = [age EXCEPT !["gfi"] = 0]
    /\ TripHandled /\ UNCHANGED <<retry, gfi, owed, pass>>

\* Faulty variant: noticing the trip resets the latch, too.
TripNoticedReset ==
    /\ TripChecked /\ pass.prev # "GFCI_FAULT"
    /\ state' = "GFCI_FAULT" /\ Faulted /\ gfiFault' = FALSE
    /\ trips' = Counted("gfi") /\ age' = [age EXCEPT !["gfi"] = 0]
    /\ TripHandled /\ UNCHANGED <<retry, testing, owed>>

TripNoticed ==
    /\ TripChecked /\ pass.prev # "GFCI_FAULT"
    /\ state' = "GFCI_FAULT" /\ Faulted
    /\ trips' = Counted("gfi") /\ age' = [age EXCEPT !["gfi"] = 0]
    /\ TripHandled /\ UNCHANGED <<retry, gfi, owed>>

TripUnplugged ==
    /\ TripChecked /\ pass.prev = "GFCI_FAULT" /\ ~conn
    /\ state' = "UNKNOWN" /\ GfiReset /\ EndPass /\ owed' = FALSE
    /\ UNCHANGED <<pilot, conn, tmp, thermal, retry, age, contacts, eeprom, kont, ran, env>>

TripStays ==
    /\ TripChecked /\ pass.prev = "GFCI_FAULT" /\ conn /\ age["gfi"] < GfiTimeout
    /\ state' = "GFCI_FAULT" /\ Faulted
    /\ TripHandled /\ UNCHANGED <<retry, age, trips, gfi, owed>>

\* The stamp is set to 0, which makes the next attempt due at once.  The counter
\* is never reset: it stands at RetryCount + 1 once the retries are used up.
TripRetried ==
    /\ TripChecked /\ pass.prev = "GFCI_FAULT" /\ conn /\ age["gfi"] >= GfiTimeout
    /\ retry["gfi"] < RetryCount
    /\ retry' = [retry EXCEPT !["gfi"] = @ + 1]
    /\ state' = "GFCI_FAULT" /\ Faulted
    /\ GfiReset /\ owed' = FALSE
    /\ age' = [age EXCEPT !["gfi"] = GfiTimeout]
    /\ TripHandled /\ UNCHANGED trips

TripGivenUp ==
    /\ TripChecked /\ pass.prev = "GFCI_FAULT" /\ conn /\ age["gfi"] >= GfiTimeout
    /\ retry["gfi"] >= RetryCount
    /\ retry' = [retry EXCEPT !["gfi"] = RetryCount + 1]
    /\ state' = "GFCI_FAULT" /\ HardFault("idle") /\ pass' = NoPass
    /\ UNCHANGED <<pilot, conn, tmp, thermal, age, contacts, gfi, eeprom, ran, env, owed>>

-----------------------------------------------------------------------------
(* Update(): temperature, the pilot level and the debounced new state.      *)

Overheated == AcCheck("temp") /\ temp = Panic

StateChosen(s, prev) ==
    /\ state' = s
    /\ pc' = IF s # prev THEN "act" ELSE "tail"
    /\ UNCHANGED <<conn, thermal, retry, contacts, gfi, eeprom, kont, ran, env, owed>>

FaultChosen ==
    /\ pc = "pilot" /\ (~pass.nofault \/ Overheated)
    /\ LET s == IF Overheated THEN "OVER_TEMPERATURE" ELSE state
       IN  tmp' = s /\ StateChosen(s, pass.prev)
    /\ pass' = [NoPass EXCEPT !.ul = pass.prev = "C" /\ age["on"] <= ULWindow]
    /\ UNCHANGED <<pilot, age>>

\* The state the pilot level asks for; without PWM the vehicle may not draw.
LevelState(level, p) ==
    CASE level = "none"   -> "A"
      [] level = "ready"  -> "B"
      [] level = "charge" -> IF p = "PWM" THEN "C" ELSE "B"
      [] level = "vent"   -> IF AcCheck("vent") THEN "D" ELSE "C"
      [] OTHER            -> "UNKNOWN"

Targets(p) ==
    {LevelState(pass.level, p)}
      \union (IF AcCheck("diode") /\ "diode" \in Faults /\ p = "PWM"
              THEN {"DIODE_CHK_FAILED"} ELSE {})

DebounceOf(s) == IF s = "A" THEN DebounceA ELSE Debounce

\* StateTransitionReqFunc(): the proximity pin may turn B and C into a fault.
Granted(s, prev) ==
    IF s # prev /\ s \in {"B", "C"} /\ "pp" \in Faults
    THEN {s, "PP_SHORTED", "PP_MISSING"} ELSE {s}

\* A pass without a fault leaves a fault state before it looks at the pilot.
PilotChosen ==
    /\ pc = "pilot" /\ pass.nofault /\ ~Overheated
    /\ LET leaving == pass.prev \in FaultStates
           prev == IF leaving THEN "UNKNOWN" ELSE pass.prev
           p == IF leaving THEN "P12" ELSE pilot
       IN  /\ pilot' = p
           /\ \E target \in Targets(p) :
                LET stable == target = tmp /\ age["tmp"] >= DebounceOf(target)
                IN  /\ tmp' = target
                    /\ age' = IF target # prev /\ target # tmp
                              THEN [age EXCEPT !["tmp"] = 0] ELSE age
                    /\ \E s \in Granted(IF stable THEN target ELSE prev, prev) :
                         StateChosen(s, prev)
    /\ pass' = NoPass

-----------------------------------------------------------------------------
(* Update(): the state transition.                                          *)

Becomes(S) == pc = "act" /\ state \in S
Acted == UNCHANGED <<state, conn, tmp, thermal, retry, gfi, eeprom, pass, ran, env, owed>>

BecomesA ==
    /\ Becomes({"A"})
    /\ OpenContacts /\ age' = Opened /\ pilot' = "P12"
    /\ pc' = "tail" /\ Acted /\ UNCHANGED kont

\* Faulty variant: the contacts are left to the vehicle.
BecomesBClosed ==
    /\ Becomes({"B"})
    /\ UNCHANGED <<contacts, age>> /\ pilot' = "PWM"
    /\ pc' = "tail" /\ Acted /\ UNCHANGED kont

BecomesB ==
    /\ Becomes({"B"})
    /\ OpenContacts /\ age' = Opened /\ pilot' = "PWM"
    /\ pc' = "tail" /\ Acted /\ UNCHANGED kont

BecomesC ==
    /\ Becomes({"C"})
    /\ pilot' = "PWM"
    /\ pc' = IF AcCheck("gfitest") THEN "selftest" ELSE "close"
    /\ Acted /\ UNCHANGED <<age, contacts, kont>>

\* Faulty variant: the pilot keeps offering current.
BecomesFaultOffering ==
    /\ Becomes({"GFCI_FAULT", "NO_GROUND", "PP_SHORTED", "PP_MISSING",
                "RELAY_CLOSURE_FAULT", "UNKNOWN"})
    /\ OpenContacts /\ age' = Opened /\ UNCHANGED pilot
    /\ pc' = "tail" /\ Acted /\ UNCHANGED kont

\* The faults Update() keeps checking, and every state without a branch of its own.
BecomesFault ==
    /\ Becomes({"GFCI_FAULT", "NO_GROUND", "PP_SHORTED", "PP_MISSING",
                "RELAY_CLOSURE_FAULT", "UNKNOWN"})
    /\ OpenContacts /\ age' = Opened /\ pilot' = "P12"
    /\ pc' = "tail" /\ Acted /\ UNCHANGED kont

BecomesHardFault ==
    /\ Becomes({"D", "DIODE_CHK_FAILED"})
    /\ OpenContacts /\ age' = Opened /\ pilot' = "P12"
    /\ HardFault("tail") /\ Acted

\* The pilot is not touched, and nothing but a reset leads out.
BecomesStuckRelay ==
    /\ Becomes({"STUCK_RELAY"})
    /\ OpenContacts /\ age' = Opened
    /\ HardFault("never") /\ Acted /\ UNCHANGED pilot

\* Over temperature: steady pilot first, the contacts 5 s later.
BecomesOverTemperature ==
    /\ Becomes({"OVER_TEMPERATURE"})
    /\ pilot' = "P12" /\ pc' = "cool"
    /\ Acted /\ UNCHANGED <<age, contacts, kont>>

\* Faulty variant: the vehicle is trusted to have opened its contactor.
OverTemperatureWaits ==
    /\ pc = "cool" /\ UNCHANGED <<contacts, age>>
    /\ HardFault("tail") /\ Acted /\ UNCHANGED pilot

OverTemperatureOpens ==
    /\ pc = "cool"
    /\ OpenContacts /\ age' = Opened
    /\ HardFault("tail") /\ Acted /\ UNCHANGED pilot

\* Gfi::SelfTest(): return 2, the pin never clears before the test; return 3,
\* it never clears after it and testInProgress stays; else the result.
SelfTestFails ==
    /\ state' = "GFI_TEST_FAILED" /\ pilot' = "P12"
    /\ HardFault("idle") /\ pass' = NoPass
    /\ UNCHANGED <<conn, tmp, thermal, retry, age, contacts, eeprom, ran, env, owed>>

SelfTestNotReady ==
    /\ pc = "selftest" /\ "gfi" \in Faults
    /\ SelfTestFails /\ UNCHANGED gfi

SelfTestStarts ==
    /\ pc = "selftest"
    /\ testing' = TRUE /\ pc' = "testrun"
    /\ UNCHANGED <<ctl, contacts, gfiFault, eeprom, pass, kont, ran, env, owed>>

SelfTestPinStays ==
    /\ pc = "testrun" /\ "gfi" \in Faults
    /\ SelfTestFails /\ UNCHANGED gfi

SelfTestNoTrip ==
    /\ pc = "testrun" /\ "gfi" \in Faults
    /\ gfiFault' = FALSE /\ testing' = FALSE
    /\ SelfTestFails

\* Faulty variant: the test does not end for the interrupt.
SelfTestPassesMasked ==
    /\ pc = "testrun"
    /\ gfiFault' = FALSE /\ pc' = "close"
    /\ UNCHANGED <<ctl, contacts, testing, eeprom, pass, kont, ran, env, owed>>

SelfTestPasses ==
    /\ pc = "testrun"
    /\ gfiFault' = FALSE /\ testing' = FALSE /\ pc' = "close"
    /\ UNCHANGED <<ctl, contacts, eeprom, pass, kont, ran, env, owed>>

\* chargingOn() drives one pin after the other.  Only all of them close the circuit, and
\* a trip that came between two writes has opened the first one again.
PinsDriven == relay' \in IF gfiFault THEN BOOLEAN ELSE {TRUE}

\* chargingOn(): the pins first, then the flag and the time stamp.
CloseContacts ==
    /\ pc = "close"
    /\ PinsDriven /\ pc' = IF RelayPwm THEN "holding" ELSE "closed"
    /\ UNCHANGED <<ctl, chargingOn, gfi, eeprom, pass, kont, ran, env, owed>>

\* RELAY_PWM: m_relayCloseMs later the pins are written again, with the duty that
\* holds the relay, whatever an interrupt did to them meanwhile.
HoldContacts ==
    /\ pc = "holding"
    /\ PinsDriven /\ pc' = "closed"
    /\ UNCHANGED <<ctl, chargingOn, gfi, eeprom, pass, kont, ran, env, owed>>

ContactsClosed ==
    /\ pc = "closed"
    /\ chargingOn' = TRUE /\ age' = [age EXCEPT !["on"] = 0]
    /\ pc' = "tail"
    /\ Acted /\ UNCHANGED <<pilot, relay, kont>>

-----------------------------------------------------------------------------
(* Update(): after the transition.                                          *)

\* UL_COMPLIANT: a fault right after charging started is a hard fault.
EarlyHardFault ==
    /\ pc = "tail" /\ pass.ul
    /\ HardFault("idle") /\ pass' = NoPass
    /\ UNCHANGED <<ctl, contacts, gfi, eeprom, ran, env, owed>>

\* The overcurrent check: the excess must last for OcTimeout.
Excess == IF "oc" \in Faults THEN BOOLEAN ELSE {FALSE}

CurrentChecked ==
    /\ pc = "tail" /\ ~pass.ul
    /\ \E over \in Excess :
         /\ ~(AcCheck("oc") /\ state = "C" /\ over /\ age["oc"] >= OcTimeout)
         /\ age' = IF ~AcCheck("oc") THEN age
                   ELSE IF state # "C" \/ ~over THEN [age EXCEPT !["oc"] = NotSet]
                   ELSE IF age["oc"] = NotSet THEN [age EXCEPT !["oc"] = 0] ELSE age
    /\ pc' = "finish"
    /\ Acted /\ UNCHANGED <<pilot, contacts, kont>>

OverCurrent ==
    /\ pc = "tail" /\ ~pass.ul
    /\ AcCheck("oc") /\ state = "C" /\ TRUE \in Excess /\ age["oc"] >= OcTimeout
    /\ state' = "OVER_CURRENT" /\ pilot' = "P12" /\ pc' = "ocwait"
    /\ UNCHANGED <<conn, tmp, thermal, retry, age, contacts, gfi, eeprom, pass, kont,
                   ran, env, owed>>

\* Faulty variant: the wait for the vehicle to stop drawing ends in nothing.
OverCurrentWaits ==
    /\ pc = "ocwait" /\ UNCHANGED <<contacts, age>>
    /\ HardFault("finish") /\ Acted /\ UNCHANGED pilot

OverCurrentOpens ==
    /\ pc = "ocwait"
    /\ OpenContacts /\ age' = Opened
    /\ HardFault("finish") /\ Acted /\ UNCHANGED pilot

\* Thermal throttling: a changed flag sets a new current and, whatever the state,
\* turns PWM on.  Throttling looks at the sensors once per second of charge time.
Restored(flags) ==
    IF "throttle" \in flags /\ temp = Nominal THEN flags \ {"throttle"}
    ELSE IF "shutdown" \in flags /\ temp <= Warm THEN flags \ {"shutdown"}
    ELSE flags

Throttled(flags) ==
    IF "throttle" \notin flags /\ temp >= Hot THEN flags \union {"throttle"}
    ELSE IF "shutdown" \notin flags /\ temp >= Hotter THEN flags \union {"shutdown"}
    ELSE flags

Finish ==
    /\ pc = "finish"
    /\ \E due \in BOOLEAN :
         LET warm == IF AcCheck("temp") THEN Restored(thermal) ELSE thermal
             hot == IF AcCheck("temp") /\ state = "C" /\ due THEN Throttled(warm) ELSE warm
         IN  /\ thermal' = hot
             /\ pilot' = IF warm # thermal \/ hot # warm THEN "PWM" ELSE pilot
    /\ EndPass
    /\ UNCHANGED <<state, conn, tmp, retry, age, contacts, gfi, eeprom, kont, ran, env,
                   owed>>

\* Faulty variant: the connect flag is trusted although the pilot is N12.
HardFaultEndsBlind ==
    /\ pc = "hf" /\ ev = "none" /\ kont # "never"
    /\ conn' = FALSE
    /\ state' = "UNKNOWN" /\ pc' = kont /\ kont' = "idle" /\ owed' = FALSE
    /\ age' = IF kont = "finish" THEN [age EXCEPT !["oc"] = NotSet] ELSE age
    /\ UNCHANGED <<pilot, tmp, thermal, retry, contacts, gfi, eeprom, pass, ran, env>>

\* One turn of the loop in HardFault().
HardFaultEnds ==
    /\ pc = "hf" /\ pilot # "N12" /\ ev = "none" /\ kont # "never"
    /\ conn' = FALSE
    /\ state' = "UNKNOWN" /\ pc' = kont /\ kont' = "idle" /\ owed' = FALSE
    /\ age' = IF kont = "finish" THEN [age EXCEPT !["oc"] = NotSet] ELSE age
    /\ UNCHANGED <<pilot, tmp, thermal, retry, contacts, gfi, eeprom, pass, ran, env>>

HardFaultPolls ==
    /\ pc = "hf" /\ pilot # "N12" /\ ~(ev = "none" /\ kont # "never")
    /\ conn' = (ev # "none")
    /\ UNCHANGED <<state, pilot, tmp, thermal, retry, age, contacts, gfi, eeprom, flow,
                   ran, env, owed>>

-----------------------------------------------------------------------------
(* The interrupt, the commands and the environment.                         *)

\* SetGfiTripped().  During the self test it only counts as the test's success.
\* m_wVFlags is 16 bits wide: an update of the main program that is under way
\* (ReadPilot() makes several) may overwrite the cleared ECVF_CHARGING_ON.
GfiInterrupt ==
    /\ "gfi" \in Faults /\ pc # "boot" /\ ~testing
    /\ relay' = FALSE
    /\ chargingOn' \in IF pc \in {"idle", "hf"} THEN {FALSE, chargingOn} ELSE {FALSE}
    /\ \E t \in IF pc = "supply" THEN {0, Ahead} ELSE {0} : age' = [age EXCEPT !["off"] = t]
    /\ pilot' = "P12" /\ gfiFault' = TRUE
    /\ owed' = (owed \/ relay)
    /\ UNCHANGED <<state, conn, tmp, thermal, retry, testing, eeprom, flow, ran, env>>

Receives(c) ==
    /\ pc \in Polling /\ c \in Commands
    /\ UNCHANGED <<conn, tmp, thermal, gfi, pass, kont, ran, env, owed>>

\* Faulty variant: the pilot is left for the next transition to set.
EnableSilent ==
    /\ Receives("FE") /\ state \in {"DISABLED", "SLEEPING"}
    /\ state' = "UNKNOWN"
    /\ UNCHANGED <<pilot, retry, age, contacts, eeprom, pc>>

\* $FE
Enable ==
    /\ Receives("FE") /\ state \in {"DISABLED", "SLEEPING"}
    /\ state' = "UNKNOWN" /\ pilot' = "P12"
    /\ UNCHANGED <<retry, age, contacts, eeprom, pc>>

\* $FD
Disable ==
    /\ Receives("FD") /\ state # "DISABLED"
    /\ state' = "DISABLED" /\ pilot' = "N12" /\ OpenContacts /\ age' = Opened
    /\ UNCHANGED <<retry, eeprom, pc>>

\* Faulty variant: the vehicle is not told.
SleepOffering ==
    /\ Receives("FS") /\ state # "SLEEPING"
    /\ state' = "SLEEPING" /\ age' = Opened
    /\ UNCHANGED <<retry, pilot, contacts, eeprom, pc>>

\* $FS: the contacts stay closed for now; the stamp starts the grace period.
Sleep ==
    /\ Receives("FS") /\ state # "SLEEPING"
    /\ state' = "SLEEPING" /\ pilot' = "P12" /\ age' = Opened
    /\ UNCHANGED <<retry, contacts, eeprom, pc>>

\* $FC
ResetFaultCounters ==
    /\ Receives("FC") /\ trips' = [gfi |-> 0, gnd |-> 0, stuck |-> 0]
    /\ UNCHANGED <<state, pilot, retry, age, contacts, checks, pc>>

\* $FR: steady pilot, 3 s for the vehicle, then the watchdog.
Reboot ==
    /\ Receives("FR") /\ pilot' = "P12" /\ pc' = "reboot"
    /\ UNCHANGED <<state, retry, age, contacts, eeprom>>

\* $FF: switch a self check.  Switching the ground check off clears its retries.
Feature(c) ==
    /\ pc \in Polling /\ c \in Toggles
    /\ IF c \in checks
       THEN /\ checks' = checks \ {c}
            /\ IF c = "gnd"
               THEN retry' = [retry EXCEPT !["gnd"] = 0]
                    /\ age' = [age EXCEPT !["gnd"] = NotSet]
               ELSE UNCHANGED <<retry, age>>
       ELSE checks' = checks \union {c} /\ UNCHANGED <<retry, age>>
    /\ UNCHANGED <<state, pilot, conn, tmp, thermal, contacts, gfi, trips, flow, ran, env,
                   owed>>

\* The vehicle moves while no pass holds a sample of the pilot.
EvChanges ==
    /\ pc \notin {"supply", "gfi", "pilot"} /\ ev' \in EvLevels
    /\ UNCHANGED <<ctl, contacts, gfi, eeprom, flow, ran, temp, owed>>

\* g_TempMonitor.Read()
TempRead ==
    /\ pc \in Polling /\ temp' \in Temps
    /\ UNCHANGED <<ctl, contacts, gfi, eeprom, flow, ran, ev, owed>>

\* The clock.  A pass takes less than a tick outside its waits, and loop() starts
\* one at least once per tick.
Tick ==
    /\ pc \in Blocking \/ (pc = "idle" /\ ran)
    /\ age' = [t \in Timers |-> IF age[t] < 0 \/ age[t] >= Cap[t] THEN age[t] ELSE age[t] + 1]
    /\ ran' = FALSE
    /\ UNCHANGED <<state, pilot, conn, tmp, thermal, retry, contacts, gfi, eeprom, flow,
                   env, owed>>

-----------------------------------------------------------------------------
Boot == PostFails \/ PostPasses \/ PpErrorEnds

SupplyCheck ==
    \/ CgmiGroundFault \/ RelayClosureFault \/ GroundFaultUnderLoad
    \/ GroundFaultUnplugged \/ GroundFaultRetry \/ GroundFaultStays
    \/ StuckReading \/ SupplyGood

GfiCheck ==
    \/ NoTrip \/ TripNoticed \/ TripUnplugged \/ TripStays \/ TripRetried \/ TripGivenUp

Transition ==
    \/ BecomesA \/ BecomesB \/ BecomesC \/ BecomesFault \/ BecomesHardFault
    \/ BecomesStuckRelay \/ BecomesOverTemperature \/ OverTemperatureOpens
    \/ SelfTestNotReady \/ SelfTestStarts \/ SelfTestPinStays \/ SelfTestNoTrip
    \/ SelfTestPasses \/ CloseContacts \/ HoldContacts \/ ContactsClosed

AfterTransition ==
    \/ EarlyHardFault \/ CurrentChecked \/ OverCurrent \/ OverCurrentOpens \/ Finish

\* The main program: setup(), Update() and HardFault().
Program ==
    \/ Boot \/ PassDisabled \/ PassSleeping \/ PassBegins \/ SupplyCheck \/ GfiCheck
    \/ FaultChosen \/ PilotChosen \/ Transition \/ AfterTransition
    \/ HardFaultEnds \/ HardFaultPolls

Command ==
    \/ Enable \/ Disable \/ Sleep \/ ResetFaultCounters \/ Reboot \/ ClearBootLock
    \/ \E c \in Toggles : Feature(c)

Next ==
    \/ Program \/ GfiInterrupt \/ Command \/ Reset
    \/ EvChanges \/ TempRead \/ Tick

Spec == Init /\ [][Next]_vars

\* The processor keeps running the loop and the clock keeps advancing; the reset
\* that Reboot() waits for comes.  Nothing is promised of vehicle, client or faults.
FairSpec ==
    /\ Spec
    /\ WF_vars(Program) /\ SF_vars(Tick) /\ WF_vars(pc = "reboot" /\ Reset)

-----------------------------------------------------------------------------
TypeOK ==
    /\ state \in States /\ tmp \in States
    /\ pilot \in {"P12", "PWM", "N12"}
    /\ relay \in BOOLEAN /\ chargingOn \in BOOLEAN /\ conn \in BOOLEAN
    /\ thermal \subseteq {"throttle", "shutdown"}
    /\ gfiFault \in BOOLEAN /\ testing \in BOOLEAN
    /\ retry \in Retries
    /\ age \in Ages
    /\ checks \subseteq CheckNames
    /\ trips \in TripCounts
    /\ pc \in Steps
    /\ pass \in Passes
    /\ kont \in {"idle", "tail", "finish", "never"}
    /\ ran \in BOOLEAN /\ owed \in BOOLEAN
    /\ ev \in EvLevels /\ temp \in Temps

\* A fault never leaves the contacts closed: whenever the program polls for commands a
\* fault state means open contacts, and so does HardFault(), where nobody runs Update()
\* and no check could open them, whatever state the commands leave there.
FaultIsOpen == pc \in Polling /\ (pc = "hf" \/ state \in FaultStates) => ~relay

\* Contacts are closed only while the vehicle asked for and is offered current, or
\* in the moments Sleep() leaves it to let go (and a wake-up within them).
ClosedMeansOffered ==
    pc = "idle" /\ relay =>
        \/ state = "C" /\ pilot = "PWM"
        \/ state \in {"SLEEPING", "UNKNOWN"} /\ pilot = "P12"

\* The grace period of Sleep() ends: no pass leaves sleeping contacts closed for
\* longer, although its time stamp is the one chargingOff() writes.
SleepGraceBounded ==
    pc = "idle" /\ ran /\ state = "SLEEPING" /\ relay => age["off"] < SleepGrace + 1

\* Contacts that closed over a trip latched a moment before are opened by the next
\* pass: at the end of a pass only the pass that closed them can leave them so.
TripOpensPromptly == pc = "finish" /\ gfiFault /\ relay => age["on"] = 0

\* After a trip opened the closed contacts they stay open until the fault was
\* answered: unplugged, timed out for a retry, or reset.
NoRecloseAfterTrip == owed => ~relay

\* The interrupt is never masked while the contacts are closed.
TripNotMasked == relay => ~testing

\* A fault from the end of its transition up to the next one.  (STUCK_RELAY is left out:
\* its branch does not touch the pilot.)
SteadyFaults == FaultStates \ {"STUCK_RELAY"}
FaultOffers ==
    /\ pilot = "PWM"
    /\ IF pc \in {"supply", "gfi", "pilot"} THEN pass.prev \in SteadyFaults
       ELSE pc \in Polling \union {"tail", "finish", "cool", "ocwait"} /\ state \in SteadyFaults

\* In a fault nobody begins to offer current, neither transition, command nor interrupt,
\* but the thermal monitor, which turns PWM on in any state when a limit comes or goes.
FaultOffersNothing == [][FaultOffers' => FaultOffers \/ thermal' # thermal]_vars

\* A stuck relay is declared, and can only be power-cycled away, not before voltage was
\* read behind open contacts for the debounce time and they have been open as long;
\* only a trip still to be looked at, stamped ahead of the pass, can cut the second short.
StuckRelayDebounced ==
    [][state # "STUCK_RELAY" /\ state' = "STUCK_RELAY" /\ pc = "supply"
         => /\ age["stuck"] > RelayDelay
            /\ age["off"] > RelayDelay \/ (age["off"] = Ahead /\ gfiFault)]_vars

\* Whenever a trip opens the contacts, a relay that works is not declared stuck, which
\* only a power cycle ends: a reading from before the trip and a stamp ahead of the
\* pass make the first debounce count as over.
WorkingRelayNotStuck == "relay" \notin Faults => state # "STUCK_RELAY"

\* Only the client ends the disabled state, or a restart; but for the end of a proximity
\* error at start-up, and of a hard fault during which a trip took the pilot from -12 V.
DisabledStays ==
    [][state = "DISABLED" /\ state' # "DISABLED"
         => \/ Enable \/ Sleep \/ PowerUp
            \/ PpErrorEnds \/ (HardFaultEnds /\ gfiFault)]_vars

\* -12 V is the sign of the disabled state and of nothing else.
N12MeansDisabled == pc = "idle" /\ pilot = "N12" => state = "DISABLED"

\* A latched trip is taken back only by the handling in Update(), or a restart.
TripNotForgotten == [][gfiFault /\ ~gfiFault' => pc = "gfi" \/ pc' = "boot"]_vars

-----------------------------------------------------------------------------
(* The inductive invariant behind the safety properties of the contacts.     *)

\* The monitor never throttles: the sensors stay below the throttle point or its check
\* is off for good.
Unthrottled == (\A t \in Temps : t < Hot) \/ "temp" \notin Checks0 \union Toggles

\* The client has no use for both $FS and $FE: no sleep is ended in its grace period.
Unwoken == ~({"FS", "FE"} \subseteq Commands)

\* The configurations in which nothing starts charging over closed contacts: the vent
\* check stays on, and the end of a throttling, which turns PWM on in any state, does
\* not meet the unknown state that waking leaves over contacts still closed.
Sheltered == "vent" \in Checks0 \ Toggles /\ (Unthrottled \/ Unwoken)

ConfigKept ==
    /\ "vent" \in checks
    /\ checks \subseteq Checks0 \union Toggles
    /\ Unthrottled => thermal = {}

\* Within a pass the state is the previous one until a fault is found.
PassState ==
    /\ pc = "supply" => pass.nofault
    /\ pc \in {"supply", "gfi", "pilot"} =>
         /\ IF pass.nofault THEN state = pass.prev ELSE state \in FaultStates
         /\ pass.prev \notin {"SLEEPING", "DISABLED"}
    /\ pc \in {"selftest", "testrun", "close", "holding", "closed"} => state = "C"
    /\ pc = "holding" => RelayPwm
    /\ pass.ul => pc \in {"act", "cool", "hf", "tail", "reboot"}
    /\ pc = "act" /\ pass.ul => state # "C"
    /\ pc = "hf" /\ pass.ul => kont \in {"tail", "never"}

\* Where the contacts may be closed; with PWM only on the way out of state C.
ClosedWhere ==
    /\ pc \in {"boot", "hf", "bootlock", "postfault", "pperror",
               "selftest", "testrun", "close"} => ~relay
    /\ pc \in {"idle", "tail", "finish"} /\ relay =>
         state \in {"C", "UNKNOWN", "SLEEPING"} /\ (pilot = "PWM" => state = "C")
    /\ pc \in {"tail", "finish"} /\ relay => state # "SLEEPING"
    /\ pc \in {"supply", "gfi", "pilot"} /\ relay =>
         pass.prev \in {"C", "UNKNOWN"} /\ (pilot = "PWM" => pass.prev = "C")
    /\ pc = "act" /\ state = "C" => ~relay
    /\ pc = "tail" /\ pass.ul => ~relay

\* An unanswered trip is still latched and nothing is about to close the contacts,
\* where chargingOn() writes each pin once.
OwedWhere ==
    ~RelayPwm =>
      /\ owed => ~relay /\ gfiFault
      /\ pc \in {"boot", "selftest", "testrun", "close"} => ~owed
      /\ pc = "act" /\ state = "C" => ~owed
      /\ pc = "pilot" /\ pass.nofault /\ owed => pilot # "PWM"

\* Without $FE nothing leaves a sleep whose contacts are still closed, and without $FS
\* there is none: no pass finds them closed in the unknown state.
WokenWhere ==
    Unwoken =>
      /\ pc = "idle" /\ relay /\ "FS" \notin Commands => state # "SLEEPING"
      /\ pc \in {"idle", "tail", "finish"} /\ relay => state # "UNKNOWN"
      /\ pc \in {"supply", "gfi", "pilot"} /\ relay => pass.prev # "UNKNOWN"

Guarded == ConfigKept /\ PassState /\ ClosedWhere /\ OwedWhere /\ WokenWhere

\* With the self test left enabled its mask never outlives it where contacts close.
MaskWhere ==
    /\ "gfitest" \in checks
    /\ relay => ~testing
    /\ pc \in {"close", "holding", "closed"} => ~testing

-----------------------------------------------------------------------------
(* Liveness.                                                                *)

\* A step that shows something broken.
FaultStep ==
    \/ GfiInterrupt \/ ((TripUnplugged \/ TripRetried) /\ gfiFault')
    \/ CgmiGroundFault \/ RelayClosureFault \/ GroundFaultUnderLoad \/ StuckReading
    \/ PostFails \/ SelfTestNotReady \/ SelfTestPinStays \/ SelfTestNoTrip \/ OverCurrent
    \/ (PilotChosen /\ tmp' = "DIODE_CHK_FAILED")
    \/ (PilotChosen /\ state' \in {"DIODE_CHK_FAILED", "PP_SHORTED", "PP_MISSING"})

Intact == <>[][~FaultStep]_vars
LeftAlone == <>[][~(Command \/ Reset)]_vars
EvSteady == <>[][ev' = ev]_vars

\* Where only a power cycle or the client leads out.
Halted == pc \in {"postfault", "bootlock", "pperror"} \/ state \in {"STUCK_RELAY", "DISABLED", "SLEEPING"}

\* Faults reset themselves when the vehicle is unplugged, hard faults included.
UnpluggingRecovers ==
    Intact /\ LeftAlone /\ <>[](ev = "none") => <>[](state = "A" \/ Halted)

\* A vehicle that keeps asking is charged in the end, unless the retries are used up
\* or the fault is one that only unplugging ends.
ChargingResumes ==
    Intact /\ LeftAlone /\ <>[](ev = "charge")
      => <>[]((state = "C" /\ relay) \/ Halted \/ pc = "hf" \/ retry["gnd"] = RetryCount)

\* Closed contacts do not outlive a latched trip.
TripOpens == LeftAlone => (gfiFault /\ relay ~> ~relay)

\* Sleep() ends in open contacts, unless charging starts over, once client and
\* vehicle have stopped changing their minds.
SleepOpens ==
    LeftAlone /\ EvSteady => (state = "SLEEPING" /\ relay ~> (~relay \/ state = "C"))

-----------------------------------------------------------------------------
(* The abstract charger this one implements.                                 *)

Service ==
    IF state = "C" THEN "charging"
    ELSE IF state \in FaultStates THEN "fault"
    ELSE IF state \in {"SLEEPING", "DISABLED"} THEN "resting" ELSE "ready"

Charger == INSTANCE SafeCharging WITH
    service <- Service, closed <- relay, owed <- owed, listening <- pc \in Polling

\* The firmware keeps the promises of SafeCharging: charging periods begin with open
\* contacts and no trip unanswered, contacts close only within one, trips open them
\* at once and are answered over open contacts, visible faults have open contacts.
SafelyCharges == Charger!Spec
=============================================================================
