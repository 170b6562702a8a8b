--------------------------- MODULE ChargingSession ---------------------------
(***************************************************************************)
(* What a charging session leaves behind: the connector lock, the charge    *)
(* time and the energy meter, on top of the charge controller.  Every step  *)
(* is a step of EvseController with what it does here, or a step that       *)
(* leaves the controller alone.                                             *)
(*                                                                          *)
(* loop() runs the meter after every pass of Update(); stage orders the two *)
(* within the controller's pc = "idle".  No command is received in between. *)
(***************************************************************************)
EXTENDS EvseController

CONSTANTS
    LockCommands,   \* the arguments of $S5 in use
    Totals,         \* the arguments of $SK
    WhUnit,         \* units of energy per unit of the total (3600 Ws per Wh)
    SlowHands,      \* a plug pulled under closed contacts is back only after they opened
    MaxTime,        \* bound: ticks with closed contacts in one session
    MaxGap,         \* bound: ticks between two updates of the meter
    TotModulus,     \* the width of m_wattHoursTot: 2^32
    MaxClosings     \* the history of closings saturates here

ASSUME SessionAssumption ==
    /\ LockCommands \subseteq {"0", "1", "A", "M"} /\ Totals \subseteq Nat
    /\ WhUnit \in Nat \ {0} /\ SlowHands \in BOOLEAN
    /\ {MaxTime, MaxClosings} \subseteq Nat /\ {MaxGap, TotModulus} \subseteq Nat \ {0}

VARIABLES
    locked,         \* MennekesLock.isLocked
    manual,         \* ECVF_MENNEKES_MANUAL
    connPrev,       \* ECVF_EV_CONNECTED_PREV
    ended,          \* ECVF_SESSION_ENDED
    accumulated,    \* m_AccumulatedChargeTime, of the earlier closings of the session
    elapsed,        \* m_ElapsedChargeTime, of the last one
    onFor,          \* millis() - m_ChargeOnTimeMS in ticks, while state C reads it
    meter,          \* EnergyMeter: its three flags, m_wattSeconds, time since the update
    total,          \* m_wattHoursTot and its copy in EEPROM
    stage,          \* what loop() does next where pc = "idle"
    \* history
    closedFor,      \* ticks the contacts were closed since the vehicle was noticed
    chargedFor,     \* ... in state C, which a sleep in its grace period is not
    closings,       \* how often they were closed since, saturating
    unbooked        \* energy of this session that the total does not hold

times == <<accumulated, elapsed, onFor>>
lock == <<locked, manual>>
history == <<closedFor, chargedFor, closings>>
session == <<locked, manual, connPrev, ended, accumulated, elapsed, onFor, meter, total,
             closedFor, chargedFor, closings, unbooked>>
sessionVars == <<vars, session, stage>>

NewMeter == [conn |-> FALSE, closed |-> FALSE, on |-> FALSE, ws |-> 0, since |-> 0]

SessionInit ==
    /\ Init
    /\ locked = FALSE /\ manual = FALSE /\ connPrev = FALSE /\ ended = TRUE
    /\ accumulated = 0 /\ elapsed = 0 /\ onFor = 0
    /\ meter = NewMeter /\ total = 0
    /\ closedFor = 0 /\ chargedFor = 0 /\ closings = 0 /\ unbooked = 0
    /\ stage = "run"

\* RAM starts anew, the connector is unlocked, the total is read from EEPROM: what
\* the session had gathered is gone.
Restarts ==
    /\ Reset
    /\ locked' = FALSE /\ manual' = FALSE /\ connPrev' = FALSE /\ ended' = TRUE
    /\ accumulated' = 0 /\ elapsed' = 0 /\ onFor' = 0
    /\ meter' = NewMeter /\ UNCHANGED total
    /\ closedFor' = 0 /\ chargedFor' = 0 /\ closings' = 0 /\ unbooked' = 0
    /\ stage' = "run"

-----------------------------------------------------------------------------
(* Update() and HardFault().                                                *)

\* Faulty variant: the connector is locked when the vehicle arrives, only then.
ReadsPilotOnce ==
    IF pilot = "N12" THEN UNCHANGED <<connPrev, ended, locked>>
    ELSE /\ connPrev' = conn /\ ended' = (ended \/ ~conn')
         /\ locked' = IF manual \/ conn' = conn THEN locked ELSE conn'

\* ReadPilot(): the flags, the end of a session and the connector lock.
ReadsPilot ==
    IF pilot = "N12" THEN UNCHANGED <<connPrev, ended, locked>>
    ELSE /\ connPrev' = conn /\ ended' = (ended \/ ~conn')
         /\ locked' = IF manual THEN locked ELSE conn'

\* After a pass the meter's turn.
PassOver == stage' = IF pc' = "idle" THEN "meter" ELSE "run"

\* The charge time starts anew with the transition to connected.
ChargeTimeStarts ==
    IF conn' /\ ~connPrev'
    THEN /\ accumulated' = 0 /\ elapsed' = 0
         /\ closedFor' = 0 /\ chargedFor' = 0 /\ closings' = 0
    ELSE UNCHANGED <<accumulated, elapsed, history>>

UpdateBegins ==
    /\ stage = "run" /\ PassBegins
    /\ ReadsPilot /\ ChargeTimeStarts /\ UNCHANGED stage
    /\ UNCHANGED <<manual, onFor, meter, total, unbooked>>

UpdateAsleep ==
    /\ stage = "run" /\ PassSleeping
    /\ ReadsPilot /\ ChargeTimeStarts /\ stage' = "meter"
    /\ UNCHANGED <<manual, onFor, meter, total, unbooked>>

\* Faulty variant: the time of the earlier closing is not carried over.
ChargingOnForgets ==
    /\ ContactsClosed
    /\ IF ended THEN accumulated' = 0 /\ ended' = FALSE /\ UNCHANGED elapsed
       ELSE elapsed' = 0 /\ UNCHANGED <<ended, accumulated>>
    /\ onFor' = 0
    /\ closings' = IF closings < MaxClosings THEN closings + 1 ELSE closings
    /\ UNCHANGED <<lock, connPrev, meter, total, closedFor, chargedFor,
                   unbooked, stage>>

\* chargingOn(): a closing of a new session, or one more of the same.
ChargingOn ==
    /\ ContactsClosed
    /\ IF ended THEN accumulated' = 0 /\ ended' = FALSE /\ UNCHANGED elapsed
       ELSE accumulated' = accumulated + elapsed /\ elapsed' = 0 /\ UNCHANGED ended
    /\ onFor' = 0
    /\ closings' = IF closings < MaxClosings THEN closings + 1 ELSE closings
    /\ UNCHANGED <<lock, connPrev, meter, total, closedFor, chargedFor,
                   unbooked, stage>>

\* The end of a pass: in state C the charge time is taken.
UpdateFinishes ==
    /\ Finish
    /\ elapsed' = IF state = "C" THEN onFor ELSE elapsed
    /\ stage' = "meter"
    /\ UNCHANGED <<lock, connPrev, ended, accumulated, onFor, meter, total,
                   history, unbooked>>

HardFaultTurn ==
    /\ HardFaultPolls \/ HardFaultEnds
    /\ ReadsPilot /\ PassOver
    /\ UNCHANGED <<manual, times, meter, total, history, unbooked>>

\* The steps of a pass that have no part in the session.
InPass ==
    \/ SupplyCheck \/ GfiCheck \/ FaultChosen \/ PilotChosen
    \/ Transition /\ pc # "closed"
    \/ EarlyHardFault \/ CurrentChecked \/ OverCurrent \/ OverCurrentOpens

UpdateGoesOn == InPass /\ PassOver /\ UNCHANGED session

UpdateDisabled ==
    /\ stage = "run" /\ PassDisabled
    /\ stage' = "meter" /\ UNCHANGED session

-----------------------------------------------------------------------------
(* EnergyMeter.                                                             *)

\* Faulty variant: a total wider than its 32 bits.
BookedUnwrapped == IF meter.on THEN total + meter.ws \div WhUnit ELSE total

\* endSession(): whole units of the total, what is left over is lost.
Booked == IF meter.on THEN (total + meter.ws \div WhUnit) % TotModulus ELSE total

\* Faulty variant: a session goes on when the vehicle leaves.
AfterConnectOpenEnded(m) ==
    IF conn /\ ~m.conn THEN [m EXCEPT !.on = TRUE, !.ws = 0, !.since = 0] ELSE m

AfterConnect(m) ==
    IF conn /\ ~m.conn THEN [m EXCEPT !.on = TRUE, !.ws = 0, !.since = 0]
    ELSE IF ~conn /\ m.conn THEN [m EXCEPT !.on = FALSE]
    ELSE m

\* Faulty variant: a closing does not restart the clock.
AfterUsageUnstamped(m) ==
    IF ~m.on THEN m
    ELSE IF ~chargingOn THEN [m EXCEPT !.closed = FALSE]
    ELSE IF ~m.closed THEN [m EXCEPT !.closed = TRUE]
    ELSE [m EXCEPT !.ws = @ + m.since, !.since = 0]

\* calcUsage(), at a constant power of one unit per tick; a tick is longer than
\* KWH_CALC_INTERVAL_MS.  The update that finds the contacts closed takes the time.
AfterUsage(m) ==
    IF ~m.on THEN m
    ELSE IF ~chargingOn THEN [m EXCEPT !.closed = FALSE]
    ELSE IF ~m.closed THEN [m EXCEPT !.closed = TRUE, !.since = 0]
    ELSE [m EXCEPT !.ws = @ + m.since, !.since = 0]

MeterUpdate ==
    /\ stage = "meter"
    /\ meter' = [AfterUsage(AfterConnect(meter)) EXCEPT !.conn = conn]
    /\ total' = IF conn # meter.conn THEN Booked ELSE total
    /\ unbooked' = IF conn /\ ~meter.conn THEN 0
                   ELSE unbooked - WhUnit * ((total' - total) % TotModulus)
    /\ stage' = "run"
    /\ UNCHANGED <<vars, lock, connPrev, ended, times, history>>

-----------------------------------------------------------------------------
(* Commands.                                                                *)

Commanded == stage = "run"

\* Disable() releases the connector.
DisableUnlocks ==
    /\ Commanded /\ Disable
    /\ locked' = (manual /\ locked)
    /\ UNCHANGED <<manual, connPrev, ended, times, meter, total, history,
                   unbooked, stage>>

\* $FC resets the total, $SK sets it; the session under way is booked on top.
ResetTotkWh ==
    /\ Commanded /\ ResetFaultCounters
    /\ total' = 0
    /\ UNCHANGED <<lock, connPrev, ended, times, meter, history, unbooked, stage>>

SetTotkWh(n) ==
    /\ Commanded /\ pc \in Polling
    /\ total' = n % TotModulus
    /\ UNCHANGED <<vars, lock, connPrev, ended, times, meter, history, unbooked,
                   stage>>

\* $S5: the lock obeys in either mode; 'A' and 'M' only change the mode.
Mennekes(c) ==
    /\ Commanded /\ pc \in Polling
    /\ locked' = IF c \in {"0", "1"} THEN c = "1" ELSE locked
    /\ manual' = IF c \in {"A", "M"} THEN c = "M" ELSE manual
    /\ UNCHANGED <<vars, connPrev, ended, times, meter, total, history, unbooked,
                   stage>>

\* What the session does not notice.
Unnoticed ==
    /\ \/ Commanded /\ (Enable \/ Sleep \/ Reboot \/ ClearBootLock)
       \/ Commanded /\ \E c \in Toggles : Feature(c)
       \/ Commanded /\ pc \in Polling /\ EvChanges
            /\ (SlowHands /\ relay /\ ev = "none" => ev' = "none")
       \/ Commanded /\ TempRead
       \/ Boot \/ GfiInterrupt
    /\ UNCHANGED <<session, stage>>

-----------------------------------------------------------------------------
(* Time.                                                                    *)

Least(a, b) == IF a <= b THEN a ELSE b

TimePasses ==
    /\ Commanded /\ Tick
    /\ relay => closedFor < MaxTime
    /\ onFor' = IF state = "C" THEN onFor + 1 ELSE onFor
    /\ meter' = [meter EXCEPT !.since = Least(@ + 1, MaxGap)]
    /\ IF relay
       THEN /\ closedFor' = closedFor + 1 /\ unbooked' = unbooked + 1
            /\ chargedFor' = IF state = "C" THEN chargedFor + 1 ELSE chargedFor
       ELSE UNCHANGED <<closedFor, chargedFor, unbooked>>
    /\ UNCHANGED <<lock, connPrev, ended, accumulated, elapsed, total, closings,
                   stage>>

SessionNext ==
    \/ UpdateBegins \/ UpdateAsleep \/ UpdateDisabled \/ UpdateGoesOn \/ UpdateFinishes
    \/ ChargingOn \/ HardFaultTurn \/ MeterUpdate
    \/ DisableUnlocks \/ ResetTotkWh \/ Restarts
    \/ \E n \in Totals : SetTotkWh(n)
    \/ \E c \in LockCommands : Mennekes(c)
    \/ Unnoticed \/ TimePasses

SessionSpec == SessionInit /\ [][SessionNext]_sessionVars

-----------------------------------------------------------------------------
SessionTypeOK ==
    /\ locked \in BOOLEAN /\ manual \in BOOLEAN /\ connPrev \in BOOLEAN /\ ended \in BOOLEAN
    /\ accumulated \in Nat /\ elapsed \in Nat /\ onFor \in Nat
    /\ closedFor \in Nat /\ chargedFor \in Nat /\ closings \in Nat
    /\ unbooked \in Int /\ total \in 0 .. TotModulus - 1
    /\ meter \in [conn : BOOLEAN, closed : BOOLEAN, on : BOOLEAN, ws : Nat, since : Nat]
    /\ stage \in {"run", "meter"}

\* In automatic mode the connector is locked exactly while a vehicle is connected:
\* every pass, whatever commands came before it, corrects the lock.
LockFollowsVehicle ==
    pc \notin Polling /\ pc # "reboot" /\ ~manual => (locked <=> conn)

\* The charge time shown is the time the contacts were closed in this session: never
\* more, and less by what the passes that open and close them miss.  (Nobody counts the
\* last seconds of a Reboot().)
ChargeTimeHonest ==
    /\ accumulated + elapsed <= chargedFor
    /\ pc # "reboot" /\ closings < MaxClosings =>
         chargedFor <= accumulated + elapsed + closings

\* So is the energy of the session.
MeterKeepsUp ==
    meter.on =>
        /\ meter.ws <= closedFor
        /\ pc # "reboot" /\ closings < MaxClosings => closedFor <= meter.ws + closings

\* No energy is booked twice, across unplugging, restarts and commands: what the
\* meter is about to book the total does not hold yet.
BookedOnce == unbooked >= IF meter.on THEN meter.ws ELSE 0
=============================================================================
