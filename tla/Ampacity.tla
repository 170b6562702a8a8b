------------------------------ MODULE Ampacity ------------------------------
(***************************************************************************)
(* The current the charger offers: m_CurrentCapacity and everything that    *)
(* writes it.  Four writers compete, and none records why it set a limit:   *)
(*   - the client, with $SC, $SL and the setpoints of $SY;                  *)
(*   - the heartbeat supervision, when the client falls silent;             *)
(*   - the thermal throttle and its release;                                *)
(*   - the proximity pin, when a vehicle is connected through a cable of a  *)
(*     lower rating.                                                        *)
(* The pilot repeats the capacity to the vehicle as a duty cycle.           *)
(*                                                                          *)
(* The state machine that EvseController models is reduced to what these    *)
(* handlers see of it: B and C, states that poll without a pass, and the    *)
(* rest.  A pass of Update() is cut into the transition, the heartbeat      *)
(* check, the release and the throttle; the interrupt fires between them.   *)
(***************************************************************************)
EXTENDS Integers

CONSTANTS
    PpEnabled,      \* ECF_PP_AUTO_AMPACITY
    Cables,         \* what the proximity pin can read: amperes, PpShort or PpAbsent
    Requests,       \* currents the client asks for with $SC
    HwLimits,       \* maxima the client sets with $SC n M
    Levels,         \* service levels the client sets with $SL
    Intervals,      \* heartbeat intervals in seconds, 0 to switch it off
    Fallbacks,      \* heartbeat fallback currents
    Temps,          \* temperature bands
    Unit,           \* milliseconds per tick
    IntModulus,     \* 2^16 where unsigned int has 16 bits, 2^32 on SAMD
    MaxSince        \* ticks after which the age of the last pulse saturates

MinCapacity == 6
MaxCapacityL1 == 24
MaxCapacityL2 == 80
DefaultCapacity == <<12, 24>>

PpShort == 0
PpAbsent == 255

\* Bands of the hottest sensor: at most RESTORE_AMPERAGE, at most THROTTLE_DOWN, above
\* it, and from SHUTDOWN up to the panic temperature.
Nominal == 0
Warm == 1
Hot == 2
Hotter == 3

\* m_HsTriggered
NeverMissed == 0
MissedAcked == 1
MissedNoAck == 2

\* The pin reads a rating the table knows, a short circuit or no cable.
ASSUME CableAssumption ==
    /\ PpEnabled \in BOOLEAN
    /\ Cables \subseteq {PpShort, PpAbsent} \union (MinCapacity .. MaxCapacityL2)
    /\ PpAbsent \in Cables

ASSUME RangeAssumption ==
    /\ Requests \subseteq 0 .. 255 /\ HwLimits \subseteq 0 .. 255
    /\ Levels \subseteq {1, 2}
    /\ Intervals \subseteq Nat /\ (\A i \in Intervals : i < 65536)
    /\ Fallbacks \subseteq 0 .. 255
    /\ Temps \subseteq Nominal .. Hotter /\ Nominal \in Temps

ASSUME ClockAssumption ==
    /\ Unit \in Nat \ {0} /\ IntModulus \in Nat \ {0} /\ MaxSince \in Nat
    /\ \A i \in Intervals : MaxSince * Unit > (i * 1000) % IntModulus

VARIABLES
    level,          \* ECF_L2 as a service level
    caps,           \* EEPROM: the maximum of each level, 0 if never written
    hw,             \* EEPROM: the hardware maximum, 0 if never written
    capacity,       \* m_CurrentCapacity
    offer,          \* the current the pilot's duty cycle advertises, 0 without PWM
    st,             \* m_EvseState: A, B, C, "other", or "off" (sleeping, disabled)
    pp,             \* what the proximity pin would read now
    ppRead,         \* ppMaxAmps: what was read last
    throttled,      \* g_TempMonitor.OverTemperature()
    shutdown,       \* g_TempMonitor.OverTemperatureShutdown()
    temp,           \* the band of the hottest sensor
    interval, fallback, trig,   \* m_HsInterval, m_IFallback, m_HsTriggered
    since,          \* ticks since m_HsLastPulse
    pc              \* idle, hs, release, throttle; hf and pperror are polling loops

eeprom == <<level, caps, hw>>
thermal == <<throttled, shutdown>>
heartbeat == <<interval, fallback, trig, since>>
rated == <<caps, capacity, offer, ppRead>>     \* what SetCurrentCapacity() writes
vars == <<eeprom, capacity, offer, st, pp, ppRead, thermal, temp, heartbeat, pc>>

Connected == {"B", "C"}
Polling == pc \in {"idle", "hf", "pperror"}     \* ProcessInputs() runs
-----------------------------------------------------------------------------
(* The capacity. *)

HwMax(h) == IF h = 0 THEN MaxCapacityL2 ELSE h
LevelMax(l, h) == IF l = 1 THEN MaxCapacityL1 ELSE HwMax(h)
Within(amps, low, high) == IF amps < low THEN low ELSE IF amps > high THEN high ELSE amps

\* What the pin says now; switched off, it is never read.
FreshRating == IF PpEnabled THEN pp ELSE PpAbsent

\* GetMaxCurrentCapacity(): the EEPROM's maximum under the last reading of the pin,
\* short circuit included.
MaxCapacity(l, h, s, read) ==
    LET saved == IF caps[l] = 0 THEN DefaultCapacity[l] ELSE caps[l]
        cable == IF PpEnabled /\ s \in Connected /\ read < saved THEN read ELSE saved
    IN  Within(cable, MinCapacity, LevelMax(l, h))

\* What a temporary setting is held to: a fresh reading may lower it further.
Ceiling(l, h, s, read) ==
    LET max == MaxCapacity(l, h, s, read)
    IN  IF s \in Connected /\ FreshRating \notin {PpShort, PpAbsent} /\ FreshRating < max
        THEN FreshRating ELSE max

\* Faulty: a pilot that is PWM keeps its duty cycle.
SetCurrentCapacityQuiet(amps, save, read, pwm) ==
    LET limit == IF save THEN LevelMax(level', hw') ELSE Ceiling(level', hw', st', read)
    IN  /\ capacity' = Within(amps, MinCapacity, limit)
        /\ caps' = IF save THEN [caps EXCEPT ![level'] = capacity'] ELSE caps
        /\ ppRead' = IF ~save /\ st' \in Connected /\ PpEnabled THEN pp ELSE read
        /\ offer' = IF pwm THEN offer ELSE 0

\* SetCurrentCapacity() in the level, hardware maximum and state of the next state;
\* read is the last reading of the pin and pwm says whether the pilot is PWM.
SetCurrentCapacity(amps, save, read, pwm) ==
    LET limit == IF save THEN LevelMax(level', hw') ELSE Ceiling(level', hw', st', read)
    IN  /\ capacity' = Within(amps, MinCapacity, limit)
        /\ caps' = IF save THEN [caps EXCEPT ![level'] = capacity'] ELSE caps
        /\ ppRead' = IF ~save /\ st' \in Connected /\ PpEnabled THEN pp ELSE read
        /\ offer' = IF pwm THEN capacity' ELSE 0

Advertising == offer # 0

-----------------------------------------------------------------------------
(* Start-up: Init(), SetSvcLevel() of the saved level, EvseReset(). *)

\* The capacity after SetSvcLevel() in the state UNKNOWN and the reading of the pin.
BootCapacity(l, h) ==
    LET max == MaxCapacity(l, h, "other", PpAbsent)
    IN  IF FreshRating # PpShort /\ max > FreshRating THEN FreshRating ELSE max

BootLoop == IF FreshRating = PpShort THEN "pperror" ELSE "idle"

Init ==
    /\ level = 2 /\ caps = <<0, 0>> /\ hw = 0
    /\ pp \in Cables /\ ppRead = FreshRating /\ capacity = BootCapacity(2, 0) /\ offer = 0
    /\ st = "other" /\ pc = BootLoop
    /\ throttled = FALSE /\ shutdown = FALSE /\ temp = Nominal
    /\ interval = 0 /\ fallback = 0 /\ trig = NeverMissed /\ since = 0

\* The EEPROM keeps the limits, the level and the heartbeat's setpoints.
PowerCycle ==
    /\ Polling
    /\ capacity' = BootCapacity(level, hw) /\ ppRead' = FreshRating /\ offer' = 0
    /\ st' = "other" /\ pc' = BootLoop
    /\ throttled' = FALSE /\ shutdown' = FALSE
    /\ trig' = NeverMissed /\ since' = 0
    /\ UNCHANGED <<eeprom, pp, temp, interval, fallback>>

\* DoPPError() ends once the pin is no longer shorted.
ShortGone ==
    /\ pc = "pperror" /\ pp # PpShort
    /\ ppRead' = pp /\ st' = "other" /\ pc' = "idle"
    /\ UNCHANGED <<eeprom, capacity, offer, pp, thermal, temp, heartbeat>>
-----------------------------------------------------------------------------
(* A pass of Update(). *)

Passing == pc = "idle" /\ st # "off"
Transited == UNCHANGED <<level, hw, pp, thermal, temp, heartbeat>>

NoTransition ==
    /\ Passing /\ pc' = "hs" /\ UNCHANGED <<caps, capacity, offer, st, ppRead>>
    /\ Transited

\* To state A, or to a fault the charger polls through: the pilot goes to +12 V.
LeaveVehicle ==
    /\ Passing /\ st' \in {"A", "other"} /\ offer' = 0 /\ pc' = "hs"
    /\ UNCHANGED <<caps, capacity, ppRead>> /\ Transited

\* Faulty: the rating of the cable is not applied.
CableSeenBlind ==
    /\ Passing /\ FreshRating # PpShort /\ (PpEnabled => pp # PpAbsent)
    /\ \E s \in Connected \ {st} : st' = s
    /\ Transited /\ pc' = "hs" /\ ppRead' = IF PpEnabled THEN pp ELSE ppRead
    /\ offer' = capacity /\ UNCHANGED <<caps, capacity>>

\* StateTransitionReqFunc() reads the pin when the state becomes B or C, and
\* AutoSetCurrentCapacity() only ever lowers.
CableSeen ==
    /\ Passing /\ FreshRating # PpShort /\ (PpEnabled => pp # PpAbsent)
    /\ \E s \in Connected \ {st} : st' = s
    /\ Transited /\ pc' = "hs"
    /\ IF PpEnabled /\ capacity > pp THEN SetCurrentCapacity(pp, FALSE, pp, TRUE)
       ELSE /\ ppRead' = IF PpEnabled THEN pp ELSE ppRead
            /\ offer' = capacity /\ UNCHANGED <<caps, capacity>>

\* PP_SHORTED or PP_MISSING.
CableRefused ==
    /\ Passing /\ PpEnabled /\ pp \in {PpShort, PpAbsent}
    /\ st' = "other" /\ offer' = 0 /\ ppRead' = pp /\ pc' = "hs"
    /\ UNCHANGED <<caps, capacity>> /\ Transited

\* HardFault() polls until the vehicle is gone, some faults for good; a stuck relay
\* leaves the pilot alone.
HardFault ==
    /\ Passing /\ st' = "other" /\ offer' \in {0, offer} /\ pc' = "hf"
    /\ UNCHANGED <<caps, capacity, ppRead>> /\ Transited

\* In C the self test, a stuck relay or the current can end in HardFault() before the
\* pass gets to the heartbeat.
FaultInC ==
    /\ pc = "hs" /\ st = "C" /\ st' = "other" /\ offer' \in {0, offer} /\ pc' = "hf"
    /\ UNCHANGED <<caps, capacity, ppRead>> /\ Transited

HardFaultEnds ==
    /\ pc = "hf" /\ st' = "other" /\ pc' = "hs"
    /\ UNCHANGED <<caps, capacity, offer, ppRead>> /\ Transited

\* The product is an unsigned int.
Deadline == (interval * 1000) % IntModulus

Expired == interval # 0 /\ since * Unit > Deadline

\* Faulty: once missed, the limit is not looked at again.
HsExpirationCheckOnce ==
    /\ pc = "hs" /\ pc' = "release"
    /\ UNCHANGED <<level, hw, st, pp, thermal, temp, interval, fallback>>
    /\ IF ~Expired \/ trig = MissedNoAck THEN UNCHANGED <<rated, trig, since>>
       ELSE /\ trig' = MissedNoAck /\ since' = 0
            /\ IF fallback < capacity
               THEN SetCurrentCapacity(fallback, FALSE, ppRead, Advertising)
               ELSE UNCHANGED rated

HsExpirationCheck ==
    /\ pc = "hs" /\ pc' = "release"
    /\ UNCHANGED <<level, hw, st, pp, thermal, temp, interval, fallback>>
    /\ IF ~Expired THEN UNCHANGED <<rated, trig, since>>
       ELSE /\ trig' = MissedNoAck /\ since' = 0
            /\ IF fallback < capacity
               THEN SetCurrentCapacity(fallback, FALSE, ppRead, Advertising)
               ELSE UNCHANGED rated

MaxNow == MaxCapacity(level, hw, st, ppRead)

\* A changed flag turns PWM on, whatever the state.
Retune(amps) == SetCurrentCapacity(amps, FALSE, ppRead, TRUE)

\* The first of the two conditions wins, so leaving both takes two passes.
Release ==
    /\ pc = "release" /\ pc' = IF st = "C" THEN "throttle" ELSE "idle"
    /\ UNCHANGED <<level, hw, st, pp, temp, heartbeat>>
    /\ IF throttled /\ temp = Nominal
       THEN throttled' = FALSE /\ UNCHANGED shutdown /\ Retune(MaxNow)
       ELSE IF shutdown /\ temp <= Warm
       THEN shutdown' = FALSE /\ UNCHANGED throttled /\ Retune(MaxNow \div 2)
       ELSE UNCHANGED <<rated, thermal>>

\* The sensors are looked at once per second of charging.
Throttle ==
    /\ pc = "throttle" /\ pc' = "idle"
    /\ UNCHANGED <<level, hw, st, pp, temp, heartbeat>>
    /\ \/ UNCHANGED <<rated, thermal>>
       \/ /\ ~throttled /\ temp >= Hot
          /\ throttled' = TRUE /\ UNCHANGED shutdown /\ Retune(MaxNow \div 2)
       \/ /\ throttled /\ ~shutdown /\ temp = Hotter
          /\ shutdown' = TRUE /\ UNCHANGED throttled /\ Retune(MaxNow \div 4)
-----------------------------------------------------------------------------
(* Commands. *)

Served == UNCHANGED <<st, pp, thermal, temp, pc>>
SilentSet == UNCHANGED heartbeat /\ Served

\* Faulty: $SC does not look at the throttle.
SetCapacityUnguarded(amps, volatile) ==
    /\ Polling
    /\ UNCHANGED <<level, hw>> /\ SilentSet
    /\ SetCurrentCapacity(amps, ~volatile, ppRead, Advertising)

\* $SC amps, and $SC amps V: no raise while throttled.
SetCapacity(amps, volatile) ==
    /\ Polling /\ ~(throttled /\ amps > capacity)
    /\ UNCHANGED <<level, hw>> /\ SilentSet
    /\ SetCurrentCapacity(amps, ~volatile, ppRead, Advertising)

\* Faulty: the new maximum is not checked.
SetMaxHwCurrentCapacityUnchecked(amps) ==
    /\ Polling /\ hw = 0
    /\ hw' = amps /\ UNCHANGED level /\ SilentSet
    /\ IF capacity > amps THEN SetCurrentCapacity(amps, FALSE, ppRead, Advertising)
       ELSE UNCHANGED rated

\* Faulty: a capacity above the new maximum stays.
SetMaxHwCurrentCapacityOnly(amps) ==
    /\ Polling /\ amps \in MinCapacity .. MaxCapacityL2 /\ hw = 0
    /\ hw' = amps /\ UNCHANGED <<level, rated>> /\ SilentSet

\* $SC amps M: once in the life of the board.
SetMaxHwCurrentCapacity(amps) ==
    /\ Polling /\ amps \in MinCapacity .. MaxCapacityL2 /\ hw = 0
    /\ hw' = amps /\ UNCHANGED level /\ SilentSet
    /\ IF capacity > amps THEN SetCurrentCapacity(amps, FALSE, ppRead, Advertising)
       ELSE UNCHANGED rated

\* $SL: the level's maximum, temporarily.
SetSvcLevel(l) ==
    /\ Polling /\ level' = l /\ UNCHANGED hw /\ SilentSet
    /\ SetCurrentCapacity(MaxCapacity(l, hw, st, ppRead), FALSE, ppRead, Advertising)

\* $SY
HsPulse ==
    /\ Polling /\ since' = 0
    /\ UNCHANGED <<level, hw, rated, interval, fallback, trig>> /\ Served

\* HsRestoreAmpacity(): to the maximum, unless throttled.
HsRestoreAmpacity ==
    IF trig # NeverMissed /\ ~throttled
    THEN SetCurrentCapacity(MaxNow, FALSE, ppRead, Advertising)
    ELSE UNCHANGED rated

\* $SY interval fallback; the pulse it implies and the EEPROM included.
HeartbeatSupervision(i, amps) ==
    /\ Polling
    /\ interval' = i /\ fallback' = amps /\ trig' = NeverMissed /\ since' = 0
    /\ UNCHANGED <<level, hw>> /\ Served
    /\ IF i = 0 THEN HsRestoreAmpacity ELSE UNCHANGED rated

\* $SY 165: acknowledged when the maximum could be set in full.
HsAckMissedPulse ==
    /\ Polling /\ trig = MissedNoAck
    /\ UNCHANGED <<level, hw, interval, fallback, since>> /\ Served
    /\ HsRestoreAmpacity
    /\ trig' = IF ~throttled /\ capacity' = MaxNow THEN MissedAcked ELSE trig

\* $FS and $FD
SwitchOff ==
    /\ Polling /\ st # "off" /\ st' = "off" /\ offer' = 0
    /\ UNCHANGED <<eeprom, capacity, pp, ppRead, thermal, temp, heartbeat, pc>>

\* $FE
Enable ==
    /\ Polling /\ st = "off" /\ st' = "other" /\ offer' = 0
    /\ UNCHANGED <<eeprom, capacity, pp, ppRead, thermal, temp, heartbeat, pc>>
-----------------------------------------------------------------------------
(* The interrupt and the environment. *)

\* SetGfiTripped() sets the pilot to +12 V.
GfiInterrupt ==
    /\ offer # 0 /\ offer' = 0
    /\ UNCHANGED <<eeprom, capacity, st, pp, ppRead, thermal, temp, heartbeat, pc>>

\* A cable can be pulled at any time and another one plugged in once the charger has
\* noticed.
ChangeCable ==
    /\ \E cable \in Cables \ {pp} : pp' = cable /\ (st \in Connected => cable = PpAbsent)
    /\ UNCHANGED <<eeprom, capacity, offer, st, ppRead, thermal, temp, heartbeat, pc>>

\* TempMonitor::Read() runs once a second in ProcessInputs().
ChangeTemperature ==
    /\ Polling /\ \E t \in Temps \ {temp} : temp' = t
    /\ UNCHANGED <<eeprom, capacity, offer, st, pp, ppRead, thermal, heartbeat, pc>>

Tick ==
    /\ Polling /\ since < MaxSince /\ since' = since + 1
    /\ UNCHANGED <<eeprom, capacity, offer, st, pp, ppRead, thermal, temp, interval, fallback,
                   trig, pc>>
-----------------------------------------------------------------------------
Pass ==
    \/ NoTransition \/ LeaveVehicle \/ CableSeen \/ CableRefused \/ HardFault
    \/ FaultInC \/ HsExpirationCheck \/ Release \/ Throttle

Command ==
    \/ \E amps \in Requests, volatile \in BOOLEAN : SetCapacity(amps, volatile)
    \/ \E amps \in HwLimits : SetMaxHwCurrentCapacity(amps)
    \/ \E l \in Levels : SetSvcLevel(l)
    \/ HsPulse \/ HsAckMissedPulse
    \/ \E i \in Intervals, amps \in Fallbacks : HeartbeatSupervision(i, amps)
    \/ SwitchOff \/ Enable

Environment == GfiInterrupt \/ ChangeCable \/ ChangeTemperature \/ Tick \/ PowerCycle

Next == Pass \/ ShortGone \/ HardFaultEnds \/ Command \/ Environment

Spec == Init /\ [][Next]_vars

\* The processor runs and time passes; nothing is asked of client, vehicle, cable
\* or sensors.
FairSpec == Spec /\ WF_vars(Pass) /\ SF_vars(Tick)
-----------------------------------------------------------------------------
(* Properties. *)

\* The variables keep their types and the EEPROM holds what the setters let through.
TypeOK ==
    /\ level \in {1, 2}
    /\ caps \in [{1, 2} -> {0} \union (MinCapacity .. MaxCapacityL2)]
    /\ hw \in {0} \union (MinCapacity .. MaxCapacityL2)
    /\ capacity \in MinCapacity .. MaxCapacityL2
    /\ offer \in {0} \union (MinCapacity .. MaxCapacityL2)
    /\ st \in Connected \union {"A", "other", "off"}
    /\ pp \in Cables /\ ppRead \in Cables
    /\ throttled \in BOOLEAN /\ shutdown \in BOOLEAN /\ temp \in Temps
    /\ interval \in Intervals \union {0} /\ fallback \in Fallbacks \union {0}
    /\ trig \in {NeverMissed, MissedAcked, MissedNoAck} /\ since \in 0 .. MaxSince
    /\ pc \in {"idle", "hs", "release", "throttle", "hf", "pperror"}

\* Whichever writer came last, the capacity stays within what the service level and the
\* hardware allow (J1772's minimum, MAX_CURRENT_CAPACITY_L1, m_MaxHwCurrentCapacity),
\* although limits, levels and the hardware maximum change under it.
CapacityBounds == capacity \in MinCapacity .. LevelMax(level, hw)

\* The duty cycle never advertises a stale current: while the pilot is PWM it says what
\* m_CurrentCapacity says.
OfferIsCapacity == offer \in {0, capacity}

\* With a vehicle connected through a cable the pin has a rating for, more than that
\* rating is offered only where the client saved the higher limit to EEPROM ($SC without
\* V looks at the level's maximum only).
CableRespected ==
    PpEnabled /\ st \in Connected /\ pp \notin {PpShort, PpAbsent}
      => capacity <= pp \/ capacity = caps[level]

Half == Within(MaxNow \div 2, MinCapacity, MaxCapacityL2)

\* While the charger stays throttled only thermal steps raise the capacity, and to no more
\* than half the maximum: neither the client's $SC nor the end of a heartbeat limit lifts
\* it.  Changing the service level does (SetSvcLevel() does not look at the flag).
ThrottleHolds ==
    [][throttled /\ throttled' /\ capacity' > capacity
         => capacity' <= Half \/ (\E l \in Levels : SetSvcLevel(l))]_vars

Silent == <>[][~(Command \/ PowerCycle)]_vars
Steady == <>[][temp' = temp]_vars

\* The fallback current of the heartbeat, as far as the minimum lets it be set.
FallbackLimit == Within(fallback, MinCapacity, 255)

\* A client that has fallen silent with supervision on ends in the fallback current,
\* whatever else raised the capacity in between, as long as passes reach the check.
HeartbeatLimitReturns ==
    Silent /\ Steady /\ []<>(pc = "hs") => <>[](interval # 0 => capacity <= FallbackLimit)

\* "If no pulse for 100 seconds": supervision never reports a missed pulse before the
\* interval is over.
HsNotEarly ==
    [][trig' = MissedNoAck /\ trig # MissedNoAck => since * Unit > interval * 1000]_vars

\* "set EVE ampacity limit to 6A until missed pulse is acknowledged": after a missed pulse
\* the capacity stays at the fallback until somebody acknowledges.
HsLimitKept ==
    [][trig = MissedNoAck /\ trig' = MissedNoAck /\ capacity <= FallbackLimit
         => capacity' <= FallbackLimit]_vars

\* "Throttle back the L2 current advice to the EV": throttling never raises the current.
ThrottleLowers == [][Throttle => capacity' <= capacity]_vars

\* "recover to this level we can kick the current back up to the user's original amperage
\* setting": the pass that ends the last thermal limit leaves the maximum.
CoolMeansFull ==
    [][(throttled \/ shutdown) /\ ~throttled' /\ ~shutdown' /\ temp = Nominal
         => capacity' = MaxNow \/ PowerCycle]_vars
=============================================================================
