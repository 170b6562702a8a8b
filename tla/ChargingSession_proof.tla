------------------------ MODULE ChargingSession_proof ------------------------
(***************************************************************************)
(* Sessions: the controller underneath is the one EvseController specifies, *)
(* the connector lock follows the vehicle, the charge time is the time the  *)
(* contacts were closed, and energy is metered, and booked once.            *)
(***************************************************************************)
EXTENDS ChargingSession, EvseService_proof

\* Every step is a step of the controller or leaves it alone.
LEMMA ControllerStep == ASSUME [SessionNext]_sessionVars PROVE [Next]_vars
  <1>1. CASE UpdateBegins \/ UpdateAsleep \/ UpdateDisabled
    BY <1>1 DEF UpdateBegins, UpdateAsleep, UpdateDisabled, Next, Program
  <1>2. CASE UpdateGoesOn
    BY <1>2 DEF UpdateGoesOn, InPass, Next, Program, AfterTransition
  <1>3. CASE UpdateFinishes
    BY <1>3 DEF UpdateFinishes, Next, Program, AfterTransition
  <1>4. CASE ChargingOn
    BY <1>4 DEF ChargingOn, Next, Program, Transition
  <1>5. CASE HardFaultTurn
    BY <1>5 DEF HardFaultTurn, Next, Program
  <1>6. CASE \/ MeterUpdate \/ (\E n \in Totals : SetTotkWh(n))
             \/ (\E c \in LockCommands : Mennekes(c))
    BY <1>6 DEF MeterUpdate, SetTotkWh, Mennekes
  <1>7. CASE DisableUnlocks \/ ResetTotkWh
    BY <1>7 DEF DisableUnlocks, ResetTotkWh, Next, Command
  <1>8. CASE Restarts
    BY <1>8 DEF Restarts, Next
  <1>9. CASE Unnoticed
    BY <1>9 DEF Unnoticed, Next, Command, Program
  <1>10. CASE TimePasses
    BY <1>10 DEF TimePasses, Next
  <1>11. CASE UNCHANGED sessionVars
    BY <1>11 DEF sessionVars
  <1>12. QED
    BY <1>1, <1>2, <1>3, <1>4, <1>5, <1>6, <1>7, <1>8, <1>9, <1>10, <1>11 DEF SessionNext

\* Lock, meter and charge time hang on to the controller without changing what it does:
\* a station with them is a charge controller as EvseController specifies it, so that all
\* its theorems hold of the station, too.
THEOREM SessionsLeaveController == SessionSpec => Spec
  <1>1. SessionInit => Init
    BY DEF SessionInit
  <1>2. [SessionNext]_sessionVars => [Next]_vars
    BY ControllerStep
  <1>3. QED
    BY <1>1, <1>2, PTL DEF SessionSpec, Spec

\* Between the first reading of the pilot and the end of a pass nobody connects, and
\* nobody is served.
LEMMA InPassStep ==
  ASSUME InPass
  PROVE  conn' = conn /\ pc \notin Polling \union {"reboot"}
  <1> USE DEF Polling, ctl
  <1>1. CASE SupplyCheck
    BY <1>1
      DEF SupplyCheck, Supplied, SupplyDone, CgmiGroundFault, RelayClosureFault,
          GroundFaultUnderLoad, GroundFaultUnplugged, GroundFaultRetry, GroundFaultStays,
          StuckReading, SupplyGood
  <1>2. CASE GfiCheck
    BY <1>2
      DEF GfiCheck, TripChecked, TripHandled, NoTrip, TripNoticed, TripUnplugged, TripStays,
          TripRetried, TripGivenUp
  <1>3. CASE FaultChosen \/ PilotChosen
    BY <1>3 DEF FaultChosen, PilotChosen, StateChosen
  <1>4. CASE Transition
    BY <1>4
      DEF Transition, Becomes, Acted, BecomesA, BecomesB, BecomesC, BecomesFault,
          BecomesHardFault, BecomesStuckRelay, BecomesOverTemperature, OverTemperatureOpens,
          SelfTestNotReady, SelfTestStarts, SelfTestPinStays, SelfTestNoTrip, SelfTestFails,
          SelfTestPasses, CloseContacts, HoldContacts, ContactsClosed
  <1>5. CASE EarlyHardFault \/ CurrentChecked \/ OverCurrent \/ OverCurrentOpens
    BY <1>5 DEF EarlyHardFault, CurrentChecked, OverCurrent, OverCurrentOpens, Acted
  <1>6. QED
    BY <1>1, <1>2, <1>3, <1>4, <1>5 DEF InPass

LEMMA LockStep ==
  ASSUME Offered, LockFollowsVehicle, [SessionNext]_sessionVars
  PROVE  LockFollowsVehicle'
  <1> USE DEF LockFollowsVehicle, lock
  <1>1. CASE UpdateBegins
    <2>1. pilot # "N12" /\ manual' = manual
      BY <1>1 DEF UpdateBegins, PassBegins, Offered, N12Where
    <2>2. QED
      BY <1>1, <2>1 DEF UpdateBegins, ReadsPilot
  <1>2. CASE UpdateAsleep \/ UpdateDisabled
    BY <1>2 DEF UpdateAsleep, UpdateDisabled, PassSleeping, PassDisabled, flow, Polling
  <1>3. CASE UpdateGoesOn
    <2>1. conn' = conn /\ pc \notin Polling \union {"reboot"}
      BY <1>3, InPassStep DEF UpdateGoesOn
    <2>2. QED
      BY <1>3, <2>1 DEF UpdateGoesOn, session
  <1>4. CASE UpdateFinishes
    BY <1>4 DEF UpdateFinishes, Finish, EndPass, Polling
  <1>5. CASE ChargingOn
    BY <1>5 DEF ChargingOn, ContactsClosed, Acted, Polling
  <1>6. CASE HardFaultTurn
    BY <1>6 DEF HardFaultTurn, HardFaultPolls, HardFaultEnds, ReadsPilot, flow, Polling
  <1>7. CASE MeterUpdate \/ UNCHANGED sessionVars
    BY <1>7 DEF MeterUpdate, sessionVars, session, vars
  <1>8. CASE DisableUnlocks
    BY <1>8 DEF DisableUnlocks, Disable, Receives
  <1>9. CASE ResetTotkWh
    BY <1>9 DEF ResetTotkWh, ResetFaultCounters, Receives
  <1>10. CASE Restarts
    BY <1>10 DEF Restarts, Reset, PowerUp
  <1>11. CASE (\E n \in Totals : SetTotkWh(n)) \/ (\E c \in LockCommands : Mennekes(c))
    BY <1>11 DEF SetTotkWh, Mennekes, vars
  <1>12. CASE Unnoticed
    <2> USE DEF session, flow, ctl, Polling
    <2>1. CASE Enable \/ Sleep \/ Reboot \/ ClearBootLock \/ (\E c \in Toggles : Feature(c))
      BY <1>12, <2>1 DEF Unnoticed, Enable, Sleep, Reboot, ClearBootLock, Feature, Receives
    <2>2. CASE EvChanges \/ TempRead \/ GfiInterrupt
      BY <1>12, <2>2 DEF Unnoticed, EvChanges, TempRead, GfiInterrupt
    <2>3. CASE Boot
      BY <1>12, <2>3 DEF Unnoticed, Boot, PostFails, PostPasses, PpErrorEnds
    <2>4. QED
      BY <1>12, <2>1, <2>2, <2>3 DEF Unnoticed
  <1>13. CASE TimePasses
    BY <1>13 DEF TimePasses, Tick, flow
  <1>14. QED
    BY <1>1, <1>2, <1>3, <1>4, <1>5, <1>6, <1>7, <1>8, <1>9, <1>10, <1>11, <1>12, <1>13
      DEF SessionNext

\* In automatic mode the lock follows the vehicle: whatever $S5, $FD and changes of the
\* mode did to it, from the reading of the pilot to the end of the pass it is locked exactly
\* with a vehicle connected. A proximity pin that is shorted during start-up is excluded.
THEOREM ConnectorFollowsVehicle ==
  ASSUME Sheltered, "pp" \notin Faults
  PROVE  SessionSpec => []LockFollowsVehicle
  <1>1. SessionSpec => []Offered
    BY SessionsLeaveController, OfferedAlways, PTL
  <1>2. SessionInit => LockFollowsVehicle
    BY DEF SessionInit, Init, LockFollowsVehicle
  <1>3. Offered /\ LockFollowsVehicle /\ [SessionNext]_sessionVars => LockFollowsVehicle'
    BY LockStep
  <1>4. QED
    BY <1>1, <1>2, <1>3, PTL DEF SessionSpec

-----------------------------------------------------------------------------
(* Arithmetic of the total, which has the width of a 32-bit word.            *)

\* What % and \div return.
LEMMA Division ==
  ASSUME NEW a \in Int, NEW m \in Int, m > 0
  PROVE  a = m * (a \div m) + (a % m)
  OBVIOUS

\* The remainder is below the modulus, the quotient an integer.
LEMMA ModDef ==
  ASSUME NEW a \in Int, NEW m \in Nat \ {0}
  PROVE  /\ a % m \in 0 .. m - 1
         /\ a \div m \in Int
         /\ a = m * (a \div m) + (a % m)
  <1>1. m \in Int /\ m > 0
    OBVIOUS
  <1>2. a % m \in 0 .. m - 1
    OBVIOUS
  <1>3. a \div m \in Int
    OBVIOUS
  <1>4. QED
    BY <1>1, <1>2, <1>3, Division

\* Whole units of a are a number, and worth at most a.
LEMMA DivNat ==
  ASSUME NEW a \in Nat, NEW u \in Nat \ {0}
  PROVE  a \div u \in Nat /\ u * (a \div u) <= a
  OBVIOUS

\* A negative number of moduli is at most minus one of them.
LEMMA MulLess ==
  ASSUME NEW m \in Nat \ {0}, NEW k \in Int, k < 0
  PROVE  m * k <= 0 - m
  OBVIOUS

\* The growth of a wrapping counter is never more than what was added.
LEMMA Wrapped ==
  ASSUME NEW m \in Nat \ {0}, NEW t \in 0 .. m - 1, NEW q \in Nat
  PROVE  (((t + q) % m) - t) % m \in 0 .. q
  <1> DEFINE r == (t + q) % m
             k == (t + q) \div m
             j == (r - t) \div m
             x == (r - t) % m
  <1>1. r \in Int /\ k \in Int /\ t + q = m * k + r
    BY ModDef
  <1> HIDE DEF r, k
  <1>2. r - t \in Int
    BY <1>1
  <1>3. j \in Int /\ x \in 0 .. m - 1 /\ r - t = m * j + x
    BY <1>2, ModDef
  <1> HIDE DEF j, x
  <1>4. x = q - (m * k + m * j) /\ m * k + m * j = m * (k + j)
    <2>1. x = q - (m * k + m * j)
      BY <1>1, <1>3
    <2>2. m * k + m * j = m * (k + j)
      BY <1>1, <1>3
    <2>3. QED
      BY <2>1, <2>2
  <1>5. CASE k + j < 0
    BY <1>1, <1>3, <1>4, <1>5, MulLess
  <1>6. CASE k + j >= 0
    <2>1. m * (k + j) >= 0
      BY <1>1, <1>3, <1>6
    <2>2. QED
      BY <1>3, <1>4, <2>1
  <1>7. QED
    BY <1>1, <1>3, <1>5, <1>6 DEF x, r

\* Whole units of w, each worth u, are worth at most w.
LEMMA BookedSmall ==
  ASSUME NEW u \in Nat \ {0}, NEW w \in Nat, NEW x \in 0 .. (w \div u)
  PROVE  u * x <= w
  <1> DEFINE q == w \div u
  <1>1. q \in Nat /\ u * q <= w
    BY DivNat
  <1> HIDE DEF q
  <1>2. u * x <= u * q
    BY <1>1 DEF q
  <1>3. QED
    BY <1>1, <1>2 DEF q

-----------------------------------------------------------------------------
(* Type correctness of the session.                                          *)

Meters == [conn : BOOLEAN, closed : BOOLEAN, on : BOOLEAN, ws : Nat, since : Nat]

\* An update of the meter returns a meter.
LEMMA MeterType ==
  ASSUME TypeOK, NEW m \in Meters
  PROVE  [AfterUsage(AfterConnect(m)) EXCEPT !.conn = conn] \in Meters
  <1>1. conn \in BOOLEAN
    BY DEF TypeOK
  <1>2. AfterConnect(m) \in Meters
    BY <1>1 DEF AfterConnect, Meters
  <1>3. \A n \in Meters : AfterUsage(n) \in Meters
    <2> SUFFICES ASSUME NEW n \in Meters PROVE AfterUsage(n) \in Meters
      OBVIOUS
    <2>1. n.ws + n.since \in Nat
      BY DEF Meters
    <2>2. /\ [n EXCEPT !.closed = FALSE] \in Meters
          /\ [n EXCEPT !.closed = TRUE, !.since = 0] \in Meters
          /\ [n EXCEPT !.ws = @ + n.since, !.since = 0] \in Meters
      BY <2>1 DEF Meters
    <2>3. QED
      BY <2>2 DEF AfterUsage
  <1>4. QED
    BY <1>1, <1>2, <1>3 DEF Meters

\* Booking keeps the total within its width.
LEMMA BookedType ==
  ASSUME SessionTypeOK
  PROVE  Booked \in 0 .. TotModulus - 1
  <1>1. meter.ws \in Nat /\ TotModulus \in Nat \ {0} /\ WhUnit \in Nat \ {0}
    BY SessionAssumption DEF SessionTypeOK
  <1>2. total \in 0 .. TotModulus - 1 /\ total + meter.ws \div WhUnit \in Int
    BY <1>1, DivNat DEF SessionTypeOK
  <1>3. (total + meter.ws \div WhUnit) % TotModulus \in 0 .. TotModulus - 1
    BY <1>1, <1>2, ModDef
  <1>4. QED
    BY <1>2, <1>3 DEF Booked

\* Every step keeps the types.
LEMMA SessionTypeStep ==
  ASSUME TypeOK, TypeOK', SessionTypeOK, [SessionNext]_sessionVars
  PROVE  SessionTypeOK'
  <1> USE SessionAssumption DEF SessionTypeOK, Meters, lock, times, history, session
  <1>1. ASSUME UpdateBegins PROVE SessionTypeOK'
    <2>1. conn \in BOOLEAN /\ conn' \in BOOLEAN
      BY DEF TypeOK
    <2>2. connPrev' \in BOOLEAN /\ ended' \in BOOLEAN /\ locked' \in BOOLEAN
      BY <1>1, <2>1 DEF UpdateBegins, ReadsPilot
    <2>3. /\ accumulated' \in Nat /\ elapsed' \in Nat
          /\ closedFor' \in Nat /\ chargedFor' \in Nat /\ closings' \in Nat
      BY <1>1 DEF UpdateBegins, ChargeTimeStarts
    <2>4. QED
      BY <1>1, <2>2, <2>3 DEF UpdateBegins
  <1>2. ASSUME UpdateAsleep PROVE SessionTypeOK'
    <2>1. conn \in BOOLEAN /\ conn' \in BOOLEAN
      BY DEF TypeOK
    <2>2. connPrev' \in BOOLEAN /\ ended' \in BOOLEAN /\ locked' \in BOOLEAN
      BY <1>2, <2>1 DEF UpdateAsleep, ReadsPilot
    <2>3. /\ accumulated' \in Nat /\ elapsed' \in Nat
          /\ closedFor' \in Nat /\ chargedFor' \in Nat /\ closings' \in Nat
      BY <1>2 DEF UpdateAsleep, ChargeTimeStarts
    <2>4. QED
      BY <1>2, <2>2, <2>3 DEF UpdateAsleep
  <1>3. ASSUME UpdateDisabled PROVE SessionTypeOK'
    BY <1>3 DEF UpdateDisabled
  <1>4. ASSUME UpdateGoesOn PROVE SessionTypeOK'
    BY <1>4 DEF UpdateGoesOn, PassOver
  <1>5. ASSUME UpdateFinishes PROVE SessionTypeOK'
    BY <1>5 DEF UpdateFinishes
  <1>6. ASSUME ChargingOn PROVE SessionTypeOK'
    <2>1. accumulated' \in Nat /\ elapsed' \in Nat /\ ended' \in BOOLEAN
      <3>1. ended => accumulated' = 0 /\ elapsed' = elapsed /\ ~ended'
        BY <1>6, Zenon DEF ChargingOn
      <3>2. ~ended => accumulated' = accumulated + elapsed /\ elapsed' = 0 /\ ended' = ended
        BY <1>6, Zenon DEF ChargingOn
      <3>3. ended' \in BOOLEAN
        BY <1>6, Zenon DEF ChargingOn
      <3>4. QED
        BY <3>1, <3>2, <3>3
    <2>2. onFor' \in Nat /\ closings' \in Nat
      BY <1>6 DEF ChargingOn
    <2>3. QED
      BY <1>6, <2>1, <2>2 DEF ChargingOn
  <1>7. ASSUME HardFaultTurn PROVE SessionTypeOK'
    BY <1>7 DEF HardFaultTurn, ReadsPilot, PassOver, HardFaultPolls, HardFaultEnds, TypeOK
  <1>8. ASSUME MeterUpdate PROVE SessionTypeOK'
    <2>1. meter' \in Meters
      BY <1>8, MeterType DEF MeterUpdate
    <2>2. total' \in 0 .. TotModulus - 1
      BY <1>8, BookedType DEF MeterUpdate
    <2>3. unbooked' \in Int
      <3>1. total' - total \in Int
        BY <2>2
      <3>2. (total' - total) % TotModulus \in Int
        BY <3>1, ModDef
      <3> DEFINE x == (total' - total) % TotModulus
      <3> HIDE DEF x
      <3>3. WhUnit * x \in Int
        BY <3>2 DEF x
      <3>4. QED
        BY <1>8, <3>3 DEF MeterUpdate, x
    <2>4. QED
      BY <1>8, <2>1, <2>2, <2>3 DEF MeterUpdate
  <1>9. ASSUME DisableUnlocks PROVE SessionTypeOK'
    BY <1>9 DEF DisableUnlocks
  <1>10. ASSUME ResetTotkWh PROVE SessionTypeOK'
    BY <1>10 DEF ResetTotkWh
  <1>11. ASSUME Restarts PROVE SessionTypeOK'
    <2>1. meter' \in Meters
      BY <1>11 DEF Restarts, NewMeter
    <2>2. locked' \in BOOLEAN /\ manual' \in BOOLEAN /\ connPrev' \in BOOLEAN /\ ended' \in BOOLEAN
      BY <1>11, Zenon DEF Restarts
    <2>3. /\ accumulated' = 0 /\ elapsed' = 0 /\ onFor' = 0
          /\ closedFor' = 0 /\ chargedFor' = 0 /\ closings' = 0
          /\ total' = total /\ unbooked' = 0 /\ stage' = "run"
      BY <1>11, Zenon DEF Restarts
    <2>4. QED
      BY <2>1, <2>2, <2>3
  <1>12. ASSUME NEW n \in Totals, SetTotkWh(n) PROVE SessionTypeOK'
    <2>1. n \in Int
      OBVIOUS
    <2>2. n % TotModulus \in 0 .. TotModulus - 1
      BY <2>1, ModDef
    <2>3. QED
      BY <1>12, <2>2 DEF SetTotkWh
  <1>13. ASSUME NEW c \in LockCommands, Mennekes(c) PROVE SessionTypeOK'
    BY <1>13 DEF Mennekes
  <1>14. ASSUME Unnoticed PROVE SessionTypeOK'
    BY <1>14 DEF Unnoticed
  <1>15. ASSUME TimePasses PROVE SessionTypeOK'
    <2>1. meter' \in Meters
      BY <1>15 DEF TimePasses, Least
    <2>2. QED
      BY <1>15, <2>1 DEF TimePasses
  <1>16. ASSUME UNCHANGED sessionVars PROVE SessionTypeOK'
    BY <1>16 DEF sessionVars
  <1>17. QED
    BY <1>1, <1>2, <1>3, <1>4, <1>5, <1>6, <1>7, <1>8, <1>9, <1>10, <1>11, <1>12, <1>13,
       <1>14, <1>15, <1>16 DEF SessionNext

\* Type correctness of lock, charge time and meter: no time or energy of a session is
\* negative, and the total stays within its 32 bits although every session is added to it.
THEOREM SessionTypeCorrect == SessionSpec => []SessionTypeOK
  <1>1. SessionInit => SessionTypeOK
    <2> SUFFICES ASSUME SessionInit PROVE SessionTypeOK
      OBVIOUS
    <2>1. NewMeter \in Meters /\ 0 \in 0 .. TotModulus - 1
      BY SessionAssumption DEF NewMeter, Meters
    <2>2. locked \in BOOLEAN /\ manual \in BOOLEAN /\ connPrev \in BOOLEAN /\ ended \in BOOLEAN
      BY Zenon DEF SessionInit
    <2>3. /\ accumulated = 0 /\ elapsed = 0 /\ onFor = 0
          /\ closedFor = 0 /\ chargedFor = 0 /\ closings = 0
          /\ meter = NewMeter /\ total = 0 /\ unbooked = 0 /\ stage = "run"
      BY Zenon DEF SessionInit
    <2>4. QED
      BY <2>1, <2>2, <2>3 DEF SessionTypeOK, Meters
  <1>2. TypeOK /\ TypeOK' /\ SessionTypeOK /\ [SessionNext]_sessionVars => SessionTypeOK'
    BY SessionTypeStep
  <1>3. SessionSpec => []TypeOK
    BY SessionsLeaveController, TypeCorrect, PTL
  <1>4. QED
    BY <1>1, <1>2, <1>3, PTL DEF SessionSpec

-----------------------------------------------------------------------------
(* Who is served.  Clock and meter count while the contacts are closed and   *)
(* while the state is C, so they are right only if neither happens without a  *)
(* vehicle that a pass has noticed.                                          *)

\* Where the program is: starting up, between the first reading of the pilot and the
\* choice of the state, past its transition, on its way to closed contacts.
Starting == {"boot", "bootlock", "postfault", "pperror"}
Sampled == {"supply", "gfi", "pilot"}
Ending == {"tail", "finish", "idle"}
Closing == {"selftest", "testrun", "close", "holding", "closed"}

\* Where a vehicle is known to be connected, and where nobody is.
VehicleWhere ==
    /\ pc \in Sampled /\ pass.level = "charge" => conn
    /\ (pc = "act" /\ state = "C") \/ pc \in Closing => conn
    /\ pc \in Starting => ~conn /\ state \notin {"B", "C"}
    /\ pilot = "N12" => ~relay /\ state # "C" /\ (state = "DISABLED" \/ ~conn)
    /\ state = "SLEEPING" => pilot # "PWM" /\ pc \in Polling \union {"reboot"}

\* Contacts that are open in state C were opened by a trip that a pass will still look at.
TripWhere ==
    pc \in Sampled \union Ending \union {"holding", "closed"} /\ state = "C" /\ ~relay
      => gfiFault

\* Where no trip and no over-current ends it, state C is not what a pass comes to want for
\* a vehicle that has gone, and nobody who connects is met by a pilot that already offers
\* current and a level that already asked for it: a throttling may turn PWM on for nobody.
ReadyWhere ==
    Faults \intersect {"gfi", "oc"} = {} =>
      /\ pc \in {"act", "tail", "finish"} /\ ~conn => tmp # "C"
      /\ pc = "idle" /\ pilot = "PWM" /\ ~conn => tmp # "C"
      /\ pc \in {"act", "tail", "finish", "idle"} /\ state = "NO_GROUND" => tmp # "C"
      /\ pc \in Sampled /\ pass.prev = "NO_GROUND" => tmp # "C"
      /\ pc \in Starting \union {"cool"} => tmp # "C"
      /\ pc = "hf" /\ kont # "never" => tmp # "C"
      /\ pc = "tail" /\ pass.ul => tmp # "C"
      /\ pc = "act" /\ (pass.ul \/ state \in {"D", "DIODE_CHK_FAILED", "OVER_TEMPERATURE"})
           => tmp # "C"

\* The panic limit is out of reach: of the sensors or of the check.
Unpanicked == Panic \notin Temps \/ "temp" \notin Checks0 \union Toggles

\* Two waits of a pass keep contacts closed, none of them in state C.
WaitWhere ==
    /\ pc = "ocwait" => "oc" \in Faults /\ state # "C"
    /\ pc = "cool" => state # "C"
    /\ Unpanicked => state # "OVER_TEMPERATURE" /\ pc # "cool"

\* Without the interrupt nothing latches a trip or opens contacts behind chargingOn().
FlagWhere == "gfi" \notin Faults => ~gfiFault /\ (chargingOn => relay)

Served == VehicleWhere /\ TripWhere /\ ReadyWhere /\ WaitWhere /\ FlagWhere

\* Every step of the controller keeps it.
LEMMA ServedStep ==
  ASSUME Sheltered, TypeOK, Guarded, Kept, Served, [Next]_vars
  PROVE  Served'
  <1> USE DEF Served, VehicleWhere, TripWhere, ReadyWhere, WaitWhere, FlagWhere,
        Starting, Sampled, Ending, Closing, Polling,
        ctl, contacts, gfi, eeprom, flow, env, OpenContacts, NoPass
  <1>1. ASSUME PostFails PROVE Served'
    BY <1>1 DEF PostFails
  <1>2. ASSUME PostPasses PROVE Served'
    BY <1>2 DEF PostPasses, Guarded, ClosedWhere
  <1>3. ASSUME PpErrorEnds PROVE Served'
    BY <1>3 DEF PpErrorEnds
  <1>4. ASSUME PassDisabled PROVE Served'
    BY <1>4 DEF PassDisabled
  <1>5. ASSUME PassSleeping PROVE Served'
    BY <1>5 DEF PassSleeping, ReadPilot, Guarded, ClosedWhere, Kept, SleepWhere
  <1>6. ASSUME PassBegins PROVE Served'
    BY <1>6 DEF PassBegins, ReadPilot, PilotLevel, Guarded, ClosedWhere
  <1>7. ASSUME CgmiGroundFault PROVE Served'
    BY <1>7
      DEF CgmiGroundFault, SupplyDone, Faulted, Supplied, Guarded, PassState, FaultStates, TypeOK
  <1>8. ASSUME RelayClosureFault PROVE Served'
    BY <1>8
      DEF RelayClosureFault, SupplyDone, Faulted, Supplied, Guarded, PassState, FaultStates, TypeOK
  <1>9. ASSUME GroundFaultUnderLoad PROVE Served'
    BY <1>9
      DEF GroundFaultUnderLoad, SupplyDone, Faulted, Supplied, Guarded, PassState, FaultStates, TypeOK
  <1>10. ASSUME GroundFaultUnplugged PROVE Served'
    BY <1>10 DEF GroundFaultUnplugged, EndPass, Supplied, AwaitsGround, Guarded, ClosedWhere
  <1>11. ASSUME GroundFaultRetry PROVE Served'
    BY <1>11 DEF GroundFaultRetry, SupplyDone, Supplied
  <1>12. ASSUME GroundFaultStays PROVE Served'
    BY <1>12
      DEF GroundFaultStays, SupplyDone, Supplied, Faulted, Guarded, PassState, FaultStates, TypeOK
  <1>13. ASSUME StuckReading PROVE Served'
    <2>1. /\ pc = "supply" /\ pc' = "gfi"
          /\ UNCHANGED <<pilot, conn, tmp, gfiFault, relay, chargingOn, kont>>
          /\ pass.nofault /\ state = pass.prev /\ state # "DISABLED"
      BY <1>13 DEF StuckReading, SupplyDone, Supplied, Guarded, PassState
    <2>2. pass'.prev = pass.prev /\ pass'.level = pass.level
      BY <1>13 DEF StuckReading, Faulted, TypeOK, Passes
    <2>3. state' \in {state, "STUCK_RELAY"}
      BY <1>13 DEF StuckReading
    <2>4. QED
      BY <2>1, <2>2, <2>3
  <1>14. ASSUME SupplyGood PROVE Served'
    BY <1>14 DEF SupplyGood, SupplyDone, Supplied
  <1>15. ASSUME NoTrip PROVE Served'
    BY <1>15 DEF NoTrip, TripHandled
  <1>16. ASSUME TripNoticed PROVE Served'
    BY <1>16
      DEF TripNoticed, TripHandled, Faulted, TripChecked, Guarded, PassState, FaultStates, TypeOK
  <1>17. ASSUME TripUnplugged PROVE Served'
    BY <1>17 DEF TripUnplugged, EndPass, GfiReset, TripChecked
  <1>18. ASSUME TripStays PROVE Served'
    BY <1>18
      DEF TripStays, TripHandled, Faulted, TripChecked, Guarded, PassState, FaultStates, TypeOK
  <1>19. ASSUME TripRetried PROVE Served'
    BY <1>19
      DEF TripRetried, TripHandled, Faulted, TripChecked, Guarded, PassState, FaultStates, TypeOK
  <1>20. ASSUME TripGivenUp PROVE Served'
    BY <1>20 DEF TripGivenUp, HardFault, TripChecked, Guarded, PassState, FaultStates, TypeOK
  <1>21. ASSUME FaultChosen PROVE Served'
    <2>1. /\ pc = "pilot" /\ tmp' = state' /\ state' \in {state, "OVER_TEMPERATURE"}
          /\ UNCHANGED <<pilot, conn, relay, chargingOn, gfiFault, kont>>
          /\ pc' = IF state' # pass.prev THEN "act" ELSE "tail"
          /\ pass' = [NoPass EXCEPT !.ul = pass.prev = "C" /\ age["on"] <= ULWindow]
          /\ ~Overheated => state' = state /\ state \in FaultStates
      BY <1>21 DEF FaultChosen, StateChosen, Guarded, PassState
    <2>2. state' \in FaultStates /\ state' \notin {"B", "C", "SLEEPING"}
      BY <2>1, <1>21 DEF FaultChosen, StateChosen, FaultStates
    <2>3. Unpanicked => ~Overheated
      BY DEF Unpanicked, Overheated, AcCheck, Guarded, ConfigKept, TypeOK
    <2>4. state # "DISABLED"
      BY <2>1 DEF Guarded, PassState, FaultStates
    <2>5. QED
      BY <2>1, <2>2, <2>3, <2>4
  <1>22. ASSUME PilotChosen PROVE Served'
    <2>1. /\ pc = "pilot" /\ pass.nofault /\ state = pass.prev /\ pass' = NoPass
          /\ UNCHANGED <<conn, relay, chargingOn, gfiFault, kont>>
          /\ state \notin {"DISABLED", "SLEEPING"}
      BY <1>22 DEF PilotChosen, StateChosen, Guarded, PassState
    <2> DEFINE prev == IF pass.prev \in FaultStates THEN "UNKNOWN" ELSE pass.prev
               p == IF pass.prev \in FaultStates THEN "P12" ELSE pilot
    <2>2. pilot' = p /\ pc' = IF state' # prev THEN "act" ELSE "tail"
      BY <1>22 DEF PilotChosen, StateChosen
    <2>3. PICK target \in Targets(p) :
            /\ tmp' = target
            /\ state' \in {prev, target, "PP_SHORTED", "PP_MISSING"}
            /\ state' \in {"PP_SHORTED", "PP_MISSING"} => state' # prev
      BY <1>22 DEF PilotChosen, StateChosen, Granted, FaultStates
    <2>4. /\ target \in {"A", "B", "C", "D", "UNKNOWN", "DIODE_CHK_FAILED"}
          /\ target = "C" => p = "PWM" /\ pass.level = "charge"
      BY <2>3 DEF Targets, LevelState, AcCheck, Guarded, ConfigKept
    <2>5. /\ prev \notin {"NO_GROUND", "OVER_TEMPERATURE", "D", "DIODE_CHK_FAILED"}
          /\ prev \notin {"DISABLED", "SLEEPING"}
      BY <2>1 DEF FaultStates
    <2>6. pc' = "tail" => state' = prev
      BY <2>2
    <2>7. QED
      BY <2>1, <2>2, <2>3, <2>4, <2>5, <2>6 DEF FaultStates
  <1>23. ASSUME BecomesA PROVE Served'
    BY <1>23 DEF BecomesA, Acted, Becomes
  <1>24. ASSUME BecomesB PROVE Served'
    BY <1>24 DEF BecomesB, Acted, Becomes, FaultStates
  <1>25. ASSUME BecomesC PROVE Served'
    BY <1>25 DEF BecomesC, Acted, Becomes
  <1>26. ASSUME BecomesFault PROVE Served'
    BY <1>26 DEF BecomesFault, Acted, Becomes
  <1>27. ASSUME BecomesHardFault PROVE Served'
    BY <1>27 DEF BecomesHardFault, Acted, HardFault, Becomes
  <1>28. ASSUME BecomesStuckRelay PROVE Served'
    BY <1>28 DEF BecomesStuckRelay, Acted, HardFault, Becomes
  <1>29. ASSUME BecomesOverTemperature PROVE Served'
    BY <1>29 DEF BecomesOverTemperature, Acted, Becomes
  <1>30. ASSUME OverTemperatureOpens PROVE Served'
    BY <1>30 DEF OverTemperatureOpens, Acted, HardFault
  <1>31. ASSUME SelfTestNotReady PROVE Served'
    BY <1>31 DEF SelfTestNotReady, SelfTestFails, HardFault
  <1>32. ASSUME SelfTestStarts PROVE Served'
    BY <1>32 DEF SelfTestStarts
  <1>33. ASSUME SelfTestPinStays PROVE Served'
    BY <1>33 DEF SelfTestPinStays, SelfTestFails, HardFault
  <1>34. ASSUME SelfTestNoTrip PROVE Served'
    BY <1>34 DEF SelfTestNoTrip, SelfTestFails, HardFault
  <1>35. ASSUME SelfTestPasses PROVE Served'
    BY <1>35 DEF SelfTestPasses
  <1>36. ASSUME CloseContacts PROVE Served'
    BY <1>36 DEF CloseContacts, PinsDriven, Guarded, PassState, FaultStates, TypeOK
  <1>hold. ASSUME HoldContacts PROVE Served'
    BY <1>hold DEF HoldContacts, PinsDriven, Guarded, PassState, FaultStates, TypeOK
  <1>37. ASSUME ContactsClosed PROVE Served'
    BY <1>37 DEF ContactsClosed, Acted, Guarded, PassState, FaultStates, TypeOK
  <1>38. ASSUME EarlyHardFault PROVE Served'
    BY <1>38 DEF EarlyHardFault, HardFault
  <1>39. ASSUME CurrentChecked PROVE Served'
    BY <1>39 DEF CurrentChecked, Acted
  <1>40. ASSUME OverCurrent PROVE Served'
    BY <1>40 DEF OverCurrent, Excess, Guarded, ClosedWhere
  <1>41. ASSUME OverCurrentOpens PROVE Served'
    BY <1>41 DEF OverCurrentOpens, Acted, HardFault
  <1>42. ASSUME Finish PROVE Served'
    <2>1. pilot' \in {pilot, "PWM"}
      BY <1>42 DEF Finish
    <2>2. QED
      BY <1>42, <2>1 DEF Finish, EndPass, Polling
  <1>43. ASSUME HardFaultEnds PROVE Served'
    BY <1>43 DEF HardFaultEnds, TypeOK
  <1>44. ASSUME HardFaultPolls PROVE Served'
    BY <1>44 DEF HardFaultPolls
  <1>45. ASSUME GfiInterrupt PROVE Served'
    BY <1>45 DEF GfiInterrupt
  <1>46. ASSUME Enable PROVE Served'
    BY <1>46 DEF Enable, Receives, Polling
  <1>47. ASSUME Disable PROVE Served'
    BY <1>47 DEF Disable, Receives, Polling
  <1>48. ASSUME Sleep PROVE Served'
    BY <1>48 DEF Sleep, Receives, Polling
  <1>49. ASSUME ResetFaultCounters PROVE Served'
    BY <1>49 DEF ResetFaultCounters, Receives
  <1>50. ASSUME Reboot PROVE Served'
    BY <1>50 DEF Reboot, Receives
  <1>51. ASSUME ClearBootLock PROVE Served'
    BY <1>51 DEF ClearBootLock, Guarded, ClosedWhere
  <1>52. ASSUME Reset PROVE Served'
    BY <1>52 DEF Reset, PowerUp
  <1>53. ASSUME EvChanges PROVE Served'
    BY <1>53 DEF EvChanges
  <1>54. ASSUME TempRead PROVE Served'
    BY <1>54 DEF TempRead
  <1>55. ASSUME Tick PROVE Served'
    BY <1>55 DEF Tick, Blocking
  <1>56. ASSUME NEW c \in Toggles, Feature(c) PROVE Served'
    BY <1>56 DEF Feature
  <1>57. ASSUME UNCHANGED vars PROVE Served'
    BY <1>57 DEF vars
  <1>q. QED
    BY <1>1, <1>2, <1>3, <1>4, <1>5, <1>6, <1>7, <1>8, <1>9, <1>10, <1>11, <1>12,
       <1>13, <1>14, <1>15, <1>16, <1>17, <1>18, <1>19, <1>20, <1>21, <1>22, <1>23,
       <1>24, <1>25, <1>26, <1>27, <1>28, <1>29, <1>30, <1>31, <1>32, <1>33, <1>34,
       <1>35, <1>36, <1>hold, <1>37, <1>38, <1>39, <1>40, <1>41, <1>42, <1>43,
       <1>44, <1>45, <1>46, <1>47, <1>48, <1>49, <1>50, <1>51, <1>52, <1>53, <1>54,
       <1>55, <1>56, <1>57
    DEF Next, Program, Boot, SupplyCheck, GfiCheck, Transition, AfterTransition, Command

LEMMA ServedInit == ASSUME Init PROVE Served
  BY
    DEF Init, Served, VehicleWhere, TripWhere, ReadyWhere, WaitWhere, FlagWhere,
        Starting, Sampled, Ending, Closing

\* Served is an invariant of the controller.
LEMMA ServedAlways == ASSUME Sheltered PROVE Spec => []Served
  <1>1. Init => Served
    BY ServedInit
  <1>2. TypeOK /\ Guarded /\ Kept /\ Served /\ [Next]_vars => Served'
    BY ServedStep
  <1>3. QED
    BY <1>1, <1>2, TypeCorrect, GuardedAlways, KeptAlways, PTL DEF Spec

\* State C within a pass or between two, with what closed contacts it began with.
Live ==
    /\ state = "C" /\ pc \in Sampled \union Ending
    /\ relay \/ pc \in {"pilot", "tail", "finish"}

\* What the steps of a pass that have no part in the session may do: close contacts only
\* where chargingOn() does, and enter state C only from another, with PWM and a settled level.
PassStep ==
    /\ conn' = conn /\ ev' = ev
    /\ pc \notin Polling \union {"reboot"} /\ pc' \notin Starting \union {"reboot"}
    /\ relay' => relay \/ pc \in {"close", "holding"}
    /\ pc \in {"close", "holding"} <=> pc' \in {"holding", "closed"}
    /\ pc \in {"close", "holding"} /\ ~gfiFault => relay'
    /\ pc # "closed"
    /\ pc' = "idle" => state' # "C"
    /\ pc' \in Sampled => pc \in Sampled /\ UNCHANGED <<pilot, tmp>> /\ pass'.prev = pass.prev
    /\ pc' = "act" /\ state' = "C" =>
         pc = "pilot" /\ pass.prev # "C" /\ pilot = "PWM" /\ tmp = "C"
    /\ pc' \in Closing => (pc = "act" /\ state = "C") \/ pc \in Closing
    /\ Live' => Live

\* They do no more.
LEMMA InPassKeeps ==
  ASSUME Sheltered, TypeOK, Guarded, Served, InPass
  PROVE  PassStep
  <1> USE DEF PassStep, Live, Starting, Sampled, Ending, Closing, Polling, Guarded,
        ctl, contacts, gfi, eeprom, flow, env, OpenContacts, NoPass
  <1>1. CASE SupplyCheck
    <2>1. CASE GroundFaultUnplugged
      BY <2>1 DEF GroundFaultUnplugged, Supplied, EndPass
    <2>2. CASE ~GroundFaultUnplugged
      <3>1. /\ pc = "supply" /\ SupplyDone
            /\ relay' => relay
            /\ state' \in {state, "NO_GROUND", "RELAY_CLOSURE_FAULT", "STUCK_RELAY"}
            /\ pass' = pass \/ Faulted
        <4>1. CASE StuckReading
          BY <4>1 DEF StuckReading, Supplied
        <4>2. CASE SupplyGood
          BY <4>2 DEF SupplyGood, Supplied
        <4>3. CASE CgmiGroundFault
          BY <4>3 DEF CgmiGroundFault, Supplied
        <4>4. CASE RelayClosureFault
          BY <4>4 DEF RelayClosureFault, Supplied
        <4>5. CASE GroundFaultUnderLoad
          BY <4>5 DEF GroundFaultUnderLoad, Supplied
        <4>6. CASE GroundFaultRetry
          BY <4>6 DEF GroundFaultRetry, Supplied
        <4>7. CASE GroundFaultStays
          BY <4>7 DEF GroundFaultStays, Supplied
        <4>8. QED
          BY <1>1, <2>2, <4>1, <4>2, <4>3, <4>4, <4>5, <4>6, <4>7 DEF SupplyCheck
      <3>2. pass'.prev = pass.prev
        BY <3>1 DEF Faulted, TypeOK, Passes
      <3>3. /\ pc' = "gfi" /\ UNCHANGED <<conn, ev, pilot, tmp>>
            /\ Live' => Live
        BY <3>1 DEF SupplyDone
      <3>4. QED
        BY <3>1, <3>2, <3>3
    <2>3. QED
      BY <2>1, <2>2
  <1>2. CASE GfiCheck
    <2>1. CASE TripUnplugged \/ TripGivenUp
      BY <2>1 DEF TripUnplugged, TripGivenUp, TripChecked, EndPass, HardFault
    <2>2. CASE NoTrip
      BY <2>2 DEF NoTrip, TripHandled, Served, TripWhere
    <2>3. CASE TripNoticed \/ TripStays \/ TripRetried
      <3>1. /\ pc = "gfi" /\ pc' = "pilot" /\ UNCHANGED <<conn, ev, pilot, tmp, relay>>
            /\ state' = "GFCI_FAULT"
        BY <2>3 DEF TripNoticed, TripStays, TripRetried, TripChecked, TripHandled
      <3>2. pass'.prev = pass.prev
        BY <2>3 DEF TripNoticed, TripStays, TripRetried, Faulted, TypeOK, Passes
      <3>3. QED
        BY <3>1, <3>2
    <2>4. QED
      BY <1>2, <2>1, <2>2, <2>3 DEF GfiCheck
  <1>3. CASE FaultChosen
    <2>1. /\ pc = "pilot" /\ pc' \in {"act", "tail"} /\ UNCHANGED <<conn, ev, relay>>
          /\ state' \in FaultStates
      BY <1>3 DEF FaultChosen, StateChosen, PassState, FaultStates
    <2>2. QED
      BY <2>1 DEF FaultStates
  <1>4. CASE PilotChosen
    <2>1. /\ pc = "pilot" /\ pass.nofault /\ state = pass.prev
          /\ UNCHANGED <<conn, ev, relay>>
      BY <1>4 DEF PilotChosen, StateChosen, PassState
    <2> DEFINE prev == IF pass.prev \in FaultStates THEN "UNKNOWN" ELSE pass.prev
               p == IF pass.prev \in FaultStates THEN "P12" ELSE pilot
    <2>2. pc' = IF state' # prev THEN "act" ELSE "tail"
      BY <1>4 DEF PilotChosen, StateChosen
    <2>3. PICK target \in Targets(p) :
            \/ state' \in {prev, "PP_SHORTED", "PP_MISSING"}
            \/ state' = target /\ target = tmp
      BY <1>4 DEF PilotChosen, StateChosen, Granted
    <2>4. target = "C" => p = "PWM"
      BY <2>3 DEF Targets, LevelState, AcCheck, ConfigKept
    <2>5. p = "PWM" => pilot = "PWM" /\ pass.prev \notin FaultStates
      OBVIOUS
    <2>6. QED
      BY <2>1, <2>2, <2>3, <2>4, <2>5 DEF FaultStates
  <1>5. CASE Transition /\ pc # "closed"
    <2>1. CloseContacts => PassStep
      BY DEF CloseContacts, PinsDriven
    <2>2. HoldContacts => PassStep
      BY DEF HoldContacts, PinsDriven
    <2>3. CASE ~(CloseContacts \/ HoldContacts)
      BY <1>5, <2>3
        DEF Transition, Becomes, Acted, BecomesA, BecomesB, BecomesC, BecomesFault, HardFault,
            BecomesHardFault, BecomesStuckRelay, BecomesOverTemperature, OverTemperatureOpens,
            SelfTestNotReady, SelfTestStarts, SelfTestPinStays, SelfTestNoTrip, SelfTestFails,
            SelfTestPasses, ContactsClosed
    <2>4. QED
      BY <2>1, <2>2, <2>3
  <1>6. CASE EarlyHardFault \/ CurrentChecked \/ OverCurrent \/ OverCurrentOpens
    <2>1. EarlyHardFault => PassStep
      BY DEF EarlyHardFault, HardFault
    <2>2. CurrentChecked => PassStep
      BY DEF CurrentChecked, Acted
    <2>3. OverCurrent => PassStep
      BY DEF OverCurrent
    <2>4. OverCurrentOpens => PassStep
      BY DEF OverCurrentOpens, Acted, HardFault
    <2>5. QED
      BY <1>6, <2>1, <2>2, <2>3, <2>4
  <1>7. QED
    BY <1>1, <1>2, <1>3, <1>4, <1>5, <1>6 DEF InPass

\* Start-up ends with open contacts and nobody noticed yet.
LEMMA BootStep ==
  ASSUME Boot, Guarded, Served
  PROVE  /\ pc \in Starting /\ pc' \in Starting \union {"idle"} /\ state' \notin {"B", "C"}
         /\ UNCHANGED <<relay, conn, ev, pilot, tmp>> /\ ~relay /\ ~conn
  <1> USE DEF Starting, ctl, contacts, env, Served, VehicleWhere, Guarded, ClosedWhere
  <1>1. CASE PostFails
    BY <1>1 DEF PostFails
  <1>2. CASE PostPasses
    BY <1>2 DEF PostPasses
  <1>3. CASE PpErrorEnds
    BY <1>3 DEF PpErrorEnds
  <1>4. QED
    BY <1>1, <1>2, <1>3 DEF Boot

-----------------------------------------------------------------------------
(* Charge time.                                                              *)

\* With slow hands a plug that was pulled under closed contacts is not back before they
\* opened. What the pass under way adds to the charge time is onFor; a closing is counted
\* before the pass that takes its time has ended.
TimeWhere ==
    /\ relay /\ ~conn => ev = "none"
    /\ accumulated + elapsed <= chargedFor
    /\ pc # "reboot" /\ closings < MaxClosings => chargedFor <= accumulated + elapsed + closings
    /\ Live =>
         /\ accumulated + onFor <= chargedFor
         /\ closings < MaxClosings => chargedFor <= accumulated + onFor + closings - 1
         /\ conn => ~ended
    /\ pc = "idle" /\ state = "C" /\ ran => onFor <= elapsed
    /\ pc \notin {"hf", "reboot"} /\ ended /\ conn =>
         accumulated = 0 /\ elapsed = 0 /\ chargedFor = 0 /\ closings = 0

\* The session of a vehicle starts when a pass notices it, and only then.
LEMMA PlugNoticed ==
  ASSUME TypeOK, Served, state # "DISABLED", conn' = ReadPilot, ReadsPilot, ChargeTimeStarts
  PROVE  /\ pilot = "N12" => ~conn /\ ~conn'
         /\ pilot # "N12" => (conn' <=> ev # "none")
         /\ conn' => (ended' <=> ended)
         /\ conn' /\ ~conn =>
              /\ accumulated' = 0 /\ elapsed' = 0
              /\ closedFor' = 0 /\ chargedFor' = 0 /\ closings' = 0
         /\ ~(conn' /\ ~conn) =>
              /\ accumulated' = accumulated /\ elapsed' = elapsed
              /\ closedFor' = closedFor /\ chargedFor' = chargedFor /\ closings' = closings
  <1>1. CASE pilot = "N12"
    <2>1. ~conn /\ ~conn'
      BY <1>1 DEF Served, VehicleWhere, ReadPilot
    <2>2. QED
      BY <1>1, <2>1 DEF ChargeTimeStarts, history
  <1>2. CASE pilot # "N12"
    <2>1. (conn' <=> ev # "none") /\ (connPrev' <=> conn) /\ (conn' => (ended' <=> ended))
      BY <1>2 DEF ReadPilot, ReadsPilot
    <2>2. QED
      BY <1>2, <2>1 DEF ChargeTimeStarts, history
  <1>3. QED
    BY <1>1, <1>2

\* Every step keeps it.
LEMMA TimeStep ==
  ASSUME Sheltered, SlowHands, TypeOK, Guarded, Kept, Served, SessionTypeOK,
         TimeWhere, [SessionNext]_sessionVars
  PROVE  TimeWhere'
  <1> USE DEF TimeWhere, Live, Sampled, Ending, lock, times, history, session
  <1>1. ASSUME UpdateBegins PROVE TimeWhere'
    <2>1. /\ pc = "idle" /\ pc' = "supply" /\ state # "DISABLED" /\ conn' = ReadPilot
          /\ UNCHANGED <<state, pilot, relay, ev, onFor>>
      BY <1>1 DEF UpdateBegins, PassBegins, contacts, env
    <2>2. ReadsPilot /\ ChargeTimeStarts
      BY <1>1 DEF UpdateBegins
    <2>3. pilot = "N12" => ~relay
      BY DEF Served, VehicleWhere
    <2>4. CASE conn' /\ ~conn
      <3>1. ~relay
        BY <2>1, <2>2, <2>4, PlugNoticed
      <3>2. QED
        BY <2>1, <2>2, <2>4, <3>1, PlugNoticed DEF SessionTypeOK
    <2>5. CASE ~(conn' /\ ~conn)
      <3>1. relay /\ ~conn' => ev = "none"
        BY <2>1, <2>2, <2>3, PlugNoticed
      <3>2. QED
        BY <2>1, <2>2, <2>5, <3>1, PlugNoticed
    <2>6. QED
      BY <2>4, <2>5
  <1>2. ASSUME UpdateAsleep PROVE TimeWhere'
    <2>1. /\ pc = "idle" /\ pc' = "idle" /\ state = "SLEEPING" /\ conn' = ReadPilot
          /\ state # "DISABLED"
          /\ UNCHANGED <<state, pilot, ev, onFor>>
          /\ relay' => relay
      BY <1>2 DEF UpdateAsleep, PassSleeping, OpenContacts, contacts, env, flow
    <2>2. ReadsPilot /\ ChargeTimeStarts
      BY <1>2 DEF UpdateAsleep
    <2>3. pilot = "N12" => ~relay
      BY DEF Served, VehicleWhere
    <2>4. CASE conn' /\ ~conn
      BY <2>1, <2>2, <2>4, PlugNoticed DEF SessionTypeOK
    <2>5. CASE ~(conn' /\ ~conn)
      <3>1. relay' /\ ~conn' => ev = "none"
        BY <2>1, <2>2, <2>3, PlugNoticed
      <3>2. QED
        BY <2>1, <2>2, <2>5, <3>1, PlugNoticed
    <2>6. QED
      BY <2>4, <2>5
  <1>3. ASSUME UpdateDisabled PROVE TimeWhere'
    BY <1>3 DEF UpdateDisabled, PassDisabled, ctl, contacts, env, flow
  <1>4. ASSUME UpdateGoesOn PROVE TimeWhere'
    <2>1. PassStep
      BY <1>4, InPassKeeps DEF UpdateGoesOn
    <2>2. relay' /\ ~conn' => ev' = "none"
      BY <2>1 DEF PassStep, Served, VehicleWhere, Closing
    <2>3. UNCHANGED session
      BY <1>4 DEF UpdateGoesOn
    <2>4. QED
      BY <2>1, <2>2, <2>3 DEF PassStep, Polling
  <1>5. ASSUME UpdateFinishes PROVE TimeWhere'
    <2>1. /\ pc = "finish" /\ pc' = "idle" /\ UNCHANGED <<state, conn, relay, ev>>
      BY <1>5 DEF UpdateFinishes, Finish, EndPass, contacts, env
    <2>2. /\ elapsed' = IF state = "C" THEN onFor ELSE elapsed
          /\ UNCHANGED <<ended, accumulated, onFor, chargedFor, closings>>
      BY <1>5 DEF UpdateFinishes
    <2>3. CASE state = "C"
      BY <2>1, <2>2, <2>3 DEF SessionTypeOK
    <2>4. CASE state # "C"
      BY <2>1, <2>2, <2>4
    <2>5. QED
      BY <2>3, <2>4
  <1>6. ASSUME ChargingOn PROVE TimeWhere'
    <2>1. /\ pc = "closed" /\ pc' = "tail" /\ UNCHANGED <<state, conn, relay, ev, chargedFor>>
          /\ onFor' = 0 /\ conn
      BY <1>6 DEF ChargingOn, ContactsClosed, Acted, env, Served, VehicleWhere, Closing
    <2>2. closings' = IF closings < MaxClosings THEN closings + 1 ELSE closings
      BY <1>6 DEF ChargingOn
    <2>3. closings' < MaxClosings => closings < MaxClosings /\ closings' = closings + 1
      BY <2>2, SessionAssumption DEF SessionTypeOK
    <2>4. CASE ended
      <3>1. accumulated' = 0 /\ elapsed' = elapsed /\ ~ended'
        BY <1>6, <2>4 DEF ChargingOn
      <3>2. QED
        BY <2>1, <2>3, <2>4, <3>1 DEF SessionTypeOK
    <2>5. CASE ~ended
      <3>1. accumulated' = accumulated + elapsed /\ elapsed' = 0 /\ ~ended'
        BY <1>6, <2>5 DEF ChargingOn
      <3>2. QED
        BY <2>1, <2>3, <3>1 DEF SessionTypeOK
    <2>6. QED
      BY <2>4, <2>5
  <1>7. ASSUME HardFaultTurn PROVE TimeWhere'
    <2>1. pc = "hf" /\ ~relay /\ UNCHANGED <<relay, accumulated, elapsed, chargedFor, closings>>
      BY <1>7 DEF HardFaultTurn, HardFaultPolls, HardFaultEnds, contacts, Guarded, ClosedWhere
    <2>2. pc' = "hf" \/ (~conn' /\ state' = "UNKNOWN" /\ pc' # "reboot")
      BY <1>7 DEF HardFaultTurn, HardFaultPolls, HardFaultEnds, flow, TypeOK
    <2>3. QED
      BY <2>1, <2>2
  <1>8. ASSUME MeterUpdate \/ (\E n \in Totals : SetTotkWh(n)) \/ (\E c \in LockCommands : Mennekes(c))
        PROVE  TimeWhere'
    BY <1>8 DEF MeterUpdate, SetTotkWh, Mennekes, vars
  <1>9. ASSUME DisableUnlocks PROVE TimeWhere'
    BY <1>9 DEF DisableUnlocks, Disable, Receives, OpenContacts, env, flow
  <1>10. ASSUME ResetTotkWh PROVE TimeWhere'
    BY <1>10 DEF ResetTotkWh, ResetFaultCounters, Receives, contacts, env
  <1>11. ASSUME Restarts PROVE TimeWhere'
    BY <1>11 DEF Restarts, Reset, PowerUp, OpenContacts
  <1>12. ASSUME Unnoticed PROVE TimeWhere'
    <2>1. UNCHANGED session
      BY <1>12 DEF Unnoticed
    <2>2. CASE Enable \/ Sleep \/ Reboot
      BY <2>1, <2>2 DEF Enable, Sleep, Reboot, Receives, contacts, env
    <2>3. CASE ClearBootLock
      BY <2>1, <2>3 DEF ClearBootLock, ctl, contacts, env, Guarded, ClosedWhere, Served,
                        VehicleWhere, Starting
    <2>4. CASE (\E c \in Toggles : Feature(c)) \/ TempRead
      BY <2>1, <2>4 DEF Feature, TempRead, ctl, contacts, flow, env
    <2>5. CASE EvChanges /\ (SlowHands /\ relay /\ ev = "none" => ev' = "none")
      BY <2>1, <2>5 DEF EvChanges, ctl, contacts, flow
    <2>6. CASE Boot
      BY <2>1, <2>6, BootStep DEF Starting
    <2>7. CASE GfiInterrupt
      BY <2>1, <2>7 DEF GfiInterrupt, flow, env
    <2>8. QED
      BY <1>12, <2>2, <2>3, <2>4, <2>5, <2>6, <2>7 DEF Unnoticed
  <1>13. ASSUME TimePasses PROVE TimeWhere'
    <2>1. /\ pc \in Blocking \/ (pc = "idle" /\ ran)
          /\ UNCHANGED <<state, conn, relay, pc, ev, ended, accumulated, elapsed, closings>>
          /\ ~ran'
      BY <1>13 DEF TimePasses, Tick, contacts, env, flow
    <2>2. relay /\ state = "C" => pc \in {"idle", "reboot"}
      BY <2>1 DEF Blocking, Guarded, ClosedWhere, Served, WaitWhere
    <2>3. CASE relay /\ state = "C"
      <3>1. chargedFor' = chargedFor + 1 /\ onFor' = onFor + 1
        BY <1>13, <2>3 DEF TimePasses
      <3>2. CASE pc = "idle"
        BY <2>1, <2>3, <3>1, <3>2 DEF SessionTypeOK, Blocking
      <3>3. CASE pc = "reboot"
        BY <2>1, <2>3, <3>1, <3>3 DEF SessionTypeOK
      <3>4. QED
        BY <2>2, <2>3, <3>2, <3>3
    <2>4. CASE ~(relay /\ state = "C")
      <3>1. chargedFor' = chargedFor
        BY <1>13, <2>4 DEF TimePasses
      <3>2. ~Live
        BY <2>1, <2>4 DEF Blocking
      <3>3. QED
        BY <2>1, <3>1, <3>2
    <2>5. QED
      BY <2>3, <2>4
  <1>14. ASSUME UNCHANGED sessionVars PROVE TimeWhere'
    BY <1>14 DEF sessionVars, vars
  <1>15. QED
    BY <1>1, <1>2, <1>3, <1>4, <1>5, <1>6, <1>7, <1>8, <1>9, <1>10, <1>11, <1>12, <1>13,
       <1>14 DEF SessionNext

\* What the charge controller underneath and the types contribute to every session.
LEMMA SessionServed ==
  ASSUME Sheltered
  PROVE  SessionSpec => [](TypeOK /\ Guarded /\ Kept /\ Served /\ SessionTypeOK)
  <1>1. Spec => [](TypeOK /\ Guarded /\ Kept /\ Served)
    BY TypeCorrect, GuardedAlways, KeptAlways, ServedAlways, PTL
  <1>2. QED
    BY <1>1, SessionsLeaveController, SessionTypeCorrect, PTL

\* It holds when the station is switched on.
LEMMA TimeInit == ASSUME SessionInit PROVE TimeWhere
  BY DEF SessionInit, Init, TimeWhere, Live, Sampled, Ending

\* The charge time is honest: in every session it is never more than the time the contacts
\* were closed in state C, and less by no more than a tick per closing, whatever faults and
\* trips opened them, through throttling and panic, on a sheltered station where nobody plugs
\* in again before contacts closed under a pulled plug opened.
THEOREM ChargeTimeCorrect ==
  ASSUME Sheltered, SlowHands
  PROVE  SessionSpec => []ChargeTimeHonest
  <1>1. SessionInit => TimeWhere
    BY TimeInit
  <1>2. /\ TypeOK /\ Guarded /\ Kept /\ Served /\ SessionTypeOK
        /\ TimeWhere /\ [SessionNext]_sessionVars
        => TimeWhere'
    BY TimeStep
  <1>3. TimeWhere => ChargeTimeHonest
    BY DEF TimeWhere, ChargeTimeHonest
  <1>4. QED
    BY <1>1, <1>2, <1>3, SessionServed, PTL DEF SessionSpec

-----------------------------------------------------------------------------
(* Energy.                                                                   *)

\* The meter follows the vehicle: between its turn and the next pass it knows it.
MeterTurn ==
    /\ meter.on <=> meter.conn
    /\ stage = "meter" => pc = "idle"
    /\ pc = "idle" /\ stage = "run" => (meter.conn <=> conn)
    /\ pc \in Starting => ~meter.conn

\* What an update does to the fields of the meter.
LEMMA MeterFields ==
  ASSUME TypeOK, SessionTypeOK, MeterTurn, MeterUpdate
  PROVE  /\ meter'.conn <=> conn
         /\ meter'.on <=> conn
         /\ conn /\ ~meter.conn => meter'.ws = 0 /\ meter'.since = 0
         /\ conn /\ ~chargingOn => ~meter'.closed
         /\ conn /\ chargingOn => meter'.closed /\ meter'.since = 0
         /\ conn /\ meter.conn =>
              meter'.ws = IF chargingOn /\ meter.closed THEN meter.ws + meter.since ELSE meter.ws
  <1>1. /\ meter \in Meters /\ conn \in BOOLEAN /\ (meter.on <=> meter.conn)
        /\ meter' = [AfterUsage(AfterConnect(meter)) EXCEPT !.conn = conn]
    BY DEF SessionTypeOK, TypeOK, MeterTurn, MeterUpdate, Meters
  <1> DEFINE m == AfterConnect(meter)
             n == AfterUsage(m)
  <1>2. m \in Meters
    BY <1>1 DEF AfterConnect, Meters
  <1>3. /\ m.on <=> conn
        /\ conn /\ ~meter.conn => m.ws = 0 /\ m.since = 0
        /\ conn /\ meter.conn => m = meter
    BY <1>1 DEF AfterConnect, Meters
  <1> HIDE DEF m
  <1>4. /\ n \in Meters /\ (n.on <=> m.on)
        /\ m.on /\ ~chargingOn => ~n.closed /\ n.ws = m.ws /\ n.since = m.since
        /\ m.on /\ chargingOn => n.closed /\ n.since = 0
        /\ m.on /\ chargingOn => n.ws = IF m.closed THEN m.ws + m.since ELSE m.ws
    <2>1. m.ws + m.since \in Nat
      BY <1>2 DEF Meters
    <2>2. CASE ~m.on
      BY <1>2, <2>2 DEF AfterUsage
    <2>3. CASE m.on /\ ~chargingOn
      BY <1>2, <2>3 DEF AfterUsage, Meters
    <2>4. CASE m.on /\ chargingOn /\ ~m.closed
      BY <1>2, <2>4 DEF AfterUsage, Meters
    <2>5. CASE m.on /\ chargingOn /\ m.closed
      BY <1>2, <2>1, <2>5 DEF AfterUsage, Meters
    <2>6. QED
      BY <2>2, <2>3, <2>4, <2>5
  <1> HIDE DEF n
  <1>5. /\ meter' = [n EXCEPT !.conn = conn]
        /\ meter'.conn = conn /\ meter'.on = n.on /\ meter'.closed = n.closed
        /\ meter'.ws = n.ws /\ meter'.since = n.since
    BY <1>1, <1>4 DEF m, n, Meters
  <1>6. QED
    BY <1>1, <1>3, <1>4, <1>5

\* Every step keeps it.
LEMMA MeterTurnStep ==
  ASSUME TypeOK, Guarded, Served, SessionTypeOK, MeterTurn, Sheltered,
         [SessionNext]_sessionVars
  PROVE  MeterTurn'
  <1> USE DEF MeterTurn, Starting, lock, times, history, session
  <1>1. ASSUME UpdateBegins PROVE MeterTurn'
    BY <1>1 DEF UpdateBegins, PassBegins
  <1>2. ASSUME UpdateAsleep PROVE MeterTurn'
    BY <1>2 DEF UpdateAsleep, PassSleeping, flow
  <1>3. ASSUME UpdateDisabled PROVE MeterTurn'
    BY <1>3 DEF UpdateDisabled, PassDisabled, flow
  <1>4. ASSUME UpdateGoesOn PROVE MeterTurn'
    <2>1. PassStep
      BY <1>4, InPassKeeps DEF UpdateGoesOn
    <2>2. pc' \notin Starting /\ UNCHANGED meter /\ stage' = IF pc' = "idle" THEN "meter" ELSE "run"
      BY <1>4, <2>1 DEF UpdateGoesOn, PassOver, PassStep
    <2>3. QED
      BY <2>2
  <1>5. ASSUME UpdateFinishes PROVE MeterTurn'
    BY <1>5 DEF UpdateFinishes, Finish, EndPass
  <1>6. ASSUME ChargingOn PROVE MeterTurn'
    BY <1>6 DEF ChargingOn, ContactsClosed
  <1>7. ASSUME HardFaultTurn PROVE MeterTurn'
    BY <1>7 DEF HardFaultTurn, HardFaultPolls, HardFaultEnds, PassOver, flow, TypeOK
  <1>8. ASSUME MeterUpdate PROVE MeterTurn'
    <2>1. (meter'.on <=> conn) /\ (meter'.conn <=> conn)
      BY <1>8, MeterFields
    <2>2. stage = "meter" /\ stage' = "run" /\ UNCHANGED <<pc, conn>>
      BY <1>8 DEF MeterUpdate, vars
    <2>3. QED
      BY <2>1, <2>2
  <1>9. ASSUME (\E n \in Totals : SetTotkWh(n)) \/ (\E c \in LockCommands : Mennekes(c))
        PROVE  MeterTurn'
    BY <1>9 DEF SetTotkWh, Mennekes, vars
  <1>10. ASSUME DisableUnlocks PROVE MeterTurn'
    BY <1>10 DEF DisableUnlocks, Disable, Receives
  <1>11. ASSUME ResetTotkWh PROVE MeterTurn'
    BY <1>11 DEF ResetTotkWh, ResetFaultCounters, Receives
  <1>12. ASSUME Restarts PROVE MeterTurn'
    BY <1>12 DEF Restarts, Reset, PowerUp, NewMeter
  <1>13. ASSUME Unnoticed PROVE MeterTurn'
    <2>1. UNCHANGED <<meter, stage>>
      BY <1>13 DEF Unnoticed
    <2>2. CASE Commanded /\ (Enable \/ Sleep \/ Reboot)
      BY <2>1, <2>2 DEF Enable, Sleep, Reboot, Receives, Commanded
    <2>3. CASE ClearBootLock
      BY <2>1, <2>3 DEF ClearBootLock, ctl, Served, VehicleWhere
    <2>4. CASE (\E c \in Toggles : Feature(c)) \/ TempRead \/ EvChanges
      BY <2>1, <2>4 DEF Feature, TempRead, EvChanges, ctl, flow
    <2>5. CASE Boot
      BY <2>1, <2>5, BootStep
    <2>6. CASE GfiInterrupt
      BY <2>1, <2>6 DEF GfiInterrupt, flow
    <2>7. QED
      BY <1>13, <2>2, <2>3, <2>4, <2>5, <2>6 DEF Unnoticed
  <1>14. ASSUME TimePasses PROVE MeterTurn'
    <2>1. meter'.on = meter.on /\ meter'.conn = meter.conn
      BY <1>14 DEF TimePasses, SessionTypeOK
    <2>2. UNCHANGED <<pc, conn, stage>>
      BY <1>14 DEF TimePasses, Tick, flow
    <2>3. QED
      BY <2>1, <2>2
  <1>15. ASSUME UNCHANGED sessionVars PROVE MeterTurn'
    BY <1>15 DEF sessionVars, vars
  <1>16. QED
    BY <1>1, <1>2, <1>3, <1>4, <1>5, <1>6, <1>7, <1>8, <1>9, <1>10, <1>11, <1>12, <1>13,
       <1>14, <1>15 DEF SessionNext

\* It is an invariant of the sessions.
LEMMA MeterTurnAlways ==
  ASSUME Sheltered
  PROVE  SessionSpec => []MeterTurn
  <1>1. SessionInit => MeterTurn
    BY DEF SessionInit, Init, MeterTurn, NewMeter, Starting
  <1>2. /\ TypeOK /\ Guarded /\ Kept /\ Served /\ SessionTypeOK
        /\ MeterTurn /\ [SessionNext]_sessionVars
        => MeterTurn'
    BY MeterTurnStep
  <1>3. QED
    BY <1>1, <1>2, SessionServed, PTL DEF SessionSpec

\* Whoever is about to close the contacts meets a meter that has seen them open.
MeterFresh ==
    /\ pilot = "PWM" /\ pc = "idle" /\ stage = "run" /\ state # "C" => (meter.on => ~meter.closed)
    /\ pilot = "PWM" /\ pc \in Sampled /\ pass.prev # "C" => (meter.on => ~meter.closed)
    /\ (pc = "act" /\ state = "C") \/ pc \in Closing => (meter.on => ~meter.closed)

\* What the meter will add at its next update has been counted, too.
BookWhere ==
    /\ BookedOnce
    /\ meter.on /\ relay /\ meter.closed => unbooked >= meter.ws + meter.since

BookInv == MeterFresh /\ BookWhere

\* Booking takes no more from what is unbooked than the session has.
LEMMA BookingTakes ==
  ASSUME TypeOK, SessionTypeOK, MeterTurn, BookWhere, MeterUpdate
  PROVE  /\ conn /\ ~meter.conn => unbooked' = 0
         /\ (conn <=> meter.conn) => unbooked' = unbooked
         /\ ~conn => unbooked' >= 0
  <1>1. /\ WhUnit \in Nat \ {0} /\ TotModulus \in Nat \ {0}
        /\ total \in 0 .. TotModulus - 1 /\ unbooked \in Int /\ meter.ws \in Nat
        /\ (meter.on <=> meter.conn) /\ meter.conn \in BOOLEAN /\ conn \in BOOLEAN
    BY SessionAssumption DEF SessionTypeOK, TypeOK, MeterTurn
  <1>2. CASE conn /\ ~meter.conn
    BY <1>2 DEF MeterUpdate
  <1>3. CASE conn <=> meter.conn
    <2>1. total' = total
      BY <1>1, <1>3 DEF MeterUpdate
    <2>2. unbooked' = unbooked - WhUnit * ((total' - total) % TotModulus)
      BY <1>3 DEF MeterUpdate
    <2>3. (total' - total) % TotModulus = 0
      <3>1. total' - total = 0
        BY <1>1, <2>1
      <3>2. 0 % TotModulus = 0
        BY <1>1
      <3>3. QED
        BY <3>1, <3>2
    <2>4. unbooked' = unbooked
      BY <1>1, <2>2, <2>3
    <2>5. QED
      BY <1>1, <1>3, <2>4 DEF BookWhere, BookedOnce
  <1>4. CASE ~conn /\ meter.conn
    <2>1. total' = (total + meter.ws \div WhUnit) % TotModulus
      BY <1>1, <1>4 DEF MeterUpdate, Booked
    <2> DEFINE x == (total' - total) % TotModulus
    <2>2. unbooked' = unbooked - WhUnit * x
      BY <1>4 DEF MeterUpdate
    <2>3. x \in 0 .. (meter.ws \div WhUnit)
      <3>1. meter.ws \div WhUnit \in Nat
        BY <1>1, DivNat
      <3>2. QED
        BY <1>1, <2>1, <3>1, Wrapped
    <2> HIDE DEF x
    <2>4. WhUnit * x <= meter.ws
      BY <1>1, <2>3, BookedSmall
    <2>5. unbooked >= meter.ws
      BY <1>1, <1>4 DEF BookWhere, BookedOnce
    <2>6. WhUnit * x \in Int
      <3>1. x \in Int
        BY <1>1, <2>3, DivNat
      <3>2. QED
        BY <1>1, <3>1
    <2>7. QED
      BY <1>1, <1>4, <2>2, <2>4, <2>5, <2>6
  <1>5. QED
    BY <1>2, <1>3, <1>4

\* Every step keeps it.
LEMMA BookStep ==
  ASSUME Sheltered, "gfi" \notin Faults, TypeOK, Guarded, Kept, Served, SessionTypeOK,
         MeterTurn, BookInv, [SessionNext]_sessionVars
  PROVE  BookInv'
  <1> USE DEF BookInv, MeterFresh, BookWhere, BookedOnce, lock, times, history, session
  <1>1. ASSUME UpdateBegins PROVE BookInv'
    <2>1. /\ pc = "idle" /\ pc' = "supply" /\ stage = "run" /\ pass'.prev = state
          /\ UNCHANGED <<pilot, relay, meter, unbooked>>
      BY <1>1 DEF UpdateBegins, PassBegins, contacts, NoPass
    <2>2. QED
      BY <2>1 DEF Sampled, Closing
  <1>2. ASSUME UpdateAsleep PROVE BookInv'
    <2>1. /\ pc = "idle" /\ pc' = "idle" /\ stage' = "meter" /\ state' = "SLEEPING"
          /\ UNCHANGED <<meter, unbooked>>
      BY <1>2 DEF UpdateAsleep, PassSleeping, flow
    <2>2. relay' => relay
      BY <1>2 DEF UpdateAsleep, PassSleeping, OpenContacts, contacts
    <2>3. QED
      BY <2>1, <2>2 DEF Sampled, Closing
  <1>3. ASSUME UpdateDisabled PROVE BookInv'
    BY <1>3 DEF UpdateDisabled, PassDisabled, ctl, contacts, flow
  <1>4. ASSUME UpdateGoesOn PROVE BookInv'
    <2>1. PassStep /\ UNCHANGED <<meter, unbooked>>
      BY <1>4, InPassKeeps DEF UpdateGoesOn
    <2>2. pc' = "idle" => stage' # "run"
      BY <1>4 DEF UpdateGoesOn, PassOver
    <2>3. BookWhere'
      BY <2>1 DEF PassStep, Closing
    <2>4. MeterFresh'
      BY <2>1, <2>2 DEF PassStep, Sampled
    <2>5. QED
      BY <2>3, <2>4
  <1>5. ASSUME UpdateFinishes PROVE BookInv'
    BY <1>5 DEF UpdateFinishes, Finish, EndPass, contacts, Sampled, Closing
  <1>6. ASSUME ChargingOn PROVE BookInv'
    BY <1>6 DEF ChargingOn, ContactsClosed, Sampled, Closing
  <1>7. ASSUME HardFaultTurn PROVE BookInv'
    <2>1. /\ pc = "hf" /\ pc' \in {"hf", "idle", "tail", "finish"} /\ UNCHANGED <<relay, meter, unbooked>>
          /\ pc' = "idle" => stage' # "run"
      BY <1>7
        DEF HardFaultTurn, HardFaultPolls, HardFaultEnds, PassOver, contacts, flow, Guarded,
                  PassState, TypeOK
    <2>2. kont # "never" => pc' = "hf" \/ state' = "UNKNOWN"
      BY <1>7 DEF HardFaultTurn, HardFaultPolls, HardFaultEnds, flow
    <2>3. QED
      BY <2>1, <2>2 DEF Sampled, Closing
  <1>8. ASSUME MeterUpdate PROVE BookInv'
    <2>1. pc = "idle" /\ UNCHANGED <<pc, state, pilot, relay, chargingOn, conn, pass>>
      BY <1>8 DEF MeterUpdate, MeterTurn, vars
    <2>2. (chargingOn => relay) /\ (relay /\ pilot = "PWM" => state = "C")
      BY <2>1 DEF Served, FlagWhere, Guarded, ClosedWhere
    <2>3. /\ meter.on <=> meter.conn
          /\ meter.ws \in Nat /\ meter.since \in Nat /\ unbooked \in Int
          /\ meter'.on <=> conn
      BY <1>8, MeterFields DEF MeterTurn, SessionTypeOK
    <2>4. MeterFresh'
      <3>1. conn /\ ~chargingOn => ~meter'.closed
        BY <1>8, MeterFields
      <3>2. QED
        BY <2>1, <2>2, <2>3, <3>1 DEF Sampled, Closing
    <2>5. CASE ~conn
      BY <1>8, <2>3, <2>4, <2>5, BookingTakes
    <2>6. CASE conn /\ ~meter.conn
      BY <1>8, <2>3, <2>4, <2>6, BookingTakes, MeterFields
    <2>7. CASE conn /\ meter.conn
      <3>1. unbooked' = unbooked
        BY <1>8, <2>7, BookingTakes
      <3>2. CASE chargingOn
        <4>1. meter'.since = 0
          BY <1>8, <2>7, <3>2, MeterFields
        <4>2. meter'.ws = IF meter.closed THEN meter.ws + meter.since ELSE meter.ws
          BY <1>8, <2>7, <3>2, MeterFields
        <4>3. QED
          BY <2>1, <2>2, <2>3, <2>4, <2>7, <3>1, <3>2, <4>1, <4>2
      <3>3. CASE ~chargingOn
        BY <1>8, <2>3, <2>4, <2>7, <3>1, <3>3, MeterFields
      <3>4. QED
        BY <3>2, <3>3
    <2>8. QED
      BY <2>5, <2>6, <2>7
  <1>9. ASSUME (\E n \in Totals : SetTotkWh(n)) \/ (\E c \in LockCommands : Mennekes(c))
        PROVE  BookInv'
    BY <1>9 DEF SetTotkWh, Mennekes, vars
  <1>10. ASSUME DisableUnlocks PROVE BookInv'
    BY <1>10 DEF DisableUnlocks, Disable, Receives, OpenContacts, Polling, Sampled, Closing
  <1>11. ASSUME ResetTotkWh PROVE BookInv'
    BY <1>11 DEF ResetTotkWh, ResetFaultCounters, Receives, contacts
  <1>12. ASSUME Restarts PROVE BookInv'
    <2>1. ~meter'.on /\ unbooked' = 0
      BY <1>12 DEF Restarts, NewMeter
    <2>2. QED
      BY <2>1
  <1>13. ASSUME Unnoticed PROVE BookInv'
    <2>1. UNCHANGED <<meter, unbooked, stage>>
      BY <1>13 DEF Unnoticed
    <2>2. CASE Enable \/ Sleep \/ Reboot
      BY <2>1, <2>2 DEF Enable, Sleep, Reboot, Receives, contacts, Polling, Sampled, Closing
    <2>3. CASE ClearBootLock
      BY <2>1, <2>3
        DEF ClearBootLock, ctl, contacts, Sampled, Closing, Served, VehicleWhere, Starting, MeterTurn
    <2>4. CASE (\E c \in Toggles : Feature(c)) \/ TempRead \/ EvChanges
      BY <2>1, <2>4 DEF Feature, TempRead, EvChanges, ctl, contacts, flow
    <2>5. CASE Boot
      BY <2>1, <2>5, BootStep DEF MeterTurn, Starting, Sampled, Closing
    <2>6. QED
      BY <1>13, <2>2, <2>3, <2>4, <2>5 DEF Unnoticed, GfiInterrupt
  <1>14. ASSUME TimePasses PROVE BookInv'
    <2>1. /\ meter'.on = meter.on /\ meter'.closed = meter.closed /\ meter'.ws = meter.ws
          /\ meter'.since = Least(meter.since + 1, MaxGap)
      BY <1>14 DEF TimePasses, SessionTypeOK
    <2>2. /\ UNCHANGED <<pc, relay, state, pilot, pass, stage>>
      BY <1>14 DEF TimePasses, Tick, contacts, flow
    <2>3. unbooked' = IF relay THEN unbooked + 1 ELSE unbooked
      BY <1>14 DEF TimePasses
    <2>4. /\ meter.ws \in Nat /\ meter.since \in Nat /\ unbooked \in Int
          /\ meter'.since <= meter.since + 1 /\ meter'.since \in Nat
      BY <2>1, SessionAssumption DEF SessionTypeOK, Least
    <2>5. MeterFresh'
      BY <2>1, <2>2
    <2>6. BookWhere'
      BY <2>1, <2>2, <2>3, <2>4
    <2>7. QED
      BY <2>5, <2>6
  <1>15. ASSUME UNCHANGED sessionVars PROVE BookInv'
    BY <1>15 DEF sessionVars, vars
  <1>16. QED
    BY <1>1, <1>2, <1>3, <1>4, <1>5, <1>6, <1>7, <1>8, <1>9, <1>10, <1>11, <1>12, <1>13,
       <1>14, <1>15 DEF SessionNext

\* No energy is booked twice, across unplugging, restarts, $SK and $FC, with the total
\* wrapping anywhere, provided no trip opens the contacts: the meter reads the flag of
\* chargingOn(), which a trip leaves set until a pass has noticed it.
THEOREM NothingBookedTwice ==
  ASSUME Sheltered, "gfi" \notin Faults
  PROVE  SessionSpec => []BookedOnce
  <1>1. SessionInit => BookInv
    BY DEF SessionInit, Init, BookInv, MeterFresh, BookWhere, BookedOnce, NewMeter
  <1>2. /\ TypeOK /\ Guarded /\ Kept /\ Served /\ SessionTypeOK /\ MeterTurn
        /\ BookInv /\ [SessionNext]_sessionVars
        => BookInv'
    BY BookStep
  <1>3. BookInv => BookedOnce
    BY DEF BookInv, BookWhere
  <1>4. QED
    BY <1>1, <1>2, <1>3, SessionServed, MeterTurnAlways, PTL DEF SessionSpec

\* The meter has seen the contacts closed before the clock goes on, and takes every tick.
MeterSees ==
    /\ pc = "idle" /\ stage = "run" /\ relay /\ meter.on =>
         meter.closed /\ (ran => meter.since = 0)
    /\ pc # "reboot" /\ relay /\ meter.on /\ meter.closed => meter.since <= 1

\* A vehicle the meter has not noticed yet is not served.
Newcomer ==
    pc \notin {"hf", "reboot"} /\ conn /\ ~meter.conn =>
        /\ closedFor = 0 /\ closings = 0 /\ ~relay
        /\ pc = "act" => state # "C"
        /\ pc \notin Closing
        /\ pc \in Sampled /\ pilot = "PWM" => tmp # "C"

\* How many ticks the meter is ahead or behind, next to the closings.
Late ==
    IF ~relay \/ pc \in {"holding", "closed"} THEN 0
    ELSE IF meter.closed THEN meter.since - 1 ELSE -1

\* The energy metered so far against the time it stands for.
MeterCount ==
    meter.on =>
        /\ meter.ws <= closedFor
        /\ relay /\ meter.closed => meter.ws + meter.since <= closedFor
        /\ pc # "reboot" /\ closings < MaxClosings => closedFor <= meter.ws + closings + Late

MeterInv == MeterSees /\ Newcomer /\ MeterCount

\* Opening the contacts is no loss to the meter.
LEMMA Opening ==
  ASSUME SessionTypeOK, MeterInv, relay' => relay, pc' \notin {"holding", "closed"},
         pc \notin {"holding", "closed", "reboot"},
         meter' = meter, closedFor' = closedFor, closings' = closings
  PROVE  MeterCount'
  BY DEF SessionTypeOK, MeterInv, MeterSees, MeterCount, Late

\* Every step keeps it.
LEMMA MeterStep ==
  ASSUME Sheltered, Unpanicked, SlowHands, "gfi" \notin Faults, "oc" \notin Faults,
         TypeOK, Guarded, Kept, Served, SessionTypeOK, TimeWhere, MeterTurn, MeterFresh,
         MeterInv, [SessionNext]_sessionVars
  PROVE  MeterInv'
  <1> USE DEF MeterInv, MeterSees, Newcomer, MeterCount, Sampled, Closing,
        lock, times, history, session
  <1>0. /\ relay /\ ~conn => ev = "none"
        /\ pilot = "N12" => ~relay
    BY DEF TimeWhere, Served, VehicleWhere
  <1>1. ASSUME UpdateBegins PROVE MeterInv'
    <2>1. /\ pc = "idle" /\ pc' = "supply" /\ stage = "run" /\ state # "DISABLED"
          /\ conn' = ReadPilot /\ UNCHANGED <<state, pilot, relay, tmp, meter>>
      BY <1>1 DEF UpdateBegins, PassBegins, contacts
    <2>2. ReadsPilot /\ ChargeTimeStarts
      BY <1>1 DEF UpdateBegins
    <2>3. (meter.conn <=> conn) /\ (meter.on <=> conn)
      BY <2>1 DEF MeterTurn
    <2>4. CASE conn' /\ ~conn
      <3>1. ~relay /\ closedFor' = 0 /\ closings' = 0
        BY <1>0, <2>1, <2>2, <2>4, PlugNoticed
      <3>2. pilot = "PWM" => tmp # "C"
        BY <2>1, <2>4 DEF Served, ReadyWhere
      <3>3. QED
        BY <2>1, <2>3, <2>4, <3>1, <3>2
    <2>5. CASE ~(conn' /\ ~conn)
      <3>1. closedFor' = closedFor /\ closings' = closings
        BY <2>1, <2>2, <2>5, PlugNoticed
      <3>2. MeterCount'
        BY <2>1, <3>1, Opening
      <3>3. QED
        BY <2>1, <2>3, <2>5, <3>2
    <2>6. QED
      BY <2>4, <2>5
  <1>2. ASSUME UpdateAsleep PROVE MeterInv'
    <2>1. /\ pc = "idle" /\ pc' = "idle" /\ stage = "run" /\ stage' = "meter"
          /\ state # "DISABLED" /\ conn' = ReadPilot
          /\ UNCHANGED <<state, pilot, tmp, meter>> /\ (relay' => relay)
      BY <1>2 DEF UpdateAsleep, PassSleeping, OpenContacts, contacts, flow
    <2>2. ReadsPilot /\ ChargeTimeStarts
      BY <1>2 DEF UpdateAsleep
    <2>3. (meter.conn <=> conn) /\ (meter.on <=> conn)
      BY <2>1 DEF MeterTurn
    <2>4. CASE conn' /\ ~conn
      <3>1. ~relay /\ closedFor' = 0 /\ closings' = 0
        BY <1>0, <2>1, <2>2, <2>4, PlugNoticed
      <3>2. QED
        BY <2>1, <2>3, <2>4, <3>1
    <2>5. CASE ~(conn' /\ ~conn)
      <3>1. closedFor' = closedFor /\ closings' = closings
        BY <2>1, <2>2, <2>5, PlugNoticed
      <3>2. MeterCount'
        BY <2>1, <3>1, Opening
      <3>3. QED
        BY <2>1, <2>3, <2>5, <3>2
    <2>6. QED
      BY <2>4, <2>5
  <1>3. ASSUME UpdateDisabled PROVE MeterInv'
    BY <1>3 DEF UpdateDisabled, PassDisabled, ctl, contacts, flow, Late
  <1>4. ASSUME UpdateGoesOn PROVE MeterInv'
    <2>1. PassStep /\ UNCHANGED <<meter, closedFor, closings>>
      BY <1>4, InPassKeeps DEF UpdateGoesOn
    <2>2. pc' = "idle" => stage' # "run"
      BY <1>4 DEF UpdateGoesOn, PassOver
    <2>3. pc \in {"close", "holding"} => (meter.on => ~meter.closed)
      BY DEF MeterFresh
    <2>4. MeterSees'
      BY <2>1, <2>2, <2>3 DEF PassStep, Polling
    <2>5. Newcomer'
      BY <2>1 DEF PassStep, Polling
    <2>6. MeterCount'
      <3>1. CASE pc \in {"close", "holding"}
        <4>1. pc' \in {"holding", "closed"} /\ pc # "reboot"
          BY <2>1, <3>1 DEF PassStep
        <4>2. Late = 0 /\ Late' = 0
          BY <3>1, <4>1 DEF Late, Guarded, ClosedWhere
        <4>3. QED
          BY <2>1, <2>3, <3>1, <4>1, <4>2
      <3>2. CASE pc \notin {"close", "holding"}
        BY <2>1, <3>2, Opening DEF PassStep
      <3>3. QED
        BY <3>1, <3>2
    <2>7. QED
      BY <2>4, <2>5, <2>6
  <1>5. ASSUME UpdateFinishes PROVE MeterInv'
    BY <1>5 DEF UpdateFinishes, Finish, EndPass, contacts, Late
  <1>6. ASSUME ChargingOn PROVE MeterInv'
    <2>1. /\ pc = "closed" /\ pc' = "tail" /\ UNCHANGED <<state, conn, relay, meter, closedFor>>
      BY <1>6 DEF ChargingOn, ContactsClosed, Acted
    <2>2. closings' = IF closings < MaxClosings THEN closings + 1 ELSE closings
      BY <1>6 DEF ChargingOn
    <2>3. closings' < MaxClosings => closings < MaxClosings /\ closings' = closings + 1
      BY <2>2, SessionAssumption DEF SessionTypeOK
    <2>4. meter.on => ~meter.closed
      BY <2>1 DEF MeterFresh
    <2>5. Late = 0 /\ (meter.on => Late' \in {-1, 0})
      BY <2>1, <2>4 DEF Late
    <2>6. MeterCount'
      BY <2>1, <2>3, <2>4, <2>5 DEF SessionTypeOK
    <2>7. MeterSees' /\ Newcomer'
      BY <2>1, <2>4
    <2>8. QED
      BY <2>6, <2>7
  <1>7. ASSUME HardFaultTurn PROVE MeterInv'
    <2>1. /\ pc = "hf" /\ ~relay /\ ~relay' /\ UNCHANGED <<meter, closedFor, closings>>
      BY <1>7 DEF HardFaultTurn, HardFaultPolls, HardFaultEnds, contacts, Guarded, ClosedWhere
    <2>2. pc' = "hf" \/ ~conn'
      BY <1>7 DEF HardFaultTurn, HardFaultPolls, HardFaultEnds, flow
    <2>3. Late = 0 /\ Late' = 0
      BY <2>1 DEF Late
    <2>4. QED
      BY <2>1, <2>2, <2>3
  <1>8. ASSUME MeterUpdate PROVE MeterInv'
    <2>1. pc = "idle" /\ UNCHANGED <<pc, relay, conn, ran, closedFor, closings>>
      BY <1>8 DEF MeterUpdate, MeterTurn, vars
    <2>2. chargingOn <=> relay
      BY <2>1 DEF Served, FlagWhere, Kept, SleepWhere
    <2>3. /\ meter.on <=> meter.conn
          /\ meter.ws \in Nat /\ meter.since \in Nat
          /\ meter'.on <=> conn
          /\ meter'.conn <=> conn
      BY <1>8, MeterFields DEF MeterTurn, SessionTypeOK
    <2>4. conn /\ relay => meter'.closed /\ meter'.since = 0
      BY <1>8, <2>2, MeterFields
    <2>5. MeterSees' /\ Newcomer'
      BY <2>1, <2>3, <2>4
    <2>6. CASE ~conn
      BY <2>3, <2>5, <2>6
    <2>7. CASE conn /\ ~meter.conn
      <3>1. meter'.ws = 0 /\ closedFor = 0 /\ closings = 0 /\ ~relay
        BY <1>8, <2>1, <2>7, MeterFields
      <3>2. Late' = 0
        BY <2>1, <3>1 DEF Late
      <3>3. QED
        BY <2>1, <2>5, <3>1, <3>2
    <2>8. CASE conn /\ meter.conn
      <3>1. meter'.ws = IF relay /\ meter.closed THEN meter.ws + meter.since ELSE meter.ws
        BY <1>8, <2>2, <2>8, MeterFields
      <3>2. CASE relay
        <4>1. Late' = -1 /\ Late = IF meter.closed THEN meter.since - 1 ELSE -1
          BY <2>1, <2>4, <2>8, <3>2 DEF Late
        <4>2. MeterCount'
          BY <2>1, <2>3, <2>4, <2>8, <3>1, <3>2, <4>1 DEF SessionTypeOK
        <4>3. QED
          BY <2>5, <4>2
      <3>3. CASE ~relay
        <4>1. Late' = 0 /\ Late = 0
          BY <2>1, <3>3 DEF Late
        <4>2. QED
          BY <2>1, <2>3, <2>5, <2>8, <3>1, <3>3, <4>1
      <3>4. QED
        BY <3>2, <3>3
    <2>9. QED
      BY <2>6, <2>7, <2>8
  <1>9. ASSUME (\E n \in Totals : SetTotkWh(n)) \/ (\E c \in LockCommands : Mennekes(c))
        PROVE  MeterInv'
    BY <1>9 DEF SetTotkWh, Mennekes, vars, Late
  <1>10. ASSUME DisableUnlocks PROVE MeterInv'
    <2>1. /\ pc \in Polling /\ pc' = pc /\ ~relay' /\ UNCHANGED <<conn, meter, closedFor, closings>>
      BY <1>10 DEF DisableUnlocks, Disable, Receives, OpenContacts
    <2>2. MeterCount'
      BY <2>1, Opening DEF Polling
    <2>3. QED
      BY <2>1, <2>2 DEF Polling
  <1>11. ASSUME ResetTotkWh PROVE MeterInv'
    <2>1. /\ pc \in Polling /\ pc' = pc
          /\ UNCHANGED <<relay, conn, ran, meter, closedFor, closings, stage>>
      BY <1>11 DEF ResetTotkWh, ResetFaultCounters, Receives, contacts
    <2>2. MeterCount'
      BY <2>1, Opening DEF Polling
    <2>3. QED
      BY <2>1, <2>2 DEF Polling
  <1>12. ASSUME Restarts PROVE MeterInv'
    BY <1>12 DEF Restarts, Reset, PowerUp, NewMeter
  <1>13. ASSUME Unnoticed PROVE MeterInv'
    <2>1. UNCHANGED <<meter, closedFor, closings, stage>>
      BY <1>13 DEF Unnoticed
    <2>2. CASE Enable \/ Sleep \/ Reboot
      <3>1. /\ pc \in Polling /\ pc' \in {pc, "reboot"} /\ UNCHANGED <<relay, conn, ran>>
        BY <2>2 DEF Enable, Sleep, Reboot, Receives, contacts
      <3>2. MeterCount'
        BY <2>1, <3>1, Opening DEF Polling
      <3>3. QED
        BY <2>1, <3>1, <3>2 DEF Polling
    <2>3. CASE ClearBootLock \/ Boot
      <3>1. ~conn' /\ ~relay' /\ ~meter'.on
        BY <2>1, <2>3, BootStep
        DEF ClearBootLock, ctl, contacts, Served, VehicleWhere, Starting, MeterTurn, Guarded, ClosedWhere
      <3>2. QED
        BY <3>1
    <2>4. CASE (\E c \in Toggles : Feature(c)) \/ TempRead \/ EvChanges
      BY <2>1, <2>4 DEF Feature, TempRead, EvChanges, ctl, contacts, flow, Late
    <2>5. QED
      BY <1>13, <2>2, <2>3, <2>4 DEF Unnoticed, GfiInterrupt
  <1>14. ASSUME TimePasses PROVE MeterInv'
    <2>1. /\ meter'.on = meter.on /\ meter'.conn = meter.conn
          /\ meter'.closed = meter.closed /\ meter'.ws = meter.ws
          /\ meter'.since = Least(meter.since + 1, MaxGap)
          /\ meter.ws \in Nat /\ meter.since \in Nat
      BY <1>14 DEF TimePasses, SessionTypeOK
    <2>2. /\ pc \in Blocking \/ (pc = "idle" /\ ran)
          /\ UNCHANGED <<pc, pilot, conn, relay, state, tmp, closings, stage>>
          /\ stage = "run" /\ ~ran'
      BY <1>14 DEF TimePasses, Tick, Commanded, contacts, flow
    <2>3. closedFor' = IF relay THEN closedFor + 1 ELSE closedFor
      BY <1>14 DEF TimePasses
    <2>4. CASE ~relay
      <3>1. Late = 0 /\ Late' = 0
        BY <2>2, <2>4 DEF Late
      <3>2. QED
        BY <2>1, <2>2, <2>3, <2>4, <3>1
    <2>5. CASE relay
      <3>1. pc = "reboot" \/ (pc = "idle" /\ ran)
        BY <2>2, <2>5 DEF Blocking, Guarded, ClosedWhere, Served, WaitWhere
      <3>2. meter'.since \in Nat /\ meter'.since <= meter.since + 1
        BY <2>1, SessionAssumption DEF Least
      <3>3. CASE pc = "reboot"
        BY <2>1, <2>2, <2>3, <2>5, <3>2, <3>3 DEF SessionTypeOK
      <3>4. CASE pc = "idle" /\ ran
        <4>1. meter.on => meter.closed /\ meter.since = 0 /\ meter'.since = 1
          BY <2>1, <2>2, <2>5, <3>4, SessionAssumption DEF Least
        <4>2. meter.on => Late = -1 /\ Late' = 0
          BY <2>1, <2>2, <2>5, <3>4, <4>1 DEF Late
        <4>3. MeterCount'
          BY <2>1, <2>2, <2>3, <2>5, <3>4, <4>1, <4>2 DEF SessionTypeOK
        <4>4. MeterSees' /\ Newcomer'
          BY <2>1, <2>2, <2>5, <3>4, <4>1
        <4>5. QED
          BY <4>3, <4>4
      <3>5. QED
        BY <3>1, <3>3, <3>4
    <2>6. QED
      BY <2>4, <2>5
  <1>15. ASSUME UNCHANGED sessionVars PROVE MeterInv'
    BY <1>15 DEF sessionVars, vars, Late
  <1>16. QED
    BY <1>1, <1>2, <1>3, <1>4, <1>5, <1>6, <1>7, <1>8, <1>9, <1>10, <1>11, <1>12, <1>13,
       <1>14, <1>15 DEF SessionNext

\* The energy of a session is metered: never more than the time the contacts were closed
\* for the vehicle, and less by no more than a tick per closing, throttled or not.  Trips,
\* over-currents and panic are left out: the first leave the flag the meter reads set over
\* open contacts, the others keep Update() from returning to it while they are closed.
THEOREM EnergyMetered ==
  ASSUME Sheltered, Unpanicked, SlowHands, "gfi" \notin Faults, "oc" \notin Faults
  PROVE  SessionSpec => []MeterKeepsUp
  <1>1. SessionInit => BookInv /\ TimeWhere /\ MeterInv
    <2>1. SessionInit => BookInv
      BY DEF SessionInit, Init, BookInv, MeterFresh, BookWhere, BookedOnce, NewMeter
    <2>2. SessionInit => MeterInv
      BY DEF SessionInit, Init, MeterInv, MeterSees, Newcomer, MeterCount, NewMeter
    <2>3. QED
      BY <2>1, <2>2, TimeInit
  <1>2. /\ TypeOK /\ Guarded /\ Kept /\ Served /\ SessionTypeOK /\ MeterTurn
        /\ BookInv /\ TimeWhere /\ MeterInv /\ [SessionNext]_sessionVars
        => BookInv' /\ TimeWhere' /\ MeterInv'
    BY BookStep, TimeStep, MeterStep DEF BookInv
  <1>3. SessionTypeOK /\ MeterInv => MeterKeepsUp
    BY DEF SessionTypeOK, MeterInv, MeterSees, MeterCount, MeterKeepsUp, Late
  <1>4. QED
    BY <1>1, <1>2, <1>3, SessionServed, MeterTurnAlways, PTL DEF SessionSpec

=============================================================================
