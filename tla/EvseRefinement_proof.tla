------------------------ MODULE EvseRefinement_proof ------------------------
(***************************************************************************)
(* The charge controller implements SafeCharging.                           *)
(***************************************************************************)
EXTENDS EvseSafety_proof

\* The step, seen from outside, is one of the abstract charger's or none.
Refines == [Charger!Next]_(Charger!abstract)

\* A step on which no charging period begins and no contact closes retires.
LEMMA RetireRefines ==
  ASSUME relay \in BOOLEAN, relay' \in {relay, FALSE}, owed' = owed,
         Service' # "charging" \/ Service' = Service,
         Service' = "fault" /\ pc' \in Polling => ~relay'
  PROVE  Refines
  <1>1. Service' \in {"ready", "charging", "fault", "resting"}
    BY DEF Service
  <1>2. Charger!Retire
    BY <1>1 DEF Charger!Retire, Charger!Services
  <1>3. QED
    BY <1>2 DEF Refines, Charger!Next

\* A step that clears the debt over open contacts, in or out of a fault, answers.
LEMMA AnswerRefines ==
  ASSUME relay \in BOOLEAN, owed \in BOOLEAN, ~relay, relay' = relay, owed' = FALSE,
         Service' # "charging"
  PROVE  Refines
  <1>1. CASE owed
    <2>1. Charger!Answer
      BY <1>1 DEF Charger!Answer, Charger!Services, Service
    <2>2. QED
      BY <2>1 DEF Refines, Charger!Next
  <1>2. CASE ~owed
    BY <1>2, RetireRefines
  <1>3. QED
    BY <1>1, <1>2

\* The step of Guarded, action by action.
LEMMA StepRefines ==
  ASSUME Sheltered, ~RelayPwm, TypeOK, Guarded, Guarded', [Next]_vars
  PROVE  Refines
  <1>types. /\ relay \in BOOLEAN /\ owed \in BOOLEAN
            /\ owed => ~relay
            /\ state \in FaultStates /\ pc \in Polling => ~relay
    BY DEF TypeOK, Guarded, OwedWhere, ClosedWhere, Polling, FaultStates
  <1> USE DEF ctl, contacts, gfi, eeprom, flow, env, OpenContacts, Refines, Charger!Next,
        Charger!Retire, Charger!Services, Charger!abstract, Service, FaultStates, Polling,
        Guarded, ClosedWhere, PassState
  <1>1. ASSUME PostFails PROVE Refines
    BY <1>1, <1>types DEF PostFails
  <1>2. ASSUME PostPasses PROVE Refines
    BY <1>2, <1>types DEF PostPasses
  <1>3. ASSUME PpErrorEnds PROVE Refines
    BY <1>3, <1>types DEF PpErrorEnds
  <1>4. ASSUME PassDisabled PROVE Refines
    BY <1>4, <1>types DEF PassDisabled
  <1>5. ASSUME PassSleeping PROVE Refines
    BY <1>5, <1>types DEF PassSleeping
  <1>6. ASSUME PassBegins PROVE Refines
    BY <1>6, <1>types DEF PassBegins
  <1>7. ASSUME CgmiGroundFault PROVE Refines
    <2>1. state' = "NO_GROUND" /\ relay' = FALSE /\ owed' = owed /\ pc' = "gfi"
      BY <1>7 DEF CgmiGroundFault, SupplyDone
    <2>2. QED
      BY <1>types, <2>1, RetireRefines DEF Service, Polling, FaultStates
  <1>8. ASSUME RelayClosureFault PROVE Refines
    <2>1. state' = "RELAY_CLOSURE_FAULT" /\ relay' = FALSE /\ owed' = owed /\ pc' = "gfi"
      BY <1>8 DEF RelayClosureFault, SupplyDone
    <2>2. QED
      BY <1>types, <2>1, RetireRefines DEF Service, Polling, FaultStates
  <1>9. ASSUME GroundFaultUnderLoad PROVE Refines
    <2>1. state' = "NO_GROUND" /\ relay' = FALSE /\ owed' = owed /\ pc' = "gfi"
      BY <1>9 DEF GroundFaultUnderLoad, SupplyDone
    <2>2. QED
      BY <1>types, <2>1, RetireRefines DEF Service, Polling, FaultStates
  <1>10. ASSUME GroundFaultUnplugged PROVE Refines
    BY <1>10, <1>types DEF GroundFaultUnplugged, EndPass, Supplied
  <1>11. ASSUME GroundFaultRetry PROVE Refines
    BY <1>11, <1>types DEF GroundFaultRetry, SupplyDone, Supplied
  <1>12. ASSUME GroundFaultStays PROVE Refines
    BY <1>12, <1>types DEF GroundFaultStays, SupplyDone, Faulted, Supplied
  <1>13. ASSUME StuckReading PROVE Refines
    BY <1>13, <1>types DEF StuckReading, SupplyDone, Faulted, Supplied
  <1>14. ASSUME SupplyGood PROVE Refines
    BY <1>14, <1>types DEF SupplyGood, SupplyDone, Supplied
  <1>15. ASSUME NoTrip PROVE Refines
    BY <1>15, <1>types DEF NoTrip, TripHandled
  <1>16. ASSUME TripNoticed PROVE Refines
    BY <1>16, <1>types DEF TripNoticed, TripHandled, Faulted, TripChecked
  <1>17. ASSUME TripUnplugged PROVE Refines
    <2>1. state' = "UNKNOWN" /\ relay' = relay /\ owed' = FALSE /\ pc' = "idle"
      BY <1>17 DEF TripUnplugged, EndPass
    <2>2. ~relay
      BY <1>17 DEF TripUnplugged, TripChecked, Guarded, ClosedWhere
    <2>3. QED
      BY <1>types, <2>1, <2>2, AnswerRefines DEF Service, FaultStates
  <1>18. ASSUME TripStays PROVE Refines
    BY <1>18, <1>types DEF TripStays, TripHandled, Faulted, TripChecked
  <1>19. ASSUME TripRetried PROVE Refines
    <2>1. state' = "GFCI_FAULT" /\ relay' = relay /\ owed' = FALSE
      BY <1>19 DEF TripRetried, TripHandled
    <2>2. ~relay
      BY <1>19 DEF TripRetried, TripChecked, Guarded, ClosedWhere
    <2>3. QED
      BY <1>types, <2>1, <2>2, AnswerRefines DEF Service, FaultStates
  <1>20. ASSUME TripGivenUp PROVE Refines
    BY <1>20, <1>types DEF TripGivenUp, HardFault, TripChecked
  <1>21. ASSUME FaultChosen PROVE Refines
    BY <1>21, <1>types DEF FaultChosen, StateChosen
  <1>22. ASSUME PilotChosen PROVE Refines
    <2>1. /\ pc = "pilot" /\ pass.nofault /\ state = pass.prev
          /\ UNCHANGED <<relay, owed>> /\ pc' \in {"act", "tail"}
      BY <1>22 DEF PilotChosen, StateChosen, Guarded, PassState
    <2>2. state' = "C" /\ state # "C" => ~relay /\ ~owed /\ Service = "ready"
      <3> DEFINE leaving == pass.prev \in FaultStates
                 prev == IF leaving THEN "UNKNOWN" ELSE pass.prev
                 p == IF leaving THEN "P12" ELSE pilot
      <3>1. SUFFICES ASSUME state' = "C", state # "C"
                     PROVE  ~relay /\ ~owed /\ Service = "ready"
        OBVIOUS
      <3>2. PICK target \in Targets(p) : state' \in {prev, target, "PP_SHORTED", "PP_MISSING"}
        BY <1>22 DEF PilotChosen, StateChosen, Granted
      <3>3. target = "C"
        BY <2>1, <3>1, <3>2
      <3>4. p = "PWM"
        BY <3>3 DEF Targets, LevelState, AcCheck, Guarded, ConfigKept
      <3>5. pc' = "act"
        BY <1>22, <2>1, <3>1 DEF PilotChosen, StateChosen
      <3>6. ~leaving /\ pilot = "PWM" /\ ~relay
        BY <2>1, <3>1, <3>4, <3>5 DEF Guarded, ClosedWhere
      <3>7. ~owed
        BY <2>1, <3>6 DEF Guarded, OwedWhere
      <3>8. state \notin {"SLEEPING", "DISABLED"}
        BY <2>1 DEF Guarded, PassState
      <3>9. QED
        BY <2>1, <3>1, <3>6, <3>7, <3>8 DEF Service
    <2>3. CASE state' = "C" /\ state # "C"
      <3>1. Charger!Begin
        BY <2>1, <2>2, <2>3 DEF Charger!Begin, Service
      <3>2. QED
        BY <2>3, <3>1 DEF Refines, Charger!Next, Service
    <2>4. CASE ~(state' = "C" /\ state # "C")
      BY <1>types, <2>1, <2>4, RetireRefines DEF Service, Polling
    <2>5. QED
      BY <2>3, <2>4
  <1>23. ASSUME BecomesA PROVE Refines
    <2>1. relay' = FALSE /\ owed' = owed /\ state' = state
      BY <1>23 DEF BecomesA, Acted
    <2>2. QED
      BY <1>types, <2>1, RetireRefines DEF Service
  <1>24. ASSUME BecomesB PROVE Refines
    <2>1. relay' = FALSE /\ owed' = owed /\ state' = state
      BY <1>24 DEF BecomesB, Acted
    <2>2. QED
      BY <1>types, <2>1, RetireRefines DEF Service
  <1>25. ASSUME BecomesC PROVE Refines
    BY <1>25, <1>types DEF BecomesC, Acted, Becomes, AcCheck
  <1>26. ASSUME BecomesFault PROVE Refines
    <2>1. relay' = FALSE /\ owed' = owed /\ state' = state
      BY <1>26 DEF BecomesFault, Acted
    <2>2. QED
      BY <1>types, <2>1, RetireRefines DEF Service
  <1>27. ASSUME BecomesHardFault PROVE Refines
    BY <1>27, <1>types DEF BecomesHardFault, Acted, HardFault, Becomes
  <1>28. ASSUME BecomesStuckRelay PROVE Refines
    BY <1>28, <1>types DEF BecomesStuckRelay, Acted, HardFault, Becomes
  <1>29. ASSUME BecomesOverTemperature PROVE Refines
    BY <1>29, <1>types DEF BecomesOverTemperature, Acted, Becomes
  <1>30. ASSUME OverTemperatureOpens PROVE Refines
    BY <1>30, <1>types DEF OverTemperatureOpens, Acted, HardFault
  <1>31. ASSUME SelfTestNotReady PROVE Refines
    BY <1>31, <1>types DEF SelfTestNotReady, SelfTestFails, HardFault
  <1>32. ASSUME SelfTestStarts PROVE Refines
    BY <1>32, <1>types DEF SelfTestStarts
  <1>33. ASSUME SelfTestPinStays PROVE Refines
    BY <1>33, <1>types DEF SelfTestPinStays, SelfTestFails, HardFault
  <1>34. ASSUME SelfTestNoTrip PROVE Refines
    BY <1>34, <1>types DEF SelfTestNoTrip, SelfTestFails, HardFault
  <1>35. ASSUME SelfTestPasses PROVE Refines
    BY <1>35, <1>types DEF SelfTestPasses
  <1>36. ASSUME CloseContacts PROVE Refines
    <2>1. pc' = "closed" /\ relay' \in BOOLEAN /\ owed' = owed /\ state' = state
      BY <1>36 DEF CloseContacts, PinsDriven
    <2>2. state = "C" /\ ~relay /\ ~owed
      BY <1>36, <1>types DEF CloseContacts, Guarded, PassState, ClosedWhere, OwedWhere
    <2>3. CASE relay'
      <3>1. Charger!Close
        BY <2>1, <2>2, <2>3 DEF Charger!Close, Service
      <3>2. QED
        BY <2>1, <2>2, <3>1 DEF Refines, Charger!Next, Service
    <2>4. CASE ~relay'
      BY <1>types, <2>1, <2>2, <2>4, RetireRefines DEF Service
    <2>5. QED
      BY <2>1, <2>3, <2>4
  <1>hold. ASSUME HoldContacts PROVE Refines
    BY <1>hold, <1>types DEF HoldContacts, PinsDriven
  <1>37. ASSUME ContactsClosed PROVE Refines
    BY <1>37, <1>types DEF ContactsClosed, Acted
  <1>38. ASSUME EarlyHardFault PROVE Refines
    BY <1>38, <1>types DEF EarlyHardFault, HardFault
  <1>39. ASSUME CurrentChecked PROVE Refines
    BY <1>39, <1>types DEF CurrentChecked, Acted
  <1>40. ASSUME OverCurrent PROVE Refines
    BY <1>40, <1>types DEF OverCurrent
  <1>41. ASSUME OverCurrentOpens PROVE Refines
    BY <1>41, <1>types DEF OverCurrentOpens, Acted, HardFault
  <1>42. ASSUME Finish PROVE Refines
    BY <1>42, <1>types DEF Finish, EndPass
  <1>43. ASSUME HardFaultEnds PROVE Refines
    <2>1. state' = "UNKNOWN" /\ relay' = relay /\ owed' = FALSE /\ ~relay
      BY <1>43 DEF HardFaultEnds, Guarded, ClosedWhere
    <2>2. QED
      BY <1>types, <2>1, AnswerRefines DEF Service, FaultStates
  <1>44. ASSUME HardFaultPolls PROVE Refines
    BY <1>44, <1>types DEF HardFaultPolls
  <1>45. ASSUME GfiInterrupt PROVE Refines
    <2>1. relay' = FALSE /\ owed' = (owed \/ relay) /\ state' = state
      BY <1>45 DEF GfiInterrupt
    <2>2. Charger!Trip
      BY <2>1 DEF Charger!Trip, Service
    <2>3. QED
      BY <2>1, <2>2 DEF Refines, Charger!Next
  <1>46. ASSUME Enable PROVE Refines
    BY <1>46, <1>types DEF Enable, Receives, Polling
  <1>47. ASSUME Disable PROVE Refines
    BY <1>47, <1>types DEF Disable, Receives, Polling
  <1>48. ASSUME Sleep PROVE Refines
    BY <1>48, <1>types DEF Sleep, Receives, Polling
  <1>49. ASSUME ResetFaultCounters PROVE Refines
    BY <1>49, <1>types DEF ResetFaultCounters, Receives, Polling
  <1>50. ASSUME Reboot PROVE Refines
    BY <1>50, <1>types DEF Reboot, Receives, Polling
  <1>51. ASSUME ClearBootLock PROVE Refines
    BY <1>51, <1>types DEF ClearBootLock
  <1>52. ASSUME Reset PROVE Refines
    <2>1. state' = "UNKNOWN" /\ relay' = FALSE /\ owed' = FALSE /\ pc' = "boot"
      BY <1>52 DEF Reset, PowerUp
    <2>2. CASE relay
      BY <1>types, <2>1, <2>2, RetireRefines DEF Service, FaultStates
    <2>3. CASE ~relay
      BY <1>types, <2>1, <2>3, AnswerRefines DEF Service, FaultStates
    <2>4. QED
      BY <2>2, <2>3
  <1>53. ASSUME EvChanges PROVE Refines
    BY <1>53, <1>types DEF EvChanges
  <1>54. ASSUME TempRead PROVE Refines
    BY <1>54, <1>types DEF TempRead, Polling
  <1>55. ASSUME Tick PROVE Refines
    BY <1>55, <1>types DEF Tick
  <1>56. ASSUME NEW c \in Toggles, Feature(c) PROVE Refines
    BY <1>56, <1>types DEF Feature
  <1>57. ASSUME UNCHANGED vars PROVE Refines
    BY <1>57, <1>types DEF vars
  <1>58. QED
    BY <1>1, <1>2, <1>3, <1>4, <1>5, <1>6, <1>7, <1>8, <1>9, <1>10, <1>11, <1>12,
       <1>13, <1>14, <1>15, <1>16, <1>17, <1>18, <1>19, <1>20, <1>21, <1>22, <1>23,
       <1>24, <1>25, <1>26, <1>27, <1>28, <1>29, <1>30, <1>31, <1>32, <1>33, <1>34,
       <1>35, <1>36, <1>37, <1>38, <1>39, <1>40, <1>41, <1>42, <1>43, <1>44, <1>45,
       <1>46, <1>47, <1>48, <1>49, <1>50, <1>51, <1>52, <1>53, <1>54, <1>55, <1>56,
       <1>57, <1>hold
      DEF Next, Program, Boot, SupplyCheck, GfiCheck,
      Transition, AfterTransition, Command

LEMMA InitRefines == ASSUME Init PROVE Charger!Init
  BY DEF Init, Charger!Init, Service, FaultStates, Polling

\* On a board whose pins no hold duty drives again, with the vent check left on and either
\* no throttling or no waking from sleep, the firmware is a SafeCharging station: charging
\* periods begin with open contacts and no trip unanswered, contacts close only
\* within one, and no trip or visible fault leaves them closed, for all delays.
THEOREM ImplementsSafeCharging ==
  ASSUME Sheltered, ~RelayPwm
  PROVE  Spec => SafelyCharges
  <1>1. Init => Charger!Init
    BY InitRefines
  <1>2. TypeOK /\ Guarded /\ Guarded' /\ [Next]_vars => [Charger!Next]_(Charger!abstract)
    BY StepRefines DEF Refines
  <1>3. QED
    BY <1>1, <1>2, TypeCorrect, GuardedAlways, PTL DEF Spec, SafelyCharges, Charger!Spec

\* ... and with it the promise about states: no unanswered trip behind closed contacts
\* and no fault the client can see over them, which every step of SafeCharging keeps.
THEOREM KeepsPromise ==
  ASSUME Sheltered, ~RelayPwm
  PROVE  Spec => []Charger!Promise
  <1>1. Charger!Init => Charger!Promise
    BY DEF Charger!Init, Charger!Promise
  <1>2. Charger!Promise /\ [Charger!Next]_(Charger!abstract) => Charger!Promise'
    <2> USE DEF Charger!Promise
    <2>1. ASSUME Charger!Promise, Charger!Next PROVE Charger!Promise'
      <3>1. owed' => ~relay'
        BY <2>1
          DEF Charger!Next, Charger!Begin, Charger!Close, Charger!Trip, Charger!Retire,
              Charger!Answer
      <3>2. QED
        BY <2>1, <3>1 DEF Charger!Next
    <2>2. ASSUME Charger!Promise, UNCHANGED Charger!abstract PROVE Charger!Promise'
      BY <2>2 DEF Charger!abstract
    <2>3. QED
      BY <2>1, <2>2
  <1>3. Charger!Spec => []Charger!Promise
    BY <1>1, <1>2, PTL DEF Charger!Spec
  <1>4. QED
    BY <1>3, ImplementsSafeCharging, PTL DEF SafelyCharges
=============================================================================
