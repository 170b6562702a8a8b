-------------------------- MODULE EvseSafety_proof --------------------------
(***************************************************************************)
(* The contacts: no fault and no unanswered trip leaves them closed.        *)
(***************************************************************************)
EXTENDS EvseController_proof

\* A monitor that never throttles finds nothing to change at the end of a pass, and
\* Update() no panic.
LEMMA NothingThrottled ==
  ASSUME Unthrottled, TypeOK, Guarded
  PROVE  ~Overheated /\ (Finish => thermal' = {} /\ pilot' = pilot)
  <1>1. "temp" \notin checks \/ (temp # Panic /\ ~(temp >= Hot) /\ ~(temp >= Hotter))
    BY FeatureAssumption
      DEF Unthrottled, TypeOK, Guarded, ConfigKept, Nominal, Hot, Hotter, Panic
  <1>2. thermal = {} /\ Restored(thermal) = {}
    BY DEF Guarded, ConfigKept, Restored
  <1>3. CASE "temp" \notin checks
    BY <1>2, <1>3 DEF Overheated, AcCheck, Finish
  <1>4. CASE temp # Panic /\ ~(temp >= Hot) /\ ~(temp >= Hotter)
    <2>1. Throttled({}) = {}
      BY <1>4 DEF Throttled
    <2>2. QED
      BY <1>2, <1>4, <2>1 DEF Overheated, AcCheck, Finish
  <1>5. QED
    BY <1>1, <1>3, <1>4

LEMMA GuardedStep ==
  ASSUME Sheltered, TypeOK, Guarded, [Next]_vars
  PROVE  Guarded'
  <1> USE DEF Guarded, ConfigKept, PassState, ClosedWhere, OwedWhere, WokenWhere, Unwoken,
        ctl, contacts, gfi, eeprom, flow, env, OpenContacts, NoPass
  <1>1. ASSUME PostFails PROVE Guarded'
    BY <1>1, Names DEF PostFails
  <1>2. ASSUME PostPasses PROVE Guarded'
    BY <1>2, Names DEF PostPasses
  <1>3. ASSUME PpErrorEnds PROVE Guarded'
    BY <1>3, Names DEF PpErrorEnds
  <1>4. ASSUME PassDisabled PROVE Guarded'
    BY <1>4 DEF PassDisabled
  <1>5. ASSUME PassSleeping PROVE Guarded'
    BY <1>5 DEF PassSleeping
  <1>6. ASSUME PassBegins PROVE Guarded'
    BY <1>6 DEF PassBegins
  <1>7. ASSUME CgmiGroundFault PROVE Guarded'
    BY <1>7, Names DEF CgmiGroundFault, SupplyDone, Faulted, Supplied
  <1>8. ASSUME RelayClosureFault PROVE Guarded'
    BY <1>8, Names DEF RelayClosureFault, SupplyDone, Faulted, Supplied
  <1>9. ASSUME GroundFaultUnderLoad PROVE Guarded'
    BY <1>9, Names DEF GroundFaultUnderLoad, SupplyDone, Faulted, Supplied
  <1>10. ASSUME GroundFaultUnplugged PROVE Guarded'
    BY <1>10, Names DEF GroundFaultUnplugged, EndPass, AwaitsGround, Supplied
  <1>11. ASSUME GroundFaultRetry PROVE Guarded'
    BY <1>11 DEF GroundFaultRetry, SupplyDone, AwaitsGround, Supplied
  <1>12. ASSUME GroundFaultStays PROVE Guarded'
    BY <1>12, Names DEF GroundFaultStays, SupplyDone, Faulted, AwaitsGround, Supplied
  <1>13. ASSUME StuckReading PROVE Guarded'
    <2>1. pass.nofault /\ state = pass.prev /\ pc = "supply" /\ pc' = "gfi"
      BY <1>13 DEF StuckReading, SupplyDone, Supplied
    <2>2. CASE UNCHANGED <<state, trips, pass>>
      BY <1>13, <2>1, <2>2 DEF StuckReading, SupplyDone
    <2>3. CASE state' = "STUCK_RELAY" /\ Faulted
      BY <1>13, <2>1, <2>3, Names DEF StuckReading, SupplyDone, Faulted, TypeOK, Passes
    <2>4. QED
      BY <1>13, <2>2, <2>3 DEF StuckReading
  <1>14. ASSUME SupplyGood PROVE Guarded'
    BY <1>14 DEF SupplyGood, SupplyDone, AwaitsGround, Supplied
  <1>15. ASSUME NoTrip PROVE Guarded'
    BY <1>15 DEF NoTrip, TripHandled
  <1>16. ASSUME TripNoticed PROVE Guarded'
    BY <1>16, Names DEF TripNoticed, TripHandled, Faulted, TripChecked
  <1>17. ASSUME TripUnplugged PROVE Guarded'
    BY <1>17, Names DEF TripUnplugged, EndPass, GfiReset, TripChecked
  <1>18. ASSUME TripStays PROVE Guarded'
    BY <1>18, Names DEF TripStays, TripHandled, Faulted, TripChecked
  <1>19. ASSUME TripRetried PROVE Guarded'
    BY <1>19, Names DEF TripRetried, TripHandled, GfiReset, Faulted, TripChecked
  <1>20. ASSUME TripGivenUp PROVE Guarded'
    BY <1>20, Names DEF TripGivenUp, HardFault, TripChecked
  <1>21. ASSUME FaultChosen PROVE Guarded'
    <2>1. state' \in FaultStates /\ state' \notin {"C", "UNKNOWN", "SLEEPING"}
      BY <1>21 DEF FaultChosen, StateChosen, FaultStates
    <2>2. pc' = IF state' # pass.prev THEN "act" ELSE "tail"
      BY <1>21 DEF FaultChosen, StateChosen
    <2>3. /\ pc = "pilot"
          /\ UNCHANGED <<pilot, relay, gfiFault, owed, checks, thermal>>
          /\ pass' = [NoPass EXCEPT !.ul = pass.prev = "C" /\ age["on"] <= ULWindow]
      BY <1>21 DEF FaultChosen, StateChosen
    <2>4. pass'.ul => pass.prev = "C"
      BY <2>3
    <2>5. QED
      BY <2>1, <2>2, <2>3, <2>4
  <1>22. ASSUME PilotChosen PROVE Guarded'
    <2>1. /\ pc = "pilot" /\ pass.nofault /\ state = pass.prev /\ pass' = NoPass
          /\ UNCHANGED <<relay, gfiFault, owed, checks, thermal>>
      BY <1>22 DEF PilotChosen, StateChosen
    <2> DEFINE leaving == pass.prev \in FaultStates
               prev == IF leaving THEN "UNKNOWN" ELSE pass.prev
               p == IF leaving THEN "P12" ELSE pilot
    <2>2. pilot' = p /\ pc' = IF state' # prev THEN "act" ELSE "tail"
      BY <1>22 DEF PilotChosen, StateChosen
    <2>3. PICK target \in Targets(p) : state' \in {prev, target, "PP_SHORTED", "PP_MISSING"}
      BY <1>22 DEF PilotChosen, StateChosen, Granted
    <2>4. target = "C" => p = "PWM"
      BY <2>3 DEF Targets, LevelState, AcCheck
    <2>5. CASE leaving
      BY <2>1, <2>2, <2>3, <2>4, <2>5 DEF FaultStates
    <2>6. CASE ~leaving
      BY <2>1, <2>2, <2>3, <2>4, <2>6
    <2>7. QED
      BY <2>5, <2>6
  <1>23. ASSUME BecomesA PROVE Guarded'
    BY <1>23 DEF BecomesA, Acted, Becomes
  <1>24. ASSUME BecomesB PROVE Guarded'
    BY <1>24 DEF BecomesB, Acted, Becomes
  <1>25. ASSUME BecomesC PROVE Guarded'
    BY <1>25 DEF BecomesC, Acted, Becomes
  <1>26. ASSUME BecomesFault PROVE Guarded'
    BY <1>26 DEF BecomesFault, Acted, Becomes
  <1>27. ASSUME BecomesHardFault PROVE Guarded'
    BY <1>27 DEF BecomesHardFault, Acted, HardFault, Becomes
  <1>28. ASSUME BecomesStuckRelay PROVE Guarded'
    BY <1>28 DEF BecomesStuckRelay, Acted, HardFault, Becomes
  <1>29. ASSUME BecomesOverTemperature PROVE Guarded'
    BY <1>29 DEF BecomesOverTemperature, Acted, Becomes
  <1>30. ASSUME OverTemperatureOpens PROVE Guarded'
    BY <1>30 DEF OverTemperatureOpens, Acted, HardFault
  <1>31. ASSUME SelfTestNotReady PROVE Guarded'
    BY <1>31, Names DEF SelfTestNotReady, SelfTestFails, HardFault
  <1>32. ASSUME SelfTestStarts PROVE Guarded'
    BY <1>32 DEF SelfTestStarts
  <1>33. ASSUME SelfTestPinStays PROVE Guarded'
    BY <1>33, Names DEF SelfTestPinStays, SelfTestFails, HardFault
  <1>34. ASSUME SelfTestNoTrip PROVE Guarded'
    BY <1>34, Names DEF SelfTestNoTrip, SelfTestFails, HardFault
  <1>35. ASSUME SelfTestPasses PROVE Guarded'
    BY <1>35 DEF SelfTestPasses
  <1>36. ASSUME CloseContacts PROVE Guarded'
    BY <1>36 DEF CloseContacts, PinsDriven
  <1>hold. ASSUME HoldContacts PROVE Guarded'
    BY <1>hold DEF HoldContacts, PinsDriven
  <1>37. ASSUME ContactsClosed PROVE Guarded'
    BY <1>37 DEF ContactsClosed, Acted
  <1>38. ASSUME EarlyHardFault PROVE Guarded'
    BY <1>38 DEF EarlyHardFault, HardFault
  <1>39. ASSUME CurrentChecked PROVE Guarded'
    BY <1>39 DEF CurrentChecked, Acted
  <1>40. ASSUME OverCurrent PROVE Guarded'
    BY <1>40, Names DEF OverCurrent
  <1>41. ASSUME OverCurrentOpens PROVE Guarded'
    BY <1>41 DEF OverCurrentOpens, Acted, HardFault
  <1>42. ASSUME Finish PROVE Guarded'
    <2>1. /\ pc = "finish" /\ pc' = "idle" /\ pass' = NoPass
          /\ UNCHANGED <<state, relay, gfiFault, owed, checks>>
      BY <1>42 DEF Finish, EndPass
    <2>2. CASE Unthrottled
      BY <1>42, <2>1, <2>2, NothingThrottled
    <2>3. CASE ~Unthrottled
      <3>1. Unwoken
        BY <2>3 DEF Sheltered
      <3>2. relay => state = "C"
        BY <2>1, <3>1
      <3>3. QED
        BY <2>1, <2>3, <3>2
    <2>4. QED
      BY <2>2, <2>3
  <1>43. ASSUME HardFaultEnds PROVE Guarded'
    <2>1. kont \in {"idle", "tail", "finish"}
      BY <1>43 DEF HardFaultEnds, TypeOK
    <2>2. QED
      BY <1>43, <2>1 DEF HardFaultEnds
  <1>44. ASSUME HardFaultPolls PROVE Guarded'
    BY <1>44 DEF HardFaultPolls
  <1>45. ASSUME GfiInterrupt PROVE Guarded'
    BY <1>45 DEF GfiInterrupt
  <1>46. ASSUME Enable PROVE Guarded'
    BY <1>46, Names DEF Enable, Receives, Polling
  <1>47. ASSUME Disable PROVE Guarded'
    BY <1>47, Names DEF Disable, Receives, Polling
  <1>48. ASSUME Sleep PROVE Guarded'
    BY <1>48, Names DEF Sleep, Receives, Polling
  <1>49. ASSUME ResetFaultCounters PROVE Guarded'
    BY <1>49 DEF ResetFaultCounters, Receives, Polling
  <1>50. ASSUME Reboot PROVE Guarded'
    BY <1>50 DEF Reboot, Receives, Polling
  <1>51. ASSUME ClearBootLock PROVE Guarded'
    BY <1>51, Names DEF ClearBootLock
  <1>52. ASSUME Reset PROVE Guarded'
    BY <1>52, Names DEF Reset, PowerUp
  <1>53. ASSUME EvChanges PROVE Guarded'
    BY <1>53 DEF EvChanges
  <1>54. ASSUME TempRead PROVE Guarded'
    BY <1>54 DEF TempRead, Polling
  <1>55. ASSUME Tick PROVE Guarded'
    BY <1>55 DEF Tick
  <1>56. ASSUME NEW c \in Toggles, Feature(c) PROVE Guarded'
    BY <1>56 DEF Feature, Sheltered
  <1>57. ASSUME UNCHANGED vars PROVE Guarded'
    BY <1>57 DEF vars
  <1>58. QED
    BY <1>1, <1>2, <1>3, <1>4, <1>5, <1>6, <1>7, <1>8, <1>9, <1>10, <1>11, <1>12,
       <1>13, <1>14, <1>15, <1>16, <1>17, <1>18, <1>19, <1>20, <1>21, <1>22, <1>23,
       <1>24, <1>25, <1>26, <1>27, <1>28, <1>29, <1>30, <1>31, <1>32, <1>33, <1>34,
       <1>35, <1>36, <1>37, <1>38, <1>39, <1>40, <1>41, <1>42, <1>43, <1>44, <1>45,
       <1>46, <1>47, <1>48, <1>49, <1>50, <1>51, <1>52, <1>53, <1>54, <1>55, <1>56,
       <1>57, <1>hold
      DEF Next, Program, Boot, SupplyCheck, GfiCheck,
      Transition, AfterTransition, Command

LEMMA GuardedInit == ASSUME Sheltered, Init PROVE Guarded
  BY
    DEF Init, Guarded, ConfigKept, PassState, ClosedWhere, OwedWhere, WokenWhere,
        Sheltered, NoPass

\* The inductive invariant: within a pass state, contacts and pilot hang together as the
\* code of the later steps takes for granted, on every board and for all delays.
THEOREM GuardedAlways == ASSUME Sheltered PROVE Spec => []Guarded
  <1>1. Init => Guarded
    BY GuardedInit
  <1>2. TypeOK /\ Guarded /\ [Next]_vars => Guarded'
    BY GuardedStep
  <1>3. QED
    BY <1>1, <1>2, TypeCorrect, PTL DEF Spec

\* After a trip opened the closed contacts they stay open until the fault was
\* answered, whatever the client sends and the delays are, provided the vent check is
\* left on, the charger never throttles or its client does not both sleep and wake it,
\* and the board does not hold its relay by PWM: HoldContacts drives the pins again.
THEOREM TripNeverReclosed ==
  ASSUME Sheltered, ~RelayPwm
  PROVE  Spec => []NoRecloseAfterTrip
  <1>1. Guarded => NoRecloseAfterTrip
    BY DEF Guarded, OwedWhere, NoRecloseAfterTrip
  <1>2. QED
    BY <1>1, GuardedAlways, PTL

\* On a sheltered station, hot or cold, no fault state, on any board,
\* leaves the contacts closed wherever the program polls for commands; nor does
\* HardFault(), which runs no check, whichever of its seven callers entered it.
THEOREM FaultsOpen == ASSUME Sheltered PROVE Spec => []FaultIsOpen
  <1>1. Guarded => FaultIsOpen
    BY DEF Guarded, ClosedWhere, FaultIsOpen, Polling, FaultStates
  <1>2. QED
    BY <1>1, GuardedAlways, PTL

LEMMA MaskStep ==
  ASSUME "gfitest" \in Checks0 \ Toggles, TypeOK, Guarded, MaskWhere, [Next]_vars
  PROVE  MaskWhere'
  <1> USE DEF MaskWhere, ctl, contacts, gfi, eeprom, flow, env, OpenContacts
  <1>1. ASSUME PostFails PROVE MaskWhere'
    BY <1>1 DEF PostFails, Guarded, ClosedWhere
  <1>2. ASSUME PostPasses PROVE MaskWhere'
    BY <1>2 DEF PostPasses
  <1>3. ASSUME PpErrorEnds PROVE MaskWhere'
    BY <1>3 DEF PpErrorEnds
  <1>4. ASSUME PassDisabled PROVE MaskWhere'
    BY <1>4 DEF PassDisabled
  <1>5. ASSUME PassSleeping PROVE MaskWhere'
    BY <1>5 DEF PassSleeping
  <1>6. ASSUME PassBegins PROVE MaskWhere'
    BY <1>6 DEF PassBegins
  <1>7. ASSUME CgmiGroundFault PROVE MaskWhere'
    BY <1>7 DEF CgmiGroundFault, SupplyDone, Faulted, Supplied
  <1>8. ASSUME RelayClosureFault PROVE MaskWhere'
    BY <1>8 DEF RelayClosureFault, SupplyDone, Faulted, Supplied
  <1>9. ASSUME GroundFaultUnderLoad PROVE MaskWhere'
    BY <1>9 DEF GroundFaultUnderLoad, SupplyDone, Faulted, Supplied
  <1>10. ASSUME GroundFaultUnplugged PROVE MaskWhere'
    BY <1>10 DEF GroundFaultUnplugged, EndPass, Supplied
  <1>11. ASSUME GroundFaultRetry PROVE MaskWhere'
    BY <1>11 DEF GroundFaultRetry, SupplyDone, Supplied
  <1>12. ASSUME GroundFaultStays PROVE MaskWhere'
    BY <1>12 DEF GroundFaultStays, SupplyDone, Faulted, Supplied
  <1>13. ASSUME StuckReading PROVE MaskWhere'
    BY <1>13 DEF StuckReading, SupplyDone, Faulted, Supplied
  <1>14. ASSUME SupplyGood PROVE MaskWhere'
    BY <1>14 DEF SupplyGood, SupplyDone, Supplied
  <1>15. ASSUME NoTrip PROVE MaskWhere'
    BY <1>15 DEF NoTrip, TripHandled
  <1>16. ASSUME TripNoticed PROVE MaskWhere'
    BY <1>16 DEF TripNoticed, TripHandled, Faulted, TripChecked
  <1>17. ASSUME TripUnplugged PROVE MaskWhere'
    BY <1>17 DEF TripUnplugged, EndPass, GfiReset, TripChecked
  <1>18. ASSUME TripStays PROVE MaskWhere'
    BY <1>18 DEF TripStays, TripHandled, Faulted, TripChecked
  <1>19. ASSUME TripRetried PROVE MaskWhere'
    BY <1>19 DEF TripRetried, TripHandled, GfiReset, Faulted, TripChecked
  <1>20. ASSUME TripGivenUp PROVE MaskWhere'
    BY <1>20 DEF TripGivenUp, HardFault, TripChecked
  <1>21. ASSUME FaultChosen PROVE MaskWhere'
    BY <1>21 DEF FaultChosen, StateChosen
  <1>22. ASSUME PilotChosen PROVE MaskWhere'
    BY <1>22 DEF PilotChosen, StateChosen
  <1>23. ASSUME BecomesA PROVE MaskWhere'
    BY <1>23 DEF BecomesA, Acted, Becomes
  <1>24. ASSUME BecomesB PROVE MaskWhere'
    BY <1>24 DEF BecomesB, Acted, Becomes
  <1>25. ASSUME BecomesC PROVE MaskWhere'
    BY <1>25 DEF BecomesC, Acted, Becomes, AcCheck
  <1>26. ASSUME BecomesFault PROVE MaskWhere'
    BY <1>26 DEF BecomesFault, Acted, Becomes
  <1>27. ASSUME BecomesHardFault PROVE MaskWhere'
    BY <1>27 DEF BecomesHardFault, Acted, HardFault, Becomes
  <1>28. ASSUME BecomesStuckRelay PROVE MaskWhere'
    BY <1>28 DEF BecomesStuckRelay, Acted, HardFault, Becomes
  <1>29. ASSUME BecomesOverTemperature PROVE MaskWhere'
    BY <1>29 DEF BecomesOverTemperature, Acted, Becomes
  <1>30. ASSUME OverTemperatureOpens PROVE MaskWhere'
    BY <1>30 DEF OverTemperatureOpens, Acted, HardFault
  <1>31. ASSUME SelfTestNotReady PROVE MaskWhere'
    BY <1>31 DEF SelfTestNotReady, SelfTestFails, HardFault
  <1>32. ASSUME SelfTestStarts PROVE MaskWhere'
    BY <1>32 DEF SelfTestStarts, Guarded, ClosedWhere
  <1>33. ASSUME SelfTestPinStays PROVE MaskWhere'
    BY <1>33 DEF SelfTestPinStays, SelfTestFails, HardFault
  <1>34. ASSUME SelfTestNoTrip PROVE MaskWhere'
    BY <1>34 DEF SelfTestNoTrip, SelfTestFails, HardFault
  <1>35. ASSUME SelfTestPasses PROVE MaskWhere'
    BY <1>35 DEF SelfTestPasses
  <1>36. ASSUME CloseContacts PROVE MaskWhere'
    BY <1>36 DEF CloseContacts, PinsDriven
  <1>hold. ASSUME HoldContacts PROVE MaskWhere'
    BY <1>hold DEF HoldContacts, PinsDriven
  <1>37. ASSUME ContactsClosed PROVE MaskWhere'
    BY <1>37 DEF ContactsClosed, Acted
  <1>38. ASSUME EarlyHardFault PROVE MaskWhere'
    BY <1>38 DEF EarlyHardFault, HardFault
  <1>39. ASSUME CurrentChecked PROVE MaskWhere'
    BY <1>39 DEF CurrentChecked, Acted
  <1>40. ASSUME OverCurrent PROVE MaskWhere'
    BY <1>40 DEF OverCurrent
  <1>41. ASSUME OverCurrentOpens PROVE MaskWhere'
    BY <1>41 DEF OverCurrentOpens, Acted, HardFault
  <1>42. ASSUME Finish PROVE MaskWhere'
    BY <1>42 DEF Finish, EndPass
  <1>43. ASSUME HardFaultEnds PROVE MaskWhere'
    BY <1>43 DEF HardFaultEnds, TypeOK
  <1>44. ASSUME HardFaultPolls PROVE MaskWhere'
    BY <1>44 DEF HardFaultPolls
  <1>45. ASSUME GfiInterrupt PROVE MaskWhere'
    BY <1>45 DEF GfiInterrupt
  <1>46. ASSUME Enable PROVE MaskWhere'
    BY <1>46 DEF Enable, Receives, Polling
  <1>47. ASSUME Disable PROVE MaskWhere'
    BY <1>47 DEF Disable, Receives, Polling
  <1>48. ASSUME Sleep PROVE MaskWhere'
    BY <1>48 DEF Sleep, Receives, Polling
  <1>49. ASSUME ResetFaultCounters PROVE MaskWhere'
    BY <1>49 DEF ResetFaultCounters, Receives, Polling
  <1>50. ASSUME Reboot PROVE MaskWhere'
    BY <1>50 DEF Reboot, Receives, Polling
  <1>51. ASSUME ClearBootLock PROVE MaskWhere'
    BY <1>51 DEF ClearBootLock
  <1>52. ASSUME Reset PROVE MaskWhere'
    BY <1>52 DEF Reset, PowerUp
  <1>53. ASSUME EvChanges PROVE MaskWhere'
    BY <1>53 DEF EvChanges
  <1>54. ASSUME TempRead PROVE MaskWhere'
    BY <1>54 DEF TempRead, Polling
  <1>55. ASSUME Tick PROVE MaskWhere'
    BY <1>55 DEF Tick
  <1>56. ASSUME NEW c \in Toggles, Feature(c) PROVE MaskWhere'
    BY <1>56 DEF Feature
  <1>57. ASSUME UNCHANGED vars PROVE MaskWhere'
    BY <1>57 DEF vars
  <1>58. QED
    BY <1>1, <1>2, <1>3, <1>4, <1>5, <1>6, <1>7, <1>8, <1>9, <1>10, <1>11, <1>12,
       <1>13, <1>14, <1>15, <1>16, <1>17, <1>18, <1>19, <1>20, <1>21, <1>22, <1>23,
       <1>24, <1>25, <1>26, <1>27, <1>28, <1>29, <1>30, <1>31, <1>32, <1>33, <1>34,
       <1>35, <1>36, <1>37, <1>38, <1>39, <1>40, <1>41, <1>42, <1>43, <1>44, <1>45,
       <1>46, <1>47, <1>48, <1>49, <1>50, <1>51, <1>52, <1>53, <1>54, <1>55, <1>56,
       <1>57, <1>hold
      DEF Next, Program, Boot, SupplyCheck, GfiCheck,
      Transition, AfterTransition, Command

\* The interrupt is never masked while the contacts are closed, provided the self
\* test is left on as well.
THEOREM NeverMasked ==
  ASSUME Sheltered, "gfitest" \in Checks0 \ Toggles
  PROVE  Spec => []TripNotMasked
  <1>1. Init => MaskWhere
    BY DEF Init, MaskWhere
  <1>2. TypeOK /\ Guarded /\ MaskWhere /\ [Next]_vars => MaskWhere'
    BY MaskStep
  <1>3. MaskWhere => TripNotMasked
    BY DEF MaskWhere, TripNotMasked
  <1>4. QED
    BY <1>1, <1>2, <1>3, TypeCorrect, GuardedAlways, PTL DEF Spec
=============================================================================
