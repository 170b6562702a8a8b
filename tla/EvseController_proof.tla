------------------------ MODULE EvseController_proof ------------------------
(***************************************************************************)
(* Theorems about the charge controller, for every value of its constants.  *)
(***************************************************************************)
EXTENDS EvseController, TLAPS

\* The caps at which the time stamps saturate are natural numbers.
LEMMA CapNat ==
  /\ \A t \in Timers : Cap[t] \in Nat
  /\ Cap["gfi"] = GfiTimeout
  BY DelayAssumption DEF Timers, Cap

\* Writing a stamp keeps the type of the stamps.
LEMMA StampType ==
  /\ \A a \in Ages, u \in Timers, v \in {0, NotSet, Ahead} : [a EXCEPT ![u] = v] \in Ages
  /\ {"on", "off", "stuck", "gfi", "gnd", "oc", "tmp"} = Timers
  BY CapNat DEF Ages, Ahead, NotSet, Timers

LEMMA OpenedType == ASSUME age \in Ages PROVE Opened \in Ages
  BY CapNat DEF Opened, Ages, Ahead, Timers

LEMMA SettledType == ASSUME NEW a \in Ages PROVE Settled(a) \in Ages
  BY CapNat DEF Settled, Ages, Ahead, Timers

LEMMA CountedType ==
  ASSUME trips \in TripCounts, NEW t \in {"gfi", "gnd", "stuck"}
  PROVE  Counted(t) \in TripCounts
  BY DelayAssumption DEF Counted, TripCounts

\* The two ways a pass record is written.
LEMMA PassType ==
  /\ NoPass \in Passes
  /\ \A b \in BOOLEAN : [NoPass EXCEPT !.ul = b] \in Passes
  /\ \A p \in Passes : [p EXCEPT !.nofault = FALSE] \in Passes
  /\ \A s \in States, l \in EvLevels \union {"short"}, b \in BOOLEAN :
       [NoPass EXCEPT !.prev = s, !.level = l, !.live = b] \in Passes
  BY FeatureAssumption DEF NoPass, Passes, States

LEMMA Names ==
  /\ FaultStates \subseteq States
  /\ {"UNKNOWN", "A", "B", "C", "SLEEPING", "DISABLED"} \subseteq States
  /\ {"D", "DIODE_CHK_FAILED", "GFCI_FAULT", "NO_GROUND", "STUCK_RELAY",
      "GFI_TEST_FAILED", "OVER_TEMPERATURE", "OVER_CURRENT", "RELAY_CLOSURE_FAULT",
      "PP_SHORTED", "PP_MISSING"} = FaultStates
  /\ {"boot", "idle", "supply", "gfi", "pilot", "act", "selftest", "testrun", "close",
      "closed", "holding", "tail", "finish", "hf", "cool", "ocwait", "bootlock",
      "postfault", "pperror", "reboot"} \subseteq Steps
  BY DEF States, FaultStates, Steps, Polling, Blocking

LEMMA TypeStep == ASSUME TypeOK, [Next]_vars PROVE TypeOK'
  <1> USE DEF TypeOK, ctl, contacts, gfi, eeprom, flow, env, OpenContacts
  <1>1. ASSUME PostFails PROVE TypeOK'
    BY <1>1, Names DEF PostFails
  <1>2. ASSUME PostPasses PROVE TypeOK'
    <2>1. state' \in States /\ pc' \in Steps
      BY <1>2, Names DEF PostPasses
    <2>2. gfiFault' \in BOOLEAN
      BY <1>2 DEF PostPasses
    <2>3. QED
      BY <1>2, <2>1, <2>2 DEF PostPasses
  <1>3. ASSUME PpErrorEnds PROVE TypeOK'
    BY <1>3, Names DEF PpErrorEnds
  <1>4. ASSUME PassDisabled PROVE TypeOK'
    BY <1>4 DEF PassDisabled
  <1>5. ASSUME PassSleeping PROVE TypeOK'
    BY <1>5, OpenedType DEF PassSleeping, PilotLevel, ReadPilot
  <1>6. ASSUME PassBegins PROVE TypeOK'
    <2>1. pass' \in Passes
      BY <1>6, PassType DEF PassBegins, PilotLevel
    <2>2. QED
      BY <1>6, <2>1, Names DEF PassBegins, ReadPilot
  <1>7. ASSUME CgmiGroundFault PROVE TypeOK'
    <2>1. age' \in Ages
      BY <1>7, OpenedType, StampType DEF CgmiGroundFault, SupplyDone
    <2>2. pass' \in Passes /\ state' \in States
      BY <1>7, PassType, Names DEF CgmiGroundFault, Faulted
    <2>3. QED
      BY <1>7, <2>1, <2>2, CountedType, Names DEF CgmiGroundFault, SupplyDone
  <1>8. ASSUME RelayClosureFault PROVE TypeOK'
    <2>1. age' \in Ages
      BY <1>8, OpenedType DEF RelayClosureFault, OpenContacts
    <2>2. pass' \in Passes /\ state' \in States
      BY <1>8, PassType, Names DEF RelayClosureFault, Faulted
    <2>3. QED
      BY <1>8, <2>1, <2>2, Names DEF RelayClosureFault, SupplyDone
  <1>9. ASSUME GroundFaultUnderLoad PROVE TypeOK'
    <2>1. age' \in Ages
      BY <1>9, OpenedType, StampType DEF GroundFaultUnderLoad, SupplyDone
    <2>2. pass' \in Passes /\ state' \in States
      BY <1>9, PassType, Names DEF GroundFaultUnderLoad, Faulted
    <2>3. QED
      BY <1>9, <2>1, <2>2, CountedType, Names DEF GroundFaultUnderLoad, SupplyDone
  <1>10. ASSUME GroundFaultUnplugged PROVE TypeOK'
    BY <1>10, SettledType, Names, PassType DEF GroundFaultUnplugged, EndPass
  <1>11. ASSUME GroundFaultRetry PROVE TypeOK'
    <2>1. age' \in Ages
      BY <1>11, SettledType DEF GroundFaultRetry, SupplyDone
    <2>2. pass' \in Passes /\ state' \in States
      BY <1>11, PassType, Names DEF GroundFaultRetry
    <2>3. retry' \in Retries
      BY <1>11, DelayAssumption DEF GroundFaultRetry, Retries
    <2>4. QED
      BY <1>11, <2>1, <2>2, <2>3, Names DEF GroundFaultRetry, SupplyDone
  <1>12. ASSUME GroundFaultStays PROVE TypeOK'
    <2>1. age' \in Ages
      BY <1>12, SettledType DEF GroundFaultStays, SupplyDone
    <2>2. pass' \in Passes /\ state' \in States
      BY <1>12, PassType, Names DEF GroundFaultStays, Faulted
    <2>3. QED
      BY <1>12, <2>1, <2>2, Names DEF GroundFaultStays, SupplyDone
  <1>13. ASSUME StuckReading PROVE TypeOK'
    <2>1. age' \in Ages
      BY <1>13, SettledType, StampType DEF StuckReading, SupplyDone
    <2>2. pass' \in Passes /\ state' \in States
      BY <1>13, PassType, Names DEF StuckReading, Faulted
    <2>3. QED
      BY <1>13, <2>1, <2>2, CountedType, Names DEF StuckReading, SupplyDone
  <1>14. ASSUME SupplyGood PROVE TypeOK'
    <2>1. age' \in Ages
      BY <1>14, SettledType, StampType DEF SupplyGood, SupplyDone
    <2>2. pass' \in Passes /\ state' \in States
      BY <1>14, PassType, Names DEF SupplyGood
    <2>3. QED
      BY <1>14, <2>1, <2>2, Names DEF SupplyGood, SupplyDone
  <1>15. ASSUME NoTrip PROVE TypeOK'
    BY <1>15, Names DEF NoTrip, TripHandled
  <1>16. ASSUME TripNoticed PROVE TypeOK'
    <2>1. age' \in Ages
      BY <1>16, StampType DEF TripNoticed
    <2>2. pass' \in Passes
      BY <1>16, PassType DEF TripNoticed, Faulted
    <2>3. QED
      BY <1>16, <2>1, <2>2, CountedType, Names DEF TripNoticed, TripHandled
  <1>17. ASSUME TripUnplugged PROVE TypeOK'
    BY <1>17, Names, PassType DEF TripUnplugged, EndPass, GfiReset
  <1>18. ASSUME TripStays PROVE TypeOK'
    <2>1. age' \in Ages
      BY <1>18 DEF TripStays
    <2>2. pass' \in Passes
      BY <1>18, PassType DEF TripStays, Faulted
    <2>3. QED
      BY <1>18, <2>1, <2>2, Names DEF TripStays, TripHandled
  <1>19. ASSUME TripRetried PROVE TypeOK'
    <2>1. age' \in Ages
      BY <1>19, CapNat DEF TripRetried, Timers, Ages, Ahead
    <2>2. pass' \in Passes
      BY <1>19, PassType DEF TripRetried, Faulted
    <2>3. retry' \in Retries
      BY <1>19, DelayAssumption DEF TripRetried, Retries
    <2>4. QED
      BY <1>19, <2>1, <2>2, <2>3, Names DEF TripRetried, TripHandled, GfiReset
  <1>20. ASSUME TripGivenUp PROVE TypeOK'
    <2>1. retry' \in Retries
      BY <1>20, DelayAssumption DEF TripGivenUp, Retries
    <2>2. QED
      BY <1>20, <2>1, PassType, Names DEF TripGivenUp, HardFault
  <1>21. ASSUME FaultChosen PROVE TypeOK'
    <2>1. pass' \in Passes
      BY <1>21, PassType DEF FaultChosen
    <2>2. tmp' \in States /\ state' \in States /\ pc' \in Steps
      BY <1>21, Names DEF FaultChosen, StateChosen
    <2>3. QED
      BY <1>21, <2>1, <2>2 DEF FaultChosen, StateChosen
  <1>22. ASSUME PilotChosen PROVE TypeOK'
    <2>1. age' \in Ages
      BY <1>22, StampType DEF PilotChosen
    <2>2. \A p \in {"P12", "PWM", "N12"} : Targets(p) \subseteq States
      BY Names DEF Targets, LevelState
    <2>3. \A s \in States, q \in States : Granted(s, q) \subseteq States
      BY Names DEF Granted
    <2>4. pass.prev \in States
      BY DEF Passes
    <2>5. pilot' \in {"P12", "PWM", "N12"}
      BY <1>22 DEF PilotChosen
    <2>6. tmp' \in States /\ state' \in States /\ pc' \in Steps
      BY <1>22, <2>2, <2>3, <2>4, Names DEF PilotChosen, StateChosen
    <2>7. QED
      BY <1>22, <2>1, <2>5, <2>6, PassType DEF PilotChosen, StateChosen
  <1>23. ASSUME BecomesA PROVE TypeOK'
    BY <1>23, OpenedType, Names DEF BecomesA, Acted, Becomes
  <1>24. ASSUME BecomesB PROVE TypeOK'
    BY <1>24, OpenedType, Names DEF BecomesB, Acted, Becomes
  <1>25. ASSUME BecomesC PROVE TypeOK'
    BY <1>25, Names DEF BecomesC, Acted, Becomes
  <1>26. ASSUME BecomesFault PROVE TypeOK'
    BY <1>26, OpenedType, Names DEF BecomesFault, Acted, Becomes
  <1>27. ASSUME BecomesHardFault PROVE TypeOK'
    BY <1>27, OpenedType, Names DEF BecomesHardFault, Acted, HardFault, Becomes
  <1>28. ASSUME BecomesStuckRelay PROVE TypeOK'
    BY <1>28, OpenedType, Names DEF BecomesStuckRelay, Acted, HardFault, Becomes
  <1>29. ASSUME BecomesOverTemperature PROVE TypeOK'
    BY <1>29, Names DEF BecomesOverTemperature, Acted, Becomes
  <1>30. ASSUME OverTemperatureOpens PROVE TypeOK'
    BY <1>30, OpenedType, Names DEF OverTemperatureOpens, Acted, HardFault
  <1>31. ASSUME SelfTestNotReady PROVE TypeOK'
    BY <1>31, Names, PassType DEF SelfTestNotReady, SelfTestFails, HardFault
  <1>32. ASSUME SelfTestStarts PROVE TypeOK'
    BY <1>32, Names DEF SelfTestStarts
  <1>33. ASSUME SelfTestPinStays PROVE TypeOK'
    BY <1>33, Names, PassType DEF SelfTestPinStays, SelfTestFails, HardFault
  <1>34. ASSUME SelfTestNoTrip PROVE TypeOK'
    BY <1>34, Names, PassType DEF SelfTestNoTrip, SelfTestFails, HardFault
  <1>35. ASSUME SelfTestPasses PROVE TypeOK'
    BY <1>35, Names DEF SelfTestPasses
  <1>36. ASSUME CloseContacts PROVE TypeOK'
    BY <1>36, Names DEF CloseContacts, PinsDriven
  <1>hold. ASSUME HoldContacts PROVE TypeOK'
    BY <1>hold, Names DEF HoldContacts, PinsDriven
  <1>37. ASSUME ContactsClosed PROVE TypeOK'
    <2>1. age' \in Ages
      BY <1>37, StampType DEF ContactsClosed
    <2>2. QED
      BY <1>37, <2>1, Names DEF ContactsClosed, Acted
  <1>38. ASSUME EarlyHardFault PROVE TypeOK'
    BY <1>38, Names, PassType DEF EarlyHardFault, HardFault
  <1>39. ASSUME CurrentChecked PROVE TypeOK'
    <2>1. age' \in Ages
      BY <1>39, StampType DEF CurrentChecked
    <2>2. QED
      BY <1>39, <2>1, Names DEF CurrentChecked, Acted
  <1>40. ASSUME OverCurrent PROVE TypeOK'
    BY <1>40, Names DEF OverCurrent
  <1>41. ASSUME OverCurrentOpens PROVE TypeOK'
    BY <1>41, OpenedType, Names DEF OverCurrentOpens, Acted, HardFault
  <1>42. ASSUME Finish PROVE TypeOK'
    <2>1. PICK due \in BOOLEAN :
            LET warm == IF AcCheck("temp") THEN Restored(thermal) ELSE thermal
                hot == IF AcCheck("temp") /\ state = "C" /\ due
                       THEN Throttled(warm) ELSE warm
            IN  /\ thermal' = hot
                /\ pilot' = IF warm # thermal \/ hot # warm THEN "PWM" ELSE pilot
      BY <1>42 DEF Finish
    <2>2. thermal' \subseteq {"throttle", "shutdown"}
      BY <2>1 DEF Restored, Throttled
    <2>3. pilot' \in {"P12", "PWM", "N12"}
      BY <2>1
    <2>4. QED
      BY <1>42, <2>2, <2>3, PassType, Names DEF Finish, EndPass
  <1>43. ASSUME HardFaultEnds PROVE TypeOK'
    <2>1. age' \in Ages
      BY <1>43, StampType DEF HardFaultEnds
    <2>2. kont \in Steps
      BY <1>43, Names DEF HardFaultEnds
    <2>3. QED
      BY <1>43, <2>1, <2>2, Names DEF HardFaultEnds
  <1>44. ASSUME HardFaultPolls PROVE TypeOK'
    BY <1>44 DEF HardFaultPolls
  <1>45. ASSUME GfiInterrupt PROVE TypeOK'
    <2>1. age' \in Ages
      BY <1>45, StampType DEF GfiInterrupt
    <2>2. chargingOn' \in BOOLEAN /\ owed' \in BOOLEAN
      BY <1>45 DEF GfiInterrupt
    <2>3. QED
      BY <1>45, <2>1, <2>2 DEF GfiInterrupt
  <1>46. ASSUME Enable PROVE TypeOK'
    BY <1>46, Names DEF Enable, Receives
  <1>47. ASSUME Disable PROVE TypeOK'
    BY <1>47, OpenedType, Names DEF Disable, Receives
  <1>48. ASSUME Sleep PROVE TypeOK'
    BY <1>48, OpenedType, Names DEF Sleep, Receives
  <1>49. ASSUME ResetFaultCounters PROVE TypeOK'
    BY <1>49, DelayAssumption DEF ResetFaultCounters, Receives, TripCounts
  <1>50. ASSUME Reboot PROVE TypeOK'
    BY <1>50, Names DEF Reboot, Receives
  <1>51. ASSUME ClearBootLock PROVE TypeOK'
    BY <1>51, Names DEF ClearBootLock
  <1>52. ASSUME Reset PROVE TypeOK'
    <2>1. age' \in Ages
      BY <1>52, CapNat DEF Reset, PowerUp, Ages, Timers, Ahead, NotSet
    <2>2. retry' \in Retries
      BY <1>52, DelayAssumption DEF Reset, PowerUp, Retries
    <2>3. QED
      BY <1>52, <2>1, <2>2, PassType, Names DEF Reset, PowerUp
  <1>53. ASSUME EvChanges PROVE TypeOK'
    BY <1>53 DEF EvChanges
  <1>54. ASSUME TempRead PROVE TypeOK'
    BY <1>54 DEF TempRead
  <1>55. ASSUME Tick PROVE TypeOK'
    <2>1. age' \in Ages
      BY <1>55, CapNat DEF Tick, Ages, Ahead
    <2>2. QED
      BY <1>55, <2>1 DEF Tick
  <1>56. ASSUME NEW c \in Toggles, Feature(c) PROVE TypeOK'
    <2>1. age' \in Ages
      BY <1>56, StampType DEF Feature
    <2>2. retry' \in Retries
      BY <1>56, DelayAssumption DEF Feature, Retries
    <2>3. checks' \subseteq CheckNames
      BY <1>56, FeatureAssumption DEF Feature
    <2>4. QED
      BY <1>56, <2>1, <2>2, <2>3 DEF Feature
  <1>57. ASSUME UNCHANGED vars PROVE TypeOK'
    BY <1>57 DEF vars
  <1>58. QED
    BY <1>1, <1>2, <1>3, <1>4, <1>5, <1>6, <1>7, <1>8, <1>9, <1>10, <1>11, <1>12,
       <1>13, <1>14, <1>15, <1>16, <1>17, <1>18, <1>19, <1>20, <1>21, <1>22, <1>23,
       <1>24, <1>25, <1>26, <1>27, <1>28, <1>29, <1>30, <1>31, <1>32, <1>33, <1>34,
       <1>35, <1>36, <1>37, <1>38, <1>39, <1>40, <1>41, <1>42, <1>43, <1>44, <1>45,
       <1>46, <1>47, <1>48, <1>49, <1>50, <1>51, <1>52, <1>53, <1>54, <1>55, <1>56,
       <1>57, <1>hold
      DEF Next, Program, Boot, SupplyCheck, GfiCheck,
      Transition, AfterTransition, Command

LEMMA TypeInit == Init => TypeOK
  <1> SUFFICES ASSUME Init PROVE TypeOK
    OBVIOUS
  <1>1. age \in Ages
    BY CapNat DEF Init, Ages, Timers, Ahead, NotSet
  <1>2. retry \in Retries /\ trips \in TripCounts
    BY DelayAssumption DEF Init, Retries, TripCounts
  <1>3. checks \subseteq CheckNames /\ temp \in Temps
    BY FeatureAssumption DEF Init
  <1>4. QED
    BY <1>1, <1>2, <1>3, PassType, Names DEF Init, TypeOK

\* Type correctness: every field keeps its type, the trip counters stay within
\* their cap, the retry counters stop one past the last retry and the saturating
\* time stamps stay within their caps, whatever the delays are.
THEOREM TypeCorrect == Spec => []TypeOK
  <1>1. Init => TypeOK
    BY TypeInit
  <1>2. TypeOK /\ [Next]_vars => TypeOK'
    BY TypeStep
  <1>3. QED
    BY <1>1, <1>2, PTL DEF Spec
=============================================================================
