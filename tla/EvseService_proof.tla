-------------------------- MODULE EvseService_proof --------------------------
(***************************************************************************)
(* Prompt opening, the grace period, what the pilot offers, a relay that    *)
(* works and the debounce of one that does not, the disabled state.         *)
(***************************************************************************)
EXTENDS EvseSafety_proof

\* At the end of a pass contacts closed over a latched trip have just been closed,
\* and a pass that found them so before has noticed the trip.
PromptWhere ==
    /\ pc \in {"tail", "finish"} /\ gfiFault /\ relay => age["on"] = 0
    /\ pc = "pilot" /\ gfiFault /\ relay => ~pass.nofault

\* The flag that lets PassSleeping open the contacts is set whenever they are closed,
\* and the grace period ends in the pass of its last tick.
SleepWhere ==
    /\ relay /\ pc \notin {"holding", "closed"} => chargingOn
    /\ pc \in {"tail", "finish"} /\ relay => state # "SLEEPING"
    /\ pc = "idle" /\ state = "SLEEPING" /\ relay =>
         age["off"] <= IF ran THEN SleepGrace ELSE SleepGrace + 1

Kept == PromptWhere /\ SleepWhere

LEMMA KeptStep ==
  ASSUME Sheltered, TypeOK, Guarded, Kept, [Next]_vars
  PROVE  Kept'
  <1> USE DEF Kept, PromptWhere, SleepWhere,
        ctl, contacts, gfi, eeprom, flow, env, OpenContacts, NoPass
  <1>1. ASSUME PostFails PROVE Kept'
    BY <1>1 DEF PostFails
  <1>2. ASSUME PostPasses PROVE Kept'
    BY <1>2 DEF PostPasses, Guarded, ClosedWhere
  <1>3. ASSUME PpErrorEnds PROVE Kept'
    BY <1>3 DEF PpErrorEnds, FaultStates
  <1>4. ASSUME PassDisabled PROVE Kept'
    BY <1>4 DEF PassDisabled
  <1>5. ASSUME PassSleeping PROVE Kept'
    <2>1. CASE relay' = FALSE
      BY <1>5, <2>1 DEF PassSleeping, Guarded, ClosedWhere
    <2>2. CASE UNCHANGED <<contacts, age>> /\ ~(chargingOn /\ age["off"] >= SleepGrace)
      <3>1. age["off"] \in Int /\ SleepGrace \in Nat
        BY DelayAssumption DEF TypeOK, Ages, Timers, Ahead
      <3>2. pc = "idle" /\ pc' = pc /\ ran' /\ UNCHANGED <<state, pilot, gfiFault, pass>>
        BY <1>5 DEF PassSleeping
      <3>3. relay' => age'["off"] <= SleepGrace
        BY <2>2, <3>1, <3>2
      <3>4. QED
        BY <2>2, <3>2, <3>3
    <2>3. QED
      BY <1>5, <2>1, <2>2 DEF PassSleeping
  <1>6. ASSUME PassBegins PROVE Kept'
    BY <1>6 DEF PassBegins, Polling
  <1>7. ASSUME CgmiGroundFault PROVE Kept'
    BY <1>7 DEF CgmiGroundFault, SupplyDone, Faulted, Supplied, Polling
  <1>8. ASSUME RelayClosureFault PROVE Kept'
    BY <1>8 DEF RelayClosureFault, SupplyDone, Faulted, Supplied, Polling
  <1>9. ASSUME GroundFaultUnderLoad PROVE Kept'
    BY <1>9 DEF GroundFaultUnderLoad, SupplyDone, Faulted, Supplied, Polling
  <1>10. ASSUME GroundFaultUnplugged PROVE Kept'
    BY <1>10 DEF GroundFaultUnplugged, EndPass, Supplied, FaultStates
  <1>11. ASSUME GroundFaultRetry PROVE Kept'
    BY <1>11 DEF GroundFaultRetry, SupplyDone, Supplied, Polling
  <1>12. ASSUME GroundFaultStays PROVE Kept'
    BY <1>12 DEF GroundFaultStays, SupplyDone, Faulted, Supplied, Polling
  <1>13. ASSUME StuckReading PROVE Kept'
    <2>1. /\ pc = "supply" /\ pc' = "gfi" /\ ~chargingOn /\ UNCHANGED contacts
          /\ UNCHANGED <<pilot, gfiFault>>
      BY <1>13 DEF StuckReading, SupplyDone, Supplied
    <2>2. pass'.prev = pass.prev
      BY <1>13 DEF StuckReading, Faulted, TypeOK, Passes
    <2>3. ~relay
      BY <2>1
    <2>4. QED
      BY <2>1, <2>2, <2>3 DEF Polling
  <1>14. ASSUME SupplyGood PROVE Kept'
    BY <1>14 DEF SupplyGood, SupplyDone, Supplied, Polling
  <1>15. ASSUME NoTrip PROVE Kept'
    BY <1>15 DEF NoTrip, TripHandled, Polling
  <1>16. ASSUME TripNoticed PROVE Kept'
    BY <1>16 DEF TripNoticed, TripHandled, Faulted, TripChecked, Polling
  <1>17. ASSUME TripUnplugged PROVE Kept'
    BY <1>17 DEF TripUnplugged, EndPass, GfiReset, TripChecked, FaultStates
  <1>18. ASSUME TripStays PROVE Kept'
    BY <1>18 DEF TripStays, TripHandled, Faulted, TripChecked
  <1>19. ASSUME TripRetried PROVE Kept'
    BY <1>19 DEF TripRetried, TripHandled, GfiReset, Faulted, TripChecked
  <1>20. ASSUME TripGivenUp PROVE Kept'
    BY <1>20 DEF TripGivenUp, HardFault, TripChecked
  <1>21. ASSUME FaultChosen PROVE Kept'
    BY <1>21
      DEF FaultChosen, StateChosen, Guarded, ClosedWhere, PassState, FaultStates, Polling
  <1>22. ASSUME PilotChosen PROVE Kept'
    BY <1>22 DEF PilotChosen, StateChosen, Guarded, ClosedWhere, Polling
  <1>23. ASSUME BecomesA PROVE Kept'
    BY <1>23 DEF BecomesA, Acted, Becomes
  <1>24. ASSUME BecomesB PROVE Kept'
    BY <1>24 DEF BecomesB, Acted, Becomes, FaultStates
  <1>25. ASSUME BecomesC PROVE Kept'
    BY <1>25 DEF BecomesC, Acted, Becomes, AcCheck, Polling
  <1>26. ASSUME BecomesFault PROVE Kept'
    BY <1>26 DEF BecomesFault, Acted, Becomes
  <1>27. ASSUME BecomesHardFault PROVE Kept'
    BY <1>27 DEF BecomesHardFault, Acted, HardFault, Becomes
  <1>28. ASSUME BecomesStuckRelay PROVE Kept'
    BY <1>28 DEF BecomesStuckRelay, Acted, HardFault, Becomes
  <1>29. ASSUME BecomesOverTemperature PROVE Kept'
    BY <1>29 DEF BecomesOverTemperature, Acted, Becomes
  <1>30. ASSUME OverTemperatureOpens PROVE Kept'
    BY <1>30 DEF OverTemperatureOpens, Acted, HardFault
  <1>31. ASSUME SelfTestNotReady PROVE Kept'
    BY <1>31 DEF SelfTestNotReady, SelfTestFails, HardFault
  <1>32. ASSUME SelfTestStarts PROVE Kept'
    BY <1>32 DEF SelfTestStarts, Polling
  <1>33. ASSUME SelfTestPinStays PROVE Kept'
    BY <1>33 DEF SelfTestPinStays, SelfTestFails, HardFault
  <1>34. ASSUME SelfTestNoTrip PROVE Kept'
    BY <1>34 DEF SelfTestNoTrip, SelfTestFails, HardFault
  <1>35. ASSUME SelfTestPasses PROVE Kept'
    BY <1>35 DEF SelfTestPasses, Polling
  <1>36. ASSUME CloseContacts PROVE Kept'
    BY <1>36 DEF CloseContacts, PinsDriven, Polling
  <1>hold. ASSUME HoldContacts PROVE Kept'
    BY <1>hold DEF HoldContacts, PinsDriven, Polling
  <1>37. ASSUME ContactsClosed PROVE Kept'
    <2>1. pc' = "tail" /\ UNCHANGED <<state, pilot, relay>> /\ chargingOn'
      BY <1>37 DEF ContactsClosed, Acted
    <2>2. age'["on"] = 0
      BY <1>37 DEF ContactsClosed, TypeOK, Ages, Timers
    <2>3. state = "C"
      BY <1>37 DEF ContactsClosed, Guarded, PassState
    <2>4. QED
      BY <2>1, <2>2, <2>3 DEF FaultStates
  <1>38. ASSUME EarlyHardFault PROVE Kept'
    BY <1>38 DEF EarlyHardFault, HardFault
  <1>39. ASSUME CurrentChecked PROVE Kept'
    BY <1>39 DEF CurrentChecked, Acted
  <1>40. ASSUME OverCurrent PROVE Kept'
    BY <1>40 DEF OverCurrent
  <1>41. ASSUME OverCurrentOpens PROVE Kept'
    BY <1>41 DEF OverCurrentOpens, Acted, HardFault
  <1>42. ASSUME Finish PROVE Kept'
    BY <1>42 DEF Finish, EndPass, Guarded, ClosedWhere
  <1>43. ASSUME HardFaultEnds PROVE Kept'
    BY <1>43 DEF HardFaultEnds, Guarded, ClosedWhere, PassState, FaultStates, Polling,
                 TypeOK
  <1>44. ASSUME HardFaultPolls PROVE Kept'
    BY <1>44 DEF HardFaultPolls
  <1>45. ASSUME GfiInterrupt PROVE Kept'
    BY <1>45 DEF GfiInterrupt
  <1>46. ASSUME Enable PROVE Kept'
    BY <1>46 DEF Enable, Receives, Polling
  <1>47. ASSUME Disable PROVE Kept'
    BY <1>47 DEF Disable, Receives, Polling
  <1>48. ASSUME Sleep PROVE Kept'
    <2>1. /\ pc \in Polling /\ state' = "SLEEPING" /\ pilot' = "P12"
          /\ UNCHANGED <<pc, relay, chargingOn, pass>>
      BY <1>48 DEF Sleep, Receives
    <2>2. age'["off"] = 0 /\ SleepGrace \in Nat
      BY <1>48, DelayAssumption DEF Sleep, Opened, TypeOK, Ages, Timers
    <2>3. QED
      BY <2>1, <2>2 DEF Polling, FaultStates
  <1>49. ASSUME ResetFaultCounters PROVE Kept'
    BY <1>49 DEF ResetFaultCounters, Receives, Polling
  <1>50. ASSUME Reboot PROVE Kept'
    BY <1>50 DEF Reboot, Receives, Polling
  <1>51. ASSUME ClearBootLock PROVE Kept'
    BY <1>51 DEF ClearBootLock, Guarded, ClosedWhere
  <1>52. ASSUME Reset PROVE Kept'
    BY <1>52 DEF Reset, PowerUp
  <1>53. ASSUME EvChanges PROVE Kept'
    BY <1>53 DEF EvChanges
  <1>54. ASSUME TempRead PROVE Kept'
    BY <1>54 DEF TempRead, Polling
  <1>55. ASSUME Tick PROVE Kept'
    <2>1. /\ pc \notin {"tail", "finish", "pilot"} /\ (pc = "idle" => ran) /\ ~ran'
          /\ UNCHANGED <<state, pilot, relay, chargingOn, gfiFault, pc, pass>>
      BY <1>55 DEF Tick, Blocking, Polling
    <2>2. age["off"] \in Int /\ SleepGrace \in Nat
      BY DelayAssumption DEF TypeOK, Ages, Timers, Ahead
    <2>3. age'["off"] <= age["off"] + 1
      BY <1>55, <2>2 DEF Tick, Timers
    <2>4. age'["off"] \in Int
      BY <1>55, <2>2 DEF Tick, Timers
    <2>5. QED
      BY <2>1, <2>2, <2>3, <2>4
  <1>56. ASSUME NEW c \in Toggles, Feature(c) PROVE Kept'
    <2>1. /\ pc \in Polling
          /\ UNCHANGED <<state, pilot, relay, chargingOn, gfiFault, pc, pass, ran>>
      BY <1>56 DEF Feature
    <2>2. age'["off"] = age["off"]
      BY <1>56 DEF Feature, TypeOK, Ages, Timers
    <2>3. QED
      BY <2>1, <2>2 DEF Polling
  <1>57. ASSUME UNCHANGED vars PROVE Kept'
    BY <1>57 DEF vars
  <1>q. QED
    BY <1>1, <1>2, <1>3, <1>4, <1>5, <1>6, <1>7, <1>8, <1>9, <1>10, <1>11, <1>12,
       <1>13, <1>14, <1>15, <1>16, <1>17, <1>18, <1>19, <1>20, <1>21, <1>22, <1>23,
       <1>24, <1>25, <1>26, <1>27, <1>28, <1>29, <1>30, <1>31, <1>32, <1>33, <1>34,
       <1>35, <1>36, <1>hold, <1>37, <1>38, <1>39, <1>40, <1>41, <1>42, <1>43,
       <1>44, <1>45, <1>46, <1>47, <1>48, <1>49, <1>50, <1>51, <1>52, <1>53, <1>54,
       <1>55, <1>56, <1>57
    DEF Next, Program, Boot, SupplyCheck, GfiCheck, Transition, AfterTransition, Command

LEMMA KeptInit == ASSUME Init PROVE Kept
  BY DEF Init, Kept, PromptWhere, SleepWhere

LEMMA KeptAlways == ASSUME Sheltered PROVE Spec => []Kept
  <1>1. Init => Kept
    BY KeptInit
  <1>2. TypeOK /\ Guarded /\ Kept /\ [Next]_vars => Kept'
    BY KeptStep
  <1>3. QED
    BY <1>1, <1>2, TypeCorrect, GuardedAlways, PTL DEF Spec

\* Contacts that closed over a trip latched a moment before are opened by the next
\* pass, on every board and whatever the client does: the end of Update() finds them
\* closed over a latched trip only if this pass closed them.
THEOREM OpensPromptly == ASSUME Sheltered PROVE Spec => []TripOpensPromptly
  <1>1. Kept => TripOpensPromptly
    BY DEF Kept, PromptWhere, TripOpensPromptly
  <1>2. QED
    BY <1>1, KeptAlways, PTL

\* Sleep() keeps the contacts closed for its grace period at most, for every length
\* of it and whatever the client repeats: what the pass for SLEEPING checks.
THEOREM SleepEnds == ASSUME Sheltered PROVE Spec => []SleepGraceBounded
  <1>1. TypeOK /\ Kept => SleepGraceBounded
    <2>1. ASSUME TypeOK PROVE age["off"] \in Int /\ SleepGrace \in Nat
      BY <2>1, DelayAssumption DEF TypeOK, Ages, Timers, Ahead
    <2>2. QED
      BY <2>1 DEF Kept, SleepWhere, SleepGraceBounded
  <1>2. QED
    BY <1>1, KeptAlways, TypeCorrect, PTL

\* -12 V only while disabled, where no pass gets past its first line; a shorted
\* proximity pin is what lets start-up leave the state behind.
N12Where ==
    /\ pilot = "N12" => state = "DISABLED" /\ pc \in Polling
    /\ pc # "pperror"

\* Without an interrupt that sets the pilot, state C is left only with contacts that PWM
\* was offered for.
OfferWhere ==
    /\ pc \in {"idle", "tail", "finish"} /\ relay /\ state = "C" => pilot = "PWM"
    /\ pc \in {"supply", "gfi", "pilot"} /\ relay /\ pass.prev = "C" => pilot = "PWM"
    /\ pc \in {"selftest", "testrun", "close", "holding", "closed"} => pilot = "PWM"

Offered == N12Where /\ ("gfi" \notin Faults => OfferWhere)

LEMMA OfferedStep ==
  ASSUME Sheltered, "pp" \notin Faults, TypeOK, Guarded, Offered, [Next]_vars
  PROVE  Offered'
  <1> USE DEF Offered, N12Where, OfferWhere,
        ctl, contacts, gfi, eeprom, flow, env, OpenContacts, NoPass
  <1>1. ASSUME PostFails PROVE Offered'
    BY <1>1 DEF PostFails, Polling
  <1>2. ASSUME PostPasses PROVE Offered'
    BY <1>2 DEF PostPasses, Guarded, ClosedWhere, Polling
  <1>3. ASSUME PpErrorEnds PROVE Offered'
    BY <1>3 DEF PpErrorEnds
  <1>4. ASSUME PassDisabled PROVE Offered'
    BY <1>4 DEF PassDisabled
  <1>5. ASSUME PassSleeping PROVE Offered'
    BY <1>5 DEF PassSleeping
  <1>6. ASSUME PassBegins PROVE Offered'
    BY <1>6 DEF PassBegins
  <1>7. ASSUME CgmiGroundFault PROVE Offered'
    BY <1>7 DEF CgmiGroundFault, SupplyDone, Faulted, Supplied, Polling
  <1>8. ASSUME RelayClosureFault PROVE Offered'
    BY <1>8 DEF RelayClosureFault, SupplyDone, Faulted, Supplied, Polling
  <1>9. ASSUME GroundFaultUnderLoad PROVE Offered'
    BY <1>9 DEF GroundFaultUnderLoad, SupplyDone, Faulted, Supplied, Polling
  <1>10. ASSUME GroundFaultUnplugged PROVE Offered'
    BY <1>10 DEF GroundFaultUnplugged, EndPass, Supplied, Polling
  <1>11. ASSUME GroundFaultRetry PROVE Offered'
    BY <1>11 DEF GroundFaultRetry, SupplyDone, Supplied, Polling
  <1>12. ASSUME GroundFaultStays PROVE Offered'
    BY <1>12 DEF GroundFaultStays, SupplyDone, Faulted, Supplied, Polling
  <1>13. ASSUME StuckReading PROVE Offered'
    <2>1. /\ pc = "supply" /\ pc' = "gfi" /\ ~chargingOn /\ UNCHANGED contacts
          /\ UNCHANGED <<pilot, gfiFault>>
      BY <1>13 DEF StuckReading, SupplyDone, Supplied
    <2>2. pass'.prev = pass.prev
      BY <1>13 DEF StuckReading, Faulted, TypeOK, Passes
    <2>3. state' \in {state, "STUCK_RELAY"}
      BY <1>13 DEF StuckReading
    <2>4. QED
      BY <2>1, <2>2, <2>3 DEF Polling
  <1>14. ASSUME SupplyGood PROVE Offered'
    BY <1>14 DEF SupplyGood, SupplyDone, Supplied, Polling
  <1>15. ASSUME NoTrip PROVE Offered'
    BY <1>15 DEF NoTrip, TripHandled, Polling
  <1>16. ASSUME TripNoticed PROVE Offered'
    BY <1>16 DEF TripNoticed, TripHandled, Faulted, TripChecked, Polling
  <1>17. ASSUME TripUnplugged PROVE Offered'
    BY <1>17 DEF TripUnplugged, EndPass, GfiReset, TripChecked, Polling
  <1>18. ASSUME TripStays PROVE Offered'
    BY <1>18 DEF TripStays, TripHandled, Faulted, TripChecked, Polling
  <1>19. ASSUME TripRetried PROVE Offered'
    BY <1>19 DEF TripRetried, TripHandled, GfiReset, Faulted, TripChecked, Polling
  <1>20. ASSUME TripGivenUp PROVE Offered'
    BY <1>20 DEF TripGivenUp, HardFault, TripChecked, Polling
  <1>21. ASSUME FaultChosen PROVE Offered'
    BY <1>21 DEF FaultChosen, StateChosen, Polling
  <1>22. ASSUME PilotChosen PROVE Offered'
    <2>1. /\ pc = "pilot" /\ UNCHANGED <<relay>> /\ state = pass.prev
          /\ state # "DISABLED" /\ pilot # "N12"
      BY <1>22 DEF PilotChosen, StateChosen, Guarded, PassState, Polling
    <2>2. state' # "DISABLED" /\ pilot' # "N12"
      BY <1>22, <2>1 DEF PilotChosen, StateChosen, Targets, LevelState, Granted
    <2>3. pc' \in {"act", "tail"}
      BY <1>22 DEF PilotChosen, StateChosen
    <2>4. pc' = "tail" /\ state' = "C" => pass.prev = "C" /\ pilot' = pilot
      BY <1>22 DEF PilotChosen, StateChosen, FaultStates
    <2>5. QED
      BY <2>1, <2>2, <2>3, <2>4
  <1>23. ASSUME BecomesA PROVE Offered'
    BY <1>23 DEF BecomesA, Acted, Becomes
  <1>24. ASSUME BecomesB PROVE Offered'
    BY <1>24 DEF BecomesB, Acted, Becomes
  <1>25. ASSUME BecomesC PROVE Offered'
    BY <1>25 DEF BecomesC, Acted, Becomes, AcCheck
  <1>26. ASSUME BecomesFault PROVE Offered'
    BY <1>26 DEF BecomesFault, Acted, Becomes
  <1>27. ASSUME BecomesHardFault PROVE Offered'
    BY <1>27 DEF BecomesHardFault, Acted, HardFault, Becomes
  <1>28. ASSUME BecomesStuckRelay PROVE Offered'
    BY <1>28 DEF BecomesStuckRelay, Acted, HardFault, Becomes
  <1>29. ASSUME BecomesOverTemperature PROVE Offered'
    BY <1>29 DEF BecomesOverTemperature, Acted, Becomes
  <1>30. ASSUME OverTemperatureOpens PROVE Offered'
    BY <1>30 DEF OverTemperatureOpens, Acted, HardFault, Polling
  <1>31. ASSUME SelfTestNotReady PROVE Offered'
    BY <1>31 DEF SelfTestNotReady, SelfTestFails, HardFault
  <1>32. ASSUME SelfTestStarts PROVE Offered'
    BY <1>32 DEF SelfTestStarts, Polling
  <1>33. ASSUME SelfTestPinStays PROVE Offered'
    BY <1>33 DEF SelfTestPinStays, SelfTestFails, HardFault
  <1>34. ASSUME SelfTestNoTrip PROVE Offered'
    BY <1>34 DEF SelfTestNoTrip, SelfTestFails, HardFault
  <1>35. ASSUME SelfTestPasses PROVE Offered'
    BY <1>35 DEF SelfTestPasses, Polling
  <1>36. ASSUME CloseContacts PROVE Offered'
    BY <1>36 DEF CloseContacts, PinsDriven, Polling
  <1>hold. ASSUME HoldContacts PROVE Offered'
    BY <1>hold DEF HoldContacts, PinsDriven, Polling
  <1>37. ASSUME ContactsClosed PROVE Offered'
    BY <1>37 DEF ContactsClosed, Acted, Polling
  <1>38. ASSUME EarlyHardFault PROVE Offered'
    BY <1>38 DEF EarlyHardFault, HardFault, Polling
  <1>39. ASSUME CurrentChecked PROVE Offered'
    BY <1>39 DEF CurrentChecked, Acted, Polling
  <1>40. ASSUME OverCurrent PROVE Offered'
    BY <1>40 DEF OverCurrent
  <1>41. ASSUME OverCurrentOpens PROVE Offered'
    BY <1>41 DEF OverCurrentOpens, Acted, HardFault, Polling
  <1>42. ASSUME Finish PROVE Offered'
    <2>1. pilot' \in {pilot, "PWM"} /\ pc = "finish" /\ pc' = "idle"
          /\ UNCHANGED <<state, relay>>
      BY <1>42 DEF Finish, EndPass
    <2>2. QED
      BY <2>1 DEF Polling
  <1>43. ASSUME HardFaultEnds PROVE Offered'
    BY <1>43 DEF HardFaultEnds, Guarded, ClosedWhere, PassState, FaultStates, Polling,
                 TypeOK
  <1>44. ASSUME HardFaultPolls PROVE Offered'
    BY <1>44 DEF HardFaultPolls
  <1>45. ASSUME GfiInterrupt PROVE Offered'
    BY <1>45 DEF GfiInterrupt
  <1>46. ASSUME Enable PROVE Offered'
    BY <1>46 DEF Enable, Receives, Polling
  <1>47. ASSUME Disable PROVE Offered'
    BY <1>47 DEF Disable, Receives, Polling
  <1>48. ASSUME Sleep PROVE Offered'
    BY <1>48 DEF Sleep, Receives, Polling
  <1>49. ASSUME ResetFaultCounters PROVE Offered'
    BY <1>49 DEF ResetFaultCounters, Receives, Polling
  <1>50. ASSUME Reboot PROVE Offered'
    BY <1>50 DEF Reboot, Receives, Polling
  <1>51. ASSUME ClearBootLock PROVE Offered'
    BY <1>51 DEF ClearBootLock, Guarded, ClosedWhere, Polling
  <1>52. ASSUME Reset PROVE Offered'
    BY <1>52 DEF Reset, PowerUp
  <1>53. ASSUME EvChanges PROVE Offered'
    BY <1>53 DEF EvChanges
  <1>54. ASSUME TempRead PROVE Offered'
    BY <1>54 DEF TempRead, Polling
  <1>55. ASSUME Tick PROVE Offered'
    BY <1>55 DEF Tick
  <1>56. ASSUME NEW c \in Toggles, Feature(c) PROVE Offered'
    BY <1>56 DEF Feature
  <1>57. ASSUME UNCHANGED vars PROVE Offered'
    BY <1>57 DEF vars
  <1>q. QED
    BY <1>1, <1>2, <1>3, <1>4, <1>5, <1>6, <1>7, <1>8, <1>9, <1>10, <1>11, <1>12,
       <1>13, <1>14, <1>15, <1>16, <1>17, <1>18, <1>19, <1>20, <1>21, <1>22, <1>23,
       <1>24, <1>25, <1>26, <1>27, <1>28, <1>29, <1>30, <1>31, <1>32, <1>33, <1>34,
       <1>35, <1>36, <1>hold, <1>37, <1>38, <1>39, <1>40, <1>41, <1>42, <1>43,
       <1>44, <1>45, <1>46, <1>47, <1>48, <1>49, <1>50, <1>51, <1>52, <1>53, <1>54,
       <1>55, <1>56, <1>57
    DEF Next, Program, Boot, SupplyCheck, GfiCheck, Transition, AfterTransition, Command

LEMMA OfferedInit == ASSUME Init PROVE Offered
  BY DEF Init, Offered, N12Where, OfferWhere

LEMMA OfferedAlways == ASSUME Sheltered, "pp" \notin Faults PROVE Spec => []Offered
  <1>1. Init => Offered
    BY OfferedInit
  <1>2. TypeOK /\ Guarded /\ Offered /\ [Next]_vars => Offered'
    BY OfferedStep
  <1>3. QED
    BY <1>1, <1>2, TypeCorrect, GuardedAlways, PTL DEF Spec

\* Where start-up never meets a shorted proximity pin, -12 V on the pilot means that the
\* charger is disabled, with commands inside every loop that polls for them.
THEOREM N12IsDisabled ==
  ASSUME Sheltered, "pp" \notin Faults
  PROVE  Spec => []N12MeansDisabled
  <1>1. Offered => N12MeansDisabled
    BY DEF Offered, N12Where, N12MeansDisabled
  <1>2. QED
    BY <1>1, OfferedAlways, PTL

\* Where no trip interrupts either, contacts are closed between two passes only in state
\* C with current offered, or in the grace period of a sleep with a steady pilot.
THEOREM ClosedIsOffered ==
  ASSUME Sheltered, Faults \intersect {"gfi", "pp"} = {}
  PROVE  Spec => []ClosedMeansOffered
  <1>1. TypeOK /\ Guarded /\ Offered => ClosedMeansOffered
    BY DEF TypeOK, Guarded, ClosedWhere, Offered, N12Where, OfferWhere, ClosedMeansOffered
  <1>2. Spec => []Offered
    BY OfferedAlways
  <1>3. QED
    BY <1>1, <1>2, GuardedAlways, TypeCorrect, PTL

\* The relay works, and the check for a stuck one is not switched in mid-course.
WorkingRelay == "relay" \notin Faults /\ "stuck" \notin Toggles

\* The debounce of a stuck relay runs only from a reading that a trip has overtaken: the
\* trip is still latched or already a fault, so the pass does not close the contacts
\* again, and the next one reads them open and ends the debounce.
StuckWhere ==
    /\ state # "STUCK_RELAY" /\ pass.prev # "STUCK_RELAY"
    /\ "stuck" \in checks \/ age["stuck"] = NotSet
    /\ pc = "supply" /\ relay => pass.live
    /\ pc = "supply" /\ pass.live =>
         /\ pass.prev \in {"C", "UNKNOWN"} /\ age["stuck"] = NotSet
         /\ ~relay => gfiFault
    /\ relay /\ pc \notin {"holding", "closed"} => chargingOn
    /\ ~HasCGMI /\ state = "NO_GROUND" => age["stuck"] = NotSet
    /\ age["stuck"] # NotSet =>
         /\ ~relay /\ ~chargingOn
         /\ pc \notin {"selftest", "testrun", "close", "holding", "closed"}
         /\ pc = "act" => state # "C"
         /\ pc = "gfi" => \/ ~pass.nofault
                          \/ gfiFault /\ pass.prev \in {"C", "UNKNOWN"}
         /\ pc = "pilot" => ~pass.nofault

LEMMA StuckStep ==
  ASSUME Sheltered, WorkingRelay, TypeOK, Guarded, StuckWhere, [Next]_vars
  PROVE  StuckWhere'
  <1> USE DEF StuckWhere, WorkingRelay,
        ctl, contacts, gfi, eeprom, flow, env, OpenContacts, NoPass
  <1>1. ASSUME PostFails PROVE StuckWhere'
    BY <1>1 DEF PostFails
  <1>2. ASSUME PostPasses PROVE StuckWhere'
    BY <1>2 DEF PostPasses
  <1>3. ASSUME PpErrorEnds PROVE StuckWhere'
    BY <1>3 DEF PpErrorEnds
  <1>4. ASSUME PassDisabled PROVE StuckWhere'
    BY <1>4 DEF PassDisabled
  <1>5. ASSUME PassSleeping PROVE StuckWhere'
    BY <1>5 DEF PassSleeping, TypeOK, Ages, Timers, Opened
  <1>6. ASSUME PassBegins PROVE StuckWhere'
    BY <1>6 DEF PassBegins, Guarded, ClosedWhere
  <1>7. ASSUME CgmiGroundFault PROVE StuckWhere'
    BY <1>7 DEF CgmiGroundFault, SupplyDone, Faulted, Supplied, TypeOK, Ages, Timers,
                Opened
  <1>8. ASSUME RelayClosureFault PROVE StuckWhere'
    BY <1>8 DEF RelayClosureFault, SupplyDone, Faulted, Supplied, TypeOK, Ages, Timers,
                Opened
  <1>9. ASSUME GroundFaultUnderLoad PROVE StuckWhere'
    BY <1>9 DEF GroundFaultUnderLoad, SupplyDone, Faulted, Supplied, TypeOK, Ages,
                Timers, Opened
  <1>10. ASSUME GroundFaultUnplugged PROVE StuckWhere'
    BY <1>10 DEF GroundFaultUnplugged, EndPass, Supplied, Settled, TypeOK, Ages, Timers
  <1>11. ASSUME GroundFaultRetry PROVE StuckWhere'
    <2>1. age'["stuck"] = age["stuck"]
      BY <1>11 DEF GroundFaultRetry, Settled, TypeOK, Ages, Timers
    <2>2. ~HasCGMI /\ state = "NO_GROUND"
      BY <1>11 DEF GroundFaultRetry, Supplied, AwaitsGround, Guarded, PassState
    <2>3. /\ pc = "supply" /\ pc' = "gfi"
          /\ UNCHANGED <<state, relay, chargingOn, checks, pass>>
      BY <1>11 DEF GroundFaultRetry, SupplyDone, Supplied
    <2>4. QED
      BY <2>1, <2>2, <2>3
  <1>12. ASSUME GroundFaultStays PROVE StuckWhere'
    <2>1. age'["stuck"] = age["stuck"]
      BY <1>12 DEF GroundFaultStays, Settled, TypeOK, Ages, Timers
    <2>2. ~HasCGMI /\ state = "NO_GROUND"
      BY <1>12 DEF GroundFaultStays, Supplied, AwaitsGround, Guarded, PassState
    <2>3. /\ pc = "supply" /\ pc' = "gfi" /\ pass'.prev = pass.prev
          /\ UNCHANGED <<relay, chargingOn, checks>> /\ state' = "NO_GROUND"
      BY <1>12 DEF GroundFaultStays, SupplyDone, Supplied, Faulted, TypeOK, Passes
    <2>4. QED
      BY <2>1, <2>2, <2>3
  <1>13. ASSUME StuckReading PROVE StuckWhere'
    <2>1. /\ pc = "supply" /\ pc' = "gfi" /\ ~chargingOn /\ ~relay
          /\ UNCHANGED <<relay, chargingOn, gfiFault, checks>>
      BY <1>13 DEF StuckReading, SupplyDone, Supplied
    <2>2. pass.live /\ gfiFault /\ age["stuck"] = NotSet /\ "stuck" \in checks
      BY <1>13, <2>1 DEF StuckReading, LineReadings, AcCheck
    <2>3. pass.prev \in {"C", "UNKNOWN"} /\ RelayDelay \in Nat
      BY <2>1, <2>2, DelayAssumption
    <2>4. [age EXCEPT !["stuck"] = 0]["stuck"] = 0
      BY DEF TypeOK, Ages, Timers
    <2>5. UNCHANGED <<state, trips, pass>>
      BY <1>13, <2>2, <2>3, <2>4 DEF StuckReading
    <2>6. state # "NO_GROUND"
      BY <2>1, <2>3 DEF Guarded, PassState
    <2>7. QED
      BY <2>1, <2>2, <2>3, <2>5, <2>6
  <1>14. ASSUME SupplyGood PROVE StuckWhere'
    BY <1>14
      DEF SupplyGood, SupplyDone, Supplied, Settled, LineReadings, AcCheck,
          TypeOK, Ages, Timers
  <1>15. ASSUME NoTrip PROVE StuckWhere'
    BY <1>15 DEF NoTrip, TripHandled
  <1>16. ASSUME TripNoticed PROVE StuckWhere'
    BY <1>16 DEF TripNoticed, TripHandled, Faulted, TripChecked
  <1>17. ASSUME TripUnplugged PROVE StuckWhere'
    BY <1>17 DEF TripUnplugged, EndPass, GfiReset, TripChecked
  <1>18. ASSUME TripStays PROVE StuckWhere'
    BY <1>18 DEF TripStays, TripHandled, Faulted, TripChecked
  <1>19. ASSUME TripRetried PROVE StuckWhere'
    BY <1>19 DEF TripRetried, TripHandled, GfiReset, Faulted, TripChecked
  <1>20. ASSUME TripGivenUp PROVE StuckWhere'
    BY <1>20 DEF TripGivenUp, HardFault, TripChecked
  <1>21. ASSUME FaultChosen PROVE StuckWhere'
    BY <1>21 DEF FaultChosen, StateChosen, FaultStates, Guarded, PassState
  <1>22. ASSUME PilotChosen PROVE StuckWhere'
    <2>1. pc = "pilot" /\ pass.nofault /\ pass' = NoPass /\ pc' \in {"act", "tail"}
      BY <1>22 DEF PilotChosen, StateChosen
    <2>2. age["stuck"] = NotSet
      BY <2>1
    <2>3. age'["stuck"] = NotSet
      BY <1>22, <2>2 DEF PilotChosen, TypeOK, Ages, Timers
    <2>4. UNCHANGED <<relay, chargingOn, checks>>
      BY <1>22 DEF PilotChosen, StateChosen
    <2>5. state' # "STUCK_RELAY"
      BY <1>22 DEF PilotChosen, StateChosen, Granted, Targets, LevelState
    <2>6. QED
      BY <2>1, <2>3, <2>4, <2>5
  <1>23. ASSUME BecomesA PROVE StuckWhere'
    BY <1>23 DEF BecomesA, Acted, Becomes, TypeOK, Ages, Timers, Opened
  <1>24. ASSUME BecomesB PROVE StuckWhere'
    BY <1>24 DEF BecomesB, Acted, Becomes, TypeOK, Ages, Timers, Opened
  <1>25. ASSUME BecomesC PROVE StuckWhere'
    BY <1>25 DEF BecomesC, Acted, Becomes
  <1>26. ASSUME BecomesFault PROVE StuckWhere'
    BY <1>26 DEF BecomesFault, Acted, Becomes, TypeOK, Ages, Timers, Opened
  <1>27. ASSUME BecomesHardFault PROVE StuckWhere'
    BY <1>27 DEF BecomesHardFault, Acted, HardFault, Becomes, TypeOK, Ages, Timers, Opened
  <1>28. ASSUME BecomesStuckRelay PROVE StuckWhere'
    BY <1>28 DEF BecomesStuckRelay, Acted, HardFault, Becomes
  <1>29. ASSUME BecomesOverTemperature PROVE StuckWhere'
    BY <1>29 DEF BecomesOverTemperature, Acted, Becomes
  <1>30. ASSUME OverTemperatureOpens PROVE StuckWhere'
    BY <1>30 DEF OverTemperatureOpens, Acted, HardFault, TypeOK, Ages, Timers, Opened
  <1>31. ASSUME SelfTestNotReady PROVE StuckWhere'
    BY <1>31 DEF SelfTestNotReady, SelfTestFails, HardFault
  <1>32. ASSUME SelfTestStarts PROVE StuckWhere'
    BY <1>32 DEF SelfTestStarts
  <1>33. ASSUME SelfTestPinStays PROVE StuckWhere'
    BY <1>33 DEF SelfTestPinStays, SelfTestFails, HardFault
  <1>34. ASSUME SelfTestNoTrip PROVE StuckWhere'
    BY <1>34 DEF SelfTestNoTrip, SelfTestFails, HardFault
  <1>35. ASSUME SelfTestPasses PROVE StuckWhere'
    BY <1>35 DEF SelfTestPasses
  <1>36. ASSUME CloseContacts PROVE StuckWhere'
    BY <1>36 DEF CloseContacts, PinsDriven
  <1>hold. ASSUME HoldContacts PROVE StuckWhere'
    BY <1>hold DEF HoldContacts, PinsDriven
  <1>37. ASSUME ContactsClosed PROVE StuckWhere'
    BY <1>37 DEF ContactsClosed, Acted
  <1>38. ASSUME EarlyHardFault PROVE StuckWhere'
    BY <1>38 DEF EarlyHardFault, HardFault
  <1>39. ASSUME CurrentChecked PROVE StuckWhere'
    BY <1>39 DEF CurrentChecked, Acted
  <1>40. ASSUME OverCurrent PROVE StuckWhere'
    BY <1>40 DEF OverCurrent
  <1>41. ASSUME OverCurrentOpens PROVE StuckWhere'
    BY <1>41 DEF OverCurrentOpens, Acted, HardFault, TypeOK, Ages, Timers, Opened
  <1>42. ASSUME Finish PROVE StuckWhere'
    BY <1>42 DEF Finish, EndPass
  <1>43. ASSUME HardFaultEnds PROVE StuckWhere'
    BY <1>43 DEF HardFaultEnds, TypeOK, Ages, Timers
  <1>44. ASSUME HardFaultPolls PROVE StuckWhere'
    BY <1>44 DEF HardFaultPolls
  <1>45. ASSUME GfiInterrupt PROVE StuckWhere'
    BY <1>45 DEF GfiInterrupt, TypeOK, Ages, Timers
  <1>46. ASSUME Enable PROVE StuckWhere'
    BY <1>46 DEF Enable, Receives
  <1>47. ASSUME Disable PROVE StuckWhere'
    BY <1>47 DEF Disable, Receives, Opened, TypeOK, Ages, Timers, Polling
  <1>48. ASSUME Sleep PROVE StuckWhere'
    BY <1>48 DEF Sleep, Receives, TypeOK, Ages, Timers, Opened
  <1>49. ASSUME ResetFaultCounters PROVE StuckWhere'
    BY <1>49 DEF ResetFaultCounters, Receives
  <1>50. ASSUME Reboot PROVE StuckWhere'
    BY <1>50 DEF Reboot, Receives, Opened, TypeOK, Ages, Timers, Polling
  <1>51. ASSUME ClearBootLock PROVE StuckWhere'
    BY <1>51 DEF ClearBootLock
  <1>52. ASSUME Reset PROVE StuckWhere'
    BY <1>52 DEF Reset, PowerUp
  <1>53. ASSUME EvChanges PROVE StuckWhere'
    BY <1>53 DEF EvChanges
  <1>54. ASSUME TempRead PROVE StuckWhere'
    BY <1>54 DEF TempRead
  <1>55. ASSUME Tick PROVE StuckWhere'
    <2>1. /\ pc \in Polling \union Blocking
          /\ UNCHANGED <<state, relay, chargingOn, gfiFault, checks, pc, pass>>
      BY <1>55 DEF Tick, Blocking, Polling
    <2>2. age["stuck"] = NotSet => age'["stuck"] = NotSet
      BY <1>55 DEF Tick, Timers, NotSet, Ahead
    <2>3. QED
      BY <2>1, <2>2 DEF Polling, Blocking
  <1>56. ASSUME NEW c \in Toggles, Feature(c) PROVE StuckWhere'
    BY <1>56 DEF Feature, TypeOK, Ages, Timers
  <1>57. ASSUME UNCHANGED vars PROVE StuckWhere'
    BY <1>57 DEF vars
  <1>q. QED
    BY <1>1, <1>2, <1>3, <1>4, <1>5, <1>6, <1>7, <1>8, <1>9, <1>10, <1>11, <1>12,
       <1>13, <1>14, <1>15, <1>16, <1>17, <1>18, <1>19, <1>20, <1>21, <1>22, <1>23,
       <1>24, <1>25, <1>26, <1>27, <1>28, <1>29, <1>30, <1>31, <1>32, <1>33, <1>34,
       <1>35, <1>36, <1>hold, <1>37, <1>38, <1>39, <1>40, <1>41, <1>42, <1>43,
       <1>44, <1>45, <1>46, <1>47, <1>48, <1>49, <1>50, <1>51, <1>52, <1>53, <1>54,
       <1>55, <1>56, <1>57
    DEF Next, Program, Boot, SupplyCheck, GfiCheck, Transition, AfterTransition, Command

LEMMA StuckInit == ASSUME WorkingRelay, Init PROVE StuckWhere
  BY DEF Init, StuckWhere, NoPass

\* Trips at any point of a pass, also between the reading of the AC pins and that of
\* the charging flag, do not make a relay that works a stuck one.
THEOREM WorkingRelayKept ==
  ASSUME Sheltered, WorkingRelay
  PROVE  Spec => []WorkingRelayNotStuck
  <1>1. Init => StuckWhere
    BY StuckInit
  <1>2. TypeOK /\ Guarded /\ StuckWhere /\ [Next]_vars => StuckWhere'
    BY StuckStep
  <1>3. StuckWhere => WorkingRelayNotStuck
    BY DEF StuckWhere, WorkingRelayNotStuck
  <1>4. QED
    BY <1>1, <1>2, <1>3, TypeCorrect, GuardedAlways, PTL DEF Spec

\* Where the stamp of an opening is ahead of the pass, where the charger is disabled, and
\* the state a pass has until its first check; whatever is broken and configured.
SteadyWhere ==
    /\ age["off"] = Ahead => pc = "supply" /\ gfiFault
    /\ pc = "supply" => state = pass.prev
    /\ pass.prev # "DISABLED"
    /\ state = "DISABLED" => pc \in Polling \union {"reboot"}
    /\ pc = "hf" /\ state = "DISABLED" /\ pilot # "N12" => gfiFault
    /\ pc \in {"selftest", "testrun", "close", "holding", "closed"} => state = "C"
    /\ pc = "boot" => pilot = "P12"

LEMMA SteadyStep ==
  ASSUME TypeOK, SteadyWhere, [Next]_vars
  PROVE  SteadyWhere'
  <1> USE DEF SteadyWhere, ctl, contacts, gfi, eeprom, flow, env, OpenContacts, NoPass,
        Polling, Ahead, NotSet
  <1>1. ASSUME PostFails PROVE SteadyWhere'
    BY <1>1 DEF PostFails
  <1>2. ASSUME PostPasses PROVE SteadyWhere'
    BY <1>2 DEF PostPasses
  <1>3. ASSUME PpErrorEnds PROVE SteadyWhere'
    BY <1>3 DEF PpErrorEnds
  <1>4. ASSUME PassDisabled PROVE SteadyWhere'
    BY <1>4 DEF PassDisabled
  <1>5. ASSUME PassSleeping PROVE SteadyWhere'
    BY <1>5 DEF PassSleeping, TypeOK, Ages, Timers, Opened
  <1>6. ASSUME PassBegins PROVE SteadyWhere'
    BY <1>6 DEF PassBegins
  <1>7. ASSUME CgmiGroundFault PROVE SteadyWhere'
    BY <1>7 DEF CgmiGroundFault, SupplyDone, Faulted, Supplied, TypeOK, Ages, Timers, Passes,
                Opened
  <1>8. ASSUME RelayClosureFault PROVE SteadyWhere'
    BY <1>8 DEF RelayClosureFault, SupplyDone, Faulted, Supplied, TypeOK, Ages, Timers, Passes,
                Opened
  <1>9. ASSUME GroundFaultUnderLoad PROVE SteadyWhere'
    BY <1>9 DEF GroundFaultUnderLoad, SupplyDone, Faulted, Supplied, TypeOK, Ages,
                Timers, Passes, Opened
  <1>10. ASSUME GroundFaultUnplugged PROVE SteadyWhere'
    BY <1>10 DEF GroundFaultUnplugged, EndPass, Supplied, TypeOK, Ages, Timers, Settled
  <1>11. ASSUME GroundFaultRetry PROVE SteadyWhere'
    BY <1>11 DEF GroundFaultRetry, SupplyDone, Supplied, TypeOK, Ages, Timers, Settled
  <1>12. ASSUME GroundFaultStays PROVE SteadyWhere'
    BY <1>12 DEF GroundFaultStays, SupplyDone, Supplied, Faulted, TypeOK, Ages, Timers, Passes,
                 Settled
  <1>13. ASSUME StuckReading PROVE SteadyWhere'
    <2>1. pass'.prev = pass.prev
      BY <1>13 DEF StuckReading, Faulted, TypeOK, Passes
    <2>2. age'["off"] # Ahead
      <3> DEFINE start == IF pass.prev # "STUCK_RELAY" /\ age["stuck"] = NotSet
                          THEN [age EXCEPT !["stuck"] = 0] ELSE age
      <3>1. age' = Settled(start) /\ start \in [Timers -> Int]
        BY <1>13 DEF StuckReading, TypeOK, Ages, Timers
      <3>2. QED
        BY <3>1 DEF Settled, Timers
    <2>3. QED
      BY <1>13, <2>1, <2>2 DEF StuckReading, SupplyDone, Supplied
  <1>14. ASSUME SupplyGood PROVE SteadyWhere'
    BY <1>14 DEF SupplyGood, SupplyDone, Supplied, TypeOK, Ages, Timers, Settled
  <1>15. ASSUME NoTrip PROVE SteadyWhere'
    BY <1>15 DEF NoTrip, TripHandled
  <1>16. ASSUME TripNoticed PROVE SteadyWhere'
    BY <1>16 DEF TripNoticed, TripHandled, Faulted, TripChecked, TypeOK, Passes,
                Ages, Timers
  <1>17. ASSUME TripUnplugged PROVE SteadyWhere'
    BY <1>17 DEF TripUnplugged, EndPass, GfiReset, TripChecked
  <1>18. ASSUME TripStays PROVE SteadyWhere'
    BY <1>18 DEF TripStays, TripHandled, Faulted, TripChecked, TypeOK, Passes,
                Ages, Timers
  <1>19. ASSUME TripRetried PROVE SteadyWhere'
    BY <1>19 DEF TripRetried, TripHandled, GfiReset, Faulted, TripChecked, TypeOK, Passes,
                Ages, Timers
  <1>20. ASSUME TripGivenUp PROVE SteadyWhere'
    BY <1>20 DEF TripGivenUp, HardFault, TripChecked
  <1>21. ASSUME FaultChosen PROVE SteadyWhere'
    BY <1>21 DEF FaultChosen, StateChosen, TypeOK, Passes, Ages, Timers
  <1>22. ASSUME PilotChosen PROVE SteadyWhere'
    <2>1. /\ pc = "pilot" /\ pc' \in {"act", "tail"} /\ pass' = NoPass
          /\ UNCHANGED gfiFault
      BY <1>22 DEF PilotChosen, StateChosen
    <2>2. state' # "DISABLED"
      BY <1>22 DEF PilotChosen, StateChosen, Targets, LevelState, Granted
    <2>3. age'["off"] = age["off"]
      BY <1>22 DEF PilotChosen, TypeOK, Ages, Timers
    <2>4. QED
      BY <2>1, <2>2, <2>3
  <1>23. ASSUME BecomesA PROVE SteadyWhere'
    BY <1>23 DEF BecomesA, Acted, Becomes, TypeOK, Ages, Timers, Opened
  <1>24. ASSUME BecomesB PROVE SteadyWhere'
    BY <1>24 DEF BecomesB, Acted, Becomes, TypeOK, Ages, Timers, Opened
  <1>25. ASSUME BecomesC PROVE SteadyWhere'
    BY <1>25 DEF BecomesC, Acted, Becomes
  <1>26. ASSUME BecomesFault PROVE SteadyWhere'
    BY <1>26 DEF BecomesFault, Acted, Becomes, TypeOK, Ages, Timers, Opened
  <1>27. ASSUME BecomesHardFault PROVE SteadyWhere'
    BY <1>27 DEF BecomesHardFault, Acted, HardFault, Becomes, TypeOK, Ages, Timers, Opened
  <1>28. ASSUME BecomesStuckRelay PROVE SteadyWhere'
    BY <1>28 DEF BecomesStuckRelay, Acted, HardFault, Becomes, TypeOK, Ages, Timers,
                 Opened
  <1>29. ASSUME BecomesOverTemperature PROVE SteadyWhere'
    BY <1>29 DEF BecomesOverTemperature, Acted, Becomes
  <1>30. ASSUME OverTemperatureOpens PROVE SteadyWhere'
    BY <1>30 DEF OverTemperatureOpens, Acted, HardFault, TypeOK, Ages, Timers, Opened
  <1>31. ASSUME SelfTestNotReady PROVE SteadyWhere'
    BY <1>31 DEF SelfTestNotReady, SelfTestFails, HardFault
  <1>32. ASSUME SelfTestStarts PROVE SteadyWhere'
    BY <1>32 DEF SelfTestStarts
  <1>33. ASSUME SelfTestPinStays PROVE SteadyWhere'
    BY <1>33 DEF SelfTestPinStays, SelfTestFails, HardFault
  <1>34. ASSUME SelfTestNoTrip PROVE SteadyWhere'
    BY <1>34 DEF SelfTestNoTrip, SelfTestFails, HardFault
  <1>35. ASSUME SelfTestPasses PROVE SteadyWhere'
    BY <1>35 DEF SelfTestPasses
  <1>36. ASSUME CloseContacts PROVE SteadyWhere'
    BY <1>36 DEF CloseContacts, PinsDriven
  <1>hold. ASSUME HoldContacts PROVE SteadyWhere'
    BY <1>hold DEF HoldContacts, PinsDriven
  <1>37. ASSUME ContactsClosed PROVE SteadyWhere'
    BY <1>37 DEF ContactsClosed, Acted
  <1>38. ASSUME EarlyHardFault PROVE SteadyWhere'
    BY <1>38 DEF EarlyHardFault, HardFault
  <1>39. ASSUME CurrentChecked PROVE SteadyWhere'
    BY <1>39 DEF CurrentChecked, Acted
  <1>40. ASSUME OverCurrent PROVE SteadyWhere'
    BY <1>40 DEF OverCurrent
  <1>41. ASSUME OverCurrentOpens PROVE SteadyWhere'
    BY <1>41 DEF OverCurrentOpens, Acted, HardFault, TypeOK, Ages, Timers, Opened
  <1>42. ASSUME Finish PROVE SteadyWhere'
    BY <1>42 DEF Finish, EndPass
  <1>43. ASSUME HardFaultEnds PROVE SteadyWhere'
    BY <1>43 DEF HardFaultEnds, TypeOK, Ages, Timers
  <1>44. ASSUME HardFaultPolls PROVE SteadyWhere'
    BY <1>44 DEF HardFaultPolls
  <1>45. ASSUME GfiInterrupt PROVE SteadyWhere'
    BY <1>45 DEF GfiInterrupt
  <1>46. ASSUME Enable PROVE SteadyWhere'
    BY <1>46 DEF Enable, Receives
  <1>47. ASSUME Disable PROVE SteadyWhere'
    BY <1>47 DEF Disable, Receives, Opened, TypeOK, Ages, Timers
  <1>48. ASSUME Sleep PROVE SteadyWhere'
    BY <1>48 DEF Sleep, Receives, Opened, TypeOK, Ages, Timers
  <1>49. ASSUME ResetFaultCounters PROVE SteadyWhere'
    BY <1>49 DEF ResetFaultCounters, Receives
  <1>50. ASSUME Reboot PROVE SteadyWhere'
    BY <1>50 DEF Reboot, Receives
  <1>51. ASSUME ClearBootLock PROVE SteadyWhere'
    BY <1>51 DEF ClearBootLock
  <1>52. ASSUME Reset PROVE SteadyWhere'
    BY <1>52 DEF Reset, PowerUp
  <1>53. ASSUME EvChanges PROVE SteadyWhere'
    BY <1>53 DEF EvChanges
  <1>54. ASSUME TempRead PROVE SteadyWhere'
    BY <1>54 DEF TempRead
  <1>55. ASSUME Tick PROVE SteadyWhere'
    BY <1>55 DEF Tick, Blocking, TypeOK, Ages, Timers
  <1>56. ASSUME NEW c \in Toggles, Feature(c) PROVE SteadyWhere'
    BY <1>56 DEF Feature, TypeOK, Ages, Timers
  <1>57. ASSUME UNCHANGED vars PROVE SteadyWhere'
    BY <1>57 DEF vars
  <1>q. QED
    BY <1>1, <1>2, <1>3, <1>4, <1>5, <1>6, <1>7, <1>8, <1>9, <1>10, <1>11, <1>12,
       <1>13, <1>14, <1>15, <1>16, <1>17, <1>18, <1>19, <1>20, <1>21, <1>22, <1>23,
       <1>24, <1>25, <1>26, <1>27, <1>28, <1>29, <1>30, <1>31, <1>32, <1>33, <1>34,
       <1>35, <1>36, <1>hold, <1>37, <1>38, <1>39, <1>40, <1>41, <1>42, <1>43,
       <1>44, <1>45, <1>46, <1>47, <1>48, <1>49, <1>50, <1>51, <1>52, <1>53, <1>54,
       <1>55, <1>56, <1>57
    DEF Next, Program, Boot, SupplyCheck, GfiCheck, Transition, AfterTransition, Command

LEMMA SteadyInit == ASSUME Init PROVE SteadyWhere
  BY DEF Init, SteadyWhere, NoPass, Ahead

LEMMA SteadyAlways == Spec => []SteadyWhere
  <1>1. Init => SteadyWhere
    BY SteadyInit
  <1>2. TypeOK /\ SteadyWhere /\ [Next]_vars => SteadyWhere'
    BY SteadyStep
  <1>3. QED
    BY <1>1, <1>2, TypeCorrect, PTL DEF Spec

LEMMA OffersStep ==
  ASSUME TypeOK, SteadyWhere, [Next]_vars, FaultOffers', thermal' = thermal
  PROVE  FaultOffers
  <1> USE DEF FaultOffers, SteadyFaults, FaultStates, Polling, ctl, contacts, gfi, eeprom, flow, env
  <1>1. /\ pilot' = "PWM"
        /\ pc' \in {"supply", "gfi", "pilot"} => pass'.prev \in SteadyFaults
        /\ pc' \notin {"supply", "gfi", "pilot"} =>
             /\ pc' \in Polling \union {"tail", "finish", "cool", "ocwait"}
             /\ state' \in SteadyFaults
    OBVIOUS
  <1>2. CASE Boot
    BY <1>1, <1>2 DEF Boot, PostFails, PostPasses, PpErrorEnds, SteadyWhere
  <1>3. CASE PassDisabled \/ PassSleeping \/ PassBegins
    BY <1>1, <1>3 DEF PassDisabled, PassSleeping, PassBegins, NoPass
  <1>4. CASE SupplyCheck
    <2>1. CASE GroundFaultUnplugged
      BY <1>1, <2>1 DEF GroundFaultUnplugged, EndPass
    <2>2. CASE ~GroundFaultUnplugged
      <3>1. pc = "supply" /\ pc' = "gfi" /\ UNCHANGED pilot
        BY <1>4, <2>2
          DEF SupplyCheck, Supplied, SupplyDone, CgmiGroundFault, RelayClosureFault,
              GroundFaultUnderLoad, GroundFaultRetry, GroundFaultStays, StuckReading, SupplyGood
      <3>2. pass' = pass \/ Faulted
        BY <1>4, <2>2
          DEF SupplyCheck, CgmiGroundFault, RelayClosureFault, GroundFaultUnderLoad,
              GroundFaultRetry, GroundFaultStays, StuckReading, SupplyGood
      <3>3. pass'.prev = pass.prev
        BY <3>2 DEF Faulted, TypeOK, Passes
      <3>4. QED
        BY <1>1, <3>1, <3>3
    <2>3. QED
      BY <2>1, <2>2
  <1>5. CASE GfiCheck
    <2>1. CASE TripUnplugged
      BY <1>1, <2>1 DEF TripUnplugged, EndPass
    <2>2. CASE TripGivenUp
      BY <1>1, <2>2 DEF TripGivenUp, TripChecked
    <2>3. CASE NoTrip \/ TripNoticed \/ TripStays \/ TripRetried
      <3>1. pc = "gfi" /\ pc' = "pilot" /\ UNCHANGED pilot /\ (pass' = pass \/ Faulted)
        BY <2>3
          DEF NoTrip, TripNoticed, TripStays, TripRetried, TripChecked, TripHandled
      <3>2. pass'.prev = pass.prev
        BY <3>1 DEF Faulted, TypeOK, Passes
      <3>3. QED
        BY <1>1, <3>1, <3>2
    <2>4. QED
      BY <1>5, <2>1, <2>2, <2>3 DEF GfiCheck
  <1>6. CASE FaultChosen
    BY <1>1, <1>6 DEF FaultChosen, StateChosen
  <1>7. CASE PilotChosen
    <2>1. /\ pc = "pilot" /\ pc' = "tail" /\ pilot' = "PWM"
      BY <1>1, <1>7 DEF PilotChosen, StateChosen
    <2>2. state' = pass.prev /\ pilot = "PWM"
      BY <1>7, <2>1 DEF PilotChosen, StateChosen
    <2>3. QED
      BY <1>1, <2>1, <2>2
  <1>8. CASE Transition
    <2>1. CASE BecomesA \/ BecomesB \/ BecomesC
      BY <1>1, <2>1 DEF BecomesA, BecomesB, BecomesC, Becomes, Acted
    <2>2. CASE BecomesFault \/ BecomesHardFault \/ BecomesOverTemperature
      BY <1>1, <2>2 DEF BecomesFault, BecomesHardFault, BecomesOverTemperature
    <2>3. CASE BecomesStuckRelay
      BY <1>1, <2>3 DEF BecomesStuckRelay, Becomes, Acted, HardFault
    <2>4. CASE OverTemperatureOpens
      BY <1>1, <2>4 DEF OverTemperatureOpens, Acted, HardFault
    <2>5. CASE SelfTestNotReady \/ SelfTestPinStays \/ SelfTestNoTrip
      BY <1>1, <2>5 DEF SelfTestNotReady, SelfTestPinStays, SelfTestNoTrip, SelfTestFails
    <2>6. CASE SelfTestStarts \/ SelfTestPasses \/ CloseContacts \/ HoldContacts
      BY <1>1, <2>6 DEF SelfTestStarts, SelfTestPasses, CloseContacts, HoldContacts
    <2>7. CASE ContactsClosed
      BY <1>1, <2>7 DEF ContactsClosed, Acted, SteadyWhere
    <2>8. QED
      BY <1>8, <2>1, <2>2, <2>3, <2>4, <2>5, <2>6, <2>7 DEF Transition
  <1>9. CASE EarlyHardFault \/ CurrentChecked \/ OverCurrent \/ OverCurrentOpens
    BY <1>1, <1>9
      DEF EarlyHardFault, CurrentChecked, OverCurrent, OverCurrentOpens, Acted, HardFault
  <1>10. CASE Finish
    <2>1. PICK due \in BOOLEAN :
            LET warm == IF AcCheck("temp") THEN Restored(thermal) ELSE thermal
                hot == IF AcCheck("temp") /\ state = "C" /\ due THEN Throttled(warm) ELSE warm
            IN  /\ thermal' = hot
                /\ pilot' = IF warm # thermal \/ hot # warm THEN "PWM" ELSE pilot
      BY <1>10 DEF Finish
    <2> DEFINE warm == IF AcCheck("temp") THEN Restored(thermal) ELSE thermal
    <2>2. warm = thermal
      <3>1. SUFFICES ASSUME warm # thermal PROVE FALSE
        OBVIOUS
      <3>2. \/ "throttle" \in thermal /\ temp = Nominal /\ warm = thermal \ {"throttle"}
            \/ "shutdown" \in thermal /\ temp <= Warm /\ warm = thermal \ {"shutdown"}
        BY <3>1 DEF Restored
      <3>3. temp \in Int
        BY FeatureAssumption DEF TypeOK, Nominal, Panic
      <3>4. ~(temp >= Hot) /\ ~(temp >= Hotter)
        BY <3>2, <3>3 DEF Nominal, Warm, Hot, Hotter
      <3>5. thermal' = warm
        BY <2>1, <3>4 DEF Throttled
      <3>6. QED
        BY <3>1, <3>5
    <2>3. pilot' = pilot
      BY <2>1, <2>2
    <2>4. QED
      BY <1>1, <1>10, <2>3 DEF Finish, EndPass
  <1>11. CASE HardFaultEnds
    BY <1>1, <1>11 DEF HardFaultEnds, TypeOK
  <1>12. CASE HardFaultPolls
    BY <1>1, <1>12 DEF HardFaultPolls
  <1>13. CASE GfiInterrupt \/ Enable \/ Disable \/ Sleep \/ Reboot
    BY <1>1, <1>13 DEF GfiInterrupt, Enable, Disable, Sleep, Reboot
  <1>14. CASE ResetFaultCounters \/ ClearBootLock
    BY <1>1, <1>14 DEF ResetFaultCounters, ClearBootLock, Receives
  <1>15. CASE \E c \in Toggles : Feature(c)
    BY <1>1, <1>15 DEF Feature
  <1>16. CASE Reset
    BY <1>1, <1>16 DEF Reset, PowerUp
  <1>17. CASE EvChanges \/ TempRead \/ Tick \/ UNCHANGED vars
    BY <1>1, <1>17 DEF EvChanges, TempRead, Tick, vars
  <1>18. QED
    BY <1>2, <1>3, <1>4, <1>5, <1>6, <1>7, <1>8, <1>9, <1>10, <1>11, <1>12, <1>13, <1>14,
       <1>15, <1>16, <1>17 DEF Next, Program, AfterTransition, Command

\* Once in a fault the pilot is not switched to PWM by anybody but the thermal monitor:
\* not by a transition, a hard fault's loop, the self test, the interrupt or a command,
\* whatever is broken and however hot it is.
THEOREM FaultsOfferNothing == Spec => FaultOffersNothing
  <1>1. TypeOK /\ SteadyWhere /\ [Next]_vars
          => [FaultOffers' => FaultOffers \/ thermal' # thermal]_vars
    BY OffersStep
  <1>2. QED
    BY <1>1, SteadyAlways, TypeCorrect, PTL DEF Spec, FaultOffersNothing

LEMMA DisabledStep ==
  ASSUME SteadyWhere, [Next]_vars, state = "DISABLED", state' # "DISABLED"
  PROVE  \/ Enable \/ Sleep \/ PowerUp
         \/ PpErrorEnds \/ (HardFaultEnds /\ gfiFault)
  <1>1. pc \in Polling \union {"reboot"} /\ (pc = "hf" /\ pilot # "N12" => gfiFault)
    BY DEF SteadyWhere
  <1>2. CASE PostFails \/ PostPasses
    BY <1>1, <1>2 DEF PostFails, PostPasses, Polling
  <1>3. CASE PassDisabled \/ PassSleeping \/ PassBegins
    BY <1>3 DEF PassDisabled, PassSleeping, PassBegins, ctl
  <1>4. CASE SupplyCheck
    BY <1>1, <1>4
      DEF SupplyCheck, Supplied, CgmiGroundFault, RelayClosureFault, GroundFaultUnderLoad,
          GroundFaultUnplugged, GroundFaultRetry, GroundFaultStays, StuckReading, SupplyGood,
          Polling
  <1>5. CASE GfiCheck
    BY <1>1, <1>5
      DEF GfiCheck, TripChecked, NoTrip, TripNoticed, TripUnplugged, TripStays, TripRetried,
          TripGivenUp, Polling
  <1>6. CASE FaultChosen \/ PilotChosen
    BY <1>1, <1>6 DEF FaultChosen, PilotChosen, Polling
  <1>7. CASE Transition
    BY <1>1, <1>7
      DEF Transition, Becomes, BecomesA, BecomesB, BecomesC, BecomesFault, BecomesHardFault,
          BecomesStuckRelay, BecomesOverTemperature, OverTemperatureOpens, SelfTestNotReady,
          SelfTestStarts, SelfTestPinStays, SelfTestNoTrip, SelfTestPasses, CloseContacts,
          HoldContacts, ContactsClosed, Polling
  <1>8. CASE AfterTransition
    BY <1>1, <1>8
      DEF AfterTransition, EarlyHardFault, CurrentChecked, OverCurrent, OverCurrentOpens,
          Finish, Polling
  <1>9. CASE HardFaultEnds \/ HardFaultPolls
    BY <1>1, <1>9 DEF HardFaultEnds, HardFaultPolls
  <1>10. CASE GfiInterrupt
    BY <1>10 DEF GfiInterrupt
  <1>11. CASE Command
    BY <1>11
      DEF Command, Disable, ResetFaultCounters, Reboot, ClearBootLock, Feature, ctl
  <1>12. CASE Reset
    BY <1>12 DEF Reset
  <1>13. CASE EvChanges \/ TempRead \/ Tick \/ UNCHANGED vars
    BY <1>13 DEF EvChanges, TempRead, Tick, ctl, vars
  <1>14. CASE PpErrorEnds
    BY <1>14
  <1>15. QED
    BY <1>2, <1>3, <1>4, <1>5, <1>6, <1>7, <1>8, <1>9, <1>10, <1>11, <1>12, <1>13, <1>14
      DEF Next, Program, Boot

\* A disabled charger is left by the client's commands and by a restart only, through
\* trips, hard faults and every loop that polls for commands; but for the two ways the
\* property names: a proximity error at start-up, and a trip that takes the pilot from
\* -12 V while HardFault() spins.
THEOREM OnlyClientEnables == Spec => DisabledStays
  <1>1. SteadyWhere /\ [Next]_vars
          => [state = "DISABLED" /\ state' # "DISABLED"
                => \/ Enable \/ Sleep \/ PowerUp
                   \/ PpErrorEnds \/ (HardFaultEnds /\ gfiFault)]_vars
    BY DisabledStep
  <1>2. QED
    BY <1>1, SteadyAlways, PTL DEF Spec, DisabledStays

LEMMA DebounceStep ==
  ASSUME TypeOK, SteadyWhere, [Next]_vars, state # "STUCK_RELAY", state' = "STUCK_RELAY",
         pc = "supply"
  PROVE  /\ age["stuck"] > RelayDelay
         /\ age["off"] > RelayDelay \/ (age["off"] = Ahead /\ gfiFault)
  <1>1. SupplyCheck
    BY DEF Next, Program, Boot, GfiCheck, Transition, AfterTransition, Command, PostFails,
           PostPasses, PpErrorEnds, PassDisabled, PassSleeping, PassBegins, TripChecked, NoTrip,
           TripNoticed, TripUnplugged, TripStays, TripRetried, TripGivenUp, FaultChosen,
           PilotChosen, Becomes, BecomesA, BecomesB, BecomesC, BecomesFault, BecomesHardFault,
           BecomesStuckRelay, BecomesOverTemperature, OverTemperatureOpens, SelfTestNotReady,
           SelfTestStarts, SelfTestPinStays, SelfTestNoTrip, SelfTestPasses, CloseContacts,
           HoldContacts, ContactsClosed, EarlyHardFault, CurrentChecked, OverCurrent,
           OverCurrentOpens, Finish, HardFaultEnds, HardFaultPolls, GfiInterrupt, Enable,
           Disable, Sleep, ResetFaultCounters, Reboot, ClearBootLock, Receives, Polling,
           Feature, Reset, PowerUp, EvChanges, TempRead, Tick, ctl, vars
  <1>2. StuckReading
    BY <1>1 DEF SupplyCheck, CgmiGroundFault, RelayClosureFault, GroundFaultUnderLoad,
                GroundFaultUnplugged, GroundFaultRetry, GroundFaultStays, SupplyGood
  <1>3. pass.prev # "STUCK_RELAY"
    BY DEF SteadyWhere
  <1> DEFINE start == IF age["stuck"] = NotSet THEN [age EXCEPT !["stuck"] = 0] ELSE age
  <1>4. Elapsed("off", RelayDelay) /\ start["stuck"] > RelayDelay
    BY <1>2, <1>3 DEF StuckReading
  <1>5. age["stuck"] # NotSet
    <2>1. [age EXCEPT !["stuck"] = 0]["stuck"] = 0 /\ RelayDelay \in Nat
      BY DelayAssumption DEF TypeOK, Ages, Timers
    <2>2. QED
      BY <1>4, <2>1
  <1>6. age["stuck"] > RelayDelay
    BY <1>4, <1>5
  <1>7. QED
    BY <1>4, <1>6 DEF Elapsed, SteadyWhere

\* A stuck relay, which only a power cycle ends, is never declared before voltage was read
\* behind the open relay for the whole debounce.  The time since the opening counts in
\* full, too, but for a trip that stamps it while a pass is under way: then the latch
\* shows it.
THEOREM StuckIsDebounced == Spec => StuckRelayDebounced
  <1>1. TypeOK /\ SteadyWhere /\ [Next]_vars
          => [state # "STUCK_RELAY" /\ state' = "STUCK_RELAY" /\ pc = "supply"
                => /\ age["stuck"] > RelayDelay
                   /\ age["off"] > RelayDelay \/ (age["off"] = Ahead /\ gfiFault)]_vars
    BY DebounceStep
  <1>2. QED
    BY <1>1, SteadyAlways, TypeCorrect, PTL DEF Spec, StuckRelayDebounced
=============================================================================
