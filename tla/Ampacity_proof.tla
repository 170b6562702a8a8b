--------------------------- MODULE Ampacity_proof ---------------------------
(***************************************************************************)
(* Ampacity: type correctness, the bounds of the capacity and the pilot     *)
(* that repeats it; the throttle; the cable.                                *)
(***************************************************************************)
EXTENDS Ampacity, TLAPS

\* What every writer preserves.
Inv == TypeOK /\ CapacityBounds /\ OfferIsCapacity

\* The hardware maximum of a stored value lies between the minimum and L2's maximum.
LEMMA LevelMaxRange ==
    ASSUME NEW l \in {1, 2}, NEW h \in {0} \union (MinCapacity .. MaxCapacityL2)
    PROVE  LevelMax(l, h) \in MinCapacity .. MaxCapacityL2
BY DEF LevelMax, HwMax, MinCapacity, MaxCapacityL1, MaxCapacityL2

\* Within() clamps.
LEMMA WithinRange ==
    ASSUME NEW a \in Int, NEW low \in Int, NEW high \in Int, low <= high
    PROVE  Within(a, low, high) \in low .. high
BY DEF Within

\* A rating read from the pin.
LEMMA FreshRange ==
    ASSUME pp \in Cables
    PROVE  /\ FreshRating \in Cables /\ FreshRating \in Nat
           /\ FreshRating \notin {PpShort, PpAbsent} => FreshRating \in MinCapacity .. MaxCapacityL2
<1>1. FreshRating \in Cables
  BY CableAssumption DEF FreshRating
<1>2. \A c \in Cables : c = PpShort \/ c = PpAbsent \/ c \in MinCapacity .. MaxCapacityL2
  BY CableAssumption
<1>3. PpShort \in Nat /\ PpAbsent \in Nat /\ MinCapacity .. MaxCapacityL2 \subseteq Nat
  BY DEF PpShort, PpAbsent, MinCapacity, MaxCapacityL2
<1> QED
  BY <1>1, <1>2, <1>3

\* GetMaxCurrentCapacity() lies within the bounds of the level it is asked for.
LEMMA MaxCapacityRange ==
    ASSUME TypeOK,
           NEW l \in {1, 2}, NEW h \in {0} \union (MinCapacity .. MaxCapacityL2),
           NEW s, NEW read \in Cables
    PROVE  MaxCapacity(l, h, s, read) \in MinCapacity .. LevelMax(l, h)
<1>1. LevelMax(l, h) \in MinCapacity .. MaxCapacityL2
  BY LevelMaxRange
<1>2. caps[l] \in Int /\ DefaultCapacity[l] \in Int /\ read \in Int
  BY CableAssumption DEF TypeOK, DefaultCapacity, PpShort, PpAbsent, MinCapacity, MaxCapacityL2
<1> DEFINE saved == IF caps[l] = 0 THEN DefaultCapacity[l] ELSE caps[l]
           cable == IF PpEnabled /\ s \in Connected /\ read < saved THEN read ELSE saved
<1>3. saved \in Int /\ cable \in Int
  BY <1>2
<1>4. MinCapacity \in Int /\ LevelMax(l, h) \in Int /\ MinCapacity <= LevelMax(l, h)
  BY <1>1 DEF MinCapacity, MaxCapacityL2
<1>5. MaxCapacity(l, h, s, read) = Within(cable, MinCapacity, LevelMax(l, h))
  BY DEF MaxCapacity
<1> HIDE DEF cable
<1> QED
  BY <1>3, <1>4, <1>5, WithinRange

\* A fresh reading lowers the limit, not below the minimum.
LEMMA CeilingRange ==
    ASSUME TypeOK,
           NEW l \in {1, 2}, NEW h \in {0} \union (MinCapacity .. MaxCapacityL2),
           NEW s, NEW read \in Cables
    PROVE  Ceiling(l, h, s, read) \in MinCapacity .. LevelMax(l, h)
<1>1. MaxCapacity(l, h, s, read) \in MinCapacity .. LevelMax(l, h)
  BY MaxCapacityRange
<1>2. FreshRating \in Nat
      /\ (FreshRating \notin {PpShort, PpAbsent} => FreshRating \in MinCapacity .. MaxCapacityL2)
  BY FreshRange DEF TypeOK
<1>3. LevelMax(l, h) \in MinCapacity .. MaxCapacityL2
  BY LevelMaxRange
<1> QED
  BY <1>1, <1>2, <1>3 DEF Ceiling, MinCapacity, MaxCapacityL2

\* SetCurrentCapacity() leaves a capacity within the bounds, an EEPROM within its range
\* and a pilot that is off or shows the capacity.
LEMMA SetCurrentCapacityRange ==
    ASSUME TypeOK,
           level' \in {1, 2}, hw' \in {0} \union (MinCapacity .. MaxCapacityL2),
           NEW amps \in Int, NEW save \in BOOLEAN, NEW read \in Cables, NEW pwm \in BOOLEAN,
           SetCurrentCapacity(amps, save, read, pwm)
    PROVE  /\ capacity' \in MinCapacity .. LevelMax(level', hw')
           /\ capacity' \in MinCapacity .. MaxCapacityL2
           /\ caps' \in [{1, 2} -> {0} \union (MinCapacity .. MaxCapacityL2)]
           /\ ppRead' \in Cables
           /\ offer' \in {0, capacity'}
<1> DEFINE limit == IF save THEN LevelMax(level', hw') ELSE Ceiling(level', hw', st', read)
<1>1. LevelMax(level', hw') \in MinCapacity .. MaxCapacityL2
  BY LevelMaxRange
<1>2. limit \in MinCapacity .. LevelMax(level', hw')
  <2>1. Ceiling(level', hw', st', read) \in MinCapacity .. LevelMax(level', hw')
    BY CeilingRange
  <2> QED
    BY <1>1, <2>1 DEF MinCapacity, MaxCapacityL2
<1>3. capacity' = Within(amps, MinCapacity, limit)
  BY DEF SetCurrentCapacity
<1>4. MinCapacity \in Int /\ limit \in Int /\ MinCapacity <= limit
  BY <1>1, <1>2 DEF MinCapacity, MaxCapacityL2
<1> HIDE DEF limit
<1>5. capacity' \in MinCapacity .. limit
  BY <1>3, <1>4, WithinRange
<1>6. /\ capacity' \in MinCapacity .. LevelMax(level', hw')
      /\ capacity' \in MinCapacity .. MaxCapacityL2
  BY <1>1, <1>2, <1>5 DEF MinCapacity, MaxCapacityL2
<1>7. caps' \in [{1, 2} -> {0} \union (MinCapacity .. MaxCapacityL2)]
  BY <1>6 DEF SetCurrentCapacity, TypeOK
<1>8. ppRead' \in Cables
  BY DEF SetCurrentCapacity, TypeOK
<1>9. offer' \in {0, capacity'}
  BY DEF SetCurrentCapacity
<1> QED
  BY <1>6, <1>7, <1>8, <1>9
-----------------------------------------------------------------------------
\* The part of the type that SetCurrentCapacity() does not write.
OthersOK ==
    /\ level \in {1, 2} /\ hw \in {0} \union (MinCapacity .. MaxCapacityL2)
    /\ st \in Connected \union {"A", "other", "off"} /\ pp \in Cables
    /\ throttled \in BOOLEAN /\ shutdown \in BOOLEAN /\ temp \in Temps
    /\ interval \in Intervals \union {0} /\ fallback \in Fallbacks \union {0}
    /\ trig \in {NeverMissed, MissedAcked, MissedNoAck} /\ since \in 0 .. MaxSince
    /\ pc \in {"idle", "hs", "release", "throttle", "hf", "pperror"}

\* The part it writes.
RatedOK ==
    /\ caps \in [{1, 2} -> {0} \union (MinCapacity .. MaxCapacityL2)]
    /\ capacity \in MinCapacity .. MaxCapacityL2 /\ ppRead \in Cables
    /\ CapacityBounds /\ OfferIsCapacity

LEMMA InvParts == Inv <=> OthersOK /\ RatedOK
BY DEF Inv, TypeOK, OthersOK, RatedOK, OfferIsCapacity

LEMMA InvPartsNext == OthersOK' /\ RatedOK' => Inv'
BY DEF Inv, TypeOK, OthersOK, RatedOK, OfferIsCapacity

\* The two ways a step treats what SetCurrentCapacity() writes.
LEMMA SetKeepsRated ==
    ASSUME Inv, OthersOK',
           NEW amps \in Int, NEW save \in BOOLEAN, NEW read \in Cables, NEW pwm \in BOOLEAN,
           SetCurrentCapacity(amps, save, read, pwm)
    PROVE  RatedOK'
<1>1. TypeOK /\ level' \in {1, 2} /\ hw' \in {0} \union (MinCapacity .. MaxCapacityL2)
  BY DEF Inv, OthersOK
<1> QED
  BY <1>1, SetCurrentCapacityRange DEF RatedOK, CapacityBounds, OfferIsCapacity

LEMMA StayKeepsRated ==
    ASSUME Inv, level' = level, hw' = hw, caps' = caps, capacity' = capacity,
           ppRead' \in Cables, offer' \in {0, capacity}
    PROVE  RatedOK'
BY DEF Inv, TypeOK, RatedOK, CapacityBounds, OfferIsCapacity

LEMMA MaxNowInt == ASSUME Inv PROVE MaxNow \in Int
<1>1. MaxNow \in MinCapacity .. LevelMax(level, hw) /\ LevelMax(level, hw) \in MinCapacity .. MaxCapacityL2
  BY MaxCapacityRange, LevelMaxRange DEF Inv, TypeOK, MaxNow
<1> QED
  BY <1>1 DEF MinCapacity, MaxCapacityL2

\* Power-up.
LEMMA BootRange ==
    ASSUME TypeOK
    PROVE  /\ BootCapacity(level, hw) \in MinCapacity .. LevelMax(level, hw)
           /\ BootCapacity(level, hw) \in MinCapacity .. MaxCapacityL2
           /\ FreshRating \in Cables
<1>1. MaxCapacity(level, hw, "other", PpAbsent) \in MinCapacity .. LevelMax(level, hw)
  BY MaxCapacityRange, CableAssumption DEF TypeOK
<1>2. LevelMax(level, hw) \in MinCapacity .. MaxCapacityL2
  BY LevelMaxRange DEF TypeOK
<1>3. /\ FreshRating \in Cables /\ FreshRating \in Nat
      /\ FreshRating \notin {PpShort, PpAbsent} => FreshRating \in MinCapacity .. MaxCapacityL2
  BY FreshRange DEF TypeOK
<1> QED
  BY <1>1, <1>2, <1>3 DEF BootCapacity, MinCapacity, MaxCapacityL2, PpAbsent
-----------------------------------------------------------------------------
\* Every step preserves the invariant: the initial state and one step per action.
LEMMA Consts ==
    /\ MaxSince \in Nat /\ 0 \in 0 .. MaxSince /\ Nominal \in Temps
    /\ (\A f \in Fallbacks \union {0} : f \in Int)
    /\ \A a \in Requests \union HwLimits : a \in Int
<1>1. MaxSince \in Nat
  BY ClockAssumption
<1>2. Nominal \in Temps /\ \A f \in Fallbacks \union {0} : f \in Int
  BY RangeAssumption
<1>3. \A a \in Requests \union HwLimits : a \in Int
  BY RangeAssumption
<1> QED
  BY <1>1, <1>2, <1>3

LEMMA InvInit == Init => Inv
<1> SUFFICES ASSUME Init PROVE Inv
  OBVIOUS
<1>1. level \in {1, 2} /\ hw \in {0} \union (MinCapacity .. MaxCapacityL2) /\ pp \in Cables
  BY DEF Init
<1>2. MaxCapacity(2, 0, "other", PpAbsent) \in {12, 24}
  BY DEF Init, MaxCapacity, DefaultCapacity, Within, LevelMax, HwMax, Connected,
         MinCapacity, MaxCapacityL2, MaxCapacityL1
<1>3. /\ FreshRating \in Cables /\ FreshRating \in Nat
      /\ FreshRating \notin {PpShort, PpAbsent} => FreshRating \in MinCapacity .. MaxCapacityL2
  BY <1>1, FreshRange
<1>4. capacity \in MinCapacity .. 24
  BY <1>2, <1>3 DEF Init, BootCapacity, MinCapacity, MaxCapacityL2, PpAbsent
<1>5. RatedOK
  BY <1>3, <1>4 DEF Init, RatedOK, CapacityBounds, OfferIsCapacity, LevelMax, HwMax,
         MinCapacity, MaxCapacityL2
<1>6. OthersOK
  BY <1>1, Consts
     DEF Init, OthersOK, BootLoop, NeverMissed, Connected
<1> QED
  BY <1>5, <1>6, InvParts

LEMMA InvStep == ASSUME Inv, [Next]_vars PROVE Inv'
<1> USE DEF eeprom, thermal, heartbeat, rated, vars
<1>a. OthersOK /\ RatedOK /\ TypeOK /\ MaxNow \in Int
  BY InvParts, MaxNowInt DEF Inv
<1>b. ppRead \in Cables /\ pp \in Cables /\ Advertising \in BOOLEAN /\ offer \in {0, capacity}
  BY <1>a DEF TypeOK, Advertising, RatedOK, OfferIsCapacity
<1>c. \A c \in Cables : c \in Int
  BY CableAssumption DEF PpShort, PpAbsent, MinCapacity, MaxCapacityL2
<1>d. /\ MaxSince \in Nat /\ 0 \in 0 .. MaxSince
      /\ (\A f \in Fallbacks \union {0} : f \in Int)
      /\ \A a \in Requests \union HwLimits : a \in Int
  BY Consts
<1>1. CASE NoTransition
  <2>1. OthersOK'
    BY <1>1, <1>a, <1>b, <1>d
       DEF NoTransition, OthersOK, Transited, Passing, Served, Connected
  <2>2. RatedOK'
    BY <1>1, <1>b, StayKeepsRated DEF NoTransition, Transited, Served
  <2> QED
    BY <2>1, <2>2, InvPartsNext
<1>2. CASE LeaveVehicle
  <2>1. OthersOK'
    BY <1>2, <1>a, <1>b, <1>d
       DEF LeaveVehicle, OthersOK, Transited, Passing, Served, Connected
  <2>2. RatedOK'
    BY <1>2, <1>b, StayKeepsRated DEF LeaveVehicle, Transited, Served
  <2> QED
    BY <2>1, <2>2, InvPartsNext
<1>3. CASE CableRefused
  <2>1. OthersOK'
    BY <1>3, <1>a, <1>b, <1>d
       DEF CableRefused, OthersOK, Transited, Passing, Served, Connected
  <2>2. RatedOK'
    BY <1>3, <1>b, StayKeepsRated DEF CableRefused, Transited, Served
  <2> QED
    BY <2>1, <2>2, InvPartsNext
<1>4. CASE HardFault
  <2>1. OthersOK'
    BY <1>4, <1>a, <1>b, <1>d
       DEF HardFault, OthersOK, Transited, Passing, Served, Connected
  <2>2. RatedOK'
    BY <1>4, <1>b, StayKeepsRated DEF HardFault, Transited, Served
  <2> QED
    BY <2>1, <2>2, InvPartsNext
<1>5. CASE FaultInC
  <2>1. OthersOK'
    BY <1>5, <1>a, <1>b, <1>d
       DEF FaultInC, OthersOK, Transited, Passing, Served, Connected
  <2>2. RatedOK'
    BY <1>5, <1>b, StayKeepsRated DEF FaultInC, Transited, Served
  <2> QED
    BY <2>1, <2>2, InvPartsNext
<1>6. CASE ShortGone
  <2>1. OthersOK'
    BY <1>6, <1>a, <1>b, <1>d
       DEF ShortGone, OthersOK, Transited, Passing, Served, Connected
  <2>2. RatedOK'
    BY <1>6, <1>b, StayKeepsRated DEF ShortGone, Transited, Served
  <2> QED
    BY <2>1, <2>2, InvPartsNext
<1>7. CASE HardFaultEnds
  <2>1. OthersOK'
    BY <1>7, <1>a, <1>b, <1>d
       DEF HardFaultEnds, OthersOK, Transited, Passing, Served, Connected
  <2>2. RatedOK'
    BY <1>7, <1>b, StayKeepsRated DEF HardFaultEnds, Transited, Served
  <2> QED
    BY <2>1, <2>2, InvPartsNext
<1>8. CASE HsPulse
  <2>1. OthersOK'
    BY <1>8, <1>a, <1>b, <1>d
       DEF HsPulse, OthersOK, Transited, Passing, Served, Connected
  <2>2. RatedOK'
    BY <1>8, <1>b, StayKeepsRated DEF HsPulse, Transited, Served
  <2> QED
    BY <2>1, <2>2, InvPartsNext
<1>9. CASE SwitchOff
  <2>1. OthersOK'
    BY <1>9, <1>a, <1>b, <1>d
       DEF SwitchOff, OthersOK, Transited, Passing, Served, Connected
  <2>2. RatedOK'
    BY <1>9, <1>b, StayKeepsRated DEF SwitchOff, Transited, Served
  <2> QED
    BY <2>1, <2>2, InvPartsNext
<1>10. CASE Enable
  <2>1. OthersOK'
    BY <1>10, <1>a, <1>b, <1>d
       DEF Enable, OthersOK, Transited, Passing, Served, Connected
  <2>2. RatedOK'
    BY <1>10, <1>b, StayKeepsRated DEF Enable, Transited, Served
  <2> QED
    BY <2>1, <2>2, InvPartsNext
<1>11. CASE GfiInterrupt
  <2>1. OthersOK'
    BY <1>11, <1>a, <1>b, <1>d
       DEF GfiInterrupt, OthersOK, Transited, Passing, Served, Connected
  <2>2. RatedOK'
    BY <1>11, <1>b, StayKeepsRated DEF GfiInterrupt, Transited, Served
  <2> QED
    BY <2>1, <2>2, InvPartsNext
<1>12. CASE ChangeCable
  <2>1. OthersOK'
    BY <1>12, <1>a, <1>b, <1>d
       DEF ChangeCable, OthersOK, Transited, Passing, Served, Connected
  <2>2. RatedOK'
    BY <1>12, <1>b, StayKeepsRated DEF ChangeCable, Transited, Served
  <2> QED
    BY <2>1, <2>2, InvPartsNext
<1>13. CASE ChangeTemperature
  <2>1. OthersOK'
    BY <1>13, <1>a, <1>b, <1>d
       DEF ChangeTemperature, OthersOK, Transited, Passing, Served, Connected
  <2>2. RatedOK'
    BY <1>13, <1>b, StayKeepsRated DEF ChangeTemperature, Transited, Served
  <2> QED
    BY <2>1, <2>2, InvPartsNext
<1>14. CASE Tick
  <2>1. OthersOK'
    BY <1>14, <1>a, <1>b, <1>d
       DEF Tick, OthersOK, Transited, Passing, Served, Connected
  <2>2. RatedOK'
    BY <1>14, <1>b, StayKeepsRated DEF Tick, Transited, Served
  <2> QED
    BY <2>1, <2>2, InvPartsNext
<1>15. CASE CableSeen
  <2>1. OthersOK'
    BY <1>15, <1>a DEF CableSeen, OthersOK, Transited, Passing, Connected
  <2>2. CASE PpEnabled /\ capacity > pp
    <3>1. SetCurrentCapacity(pp, FALSE, pp, TRUE)
      BY <1>15, <2>2 DEF CableSeen
    <3> QED
      BY <2>1, <3>1, <1>b, <1>c, SetKeepsRated, InvPartsNext
  <2>3. CASE ~(PpEnabled /\ capacity > pp)
    <3>1. RatedOK'
      BY <1>15, <2>3, <1>b, StayKeepsRated DEF CableSeen, Transited
    <3> QED
      BY <2>1, <3>1, InvPartsNext
  <2> QED
    BY <2>2, <2>3
<1>16. CASE HsExpirationCheck
  <2>1. OthersOK'
    BY <1>16, <1>a, <1>d DEF HsExpirationCheck, OthersOK, MissedNoAck
  <2>2. CASE Expired /\ fallback < capacity
    <3>1. SetCurrentCapacity(fallback, FALSE, ppRead, Advertising) /\ fallback \in Int
      BY <1>16, <2>2, <1>a, <1>d DEF HsExpirationCheck, OthersOK
    <3> QED
      BY <2>1, <3>1, <1>b, SetKeepsRated, InvPartsNext
  <2>3. CASE ~(Expired /\ fallback < capacity)
    <3>1. RatedOK'
      BY <1>16, <2>3, <1>b, StayKeepsRated DEF HsExpirationCheck
    <3> QED
      BY <2>1, <3>1, InvPartsNext
  <2> QED
    BY <2>2, <2>3
<1>17. CASE Release
  <2>1. OthersOK'
    BY <1>17, <1>a DEF Release, OthersOK, Retune
  <2>2. UNCHANGED rated \/ (\E amps \in Int : Retune(amps))
    BY <1>17, <1>a DEF Release
  <2>3. CASE UNCHANGED rated
    <3>1. RatedOK'
      BY <1>17, <2>3, <1>b, StayKeepsRated DEF Release
    <3> QED
      BY <2>1, <3>1, InvPartsNext
  <2>4. CASE \E amps \in Int : Retune(amps)
    <3>1. PICK amps \in Int : SetCurrentCapacity(amps, FALSE, ppRead, TRUE)
      BY <2>4 DEF Retune
    <3> QED
      BY <2>1, <3>1, <1>b, SetKeepsRated, InvPartsNext
  <2> QED
    BY <2>2, <2>3, <2>4
<1>18. CASE Throttle
  <2>1. OthersOK'
    BY <1>18, <1>a DEF Throttle, OthersOK, Retune
  <2>2. UNCHANGED rated \/ (\E amps \in Int : Retune(amps))
    BY <1>18, <1>a DEF Throttle
  <2>3. CASE UNCHANGED rated
    <3>1. RatedOK'
      BY <1>18, <2>3, <1>b, StayKeepsRated DEF Throttle
    <3> QED
      BY <2>1, <3>1, InvPartsNext
  <2>4. CASE \E amps \in Int : Retune(amps)
    <3>1. PICK amps \in Int : SetCurrentCapacity(amps, FALSE, ppRead, TRUE)
      BY <2>4 DEF Retune
    <3> QED
      BY <2>1, <3>1, <1>b, SetKeepsRated, InvPartsNext
  <2> QED
    BY <2>2, <2>3, <2>4
<1>19. ASSUME NEW amps \in Requests, NEW volatile \in BOOLEAN, SetCapacity(amps, volatile)
      PROVE  Inv'
  <2>1. OthersOK'
    BY <1>19, <1>a DEF SetCapacity, SilentSet, Served, OthersOK
  <2>2. SetCurrentCapacity(amps, ~volatile, ppRead, Advertising) /\ amps \in Int
    BY <1>19, <1>d DEF SetCapacity
  <2> QED
    BY <2>1, <2>2, <1>b, SetKeepsRated, InvPartsNext
<1>20. ASSUME NEW amps \in HwLimits, SetMaxHwCurrentCapacity(amps) PROVE Inv'
  <2>1. OthersOK'
    BY <1>20, <1>a DEF SetMaxHwCurrentCapacity, SilentSet, Served, OthersOK
  <2>2. CASE capacity > amps
    <3>1. SetCurrentCapacity(amps, FALSE, ppRead, Advertising) /\ amps \in Int
      BY <1>20, <2>2, <1>d DEF SetMaxHwCurrentCapacity
    <3> QED
      BY <2>1, <3>1, <1>b, SetKeepsRated, InvPartsNext
  <2>3. CASE ~(capacity > amps)
    <3>1. capacity \in MinCapacity .. LevelMax(level', hw')
      BY <1>20, <2>3, <1>a
         DEF SetMaxHwCurrentCapacity, LevelMax, HwMax, MinCapacity, MaxCapacityL1,
             MaxCapacityL2, RatedOK, CapacityBounds
    <3>2. RatedOK'
      BY <1>20, <2>3, <3>1, <1>a DEF SetMaxHwCurrentCapacity, RatedOK, CapacityBounds, OfferIsCapacity
    <3> QED
      BY <2>1, <3>2, InvPartsNext
  <2> QED
    BY <2>2, <2>3
<1>21. ASSUME NEW l \in Levels, SetSvcLevel(l) PROVE Inv'
  <2>1. OthersOK'
    BY <1>21, <1>a, RangeAssumption DEF SetSvcLevel, SilentSet, Served, OthersOK
  <2>2. MaxCapacity(l, hw, st, ppRead) \in Int
    <3>1. /\ MaxCapacity(l, hw, st, ppRead) \in MinCapacity .. LevelMax(l, hw)
          /\ LevelMax(l, hw) \in MinCapacity .. MaxCapacityL2
      BY <1>a, <1>b, RangeAssumption, MaxCapacityRange, LevelMaxRange DEF OthersOK
    <3> QED
      BY <3>1 DEF MinCapacity, MaxCapacityL2
  <2>3. SetCurrentCapacity(MaxCapacity(l, hw, st, ppRead), FALSE, ppRead, Advertising)
    BY <1>21 DEF SetSvcLevel
  <2> QED
    BY <2>1, <2>2, <2>3, <1>b, SetKeepsRated, InvPartsNext
<1>22. ASSUME HsRestoreAmpacity, OthersOK', level' = level, hw' = hw PROVE RatedOK'
  <2>1. CASE trig # NeverMissed /\ ~throttled
    BY <1>22, <2>1, <1>a, <1>b, SetKeepsRated DEF HsRestoreAmpacity
  <2>2. CASE ~(trig # NeverMissed /\ ~throttled)
    BY <1>22, <2>2, <1>b, StayKeepsRated DEF HsRestoreAmpacity
  <2> QED
    BY <2>1, <2>2
<1>23. ASSUME NEW i \in Intervals, NEW amps \in Fallbacks, HeartbeatSupervision(i, amps)
      PROVE  Inv'
  <2>1. OthersOK' /\ level' = level /\ hw' = hw
    BY <1>23, <1>a, <1>d DEF HeartbeatSupervision, Served, OthersOK
  <2>2. CASE i = 0
    BY <1>23, <2>1, <2>2, <1>22, InvPartsNext DEF HeartbeatSupervision
  <2>3. CASE i # 0
    <3>1. RatedOK'
      BY <1>23, <2>1, <2>3, <1>b, StayKeepsRated DEF HeartbeatSupervision
    <3> QED
      BY <2>1, <3>1, InvPartsNext
  <2> QED
    BY <2>2, <2>3
<1>24. CASE HsAckMissedPulse
  <2>1. OthersOK' /\ level' = level /\ hw' = hw
    BY <1>24, <1>a DEF HsAckMissedPulse, Served, OthersOK
  <2> QED
    BY <1>24, <2>1, <1>22, InvPartsNext DEF HsAckMissedPulse
<1>25. CASE PowerCycle
  <2>1. OthersOK'
    BY <1>25, <1>a, <1>d DEF PowerCycle, OthersOK, BootLoop, Connected, NeverMissed
  <2>2. /\ capacity' \in MinCapacity .. LevelMax(level', hw')
        /\ capacity' \in MinCapacity .. MaxCapacityL2 /\ ppRead' \in Cables
    BY <1>25, <1>a, BootRange DEF PowerCycle
  <2>3. RatedOK'
    BY <1>25, <2>2, <1>a DEF PowerCycle, RatedOK, CapacityBounds, OfferIsCapacity
  <2> QED
    BY <2>1, <2>3, InvPartsNext
<1>26. CASE UNCHANGED vars
  <2>1. OthersOK' /\ RatedOK'
    BY <1>26, <1>a DEF OthersOK, RatedOK, CapacityBounds, OfferIsCapacity
  <2> QED
    BY <2>1, InvPartsNext
<1> QED
  BY <1>1, <1>2, <1>3, <1>4, <1>5, <1>6, <1>7, <1>8, <1>9, <1>10, <1>11, <1>12, <1>13,
     <1>14, <1>15, <1>16, <1>17, <1>18, <1>19, <1>20, <1>21, <1>23, <1>24, <1>25, <1>26
     DEF Next, Pass, Command, Environment

\* The invariant of the module: the types, the bounds of J1772, the level and the hardware
\* on the capacity, and a pilot that advertises nothing else.
THEOREM InvHolds == Spec => []Inv
BY InvInit, InvStep, PTL DEF Spec

THEOREM AmpacityType == Spec => []TypeOK
<1>1. Inv => TypeOK
  BY DEF Inv
<1> QED
  BY InvHolds, <1>1, PTL

\* Whoever writes it last, the capacity is one the service level and the hardware allow.
THEOREM CapacityInBounds == Spec => []CapacityBounds
<1>1. Inv => CapacityBounds
  BY DEF Inv
<1> QED
  BY InvHolds, <1>1, PTL

\* The duty cycle never advertises a stale capacity.
THEOREM PilotTellsCapacity == Spec => []OfferIsCapacity
<1>1. Inv => OfferIsCapacity
  BY DEF Inv
<1> QED
  BY InvHolds, <1>1, PTL
-----------------------------------------------------------------------------
\* No setting goes above what was asked for.
LEMMA SetAtMost ==
    ASSUME Inv, OthersOK',
           NEW amps \in Int, NEW save \in BOOLEAN, NEW read \in Cables, NEW pwm \in BOOLEAN,
           SetCurrentCapacity(amps, save, read, pwm)
    PROVE  capacity' <= Within(amps, MinCapacity, MaxCapacityL2)
<1> DEFINE limit == IF save THEN LevelMax(level', hw') ELSE Ceiling(level', hw', st', read)
<1>1. TypeOK /\ level' \in {1, 2} /\ hw' \in {0} \union (MinCapacity .. MaxCapacityL2)
  BY DEF Inv, OthersOK
<1>2. /\ LevelMax(level', hw') \in MinCapacity .. MaxCapacityL2
      /\ Ceiling(level', hw', st', read) \in MinCapacity .. LevelMax(level', hw')
  BY <1>1, LevelMaxRange, CeilingRange
<1>3. limit \in MinCapacity .. MaxCapacityL2
  BY <1>2 DEF MinCapacity, MaxCapacityL2
<1>4. capacity' = Within(amps, MinCapacity, limit)
  BY DEF SetCurrentCapacity
<1> HIDE DEF limit
<1> QED
  BY <1>3, <1>4 DEF Within, MinCapacity, MaxCapacityL2

LEMMA ThrottleStep ==
    ASSUME Inv, [Next]_vars, throttled, throttled', capacity' > capacity
    PROVE  capacity' <= Half \/ (\E l \in Levels : SetSvcLevel(l))
<1> USE DEF eeprom, thermal, rated, vars
<1>1. capacity \in MinCapacity .. MaxCapacityL2 /\ capacity' \in Int /\ capacity' # capacity
  <2>1. Inv'
    BY InvStep
  <2> QED
    BY <2>1 DEF Inv, TypeOK, MinCapacity, MaxCapacityL2
<1>2. OthersOK' /\ ppRead \in Cables /\ pp \in Cables /\ Advertising \in BOOLEAN /\ MaxNow \in Int
  <2>1. Inv'
    BY InvStep
  <2> QED
    BY <2>1, MaxNowInt DEF Inv, TypeOK, OthersOK, Advertising
<1>3. /\ \A c \in Cables : c \in Int
      /\ \A f \in Fallbacks \union {0} : f \in Int
      /\ \A a \in Requests \union HwLimits : a \in Int
  BY Consts, CableAssumption DEF PpShort, PpAbsent, MinCapacity, MaxCapacityL2
<1>4. \A a \in Int : a <= capacity => Within(a, MinCapacity, MaxCapacityL2) <= capacity
  BY <1>1 DEF Within, MinCapacity, MaxCapacityL2
<1>5. /\ Within(MaxNow \div 2, MinCapacity, MaxCapacityL2) = Half
      /\ Within(MaxNow \div 4, MinCapacity, MaxCapacityL2) <= Half
      /\ MaxNow \div 2 \in Int /\ MaxNow \div 4 \in Int
  <2>1. MaxNow \in Nat
    <3>1. /\ MaxNow \in MinCapacity .. LevelMax(level, hw)
          /\ LevelMax(level, hw) \in MinCapacity .. MaxCapacityL2
      BY MaxCapacityRange, LevelMaxRange DEF Inv, TypeOK, MaxNow
    <3> QED
      BY <3>1 DEF MinCapacity, MaxCapacityL2
  <2>2. MaxNow \div 4 <= MaxNow \div 2 /\ MaxNow \div 4 \in Int /\ MaxNow \div 2 \in Int
    BY <2>1
  <2> QED
    BY <2>2 DEF Half, Within, MinCapacity, MaxCapacityL2
<1>6. ASSUME NEW amps \in Int, NEW save \in BOOLEAN, NEW pwm \in BOOLEAN, NEW read \in Cables,
             amps <= capacity, SetCurrentCapacity(amps, save, read, pwm)
      PROVE  FALSE
  <2>1. capacity' <= Within(amps, MinCapacity, MaxCapacityL2)
    BY <1>2, <1>6, SetAtMost
  <2>2. Within(amps, MinCapacity, MaxCapacityL2) <= capacity
    BY <1>4, <1>6
  <2>3. Within(amps, MinCapacity, MaxCapacityL2) \in Int
    BY DEF Within, MinCapacity, MaxCapacityL2
  <2> QED
    BY <1>1, <2>1, <2>2, <2>3 DEF MinCapacity, MaxCapacityL2
<1>7. CASE CableSeen
  <2>1. capacity > pp /\ SetCurrentCapacity(pp, FALSE, pp, TRUE)
    BY <1>1, <1>7 DEF CableSeen
  <2>2. pp \in Int /\ pp <= capacity
    BY <1>1, <1>2, <1>3, <2>1 DEF MinCapacity, MaxCapacityL2
  <2> QED
    BY <1>2, <1>6, <2>1, <2>2
<1>8. CASE HsExpirationCheck
  <2>1. fallback < capacity /\ SetCurrentCapacity(fallback, FALSE, ppRead, Advertising)
    BY <1>1, <1>8 DEF HsExpirationCheck
  <2>2. fallback \in Int /\ fallback <= capacity
    BY <1>1, <1>3, <2>1 DEF Inv, TypeOK, MinCapacity, MaxCapacityL2
  <2> QED
    BY <1>2, <1>6, <2>1, <2>2
<1>9. CASE Release
  <2>1. SetCurrentCapacity(MaxNow \div 2, FALSE, ppRead, TRUE)
    BY <1>1, <1>9 DEF Release, Retune
  <2> QED
    BY <1>2, <1>5, <2>1, SetAtMost
<1>10. CASE Throttle
  <2>1. SetCurrentCapacity(MaxNow \div 4, FALSE, ppRead, TRUE)
    BY <1>1, <1>10 DEF Throttle, Retune
  <2>2. capacity' <= Within(MaxNow \div 4, MinCapacity, MaxCapacityL2)
    BY <1>2, <1>5, <2>1, SetAtMost
  <2>3. Within(MaxNow \div 4, MinCapacity, MaxCapacityL2) \in Int /\ Half \in Int
    BY <1>5 DEF Half, Within, MinCapacity, MaxCapacityL2
  <2> QED
    BY <1>1, <1>5, <2>2, <2>3
<1>11. ASSUME NEW amps \in Requests, NEW volatile \in BOOLEAN, SetCapacity(amps, volatile)
       PROVE  FALSE
  <2>1. amps \in Int /\ ~(amps > capacity) /\ SetCurrentCapacity(amps, ~volatile, ppRead, Advertising)
    BY <1>3, <1>11 DEF SetCapacity
  <2>2. amps <= capacity
    BY <1>1, <2>1 DEF MinCapacity, MaxCapacityL2
  <2> QED
    BY <1>2, <1>6, <2>1, <2>2
<1>12. ASSUME NEW amps \in HwLimits, SetMaxHwCurrentCapacity(amps) PROVE FALSE
  <2>1. /\ amps \in Int /\ capacity > amps
        /\ SetCurrentCapacity(amps, FALSE, ppRead, Advertising)
    BY <1>1, <1>3, <1>12 DEF SetMaxHwCurrentCapacity
  <2>2. amps <= capacity
    BY <1>1, <2>1 DEF MinCapacity, MaxCapacityL2
  <2> QED
    BY <1>2, <1>6, <2>1, <2>2
<1>13. CASE HsAckMissedPulse
  BY <1>1, <1>13 DEF HsAckMissedPulse, HsRestoreAmpacity
<1>14. CASE \E i \in Intervals, amps \in Fallbacks : HeartbeatSupervision(i, amps)
  BY <1>1, <1>14 DEF HeartbeatSupervision, HsRestoreAmpacity
<1>15. CASE PowerCycle
  BY <1>15 DEF PowerCycle
<1>16. CASE \/ NoTransition \/ LeaveVehicle \/ CableRefused \/ HardFault \/ FaultInC
            \/ ShortGone \/ HardFaultEnds
  BY <1>1, <1>16
     DEF NoTransition, LeaveVehicle, CableRefused, HardFault, FaultInC, ShortGone, HardFaultEnds
<1>17. CASE \/ HsPulse \/ SwitchOff \/ Enable \/ GfiInterrupt \/ ChangeCable
            \/ ChangeTemperature \/ Tick \/ UNCHANGED vars
  BY <1>1, <1>17
     DEF HsPulse, SwitchOff, Enable, GfiInterrupt, ChangeCable, ChangeTemperature, Tick
<1> QED
  BY <1>7, <1>8, <1>9, <1>10, <1>11, <1>12, <1>13, <1>14, <1>15, <1>16, <1>17
     DEF Next, Pass, Command, Environment

\* While the charger stays throttled nothing but a thermal step, and to no more than half the
\* maximum, or a change of the service level raises the capacity.
THEOREM ThrottleIsHeld == Spec => ThrottleHolds
<1>1. ASSUME Inv, [Next]_vars
      PROVE  [throttled /\ throttled' /\ capacity' > capacity
                => capacity' <= Half \/ (\E l \in Levels : SetSvcLevel(l))]_vars
  BY <1>1, ThrottleStep
<1> QED
  BY <1>1, InvHolds, PTL DEF Spec, ThrottleHolds
-----------------------------------------------------------------------------
\* What SetCurrentCapacity() leaves is within the cable's rating or was saved.
LEMMA SetRespects ==
    ASSUME Inv, OthersOK', pp' = pp,
           NEW amps \in Int, NEW save \in BOOLEAN, NEW read \in Cables, NEW pwm \in BOOLEAN,
           SetCurrentCapacity(amps, save, read, pwm)
    PROVE  CableRespected'
<1> DEFINE ceiling == Ceiling(level', hw', st', read)
<1>1. TypeOK /\ level' \in {1, 2} /\ hw' \in {0} \union (MinCapacity .. MaxCapacityL2)
  BY DEF Inv, OthersOK
<1>2. CASE save
  BY <1>1, <1>2 DEF SetCurrentCapacity, CableRespected, TypeOK
<1>3. CASE ~save
  <2>1. SUFFICES ASSUME PpEnabled, st' \in Connected, pp' \notin {PpShort, PpAbsent}
                 PROVE  capacity' <= pp'
    BY DEF CableRespected
  <2>2. FreshRating = pp /\ pp \in MinCapacity .. MaxCapacityL2
    BY <1>1, <2>1, CableAssumption DEF FreshRating, TypeOK
  <2>3. ceiling \in Int /\ MinCapacity <= ceiling
    <3>1. /\ ceiling \in MinCapacity .. LevelMax(level', hw')
          /\ LevelMax(level', hw') \in MinCapacity .. MaxCapacityL2
      BY <1>1, CeilingRange, LevelMaxRange
    <3> QED
      BY <3>1 DEF MinCapacity, MaxCapacityL2
  <2>4. ceiling <= pp
    <3>1. /\ MaxCapacity(level', hw', st', read) \in MinCapacity .. LevelMax(level', hw')
          /\ LevelMax(level', hw') \in MinCapacity .. MaxCapacityL2
      BY <1>1, MaxCapacityRange, LevelMaxRange
    <3> QED
      BY <2>1, <2>2, <3>1 DEF Ceiling, MinCapacity, MaxCapacityL2
  <2>5. capacity' = Within(amps, MinCapacity, ceiling)
    BY <1>3 DEF SetCurrentCapacity
  <2> HIDE DEF ceiling
  <2> QED
    BY <2>1, <2>2, <2>3, <2>4, <2>5 DEF Within, MinCapacity, MaxCapacityL2
<1> QED
  BY <1>2, <1>3

\* A step that leaves the capacity alone, connects nobody and at most pulls the cable.
LEMMA StayRespects ==
    ASSUME CableRespected, level' = level, caps' = caps, capacity' = capacity,
           st' \in Connected => st \in Connected, pp' = pp \/ pp' = PpAbsent
    PROVE  CableRespected'
BY DEF CableRespected

LEMMA CableStep ==
    ASSUME Inv, CableRespected, [Next]_vars
    PROVE  CableRespected'
<1> USE DEF eeprom, thermal, heartbeat, rated, vars
<1>1. OthersOK' /\ ppRead \in Cables /\ pp \in Cables /\ Advertising \in BOOLEAN /\ MaxNow \in Int
  <2>1. Inv'
    BY InvStep
  <2> QED
    BY <2>1, MaxNowInt DEF Inv, TypeOK, OthersOK, Advertising
<1>2. /\ \A c \in Cables : c \in Int
      /\ \A f \in Fallbacks \union {0} : f \in Int
      /\ \A a \in Requests \union HwLimits : a \in Int
  BY Consts, CableAssumption DEF PpShort, PpAbsent, MinCapacity, MaxCapacityL2
<1>3. CASE CableSeen
  <2>1. CASE PpEnabled /\ capacity > pp
    <3>1. SetCurrentCapacity(pp, FALSE, pp, TRUE) /\ pp' = pp
      BY <1>3, <2>1 DEF CableSeen, Transited
    <3> QED
      BY <1>1, <1>2, <3>1, SetRespects
  <2>2. CASE ~(PpEnabled /\ capacity > pp)
    <3>1. capacity \in Int /\ pp \in Int
      BY <1>1, <1>2 DEF Inv, TypeOK, MinCapacity, MaxCapacityL2
    <3>2. capacity' = capacity /\ pp' = pp
      BY <1>3, <2>2 DEF CableSeen, Transited
    <3> QED
      BY <2>2, <3>1, <3>2 DEF CableRespected
  <2> QED
    BY <2>1, <2>2
<1>4. CASE HsExpirationCheck
  <2>1. CASE Expired /\ fallback < capacity
    <3>1. SetCurrentCapacity(fallback, FALSE, ppRead, Advertising) /\ fallback \in Int /\ pp' = pp
      BY <1>4, <2>1, <1>2 DEF HsExpirationCheck, Inv, TypeOK
    <3> QED
      BY <1>1, <3>1, SetRespects
  <2>2. CASE ~(Expired /\ fallback < capacity)
    BY <1>4, <2>2, StayRespects DEF HsExpirationCheck
  <2> QED
    BY <2>1, <2>2
<1>5. CASE Release \/ Throttle
  <2>1. UNCHANGED <<level, st, pp>>
    BY <1>5 DEF Release, Throttle
  <2>2. UNCHANGED rated \/ (\E amps \in Int : Retune(amps))
    BY <1>1, <1>5 DEF Release, Throttle
  <2>3. CASE UNCHANGED rated
    BY <2>1, <2>3, StayRespects
  <2>4. CASE \E amps \in Int : Retune(amps)
    <3>1. PICK amps \in Int : SetCurrentCapacity(amps, FALSE, ppRead, TRUE)
      BY <2>4 DEF Retune
    <3> QED
      BY <1>1, <2>1, <3>1, SetRespects
  <2> QED
    BY <2>2, <2>3, <2>4
<1>6. ASSUME NEW amps \in Requests, NEW volatile \in BOOLEAN, SetCapacity(amps, volatile)
      PROVE  CableRespected'
  <2>1. SetCurrentCapacity(amps, ~volatile, ppRead, Advertising) /\ amps \in Int /\ pp' = pp
    BY <1>2, <1>6 DEF SetCapacity, SilentSet, Served
  <2> QED
    BY <1>1, <2>1, SetRespects
<1>7. ASSUME NEW amps \in HwLimits, SetMaxHwCurrentCapacity(amps) PROVE CableRespected'
  <2>1. amps \in Int /\ UNCHANGED <<level, st, pp>>
    BY <1>2, <1>7 DEF SetMaxHwCurrentCapacity, SilentSet, Served
  <2>2. \/ SetCurrentCapacity(amps, FALSE, ppRead, Advertising)
        \/ UNCHANGED rated
    BY <1>7 DEF SetMaxHwCurrentCapacity
  <2> QED
    BY <1>1, <2>1, <2>2, SetRespects, StayRespects
<1>8. ASSUME NEW l \in Levels, SetSvcLevel(l) PROVE CableRespected'
  <2>1. MaxCapacity(l, hw, st, ppRead) \in Int
    <3>1. /\ MaxCapacity(l, hw, st, ppRead) \in MinCapacity .. LevelMax(l, hw)
          /\ LevelMax(l, hw) \in MinCapacity .. MaxCapacityL2
      BY <1>1, RangeAssumption, MaxCapacityRange, LevelMaxRange DEF Inv, TypeOK
    <3> QED
      BY <3>1 DEF MinCapacity, MaxCapacityL2
  <2>2. /\ SetCurrentCapacity(MaxCapacity(l, hw, st, ppRead), FALSE, ppRead, Advertising)
        /\ pp' = pp
    BY <1>8 DEF SetSvcLevel, SilentSet, Served
  <2> QED
    BY <1>1, <2>1, <2>2, SetRespects
<1>9. ASSUME HsRestoreAmpacity, UNCHANGED <<level, st, pp>> PROVE CableRespected'
  <2>1. SetCurrentCapacity(MaxNow, FALSE, ppRead, Advertising) \/ UNCHANGED rated
    BY <1>9 DEF HsRestoreAmpacity
  <2> QED
    BY <1>1, <1>9, <2>1, SetRespects, StayRespects
<1>10. ASSUME NEW i \in Intervals, NEW amps \in Fallbacks, HeartbeatSupervision(i, amps)
       PROVE  CableRespected'
  <2>1. UNCHANGED <<level, st, pp>> /\ (HsRestoreAmpacity \/ UNCHANGED rated)
    BY <1>10 DEF HeartbeatSupervision, Served
  <2> QED
    BY <1>9, <2>1, StayRespects
<1>11. CASE HsAckMissedPulse
  BY <1>9, <1>11 DEF HsAckMissedPulse, Served
<1>12. CASE \/ LeaveVehicle \/ CableRefused \/ HardFault \/ FaultInC \/ ShortGone
            \/ HardFaultEnds \/ SwitchOff \/ Enable \/ PowerCycle
  <2>1. st' \notin Connected
    BY <1>12
       DEF LeaveVehicle, CableRefused, HardFault, FaultInC, ShortGone, HardFaultEnds,
           SwitchOff, Enable, PowerCycle, Connected
  <2> QED
    BY <2>1 DEF CableRespected
<1>13. CASE NoTransition \/ HsPulse \/ GfiInterrupt \/ ChangeTemperature \/ Tick \/ UNCHANGED vars
  BY <1>13, StayRespects
     DEF NoTransition, Transited, HsPulse, Served, GfiInterrupt, ChangeTemperature, Tick
<1>14. CASE ChangeCable
  BY <1>14, StayRespects DEF ChangeCable, CableRespected
<1> QED
  BY <1>3, <1>4, <1>5, <1>6, <1>7, <1>8, <1>10, <1>11, <1>12, <1>13, <1>14
     DEF Next, Pass, Command, Environment

\* A vehicle connected through a cable the pin has a rating for is offered more than that
\* rating only where the client saved the higher limit, whatever the heartbeat, the throttle
\* and its release, the service level and the hardware maximum do to the capacity.
THEOREM CableIsRespected == Spec => []CableRespected
<1>1. Init => CableRespected
  BY DEF Init, CableRespected, Connected
<1>2. Inv /\ CableRespected /\ [Next]_vars => CableRespected'
  BY CableStep
<1> QED
  BY <1>1, <1>2, InvHolds, PTL DEF Spec
=============================================================================
