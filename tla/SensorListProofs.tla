-------------------------- MODULE SensorListProofs --------------------------
(***************************************************************************)
(* TLAPS proofs about SensorList, for any width of a handle, any number of *)
(* sub-HALs and any lists of sensors.                                      *)
(***************************************************************************)
EXTENDS SensorList, SequenceTheorems, TLAPS

(* A number of 32 bits in its bytes: the handle below, the index above.    *)
LEMMA Arithmetic ==
  ASSUME NEW K \in Nat \ {0}, NEW S \in Nat \ {0}, NEW h \in 0..(K - 1), NEW i \in Int
  PROVE  /\ h + i * K \in Int
         /\ (h + i * K) \div K = i
         /\ (h + i * K) % K = h
         /\ i < S => h + i * K < S * K
         /\ S <= i => S * K <= h + i * K
         /\ i < 0 => h + i * K < 0
         /\ 0 <= i => 0 <= h + i * K
         /\ i < 2 * S => h + i * K < 2 * S * K
<1>1. h + i * K \in Int
  BY Z3
<1>2. (h + i * K) \div K = i
  BY Z3
<1>3. (h + i * K) % K = h
  BY Z3
<1>4. (i < S => h + i * K < S * K) /\ (S <= i => S * K <= h + i * K)
  BY Z3
<1>5. (i < 0 => h + i * K < 0) /\ (0 <= i => 0 <= h + i * K)
  BY Z3
<1>6. i < 2 * S => h + i * K < 2 * S * K
  BY Z3
<1>7. QED
  BY <1>1, <1>2, <1>3, <1>4, <1>5, <1>6

LEMMA Modulus ==
  ASSUME NEW n \in Int, NEW m \in Nat \ {0}
  PROVE  /\ n % m \in 0..(m - 1)
         /\ n \div m \in Int
         /\ n % m = n - m * (n \div m)
  BY Z3

LEMMA Regroup ==
  ASSUME NEW K \in Nat \ {0}, NEW S \in Nat \ {0}, NEW h \in Int, NEW i \in Int, NEW q \in Int
  PROVE  /\ (h + i * K) - (2 * S * K) * q = h + (i - 2 * S * q) * K
         /\ i - 2 * S * q \in Int
         /\ i - 2 * S * q - 2 * S = i - 2 * S * (q + 1)
         /\ q + 1 \in Int
         /\ S * K \in Nat \ {0} /\ 2 * S * K \in Nat \ {0}
         /\ S * K + S * K = 2 * S * K
  BY Z3

(* ToInt32 changes the index by a multiple of the values of a byte only,   *)
(* and stays within 32 bits.                                               *)
LEMMA ToInt32OfHandle ==
  ASSUME NEW h \in 0..(HandlesPerSubHal - 1), NEW i \in Nat
  PROVE  /\ ToInt32(h + i * HandlesPerSubHal) \in Handle32
         /\ \E q \in Int :
              /\ ToInt32(h + i * HandlesPerSubHal)
                   = h + (i - 2 * SignIndex * q) * HandlesPerSubHal
              /\ -SignIndex <= i - 2 * SignIndex * q
              /\ i - 2 * SignIndex * q < SignIndex
<1> DEFINE K == HandlesPerSubHal
           S == SignIndex
           n == h + i * K
           M == 2 * S * K
           bits == n % M
<1>1. K \in Nat \ {0} /\ S \in Nat \ {0} /\ h \in 0..(K - 1) /\ h \in Int /\ i \in Int
  BY ConstantsAssumption
<1>2. n \in Int /\ M \in Nat \ {0} /\ S * K \in Nat \ {0} /\ S * K + S * K = M
  <2>1. S * K \in Nat \ {0} /\ M \in Nat \ {0} /\ S * K + S * K = M
    BY <1>1, Regroup
  <2>2. n \in Int
    BY <1>1, Arithmetic
  <2>3. QED
    BY <2>1, <2>2
<1> HIDE DEF K, S, M
<1>3. PICK q \in Int : bits = n - M * q /\ bits \in 0..(M - 1)
  BY <1>2, Modulus
<1>4. bits = h + (i - 2 * S * q) * K /\ i - 2 * S * q \in Int
  BY <1>1, <1>3, Regroup DEF M
<1>5. ToInt32(n) = IF bits < S * K THEN bits ELSE bits - M
  BY DEF ToInt32, K, S, M
<1>6. ToInt32(n) \in (-(S * K))..(S * K - 1)
  <2> HIDE DEF bits
  <2> QED
    BY <1>2, <1>3, <1>5
<1>7. ToInt32(n) \in Handle32
  BY <1>6 DEF Handle32, K, S
<1>8. CASE bits < S * K
  <2> DEFINE j == i - 2 * S * q
  <2>1. j \in Int /\ ToInt32(n) = h + j * K /\ 0 <= h + j * K /\ h + j * K < S * K
    BY <1>3, <1>4, <1>5, <1>8
  <2> HIDE DEF j
  <2>2. ~(j < 0) /\ ~(S <= j)
    <3>1. (j < 0 => h + j * K < 0) /\ (S <= j => S * K <= h + j * K)
      BY <1>1, <2>1, Arithmetic
    <3>2. h + j * K \in Int /\ S * K \in Int
      BY <1>1, <1>2, <2>1, Arithmetic
    <3>3. QED
      BY <2>1, <3>1, <3>2
  <2>3. -S <= j /\ j < S
    BY <2>1, <2>2, <1>1
  <2>4. QED
    BY <2>1, <2>3, <1>7 DEF j, K, S
<1>9. CASE ~(bits < S * K)
  <2>1. PICK j : j = i - 2 * S * q
    OBVIOUS
  <2>2. PICK k : k = i - 2 * S * (q + 1)
    OBVIOUS
  <2>3. PICK b : b = bits
    OBVIOUS
  <2>4. j \in Int /\ k \in Int /\ k = j - 2 * S /\ q + 1 \in Int
    <3>1. j - 2 * S = k /\ q + 1 \in Int /\ j \in Int
      <4>1. /\ i - 2 * S * q - 2 * S = i - 2 * S * (q + 1)
            /\ q + 1 \in Int /\ i - 2 * S * q \in Int
        BY <1>1, Regroup
      <4>2. QED
        BY <2>1, <2>2, <4>1
    <3>2. QED
      BY <1>1, <3>1
  <2>5. /\ b = h + j * K /\ b \in Int
        /\ ToInt32(n) = b - M
        /\ S * K <= b /\ b < M
    <3>1. b = h + j * K
      BY <1>4, <2>1, <2>3, Zenon
    <3>2. ToInt32(n) = b - M
      BY <1>5, <1>9, <2>3, Zenon
    <3>3. b \in 0..(M - 1) /\ ~(b < S * K)
      BY <1>3, <1>9, <2>3, Zenon
    <3>4. b \in Int /\ S * K <= b /\ b < M
      BY <3>3, <1>2
    <3>5. QED
      BY <3>1, <3>2, <3>4
  <2>6. b - M = h + k * K
    <3>1. (h + j * K) - (2 * S * K) * 1 = h + (j - 2 * S * 1) * K
      BY <1>1, <2>4, Regroup
    <3>2. j - 2 * S * 1 = k
      BY <1>1, <2>4
    <3>3. b - M * 1 = h + k * K
      <4>1. (h + j * K) - M * 1 = h + (j - 2 * S * 1) * K
        BY <3>1 DEF M
      <4>2. b - M * 1 = h + (j - 2 * S * 1) * K
        BY <2>5, <4>1
      <4>3. QED
        BY <3>2, <4>2
    <3>4. b - M * 1 = b - M
      BY <1>2, <2>5
    <3>5. QED
      BY <3>3, <3>4
  <2>7. ~(j < S)
    <3>1. j < S => b < S * K
      BY <1>1, <2>4, <2>5, Arithmetic, Zenon
    <3>2. QED
      BY <1>2, <2>5, <3>1
  <2>8. ~(2 * S <= j)
    <3>1. 2 * S \in Nat \ {0}
      BY <1>1
    <3>2. 2 * S <= j => (2 * S) * K <= h + j * K
      BY <1>1, <2>4, <3>1, Arithmetic, Zenon
    <3>3. 2 * S <= j => M <= b
      BY <2>5, <3>2, Zenon DEF M
    <3>4. QED
      BY <1>2, <2>5, <3>3
  <2>9. -S <= k /\ k < S
    BY <1>1, <2>4, <2>7, <2>8
  <2>10. ToInt32(n) = h + k * K
    BY <2>5, <2>6, Zenon
  <2>11. QED
    BY <1>7, <2>2, <2>4, <2>9, <2>10, Zenon DEF K, S
<1>10. QED
  BY <1>8, <1>9

-----------------------------------------------------------------------------
(* The functions on handles invert each other, for any index.              *)
LEMMA ClearOfSet ==
  ASSUME NEW h \in 0..(HandlesPerSubHal - 1), NEW i \in Nat
  PROVE  ClearSubHalIndex(SetSubHalIndex(h, i)) = h
<1>1. PICK q \in Int :
        SetSubHalIndex(h, i) = h + (i - 2 * SignIndex * q) * HandlesPerSubHal
  BY ToInt32OfHandle DEF SetSubHalIndex
<1>2. i - 2 * SignIndex * q \in Int
  BY ConstantsAssumption, Regroup
<1>3. HandlesPerSubHal \in Nat \ {0} /\ SignIndex \in Nat \ {0}
  BY ConstantsAssumption
<1>4. (h + (i - 2 * SignIndex * q) * HandlesPerSubHal) % HandlesPerSubHal = h
  BY <1>2, <1>3, Arithmetic
<1>5. QED
  BY <1>1, <1>4, Zenon DEF ClearSubHalIndex

(* What the sign-extending shift gets back: the index, less a multiple of  *)
(* the values of a byte.                                                   *)
LEMMA ExtractOfSet ==
  ASSUME NEW h \in 0..(HandlesPerSubHal - 1), NEW i \in 0..(2 * SignIndex - 1)
  PROVE  ExtractSubHalIndex(SetSubHalIndex(h, i))
           = IF i < SignIndex THEN i ELSE i - 2 * SignIndex
<1>1. i \in Nat /\ SignIndex \in Nat \ {0} /\ HandlesPerSubHal \in Nat \ {0}
  BY ConstantsAssumption
<1>2. PICK q \in Int :
        /\ SetSubHalIndex(h, i) = h + (i - 2 * SignIndex * q) * HandlesPerSubHal
        /\ -SignIndex <= i - 2 * SignIndex * q
        /\ i - 2 * SignIndex * q < SignIndex
  BY <1>1, ToInt32OfHandle DEF SetSubHalIndex
<1>3. i - 2 * SignIndex * q \in Int
  BY <1>1, Regroup
<1>4. ExtractSubHalIndex(SetSubHalIndex(h, i)) = i - 2 * SignIndex * q
  BY <1>1, <1>2, <1>3, Arithmetic DEF ExtractSubHalIndex
<1>5. i - 2 * SignIndex * q = IF i < SignIndex THEN i ELSE i - 2 * SignIndex
  BY <1>1, <1>2, Z3
<1>6. QED
  BY <1>4, <1>5

(* Two sensors of different sub-HALs never get the same handle.            *)
LEMMA SetInjective ==
  ASSUME NEW h1 \in 0..(HandlesPerSubHal - 1), NEW h2 \in 0..(HandlesPerSubHal - 1),
         NEW i1 \in 0..(2 * SignIndex - 1), NEW i2 \in 0..(2 * SignIndex - 1),
         SetSubHalIndex(h1, i1) = SetSubHalIndex(h2, i2)
  PROVE  i1 = i2
<1>1. (IF i1 < SignIndex THEN i1 ELSE i1 - 2 * SignIndex)
        = (IF i2 < SignIndex THEN i2 ELSE i2 - 2 * SignIndex)
  BY ExtractOfSet
<1>2. QED
  BY <1>1, ConstantsAssumption, Z3

(* Only an index that sets the sign bit gives the handle of all sensors.   *)
LEMMA AllSensorsHasSign ==
  ASSUME NEW h \in 0..(HandlesPerSubHal - 1), NEW i \in Nat,
         SetSubHalIndex(h, i) = AllSensors
  PROVE  i >= SignIndex
<1>1. i \in Int /\ SignIndex \in Nat \ {0} /\ HandlesPerSubHal \in Nat \ {0}
  BY ConstantsAssumption
<1>2. SUFFICES ASSUME i < SignIndex PROVE FALSE
  BY <1>1
<1>3. h + i * HandlesPerSubHal \in 0..(SignIndex * HandlesPerSubHal - 1)
  <2>1. PICK n : n = h + i * HandlesPerSubHal
    OBVIOUS
  <2>2. PICK top : top = SignIndex * HandlesPerSubHal
    OBVIOUS
  <2>3. n \in Int /\ 0 <= n /\ n < top
    BY <1>1, <1>2, <2>1, <2>2, Arithmetic
  <2>4. top \in Int
    BY <1>1, <2>2
  <2>5. n \in 0..(top - 1)
    BY <2>3, <2>4
  <2>6. QED
    BY <2>1, <2>2, <2>5
<1>4. PICK q \in Int :
        /\ AllSensors = h + (i - 2 * SignIndex * q) * HandlesPerSubHal
        /\ -SignIndex <= i - 2 * SignIndex * q
        /\ i - 2 * SignIndex * q < SignIndex
  BY ToInt32OfHandle DEF SetSubHalIndex
<1>5. i - 2 * SignIndex * q = i
  BY <1>1, <1>2, <1>4, Z3
<1>6. QED
  BY <1>3, <1>4, <1>5 DEF AllSensors

-----------------------------------------------------------------------------
(* What is known of an entry of the list.                                  *)
EntryOk(e) ==
  /\ e \in Entry
  /\ e.handle \in 0..(HandlesPerSubHal - 1)
  /\ e.subHal < Len(mSubHalList)
  /\ e.key = SetSubHalIndex(e.handle, e.subHal)
  /\ e.direct => mDirectChannelSubHal = e.subHal

IInv ==
  /\ TypeOK
  /\ phase = "loading" => mSensors = {} /\ subHalIndex = 0
  /\ \A e \in mSensors : EntryOk(e)

LEMMA InitIInv == Init => IInv
<1> SUFFICES ASSUME Init PROVE IInv
  OBVIOUS
<1>1. mSubHalList \in Seq(SensorLists) /\ Len(mSubHalList) = 0
  BY EmptySeq DEF Init
<1>2. QED
  BY <1>1 DEF Init, IInv, TypeOK

LEMMA LoadIInv == ASSUME IInv, NEW list \in SensorLists, LoadSubHal(list) PROVE IInv'
<1>1. /\ mSubHalList' \in Seq(SensorLists)
      /\ subHalIndex' = 0 /\ mSensors' = {}
      /\ phase' = phase /\ position' = position
      /\ mDirectChannelSubHal' = mDirectChannelSubHal
  BY AppendProperties DEF IInv, TypeOK, LoadSubHal
<1>2. 0 \in 0..Len(mSubHalList')
  BY <1>1, LenProperties
<1>3. TypeOK'
  BY <1>1, <1>2 DEF IInv, TypeOK
<1>4. QED
  BY <1>1, <1>3 DEF IInv

(* The sensor at the cursor.                                               *)
LEMMA CursorFacts ==
  ASSUME IInv, subHalIndex < Len(mSubHalList)
  PROVE  /\ Len(mSubHalList) \in Nat /\ subHalIndex \in Nat
         /\ List \in Seq(Sensor)
         /\ position < Len(List) => NextSensor \in Sensor
<1>1. Len(mSubHalList) \in Nat /\ subHalIndex \in Nat /\ position \in Nat
  BY LenProperties DEF IInv, TypeOK
<1>2. subHalIndex + 1 \in 1..Len(mSubHalList)
  BY <1>1
<1>3. List \in SensorLists
  BY <1>2, ElementOfSeq DEF IInv, TypeOK, List
<1>4. List \in Seq(Sensor)
  BY <1>3, ConstantsAssumption
<1>5. position < Len(List) => position + 1 \in 1..Len(List)
  BY <1>1, <1>4, LenProperties
<1>6. position < Len(List) => NextSensor \in Sensor
  BY <1>4, <1>5, ElementOfSeq DEF NextSensor
<1>7. QED
  BY <1>1, <1>4, <1>6

(* The entry made of it.                                                   *)
LEMMA ListedEntryFacts ==
  ASSUME IInv, subHalIndex < Len(mSubHalList), NEW s \in Sensor,
         SubHalIndexIsClear(s.handle)
  PROVE  /\ ListedEntry(s) \in Entry
         /\ ListedEntry(s).handle \in 0..(HandlesPerSubHal - 1)
         /\ ListedEntry(s).subHal = subHalIndex
         /\ ListedEntry(s).key = SetSubHalIndex(ListedEntry(s).handle, subHalIndex)
         /\ ListedEntry(s).direct => ChosenSubHal(s) = subHalIndex
<1>1. s.handle \in 0..(HandlesPerSubHal - 1) /\ subHalIndex \in Nat
  BY CursorFacts DEF SubHalIndexIsClear
<1>2. SetSubHalIndex(s.handle, subHalIndex) \in Handle32
  BY <1>1, ToInt32OfHandle DEF SetSubHalIndex
<1>3. s.handle \in Handle32 /\ s.direct \in BOOLEAN /\ s.tilt \in BOOLEAN
  BY DEF Sensor
<1>4. KeepsDirect(s) \in BOOLEAN
  BY DEF KeepsDirect
<1>5. KeepsDirect(s) => ChosenSubHal(s) = subHalIndex
  BY DEF KeepsDirect, ChosenSubHal
<1>6. QED
  BY <1>1, <1>2, <1>3, <1>4, <1>5 DEF ListedEntry, Entry

(* The choice of a sub-HAL for direct channels is never changed.           *)
LEMMA ChoiceStays ==
  ASSUME NEW s
  PROVE  mDirectChannelSubHal # NoSubHal => ChosenSubHal(s) = mDirectChannelSubHal
  BY DEF ChosenSubHal

LEMMA ListIInv == IInv /\ ListSensor => IInv'
<1> SUFFICES ASSUME IInv, ListSensor PROVE IInv'
  OBVIOUS
<1>1. /\ phase = "listing" /\ subHalIndex < Len(mSubHalList) /\ position < Len(List)
      /\ mSubHalList' = mSubHalList /\ phase' = phase /\ subHalIndex' = subHalIndex
      /\ position' = position + 1
  BY DEF ListSensor
<1>2. /\ NextSensor \in Sensor /\ Len(mSubHalList) \in Nat /\ subHalIndex \in Nat
      /\ position' \in Nat
  BY <1>1, CursorFacts DEF IInv, TypeOK
<1>3. CASE ~SubHalIndexIsClear(NextSensor.handle)
  <2>1. mSensors' = mSensors /\ mDirectChannelSubHal' = mDirectChannelSubHal
    BY <1>3 DEF ListSensor
  <2>2. QED
    BY <1>1, <1>2, <2>1 DEF IInv, TypeOK, EntryOk
<1>4. CASE SubHalIndexIsClear(NextSensor.handle)
  <2>1. PICK entry : entry = ListedEntry(NextSensor)
    OBVIOUS
  <2>2. /\ mSensors' = {e \in mSensors : e.key # entry.key} \cup {entry}
        /\ mDirectChannelSubHal' = ChosenSubHal(NextSensor)
    BY <1>4, <2>1 DEF ListSensor
  <2>3. /\ entry \in Entry
        /\ entry.handle \in 0..(HandlesPerSubHal - 1)
        /\ entry.subHal = subHalIndex
        /\ entry.key = SetSubHalIndex(entry.handle, subHalIndex)
        /\ entry.direct => ChosenSubHal(NextSensor) = subHalIndex
    BY <1>1, <1>2, <1>4, <2>1, ListedEntryFacts
  <2>4. mDirectChannelSubHal' \in {NoSubHal} \cup Nat
    BY <1>2, <2>2 DEF ChosenSubHal, IInv, TypeOK
  <2>5. TypeOK'
    BY <1>1, <1>2, <2>2, <2>3, <2>4 DEF IInv, TypeOK
  <2>6. EntryOk(entry)'
    BY <1>1, <2>2, <2>3 DEF EntryOk
  <2>7. ASSUME NEW e \in mSensors PROVE EntryOk(e)'
    <3>1. EntryOk(e)
      BY DEF IInv
    <3>2. e.subHal \in Nat
      BY <3>1 DEF EntryOk, Entry
    <3>3. e.direct => mDirectChannelSubHal' = e.subHal
      BY <2>2, <3>1, <3>2, ChoiceStays DEF EntryOk, NoSubHal
    <3>4. QED
      BY <1>1, <3>1, <3>3 DEF EntryOk
  <2>8. \A e \in mSensors' : EntryOk(e)'
    BY <2>2, <2>6, <2>7
  <2>9. QED
    BY <1>1, <2>5, <2>8 DEF IInv
<1>5. QED
  BY <1>3, <1>4

LEMMA NextSubHalIInv == IInv /\ NextSubHal => IInv'
<1> SUFFICES ASSUME IInv, NextSubHal PROVE IInv'
  OBVIOUS
<1>1. /\ phase = "listing" /\ phase' = phase /\ mSubHalList' = mSubHalList
      /\ mSensors' = mSensors /\ mDirectChannelSubHal' = mDirectChannelSubHal
      /\ subHalIndex' = subHalIndex + 1 /\ position' = 0
      /\ subHalIndex < Len(mSubHalList)
  BY DEF NextSubHal
<1>2. subHalIndex' \in 0..Len(mSubHalList')
  BY <1>1, CursorFacts
<1>3. QED
  BY <1>1, <1>2 DEF IInv, TypeOK, EntryOk

LEMMA OtherIInv ==
  IInv /\ (LoadingDone \/ ListingDone \/ UNCHANGED vars) => IInv'
  BY DEF IInv, TypeOK, EntryOk, LoadingDone, ListingDone, vars

(* While initializeSensorList lists, every entry of mSensors is one of its *)
(* sub-HAL, under the handle SetSubHalIndex gives, and keeps direct flags  *)
(* only if that sub-HAL is the one of the direct channels.                 *)
THEOREM Invariance == Spec => []IInv
<1>1. IInv /\ [Next]_vars => IInv'
  BY LoadIInv, ListIInv, NextSubHalIInv, OtherIInv DEF Next
<1>2. QED
  BY InitIInv, <1>1, PTL DEF Spec

(* Type correctness.                                                       *)
THEOREM TypeCorrect == Spec => []TypeOK
<1>1. IInv => TypeOK
  BY DEF IInv
<1>2. QED
  BY Invariance, <1>1, PTL

-----------------------------------------------------------------------------
(* Every call for a listed sensor reaches the sub-HAL that listed it, with *)
(* the handle that sub-HAL knows, whatever the widths and the lists.       *)
THEOREM DispatchCorrect == Spec => []DispatchedToOwner
<1>1. ASSUME IInv PROVE DispatchedToOwner
  <2> SUFFICES ASSUME NEW e \in mSensors
               PROVE  IF e.subHal < SignIndex
                      THEN Dispatch(e.key) = Forward(e.subHal, e.handle)
                      ELSE Dispatch(e.key) = BadValue \/ Len(mSubHalList) > 2 * SignIndex
    BY DEF DispatchedToOwner
  <2>1. EntryOk(e) /\ e.subHal \in Nat
    BY <1>1 DEF IInv, EntryOk, Entry
  <2>2. Len(mSubHalList) \in Nat /\ SignIndex \in Nat \ {0}
    BY <1>1, LenProperties, ConstantsAssumption DEF IInv, TypeOK
  <2>3. ClearSubHalIndex(e.key) = e.handle
    BY <2>1, ClearOfSet DEF EntryOk
  <2>4. CASE e.subHal < SignIndex
    <3>1. ExtractSubHalIndex(e.key) = e.subHal
      <4>1. e.subHal \in 0..(2 * SignIndex - 1)
        BY <2>1, <2>2, <2>4
      <4>2. QED
        BY <2>1, <2>4, <4>1, ExtractOfSet DEF EntryOk
    <3>2. IsSubHalIndexValid(e.key)
      BY <2>1, <2>2, <3>1 DEF EntryOk, IsSubHalIndexValid
    <3>3. QED
      BY <2>3, <2>4, <3>1, <3>2 DEF Dispatch
  <2>5. CASE ~(e.subHal < SignIndex) /\ ~(Len(mSubHalList) > 2 * SignIndex)
    <3>1. e.subHal \in 0..(2 * SignIndex - 1)
      BY <2>1, <2>2, <2>5 DEF EntryOk
    <3>2. ExtractSubHalIndex(e.key) = e.subHal - 2 * SignIndex
      BY <2>1, <2>5, <3>1, ExtractOfSet DEF EntryOk
    <3>3. ~IsSubHalIndexValid(e.key)
      BY <2>2, <3>1, <3>2 DEF IsSubHalIndexValid
    <3>4. QED
      BY <2>5, <3>3 DEF Dispatch
  <2>6. QED
    BY <2>4, <2>5
<1>2. QED
  BY Invariance, <1>1, PTL

(* Direct reports of every sensor that offers them go to its own sub-HAL,  *)
(* and so does a stop of all sensors, whatever the widths and the lists;   *)
(* only an index that sets the sign bit lets a sensor be listed under the  *)
(* handle that means all of them.                                          *)
THEOREM DirectReportCorrect == Spec => []DirectReportToOwner
<1>1. ASSUME IInv PROVE DirectReportToOwner
  <2> SUFFICES ASSUME NEW e \in mSensors, e.direct
               PROVE  /\ e.key # AllSensors =>
                           \A rate \in RateLevels :
                             ConfigDirectReport(e.key, rate) = Forward(e.subHal, e.handle)
                      /\ e.key = AllSensors => e.subHal >= SignIndex
                      /\ ConfigDirectReport(AllSensors, "STOP")
                           = Forward(e.subHal, AllSensors)
    BY DEF DirectReportToOwner
  <2>1. EntryOk(e) /\ e.subHal \in Nat
    BY <1>1 DEF IInv, EntryOk, Entry
  <2>2. mDirectChannelSubHal = e.subHal /\ mDirectChannelSubHal # NoSubHal
    BY <2>1 DEF EntryOk, NoSubHal
  <2>3. ASSUME e.key # AllSensors, NEW rate \in RateLevels
        PROVE  ConfigDirectReport(e.key, rate) = Forward(e.subHal, e.handle)
    <3>1. ClearSubHalIndex(e.key) = e.handle
      BY <2>1, ClearOfSet DEF EntryOk
    <3>2. QED
      BY <2>2, <2>3, <3>1, Zenon DEF ConfigDirectReport
  <2>4. e.key = AllSensors => e.subHal >= SignIndex
    BY <2>1, AllSensorsHasSign DEF EntryOk
  <2>5. ConfigDirectReport(AllSensors, "STOP") = Forward(e.subHal, AllSensors)
    BY <2>2, Zenon DEF ConfigDirectReport
  <2>6. QED
    BY <2>3, <2>4, <2>5
<1>2. QED
  BY Invariance, <1>1, PTL

(* Listing a sensor removes none of another sub-HAL, while a byte can tell *)
(* the sub-HALs apart.                                                     *)
THEOREM NoneReplacedCorrect == Spec => NoneReplaced
<1> DEFINE Keeps == Len(mSubHalList) <= 2 * SignIndex =>
                      \A e \in mSensors : e \in mSensors' \/ e.subHal = subHalIndex
<1>1. ASSUME IInv, [Next]_vars PROVE Keeps
  <2>1. CASE ListSensor
    <3> SUFFICES ASSUME NEW e \in mSensors, e \notin mSensors',
                        Len(mSubHalList) <= 2 * SignIndex
                 PROVE  e.subHal = subHalIndex
      OBVIOUS
    <3>1. /\ subHalIndex < Len(mSubHalList) /\ position < Len(List)
          /\ NextSensor \in Sensor
          /\ Len(mSubHalList) \in Nat /\ subHalIndex \in Nat
      BY <1>1, <2>1, CursorFacts DEF ListSensor
    <3>2. PICK entry : entry = ListedEntry(NextSensor)
      OBVIOUS
    <3>3. SubHalIndexIsClear(NextSensor.handle) /\ e.key = entry.key
      BY <2>1, <3>2 DEF ListSensor
    <3>4. /\ entry.handle \in 0..(HandlesPerSubHal - 1)
          /\ entry.key = SetSubHalIndex(entry.handle, subHalIndex)
      BY <1>1, <3>1, <3>2, <3>3, ListedEntryFacts
    <3>5. EntryOk(e) /\ e.subHal \in Nat
      BY <1>1 DEF IInv, EntryOk, Entry
    <3>6. e.subHal \in 0..(2 * SignIndex - 1) /\ subHalIndex \in 0..(2 * SignIndex - 1)
      BY <3>1, <3>5, ConstantsAssumption DEF EntryOk
    <3>7. QED
      BY <3>3, <3>4, <3>5, <3>6, SetInjective DEF EntryOk
  <2>2. CASE ~ListSensor
    <3>1. mSensors' = mSensors
      BY <1>1, <2>2
      DEF Next, LoadSubHal, LoadingDone, NextSubHal, ListingDone, vars
    <3>2. QED
      BY <3>1
  <2>3. QED
    BY <2>1, <2>2
<1>2. QED
  BY Invariance, <1>1, PTL DEF Spec, NoneReplaced
=============================================================================
