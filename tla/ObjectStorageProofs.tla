-------------------------- MODULE ObjectStorageProofs --------------------------
(***************************************************************************)
(* TLAPS proofs about ObjectStorage, for every set of names and messages.  *)
(* TypeOK is inductive; CarsAreComplete needs TypeOK to know what a stored *)
(* builder looks like; ReplyShowsStoredObject follows from both.           *)
(***************************************************************************)
EXTENDS ObjectStorage, StorageActionsProofs

\* The inductive invariant.
IInv == TypeOK /\ CarsAreComplete /\ ReplyShowsStoredObject

\* Every step is one call of new_action with a typed request.
LEMMA StepIsHandle ==
    ASSUME Next
    PROVE  \E r \in Requests : Handle(r)
  <1>1. CASE Shake
    BY <1>1, RequestTypesOK DEF Shake
  <1>2. CASE Unusable
    BY <1>2, RequestTypesOK DEF Unusable, RequestTypes
  <1>3. CASE UpdateBuilder
    BY <1>3, RequestTypesOK, MessagesAssumption DEF UpdateBuilder
  <1>4. CASE Build
    BY <1>4, RequestTypesOK DEF Build
  <1>5. CASE UpdateCalculator
    <2>1. PICK n \in Names \cup {NoName}, m \in CalculatorMessages,
               c \in Names \cup {NoName} :
             Handle(CalculatorRequest(n, [m EXCEPT !.car = c]))
      BY <1>5 DEF UpdateCalculator
    <2>2. [m EXCEPT !.car = c]
             \in Message_Car_Calculator(Names \cup {NoName})
      BY MessagesAssumption DEF Message_Car_Calculator
    <2> QED
      BY <2>1, <2>2, RequestTypesOK
  <1>6. CASE CalcInsurance
    BY <1>6, RequestTypesOK DEF CalcInsurance, RequestTypes
  <1>7. CASE CalcLeasing
    BY <1>7, RequestTypesOK DEF CalcLeasing, RequestTypes
  <1> QED
    BY <1>1, <1>2, <1>3, <1>4, <1>5, <1>6, <1>7 DEF Next

\* What every step does to the invariant.
LEMMA NextKeepsIInv == ASSUME IInv, [Next]_vars PROVE IInv'
  <1>1. CASE Next
    <2>1. PICK r \in Requests : Handle(r)
      BY <1>1, StepIsHandle
    <2>2. IsStore(store) /\ IsCompleteStore(store)
      BY DEF IInv, TypeOK, CarsAreComplete
    <2>3. /\ GoodResult(NewAction(store, r))
          /\ IsReply(NewAction(store, r).reply)
      BY <2>1, <2>2, NewActionResult
    <2>4. /\ request' = r /\ store' = NewAction(store, r).store
          /\ reply' = NewAction(store, r).reply
      BY <2>1 DEF Handle
    <2> QED
      BY <2>1, <2>3, <2>4
         DEF GoodResult, IInv, TypeOK, CarsAreComplete, ReplyShowsStoredObject
  <1>2. CASE UNCHANGED vars
    BY <1>2 DEF vars, IInv, TypeOK, CarsAreComplete, ReplyShowsStoredObject
  <1> QED
    BY <1>1, <1>2

LEMMA InitIInv == Init => IInv
  <1> SUFFICES ASSUME Init PROVE IInv
    OBVIOUS
  <1>1. IsStore(store) /\ IsCompleteStore(store)
    BY EmptyStoreType DEF Init
  <1>2. request \in Requests
    BY RequestTypesOK DEF Init
  <1>3. IsReply(reply)
    BY ReplyConstructors, NoName \in Names \cup {NoName} DEF Init
  <1>4. ShowsObject(reply, store)
    BY DEF Init, OkReply, Reply, ShowsObject
  <1> QED
    BY <1>1, <1>2, <1>3, <1>4
       DEF IInv, TypeOK, CarsAreComplete, ReplyShowsStoredObject

-----------------------------------------------------------------------------
\* The invariant holds in every reachable state of a storage.
THEOREM Invariance == Spec => []IInv
  BY InitIInv, NextKeepsIInv, PTL DEF Spec

\* The three maps, the request and the reply keep their types.
THEOREM TypeCorrect == Spec => []TypeOK
  BY Invariance, PTL DEF IInv

\* A storage never holds a car without ps or purchase value, and a calculator
\* never computes from one, whatever requests arrive.
THEOREM OnlyCompleteCars == Spec => []CarsAreComplete
  BY Invariance, PTL DEF IInv

\* The object in a reply decodes to the object that the storage holds.
THEOREM RepliesShowStoredObjects == Spec => []ReplyShowsStoredObject
  BY Invariance, PTL DEF IInv

\* A calculator's car is a copy, replaced only by naming an existing car.
THEOREM CalculatorsOwnTheirCar == Spec => CalculatorCarIsACopy
  <1>1. ASSUME IInv, [Next]_vars,
               NEW n \in DOMAIN store.car_calculators,
               store'.car_calculators[n].car # store.car_calculators[n].car
        PROVE  /\ request'.type = "CALCULATOR" /\ request'.name = n
               /\ request'.calculator.car \in DOMAIN store.cars
               /\ store'.car_calculators[n].car
                     = store.cars[request'.calculator.car]
    <2>1. Next
      BY <1>1 DEF vars
    <2>2. PICK r \in Requests : Handle(r)
      BY <2>1, StepIsHandle
    <2>3. IsStore(store) /\ IsCompleteStore(store)
      BY <1>1 DEF IInv, TypeOK, CarsAreComplete
    <2>4. request' = r /\ store' = NewAction(store, r).store
      BY <2>2 DEF Handle
    <2> QED
      BY <1>1, <2>2, <2>3, <2>4, NewActionCalculatorCar
  <1> DEFINE Copy ==
        \A n \in DOMAIN store.car_calculators :
          LET old == store.car_calculators[n].car
              new == store'.car_calculators[n].car
          IN  new # old =>
                /\ request'.type = "CALCULATOR" /\ request'.name = n
                /\ request'.calculator.car \in DOMAIN store.cars
                /\ new = store.cars[request'.calculator.car]
  <1>2. ASSUME IInv, [Next]_vars PROVE Copy
    BY <1>1, <1>2
  <1> HIDE DEF Copy
  <1>3. IInv /\ [Next]_vars => [Copy]_vars
    BY <1>2
  <1>4. [][Copy]_vars => CalculatorCarIsACopy
    BY PTL DEF CalculatorCarIsACopy, Copy
  <1> QED
    BY Invariance, <1>3, <1>4, PTL DEF Spec

\* A request that fails leaves every car, every builder and the car of every
\* calculator as it was: only scalar fields of a calculator may have changed.
THEOREM FailedRequestsKeepObjects == Spec => ErrorsKeepObjects
  <1> DEFINE Kept ==
        reply'.type = "ERROR" =>
          /\ store'.cars = store.cars
          /\ store'.car_builders = store.car_builders
          /\ \A n \in DOMAIN store.car_calculators :
                store'.car_calculators[n].car = store.car_calculators[n].car
  <1>1. ASSUME IInv, Next PROVE Kept
    <2>1. PICK r \in Requests : Handle(r)
      BY <1>1, StepIsHandle
    <2>2. /\ store' = NewAction(store, r).store
          /\ reply' = NewAction(store, r).reply
      BY <2>1 DEF Handle
    <2>3. IsStore(store)
      BY <1>1 DEF IInv, TypeOK
    <2> QED
      BY <2>2, <2>3, NewActionError DEF SameStoredCars
  <1> HIDE DEF Kept
  <1>2. IInv /\ [Next]_vars => [Kept]_vars
    BY <1>1
  <1>3. [][Kept]_vars => ErrorsKeepObjects
    BY PTL DEF ErrorsKeepObjects, Kept
  <1> QED
    BY Invariance, <1>2, <1>3, PTL DEF Spec
=============================================================================
