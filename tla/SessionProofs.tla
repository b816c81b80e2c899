----------------------------- MODULE SessionProofs -----------------------------
(***************************************************************************)
(* TLAPS proof that the server follows the log of the client (Session),    *)
(* for every set of names and inputs and every number of messages and      *)
(* drops.  IInv is inductive: Wire says how far the storage is in the log, *)
(* SnapshotsOfLog what that means, and TypeOK with StoresComplete keep the *)
(* requests and the stores in the domain of the lemmas about new_action.   *)
(***************************************************************************)
EXTENDS Session, StorageActionsProofs

-----------------------------------------------------------------------------
(* Lemmas about the mirror *)

\* The setters keep the types of the objects.
LEMMA BuilderSetters ==
    ASSUME NEW b \in Car_Builder
    PROVE  /\ \A ps \in Nat : WithPs(b, ps) \in Car_Builder
           /\ \A k \in Nat : WithDrivenKilometers(b, k) \in Car_Builder
           /\ \A v \in Double : WithPurchaseValue(b, v) \in Car_Builder
           /\ \A f \in Fuel_Type : WithFuelType(b, f) \in Car_Builder
           /\ \A t \in Car_Types : WithCarType(b, t) \in Car_Builder
           /\ \A brand \in Car_Brands : WithBrand(b, brand) \in Car_Builder
  BY NarrowingType
     DEF Car_Builder, Car, WithPs, WithDrivenKilometers, WithPurchaseValue,
         WithFuelType, WithCarType, WithBrand

LEMMA CalculatorSetters ==
    ASSUME NEW k \in Car_Calculator
    PROVE  /\ \A d \in Nat : WithLeasingDuration(k, d) \in Car_Calculator
           /\ \A i \in Nat : WithInsuranceClass(k, i) \in Car_Calculator
           /\ \A v \in Double : WithRestValue(k, v) \in Car_Calculator
           /\ \A v \in Double : WithDeposit(k, v) \in Car_Calculator
           /\ \A a \in BOOLEAN : WithAge(k, a) \in Car_Calculator
  BY NarrowingType
     DEF Car_Calculator, WithLeasingDuration, WithInsuranceClass,
         WithRestValue, WithDeposit, WithAge

\* Cars read from a message are cars.
LEMMA CarOfMessageType ==
    ASSUME NEW car \in Car, NEW m \in Message_Car
    PROVE  CarOfMessage(m) \in Car /\ CarUpdated(car, m) \in Car
  BY NarrowingType, SwitchType DEF Car, CarOfMessage, CarUpdated, Message_Car

\* parse_message keeps the mirror typed.
LEMMA MirroredType ==
    ASSUME NEW m, IsStore(m), NEW reply, IsReply(reply)
    PROVE  IsStore(Mirrored(m, reply))
  <1>1. /\ reply.text \in Names \cup {NoName}
        /\ reply.car \in Message_Car
        /\ reply.calculator \in Message_Car_Calculator(Names \cup {NoName})
    BY DEF IsReply
  <1>2. /\ IsMap(m.cars, Car) /\ IsMap(m.car_builders, Car_Builder)
        /\ IsMap(m.car_calculators, Car_Calculator)
    BY DEF IsStore
  <1>3. CASE reply.type = "BUILDER"
    <2> DEFINE b == BuilderUpdated(
                        Entry(m.car_builders, reply.text, DefaultBuilder),
                        reply.car)
               new == Put(m.car_builders, reply.text, b)
    <2>1. Entry(m.car_builders, reply.text, DefaultBuilder) \in Car
      BY <1>2, EntryType, DefaultTypes DEF Car_Builder
    <2>2. b \in Car_Builder
      BY <1>1, <2>1, UpdatedTypes DEF Car_Builder
    <2>3. Mirrored(m, reply) = WithBuilders(m, new)
      BY <1>3 DEF Mirrored
    <2> HIDE DEF b
    <2>4. IsMap(new, Car_Builder)
      BY <1>1, <1>2, <1>3, <2>2, PutType
    <2> HIDE DEF new
    <2> QED
      BY <2>3, <2>4, StoreAssigned
  <1>4. CASE reply.type = "CALCULATOR"
    <2> DEFINE old == Entry(m.car_calculators, reply.text, DefaultCalculator)
               calc == CalculatorUpdated(old, reply.calculator)
               shown == IF /\ reply.calculator.car # NoName
                           /\ reply.text \in DOMAIN m.cars
                        THEN WithCar(calc, m.cars[reply.text])
                        ELSE calc
               new == Put(m.car_calculators, reply.text, shown)
    <2>1. old \in Car_Calculator
      BY <1>2, EntryType, DefaultTypes
    <2> HIDE DEF old
    <2>2. calc \in Car_Calculator
      BY <1>1, <2>1, NoName \in Names \cup {NoName}, CalculatorTypes
    <2> HIDE DEF calc
    <2>3. shown \in Car_Calculator
      BY <1>2, <2>2 DEF WithCar, Car_Calculator, IsMap
    <2>4. Mirrored(m, reply) = WithCalculators(m, new)
      BY <1>4 DEF Mirrored, calc, old
    <2> HIDE DEF shown
    <2>5. IsMap(new, Car_Calculator)
      BY <1>1, <1>2, <1>4, <2>3, PutType
    <2> HIDE DEF new
    <2> QED
      BY <2>4, <2>5, StoreAssigned
  <1>5. CASE reply.type = "CAR"
    <2> DEFINE car == IF reply.text \in DOMAIN m.cars
                      THEN CarUpdated(m.cars[reply.text], reply.car)
                      ELSE CarOfMessage(reply.car)
               new == Put(m.cars, reply.text, car)
    <2>1. car \in Car
      BY <1>1, <1>2, CarOfMessageType, DefaultTypes DEF IsMap
    <2>2. Mirrored(m, reply) = WithCars(m, new)
      BY <1>5 DEF Mirrored
    <2> HIDE DEF car
    <2>3. IsMap(new, Car)
      BY <1>1, <1>2, <1>5, <2>1, PutType
    <2> HIDE DEF new
    <2> QED
      BY <2>2, <2>3, StoreAssigned
  <1>6. CASE reply.type \notin {"BUILDER", "CALCULATOR", "CAR"}
    BY <1>6 DEF Mirrored
  <1> QED
    BY <1>3, <1>4, <1>5, <1>6

\* What is left of a reply that was cut is a reply.
LEMMA BeginningIsReply ==
    ASSUME NEW reply, IsReply(reply), NEW part \in Beginnings(reply)
    PROVE  IsReply(part)
  <1>1. IsReply(Reply(reply.type, NoName))
    BY DefaultTypes, NoName \in Names \cup {NoName} DEF IsReply, Reply, Errors
  <1>2. ASSUME NEW car \in CutCars(reply.car),
               NEW calc \in CutCalculators(reply.calculator),
               part = CutBehindObject(reply, car, calc)
        PROVE  IsReply(part)
    <2>1. car \in Message_Car
      BY SessionAssumption DEF IsReply, CutCars, Message_Car, Double
    <2>2. calc \in Message_Car_Calculator(Names \cup {NoName})
      BY SessionAssumption
         DEF IsReply, CutCalculators, Message_Car_Calculator, Double
    <2>3. part = [type |-> reply.type, text |-> NoName, error |-> reply.error,
                  value |-> NoRate, car |-> car, calculator |-> calc]
      BY <1>2 DEF IsReply, CutBehindObject
    <2> QED
      BY <2>1, <2>2, <2>3, NoName \in Names \cup {NoName} DEF IsReply
  <1>3. ASSUME NEW text \in Unreadable \cup {reply.text},
               part = CutInText(reply, text)
        PROVE  IsReply(part)
    <2>1. text \in Names \cup {NoName}
      BY SessionAssumption DEF IsReply
    <2>2. part = [type |-> reply.type, text |-> text, error |-> reply.error,
                  value |-> NoRate, car |-> reply.car,
                  calculator |-> reply.calculator]
      BY <1>3 DEF IsReply, CutInText
    <2> QED
      BY <2>1, <2>2 DEF IsReply
  <1> QED
    BY <1>1, <1>2, <1>3 DEF Beginnings

-----------------------------------------------------------------------------
(* Initial states *)

LEMMA InitIInv == Init => IInv
  <1> SUFFICES ASSUME Init PROVE IInv
    OBVIOUS
  <1> USE DEF Init
  <1>1. messages = <<>> /\ Len(messages) = 0
    OBVIOUS
  <1>2. DOMAIN snapshots = {0} /\ snapshots[0] = EmptyStore
    OBVIOUS
  <1>3. TypeOK
    <2>1. messages \in Seq(Requests) /\ todo \in Seq(Requests)
      BY RequestTypesOK
    <2>2. IsStore(mirror) /\ IsStore(storage) /\ IsStore(snapshots[0])
      BY EmptyStoreType, <1>2
    <2>3. \A i \in 0 .. Len(messages) : i = 0
      BY <1>1
    <2> QED
      BY <1>1, <1>2, <2>1, <2>2, <2>3, SessionAssumption DEF TypeOK, PCs
  <1>4. CallInProgress
    BY DEF CallInProgress
  <1>5. SnapshotsOfLog
    BY <1>1, <1>2 DEF SnapshotsOfLog
  <1>6. StoresComplete
    <2>1. \A i \in 0 .. Len(messages) : i = 0
      BY <1>1
    <2> QED
      BY <1>2, <2>1, EmptyStoreType DEF StoresComplete
  <1>7. Wire
    BY <1>1, <1>2 DEF Wire
  <1> QED
    BY <1>3, <1>4, <1>5, <1>6, <1>7 DEF IInv
-----------------------------------------------------------------------------
(* Commands *)

\* A command of typed requests starts sending where nothing was on its way.
LEMMA CommandKeepsIInv ==
    ASSUME IInv, NEW requests \in Seq(Requests), Command(requests)
    PROVE  IInv'
  <1> USE DEF Command, AtInput
  <1>1. TypeOK'
    BY DEF IInv, TypeOK, PCs, server, net
  <1>2. CallInProgress'
    BY DEF IInv, CallInProgress
  <1>3. SnapshotsOfLog' /\ StoresComplete'
    BY DEF IInv, SnapshotsOfLog, StoresComplete, server
  <1>4. Wire'
    BY DEF IInv, Wire, server, net
  <1> QED
    BY <1>1, <1>2, <1>3, <1>4 DEF IInv

\* Commands send one request or two.
LEMMA RequestSequences ==
    ASSUME NEW r \in Requests, NEW s \in Requests
    PROVE  <<r>> \in Seq(Requests) /\ <<r, s>> \in Seq(Requests)
  OBVIOUS

LEMMA OneRequestKeepsIInv ==
    ASSUME IInv, NEW r \in Requests, Command(<<r>>)
    PROVE  IInv'
  BY RequestSequences, CommandKeepsIInv

LEMMA TwoRequestsKeepIInv ==
    ASSUME IInv, NEW r \in Requests, NEW s \in Requests, Command(<<r, s>>)
    PROVE  IInv'
  BY RequestSequences, CommandKeepsIInv

LEMMA EditKeepsIInv ==
    ASSUME IInv, NEW m, IsStore(m), Edit(m)
    PROVE  IInv'
  <1> USE DEF Edit, AtInput
  <1>1. TypeOK'
    BY DEF IInv, TypeOK, server, net
  <1>2. CallInProgress'
    BY DEF IInv, CallInProgress
  <1>3. SnapshotsOfLog' /\ StoresComplete'
    BY DEF IInv, SnapshotsOfLog, StoresComplete, server
  <1>4. Wire'
    BY DEF IInv, Wire, OnTheWay, server, net
  <1> QED
    BY <1>1, <1>2, <1>3, <1>4 DEF IInv

LEMMA CommandsKeepIInv == ASSUME IInv, Commands PROVE IInv'
  <1>1. /\ IsMap(mirror.car_builders, Car_Builder)
        /\ IsMap(mirror.car_calculators, Car_Calculator)
        /\ IsStore(mirror)
    BY DEF IInv, TypeOK, IsStore
  <1>2. /\ BuilderNames \subseteq Names /\ CarNames \subseteq Names
        /\ CalculatorNames \subseteq Names
    BY SessionAssumption
  <1>3. ASSUME NEW k \in DOMAIN mirror.car_calculators, NEW c \in Names \cup {NoName}
        PROVE  /\ k \in Names \cup {NoName}
               /\ CalculatorRequest(k,
                    MessageOfCalculator(mirror.car_calculators[k], c))
                    \in Requests
    <2>1. /\ k \in Names \cup {NoName}
          /\ mirror.car_calculators[k] \in Car_Calculator
      BY <1>1 DEF IsMap
    <2>2. MessageOfCalculator(mirror.car_calculators[k], c)
             \in Message_Car_Calculator(Names \cup {NoName})
      BY <2>1, MessageOfCalculatorType
    <2> QED
      BY <2>1, <2>2, RequestTypesOK
  <1>4. CASE CreateBuilder
    <2>1. PICK n \in BuilderNames :
             Command(<<BuilderRequest(n, MessageOfBuilder(DefaultBuilder))>>)
      BY <1>4 DEF CreateBuilder
    <2>2. BuilderRequest(n, MessageOfBuilder(DefaultBuilder)) \in Requests
      BY <1>2, MessageTypes, DefaultTypes, RequestTypesOK
    <2> QED
      BY <2>1, <2>2, OneRequestKeepsIInv
  <1>5. CASE Build
    <2>1. PICK c \in CarNames, b \in DOMAIN mirror.car_builders :
             Command(<<BuilderRequest(b,
                         MessageOfBuilder(mirror.car_builders[b])),
                       BuildRequest(c, b)>>)
      BY <1>5 DEF Build, KnownBuilders
    <2>2. b \in Names \cup {NoName} /\ mirror.car_builders[b] \in Car
      BY <1>1 DEF IsMap, Car_Builder
    <2>3. BuilderRequest(b, MessageOfBuilder(mirror.car_builders[b])) \in Requests
      BY <2>2, MessageTypes, RequestTypesOK
    <2>4. BuildRequest(c, b) \in Requests
      BY <1>2, <2>2, RequestTypesOK
    <2> QED
      BY <2>1, <2>3, <2>4, TwoRequestsKeepIInv
  <1>6. CASE CreateCalculator
    <2>1. PICK k \in CalculatorNames :
             Command(<<CalculatorRequest(k,
                         MessageOfCalculator(DefaultCalculator, NoName))>>)
      BY <1>6 DEF CreateCalculator
    <2>2. MessageOfCalculator(DefaultCalculator, NoName)
             \in Message_Car_Calculator(Names \cup {NoName})
      BY MessageOfCalculatorType, DefaultTypes
    <2>3. CalculatorRequest(k, MessageOfCalculator(DefaultCalculator, NoName))
             \in Requests
      BY <1>2, <2>2, RequestTypesOK
    <2> QED
      BY <2>1, <2>3, OneRequestKeepsIInv
  <1>7. CASE AssignCar
    <2>1. PICK k \in DOMAIN mirror.car_calculators, c \in CarNames :
             Command(<<CalculatorRequest(k,
                         MessageOfCalculator(mirror.car_calculators[k], c))>>)
      BY <1>7 DEF AssignCar, KnownCalculators
    <2>2. CalculatorRequest(k,
             MessageOfCalculator(mirror.car_calculators[k], c)) \in Requests
      BY <1>2, <1>3
    <2> QED
      BY <2>1, <2>2, OneRequestKeepsIInv
  <1>8. CASE Calculation
    <2>1. PICK k \in DOMAIN mirror.car_calculators,
               type \in {"CALC_LEASING", "CALC_INSURANCE"} :
             Command(<<CalculatorRequest(k,
                         MessageOfCalculator(mirror.car_calculators[k],
                                             NoName)),
                       Request(type, k)>>)
      BY <1>8 DEF Calculation, KnownCalculators
    <2>2. /\ CalculatorRequest(k,
                MessageOfCalculator(mirror.car_calculators[k], NoName))
                \in Requests
          /\ k \in Names \cup {NoName}
      BY <1>3
    <2>3. Request(type, k) \in Requests
      BY <2>2, RequestTypesOK DEF RequestTypes
    <2> QED
      BY <2>1, <2>2, <2>3, TwoRequestsKeepIInv
  <1>9. CASE EditBuilder
    <2>1. PICK n \in DOMAIN mirror.car_builders, new \in Car_Builder :
             Edit(WithBuilders(mirror, Put(mirror.car_builders, n, new)))
      <3>1. PICK n \in DOMAIN mirror.car_builders : 
               \E new : /\ \/ \E ps \in PsInputs :
                                new = WithPs(mirror.car_builders[n], ps)
                           \/ \E v \in ValueInputs :
                                new = WithPurchaseValue(mirror.car_builders[n], v)
                           \/ \E k \in KilometerInputs :
                                new = WithDrivenKilometers(
                                          mirror.car_builders[n], k)
                           \/ \E f \in FuelInputs :
                                new = WithFuelType(mirror.car_builders[n], f)
                           \/ \E brand \in BrandInputs :
                                new = WithBrand(mirror.car_builders[n], brand)
                           \/ \E t \in TypeInputs :
                                new = WithCarType(mirror.car_builders[n], t)
                        /\ Edit(WithBuilders(mirror,
                                    Put(mirror.car_builders, n, new)))
        BY <1>9 DEF EditBuilder, KnownBuilders
      <3>2. mirror.car_builders[n] \in Car_Builder
        BY <1>1 DEF IsMap
      <3> QED
        BY <3>1, <3>2, BuilderSetters, SessionAssumption
    <2>2. IsMap(Put(mirror.car_builders, n, new), Car_Builder)
      BY <1>1, PutType DEF IsMap
    <2>3. IsStore(WithBuilders(mirror, Put(mirror.car_builders, n, new)))
      BY <1>1, <2>2, StoreAssigned
    <2> QED
      BY <2>1, <2>3, EditKeepsIInv
  <1>10. CASE EditCalculator
    <2>1. PICK n \in DOMAIN mirror.car_calculators, new \in Car_Calculator :
             Edit(WithCalculators(mirror, Put(mirror.car_calculators, n, new)))
      <3>1. PICK n \in DOMAIN mirror.car_calculators :
               \E new : /\ \/ \E d \in DurationInputs : new =
                                WithLeasingDuration(mirror.car_calculators[n], d)
                           \/ \E i \in ClassInputs : new =
                                WithInsuranceClass(mirror.car_calculators[n], i)
                           \/ \E v \in AmountInputs : new =
                                WithRestValue(mirror.car_calculators[n], v)
                           \/ \E v \in AmountInputs : new =
                                WithDeposit(mirror.car_calculators[n], v)
                           \/ \E a \in AgeInputs : new =
                                WithAge(mirror.car_calculators[n], a)
                        /\ Edit(WithCalculators(mirror,
                                    Put(mirror.car_calculators, n, new)))
        BY <1>10 DEF EditCalculator, KnownCalculators
      <3>2. mirror.car_calculators[n] \in Car_Calculator
        BY <1>1 DEF IsMap
      <3> QED
        BY <3>1, <3>2, CalculatorSetters, SessionAssumption
    <2>2. IsMap(Put(mirror.car_calculators, n, new), Car_Calculator)
      BY <1>1, PutType DEF IsMap
    <2>3. IsStore(WithCalculators(mirror, Put(mirror.car_calculators, n, new)))
      BY <1>1, <2>2, StoreAssigned
    <2> QED
      BY <2>1, <2>3, EditKeepsIInv
  <1>11. CASE End
    <2> USE DEF End, Stop
    <2>1. TypeOK'
      BY <1>11 DEF IInv, TypeOK, PCs, server
    <2>2. CallInProgress' /\ SnapshotsOfLog' /\ StoresComplete'
      BY <1>11 DEF IInv, CallInProgress, SnapshotsOfLog, StoresComplete, server
    <2>3. Wire'
      BY <1>11 DEF IInv, Wire
    <2> QED
      BY <2>1, <2>2, <2>3 DEF IInv
  <1> QED
    BY <1>4, <1>5, <1>6, <1>7, <1>8, <1>9, <1>10, <1>11 DEF Commands

-----------------------------------------------------------------------------
(* The steps of send_message that change neither the log nor the mirror *)

\* What two states have in common when only the connection, the program
\* counter and the command are touched.
LEMMA SameLog ==
    ASSUME IInv, UNCHANGED <<messages, snapshots, storage>>
    PROVE  SnapshotsOfLog' /\ StoresComplete'
  BY DEF IInv, SnapshotsOfLog, StoresComplete

\* The call returns to the rest of the command.
LEMMA TailOfRequests ==
    ASSUME NEW reqs \in Seq(Requests), reqs # <<>>
    PROVE  Tail(reqs) \in Seq(Requests) /\ Head(reqs) \in Requests
  OBVIOUS

LEMMA CommandDoneKeepsIInv == ASSUME IInv, CommandDone PROVE IInv'
  <1> USE DEF CommandDone, server, net
  <1>1. TypeOK'
    BY DEF IInv, TypeOK, PCs
  <1>2. CallInProgress'
    BY DEF IInv, CallInProgress
  <1>3. Wire'
    BY DEF IInv, Wire
  <1> QED
    BY <1>1, <1>2, <1>3, SameLog DEF IInv

LEMMA AskReconnectKeepsIInv == ASSUME IInv, AskReconnect PROVE IInv'
  <1> USE DEF AskReconnect, server, net
  <1>1. TypeOK'
    BY DEF IInv, TypeOK, PCs
  <1>2. CallInProgress'
    BY DEF IInv, CallInProgress
  <1>3. Wire'
    BY DEF IInv, Wire
  <1> QED
    BY <1>1, <1>2, <1>3, SameLog DEF IInv

LEMMA ReadReplyKeepsIInv == ASSUME IInv, ReadReply PROVE IInv'
  <1> USE DEF ReadReply, Return, server
  <1>1. IsStore(mirror')
    BY MirroredType DEF IInv, TypeOK
  <1>2. todo' \in Seq(Requests)
    BY TailOfRequests DEF IInv, TypeOK, CallInProgress
  <1>3. TypeOK'
    BY <1>1, <1>2 DEF IInv, TypeOK, PCs
  <1>4. CallInProgress'
    BY DEF IInv, CallInProgress
  <1>5. Wire'
    <2>1. toClient # {}
      OBVIOUS
    <2>2. link = "up" => OnTheWay(Len(messages))
      BY DEF IInv, Wire
    <2>3. link = "up" => toServer = {} /\ served = Len(messages)
      BY <2>1, <2>2 DEF OnTheWay
    <2> QED
      BY <2>3 DEF IInv, Wire
  <1> QED
    BY <1>3, <1>4, <1>5, SameLog DEF IInv

\* On a connection that is lost the call returns, whatever getline has read.
LEMMA ReadLostKeepsIInv ==
    ASSUME IInv, pc = "await", link = "down", Return, toClient' = {},
           IsStore(mirror'), good' \in BOOLEAN,
           UNCHANGED <<running, messages, position, server, link, toServer,
                       snapshots, drops>>
    PROVE  IInv'
  <1> USE DEF Return, server
  <1>1. todo' \in Seq(Requests)
    BY TailOfRequests DEF IInv, TypeOK, CallInProgress
  <1>2. TypeOK'
    BY <1>1 DEF IInv, TypeOK, PCs
  <1>3. CallInProgress'
    BY DEF IInv, CallInProgress
  <1>4. Wire'
    BY DEF IInv, Wire
  <1> QED
    BY <1>2, <1>3, <1>4, SameLog DEF IInv

LEMMA ReadCutReplyKeepsIInv == ASSUME IInv, ReadCutReply PROVE IInv'
  <1>1. IsStore(mirror')
    BY BeginningIsReply, MirroredType DEF IInv, TypeOK, ReadCutReply
  <1> QED
    BY <1>1, ReadLostKeepsIInv DEF ReadCutReply, IInv, TypeOK

LEMMA DecodingThrowsKeepsIInv == ASSUME IInv, DecodingThrows PROVE IInv'
  <1> USE DEF DecodingThrows, server
  <1>1. TypeOK'
    BY DEF IInv, TypeOK, PCs
  <1>2. CallInProgress'
    BY DEF IInv, CallInProgress
  <1>3. Wire'
    BY DEF IInv, Wire
  <1> QED
    BY <1>1, <1>2, <1>3, SameLog DEF IInv

\* Declining, a failed connection and a broken replay stop the client alike.
LEMMA StopKeepsIInv ==
    ASSUME IInv, pc \in {"prompt", "replay"}, todo # <<>>, Stop, Return,
           good' \in BOOLEAN,
           UNCHANGED <<mirror, messages, position, server, snapshots, drops>>
    PROVE  IInv'
  <1> USE DEF Stop, Return, server
  <1>1. todo' \in Seq(Requests)
    BY TailOfRequests DEF IInv, TypeOK
  <1>2. TypeOK'
    BY <1>1 DEF IInv, TypeOK, PCs
  <1>3. CallInProgress'
    BY DEF IInv, CallInProgress
  <1>4. Wire'
    BY DEF Wire
  <1> QED
    BY <1>2, <1>3, <1>4, SameLog DEF IInv

LEMMA ConnectKeepsIInv == ASSUME IInv, Connect PROVE IInv'
  <1> USE DEF Connect
  <1>1. TypeOK'
    BY EmptyStoreType DEF IInv, TypeOK, PCs
  <1>2. CallInProgress'
    BY DEF IInv, CallInProgress
  <1>3. SnapshotsOfLog'
    BY DEF IInv, SnapshotsOfLog
  <1>4. StoresComplete'
    BY EmptyStoreType DEF IInv, StoresComplete
  <1>5. Wire'
    BY <1>3 DEF Wire, SnapshotsOfLog
  <1> QED
    BY <1>1, <1>2, <1>3, <1>4, <1>5 DEF IInv

-----------------------------------------------------------------------------
(* The replay *)

LEMMA ReplayWriteKeepsIInv == ASSUME IInv, ReplayWrite PROVE IInv'
  <1> USE DEF ReplayWrite, server
  <1>1. position \in 1 .. Len(messages) /\ messages[position] \in Requests
    BY DEF IInv, TypeOK
  <1>2. TypeOK'
    BY <1>1 DEF IInv, TypeOK, PCs
  <1>3. CallInProgress'
    BY DEF IInv, CallInProgress
  <1>4. Wire'
    BY DEF IInv, Wire, OnTheWay
  <1> QED
    BY <1>2, <1>3, <1>4, SameLog DEF IInv

LEMMA ReplayReadKeepsIInv == ASSUME IInv, ReplayRead PROVE IInv'
  <1> USE DEF ReplayRead, server
  <1>1. position \in 1 .. Len(messages) /\ Len(messages) \in Nat
    BY DEF IInv, TypeOK, CallInProgress
  <1>2. TypeOK'
    BY <1>1 DEF IInv, TypeOK, PCs
  <1>3. CallInProgress'
    BY DEF IInv, CallInProgress
  <1>4. link = "up" => toServer = {} /\ served = position
    BY DEF IInv, Wire, OnTheWay
  <1>5. Wire'
    BY <1>1, <1>4 DEF IInv, Wire
  <1> QED
    BY <1>2, <1>3, <1>5, SameLog DEF IInv

LEMMA ReplayReadFailsKeepsIInv == ASSUME IInv, ReplayReadFails PROVE IInv'
  <1> USE DEF ReplayReadFails, server, net
  <1>1. position \in 1 .. Len(messages) /\ Len(messages) \in Nat
    BY DEF IInv, TypeOK, CallInProgress
  <1>2. TypeOK'
    <2>1. position' \in 1 .. Len(messages) + 1
      BY <1>1
    <2>2. pc' \in PCs /\ good' \in BOOLEAN
      BY DEF PCs
    <2> QED
      BY <2>1, <2>2 DEF IInv, TypeOK
  <1>3. CallInProgress'
    BY DEF IInv, CallInProgress
  <1>4. Wire'
    BY DEF IInv, Wire
  <1> QED
    BY <1>2, <1>3, <1>4, SameLog DEF IInv

\* When the loop is through on a connection that holds, the position has
\* passed the end of the log and the storage has executed all of it.
LEMMA ReplayDoneKeepsIInv == ASSUME IInv, ReplayDone PROVE IInv'
  <1> USE DEF ReplayDone, Return, server, net
  <1>1. todo' \in Seq(Requests)
    BY TailOfRequests DEF IInv, TypeOK, CallInProgress
  <1>2. position = Len(messages) + 1 /\ Len(messages) \in Nat
    BY DEF IInv, TypeOK
  <1>3. TypeOK'
    BY <1>1 DEF IInv, TypeOK, PCs
  <1>4. CallInProgress'
    BY DEF IInv, CallInProgress
  <1>5. Wire'
    BY <1>2 DEF IInv, Wire
  <1> QED
    BY <1>3, <1>4, <1>5, SameLog DEF IInv


-----------------------------------------------------------------------------
(* Write: the log grows by one message, and the snapshots by the store that  *)
(* executing it produces.                                                    *)

LEMMA WriteKeepsIInv == ASSUME IInv, Write PROVE IInv'
  <1> DEFINE n == Len(messages)
             r == Head(todo)
             new == NewAction(Expected, r).store
  <1>1. /\ messages \in Seq(Requests) /\ r \in Requests /\ n \in Nat
        /\ IsStore(Expected) /\ IsCompleteStore(Expected)
    BY TailOfRequests DEF IInv, TypeOK, StoresComplete, Write, Expected
  <1>2. IsStore(new) /\ IsCompleteStore(new)
    BY <1>1, NewActionResult DEF GoodResult
  <1>3. /\ messages' = Append(messages, r)
        /\ messages' \in Seq(Requests) /\ Len(messages') = n + 1
        /\ messages'[n + 1] = r
        /\ \A i \in 1 .. n : messages'[i] = messages[i]
    BY <1>1 DEF Write
  <1>4. /\ DOMAIN snapshots' = 0 .. n + 1
        /\ \A i \in 0 .. n : snapshots'[i] = snapshots[i]
        /\ snapshots'[n + 1] = new
    <2>1. snapshots' = [i \in 0 .. n + 1 |->
                          IF i <= n THEN snapshots[i] ELSE new]
      BY DEF Write
    <2> HIDE DEF new
    <2> QED
      BY <1>1, <2>1
  <1>5. \A i \in 0 .. n + 1 : i = n + 1 \/ i \in 0 .. n
    BY <1>1
  <1> HIDE DEF new
  <1>6. TypeOK'
    <2>1. \A i \in 0 .. n + 1 : IsStore(snapshots'[i])
      BY <1>2, <1>4, <1>5 DEF IInv, TypeOK
    <2>2. toServer' \subseteq Requests
      BY <1>1 DEF Write
    <2>3. position' \in 1 .. n + 2 /\ served' \in 0 .. n + 1
      BY <1>1 DEF IInv, TypeOK, Write, server
    <2>4. pc' \in PCs /\ UNCHANGED <<running, todo, mirror, good, storage, link,
                                     toClient, drops>>
      BY DEF Write, PCs, server
    <2> QED
      BY <1>1, <1>3, <1>4, <2>1, <2>2, <2>3, <2>4 DEF IInv, TypeOK
  <1>7. CallInProgress'
    BY <1>1, <1>3 DEF CallInProgress, Write
  <1>8. SnapshotsOfLog'
    <2>1. snapshots'[0] = EmptyStore
      BY <1>1, <1>4 DEF IInv, SnapshotsOfLog
    <2>2. ASSUME NEW i \in 1 .. n
          PROVE  snapshots'[i] = NewAction(snapshots'[i - 1], messages'[i]).store
      <3>1. i \in 0 .. n /\ i - 1 \in 0 .. n
        BY <1>1
      <3> QED
        BY <1>3, <1>4, <3>1 DEF IInv, SnapshotsOfLog
    <2>3. snapshots'[n + 1]
            = NewAction(snapshots'[n + 1 - 1], messages'[n + 1]).store
      <3>1. n + 1 - 1 = n /\ n \in 0 .. n
        BY <1>1
      <3>2. snapshots'[n] = Expected
        BY <1>4, <3>1 DEF Expected
      <3> QED
        BY <1>3, <1>4, <3>1, <3>2 DEF new
    <2>4. \A i \in 1 .. n + 1 : i = n + 1 \/ i \in 1 .. n
      BY <1>1
    <2> QED
      BY <1>3, <2>1, <2>2, <2>3, <2>4 DEF SnapshotsOfLog
  <1>9. StoresComplete'
    <2>1. \A i \in 0 .. n + 1 : IsCompleteStore(snapshots'[i])
      BY <1>2, <1>4, <1>5 DEF IInv, StoresComplete
    <2> QED
      BY <1>3, <2>1 DEF IInv, StoresComplete, Write, server
  <1>10. Wire'
    <2>1. link = "up" => /\ toServer' = {messages'[n + 1]} /\ toClient' = {}
                         /\ served' = n /\ n \in 0 .. n
                         /\ storage' = snapshots[n] /\ good'
      BY <1>1, <1>3 DEF IInv, Wire, Write, server
    <2>2. link = "up" => storage' = snapshots'[served']
      BY <1>4, <2>1
    <2>3. link = "down" => toServer' = {} /\ toClient' = {}
      BY DEF IInv, Wire, Write
    <2>4. link = "up" => OnTheWay(Len(messages))'
      BY <1>1, <1>3, <2>1 DEF OnTheWay
    <2>5. pc' = "await" /\ link' = link
      BY DEF Write
    <2> QED
      BY <2>1, <2>2, <2>3, <2>4, <2>5 DEF Wire
  <1> QED
    BY <1>6, <1>7, <1>8, <1>9, <1>10 DEF IInv


-----------------------------------------------------------------------------
(* Serve: the storage takes the step that snapshots already knows. *)

LEMMA ServeKeepsIInv == ASSUME IInv, Serve PROVE IInv'
  <1>1. PICK r \in toServer :
           /\ toServer' = {} /\ served' = served + 1
           /\ storage' = NewAction(storage, r).store
           /\ toClient' = {NewAction(storage, r).reply}
           /\ UNCHANGED <<client, link, snapshots, drops>>
    BY DEF Serve
  <1>2. /\ r \in Requests /\ link = "up"
        /\ IsStore(storage) /\ IsCompleteStore(storage)
    BY DEF IInv, TypeOK, Wire, StoresComplete
  <1>3. /\ IsStore(storage') /\ IsCompleteStore(storage')
        /\ IsReply(NewAction(storage, r).reply)
    BY <1>1, <1>2, NewActionResult DEF GoodResult
  <1>4. UNCHANGED <<running, pc, todo, mirror, messages, position, good>>
    BY <1>1 DEF client
  <1> DEFINE n == served + 1
  <1>5. /\ r = messages[n] /\ n \in 1 .. Len(messages)
        /\ \/ pc = "await" /\ n = Len(messages)
           \/ pc = "replay_await" /\ n = position
    <2>1. pc \in {"await", "replay_await"}
      BY <1>2 DEF IInv, Wire, TypeOK, PCs
    <2>2. Len(messages) \in Nat /\ served \in Nat /\ position \in 1 .. Len(messages) + 1
      BY DEF IInv, TypeOK
    <2>3. CASE pc = "await"
      <3>1. OnTheWay(Len(messages)) /\ messages # <<>>
        BY <1>2, <2>3 DEF IInv, Wire, CallInProgress
      <3>2. messages \in Seq(Requests)
        BY DEF IInv, TypeOK
      <3>3. Len(messages) # 0
        BY <3>1, <3>2
      <3>4. toServer = {messages[Len(messages)]} /\ served = Len(messages) - 1
        BY <3>1 DEF OnTheWay
      <3>5. n = Len(messages)
        BY <2>2, <3>4
      <3>6. r = messages[n]
        BY <3>4, <3>5
      <3>7. n \in 1 .. Len(messages)
        BY <2>2, <3>3, <3>5
      <3> QED
        BY <2>3, <3>5, <3>6, <3>7
    <2>4. CASE pc = "replay_await"
      <3>1. OnTheWay(position) /\ position <= Len(messages)
        BY <1>2, <2>4 DEF IInv, Wire, CallInProgress
      <3> QED
        BY <2>2, <2>4, <3>1 DEF OnTheWay
    <2> QED
      BY <2>1, <2>3, <2>4
  <1>6. n - 1 = served /\ served \in Nat
    BY DEF IInv, TypeOK
  <1>7. storage' = snapshots[n]
    <2>1. storage = snapshots[served]
      BY <1>2 DEF IInv, Wire
    <2>2. snapshots[n] = NewAction(snapshots[n - 1], messages[n]).store
      BY <1>5 DEF IInv, SnapshotsOfLog
    <2> QED
      BY <1>1, <1>5, <1>6, <2>1, <2>2
  <1>8. TypeOK'
    <2>1. served' \in 0 .. Len(messages)
      BY <1>1, <1>5, <1>6
    <2>2. /\ \A reply \in toClient' : IsReply(reply)
          /\ toServer' \subseteq Requests
      BY <1>1, <1>3
    <2> QED
      BY <1>1, <1>3, <1>4, <2>1, <2>2 DEF IInv, TypeOK
  <1>9. CallInProgress'
    BY <1>4 DEF IInv, CallInProgress
  <1>10. SnapshotsOfLog'
    BY <1>1, <1>4 DEF IInv, SnapshotsOfLog
  <1>11. StoresComplete'
    BY <1>1, <1>3, <1>4 DEF IInv, StoresComplete
  <1>12. Wire'
    <2>1. good /\ link' = "up" /\ toServer' = {} /\ served' = n
      BY <1>1, <1>2 DEF IInv, Wire
    <2>2. storage' = snapshots'[served']
      BY <1>1, <1>7
    <2>3. /\ pc = "await" => OnTheWay(Len(messages))'
          /\ pc = "replay_await" => OnTheWay(position)'
      BY <1>4, <1>5, <2>1 DEF OnTheWay
    <2> QED
      BY <1>4, <1>5, <2>1, <2>2, <2>3 DEF Wire
  <1> QED
    BY <1>8, <1>9, <1>10, <1>11, <1>12 DEF IInv

LEMMA DropKeepsIInv == ASSUME IInv, Drop PROVE IInv'
  <1> USE DEF Drop, client, server
  <1>1. TypeOK'
    BY SessionAssumption DEF IInv, TypeOK
  <1>2. CallInProgress'
    BY DEF IInv, CallInProgress
  <1>3. Wire'
    BY DEF IInv, Wire
  <1> QED
    BY <1>1, <1>2, <1>3, SameLog DEF IInv

-----------------------------------------------------------------------------
LEMMA NextKeepsIInv == IInv /\ [Next]_vars => IInv'
  <1> SUFFICES ASSUME IInv, [Next]_vars PROVE IInv'
    OBVIOUS
  <1>1. CASE Commands
    BY <1>1, CommandsKeepIInv
  <1>2. CASE Progress
    <2>1. CASE ReplayBreaks
      <3>1. todo # <<>> => IInv'
        BY <2>1, StopKeepsIInv DEF ReplayBreaks, IInv, TypeOK
      <3> QED
        BY <2>1, <3>1 DEF ReplayBreaks, IInv, CallInProgress
    <2>2. CASE RejectCutReply \/ ReadFails
      BY <2>2, ReadLostKeepsIInv DEF RejectCutReply, ReadFails, net, IInv, TypeOK
    <2> QED
      BY <1>2, <2>1, <2>2, CommandDoneKeepsIInv, WriteKeepsIInv,
         AskReconnectKeepsIInv, ReadReplyKeepsIInv, ReadCutReplyKeepsIInv,
         DecodingThrowsKeepsIInv, ReplayWriteKeepsIInv, ReplayReadKeepsIInv,
         ReplayReadFailsKeepsIInv, ReplayDoneKeepsIInv
         DEF Progress
  <1>3. CASE Decline \/ ConnectFails
    <2>1. todo # <<>> /\ good \in BOOLEAN
      BY <1>3 DEF IInv, TypeOK, CallInProgress, Decline, ConnectFails
    <2> QED
      BY <1>3, <2>1, StopKeepsIInv DEF Decline, ConnectFails
  <1>4. CASE Connect
    BY <1>4, ConnectKeepsIInv
  <1>5. CASE Serve
    BY <1>5, ServeKeepsIInv
  <1>6. CASE Drop
    BY <1>6, DropKeepsIInv
  <1>7. CASE UNCHANGED vars
    <2> USE <1>7 DEF vars, client, server, net
    <2>1. TypeOK'
      BY DEF IInv, TypeOK
    <2>2. CallInProgress'
      BY DEF IInv, CallInProgress
    <2>3. Wire'
      BY DEF IInv, Wire, OnTheWay
    <2> QED
      BY <2>1, <2>2, <2>3, SameLog DEF IInv
  <1> QED
    BY <1>1, <1>2, <1>3, <1>4, <1>5, <1>6, <1>7 DEF Next, Terminated

\* The invariant holds in every reachable state of a session.
THEOREM SessionInvariance == Spec => []IInv
  BY InitIInv, NextKeepsIInv, PTL DEF Spec

\* Mirror, log, connection and storage keep their types: in particular nothing
\* but requests that the storage can execute is ever sent or logged.
THEOREM SessionTypeCorrect == Spec => []TypeOK
  BY SessionInvariance, PTL DEF IInv

\* While a connection is up, the storage at its other end is what a prefix of
\* the client's log produces, and all of it between two messages: however many
\* connections were lost before, and wherever, a replay restores the state.
THEOREM ReplayRestores == Spec => []ServerFollowsLog
  <1>1. IInv => ServerFollowsLog
    BY DEF IInv, Wire, ServerFollowsLog
  <1> QED
    BY SessionInvariance, <1>1, PTL


=============================================================================
