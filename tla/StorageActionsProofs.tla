------------------------- MODULE StorageActionsProofs -------------------------
(***************************************************************************)
(* TLAPS proofs about the operators of CarObjects and StorageActions: what *)
(* one call of new_action keeps and promises, whoever calls it.            *)
(***************************************************************************)
EXTENDS StorageActions, TLAPS

-----------------------------------------------------------------------------
(* Lemmas about the conversions of CarObjects *)

\* The only fact about the width of a short unsigned int that proofs use.
LEMMA Width == USHRT_MAX \in Nat
  BY DEF USHRT_MAX

LEMMA UShortsAreNumbers ==
    UShorts \subseteq Nat /\ 0 \in UShorts /\ USHRT_MAX \in UShorts
  BY Width DEF UShorts

\* Narrowing yields a short unsigned int and is the identity on one.
LEMMA NarrowingType == ASSUME NEW n \in Nat PROVE UShort(n) \in UShorts
  BY Width DEF UShort, UShorts

LEMMA NarrowingIdentity == ASSUME NEW n \in UShorts PROVE UShort(n) = n
  BY Width DEF UShort, UShorts

\* A switch returns an enumerator of its target, or its default.
LEMMA SwitchType ==
    ASSUME NEW e
    PROVE  /\ Switch(Fuel_Type, "NONE", e) \in Fuel_Type
           /\ Switch(Car_Types, "NONE", e) \in Car_Types
           /\ Switch(Car_Brands, "NONE", e) \in Car_Brands
           /\ Switch(Fuel_Type, "FUEL_NONE", e) \in Message_Fuel_Type
           /\ Switch(Car_Types, "CAR_NONE", e) \in Message_Car_Types
           /\ Switch(Car_Brands, "BRAND_NONE", e) \in Message_Car_Brands
  BY DEF Switch, Fuel_Type, Car_Types, Car_Brands,
         Message_Fuel_Type, Message_Car_Types, Message_Car_Brands

\* An enumerator survives the way through the enum of the message.
LEMMA SwitchRoundTrip ==
    /\ \A e \in Fuel_Type :
          Switch(Fuel_Type, "NONE", Switch(Fuel_Type, "FUEL_NONE", e)) = e
    /\ \A e \in Car_Types :
          Switch(Car_Types, "NONE", Switch(Car_Types, "CAR_NONE", e)) = e
    /\ \A e \in Car_Brands :
          Switch(Car_Brands, "NONE", Switch(Car_Brands, "BRAND_NONE", e)) = e
  BY DEF Switch, Fuel_Type, Car_Types, Car_Brands

\* The messages of the objects are typed, and reading one gives a typed object.
LEMMA MessageTypes ==
    ASSUME NEW car \in Car
    PROVE  /\ MessageOfCar(car) \in Message_Car
           /\ MessageOfBuilder(car) \in Message_Car
  BY UShortsAreNumbers, SwitchType DEF Car, MessageOfCar, MessageOfBuilder, Message_Car

LEMMA UpdatedTypes ==
    ASSUME NEW car \in Car, NEW m \in Message_Car
    PROVE  BuilderUpdated(car, m) \in Car
  BY NarrowingType, SwitchType DEF Car, BuilderUpdated, Message_Car

\* A client that reads a car or a builder from its message has the same object.
LEMMA CarRoundTrip ==
    ASSUME NEW car \in Car
    PROVE  /\ CarOfMessage(MessageOfCar(car)) = car
           /\ BuilderUpdated(DefaultBuilder, MessageOfBuilder(car)) = car
  BY NarrowingIdentity, SwitchRoundTrip
     DEF Car, CarOfMessage, MessageOfCar, MessageOfBuilder, BuilderUpdated,
         DefaultBuilder

LEMMA DefaultTypes ==
    /\ DefaultBuilder \in Car
    /\ DefaultCalculator \in Car_Calculator
    /\ DefaultMessageCar \in Message_Car
    /\ \A S : NoName \in S =>
          DefaultMessageCalculator \in Message_Car_Calculator(S)
  <1>1. /\ 0 \in UShorts /\ USHRT_MAX \in UShorts
        /\ DBL_MAX \in Double /\ 0 \in Double
        /\ ANNUAL_INTEREST_RATE \in Double
    BY DoublesAssumption, UShortsAreNumbers DEF Double
  <1>2. DefaultBuilder \in Car
    BY <1>1 DEF DefaultBuilder, Car, Fuel_Type, Car_Types, Car_Brands
  <1>3. DefaultCalculator \in Car_Calculator
    BY <1>1, <1>2 DEF DefaultCalculator, NoCar, Car_Calculator
  <1>4. DefaultMessageCar \in Message_Car
    BY <1>1 DEF DefaultMessageCar, Message_Car, Message_Fuel_Type,
                Message_Car_Types, Message_Car_Brands
  <1>5. ASSUME NEW S, NoName \in S
        PROVE  DefaultMessageCalculator \in Message_Car_Calculator(S)
    BY <1>1, <1>5 DEF DefaultMessageCalculator, Message_Car_Calculator, NoName
  <1> QED
    BY <1>2, <1>3, <1>4, <1>5

LEMMA MessageOfCalculatorType ==
    ASSUME NEW calc \in Car_Calculator, NEW S, NEW n \in S
    PROVE  MessageOfCalculator(calc, n) \in Message_Car_Calculator(S)
  BY UShortsAreNumbers
     DEF MessageOfCalculator, Message_Car_Calculator, Car_Calculator

\* The same for a calculator: updating from a message keeps the type and the
\* car, and its own message changes nothing.
LEMMA CalculatorTypes ==
    ASSUME NEW calc \in Car_Calculator, NEW S, NEW n \in S,
           NEW m \in Message_Car_Calculator(S)
    PROVE  /\ CalculatorUpdated(calc, m) \in Car_Calculator
           /\ CalculatorUpdated(calc, m).car = calc.car
           /\ CalculatorUpdated(calc, MessageOfCalculator(calc, n)) = calc
  BY UShortsAreNumbers, NarrowingType, NarrowingIdentity
     DEF MessageOfCalculator, Message_Car_Calculator, CalculatorUpdated,
         Car_Calculator

-----------------------------------------------------------------------------
(* Lemmas about maps *)

\* insert_or_assign stores v under n and leaves the other entries.
LEMMA PutType ==
    ASSUME NEW T, NEW m, IsMap(m, T), NEW n \in Names \cup {NoName},
           NEW v \in T
    PROVE  IsMap(Put(m, n, v), T)
  BY DEF IsMap, Put

LEMMA PutDomain ==
    ASSUME NEW m, NEW n, NEW v
    PROVE  DOMAIN Put(m, n, v) = DOMAIN m \cup {n}
  BY DEF Put

LEMMA PutEntry == ASSUME NEW m, NEW n, NEW v PROVE Put(m, n, v)[n] = v
  BY DEF Put

LEMMA PutOther ==
    ASSUME NEW m, NEW n, NEW v
    PROVE  \A x \in DOMAIN m : x # n => Put(m, n, v)[x] = m[x]
  BY DEF Put

LEMMA EntryType ==
    ASSUME NEW T, NEW m, IsMap(m, T), NEW n, NEW d \in T
    PROVE  Entry(m, n, d) \in T
  BY DEF IsMap, Entry

\* Assigning one map of a store.
LEMMA StoreAssigned ==
    ASSUME NEW s, IsStore(s), NEW m
    PROVE  /\ IsMap(m, Car) =>
                /\ IsStore(WithCars(s, m))
                /\ WithCars(s, m).cars = m
                /\ WithCars(s, m).car_builders = s.car_builders
                /\ WithCars(s, m).car_calculators = s.car_calculators
           /\ IsMap(m, Car_Builder) =>
                /\ IsStore(WithBuilders(s, m))
                /\ WithBuilders(s, m).cars = s.cars
                /\ WithBuilders(s, m).car_builders = m
                /\ WithBuilders(s, m).car_calculators = s.car_calculators
           /\ IsMap(m, Car_Calculator) =>
                /\ IsStore(WithCalculators(s, m))
                /\ WithCalculators(s, m).cars = s.cars
                /\ WithCalculators(s, m).car_builders = s.car_builders
                /\ WithCalculators(s, m).car_calculators = m
  BY DEF IsStore, WithCars, WithBuilders, WithCalculators

\* The empty store of a new Object_Storage.
LEMMA EmptyStoreType == IsStore(EmptyStore) /\ IsCompleteStore(EmptyStore)
  BY DEF EmptyStore, EmptyMap, IsStore, IsMap, IsCompleteStore

-----------------------------------------------------------------------------
(* Lemmas about new_action, one per branch *)

\* What a result must satisfy for the store to stay well formed and the reply
\* to show what is stored.
GoodResult(res) == /\ IsStore(res.store)
                   /\ IsCompleteStore(res.store)
                   /\ ShowsObject(res.reply, res.store)

LEMMA RequestNames ==
    ASSUME NEW r \in Requests
    PROVE  r.name \in Names \cup {NoName} /\ r.builder \in Names \cup {NoName}
  BY DEF Requests

LEMMA ResultFields ==
    \A s, reply : Result(s, reply).store = s /\ Result(s, reply).reply = reply
  BY DEF Result

\* A reply without an object promises nothing about the store.
LEMMA PlainReply ==
    ASSUME NEW s, IsStore(s), IsCompleteStore(s), NEW reply,
           reply.type \notin {"BUILDER", "CAR", "CALCULATOR"}
    PROVE  GoodResult(Result(s, reply))
  BY DEF GoodResult, Result, ShowsObject

LEMMA ErrorIsPlain ==
    ASSUME NEW s, IsStore(s), IsCompleteStore(s), NEW error, NEW name
    PROVE  GoodResult(Result(s, ErrorReply(error, name)))
  <1>1. ErrorReply(error, name).type = "ERROR"
    BY DEF ErrorReply, Reply
  <1> QED
    BY <1>1, PlainReply

\* case BUILDER: no car changes, and the builder replied is the one stored.
LEMMA NewBuilderResult ==
    ASSUME NEW s, IsStore(s), IsCompleteStore(s), NEW r \in Requests
    PROVE  /\ GoodResult(NewBuilder(s, r))
           /\ NewBuilder(s, r).store.cars = s.cars
           /\ NewBuilder(s, r).store.car_calculators = s.car_calculators
  <1> DEFINE b == BuilderUpdated(
                      Entry(s.car_builders, r.name, DefaultBuilder), r.car)
             m == Put(s.car_builders, r.name, b)
             t == WithBuilders(s, m)
             reply == BuilderReply(r.name, b)
  <1>1. b \in Car
    <2>1. r.car \in Message_Car
      BY DEF Requests
    <2>2. Entry(s.car_builders, r.name, DefaultBuilder) \in Car
      BY EntryType, DefaultTypes DEF IsStore, Car_Builder
    <2> QED
      BY <2>1, <2>2, UpdatedTypes
  <1> HIDE DEF b
  <1>2. IsMap(m, Car_Builder) /\ r.name \in DOMAIN m /\ m[r.name] = b
    <2>1. IsMap(s.car_builders, Car_Builder) /\ b \in Car_Builder
      BY <1>1 DEF IsStore, Car_Builder
    <2>2. IsMap(m, Car_Builder)
      BY <2>1, RequestNames, PutType
    <2>3. DOMAIN m = DOMAIN s.car_builders \cup {r.name}
      BY PutDomain
    <2>4. m[r.name] = b
      BY PutEntry
    <2> QED
      BY <2>2, <2>3, <2>4
  <1>3. /\ IsStore(t) /\ t.cars = s.cars /\ t.car_builders = m
        /\ t.car_calculators = s.car_calculators
    BY <1>2, StoreAssigned
  <1>4. /\ reply.type = "BUILDER" /\ reply.text = r.name
        /\ reply.car = MessageOfBuilder(b)
    BY DEF BuilderReply, Reply
  <1>5. ShowsObject(reply, t)
    <2>1. BuilderUpdated(DefaultBuilder, reply.car) = b
      BY <1>1, <1>4, CarRoundTrip
    <2> QED
      BY <1>2, <1>3, <1>4, <2>1 DEF ShowsObject
  <1>6. IsCompleteStore(t)
    BY <1>3 DEF IsCompleteStore
  <1>7. NewBuilder(s, r).store = t /\ NewBuilder(s, r).reply = reply
    BY DEF NewBuilder, Result, b
  <1> HIDE DEF t, reply
  <1> QED
    BY <1>3, <1>5, <1>6, <1>7 DEF GoodResult

\* case BUILD: only a complete car is stored, and it is the one replied.
LEMMA BuildCarResult ==
    ASSUME NEW s, IsStore(s), IsCompleteStore(s), NEW r \in Requests
    PROVE  /\ GoodResult(BuildCar(s, r))
           /\ BuildCar(s, r).store.car_calculators = s.car_calculators
  <1> DEFINE b == s.car_builders[r.builder]
             m == Put(s.cars, r.name, b)
             t == WithCars(s, m)
             reply == CarReply(r.name, b)
  <1>1. CASE r.builder \notin DOMAIN s.car_builders
    <2>1. BuildCar(s, r)
            = Result(s, ErrorReply("builder does not exist", r.builder))
      BY <1>1 DEF BuildCar
    <2>2. GoodResult(BuildCar(s, r))
      BY <2>1, ErrorIsPlain
    <2>3. BuildCar(s, r).store = s
      BY <2>1, ResultFields
    <2> QED
      BY <2>2, <2>3
  <1>2. CASE r.builder \in DOMAIN s.car_builders /\ BuiltCars(b) = {}
    <2>1. BuildCar(s, r) = Result(s, ErrorReply("builder failed building",
                                                BuildErrorName(s, r)))
      BY <1>2 DEF BuildCar
    <2>2. GoodResult(BuildCar(s, r))
      BY <2>1, ErrorIsPlain
    <2>3. BuildCar(s, r).store = s
      BY <2>1, ResultFields
    <2> QED
      BY <2>2, <2>3
  <1>3. CASE r.builder \in DOMAIN s.car_builders /\ BuiltCars(b) # {}
    <2>1. b \in Car
      BY <1>3 DEF IsStore, IsMap, Car_Builder
    <2>2. IsCar(b)
      BY <1>3 DEF BuiltCars, IsCar
    <2>3. /\ IsMap(m, Car) /\ DOMAIN m = DOMAIN s.cars \cup {r.name}
          /\ m[r.name] = b
          /\ \A x \in DOMAIN s.cars : x # r.name => m[x] = s.cars[x]
      <3>1. IsMap(m, Car)
        BY <2>1, RequestNames, PutType DEF IsStore
      <3>2. DOMAIN m = DOMAIN s.cars \cup {r.name}
        BY PutDomain
      <3>3. m[r.name] = b
        BY PutEntry
      <3>4. \A x \in DOMAIN s.cars : x # r.name => m[x] = s.cars[x]
        BY PutOther
      <3> QED
        BY <3>1, <3>2, <3>3, <3>4
    <2>4. /\ IsStore(t) /\ t.cars = m
          /\ t.car_calculators = s.car_calculators
      BY <2>3, StoreAssigned
    <2>5. /\ reply.type = "CAR" /\ reply.text = r.name
          /\ reply.car = MessageOfCar(b)
      BY DEF CarReply, Reply
    <2>6. ShowsObject(reply, t)
      <3>1. CarOfMessage(reply.car) = b
        BY <2>1, <2>5, CarRoundTrip
      <3> QED
        BY <2>3, <2>4, <2>5, <3>1 DEF ShowsObject
    <2>7. IsCompleteStore(t)
      BY <2>2, <2>3, <2>4 DEF IsCompleteStore
    <2>8. BuildCar(s, r).store = t /\ BuildCar(s, r).reply = reply
      BY <1>3 DEF BuildCar, Result
    <2> HIDE DEF t, reply
    <2> QED
      BY <2>4, <2>6, <2>7, <2>8 DEF GoodResult
  <1> QED
    BY <1>1, <1>2, <1>3

\* cases CALC_INSURANCE and CALC_LEASING read the store only.
LEMMA CalculateResult ==
    ASSUME NEW s, IsStore(s), IsCompleteStore(s), NEW r
    PROVE  /\ GoodResult(Calculate(s, r))
           /\ Calculate(s, r).store = s
  <1>1. \A e, n : ErrorReply(e, n).type = "ERROR"
    BY DEF ErrorReply, Reply
  <1>2. \A rate : DoubleReply(rate).type = "DOUBLE"
    BY DEF DoubleReply, Reply
  <1>3. Calculate(s, r).store = s
    BY DEF Calculate, Result
  <1>4. Calculate(s, r).reply.type \in {"ERROR", "DOUBLE"}
    BY <1>1, <1>2 DEF Calculate, Result
  <1> QED
    BY <1>3, <1>4 DEF GoodResult, ShowsObject

\* case CALCULATOR: only the calculator of that name changes, and its car
\* becomes a car of the store or stays.
LEMMA NewCalculatorResult ==
    ASSUME NEW s, IsStore(s), IsCompleteStore(s), NEW r \in Requests
    PROVE  /\ GoodResult(NewCalculator(s, r))
           /\ NewCalculator(s, r).store.cars = s.cars
           /\ \A n \in DOMAIN s.car_calculators :
                LET old == s.car_calculators[n].car
                    new == NewCalculator(s, r).store.car_calculators[n].car
                IN  new # old => /\ r.name = n
                                 /\ r.calculator.car \in DOMAIN s.cars
                                 /\ new = s.cars[r.calculator.car]
  <1> DEFINE old == Entry(s.car_calculators, r.name, DefaultCalculator)
             calc == CalculatorUpdated(old, r.calculator)
             name == r.calculator.car
             m(c) == Put(s.car_calculators, r.name, c)
             t(c) == WithCalculators(s, m(c))
             reply(c) == CalculatorReply(r.name, c, name)
  <1>1. /\ old \in Car_Calculator
        /\ \/ r.name \in DOMAIN s.car_calculators
              /\ old = s.car_calculators[r.name]
           \/ r.name \notin DOMAIN s.car_calculators /\ old.car = NoCar
    BY EntryType, DefaultTypes DEF IsStore, Entry, DefaultCalculator
  <1>2. r.calculator \in Message_Car_Calculator(Names \cup {NoName})
    BY DEF Requests
  <1>3. calc \in Car_Calculator /\ calc.car = old.car
    BY <1>1, <1>2, CalculatorTypes, NoName \in Names \cup {NoName}
  <1>4. calc.car = NoCar \/ IsCar(calc.car)
    BY <1>1, <1>3 DEF IsCompleteStore
  <1> HIDE DEF old, calc
  <1>5. name \in Names \cup {NoName}
    BY <1>2 DEF Message_Car_Calculator
  <1>6. ASSUME NEW c \in Car_Calculator, c.car = NoCar \/ IsCar(c.car)
        PROVE  /\ IsStore(t(c)) /\ t(c).cars = s.cars
               /\ t(c).car_calculators = m(c)
               /\ DOMAIN m(c) = DOMAIN s.car_calculators \cup {r.name}
               /\ m(c)[r.name] = c
               /\ \A x \in DOMAIN s.car_calculators :
                     x # r.name => m(c)[x] = s.car_calculators[x]
               /\ IsCompleteStore(t(c))
    <2>1. /\ IsMap(m(c), Car_Calculator)
          /\ DOMAIN m(c) = DOMAIN s.car_calculators \cup {r.name}
          /\ m(c)[r.name] = c
          /\ \A x \in DOMAIN s.car_calculators :
                x # r.name => m(c)[x] = s.car_calculators[x]
      <3>1. IsMap(m(c), Car_Calculator)
        BY RequestNames, PutType DEF IsStore
      <3>2. DOMAIN m(c) = DOMAIN s.car_calculators \cup {r.name}
        BY PutDomain
      <3>3. m(c)[r.name] = c
        BY PutEntry
      <3>4. \A x \in DOMAIN s.car_calculators :
                x # r.name => m(c)[x] = s.car_calculators[x]
        BY PutOther
      <3> QED
        BY <3>1, <3>2, <3>3, <3>4
    <2>2. /\ IsStore(t(c)) /\ t(c).cars = s.cars
          /\ t(c).car_calculators = m(c)
      BY <2>1, StoreAssigned
    <2> HIDE DEF t, m
    <2>3. IsCompleteStore(t(c))
      BY <1>6, <2>1, <2>2 DEF IsCompleteStore
    <2> QED
      BY <2>1, <2>2, <2>3
  <1>7. ASSUME NEW c \in Car_Calculator, c.car = NoCar \/ IsCar(c.car),
               name # NoName => /\ name \in DOMAIN s.cars
                                /\ c.car = s.cars[name]
        PROVE  GoodResult(Result(t(c), reply(c)))
    <2>1. /\ reply(c).type = "CALCULATOR" /\ reply(c).text = r.name
          /\ reply(c).calculator = MessageOfCalculator(c, name)
      BY DEF CalculatorReply, Reply
    <2>2. reply(c).calculator.car = name
      BY <2>1 DEF MessageOfCalculator
    <2>3. CalculatorUpdated(c, MessageOfCalculator(c, name)) = c
      BY <1>2, <1>5, CalculatorTypes
    <2>4. /\ IsStore(t(c)) /\ t(c).cars = s.cars
          /\ r.name \in DOMAIN t(c).car_calculators
          /\ t(c).car_calculators[r.name] = c
          /\ IsCompleteStore(t(c))
      BY <1>6, <1>7
    <2> HIDE DEF t, reply
    <2>5. ShowsObject(reply(c), t(c))
      BY <1>7, <2>1, <2>2, <2>3, <2>4 DEF ShowsObject
    <2> QED
      BY <2>4, <2>5 DEF GoodResult, Result
  <1>8. CASE name = NoName
    <2>1. NewCalculator(s, r) = Result(t(calc), reply(calc))
      BY <1>8 DEF NewCalculator, calc, old
    <2> HIDE DEF t, m, reply
    <2>2. GoodResult(Result(t(calc), reply(calc)))
      BY <1>3, <1>4, <1>7, <1>8
    <2> QED
      BY <1>1, <1>3, <1>4, <1>6, <2>1, <2>2 DEF Result
  <1>9. CASE name # NoName /\ name \in DOMAIN s.cars
    <2> DEFINE c == WithCar(calc, s.cars[name])
    <2>1. NewCalculator(s, r) = Result(t(c), reply(c))
      BY <1>9 DEF NewCalculator, calc, old
    <2>2. c \in Car_Calculator /\ c.car = s.cars[name] /\ IsCar(s.cars[name])
      BY <1>3, <1>9
         DEF WithCar, Car_Calculator, IsStore, IsMap, IsCompleteStore
    <2> HIDE DEF c, t, m, reply
    <2>3. GoodResult(Result(t(c), reply(c)))
      BY <1>7, <1>9, <2>2
    <2> QED
      BY <1>6, <1>9, <2>1, <2>2, <2>3 DEF Result
  <1>10. CASE name # NoName /\ name \notin DOMAIN s.cars
    <2>1. NewCalculator(s, r)
            = Result(t(calc), ErrorReply("car does not exist", name))
      BY <1>10 DEF NewCalculator, calc, old
    <2> HIDE DEF t, m
    <2>2. GoodResult(Result(t(calc), ErrorReply("car does not exist", name)))
      BY <1>3, <1>4, <1>6, ErrorIsPlain
    <2>3. NewCalculator(s, r).store = t(calc)
      BY <2>1, ResultFields
    <2>4. /\ t(calc).cars = s.cars
          /\ \A n \in DOMAIN s.car_calculators :
                t(calc).car_calculators[n].car = s.car_calculators[n].car
      BY <1>1, <1>3, <1>4, <1>6
    <2> QED
      BY <2>1, <2>2, <2>3, <2>4
  <1> QED
    BY <1>8, <1>9, <1>10

\* Every request that is built from typed parts is typed.
LEMMA RequestTypesOK ==
    /\ Handshake \in Requests
    /\ \A type \in RequestTypes, n \in Names \cup {NoName} :
          Request(type, n) \in Requests
    /\ \A n \in Names \cup {NoName}, m \in Message_Car :
          BuilderRequest(n, m) \in Requests
    /\ \A n, b \in Names \cup {NoName} : BuildRequest(n, b) \in Requests
    /\ \A n \in Names \cup {NoName},
          m \in Message_Car_Calculator(Names \cup {NoName}) :
          CalculatorRequest(n, m) \in Requests
  <1>1. /\ DefaultMessageCar \in Message_Car
        /\ DefaultMessageCalculator
             \in Message_Car_Calculator(Names \cup {NoName})
    BY DefaultTypes
  <1>2. \A type, n : Request(type, n) =
          [type |-> type, name |-> n, builder |-> NoName,
           car |-> DefaultMessageCar, calculator |-> DefaultMessageCalculator]
    BY DEF Request
  <1>3. ASSUME NEW type \in RequestTypes, NEW n \in Names \cup {NoName}
        PROVE  Request(type, n) \in Requests
    BY <1>1, <1>2 DEF Requests
  <1>4. Handshake \in Requests
    BY <1>3 DEF Handshake, RequestTypes
  <1>5. ASSUME NEW n \in Names \cup {NoName}, NEW m \in Message_Car
        PROVE  BuilderRequest(n, m) \in Requests
    <2>1. BuilderRequest(n, m) =
             [type |-> "BUILDER", name |-> n, builder |-> NoName, car |-> m,
              calculator |-> DefaultMessageCalculator]
      BY <1>2 DEF BuilderRequest
    <2> QED
      BY <1>1, <2>1 DEF Requests, RequestTypes
  <1>6. ASSUME NEW n \in Names \cup {NoName}, NEW b \in Names \cup {NoName}
        PROVE  BuildRequest(n, b) \in Requests
    <2>1. BuildRequest(n, b) =
             [type |-> "BUILD", name |-> n, builder |-> b,
              car |-> DefaultMessageCar,
              calculator |-> DefaultMessageCalculator]
      BY <1>2 DEF BuildRequest
    <2> QED
      BY <1>1, <2>1 DEF Requests, RequestTypes
  <1>7. ASSUME NEW n \in Names \cup {NoName},
               NEW m \in Message_Car_Calculator(Names \cup {NoName})
        PROVE  CalculatorRequest(n, m) \in Requests
    <2>1. CalculatorRequest(n, m) =
             [type |-> "CALCULATOR", name |-> n, builder |-> NoName,
              car |-> DefaultMessageCar, calculator |-> m]
      BY <1>2 DEF CalculatorRequest
    <2> QED
      BY <1>1, <2>1 DEF Requests, RequestTypes
  <1> QED
    BY <1>3, <1>4, <1>5, <1>6, <1>7

\* The constructors of replies.
LEMMA ReplyConstructors ==
    ASSUME NEW n \in Names \cup {NoName}
    PROVE  /\ IsReply(OkReply)
           /\ \A error \in Errors : IsReply(ErrorReply(error, n))
           /\ \A rate : IsReply(DoubleReply(rate))
  <1>1. IsReply(OkReply)
    BY DefaultTypes DEF IsReply, OkReply, Reply, ReplyTypes, Errors
  <1>2. ASSUME NEW error \in Errors PROVE IsReply(ErrorReply(error, n))
    BY DefaultTypes DEF IsReply, ErrorReply, Reply, ReplyTypes
  <1>3. ASSUME NEW rate PROVE IsReply(DoubleReply(rate))
    BY DefaultTypes DEF IsReply, DoubleReply, Reply, ReplyTypes, Errors
  <1> QED
    BY <1>1, <1>2, <1>3

LEMMA ObjectReplies ==
    ASSUME NEW n \in Names \cup {NoName}
    PROVE  /\ \A b \in Car : IsReply(BuilderReply(n, b))
           /\ \A car \in Car : IsReply(CarReply(n, car))
           /\ \A calc \in Car_Calculator, c \in Names \cup {NoName} :
                 IsReply(CalculatorReply(n, calc, c))
  <1>1. ASSUME NEW b \in Car PROVE IsReply(BuilderReply(n, b))
    BY MessageTypes, DefaultTypes
       DEF IsReply, BuilderReply, Reply, ReplyTypes, Errors
  <1>2. ASSUME NEW car \in Car PROVE IsReply(CarReply(n, car))
    BY MessageTypes, DefaultTypes
       DEF IsReply, CarReply, Reply, ReplyTypes, Errors
  <1>3. ASSUME NEW calc \in Car_Calculator, NEW c \in Names \cup {NoName}
        PROVE  IsReply(CalculatorReply(n, calc, c))
    <2>1. MessageOfCalculator(calc, c)
             \in Message_Car_Calculator(Names \cup {NoName})
      BY MessageOfCalculatorType
    <2> QED
      BY <2>1, DefaultTypes
         DEF IsReply, CalculatorReply, Reply, ReplyTypes, Errors
  <1> QED
    BY <1>1, <1>2, <1>3

\* The replies of the branches.
LEMMA NewBuilderReply ==
    ASSUME NEW s, IsStore(s), NEW r \in Requests
    PROVE  IsReply(NewBuilder(s, r).reply)
  <1> DEFINE b == BuilderUpdated(
                      Entry(s.car_builders, r.name, DefaultBuilder), r.car)
  <1>1. b \in Car
    <2>1. r.car \in Message_Car
      BY DEF Requests
    <2>2. Entry(s.car_builders, r.name, DefaultBuilder) \in Car
      BY EntryType, DefaultTypes DEF IsStore, Car_Builder
    <2> QED
      BY <2>1, <2>2, UpdatedTypes
  <1>2. NewBuilder(s, r).reply = BuilderReply(r.name, b)
    BY DEF NewBuilder, Result
  <1> HIDE DEF b
  <1> QED
    BY <1>1, <1>2, RequestNames, ObjectReplies

LEMMA BuildCarReply ==
    ASSUME NEW s, IsStore(s), NEW r \in Requests
    PROVE  IsReply(BuildCar(s, r).reply)
  <1> DEFINE b == s.car_builders[r.builder]
             e1 == ErrorReply("builder does not exist", r.builder)
             e2 == ErrorReply("builder failed building", BuildErrorName(s, r))
  <1>1. /\ r.name \in Names \cup {NoName}
        /\ r.builder \in Names \cup {NoName}
        /\ BuildErrorName(s, r) \in Names \cup {NoName}
    BY DEF Requests, BuildErrorName
  <1>2. r.builder \in DOMAIN s.car_builders => b \in Car
    BY DEF IsStore, IsMap, Car_Builder
  <1>3. IsReply(e1) /\ IsReply(e2)
    BY <1>1, ReplyConstructors DEF Errors
  <1>4. r.builder \in DOMAIN s.car_builders => IsReply(CarReply(r.name, b))
    BY <1>1, <1>2, ObjectReplies
  <1>5. \/ BuildCar(s, r).reply = e1
        \/ BuildCar(s, r).reply = e2
        \/ /\ r.builder \in DOMAIN s.car_builders
           /\ BuildCar(s, r).reply = CarReply(r.name, b)
    BY DEF BuildCar, Result
  <1> HIDE DEF b, e1, e2
  <1> QED
    BY <1>3, <1>4, <1>5

LEMMA CalculateReply ==
    ASSUME NEW s, NEW r \in Requests
    PROVE  IsReply(Calculate(s, r).reply)
  <1>1. r.name \in Names \cup {NoName}
    BY DEF Requests
  <1>2. /\ IsReply(ErrorReply("calculator does not exist", r.name))
        /\ IsReply(ErrorReply("calculator failed", r.name))
        /\ \A rate : IsReply(DoubleReply(rate))
    BY <1>1, ReplyConstructors DEF Errors
  <1> QED
    BY <1>2 DEF Calculate, Result

LEMMA NewCalculatorReply ==
    ASSUME NEW s, IsStore(s), NEW r \in Requests
    PROVE  IsReply(NewCalculator(s, r).reply)
  <1> DEFINE old == Entry(s.car_calculators, r.name, DefaultCalculator)
             calc == CalculatorUpdated(old, r.calculator)
             name == r.calculator.car
             withCar == WithCar(calc, s.cars[name])
             e == ErrorReply("car does not exist", name)
  <1>1. /\ r.calculator \in Message_Car_Calculator(Names \cup {NoName})
        /\ r.name \in Names \cup {NoName}
    BY DEF Requests
  <1>2. name \in Names \cup {NoName}
    BY <1>1 DEF Message_Car_Calculator
  <1>3. old \in Car_Calculator
    BY EntryType, DefaultTypes DEF IsStore
  <1> HIDE DEF old
  <1>4. calc \in Car_Calculator
    BY <1>1, <1>3, NoName \in Names \cup {NoName}, CalculatorTypes
  <1> HIDE DEF calc
  <1>5. name \in DOMAIN s.cars => withCar \in Car_Calculator
    BY <1>4 DEF WithCar, Car_Calculator, IsStore, IsMap
  <1>6. /\ IsReply(CalculatorReply(r.name, calc, NoName))
        /\ IsReply(e)
        /\ name \in DOMAIN s.cars =>
              IsReply(CalculatorReply(r.name, withCar, name))
    BY <1>1, <1>2, <1>4, <1>5, ReplyConstructors, ObjectReplies DEF Errors
  <1>7. \/ NewCalculator(s, r).reply = CalculatorReply(r.name, calc, NoName)
        \/ NewCalculator(s, r).reply = e
        \/ /\ name \in DOMAIN s.cars
           /\ NewCalculator(s, r).reply
                = CalculatorReply(r.name, withCar, name)
    BY DEF NewCalculator, Result, calc, old
  <1> HIDE DEF withCar, e, name
  <1> QED
    BY <1>6, <1>7

\* new_action on a well-formed store: the store stays well formed, the reply
\* is a message and shows the object that is stored.
LEMMA NewActionResult ==
    ASSUME NEW s, IsStore(s), IsCompleteStore(s), NEW r \in Requests
    PROVE  GoodResult(NewAction(s, r)) /\ IsReply(NewAction(s, r).reply)
  <1>1. /\ r.type \in RequestTypes /\ r.name \in Names \cup {NoName}
        /\ r.builder \in Names \cup {NoName} /\ r.car \in Message_Car
        /\ r.calculator \in Message_Car_Calculator(Names \cup {NoName})
    BY DEF Requests
  <1>2. CASE r.type = "HANDSHAKE"
    <2>1. NewAction(s, r) = Result(s, OkReply)
      BY <1>2 DEF NewAction
    <2>2. OkReply.type = "OK"
      BY DEF OkReply, Reply
    <2> QED
      BY <1>1, <2>1, <2>2, PlainReply, ReplyConstructors, ResultFields
  <1>3. CASE r.type = "GARBAGE"
    <2>1. NewAction(s, r) = Result(s, ErrorReply("parse error", NoName))
      BY <1>3 DEF NewAction
    <2>2. "parse error" \in Errors /\ NoName \in Names \cup {NoName}
      BY DEF Errors
    <2>3. IsReply(ErrorReply("parse error", NoName))
      BY <2>2, ReplyConstructors
    <2> QED
      BY <2>1, <2>3, ErrorIsPlain, ResultFields
  <1>4. CASE r.type = "NONE"
    <2>1. NewAction(s, r) = Result(s, ErrorReply("unknown type", NoName))
      BY <1>4 DEF NewAction
    <2>2. "unknown type" \in Errors /\ NoName \in Names \cup {NoName}
      BY DEF Errors
    <2>3. IsReply(ErrorReply("unknown type", NoName))
      BY <2>2, ReplyConstructors
    <2> QED
      BY <2>1, <2>3, ErrorIsPlain, ResultFields
  <1>5. CASE r.type = "BUILDER"
    <2>1. NewAction(s, r) = NewBuilder(s, r)
      BY <1>5 DEF NewAction
    <2> QED
      BY <1>1, <1>5, <2>1, NewBuilderResult, NewBuilderReply
  <1>6. CASE r.type = "BUILD"
    <2>1. NewAction(s, r) = BuildCar(s, r)
      BY <1>6 DEF NewAction
    <2> QED
      BY <1>1, <1>6, <2>1, BuildCarResult, BuildCarReply
  <1>7. CASE r.type = "CALCULATOR"
    <2>1. NewAction(s, r) = NewCalculator(s, r)
      BY <1>7 DEF NewAction
    <2> QED
      BY <1>1, <1>7, <2>1, NewCalculatorResult, NewCalculatorReply
  <1>8. CASE r.type \in {"CALC_INSURANCE", "CALC_LEASING"}
    <2>1. NewAction(s, r) = Calculate(s, r)
      BY <1>8 DEF NewAction
    <2> QED
      BY <2>1, CalculateResult, CalculateReply
  <1> QED
    BY <1>1, <1>2, <1>3, <1>4, <1>5, <1>6, <1>7, <1>8 DEF RequestTypes

\* A calculator's car changes only to the car that a CALCULATOR request names.
LEMMA NewActionCalculatorCar ==
    ASSUME NEW s, IsStore(s), IsCompleteStore(s), NEW r \in Requests,
           NEW n \in DOMAIN s.car_calculators,
           NewAction(s, r).store.car_calculators[n].car
              # s.car_calculators[n].car
    PROVE  /\ r.type = "CALCULATOR" /\ r.name = n
           /\ r.calculator.car \in DOMAIN s.cars
           /\ NewAction(s, r).store.car_calculators[n].car
                 = s.cars[r.calculator.car]
  <1>1. r.type \in RequestTypes
    BY DEF Requests
  <1>2. r.type = "CALCULATOR"
    <2>1. CASE r.type \in {"HANDSHAKE", "GARBAGE", "NONE"}
      BY <2>1, ResultFields DEF NewAction
    <2>2. CASE r.type = "BUILDER"
      <3>1. NewAction(s, r) = NewBuilder(s, r)
        BY <2>2 DEF NewAction
      <3> QED
        BY <1>1, <2>2, <3>1, NewBuilderResult
    <2>3. CASE r.type = "BUILD"
      <3>1. NewAction(s, r) = BuildCar(s, r)
        BY <2>3 DEF NewAction
      <3> QED
        BY <1>1, <2>3, <3>1, BuildCarResult
    <2>4. CASE r.type \in {"CALC_INSURANCE", "CALC_LEASING"}
      <3>1. NewAction(s, r) = Calculate(s, r)
        BY <2>4 DEF NewAction
      <3> QED
        BY <3>1, CalculateResult
    <2> QED
      BY <1>1, <2>1, <2>2, <2>3, <2>4 DEF RequestTypes
  <1>3. NewAction(s, r) = NewCalculator(s, r)
    BY <1>2 DEF NewAction
  <1> QED
    BY <1>1, <1>2, <1>3, NewCalculatorResult
-----------------------------------------------------------------------------
(* What a request that is answered with an error leaves alone. *)

\* Cars, builders and the cars of the calculators are the same in s and t.
SameStoredCars(s, t) ==
    /\ t.cars = s.cars
    /\ t.car_builders = s.car_builders
    /\ \A n \in DOMAIN s.car_calculators :
          t.car_calculators[n].car = s.car_calculators[n].car

\* The replies that show something are no errors.
LEMMA ObjectRepliesAreNoErrors ==
    /\ OkReply.type # "ERROR"
    /\ \A n, b : BuilderReply(n, b).type # "ERROR"
    /\ \A n, car : CarReply(n, car).type # "ERROR"
    /\ \A n, calc, c : CalculatorReply(n, calc, c).type # "ERROR"
  BY DEF OkReply, BuilderReply, CarReply, CalculatorReply, Reply

\* case CALCULATOR reports an unknown car after the scalar fields are stored.
LEMMA NewCalculatorError ==
    ASSUME NEW s, IsStore(s), NEW r \in Requests,
           NewCalculator(s, r).reply.type = "ERROR"
    PROVE  SameStoredCars(s, NewCalculator(s, r).store)
  <1> DEFINE old == Entry(s.car_calculators, r.name, DefaultCalculator)
             calc == CalculatorUpdated(old, r.calculator)
             name == r.calculator.car
             m == Put(s.car_calculators, r.name, calc)
  <1>1. /\ old \in Car_Calculator
        /\ r.name \in DOMAIN s.car_calculators
              => old = s.car_calculators[r.name]
    BY EntryType, DefaultTypes DEF IsStore, Entry
  <1>2. r.calculator \in Message_Car_Calculator(Names \cup {NoName})
    BY DEF Requests
  <1>3. calc \in Car_Calculator /\ calc.car = old.car
    BY <1>1, <1>2, CalculatorTypes, NoName \in Names \cup {NoName}
  <1> DEFINE withCar == WithCar(calc, s.cars[name])
             e == ErrorReply("car does not exist", name)
             Store(k) == WithCalculators(s, Put(s.car_calculators, r.name, k))
             reply(k, c) == CalculatorReply(r.name, k, c)
  <1>4. NewCalculator(s, r).store = WithCalculators(s, m)
    <2>1. \/ NewCalculator(s, r) = Result(Store(calc), reply(calc, NoName))
          \/ NewCalculator(s, r) = Result(Store(withCar), reply(withCar, name))
          \/ NewCalculator(s, r) = Result(Store(calc), e)
      BY DEF NewCalculator
    <2>2. Store(calc) = WithCalculators(s, m)
      OBVIOUS
    <2>3. \A k, c : reply(k, c).type # "ERROR"
      BY ObjectRepliesAreNoErrors
    <2> HIDE DEF Store, reply, calc, old, withCar, e, m
    <2> QED
      BY <2>1, <2>2, <2>3, ResultFields
  <1> HIDE DEF calc, old
  <1>5. IsMap(m, Car_Calculator)
    BY <1>3, RequestNames, PutType DEF IsStore
  <1>6. /\ m[r.name] = calc
        /\ \A x \in DOMAIN s.car_calculators :
              x # r.name => m[x] = s.car_calculators[x]
    BY PutEntry, PutOther
  <1>7. \A n \in DOMAIN s.car_calculators : m[n].car = s.car_calculators[n].car
    BY <1>1, <1>3, <1>6
  <1> HIDE DEF m
  <1>8. /\ WithCalculators(s, m).cars = s.cars
        /\ WithCalculators(s, m).car_builders = s.car_builders
        /\ WithCalculators(s, m).car_calculators = m
    BY <1>5, StoreAssigned
  <1> QED
    BY <1>4, <1>7, <1>8 DEF SameStoredCars

LEMMA NewActionError ==
    ASSUME NEW s, IsStore(s), NEW r \in Requests,
           NewAction(s, r).reply.type = "ERROR"
    PROVE  SameStoredCars(s, NewAction(s, r).store)
  <1>1. r.type \in RequestTypes
    BY DEF Requests
  <1>2. \A reply : SameStoredCars(s, Result(s, reply).store)
    BY ResultFields DEF SameStoredCars
  <1>3. CASE r.type \in {"HANDSHAKE", "GARBAGE", "NONE"}
    BY <1>2, <1>3 DEF NewAction
  <1>4. CASE r.type = "BUILDER"
    BY <1>4, ObjectRepliesAreNoErrors, ResultFields DEF NewAction, NewBuilder
  <1>5. CASE r.type = "BUILD"
    <2>1. NewAction(s, r) = BuildCar(s, r)
      BY <1>5 DEF NewAction
    <2> DEFINE b == s.car_builders[r.builder]
               built == WithCars(s, Put(s.cars, r.name, b))
    <2>2. \/ \E reply : BuildCar(s, r) = Result(s, reply)
          \/ BuildCar(s, r) = Result(built, CarReply(r.name, b))
      BY Zenon DEF BuildCar
    <2> HIDE DEF built, b
    <2>3. CarReply(r.name, b).type # "ERROR"
      BY ObjectRepliesAreNoErrors
    <2> QED
      BY <1>2, <2>1, <2>2, <2>3, ResultFields
  <1>6. CASE r.type = "CALCULATOR"
    <2>1. NewAction(s, r) = NewCalculator(s, r)
      BY <1>6 DEF NewAction
    <2> QED
      BY <1>1, <1>6, <2>1, NewCalculatorError
  <1>7. CASE r.type \in {"CALC_INSURANCE", "CALC_LEASING"}
    <2>1. NewAction(s, r) = Calculate(s, r)
      BY <1>7 DEF NewAction
    <2> QED
      BY <1>2, <2>1 DEF Calculate
  <1> QED
    BY <1>1, <1>3, <1>4, <1>5, <1>6, <1>7 DEF RequestTypes
=============================================================================
