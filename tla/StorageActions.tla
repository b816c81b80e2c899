---------------------------- MODULE StorageActions ----------------------------
(***************************************************************************)
(* Object_Storage::new_action (src/src/server/object_storage.cpp): what one *)
(* request of a client does to the three maps of a storage and what is      *)
(* replied, as operators on a store.  ObjectStorage gives them a state,     *)
(* Session and Server run them behind a connection.                         *)
(***************************************************************************)
EXTENDS CarObjects

CONSTANT Names      \* the names a user can give to objects

NoName == ""        \* the default of a protobuf string field

ASSUME NamesAssumption == NoName \notin Names

-----------------------------------------------------------------------------
(* std::map<string, T>.  An object has the empty name when the message that  *)
(* creates it has lost the field with the name: see Beginnings in Session.   *)

IsMap(m, T) == /\ DOMAIN m \subseteq Names \cup {NoName}
               /\ \A n \in DOMAIN m : m[n] \in T

EmptyMap == [n \in {} |-> n]

\* insert_or_assign(n, v)
Put(m, n, v) == [x \in DOMAIN m \cup {n} |-> IF x = n THEN v ELSE m[x]]

\* Mutant: the object is constructed anew every time.
EntryMutant(m, n, d) == d

\* The entry of n, or the freshly constructed object d when there is none.
Entry(m, n, d) == IF n \in DOMAIN m THEN m[n] ELSE d

\* The three maps of an Object_Storage, and of a Repl.
IsStore(s) == /\ s = [cars |-> s.cars, car_builders |-> s.car_builders,
                      car_calculators |-> s.car_calculators]
              /\ IsMap(s.cars, Car)
              /\ IsMap(s.car_builders, Car_Builder)
              /\ IsMap(s.car_calculators, Car_Calculator)

\* The store s after an assignment to one of its maps.
WithCars(s, m) == [s EXCEPT !.cars = m]
WithBuilders(s, m) == [s EXCEPT !.car_builders = m]
WithCalculators(s, m) == [s EXCEPT !.car_calculators = m]

EmptyStore == [cars |-> EmptyMap, car_builders |-> EmptyMap,
               car_calculators |-> EmptyMap]

-----------------------------------------------------------------------------
(* Requests.  HANDSHAKE is the empty message, GARBAGE one that does not      *)
(* parse, NONE stands for every type number the switch does not list.        *)

RequestTypes == {"HANDSHAKE", "GARBAGE", "NONE", "BUILDER", "CALCULATOR",
                 "BUILD", "CALC_LEASING", "CALC_INSURANCE"}

\* Fields that were not set have their protobuf default, and so have those
\* behind the place where a lost connection cut the request.
Requests ==
    [type : RequestTypes, name : Names \cup {NoName},
     builder : Names \cup {NoName}, car : Message_Car,
     calculator : Message_Car_Calculator(Names \cup {NoName})]

Request(type, name) ==
    [type |-> type, name |-> name, builder |-> NoName,
     car |-> DefaultMessageCar, calculator |-> DefaultMessageCalculator]

Handshake == Request("HANDSHAKE", NoName)

BuilderRequest(n, m) == [Request("BUILDER", n) EXCEPT !.car = m]
BuildRequest(n, b) == [Request("BUILD", n) EXCEPT !.builder = b]
CalculatorRequest(n, m) == [Request("CALCULATOR", n) EXCEPT !.calculator = m]

-----------------------------------------------------------------------------
(* Replies.  The text of an error is the kind of error and the name it       *)
(* mentions; OK is the literal string "ok".                                  *)

Errors == {"none", "parse error", "unknown type", "builder does not exist",
           "builder failed building", "calculator does not exist",
           "calculator failed", "car does not exist"}

ReplyTypes == {"OK", "BUILDER", "CALCULATOR", "CAR", "DOUBLE", "ERROR"}

IsReply(reply) ==
    /\ reply = [type |-> reply.type, text |-> reply.text,
                error |-> reply.error, value |-> reply.value,
                car |-> reply.car, calculator |-> reply.calculator]
    /\ reply.type \in ReplyTypes
    /\ reply.text \in Names \cup {NoName}
    /\ reply.error \in Errors
    /\ reply.car \in Message_Car
    /\ reply.calculator \in Message_Car_Calculator(Names \cup {NoName})

Reply(type, text) ==
    [type |-> type, text |-> text, error |-> "none", value |-> NoRate,
     car |-> DefaultMessageCar, calculator |-> DefaultMessageCalculator]

OkReply == Reply("OK", NoName)
ErrorReply(error, name) == [Reply("ERROR", name) EXCEPT !.error = error]
BuilderReply(n, b) == [Reply("BUILDER", n) EXCEPT !.car = MessageOfBuilder(b)]
CarReply(n, car) == [Reply("CAR", n) EXCEPT !.car = MessageOfCar(car)]
CalculatorReply(n, calc, carName) ==
    [Reply("CALCULATOR", n) EXCEPT
        !.calculator = MessageOfCalculator(calc, carName)]
DoubleReply(rate) == [Reply("DOUBLE", NoName) EXCEPT !.value = rate]

-----------------------------------------------------------------------------
(* The branches of new_action: the store and the reply after request r. *)

Result(s, reply) == [store |-> s, reply |-> reply]

\* Mutant: a copy of an existing builder is updated.
NewBuilderMutant(s, r) ==
    LET b == BuilderUpdated(Entry(s.car_builders, r.name, DefaultBuilder), r.car)
    IN  Result(WithBuilders(s, Put(s.car_builders, r.name,
                                   Entry(s.car_builders, r.name, b))),
               BuilderReply(r.name, b))

\* case BUILDER: an existing builder is updated, another one created.
NewBuilder(s, r) ==
    LET b == BuilderUpdated(Entry(s.car_builders, r.name, DefaultBuilder), r.car)
    IN  Result(WithBuilders(s, Put(s.car_builders, r.name, b)),
               BuilderReply(r.name, b))

\* The name that the error text of a failed build mentions: the car's when the
\* car already exists, the builder's otherwise.
BuildErrorName(s, r) == IF r.name \in DOMAIN s.cars THEN r.name ELSE r.builder

\* case BUILD
BuildCar(s, r) ==
    IF r.builder \notin DOMAIN s.car_builders
    THEN Result(s, ErrorReply("builder does not exist", r.builder))
    ELSE LET b == s.car_builders[r.builder]
         IN  IF BuiltCars(b) = {}
             THEN Result(s, ErrorReply("builder failed building",
                                       BuildErrorName(s, r)))
             ELSE Result(WithCars(s, Put(s.cars, r.name, b)),
                         CarReply(r.name, b))

\* The rate that a request of type CALC_INSURANCE or CALC_LEASING asks for.
Rate(type, calc) ==
    IF type = "CALC_LEASING" THEN LeasingRate(calc) ELSE InsuranceRate(calc)

\* cases CALC_INSURANCE and CALC_LEASING
Calculate(s, r) ==
    Result(s,
        IF r.name \notin DOMAIN s.car_calculators
        THEN ErrorReply("calculator does not exist", r.name)
        ELSE LET rate == Rate(r.type, s.car_calculators[r.name])
             IN  IF rate = NoRate THEN ErrorReply("calculator failed", r.name)
                 ELSE DoubleReply(rate))

\* Mutant: looking up the car with operator[] creates it.
NewCalculatorMutant(s, r) ==
    LET calc == CalculatorUpdated(
                    Entry(s.car_calculators, r.name, DefaultCalculator),
                    r.calculator)
        carName == r.calculator.car
        withCar == WithCar(calc, Entry(s.cars, carName, NoCar))
    IN  IF carName = NoName
        THEN Result(WithCalculators(s, Put(s.car_calculators, r.name, calc)),
                    CalculatorReply(r.name, calc, NoName))
        ELSE Result(WithCalculators(
                        WithCars(s, Put(s.cars, carName, withCar.car)),
                        Put(s.car_calculators, r.name, calc)),
                    ErrorReply("car does not exist", carName))

\* case CALCULATOR: the fields are stored before the car is looked up, so an
\* unknown car is reported after the calculator has changed.
NewCalculator(s, r) ==
    LET calc == CalculatorUpdated(
                    Entry(s.car_calculators, r.name, DefaultCalculator),
                    r.calculator)
        carName == r.calculator.car
        Store(c) == WithCalculators(s, Put(s.car_calculators, r.name, c))
    IN  IF carName = NoName
        THEN Result(Store(calc), CalculatorReply(r.name, calc, NoName))
        ELSE IF carName \in DOMAIN s.cars
        THEN LET withCar == WithCar(calc, s.cars[carName])
             IN  Result(Store(withCar),
                        CalculatorReply(r.name, withCar, carName))
        ELSE Result(Store(calc), ErrorReply("car does not exist", carName))

\* new_action
NewAction(s, r) ==
    CASE r.type = "HANDSHAKE"      -> Result(s, OkReply)
      [] r.type = "GARBAGE"        -> Result(s, ErrorReply("parse error", NoName))
      [] r.type = "BUILDER"        -> NewBuilder(s, r)
      [] r.type = "BUILD"          -> BuildCar(s, r)
      [] r.type \in {"CALC_INSURANCE", "CALC_LEASING"} -> Calculate(s, r)
      [] r.type = "CALCULATOR"     -> NewCalculator(s, r)
      [] OTHER                     -> Result(s, ErrorReply("unknown type", NoName))

-----------------------------------------------------------------------------
(* What a store and a reply promise.  A client relies on it, ObjectStorage   *)
(* checks it.                                                                *)

\* Cars are complete, and a calculator has a complete car or none.
IsCompleteStore(s) ==
    /\ \A n \in DOMAIN s.cars : IsCar(s.cars[n])
    /\ \A n \in DOMAIN s.car_calculators :
          LET car == s.car_calculators[n].car
          IN  car = NoCar \/ IsCar(car)

\* Decoding the object of a reply gives the object of the store.
ShowsObject(reply, s) ==
    /\ reply.type = "BUILDER" =>
          /\ reply.text \in DOMAIN s.car_builders
          /\ BuilderUpdated(DefaultBuilder, reply.car)
                = s.car_builders[reply.text]
    /\ reply.type = "CAR" =>
          /\ reply.text \in DOMAIN s.cars
          /\ CarOfMessage(reply.car) = s.cars[reply.text]
    /\ reply.type = "CALCULATOR" =>
          /\ reply.text \in DOMAIN s.car_calculators
          /\ LET calc == s.car_calculators[reply.text]
             IN  /\ CalculatorUpdated(calc, reply.calculator) = calc
                 /\ reply.calculator.car # NoName =>
                        calc.car = s.cars[reply.calculator.car]
=============================================================================
