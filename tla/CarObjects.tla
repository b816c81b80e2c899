------------------------------ MODULE CarObjects ------------------------------
(***************************************************************************)
(* The value objects that client and server share and the protobuf         *)
(* messages that carry them: Car, Car_Builder and Car_Calculator           *)
(* (src/src/car.cpp, car_builder.cpp, car_calculator.cpp).  Every method   *)
(* that reads or writes a field is an operator; nothing here has state.    *)
(*                                                                         *)
(* A double is a natural number of which only equality matters (the code   *)
(* compares doubles with 0 and DBL_MAX only).  A short unsigned int is a   *)
(* number below 2^16 and is narrowed where the code narrows it.            *)
(***************************************************************************)
EXTENDS Naturals

CONSTANTS DBL_MAX,                \* the double that marks an unset amount
          ANNUAL_INTEREST_RATE    \* the double 0.0201

ASSUME DoublesAssumption == /\ DBL_MAX \in Nat \ {0}
                            /\ ANNUAL_INTEREST_RATE \in Nat

Double == Nat
USHRT_MAX == 65535
UShorts == 0 .. USHRT_MAX

\* Mutant: the attribute is as wide as the number of the message.
UShortMutant(n) == n

\* The conversion of a wider unsigned number to short unsigned int.
UShort(n) == n % (USHRT_MAX + 1)

-----------------------------------------------------------------------------
(* Enumerations: the C++ enum classes and the enums of car.proto.  A proto3  *)
(* enum is open: "UNKNOWN" stands for every number outside the declared ones.*)

Car_Types  == {"NONE", "SEDAN", "COUPE", "SPORTS_CAR", "HATCHBACK", "SUV",
               "MINIVAN", "PICKUP_TRUCK"}
Car_Brands == {"NONE", "VW", "AUDI", "MERCEDES", "BMW", "SKODA", "SEAT"}
Fuel_Type  == {"NONE", "PETROL", "DIESEL", "NATURAL_GAS", "ELECTRONIC"}

Message_Car_Types  == (Car_Types \ {"NONE"}) \cup {"CAR_NONE", "UNKNOWN"}
Message_Car_Brands == (Car_Brands \ {"NONE"}) \cup {"BRAND_NONE", "UNKNOWN"}
Message_Fuel_Type  == (Fuel_Type \ {"NONE"}) \cup {"FUEL_NONE", "UNKNOWN"}

\* A switch over the enumerators other than NONE; "default" is its last branch.
Switch(enum, default, e) == IF e \in enum \ {"NONE"} THEN e ELSE default

-----------------------------------------------------------------------------
(* The six attributes of a Car, of a Car_Builder and of a Message_Car. *)

Car == [ps : UShorts, driven_kilometers : Nat, purchase_value : Double,
        fuel_type : Fuel_Type, car_type : Car_Types, brand : Car_Brands]

Car_Builder == Car

Message_Car == [ps : Nat, driven_kilometers : Nat, purchase_value : Double,
                fuel_type : Message_Fuel_Type, car_type : Message_Car_Types,
                brand : Message_Car_Brands]

\* The member initialisers of Car_Builder and of Car_Calculator's car.
DefaultBuilder == [ps |-> 0, driven_kilometers |-> 0, purchase_value |-> 0,
                   fuel_type |-> "NONE", car_type |-> "NONE", brand |-> "NONE"]
NoCar == DefaultBuilder

\* What the protobuf accessor car() returns when the field is not set.
DefaultMessageCar == [ps |-> 0, driven_kilometers |-> 0, purchase_value |-> 0,
                      fuel_type |-> "FUEL_NONE", car_type |-> "CAR_NONE",
                      brand |-> "BRAND_NONE"]

\* The setters of Car_Builder that a command of the Repl calls.
WithPs(b, ps)              == [b EXCEPT !.ps = UShort(ps)]
WithDrivenKilometers(b, k) == [b EXCEPT !.driven_kilometers = k]
WithPurchaseValue(b, v)    == [b EXCEPT !.purchase_value = v]
WithFuelType(b, f)         == [b EXCEPT !.fuel_type = f]
WithCarType(b, t)          == [b EXCEPT !.car_type = t]
WithBrand(b, brand)        == [b EXCEPT !.brand = brand]

\* Car::operator bool
IsCar(car) == car.ps # 0 /\ car.purchase_value # 0

\* Mutant: only the price is checked.
BuiltCarsMutant(b) == IF b.purchase_value = 0 THEN {} ELSE {b}

\* Car_Builder::build(): nullopt is the empty set.
BuiltCars(b) == IF b.ps = 0 \/ b.purchase_value = 0 THEN {} ELSE {b}

\* Car::get_proto_message
MessageOfCar(car) ==
    [ps |-> car.ps, driven_kilometers |-> car.driven_kilometers,
     purchase_value |-> car.purchase_value,
     fuel_type |-> Switch(Fuel_Type, "FUEL_NONE", car.fuel_type),
     car_type |-> Switch(Car_Types, "CAR_NONE", car.car_type),
     brand |-> Switch(Car_Brands, "BRAND_NONE", car.brand)]

\* Car_Builder::get_proto_message
MessageOfBuilder(b) ==
    [driven_kilometers |-> b.driven_kilometers, ps |-> b.ps,
     purchase_value |-> b.purchase_value,
     brand |-> Switch(Car_Brands, "BRAND_NONE", b.brand),
     car_type |-> Switch(Car_Types, "CAR_NONE", b.car_type),
     fuel_type |-> Switch(Fuel_Type, "FUEL_NONE", b.fuel_type)]

\* Car::Car(Message_Car)
CarOfMessage(m) ==
    [ps |-> UShort(m.ps), driven_kilometers |-> m.driven_kilometers,
     purchase_value |-> m.purchase_value,
     fuel_type |-> Switch(Fuel_Type, "NONE", m.fuel_type),
     car_type |-> Switch(Car_Types, "NONE", m.car_type),
     brand |-> Switch(Car_Brands, "NONE", m.brand)]

\* Mutant: one attribute is forgotten.
CarUpdatedMutant(car, m) == [CarOfMessage(m) EXCEPT
                                !.driven_kilometers = car.driven_kilometers]

\* Car::update_car_from_proto_message
CarUpdated(car, m) ==
    [car EXCEPT !.driven_kilometers = m.driven_kilometers,
                !.ps = UShort(m.ps),
                !.purchase_value = m.purchase_value,
                !.brand = Switch(Car_Brands, "NONE", m.brand),
                !.car_type = Switch(Car_Types, "NONE", m.car_type),
                !.fuel_type = Switch(Fuel_Type, "NONE", m.fuel_type)]

\* Car_Builder::update_car_builder_from_proto_message
BuilderUpdated(b, m) ==
    [b EXCEPT !.driven_kilometers = m.driven_kilometers,
              !.ps = UShort(m.ps),
              !.purchase_value = m.purchase_value,
              !.brand = Switch(Car_Brands, "NONE", m.brand),
              !.car_type = Switch(Car_Types, "NONE", m.car_type),
              !.fuel_type = Switch(Fuel_Type, "NONE", m.fuel_type)]

-----------------------------------------------------------------------------
(* Car_Calculator keeps a copy of a car, not its name; the message carries   *)
(* the name of a car ("" for none) beside the scalar fields.                 *)

Car_Calculator ==
    [car : Car, leasing_duration : UShorts, insurance_class : UShorts,
     rest_value : Double, deposit : Double, annual_interest_rate : Double,
     is_over_24 : BOOLEAN]

Message_Car_Calculator(CarNames) ==
    [car : CarNames, leasing_duration : Nat, insurance_class : Nat,
     rest_value : Double, deposit : Double, annual_interest_rate : Double,
     is_over_24 : BOOLEAN]

DefaultCalculator ==
    [car |-> NoCar, leasing_duration |-> 0, insurance_class |-> USHRT_MAX,
     rest_value |-> DBL_MAX, deposit |-> DBL_MAX,
     annual_interest_rate |-> ANNUAL_INTEREST_RATE, is_over_24 |-> TRUE]

DefaultMessageCalculator ==
    [car |-> "", leasing_duration |-> 0, insurance_class |-> 0,
     rest_value |-> 0, deposit |-> 0, annual_interest_rate |-> 0,
     is_over_24 |-> FALSE]

\* Car_Calculator::set_car
WithCar(calc, c) == [calc EXCEPT !.car = c]

\* The other setters of Car_Calculator.
WithLeasingDuration(calc, d) == [calc EXCEPT !.leasing_duration = UShort(d)]
WithInsuranceClass(calc, i)  == [calc EXCEPT !.insurance_class = UShort(i)]
WithRestValue(calc, v)       == [calc EXCEPT !.rest_value = v]
WithDeposit(calc, v)         == [calc EXCEPT !.deposit = v]
WithAge(calc, over24)        == [calc EXCEPT !.is_over_24 = over24]

\* Car_Calculator::get_proto_message, called with the name of a car.
MessageOfCalculator(calc, carName) ==
    [deposit |-> calc.deposit, insurance_class |-> calc.insurance_class,
     annual_interest_rate |-> calc.annual_interest_rate,
     is_over_24 |-> calc.is_over_24,
     leasing_duration |-> calc.leasing_duration,
     rest_value |-> calc.rest_value, car |-> carName]

\* Car_Calculator::update_car_calculator_from_proto_message: the car stays.
CalculatorUpdated(calc, m) ==
    [calc EXCEPT !.deposit = m.deposit,
                 !.insurance_class = UShort(m.insurance_class),
                 !.leasing_duration = UShort(m.leasing_duration),
                 !.annual_interest_rate = m.annual_interest_rate,
                 !.rest_value = m.rest_value,
                 !.is_over_24 = m.is_over_24]

\* A rate is the tuple of the inputs its formula reads; nullopt is << >>.
NoRate == << >>

\* Car_Calculator::calculate_insurance_rate
InsuranceRate(calc) ==
    IF ~IsCar(calc.car) \/ calc.insurance_class = USHRT_MAX
    THEN NoRate
    ELSE <<calc.car.purchase_value, calc.car.ps, calc.insurance_class,
           calc.is_over_24>>

\* Car_Calculator::calculate_leasing_rate
LeasingRate(calc) ==
    IF \/ ~IsCar(calc.car)
       \/ calc.rest_value = DBL_MAX
       \/ calc.leasing_duration = 0
       \/ calc.deposit = DBL_MAX
    THEN NoRate
    ELSE <<calc.car.purchase_value, calc.deposit, calc.rest_value,
           calc.leasing_duration, calc.annual_interest_rate>>
=============================================================================
