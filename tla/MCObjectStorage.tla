--------------------------- MODULE MCObjectStorage ---------------------------
(***************************************************************************)
(* A small instance of ObjectStorage for TLC: two names and the messages   *)
(* that tell the branches of the code apart.                               *)
(***************************************************************************)
EXTENDS ObjectStorage, FiniteSets, TLC

MessageCar(ps, value, fuel) ==
    [DefaultMessageCar EXCEPT !.ps = ps, !.purchase_value = value,
                              !.fuel_type = fuel]

\* A complete car, one with an enumerator this program does not know, and a
\* ps that is narrowed to 0 by the storage (65536).
MCCarMessages == {MessageCar(100, 2, "DIESEL"), MessageCar(65637, 1, "UNKNOWN"),
                  MessageCar(65536, 2, "PETROL")}

\* The default calculator, and one for which both rates can be computed.
MCCalculatorMessages ==
    {MessageOfCalculator(DefaultCalculator, NoName),
     [DefaultMessageCalculator EXCEPT !.leasing_duration = 65539,
                                      !.insurance_class = 2,
                                      !.rest_value = 1]}

\* At most two of the three names, of which one is empty, are in use.
TwoNames == Cardinality(DOMAIN store.cars \cup DOMAIN store.car_builders
                           \cup DOMAIN store.car_calculators) <= 2

Symmetry == Permutations(Names)
=============================================================================
