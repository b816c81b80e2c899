----------------------------- MODULE ObjectStorage -----------------------------
(***************************************************************************)
(* One Object_Storage of the server: the state that the handler thread of  *)
(* one connection owns, with one action per kind of request.  Any request  *)
(* a peer can put on the wire may arrive in any order, also the beginning  *)
(* of one that a lost connection has cut before its name.                  *)
(***************************************************************************)
EXTENDS StorageActions

CONSTANTS CarMessages,         \* the Message_Car values that may arrive
          CalculatorMessages   \* the Message_Car_Calculator values, car unset

ASSUME MessagesAssumption ==
    /\ CarMessages \subseteq Message_Car
    /\ CalculatorMessages \subseteq Message_Car_Calculator({NoName})

VARIABLES store,     \* the maps cars, car_builders and car_calculators
          request,   \* the last request handled
          reply      \* what new_action returned for it

vars == <<store, request, reply>>

Init == /\ store = EmptyStore
        /\ request = Handshake
        /\ reply = OkReply

\* new_action(r)
Handle(r) == LET result == NewAction(store, r)
             IN  /\ request' = r
                 /\ reply' = result.reply
                 /\ store' = result.store

Shake == Handle(Handshake)
Unusable == \E type \in {"GARBAGE", "NONE"} : Handle(Request(type, NoName))
UpdateBuilder == \E n \in Names \cup {NoName}, m \in CarMessages :
                    Handle(BuilderRequest(n, m))
Build == \E n, b \in Names \cup {NoName} : Handle(BuildRequest(n, b))
CalcInsurance ==
    \E n \in Names \cup {NoName} : Handle(Request("CALC_INSURANCE", n))
CalcLeasing ==
    \E n \in Names \cup {NoName} : Handle(Request("CALC_LEASING", n))
UpdateCalculator ==
    \E n, c \in Names \cup {NoName}, m \in CalculatorMessages :
        Handle(CalculatorRequest(n, [m EXCEPT !.car = c]))

Next == \/ Shake \/ Unusable
        \/ UpdateBuilder \/ Build
        \/ UpdateCalculator \/ CalcInsurance \/ CalcLeasing

Spec == Init /\ [][Next]_vars

-----------------------------------------------------------------------------
\* The three maps are typed, and request and reply are messages.
TypeOK == /\ IsStore(store)
          /\ request \in Requests
          /\ IsReply(reply)

\* No half-configured car is ever stored: every car of the map was complete
\* when it was built, and a calculator has either such a car or none at all,
\* so that the rates are never computed from a car without ps or price.
CarsAreComplete == IsCompleteStore(store)

\* What a client reads out of a reply is what the storage holds: decoding the
\* message of the reply gives the stored object again, whatever was narrowed
\* or defaulted when the request was applied.
ReplyShowsStoredObject == ShowsObject(reply, store)

\* An error leaves every car and every builder alone, and no calculator's car
\* changes: the only trace an error may leave is a calculator's scalar fields.
ErrorsKeepObjects ==
    [][reply'.type = "ERROR" =>
          /\ store'.cars = store.cars
          /\ store'.car_builders = store.car_builders
          /\ \A n \in DOMAIN store.car_calculators :
                store'.car_calculators[n].car = store.car_calculators[n].car
      ]_vars

\* A calculator owns a copy of a car: it changes only when a request names that
\* calculator and an existing car, and is then the car as it is at that moment.
\* Rebuilding the car or resetting the calculator does not reach the copy.
CalculatorCarIsACopy ==
    [][\A n \in DOMAIN store.car_calculators :
          LET old == store.car_calculators[n].car
              new == store'.car_calculators[n].car
          IN  new # old =>
                /\ request'.type = "CALCULATOR" /\ request'.name = n
                /\ request'.calculator.car \in DOMAIN store.cars
                /\ new = store.cars[request'.calculator.car]
      ]_vars
=============================================================================
