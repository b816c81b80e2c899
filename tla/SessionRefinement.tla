--------------------------- MODULE SessionRefinement ---------------------------
(***************************************************************************)
(* Session implements RemoteStorage: the refinement mapping.               *)
(***************************************************************************)
EXTENDS Session

\* While a call waits, what is on the wire is the request asked or its answer;
\* what a replay sends and receives is nobody's business but the connection's.
Pending == IF pc = "await" THEN toServer ELSE {}
Answer  == IF pc = "await" THEN toClient ELSE {}

\* The storage that never forgets is the one the log stands for.  Its last
\* message has not been executed as long as it is on its way to the server.
Store == IF Pending # {} THEN snapshots[Len(messages) - 1] ELSE Expected

\* An edit of the user changes attributes of builders and calculators only.
SameObjects(m, n) ==
    /\ n.cars = m.cars
    /\ DOMAIN n.car_builders = DOMAIN m.car_builders
    /\ DOMAIN n.car_calculators = DOMAIN m.car_calculators

Remote == INSTANCE RemoteStorage
          WITH asked <- messages, store <- Store, pending <- Pending,
               answer <- Answer, view <- mirror

\* However often the connection breaks, even within a replay, every message is
\* executed as if there were one storage that never forgets: once, in order,
\* and also when its reply was lost; and the mirror changes by that reply, by a
\* beginning of it, or not at all (send_message, repl_functions.cpp:130-213).
RemoteSpec == Remote!Spec
=============================================================================
