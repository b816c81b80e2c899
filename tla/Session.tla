-------------------------------- MODULE Session --------------------------------
(***************************************************************************)
(* One Repl (src/src/client/repl_functions.cpp, repl_constructor.cpp), its *)
(* TCP connection, and the handler thread at the other end with its        *)
(* Object_Storage.  The Repl mirrors the objects of the server, logs every *)
(* message it sends, and after a broken connection replays the log to the  *)
(* empty storage of a new connection.                                      *)
(*                                                                         *)
(* send_message is cut where another party can interfere: the write, the   *)
(* wait for the reply, the prompt, and every message of the replay.        *)
(***************************************************************************)
EXTENDS StorageActions, Sequences

CONSTANTS BuilderNames, CarNames, CalculatorNames,   \* names the user gives
          PsInputs, KilometerInputs, ValueInputs,    \* numbers the user types
          FuelInputs, TypeInputs, BrandInputs,       \* enumerators he types
          DurationInputs, ClassInputs, AmountInputs, AgeInputs,
          Unreadable,       \* names of which the last character was cut
          CutNumbers,       \* what a number of which digits were cut reads as
          MaxMessages,      \* bound on the length of the log
          MaxDrops          \* bound on the number of lost connections

ASSUME SessionAssumption ==
    /\ BuilderNames \cup CarNames \cup CalculatorNames
          \subseteq Names \ Unreadable
    /\ Unreadable \subseteq Names /\ CutNumbers \subseteq Nat \ {0}
    /\ PsInputs \cup KilometerInputs \cup DurationInputs \cup ClassInputs
          \subseteq Nat
    /\ ValueInputs \cup AmountInputs \subseteq Double
    /\ FuelInputs \subseteq Fuel_Type
    /\ TypeInputs \subseteq Car_Types
    /\ BrandInputs \subseteq Car_Brands
    /\ AgeInputs \subseteq BOOLEAN
    /\ MaxMessages \in Nat /\ MaxDrops \in Nat

VARIABLES running,    \* Repl::running
          pc,         \* where the Repl is in operator() and send_message
          todo,       \* the messages the current command has still to send
          mirror,     \* Repl::cars, car_builders, car_calculators
          messages,   \* Repl::messages
          position,   \* index of the replay loop
          good,       \* the client's stream: bool(*strm)
          link,       \* the TCP connection: "up" or "down"
          toServer,   \* the request on its way, if any
          toClient,   \* the reply on its way, if any
          storage,    \* the Object_Storage of the handler thread
          served,     \* how many messages that storage has executed
          snapshots,  \* history: the store after each prefix of the log
          drops       \* number of connections lost so far

client == <<running, pc, todo, mirror, messages, position, good>>
server == <<storage, served>>
net    == <<link, toServer, toClient>>
vars   == <<client, server, net, snapshots, drops>>

\* "threw": the process has ended by an exception that nobody catches.
PCs == {"ready", "send", "await", "prompt", "replay", "replay_await", "stopped",
        "threw"}

\* The store that executing the whole log produces.
Expected == snapshots[Len(messages)]

\* The constructor connects or fails to; operator() starts with the handshake.
Init == /\ running = TRUE
        /\ pc = "send" /\ todo = <<Handshake>>
        /\ mirror = EmptyStore
        /\ messages = <<>> /\ position = 1
        /\ link \in {"up", "down"} /\ good = (link = "up")
        /\ toServer = {} /\ toClient = {}
        /\ storage = EmptyStore /\ served = 0
        /\ snapshots = [i \in {0} |-> EmptyStore]
        /\ drops = 0

-----------------------------------------------------------------------------
(* Commands of the user, while operator() waits for input and the bound on   *)
(* the log leaves room for the messages of the command.                      *)

AtInput(room) == pc = "ready" /\ Len(messages) + room <= MaxMessages

\* The objects of the mirror that a user can name: NAME is [a-z]+.
KnownBuilders    == BuilderNames \cap DOMAIN mirror.car_builders
KnownCalculators == CalculatorNames \cap DOMAIN mirror.car_calculators

\* A grammar action that calls send_message for each of the requests.
Command(requests) ==
    /\ AtInput(Len(requests))
    /\ todo' = requests /\ pc' = "send"
    /\ UNCHANGED <<running, mirror, messages, position, good, server, net,
                   snapshots, drops>>

\* 'car_builder' NAME
CreateBuilder ==
    \E n \in BuilderNames :
        Command(<<BuilderRequest(n, MessageOfBuilder(DefaultBuilder))>>)

\* Mutant: the car is built before the builder is synchronised.
BuildMutant ==
    \E c \in CarNames, b \in KnownBuilders :
        Command(<<BuildRequest(c, b),
                  BuilderRequest(b, MessageOfBuilder(mirror.car_builders[b]))>>)

\* 'car' NAME '=' NAME 'build': the builder as edited here, then the build.
Build ==
    \E c \in CarNames, b \in KnownBuilders :
        Command(<<BuilderRequest(b, MessageOfBuilder(mirror.car_builders[b])),
                  BuildRequest(c, b)>>)

\* 'car_calculator' NAME
CreateCalculator ==
    \E k \in CalculatorNames :
        Command(<<CalculatorRequest(k,
                     MessageOfCalculator(DefaultCalculator, NoName))>>)

\* NAME 'car =' NAME
AssignCar ==
    \E k \in KnownCalculators, c \in CarNames :
        Command(<<CalculatorRequest(k,
                     MessageOfCalculator(mirror.car_calculators[k], c))>>)

\* Mutant: the rate is asked for before the calculator is synchronised.
CalculationMutant ==
    \E k \in KnownCalculators, type \in {"CALC_LEASING", "CALC_INSURANCE"} :
        Command(<<Request(type, k),
                  CalculatorRequest(k,
                     MessageOfCalculator(mirror.car_calculators[k], NoName))>>)

\* NAME 'calculate_leasing' and NAME 'calculate_insurance'
Calculation ==
    \E k \in KnownCalculators, type \in {"CALC_LEASING", "CALC_INSURANCE"} :
        Command(<<CalculatorRequest(k,
                     MessageOfCalculator(mirror.car_calculators[k], NoName)),
                  Request(type, k)>>)

\* A command that edits the mirror and sends nothing.
Edit(m) == /\ AtInput(1)
           /\ mirror' = m
           /\ UNCHANGED <<running, pc, todo, messages, position, good, server,
                          net, snapshots, drops>>

\* NAME 'ps =' NUMBER and the other setters of a builder
EditBuilder ==
    \E n \in KnownBuilders :
        LET b == mirror.car_builders[n]
            Set(new) == Edit(WithBuilders(mirror,
                                          Put(mirror.car_builders, n, new)))
        IN  \/ \E ps \in PsInputs : Set(WithPs(b, ps))
            \/ \E v \in ValueInputs : Set(WithPurchaseValue(b, v))
            \/ \E k \in KilometerInputs : Set(WithDrivenKilometers(b, k))
            \/ \E f \in FuelInputs : Set(WithFuelType(b, f))
            \/ \E brand \in BrandInputs : Set(WithBrand(b, brand))
            \/ \E t \in TypeInputs : Set(WithCarType(b, t))

\* NAME 'leasing_duration =' NUMBER and the other setters of a calculator
EditCalculator ==
    \E n \in KnownCalculators :
        LET k == mirror.car_calculators[n]
            Set(new) == Edit(WithCalculators(mirror,
                                             Put(mirror.car_calculators, n, new)))
        IN  \/ \E d \in DurationInputs : Set(WithLeasingDuration(k, d))
            \/ \E i \in ClassInputs : Set(WithInsuranceClass(k, i))
            \/ \E v \in AmountInputs : Set(WithRestValue(k, v))
            \/ \E v \in AmountInputs : Set(WithDeposit(k, v))
            \/ \E over24 \in AgeInputs : Set(WithAge(k, over24))

\* Repl::stop: the loop flag is cleared and the stream is closed, so that
\* whatever was on its way is lost.
Stop == /\ running' = FALSE
        /\ link' = "down" /\ toServer' = {} /\ toClient' = {}

\* END, and SHUTDOWN as far as this client is concerned
End == /\ pc = "ready"
       /\ Stop
       /\ pc' = "stopped"
       /\ UNCHANGED <<todo, mirror, messages, position, good, server,
                      snapshots, drops>>

-----------------------------------------------------------------------------
(* send_message *)

\* The call returns: the rest of the command follows.
Return == todo' = Tail(todo) /\ pc' = "send"

\* The command is done: operator() reads the next line or ends.
CommandDone ==
    /\ pc = "send" /\ todo = <<>>
    /\ pc' = IF running THEN "ready" ELSE "stopped"
    /\ UNCHANGED <<running, todo, mirror, messages, position, good, server, net,
                   snapshots, drops>>

\* Mutant: only the last message of a command is logged.
WriteMutant ==
    /\ pc = "send" /\ todo # <<>> /\ good
    /\ messages' = IF Tail(todo) = <<>> THEN Append(messages, Head(todo))
                   ELSE messages
    /\ snapshots' = [i \in 0 .. Len(messages') |->
                        IF i <= Len(messages) THEN snapshots[i]
                        ELSE NewAction(Expected, Head(todo)).store]
    /\ toServer' = IF link = "up" THEN {Head(todo)} ELSE {}
    /\ pc' = "await"
    /\ UNCHANGED <<running, todo, mirror, position, good, server, link,
                   toClient, drops>>

\* The message is logged, then written.  A write to a connection that is lost
\* already is not noticed before the read.
Write ==
    /\ pc = "send" /\ todo # <<>> /\ good
    /\ messages' = Append(messages, Head(todo))
    /\ snapshots' = [i \in 0 .. Len(messages) + 1 |->
                        IF i <= Len(messages) THEN snapshots[i]
                        ELSE NewAction(Expected, Head(todo)).store]
    /\ toServer' = IF link = "up" THEN {Head(todo)} ELSE {}
    /\ pc' = "await"
    /\ UNCHANGED <<running, todo, mirror, position, good, server, link,
                   toClient, drops>>

\* The stream is not usable: ask whether to connect again.
AskReconnect ==
    /\ pc = "send" /\ todo # <<>> /\ ~good
    /\ pc' = "prompt"
    /\ UNCHANGED <<running, todo, mirror, messages, position, good, server, net,
                   snapshots, drops>>

\* Repl::parse_message.  The car of a calculator is looked up under the name of
\* the calculator.
Mirrored(m, reply) ==
    CASE reply.type = "BUILDER" ->
            WithBuilders(m, Put(m.car_builders, reply.text,
                BuilderUpdated(Entry(m.car_builders, reply.text, DefaultBuilder),
                               reply.car)))
      [] reply.type = "CALCULATOR" ->
            LET calc == CalculatorUpdated(
                            Entry(m.car_calculators, reply.text,
                                  DefaultCalculator),
                            reply.calculator)
                shown == IF /\ reply.calculator.car # NoName
                            /\ reply.text \in DOMAIN m.cars
                         THEN WithCar(calc, m.cars[reply.text])
                         ELSE calc
            IN  WithCalculators(m, Put(m.car_calculators, reply.text, shown))
      [] reply.type = "CAR" ->
            WithCars(m, Put(m.cars, reply.text,
                IF reply.text \in DOMAIN m.cars
                THEN CarUpdated(m.cars[reply.text], reply.car)
                ELSE CarOfMessage(reply.car)))
      [] OTHER -> m

\* What is left of the object of a reply when the line ends with it: the last
\* number may have lost digits.  It belongs to the last field that is set; of an
\* enumerator or a flag, which has one digit, it can lose none.
CutCars(m) ==
    {m} \cup
    IF \/ m.fuel_type # "FUEL_NONE" \/ m.car_type # "CAR_NONE"
       \/ m.brand # "BRAND_NONE" \/ m = DefaultMessageCar
    THEN {}
    ELSE {IF m.purchase_value # 0 THEN [m EXCEPT !.purchase_value = n]
          ELSE IF m.driven_kilometers # 0 THEN [m EXCEPT !.driven_kilometers = n]
          ELSE [m EXCEPT !.ps = n] : n \in CutNumbers}

CutCalculators(m) ==
    {m} \cup {[m EXCEPT !.annual_interest_rate = n] :
                  n \in {n \in CutNumbers : /\ ~m.is_over_24
                                            /\ m # DefaultMessageCalculator}}

\* A reply that is cut behind its object, and one that is cut within its text or
\* behind it.
CutBehindObject(reply, car, calc) ==
    [reply EXCEPT !.car = car, !.calculator = calc, !.text = NoName,
                  !.value = NoRate]
CutInText(reply, text) == [reply EXCEPT !.text = text, !.value = NoRate]

\* The beginnings of a reply that protobuf parses: its type alone, with the
\* object, with the object and the text, of which the last character may have
\* lost digits, or all of it, when only the line feed is missing.  Fields are
\* written in the order of their numbers, and those that are missing have their
\* default.  No beginning of "ok" parses.
Beginnings(reply) ==
    IF reply.type = "OK" THEN {} ELSE
    {Reply(reply.type, NoName), reply}
    \cup {CutBehindObject(reply, car, calc) :
              car \in CutCars(reply.car),
              calc \in CutCalculators(reply.calculator)}
    \cup {CutInText(reply, text) : text \in Unreadable \cup {reply.text}}

\* getline returns the reply, which is applied to the mirror.  It may have
\* arrived before the connection was lost.
ReadReply ==
    /\ pc = "await"
    /\ \E reply \in toClient : mirror' = Mirrored(mirror, reply)
    /\ toClient' = {}
    /\ Return
    /\ UNCHANGED <<running, messages, position, good, server, link, toServer,
                   snapshots, drops>>

\* The connection was lost within the reply: getline returns the beginning of
\* it.  That sets eofbit and leaves the stream good, and the beginning is applied
\* to the mirror like a reply.
ReadCutReply ==
    /\ pc = "await" /\ link = "down"
    /\ \E reply \in toClient : \E part \in Beginnings(reply) :
          mirror' = Mirrored(mirror, part)
    /\ toClient' = {}
    /\ Return
    /\ UNCHANGED <<running, messages, position, good, server, link, toServer,
                   snapshots, drops>>

\* Cut elsewhere: "Couldn't parse Message from the Server" is printed.
RejectCutReply ==
    /\ pc = "await" /\ link = "down" /\ toClient # {}
    /\ toClient' = {}
    /\ Return
    /\ UNCHANGED <<running, mirror, messages, position, good, server, link,
                   toServer, snapshots, drops>>

\* Cut behind the sign of a negative byte: stoi of from_ascii throws.  Which
\* replies have such a byte is left open; "ok" has none.
DecodingThrows ==
    /\ pc = "await" /\ link = "down"
    /\ \E reply \in toClient : reply.type # "OK"
    /\ toClient' = {}
    /\ pc' = "threw"
    /\ UNCHANGED <<running, todo, mirror, messages, position, good, server,
                   link, toServer, snapshots, drops>>

\* Mutant: the client goes on waiting for a line.
ReadFailsMutant ==
    /\ pc = "await" /\ link = "down"
    /\ good' = FALSE
    /\ UNCHANGED <<running, pc, todo, mirror, messages, position, server, net,
                   snapshots, drops>>

\* Nothing has arrived and getline fails: the empty line is ignored and the user
\* hears nothing.
ReadFails ==
    /\ pc = "await" /\ link = "down"
    /\ good' = FALSE /\ toClient' = {}
    /\ Return
    /\ UNCHANGED <<running, mirror, messages, position, server, link, toServer,
                   snapshots, drops>>

\* Any answer that does not start with y: the client stops, and the call returns.
Decline ==
    /\ pc = "prompt"
    /\ Stop
    /\ Return
    /\ UNCHANGED <<mirror, messages, position, good, server, snapshots, drops>>

\* Answer y, but no server accepts.
ConnectFails ==
    /\ pc = "prompt"
    /\ Stop
    /\ good' = FALSE
    /\ Return
    /\ UNCHANGED <<mirror, messages, position, server, snapshots, drops>>

\* Mutant: the loop starts one message too early.
ConnectMutant ==
    /\ pc = "prompt"
    /\ good' = TRUE
    /\ link' = "up" /\ toServer' = {} /\ toClient' = {}
    /\ storage' = EmptyStore /\ served' = 0
    /\ position' = 0
    /\ pc' = "replay"
    /\ UNCHANGED <<running, todo, mirror, messages, snapshots, drops>>

\* Answer y, and a new handler with a new Object_Storage accepts.
Connect ==
    /\ pc = "prompt"
    /\ good' = TRUE
    /\ link' = "up" /\ toServer' = {} /\ toClient' = {}
    /\ storage' = EmptyStore /\ served' = 0
    /\ position' = 1
    /\ pc' = "replay"
    /\ UNCHANGED <<running, todo, mirror, messages, snapshots, drops>>

\* The loop over the log writes the next message.
ReplayWrite ==
    /\ pc = "replay" /\ position <= Len(messages) /\ good
    /\ toServer' = IF link = "up" THEN {messages[position]} ELSE {}
    /\ pc' = "replay_await"
    /\ UNCHANGED <<running, todo, mirror, messages, position, good, server,
                   link, toClient, snapshots, drops>>

\* The reply, or the beginning of it that has arrived, is read and thrown away:
\* it is not even decoded.
ReplayRead ==
    /\ pc = "replay_await" /\ toClient # {}
    /\ toClient' = {}
    /\ position' = position + 1
    /\ pc' = "replay"
    /\ UNCHANGED <<running, todo, mirror, messages, good, server, link,
                   toServer, snapshots, drops>>

ReplayReadFails ==
    /\ pc = "replay_await" /\ link = "down"
    /\ good' = FALSE /\ toClient' = {}
    /\ position' = position + 1
    /\ pc' = "replay"
    /\ UNCHANGED <<running, todo, mirror, messages, server, link, toServer,
                   snapshots, drops>>

\* The loop meets a broken stream and stops the client.  "Server updated" is
\* printed, and the message that led to the prompt is dropped, as below.
ReplayBreaks ==
    /\ pc = "replay" /\ position <= Len(messages) /\ ~good
    /\ Stop
    /\ Return
    /\ UNCHANGED <<mirror, messages, position, good, server, snapshots, drops>>

\* Mutant: the loop stops before the last message of the log.
ReplayDoneMutant ==
    /\ pc = "replay" /\ position >= Len(messages)
    /\ Return
    /\ UNCHANGED <<running, mirror, messages, position, good, server, net,
                   snapshots, drops>>

\* The loop is through: "Server updated" is printed.  The message that led to
\* the prompt is neither logged nor sent.
ReplayDone ==
    /\ pc = "replay" /\ position > Len(messages)
    /\ Return
    /\ UNCHANGED <<running, mirror, messages, position, good, server, net,
                   snapshots, drops>>

-----------------------------------------------------------------------------
(* The handler thread of the server, and the network *)

\* getline, new_action and the write of the reply.
Serve ==
    \E r \in toServer :
        LET result == NewAction(storage, r)
        IN  /\ toServer' = {}
            /\ storage' = result.store /\ served' = served + 1
            /\ toClient' = {result.reply}
            /\ UNCHANGED <<client, link, snapshots, drops>>

\* The connection is lost (the server ends or is killed, the network resets it).
\* A reply on its way arrives, or a beginning of it, or nothing: the client finds
\* out when it reads.  A request on its way does nothing that lasts, as a whole or
\* as a beginning, since the storage of the handler goes with the connection.
Drop ==
    /\ link = "up" /\ drops < MaxDrops
    /\ link' = "down" /\ toServer' = {}
    /\ drops' = drops + 1
    /\ UNCHANGED <<client, server, toClient, snapshots>>

\* The Repl has returned from operator(), or its process has ended.
Terminated == pc \in {"stopped", "threw"} /\ UNCHANGED vars

Commands == \/ CreateBuilder \/ Build \/ CreateCalculator \/ AssignCar
            \/ Calculation \/ EditBuilder \/ EditCalculator \/ End

\* The steps of send_message that need nobody's input.
Progress == \/ CommandDone \/ Write \/ AskReconnect
            \/ ReadReply \/ ReadCutReply \/ RejectCutReply \/ DecodingThrows
            \/ ReadFails
            \/ ReplayWrite \/ ReplayRead \/ ReplayReadFails \/ ReplayBreaks
            \/ ReplayDone

Next == \/ Commands \/ Progress
        \/ Decline \/ ConnectFails \/ Connect
        \/ Serve \/ Drop \/ Terminated

\* The threads run; the user owes nothing.
Spec == Init /\ [][Next]_vars /\ WF_vars(Progress) /\ WF_vars(Serve)

-----------------------------------------------------------------------------
TypeOK ==
    /\ running \in BOOLEAN /\ good \in BOOLEAN
    /\ pc \in PCs /\ link \in {"up", "down"}
    /\ IsStore(mirror) /\ IsStore(storage)
    /\ messages \in Seq(Requests) /\ todo \in Seq(Requests)
    /\ DOMAIN snapshots = 0 .. Len(messages)
    /\ \A i \in 0 .. Len(messages) : IsStore(snapshots[i])
    /\ position \in 1 .. Len(messages) + 1 /\ served \in 0 .. Len(messages)
    /\ toServer \subseteq Requests
    /\ \A r \in toClient : IsReply(r)
    /\ drops \in 0 .. MaxDrops

\* As long as the connection is up, the server's storage is what executing a
\* prefix of the client's log produces - all of it when the Repl is between two
\* messages.  So a replay restores exactly the state that was lost, however
\* often and wherever the connection broke, and no message is executed twice or
\* skipped.  (Client_send_Message.tex: "kann der Client den Server auf den
\* aktuellen Stand bringen".)
ServerFollowsLog ==
    link = "up" =>
        /\ storage = snapshots[served]
        /\ pc \in {"ready", "send"} => served = Len(messages)

\* What the user can use is never more than the log can restore: every object of
\* the mirror is in the store that the log produces, unless its name is one that
\* a reply has lost the end of.  (OnlyNamedObjects, below, is about those.)
NothingForgotten ==
    LET Kept(shown, stored) ==
            DOMAIN shown \subseteq DOMAIN stored \cup Unreadable \cup {NoName}
    IN  /\ Kept(mirror.cars, Expected.cars)
        /\ Kept(mirror.car_builders, Expected.car_builders)
        /\ Kept(mirror.car_calculators, Expected.car_calculators)

\* Between two commands client and server have the same cars, and objects of
\* the same names (RMI_Umsetzung.tex: the objects are synchronised).
ObjectsSynchronised ==
    pc = "ready" /\ link = "up" =>
        /\ mirror.cars = storage.cars
        /\ DOMAIN mirror.car_builders = DOMAIN storage.car_builders
        /\ DOMAIN mirror.car_calculators = DOMAIN storage.car_calculators

\* A car is built, and a rate computed, from the object as the user edited it:
\* the message that synchronises the object takes effect before the one that
\* uses it.
ResultsUseEditedObjects ==
    \A reply \in toClient : pc = "await" =>
        LET r == Head(todo) IN
        /\ r.type = "BUILD" /\ reply.type = "CAR" =>
              CarOfMessage(reply.car) = mirror.car_builders[r.builder]
        /\ r.type \in {"CALC_LEASING", "CALC_INSURANCE"} =>
              LET calc == WithCar(mirror.car_calculators[r.name],
                                  storage.car_calculators[r.name].car)
              IN  reply.value = Rate(r.type, calc)

\* A call of send_message comes back to the input line, ends the client, or
\* asks the user, and so does a replay: neither ever waits for a reply that
\* cannot come.
CommandsComplete ==
    pc \in {"send", "replay"} ~> pc \in {"ready", "prompt", "stopped", "threw"}

-----------------------------------------------------------------------------
(* The inductive invariant behind ServerFollowsLog. *)

\* snapshots is what it is called: the store after every prefix of the log.
SnapshotsOfLog ==
    /\ snapshots[0] = EmptyStore
    /\ \A i \in 1 .. Len(messages) :
          snapshots[i] = NewAction(snapshots[i - 1], messages[i]).store

\* A call of send_message is in progress exactly while something is to be sent.
CallInProgress ==
    /\ pc \in {"await", "prompt", "replay", "replay_await"} => todo # <<>>
    /\ pc = "await" => messages # <<>>
    /\ pc = "replay_await" => position <= Len(messages)

\* The n-th message of the log is on its way, or its reply is.
OnTheWay(n) ==
    \/ toServer = {messages[n]} /\ toClient = {} /\ served = n - 1
    \/ toServer = {} /\ served = n

\* How far the server is, by where the client is, while the link is up.
Wire ==
    /\ link = "down" => toServer = {}
    /\ pc \notin {"await", "replay_await"} => toClient = {}
    /\ link = "up" =>
          /\ good /\ pc \notin {"prompt", "threw"}
          /\ storage = snapshots[served]
          /\ pc \in {"ready", "send", "stopped"} =>
                toServer = {} /\ served = Len(messages)
          /\ pc = "await" => OnTheWay(Len(messages))
          /\ pc = "replay" => toServer = {} /\ served = position - 1
          /\ pc = "replay_await" => OnTheWay(position)

\* What makes a stored car usable holds at both ends.
StoresComplete ==
    /\ IsCompleteStore(storage)
    /\ \A i \in 0 .. Len(messages) : IsCompleteStore(snapshots[i])

IInv == TypeOK /\ CallInProgress /\ SnapshotsOfLog /\ StoresComplete /\ Wire

-----------------------------------------------------------------------------
(* What the documentation says and the code does not do. *)

\* Every object that the client shows has a name that its user has given it.
OnlyNamedObjects ==
    /\ DOMAIN mirror.cars \subseteq CarNames
    /\ DOMAIN mirror.car_builders \subseteq BuilderNames
    /\ DOMAIN mirror.car_calculators \subseteq CalculatorNames
=============================================================================
