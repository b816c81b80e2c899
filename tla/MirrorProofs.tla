------------------------------ MODULE MirrorProofs ------------------------------
(***************************************************************************)
(* TLAPS proofs about the mirror of the client (Session), for every set of *)
(* names and inputs and every number of messages and drops.                *)
(*                                                                         *)
(* NothingForgotten: but for names that a reply has lost the end of, the   *)
(* client never shows an object that a replay of its log would not restore.*)
(* The mirror grows only by replies and by their beginnings, a reply shows *)
(* an object of the store after its message, a beginning has its name or   *)
(* the end of it is cut off, and no message deletes an object.             *)
(*                                                                         *)
(* ObjectsSynchronised and ResultsUseEditedObjects hold until a connection *)
(* is lost (afterwards they need not: MCSessionLostReply, MCSessionStale-  *)
(* Build).  What a message uses is synchronised by the message before it,  *)
(* and every reply that is read makes the object it shows the same at both *)
(* ends.                                                                   *)
(***************************************************************************)
EXTENDS SessionProofs

\* Every object of store m has a namesake in store s.
Within(m, s) == /\ DOMAIN m.cars \subseteq DOMAIN s.cars
                /\ DOMAIN m.car_builders \subseteq DOMAIN s.car_builders
                /\ DOMAIN m.car_calculators \subseteq DOMAIN s.car_calculators

\* The same but for the names that a reply may have lost the end of.
CutNames == Unreadable \cup {NoName}

Restorable(m, s) ==
    /\ DOMAIN m.cars \subseteq DOMAIN s.cars \cup CutNames
    /\ DOMAIN m.car_builders \subseteq DOMAIN s.car_builders \cup CutNames
    /\ DOMAIN m.car_calculators \subseteq DOMAIN s.car_calculators \cup CutNames

\* The reply of the call in progress shows an object that the log restores.
AnswersKnown ==
    pc = "await" => \A reply \in toClient : ShowsObject(reply, Expected)

MInv == IInv /\ AnswersKnown /\ NothingForgotten

-----------------------------------------------------------------------------
\* What assigning an entry of one map leaves of the names of a store.
LEMMA AssignmentKeepsNames ==
    ASSUME NEW s, IsStore(s), NEW n, NEW v
    PROVE  /\ Within(s, WithCars(s, Put(s.cars, n, v)))
           /\ Within(s, WithBuilders(s, Put(s.car_builders, n, v)))
           /\ Within(s, WithCalculators(s, Put(s.car_calculators, n, v)))
  BY DEF Within, WithCars, WithBuilders, WithCalculators, Put, IsStore

\* No message deletes an object.
LEMMA NewActionKeepsNames ==
    ASSUME NEW s, IsStore(s), NEW r \in Requests
    PROVE  Within(s, NewAction(s, r).store)
  <1>1. r.type \in RequestTypes
    BY DEF Requests
  <1>2. \A reply : Within(s, Result(s, reply).store)
    BY ResultFields DEF Within
  <1>3. CASE r.type \in {"HANDSHAKE", "GARBAGE", "NONE"}
    BY <1>2, <1>3 DEF NewAction
  <1>4. CASE r.type = "BUILDER"
    <2>1. NewAction(s, r) = NewBuilder(s, r)
      BY <1>4 DEF NewAction
    <2>2. PICK b : NewBuilder(s, r).store
                     = WithBuilders(s, Put(s.car_builders, r.name, b))
      BY ResultFields DEF NewBuilder
    <2> QED
      BY <2>1, <2>2, AssignmentKeepsNames
  <1>5. CASE r.type = "BUILD"
    <2>1. NewAction(s, r) = BuildCar(s, r)
      BY <1>5 DEF NewAction
    <2> DEFINE b == s.car_builders[r.builder]
               built == WithCars(s, Put(s.cars, r.name, b))
    <2>2. \/ \E reply : BuildCar(s, r) = Result(s, reply)
          \/ \E reply : BuildCar(s, r) = Result(built, reply)
      BY Zenon DEF BuildCar
    <2>3. Within(s, s) /\ Within(s, built)
      BY AssignmentKeepsNames DEF Within
    <2> HIDE DEF built
    <2> QED
      BY <2>1, <2>2, <2>3, ResultFields
  <1>6. CASE r.type = "CALCULATOR"
    <2>1. NewAction(s, r) = NewCalculator(s, r)
      BY <1>6 DEF NewAction
    <2> DEFINE Stored(c) == WithCalculators(s, Put(s.car_calculators, r.name, c))
    <2>2. \E c, reply : NewCalculator(s, r) = Result(Stored(c), reply)
      BY Zenon DEF NewCalculator
    <2> QED
      BY <2>1, <2>2, ResultFields, AssignmentKeepsNames
  <1>7. CASE r.type \in {"CALC_INSURANCE", "CALC_LEASING"}
    <2>1. NewAction(s, r) = Calculate(s, r)
      BY <1>7 DEF NewAction
    <2>2. Calculate(s, r).store = s
      BY ResultFields DEF Calculate
    <2> QED
      BY <2>1, <2>2 DEF Within
  <1> QED
    BY <1>1, <1>3, <1>4, <1>5, <1>6, <1>7 DEF RequestTypes

\* A reply, or what has its type and its name or a cut one, adds the name of an
\* object that the server has, or a cut one.
LEMMA MirroredRestorable ==
    ASSUME NEW m, IsStore(m), NEW s, Restorable(m, s),
           NEW reply, ShowsObject(reply, s),
           NEW part, part.type = reply.type,
           part.text \in CutNames \cup {reply.text}
    PROVE  Restorable(Mirrored(m, part), s)
  <1>1. CASE reply.type = "BUILDER"
    <2>1. PICK b : Mirrored(m, part)
                     = WithBuilders(m, Put(m.car_builders, part.text, b))
      BY <1>1 DEF Mirrored
    <2>2. reply.text \in DOMAIN s.car_builders
      BY <1>1 DEF ShowsObject
    <2> QED
      BY <2>1, <2>2 DEF Restorable, WithBuilders, Put, IsStore
  <1>2. CASE reply.type = "CALCULATOR"
    <2>1. PICK c : Mirrored(m, part)
                     = WithCalculators(m, Put(m.car_calculators, part.text, c))
      BY <1>2 DEF Mirrored
    <2>2. reply.text \in DOMAIN s.car_calculators
      BY <1>2 DEF ShowsObject
    <2> QED
      BY <2>1, <2>2 DEF Restorable, WithCalculators, Put, IsStore
  <1>3. CASE reply.type = "CAR"
    <2>1. PICK c : Mirrored(m, part) = WithCars(m, Put(m.cars, part.text, c))
      BY <1>3 DEF Mirrored
    <2>2. reply.text \in DOMAIN s.cars
      BY <1>3 DEF ShowsObject
    <2> QED
      BY <2>1, <2>2 DEF Restorable, WithCars, Put, IsStore
  <1>4. CASE reply.type \notin {"BUILDER", "CALCULATOR", "CAR"}
    BY <1>4 DEF Mirrored
  <1> QED
    BY <1>1, <1>2, <1>3, <1>4

\* The beginning of a reply has its type, and its name or a cut one.
LEMMA BeginningName ==
    ASSUME NEW reply, IsReply(reply), NEW part \in Beginnings(reply)
    PROVE  part.type = reply.type /\ part.text \in CutNames \cup {reply.text}
  <1>1. /\ Reply(reply.type, NoName).type = reply.type
        /\ Reply(reply.type, NoName).text = NoName
    BY DEF Reply
  <1>2. ASSUME NEW car, NEW calc, part = CutBehindObject(reply, car, calc)
        PROVE  part.type = reply.type /\ part.text = NoName
    BY <1>2 DEF CutBehindObject, IsReply
  <1>3. ASSUME NEW text, part = CutInText(reply, text)
        PROVE  part.type = reply.type /\ part.text = text
    BY <1>3 DEF CutInText, IsReply
  <1> QED
    BY <1>1, <1>2, <1>3 DEF Beginnings, CutNames

-----------------------------------------------------------------------------
LEMMA InitMInv == Init => MInv
  <1>1. Init => NothingForgotten
    <2>1. Init => mirror = EmptyStore /\ Expected = EmptyStore
      BY DEF Init, Expected
    <2> QED
      BY <2>1 DEF NothingForgotten, EmptyStore
  <1>2. Init => AnswersKnown
    BY DEF Init, AnswersKnown
  <1> QED
    BY <1>1, <1>2, InitIInv DEF MInv

\* A step that touches neither the log nor the names of the mirror, and does
\* not put a reply on its way to a call.
LEMMA SameNames ==
    ASSUME MInv, UNCHANGED <<messages, snapshots>>,
           DOMAIN mirror'.cars = DOMAIN mirror.cars,
           DOMAIN mirror'.car_builders = DOMAIN mirror.car_builders,
           DOMAIN mirror'.car_calculators = DOMAIN mirror.car_calculators,
           pc' # "await" \/ toClient' = {} \/ UNCHANGED <<pc, toClient>>
    PROVE  AnswersKnown' /\ NothingForgotten'
  <1>1. Expected' = Expected
    BY DEF Expected
  <1>2. NothingForgotten'
    BY <1>1 DEF MInv, NothingForgotten
  <1>3. AnswersKnown'
    BY <1>1 DEF MInv, AnswersKnown
  <1> QED
    BY <1>2, <1>3

LEMMA CommandsKeepMInv ==
    ASSUME MInv, Commands
    PROVE  AnswersKnown' /\ NothingForgotten'
  <1>1. ASSUME NEW requests, Command(requests)
        PROVE  AnswersKnown' /\ NothingForgotten'
    BY <1>1, SameNames DEF Command, AtInput
  <1>2. CASE End
    BY <1>2, SameNames DEF End
  <1>3. IsStore(mirror)
    BY DEF MInv, IInv, TypeOK
  <1>4. CASE EditBuilder
    <2>1. PICK n \in DOMAIN mirror.car_builders : \E new :
             Edit(WithBuilders(mirror, Put(mirror.car_builders, n, new)))
      BY <1>4 DEF EditBuilder, KnownBuilders
    <2>2. PICK new : Edit(WithBuilders(mirror, Put(mirror.car_builders, n, new)))
      BY <2>1
    <2>3. /\ mirror'.cars = mirror.cars
          /\ mirror'.car_calculators = mirror.car_calculators
          /\ DOMAIN mirror'.car_builders = DOMAIN mirror.car_builders
      BY <1>3, <2>2 DEF Edit, WithBuilders, Put, IsStore
    <2>4. pc' # "await" /\ UNCHANGED <<messages, snapshots>>
      BY <2>2 DEF Edit, AtInput
    <2> QED
      BY <2>3, <2>4, SameNames
  <1>5. CASE EditCalculator
    <2>1. PICK n \in DOMAIN mirror.car_calculators : \E new :
             Edit(WithCalculators(mirror, Put(mirror.car_calculators, n, new)))
      BY <1>5 DEF EditCalculator, KnownCalculators
    <2>2. PICK new : Edit(WithCalculators(mirror, Put(mirror.car_calculators, n, new)))
      BY <2>1
    <2>3. /\ mirror'.cars = mirror.cars
          /\ mirror'.car_builders = mirror.car_builders
          /\ DOMAIN mirror'.car_calculators = DOMAIN mirror.car_calculators
      BY <1>3, <2>2 DEF Edit, WithCalculators, Put, IsStore
    <2>4. pc' # "await" /\ UNCHANGED <<messages, snapshots>>
      BY <2>2 DEF Edit, AtInput
    <2> QED
      BY <2>3, <2>4, SameNames
  <1> QED
    BY <1>1, <1>2, <1>4, <1>5 DEF Commands, CreateBuilder, Build,
       CreateCalculator, AssignCar, Calculation

\* The log grows, and with it the names that it restores.
LEMMA WriteKeepsMInv ==
    ASSUME MInv, Write
    PROVE  AnswersKnown' /\ NothingForgotten'
  <1>1. /\ messages \in Seq(Requests) /\ Len(messages) \in Nat
        /\ Head(todo) \in Requests /\ IsStore(Expected)
    BY TailOfRequests DEF MInv, IInv, TypeOK, Write, Expected
  <1>2. Expected' = NewAction(Expected, Head(todo)).store
    BY <1>1 DEF Write, Expected
  <1>3. Within(Expected, Expected')
    BY <1>1, <1>2, NewActionKeepsNames
  <1>4. NothingForgotten'
    BY <1>3 DEF MInv, NothingForgotten, Within, Write
  <1>5. toClient = {}
    BY DEF MInv, IInv, Wire, TypeOK, Write
  <1>6. AnswersKnown'
    BY <1>5 DEF AnswersKnown, Write
  <1> QED
    BY <1>4, <1>6

\* Reading a reply or a beginning of it.
LEMMA ReadKeepsMInv ==
    ASSUME MInv, ReadReply \/ ReadCutReply
    PROVE  AnswersKnown' /\ NothingForgotten'
  <1>1. pc = "await" /\ pc' = "send" /\ UNCHANGED <<messages, snapshots>>
    BY DEF ReadReply, ReadCutReply, Return
  <1>2. PICK reply \in toClient : \E part :
           /\ part = reply \/ part \in Beginnings(reply)
           /\ mirror' = Mirrored(mirror, part)
    BY DEF ReadReply, ReadCutReply
  <1>3. PICK part : /\ part = reply \/ part \in Beginnings(reply)
                    /\ mirror' = Mirrored(mirror, part)
    BY <1>2
  <1>4. /\ IsStore(mirror) /\ Restorable(mirror, Expected)
        /\ IsReply(reply) /\ ShowsObject(reply, Expected)
    BY <1>1 DEF MInv, IInv, TypeOK, NothingForgotten, Restorable, CutNames,
                AnswersKnown
  <1>5. part.type = reply.type /\ part.text \in CutNames \cup {reply.text}
    BY <1>3, <1>4, BeginningName
  <1>6. Restorable(mirror', Expected) /\ Expected' = Expected
    BY <1>1, <1>3, <1>4, <1>5, MirroredRestorable DEF Expected
  <1> QED
    BY <1>1, <1>6 DEF NothingForgotten, AnswersKnown, Restorable, CutNames

\* The reply shows an object of the store that the whole log produces.
LEMMA ServeKeepsMInv ==
    ASSUME MInv, Serve
    PROVE  AnswersKnown' /\ NothingForgotten'
  <1>1. PICK r \in toServer :
           /\ storage' = NewAction(storage, r).store /\ served' = served + 1
           /\ toClient' = {NewAction(storage, r).reply}
           /\ UNCHANGED <<client, link, snapshots>>
    BY DEF Serve
  <1>2. /\ r \in Requests /\ IsStore(storage) /\ IsCompleteStore(storage)
    BY DEF MInv, IInv, TypeOK, StoresComplete
  <1>3. ShowsObject(NewAction(storage, r).reply, storage')
    BY <1>1, <1>2, NewActionResult DEF GoodResult
  <1>4. UNCHANGED <<pc, messages, mirror, Expected>>
    BY <1>1 DEF client, Expected
  <1>5. CASE pc # "await"
    BY <1>4, <1>5 DEF MInv, AnswersKnown, NothingForgotten
  <1>6. CASE pc = "await"
    <2>1. link = "up"
      BY DEF MInv, IInv, TypeOK, Wire, Serve
    <2>2. OnTheWay(Len(messages)) /\ Len(messages) \in Nat
      BY <1>6, <2>1 DEF MInv, IInv, Wire, TypeOK
    <2>3. served = Len(messages) - 1
      BY <2>2 DEF OnTheWay, Serve
    <2>4. IInv'
      BY ServeKeepsIInv DEF MInv
    <2>5. storage' = snapshots'[served'] /\ served' = Len(messages)
      BY <1>1, <2>1, <2>2, <2>3, <2>4 DEF IInv, Wire
    <2>6. storage' = Expected
      BY <1>1, <2>5 DEF Expected
    <2> QED
      BY <1>1, <1>3, <1>4, <2>6 DEF MInv, AnswersKnown, NothingForgotten
  <1> QED
    BY <1>5, <1>6

LEMMA OtherStepsKeepMInv ==
    ASSUME MInv,
           \/ CommandDone \/ AskReconnect \/ RejectCutReply \/ DecodingThrows
           \/ ReadFails \/ ReplayWrite \/ ReplayRead \/ ReplayReadFails
           \/ ReplayBreaks \/ ReplayDone \/ Decline \/ ConnectFails \/ Connect \/ Drop \/ UNCHANGED vars
    PROVE  AnswersKnown' /\ NothingForgotten'
  <1>1. /\ UNCHANGED <<messages, mirror, snapshots>>
        /\ pc' # "await" \/ toClient' = {} \/ UNCHANGED <<pc, toClient>>
    BY DEF CommandDone, AskReconnect, RejectCutReply, DecodingThrows, ReadFails,
           ReplayWrite, ReplayRead, ReplayReadFails, ReplayBreaks, ReplayDone,
           Decline, ConnectFails, Connect, Drop, Stop, Return, vars, client, net
  <1> QED
    BY <1>1, SameNames

LEMMA NextKeepsMInv == MInv /\ [Next]_vars => MInv'
  <1> SUFFICES ASSUME MInv, [Next]_vars PROVE MInv'
    OBVIOUS
  <1>1. IInv'
    BY NextKeepsIInv DEF MInv
  <1>2. AnswersKnown' /\ NothingForgotten'
    BY CommandsKeepMInv, WriteKeepsMInv, ReadKeepsMInv, ServeKeepsMInv,
       OtherStepsKeepMInv DEF Next, Progress, Terminated
  <1> QED
    BY <1>1, <1>2 DEF MInv

\* Whatever was lost, and wherever it was cut, the user sees no object that the
\* log would not restore, unless its name is one that a reply has lost the end of.
THEOREM MirrorIsRestorable == Spec => []NothingForgotten
  <1>1. MInv => NothingForgotten
    BY DEF MInv
  <1> QED
    BY InitMInv, NextKeepsMInv, <1>1, PTL DEF Spec

\* What is left of ObjectsSynchronised once connections were lost: when the
\* client waits for input and is connected, every builder and calculator that
\* its user can name is on the server, and so is every car whose name he has
\* given; only the server may have objects of which the reply was lost.
MirrorIsStored ==
    pc = "ready" /\ link = "up" =>
        /\ DOMAIN mirror.cars \cap CarNames \subseteq DOMAIN storage.cars
        /\ KnownBuilders \subseteq DOMAIN storage.car_builders
        /\ KnownCalculators \subseteq DOMAIN storage.car_calculators

\* After any losses, cuts and replays, what the user can use between two commands
\* is on the server: no builder and no calculator that the client accepts in a
\* command is one that the server lacks.
THEOREM ShownObjectsAreStored == Spec => []MirrorIsStored
  <1>1. /\ CarNames \cap CutNames = {} /\ BuilderNames \cap CutNames = {}
        /\ CalculatorNames \cap CutNames = {}
    BY SessionAssumption, NamesAssumption DEF CutNames
  <1>2. NothingForgotten /\ ServerFollowsLog => MirrorIsStored
    BY <1>1 DEF NothingForgotten, ServerFollowsLog, MirrorIsStored, Expected,
               KnownBuilders, KnownCalculators, CutNames
  <1> QED
    BY MirrorIsRestorable, ReplayRestores, <1>2, PTL
-----------------------------------------------------------------------------
(* Client and server as long as the first connection holds.  A reply that is *)
(* lost, or cut, does not reach the mirror, or not as it was, so after a     *)
(* loss they differ; before it they agree, which takes the shape of the      *)
(* commands: what a message uses, the message before it synchronises.        *)

Agree(m, s) == /\ m.cars = s.cars
               /\ DOMAIN m.car_builders = DOMAIN s.car_builders
               /\ DOMAIN m.car_calculators = DOMAIN s.car_calculators

\* Both ends have the same builder n; the same calculator n but for its car.
SameBuilder(n) ==
    /\ n \in DOMAIN mirror.car_builders /\ n \in DOMAIN storage.car_builders
    /\ storage.car_builders[n] = mirror.car_builders[n]

SameCalculator(n) ==
    /\ n \in DOMAIN mirror.car_calculators
    /\ n \in DOMAIN storage.car_calculators
    /\ storage.car_calculators[n]
          = WithCar(mirror.car_calculators[n], storage.car_calculators[n].car)

Calculations == {"CALC_LEASING", "CALC_INSURANCE"}

\* What request r uses is synchronised.
Prepared(r) ==
    /\ r.type = "BUILD" => SameBuilder(r.builder)
    /\ r.type \in Calculations => SameCalculator(r.name)

\* Request q synchronises what r uses.
Prepares(q, r) ==
    /\ r.type = "BUILD" => q.type = "BUILDER" /\ q.name = r.builder
    /\ r.type \in Calculations =>
          q.type = "CALCULATOR" /\ q.name = r.name /\ q.calculator.car = NoName

\* A car is assigned only to a calculator that the client has.
KnowsCalculator(r) ==
    r.type = "CALCULATOR" /\ r.calculator.car # NoName
        => r.name \in DOMAIN mirror.car_calculators

TodoInOrder ==
    /\ \A i \in 1 .. Len(todo) : KnowsCalculator(todo[i])
    /\ \A i \in 2 .. Len(todo) : Prepares(todo[i - 1], todo[i])
    /\ todo # <<>> => Prepared(Head(todo))

\* A request that synchronises is answered with the object it names.
Answers(reply, r) ==
    /\ r.type = "BUILDER" => reply.type = "BUILDER" /\ reply.text = r.name
    /\ r.type = "CALCULATOR" /\ r.calculator.car = NoName =>
          reply.type = "CALCULATOR" /\ reply.text = r.name

\* Before a connection, and after the end.
Unconnected ==
    \/ pc = "stopped"
    \/ /\ ~good /\ pc \in {"send", "prompt"}
       /\ mirror = EmptyStore /\ messages = <<>>
       /\ todo = <<Handshake>> \/ (todo = <<>> /\ ~running)

Connected ==
    /\ pc \notin {"prompt", "replay_await"}
    /\ pc = "replay" => /\ mirror = EmptyStore /\ messages = <<>>
                        /\ todo = <<Handshake>>
    /\ pc \in {"ready", "send"} => Agree(mirror, storage)
    /\ pc \in {"send", "await"} => TodoInOrder
    /\ pc = "await" =>
          /\ toServer \subseteq {Head(todo)}
          /\ toServer # {} => Agree(mirror, storage)
          /\ \A reply \in toClient :
                /\ Answers(reply, Head(todo))
                /\ ShowsObject(reply, storage)
                /\ Agree(Mirrored(mirror, reply), storage)

SInv == drops = 0 => /\ link = "down" => Unconnected
                     /\ link = "up" => Connected
                     /\ ResultsUseEditedObjects

-----------------------------------------------------------------------------
(* Lemmas about new_action and parse_message: what a reply tells the client. *)

\* A builder or a car that is read from a message has nothing of its own left.
LEMMA ReadFromMessage ==
    ASSUME NEW car \in Car, NEW m \in Message_Car
    PROVE  /\ BuilderUpdated(car, m) = BuilderUpdated(DefaultBuilder, m)
           /\ CarUpdated(car, m) = CarOfMessage(m)
  <1>1. /\ BuilderUpdated(car, m) \in Car /\ CarUpdated(car, m) \in Car
        /\ BuilderUpdated(DefaultBuilder, m) \in Car /\ CarOfMessage(m) \in Car
    BY UpdatedTypes, CarOfMessageType, DefaultTypes
  <1>2. ASSUME NEW x \in Car, NEW y \in Car,
               x.ps = y.ps, x.driven_kilometers = y.driven_kilometers,
               x.purchase_value = y.purchase_value,
               x.fuel_type = y.fuel_type, x.car_type = y.car_type,
               x.brand = y.brand
        PROVE  x = y
    BY <1>2 DEF Car
  <1>3. BuilderUpdated(car, m) = BuilderUpdated(DefaultBuilder, m)
    BY <1>1, <1>2 DEF BuilderUpdated, DefaultBuilder, Car
  <1>4. CarUpdated(car, m) = CarOfMessage(m)
    BY <1>1, <1>2 DEF CarUpdated, CarOfMessage, Car
  <1> QED
    BY <1>3, <1>4

\* Nor has a calculator, but for its car.
LEMMA CalculatorReadFromMessage ==
    ASSUME NEW c \in Car_Calculator, NEW d \in Car_Calculator, NEW m,
           CalculatorUpdated(d, m) = d
    PROVE  d = WithCar(CalculatorUpdated(c, m), d.car)
  BY DEF CalculatorUpdated, WithCar, Car_Calculator

\* parse_message puts the object that the storage shows into the mirror.
LEMMA MirroredBuilder ==
    ASSUME NEW m, IsStore(m), NEW s,
           NEW reply, IsReply(reply), ShowsObject(reply, s),
           reply.type = "BUILDER"
    PROVE  Mirrored(m, reply) = WithBuilders(m,
               Put(m.car_builders, reply.text, s.car_builders[reply.text]))
  <1> DEFINE old == Entry(m.car_builders, reply.text, DefaultBuilder)
  <1>1. old \in Car
    BY EntryType, DefaultTypes DEF IsStore, Car_Builder
  <1>2. BuilderUpdated(DefaultBuilder, reply.car)
          = s.car_builders[reply.text]
    BY DEF ShowsObject
  <1>3. Mirrored(m, reply) = WithBuilders(m,
            Put(m.car_builders, reply.text, BuilderUpdated(old, reply.car)))
    BY DEF Mirrored
  <1> HIDE DEF old
  <1> QED
    BY <1>1, <1>2, <1>3, ReadFromMessage DEF IsReply

LEMMA MirroredCar ==
    ASSUME NEW m, IsStore(m), NEW s,
           NEW reply, IsReply(reply), ShowsObject(reply, s),
           reply.type = "CAR"
    PROVE  Mirrored(m, reply) = WithCars(m,
               Put(m.cars, reply.text, s.cars[reply.text]))
  <1> DEFINE car == IF reply.text \in DOMAIN m.cars
                    THEN CarUpdated(m.cars[reply.text], reply.car)
                    ELSE CarOfMessage(reply.car)
  <1>1. car = CarOfMessage(reply.car)
    BY ReadFromMessage DEF IsStore, IsMap, IsReply
  <1>2. CarOfMessage(reply.car) = s.cars[reply.text]
    BY DEF ShowsObject
  <1>3. Mirrored(m, reply) = WithCars(m, Put(m.cars, reply.text, car))
    BY DEF Mirrored
  <1> HIDE DEF car
  <1> QED
    BY <1>1, <1>2, <1>3

LEMMA MirroredCalculator ==
    ASSUME NEW m, IsStore(m), NEW s, IsStore(s),
           NEW reply, IsReply(reply), ShowsObject(reply, s),
           reply.type = "CALCULATOR"
    PROVE  \E c : /\ Mirrored(m, reply) = WithCalculators(m,
                        Put(m.car_calculators, reply.text, c))
                  /\ s.car_calculators[reply.text]
                        = WithCar(c, s.car_calculators[reply.text].car)
  <1> DEFINE old == Entry(m.car_calculators, reply.text, DefaultCalculator)
             calc == CalculatorUpdated(old, reply.calculator)
             shown == IF /\ reply.calculator.car # NoName
                         /\ reply.text \in DOMAIN m.cars
                      THEN WithCar(calc, m.cars[reply.text])
                      ELSE calc
             d == s.car_calculators[reply.text]
  <1>1. old \in Car_Calculator
    BY EntryType, DefaultTypes DEF IsStore
  <1>2. d \in Car_Calculator /\ CalculatorUpdated(d, reply.calculator) = d
    BY DEF ShowsObject, IsStore, IsMap
  <1>3. Mirrored(m, reply) = WithCalculators(m,
            Put(m.car_calculators, reply.text, shown))
    BY DEF Mirrored
  <1>4. calc \in Car_Calculator
    BY <1>1, CalculatorTypes, NoName \in Names \cup {NoName} DEF IsReply
  <1> HIDE DEF old
  <1>5. d = WithCar(calc, d.car)
    BY <1>1, <1>2, CalculatorReadFromMessage
  <1> HIDE DEF calc, d
  <1>6. d = WithCar(shown, d.car)
    BY <1>4, <1>5 DEF WithCar, Car_Calculator
  <1> HIDE DEF shown
  <1> QED
    BY <1>3, <1>6 DEF d

\* new_action by the type of the request: what it stores and what it replies.
LEMMA BuilderServed ==
    ASSUME NEW s, IsStore(s), NEW r \in Requests, r.type = "BUILDER"
    PROVE  LET result == NewAction(s, r)
           IN  /\ result.store.cars = s.cars
               /\ result.store.car_calculators = s.car_calculators
               /\ DOMAIN result.store.car_builders
                     = DOMAIN s.car_builders \cup {r.name}
               /\ result.reply.type = "BUILDER" /\ result.reply.text = r.name
  <1>1. PICK b : NewAction(s, r) = Result(
            WithBuilders(s, Put(s.car_builders, r.name, b)),
            BuilderReply(r.name, b))
    BY DEF NewAction, NewBuilder
  <1> DEFINE m == Put(s.car_builders, r.name, b)
  <1>2. DOMAIN m = DOMAIN s.car_builders \cup {r.name}
    BY PutDomain
  <1> HIDE DEF m
  <1>3. /\ WithBuilders(s, m).cars = s.cars
        /\ WithBuilders(s, m).car_calculators = s.car_calculators
        /\ WithBuilders(s, m).car_builders = m
    BY DEF WithBuilders, IsStore
  <1>4. /\ BuilderReply(r.name, b).type = "BUILDER"
        /\ BuilderReply(r.name, b).text = r.name
    BY DEF BuilderReply, Reply
  <1> QED
    BY <1>1, <1>2, <1>3, <1>4, ResultFields DEF m

LEMMA CalculatorServed ==
    ASSUME NEW s, IsStore(s), NEW r \in Requests, r.type = "CALCULATOR"
    PROVE  LET result == NewAction(s, r)
           IN  /\ result.store.cars = s.cars
               /\ result.store.car_builders = s.car_builders
               /\ DOMAIN result.store.car_calculators
                     = DOMAIN s.car_calculators \cup {r.name}
               /\ \/ /\ result.reply.type = "CALCULATOR"
                     /\ result.reply.text = r.name
                  \/ /\ result.reply.type = "ERROR"
                     /\ r.calculator.car # NoName
  <1>1. PICK c, reply :
            /\ NewAction(s, r) = Result(
                  WithCalculators(s, Put(s.car_calculators, r.name, c)), reply)
            /\ \/ \E n : reply = CalculatorReply(r.name, c, n)
               \/ \E e, n : /\ reply = ErrorReply(e, n)
                            /\ r.calculator.car # NoName
    <2>1. NewAction(s, r) = NewCalculator(s, r)
      BY DEF NewAction
    <2> QED
      BY <2>1, Zenon DEF NewCalculator
  <1> DEFINE m == Put(s.car_calculators, r.name, c)
  <1>2. DOMAIN m = DOMAIN s.car_calculators \cup {r.name}
    BY PutDomain
  <1> HIDE DEF m
  <1>3. /\ WithCalculators(s, m).cars = s.cars
        /\ WithCalculators(s, m).car_builders = s.car_builders
        /\ WithCalculators(s, m).car_calculators = m
    BY DEF WithCalculators, IsStore
  <1>4. \/ reply.type = "CALCULATOR" /\ reply.text = r.name
        \/ reply.type = "ERROR" /\ r.calculator.car # NoName
    BY <1>1 DEF CalculatorReply, ErrorReply, Reply
  <1> QED
    BY <1>1, <1>2, <1>3, <1>4, ResultFields DEF m

LEMMA BuildServed ==
    ASSUME NEW s, IsStore(s), NEW r \in Requests, r.type = "BUILD"
    PROVE  LET result == NewAction(s, r)
           IN  \/ result.store = s /\ result.reply.type = "ERROR"
               \/ /\ r.builder \in DOMAIN s.car_builders
                  /\ result.store = WithCars(s,
                        Put(s.cars, r.name, s.car_builders[r.builder]))
                  /\ result.reply
                        = CarReply(r.name, s.car_builders[r.builder])
  <1> DEFINE b == s.car_builders[r.builder]
             built == WithCars(s, Put(s.cars, r.name, b))
  <1>1. NewAction(s, r) = BuildCar(s, r)
    BY DEF NewAction
  <1>2. \/ \E e, n : BuildCar(s, r) = Result(s, ErrorReply(e, n))
        \/ /\ r.builder \in DOMAIN s.car_builders
           /\ BuildCar(s, r) = Result(built, CarReply(r.name, b))
    BY Zenon DEF BuildCar
  <1>3. \A e, n : ErrorReply(e, n).type = "ERROR"
    BY DEF ErrorReply, Reply
  <1> HIDE DEF b, built
  <1>4. \/ NewAction(s, r).store = s /\ NewAction(s, r).reply.type = "ERROR"
        \/ /\ r.builder \in DOMAIN s.car_builders
           /\ NewAction(s, r).store = built
           /\ NewAction(s, r).reply = CarReply(r.name, b)
    BY <1>1, <1>2, <1>3, ResultFields
  <1> QED
    BY <1>4 DEF b, built

LEMMA CalculationServed ==
    ASSUME NEW s, NEW r \in Requests, r.type \in Calculations
    PROVE  LET result == NewAction(s, r)
           IN  /\ result.store = s
               /\ result.reply.type \in {"ERROR", "DOUBLE"}
               /\ r.name \in DOMAIN s.car_calculators =>
                     result.reply.value
                        = Rate(r.type, s.car_calculators[r.name])
  <1>1. NewAction(s, r) = Calculate(s, r)
    BY DEF NewAction, Calculations
  <1>2. /\ \A e, n : /\ ErrorReply(e, n).type = "ERROR"
                     /\ ErrorReply(e, n).value = NoRate
        /\ \A rate : /\ DoubleReply(rate).type = "DOUBLE"
                     /\ DoubleReply(rate).value = rate
    BY DEF ErrorReply, DoubleReply, Reply
  <1> DEFINE rate == Rate(r.type, s.car_calculators[r.name])
  <1>3. \/ /\ r.name \notin DOMAIN s.car_calculators \/ rate = NoRate
           /\ \E e, n : Calculate(s, r) = Result(s, ErrorReply(e, n))
        \/ Calculate(s, r) = Result(s, DoubleReply(rate))
    BY Zenon DEF Calculate
  <1> HIDE DEF rate
  <1>4. /\ Calculate(s, r).store = s
        /\ Calculate(s, r).reply.type \in {"ERROR", "DOUBLE"}
        /\ r.name \in DOMAIN s.car_calculators =>
              Calculate(s, r).reply.value = rate
    BY <1>2, <1>3, ResultFields
  <1> QED
    BY <1>1, <1>4 DEF rate

LEMMA NothingServed ==
    ASSUME NEW s, NEW r \in Requests,
           r.type \in {"HANDSHAKE", "GARBAGE", "NONE"}
    PROVE  /\ NewAction(s, r).store = s
           /\ NewAction(s, r).reply.type \in {"OK", "ERROR"}
  <1>1. \/ NewAction(s, r) = Result(s, OkReply)
        \/ \E e, n : NewAction(s, r) = Result(s, ErrorReply(e, n))
    BY DEF NewAction
  <1>2. OkReply.type = "OK" /\ \A e, n : ErrorReply(e, n).type = "ERROR"
    BY DEF OkReply, ErrorReply, Reply
  <1> QED
    BY <1>1, <1>2, ResultFields

\* Serving a request and reading the reply keeps client and storage in
\* agreement, if a calculator that is given a car is known to the client.
LEMMA ServedAgrees ==
    ASSUME NEW m, IsStore(m), NEW s, IsStore(s), IsCompleteStore(s),
           NEW r \in Requests, Agree(m, s),
           r.type = "CALCULATOR" /\ r.calculator.car # NoName
              => r.name \in DOMAIN m.car_calculators
    PROVE  Agree(Mirrored(m, NewAction(s, r).reply), NewAction(s, r).store)
  <1> DEFINE t == NewAction(s, r).store
             reply == NewAction(s, r).reply
  <1> SUFFICES Agree(Mirrored(m, reply), t)
    OBVIOUS
  <1>1. ShowsObject(reply, t) /\ IsStore(t) /\ IsReply(reply)
    BY NewActionResult DEF GoodResult
  <1>2. r.type \in RequestTypes
    BY DEF Requests
  <1>3. reply.type \notin {"BUILDER", "CALCULATOR", "CAR"}
           => Mirrored(m, reply) = m
    BY DEF Mirrored
  <1>4. CASE r.type = "BUILDER"
    <2>1. /\ t.cars = s.cars /\ t.car_calculators = s.car_calculators
          /\ DOMAIN t.car_builders = DOMAIN s.car_builders \cup {r.name}
          /\ reply.type = "BUILDER" /\ reply.text = r.name
      BY <1>4, BuilderServed
    <2> HIDE DEF t, reply
    <2>2. Mirrored(m, reply) = WithBuilders(m,
              Put(m.car_builders, r.name, t.car_builders[r.name]))
      BY <1>1, <2>1, MirroredBuilder
    <2> QED
      BY <2>1, <2>2 DEF Agree, WithBuilders, Put, IsStore
  <1>5. CASE r.type = "BUILD"
    <2> DEFINE b == s.car_builders[r.builder]
    <2>1. \/ t = s /\ reply.type = "ERROR"
          \/ t = WithCars(s, Put(s.cars, r.name, b)) /\ reply = CarReply(r.name, b)
      BY <1>5, BuildServed
    <2>2. /\ CarReply(r.name, b).type = "CAR"
          /\ CarReply(r.name, b).text = r.name
      BY DEF CarReply, Reply
    <2> HIDE DEF t, reply, b
    <2>3. CASE t = s /\ reply.type = "ERROR"
      BY <1>3, <2>3
    <2>4. CASE /\ t = WithCars(s, Put(s.cars, r.name, b))
               /\ reply = CarReply(r.name, b)
      <3>1. /\ t.cars = Put(s.cars, r.name, b) /\ t.cars[r.name] = b
            /\ t.car_builders = s.car_builders
            /\ t.car_calculators = s.car_calculators
        BY <2>4 DEF WithCars, Put, IsStore
      <3>2. Mirrored(m, reply) = WithCars(m, Put(m.cars, r.name, b))
        BY <1>1, <2>2, <2>4, <3>1, MirroredCar
      <3> QED
        BY <3>1, <3>2 DEF Agree, WithCars, IsStore
    <2> QED
      BY <2>1, <2>3, <2>4
  <1>6. CASE r.type = "CALCULATOR"
    <2>1. /\ t.cars = s.cars /\ t.car_builders = s.car_builders
          /\ DOMAIN t.car_calculators = DOMAIN s.car_calculators \cup {r.name}
          /\ \/ reply.type = "CALCULATOR" /\ reply.text = r.name
             \/ reply.type = "ERROR" /\ r.calculator.car # NoName
      BY <1>6, CalculatorServed
    <2> HIDE DEF t, reply
    <2>2. CASE reply.type = "CALCULATOR" /\ reply.text = r.name
      <3>1. PICK c : Mirrored(m, reply) = WithCalculators(m,
                        Put(m.car_calculators, r.name, c))
        BY <1>1, <2>2, MirroredCalculator
      <3> QED
        BY <2>1, <3>1 DEF Agree, WithCalculators, Put, IsStore
    <2>3. CASE reply.type = "ERROR" /\ r.calculator.car # NoName
      BY <1>3, <1>6, <2>1, <2>3 DEF Agree
    <2> QED
      BY <2>1, <2>2, <2>3
  <1>7. CASE r.type \in Calculations
    <2>1. t = s /\ reply.type \in {"ERROR", "DOUBLE"}
      BY <1>7, CalculationServed
    <2> QED
      BY <1>3, <2>1
  <1>8. CASE r.type \in {"HANDSHAKE", "GARBAGE", "NONE"}
    <2>1. t = s /\ reply.type \in {"OK", "ERROR"}
      BY <1>8, NothingServed
    <2> QED
      BY <1>3, <2>1
  <1> QED
    BY <1>2, <1>4, <1>5, <1>6, <1>7, <1>8 DEF RequestTypes, Calculations

\* Reading a reply makes the object it shows the same at both ends, and no
\* object of the mirror goes away.
LEMMA ReadSynchronises ==
    ASSUME NEW reply, IsReply(reply), IsStore(mirror), IsStore(storage),
           ShowsObject(reply, storage), storage' = storage,
           mirror' = Mirrored(mirror, reply)
    PROVE  /\ reply.type = "BUILDER" => SameBuilder(reply.text)'
           /\ reply.type = "CALCULATOR" => SameCalculator(reply.text)'
           /\ DOMAIN mirror.car_calculators \subseteq DOMAIN mirror'.car_calculators
  <1>1. CASE reply.type = "BUILDER"
    <2>1. mirror' = WithBuilders(mirror, Put(mirror.car_builders, reply.text,
                                    storage.car_builders[reply.text]))
      BY <1>1, MirroredBuilder
    <2>2. reply.text \in DOMAIN storage.car_builders
      BY <1>1 DEF ShowsObject
    <2>3. SameBuilder(reply.text)'
      BY <2>1, <2>2 DEF SameBuilder, WithBuilders, Put, IsStore
    <2>4. mirror'.car_calculators = mirror.car_calculators
      BY <2>1 DEF WithBuilders, IsStore
    <2> QED
      BY <1>1, <2>3, <2>4
  <1>2. CASE reply.type = "CALCULATOR"
    <2>1. PICK c : /\ mirror' = WithCalculators(mirror,
                         Put(mirror.car_calculators, reply.text, c))
                   /\ storage.car_calculators[reply.text]
                         = WithCar(c, storage.car_calculators[reply.text].car)
      BY <1>2, MirroredCalculator
    <2>2. reply.text \in DOMAIN storage.car_calculators
      BY <1>2 DEF ShowsObject
    <2>3. /\ DOMAIN mirror'.car_calculators
                = DOMAIN mirror.car_calculators \cup {reply.text}
          /\ mirror'.car_calculators[reply.text] = c
      BY <2>1 DEF WithCalculators, Put, IsStore
    <2>4. SameCalculator(reply.text)'
      BY <2>1, <2>2, <2>3 DEF SameCalculator
    <2> QED
      BY <1>2, <2>3, <2>4
  <1>3. CASE reply.type = "CAR"
    <2>1. mirror' = WithCars(mirror, Put(mirror.cars, reply.text,
                                         storage.cars[reply.text]))
      BY <1>3, MirroredCar
    <2> QED
      BY <1>3, <2>1 DEF WithCars, IsStore
  <1>4. CASE reply.type \notin {"BUILDER", "CALCULATOR", "CAR"}
    BY <1>4 DEF Mirrored
  <1> QED
    BY <1>1, <1>2, <1>3, <1>4

-----------------------------------------------------------------------------
(* The invariant of a connection that holds *)

\* The fields of the requests that commands send.
LEMMA RequestFields ==
    /\ Handshake.type = "HANDSHAKE"
    /\ \A n, m : /\ BuilderRequest(n, m).type = "BUILDER"
                 /\ BuilderRequest(n, m).name = n
    /\ \A n, b : /\ BuildRequest(n, b).type = "BUILD"
                 /\ BuildRequest(n, b).builder = b
    /\ \A n, m : /\ CalculatorRequest(n, m).type = "CALCULATOR"
                 /\ CalculatorRequest(n, m).name = n
                 /\ CalculatorRequest(n, m).calculator = m
    /\ \A type, n : Request(type, n).type = type /\ Request(type, n).name = n
  BY DEF Handshake, BuilderRequest, BuildRequest, CalculatorRequest, Request

LEMMA HandshakeInOrder == ASSUME todo = <<Handshake>> PROVE TodoInOrder
  BY RequestFields
     DEF TodoInOrder, KnowsCalculator, Prepares, Prepared, Calculations

LEMMA InitSInv == Init => SInv
  <1> SUFFICES ASSUME Init PROVE SInv
    OBVIOUS
  <1>1. Agree(mirror, storage)
    BY DEF Init, Agree
  <1>2. TodoInOrder
    BY HandshakeInOrder DEF Init
  <1>3. link = "up" => Connected
    BY <1>1, <1>2 DEF Init, Connected
  <1>4. link = "down" => Unconnected
    BY DEF Init, Unconnected
  <1>5. ResultsUseEditedObjects
    BY DEF Init, ResultsUseEditedObjects
  <1> QED
    BY <1>3, <1>4, <1>5 DEF SInv

\* At the input line of a first connection the connection is up.
LEMMA ReadyIsConnected ==
    ASSUME IInv, SInv, drops = 0, pc = "ready"
    PROVE  /\ link = "up" /\ Agree(mirror, storage)
           /\ toServer = {} /\ toClient = {}
  BY DEF IInv, TypeOK, Wire, SInv, Unconnected, Connected

\* A command of one request, or of two of which the first synchronises what
\* the second uses.
LEMMA CommandKeepsSInv ==
    ASSUME IInv, SInv, drops = 0,
           NEW q, KnowsCalculator(q), q.type \in {"BUILDER", "CALCULATOR"},
           NEW r, r.type \notin {"CALCULATOR"}, Prepares(q, r),
           Command(<<q>>) \/ Command(<<q, r>>)
    PROVE  SInv'
  <1>1. /\ link = "up" /\ Agree(mirror, storage)
        /\ toServer = {} /\ toClient = {}
    BY ReadyIsConnected DEF Command, AtInput
  <1>2. /\ UNCHANGED <<link, mirror, storage, toServer, toClient, drops>>
        /\ pc' = "send" /\ (todo' = <<q>> \/ todo' = <<q, r>>)
    BY DEF Command, server, net
  <1>3. TodoInOrder'
    <2>1. KnowsCalculator(q)' /\ KnowsCalculator(r)' /\ Prepared(q)'
      BY <1>2 DEF KnowsCalculator, Prepared, Calculations
    <2>2. Prepares(q, r)'
      BY DEF Prepares
    <2>3. CASE todo' = <<q>>
      BY <2>1, <2>3 DEF TodoInOrder
    <2>4. CASE todo' = <<q, r>>
      <3>1. /\ Len(todo') = 2 /\ todo'[1] = q /\ todo'[2] = r
            /\ Head(todo') = q
        BY <2>4
      <3>2. /\ \A i \in 1 .. Len(todo') : i = 1 \/ i = 2
            /\ \A i \in 2 .. Len(todo') : i = 2 /\ i - 1 = 1
        BY <3>1
      <3>3. \A i \in 1 .. Len(todo') : (KnowsCalculator(todo[i]))'
        BY <2>1, <3>1, <3>2 DEF KnowsCalculator
      <3>4. \A i \in 2 .. Len(todo') : (Prepares(todo[i - 1], todo[i]))'
        BY <2>2, <3>1, <3>2 DEF Prepares
      <3>5. (Prepared(Head(todo)))'
        BY <2>1, <3>1 DEF Prepared, SameBuilder, SameCalculator
      <3> QED
        BY <3>3, <3>4, <3>5 DEF TodoInOrder
    <2> QED
      BY <1>2, <2>3, <2>4
  <1>4. Agree(mirror, storage)'
    BY <1>1, <1>2 DEF Agree
  <1>5. Connected'
    BY <1>2, <1>3, <1>4 DEF Connected
  <1>6. ResultsUseEditedObjects'
    BY <1>1, <1>2 DEF ResultsUseEditedObjects
  <1> QED
    BY <1>1, <1>2, <1>5, <1>6 DEF SInv

\* An edit changes no car and no name.
LEMMA EditKeepsSInv ==
    ASSUME IInv, SInv, drops = 0, NEW m, Edit(m),
           m.cars = mirror.cars,
           DOMAIN m.car_builders = DOMAIN mirror.car_builders,
           DOMAIN m.car_calculators = DOMAIN mirror.car_calculators
    PROVE  SInv'
  <1>1. /\ pc = "ready" /\ pc' = "ready" /\ mirror' = m
        /\ UNCHANGED <<link, storage, toClient, drops>>
    BY DEF Edit, AtInput, server, net
  <1>2. link = "up" /\ Agree(mirror, storage) /\ toClient = {}
    BY <1>1, ReadyIsConnected
  <1>3. Agree(mirror, storage)'
    BY <1>1, <1>2 DEF Agree
  <1> QED
    BY <1>1, <1>2, <1>3 DEF SInv, Connected, ResultsUseEditedObjects

LEMMA CommandsKeepSInv ==
    ASSUME IInv, SInv, drops = 0, Commands
    PROVE  SInv'
  <1>1. ASSUME NEW q, KnowsCalculator(q), q.type \in {"BUILDER", "CALCULATOR"},
               Command(<<q>>)
        PROVE  SInv'
    <2> DEFINE r == [type |-> "NONE"]
    <2>1. r.type \notin {"CALCULATOR"} /\ Prepares(q, r)
      BY DEF Prepares, Calculations
    <2> HIDE DEF r
    <2> QED
      BY <1>1, <2>1, CommandKeepsSInv
  <1>2. ASSUME NEW q, KnowsCalculator(q), q.type \in {"BUILDER", "CALCULATOR"},
               NEW r, r.type \notin {"CALCULATOR"}, Prepares(q, r),
               Command(<<q, r>>)
        PROVE  SInv'
    BY <1>2, CommandKeepsSInv
  <1>3. \A calc, n : MessageOfCalculator(calc, n).car = n
    BY DEF MessageOfCalculator
  <1>4. IsStore(mirror)
    BY DEF IInv, TypeOK
  <1>5. CASE CreateBuilder
    <2>1. PICK n \in BuilderNames :
             Command(<<BuilderRequest(n, MessageOfBuilder(DefaultBuilder))>>)
      BY <1>5 DEF CreateBuilder
    <2> DEFINE q == BuilderRequest(n, MessageOfBuilder(DefaultBuilder))
    <2>2. q.type = "BUILDER"
      BY RequestFields
    <2> HIDE DEF q
    <2>3. KnowsCalculator(q)
      BY <2>2 DEF KnowsCalculator
    <2> QED
      BY <1>1, <2>1, <2>2, <2>3 DEF q
  <1>6. CASE Build
    <2>1. PICK c \in CarNames, b \in DOMAIN mirror.car_builders :
             Command(<<BuilderRequest(b,
                         MessageOfBuilder(mirror.car_builders[b])),
                       BuildRequest(c, b)>>)
      BY <1>6 DEF Build, KnownBuilders
    <2> DEFINE q == BuilderRequest(b, MessageOfBuilder(mirror.car_builders[b]))
               r == BuildRequest(c, b)
    <2>2. q.type = "BUILDER" /\ q.name = b /\ r.type = "BUILD" /\ r.builder = b
      BY RequestFields
    <2>3. Command(<<q, r>>)
      BY <2>1
    <2> HIDE DEF q, r
    <2>4. KnowsCalculator(q) /\ Prepares(q, r)
      BY <2>2 DEF KnowsCalculator, Prepares, Calculations
    <2> QED
      BY <1>2, <2>2, <2>3, <2>4
  <1>7. CASE CreateCalculator
    <2>1. PICK k \in CalculatorNames :
             Command(<<CalculatorRequest(k,
                         MessageOfCalculator(DefaultCalculator, NoName))>>)
      BY <1>7 DEF CreateCalculator
    <2> DEFINE q == CalculatorRequest(k,
                        MessageOfCalculator(DefaultCalculator, NoName))
    <2>2. q.type = "CALCULATOR" /\ q.calculator.car = NoName
      BY <1>3, RequestFields
    <2>3. Command(<<q>>)
      BY <2>1
    <2> HIDE DEF q
    <2> QED
      BY <1>1, <2>2, <2>3 DEF KnowsCalculator
  <1>8. CASE AssignCar
    <2>1. PICK k \in DOMAIN mirror.car_calculators, c \in CarNames :
             Command(<<CalculatorRequest(k,
                         MessageOfCalculator(mirror.car_calculators[k], c))>>)
      BY <1>8 DEF AssignCar, KnownCalculators
    <2> DEFINE q == CalculatorRequest(k,
                        MessageOfCalculator(mirror.car_calculators[k], c))
    <2>2. q.type = "CALCULATOR" /\ q.name = k
      BY RequestFields
    <2>3. Command(<<q>>)
      BY <2>1
    <2> HIDE DEF q
    <2> QED
      BY <1>1, <2>2, <2>3 DEF KnowsCalculator
  <1>9. CASE Calculation
    <2>1. PICK k \in DOMAIN mirror.car_calculators, type \in Calculations :
             Command(<<CalculatorRequest(k,
                         MessageOfCalculator(mirror.car_calculators[k],
                                             NoName)),
                       Request(type, k)>>)
      BY <1>9 DEF Calculation, Calculations, KnownCalculators
    <2> DEFINE q == CalculatorRequest(k,
                        MessageOfCalculator(mirror.car_calculators[k], NoName))
               r == Request(type, k)
    <2>2. /\ q.type = "CALCULATOR" /\ q.name = k /\ q.calculator.car = NoName
          /\ r.type = type /\ r.name = k
      BY <1>3, RequestFields
    <2>3. Command(<<q, r>>)
      BY <2>1
    <2> HIDE DEF q, r
    <2>4. KnowsCalculator(q) /\ Prepares(q, r) /\ r.type \notin {"CALCULATOR"}
      BY <2>2 DEF KnowsCalculator, Prepares, Calculations
    <2> QED
      BY <1>2, <2>2, <2>3, <2>4
  <1>10. CASE EditBuilder
    <2>1. PICK n \in DOMAIN mirror.car_builders : \E new :
             Edit(WithBuilders(mirror, Put(mirror.car_builders, n, new)))
      BY <1>10 DEF EditBuilder, KnownBuilders
    <2>2. PICK new : Edit(WithBuilders(mirror, Put(mirror.car_builders, n, new)))
      BY <2>1
    <2> DEFINE m == WithBuilders(mirror, Put(mirror.car_builders, n, new))
    <2>3. /\ m.cars = mirror.cars /\ m.car_calculators = mirror.car_calculators
          /\ DOMAIN m.car_builders = DOMAIN mirror.car_builders
      BY <1>4 DEF WithBuilders, Put, IsStore
    <2> HIDE DEF m
    <2> QED
      BY <2>2, <2>3, EditKeepsSInv DEF m
  <1>11. CASE EditCalculator
    <2>1. PICK n \in DOMAIN mirror.car_calculators : \E new :
             Edit(WithCalculators(mirror, Put(mirror.car_calculators, n, new)))
      BY <1>11 DEF EditCalculator, KnownCalculators
    <2>2. PICK new : Edit(WithCalculators(mirror,
                              Put(mirror.car_calculators, n, new)))
      BY <2>1
    <2> DEFINE m == WithCalculators(mirror, Put(mirror.car_calculators, n, new))
    <2>3. /\ m.cars = mirror.cars /\ m.car_builders = mirror.car_builders
          /\ DOMAIN m.car_calculators = DOMAIN mirror.car_calculators
      BY <1>4 DEF WithCalculators, Put, IsStore
    <2> HIDE DEF m
    <2> QED
      BY <2>2, <2>3, EditKeepsSInv DEF m
  <1>12. CASE End
    BY <1>12 DEF End, Stop, SInv, Unconnected, ResultsUseEditedObjects
  <1> QED
    BY <1>5, <1>6, <1>7, <1>8, <1>9, <1>10, <1>11, <1>12 DEF Commands

\* The log gets the message that is sent.
LEMMA WriteKeepsSInv ==
    ASSUME IInv, SInv, drops = 0, Write
    PROVE  SInv'
  <1>1. link = "up"
    BY DEF IInv, TypeOK, SInv, Unconnected, Write
  <1>2. Agree(mirror, storage) /\ TodoInOrder /\ toClient = {}
    BY <1>1 DEF SInv, Connected, Write, IInv, Wire
  <1>3. /\ UNCHANGED <<link, mirror, storage, todo, toClient, drops>>
        /\ pc' = "await" /\ toServer' = {Head(todo)}
    BY <1>1 DEF Write, server
  <1>4. Agree(mirror, storage)' /\ TodoInOrder'
    BY <1>2, <1>3 DEF Agree, TodoInOrder, KnowsCalculator, Prepares, Prepared,
                      SameBuilder, SameCalculator
  <1>5. Connected' /\ ResultsUseEditedObjects'
    BY <1>2, <1>3, <1>4 DEF Connected, ResultsUseEditedObjects
  <1> QED
    BY <1>1, <1>3, <1>5 DEF SInv

\* What the request before synchronised, the next one of the command may use.
LEMMA ReadReplyKeepsSInv ==
    ASSUME IInv, SInv, drops = 0, ReadReply
    PROVE  SInv'
  <1>1. PICK reply \in toClient : mirror' = Mirrored(mirror, reply)
    BY DEF ReadReply
  <1>2. /\ pc = "await" /\ pc' = "send" /\ toClient' = {} /\ todo' = Tail(todo)
        /\ UNCHANGED <<link, storage, toServer, drops>>
    BY DEF ReadReply, Return, server
  <1>3. link = "up" /\ IsReply(reply) /\ IsStore(mirror) /\ IsStore(storage)
    BY <1>1, <1>2 DEF IInv, TypeOK, SInv, Unconnected
  <1>4. /\ Answers(reply, Head(todo)) /\ ShowsObject(reply, storage)
        /\ Agree(mirror', storage) /\ TodoInOrder
    BY <1>1, <1>2, <1>3 DEF SInv, Connected
  <1>5. /\ reply.type = "BUILDER" => SameBuilder(reply.text)'
        /\ reply.type = "CALCULATOR" => SameCalculator(reply.text)'
        /\ DOMAIN mirror.car_calculators \subseteq DOMAIN mirror'.car_calculators
    BY <1>1, <1>2, <1>3, <1>4, ReadSynchronises
  <1>6. /\ todo \in Seq(Requests) /\ todo # <<>> /\ Len(todo) \in Nat
        /\ Head(todo) = todo[1] /\ Len(todo') = Len(todo) - 1
        /\ \A i \in 1 .. Len(todo') : todo'[i] = todo[i + 1]
    BY <1>2 DEF IInv, TypeOK, CallInProgress
  <1>7. \A i \in 1 .. Len(todo') : (KnowsCalculator(todo[i]))'
    <2> SUFFICES ASSUME NEW i \in 1 .. Len(todo')
                 PROVE  (KnowsCalculator(todo[i]))'
      OBVIOUS
    <2>1. i + 1 \in 1 .. Len(todo)
      BY <1>6
    <2>2. KnowsCalculator(todo[i + 1])
      BY <1>4, <2>1 DEF TodoInOrder
    <2> QED
      BY <1>5, <1>6, <2>2 DEF KnowsCalculator
  <1>8. \A i \in 2 .. Len(todo') : (Prepares(todo[i - 1], todo[i]))'
    <2> SUFFICES ASSUME NEW i \in 2 .. Len(todo')
                 PROVE  (Prepares(todo[i - 1], todo[i]))'
      OBVIOUS
    <2>1. /\ i + 1 \in 2 .. Len(todo) /\ i + 1 - 1 = i
          /\ i - 1 \in 1 .. Len(todo') /\ i \in 1 .. Len(todo') /\ i - 1 + 1 = i
      BY <1>6
    <2>2. Prepares(todo[i + 1 - 1], todo[i + 1])
      BY <1>4, <2>1 DEF TodoInOrder
    <2> QED
      BY <1>6, <2>1, <2>2 DEF Prepares
  <1>9. todo' # <<>> => (Prepared(Head(todo)))'
    <2> SUFFICES ASSUME todo' # <<>> PROVE (Prepared(Head(todo)))'
      OBVIOUS
    <2>1. 2 \in 2 .. Len(todo) /\ Head(todo') = todo[2]
      <3>1. todo' \in Seq(Requests)
        BY <1>2, <1>6
      <3> QED
        BY <1>6, <3>1
    <2>2. Prepares(todo[1], todo[2])
      BY <1>4, <2>1 DEF TodoInOrder
    <2> QED
      BY <1>4, <1>5, <1>6, <2>1, <2>2
         DEF Prepared, Prepares, Answers, SameBuilder, SameCalculator
  <1>10. TodoInOrder'
    BY <1>7, <1>8, <1>9 DEF TodoInOrder
  <1>11. Connected' /\ ResultsUseEditedObjects'
    BY <1>2, <1>4, <1>10 DEF Connected, ResultsUseEditedObjects
  <1> QED
    BY <1>2, <1>3, <1>11 DEF SInv

\* A reconnection before the first connection: the log is empty.
LEMMA ReplayDoneKeepsSInv ==
    ASSUME IInv, SInv, drops = 0, ReplayDone
    PROVE  SInv'
  <1>1. link = "up" /\ pc = "replay"
    BY DEF IInv, TypeOK, SInv, Unconnected, ReplayDone
  <1>2. mirror = EmptyStore /\ messages = <<>> /\ todo = <<Handshake>>
    BY <1>1 DEF SInv, Connected
  <1>3. storage = EmptyStore /\ toClient = {}
    BY <1>1, <1>2 DEF IInv, TypeOK, Wire, SnapshotsOfLog
  <1>4. /\ UNCHANGED <<link, mirror, storage, toClient, drops>>
        /\ pc' = "send" /\ todo' = <<>>
    BY <1>2 DEF ReplayDone, Return, server, net
  <1>5. Agree(mirror, storage)' /\ TodoInOrder'
    BY <1>2, <1>3, <1>4 DEF Agree, TodoInOrder
  <1> QED
    BY <1>1, <1>3, <1>4, <1>5 DEF SInv, Connected, ResultsUseEditedObjects

\* The storage uses what the request before synchronised.
LEMMA ServeKeepsSInv ==
    ASSUME IInv, SInv, drops = 0, Serve
    PROVE  SInv'
  <1>1. PICK r \in toServer :
           /\ toServer' = {} /\ storage' = NewAction(storage, r).store
           /\ toClient' = {NewAction(storage, r).reply}
           /\ UNCHANGED <<client, link, drops>>
    BY DEF Serve
  <1>2. /\ r \in Requests /\ link = "up" /\ IsStore(mirror)
        /\ IsStore(storage) /\ IsCompleteStore(storage)
    BY DEF IInv, TypeOK, Wire, StoresComplete
  <1>3. Connected
    BY <1>2 DEF SInv
  <1>4. pc = "await" /\ todo # <<>>
    BY <1>2, <1>3 DEF Connected, IInv, TypeOK, PCs, Wire, CallInProgress
  <1>5. r = Head(todo) /\ Agree(mirror, storage) /\ TodoInOrder
    BY <1>1, <1>3, <1>4 DEF Connected
  <1>6. UNCHANGED <<pc, todo, mirror>>
    BY <1>1 DEF client
  <1> DEFINE reply == NewAction(storage, r).reply
  <1>7. /\ ShowsObject(reply, storage') /\ IsStore(storage')
        /\ toClient' = {reply}
    BY <1>1, <1>2, NewActionResult DEF GoodResult
  <1>8. todo \in Seq(Requests) /\ KnowsCalculator(r) /\ Prepared(r)
    <2>1. todo \in Seq(Requests)
      BY DEF IInv, TypeOK
    <2>2. 1 \in 1 .. Len(todo) /\ r = todo[1]
      BY <1>4, <1>5, <2>1
    <2> QED
      BY <1>4, <1>5, <2>1, <2>2 DEF TodoInOrder
  <1>9. Agree(Mirrored(mirror, reply), storage')
    BY <1>1, <1>2, <1>5, <1>8, ServedAgrees DEF KnowsCalculator
  <1>10. Answers(reply, r)
    <2>1. CASE r.type = "BUILDER"
      BY <1>2, <2>1, BuilderServed DEF Answers
    <2>2. CASE r.type = "CALCULATOR"
      BY <1>2, <2>2, CalculatorServed DEF Answers
    <2> QED
      BY <2>1, <2>2 DEF Answers
  <1>11. /\ r.type = "BUILD" =>
              /\ storage'.car_builders = storage.car_builders
              /\ reply.type = "CAR" =>
                    /\ reply = CarReply(r.name, storage.car_builders[r.builder])
                    /\ storage.car_builders[r.builder] \in Car
    <2> SUFFICES ASSUME r.type = "BUILD"
                 PROVE  /\ storage'.car_builders = storage.car_builders
                        /\ reply.type = "CAR" =>
                              /\ reply = CarReply(r.name,
                                             storage.car_builders[r.builder])
                              /\ storage.car_builders[r.builder] \in Car
      OBVIOUS
    <2>1. \/ storage' = storage /\ reply.type = "ERROR"
          \/ /\ r.builder \in DOMAIN storage.car_builders
             /\ storage' = WithCars(storage,
                   Put(storage.cars, r.name, storage.car_builders[r.builder]))
             /\ reply = CarReply(r.name, storage.car_builders[r.builder])
      BY <1>1, <1>2, BuildServed
    <2> HIDE DEF reply
    <2> QED
      BY <1>2, <2>1 DEF WithCars, IsStore, IsMap, Car_Builder
  <1>12. r.type \in Calculations =>
            /\ storage' = storage
            /\ reply.value = Rate(r.type, storage.car_calculators[r.name])
    BY <1>1, <1>2, <1>8, CalculationServed DEF Prepared, SameCalculator
  <1> HIDE DEF reply
  <1>13. Prepared(r)'
    BY <1>6, <1>8, <1>11, <1>12 DEF Prepared, SameBuilder, SameCalculator
  <1>14. TodoInOrder'
    BY <1>5, <1>6, <1>13 DEF TodoInOrder, KnowsCalculator, Prepares
  <1>15. Connected'
    BY <1>1, <1>4, <1>5, <1>6, <1>7, <1>9, <1>10, <1>14 DEF Connected
  <1>16. ResultsUseEditedObjects'
    <2>1. r.type = "BUILD" /\ reply.type = "CAR" =>
             CarOfMessage(reply.car) = mirror.car_builders[r.builder]
      <3> SUFFICES ASSUME r.type = "BUILD", reply.type = "CAR"
                   PROVE  CarOfMessage(reply.car)
                             = mirror.car_builders[r.builder]
        OBVIOUS
      <3>1. reply.car = MessageOfCar(storage.car_builders[r.builder])
        BY <1>11 DEF CarReply, Reply
      <3> QED
        BY <1>8, <1>11, <3>1, CarRoundTrip DEF Prepared, SameBuilder
    <2>2. r.type \in Calculations => reply.value = Rate(r.type,
             WithCar(mirror.car_calculators[r.name],
                     storage'.car_calculators[r.name].car))
      BY <1>8, <1>12 DEF Prepared, SameCalculator
    <2> QED
      BY <1>5, <1>6, <1>7, <2>1, <2>2 DEF ResultsUseEditedObjects, Calculations
  <1> QED
    BY <1>1, <1>2, <1>15, <1>16 DEF SInv

\* The steps before a first connection, the end of a command, and the steps
\* that need a connection to have been lost.
LEMMA OtherStepsKeepSInv ==
    ASSUME IInv, SInv, drops = 0,
           \/ CommandDone \/ AskReconnect \/ ReadCutReply \/ RejectCutReply
           \/ DecodingThrows \/ ReadFails \/ ReplayWrite \/ ReplayRead
           \/ ReplayReadFails \/ ReplayBreaks \/ Decline \/ ConnectFails \/ Connect
    PROVE  SInv'
  <1>1. link = "up" \/ (link = "down" /\ Unconnected)
    BY DEF IInv, TypeOK, SInv
  <1>2. link = "up" => good /\ Connected
    BY DEF IInv, Wire, SInv
  <1>3. CASE CommandDone
    <2>1. /\ UNCHANGED <<running, link, mirror, messages, storage, toServer,
                         toClient, good, drops, todo>>
          /\ pc = "send" /\ todo = <<>>
          /\ pc' = IF running THEN "ready" ELSE "stopped"
      BY <1>3 DEF CommandDone, server, net
    <2>2. ResultsUseEditedObjects'
      BY <2>1 DEF ResultsUseEditedObjects
    <2>3. CASE link = "up"
      BY <1>2, <2>1, <2>2, <2>3 DEF SInv, Connected, Agree
    <2>4. CASE link = "down"
      BY <1>1, <2>1, <2>2, <2>4 DEF SInv, Unconnected
    <2> QED
      BY <1>1, <2>3, <2>4
  <1>4. CASE AskReconnect
    <2>1. link = "down" /\ Unconnected /\ pc = "send" /\ todo # <<>>
      BY <1>1, <1>2, <1>4 DEF AskReconnect
    <2> QED
      BY <1>4, <2>1
         DEF AskReconnect, net, SInv, Unconnected, ResultsUseEditedObjects
  <1>5. ~(ReadCutReply \/ RejectCutReply \/ DecodingThrows \/ ReadFails)
    BY <1>1 DEF ReadCutReply, RejectCutReply, DecodingThrows, ReadFails,
                Unconnected
  <1>6. ~ReplayWrite
    <2>1. ASSUME ReplayWrite PROVE messages = <<>>
      BY <1>1, <1>2, <2>1 DEF ReplayWrite, Unconnected, Connected
    <2> QED
      BY <2>1 DEF ReplayWrite, IInv, TypeOK
  <1>7. ~ReplayRead /\ ~ReplayReadFails /\ ~ReplayBreaks
    BY <1>1, <1>2
       DEF ReplayRead, ReplayReadFails, ReplayBreaks, Unconnected, Connected
  <1>8. ASSUME pc = "prompt"
        PROVE  /\ link = "down" /\ ~good /\ mirror = EmptyStore
               /\ messages = <<>> /\ todo = <<Handshake>>
    BY <1>1, <1>2, <1>8 DEF Unconnected, Connected, IInv, CallInProgress
  <1>9. CASE Decline \/ ConnectFails
    <2>1. /\ running' = FALSE /\ link' = "down" /\ toClient' = {}
          /\ pc' = "send" /\ todo' = Tail(todo) /\ ~good'
          /\ UNCHANGED <<mirror, messages, drops>>
      BY <1>8, <1>9 DEF Decline, ConnectFails, Stop, Return
    <2>2. todo = <<Handshake>> /\ mirror = EmptyStore /\ messages = <<>>
      BY <1>8, <1>9 DEF Decline, ConnectFails
    <2>3. todo' = <<>>
      BY <2>1, <2>2
    <2> QED
      BY <2>1, <2>2, <2>3 DEF SInv, Unconnected, ResultsUseEditedObjects
  <1>10. CASE Connect
    <2>1. /\ link' = "up" /\ toClient' = {} /\ pc' = "replay"
          /\ UNCHANGED <<todo, mirror, messages, drops>>
      BY <1>10 DEF Connect
    <2> QED
      BY <1>8, <1>10, <2>1 DEF Connect, SInv, Connected, ResultsUseEditedObjects
  <1> QED
    BY <1>3, <1>4, <1>5, <1>6, <1>7, <1>9, <1>10

LEMMA NextKeepsSInv == IInv /\ SInv /\ [Next]_vars => SInv'
  <1> SUFFICES ASSUME IInv, SInv, [Next]_vars PROVE SInv'
    OBVIOUS
  <1>1. CASE drops' # 0
    BY <1>1 DEF SInv
  <1>2. CASE drops' = 0
    <2>1. drops = 0 /\ ~Drop
      <3>1. drops' = drops \/ Drop
        BY DEF Next, Commands, CreateBuilder, Build, CreateCalculator,
               AssignCar, Calculation, EditBuilder, EditCalculator, Command,
               Edit, End, Progress, CommandDone, Write, AskReconnect,
               ReadReply, ReadCutReply, RejectCutReply, DecodingThrows,
               ReadFails, ReplayWrite, ReplayRead, ReplayReadFails, ReplayBreaks, ReplayDone, Decline,
               ConnectFails, Connect, Serve, Terminated, vars
      <3>2. ~Drop
        BY <1>2 DEF Drop, IInv, TypeOK
      <3> QED
        BY <1>2, <3>1, <3>2
    <2>2. CASE UNCHANGED vars
      <3>1. UNCHANGED <<running, pc, todo, mirror, messages, good, link,
                        toServer, toClient, storage, drops>>
        BY <2>2 DEF vars, client, server, net
      <3> QED
        BY <3>1 DEF SInv, Unconnected, Connected, Agree, TodoInOrder,
           KnowsCalculator, Prepares, Prepared, SameBuilder, SameCalculator,
           Answers, ResultsUseEditedObjects
    <2> QED
      BY <2>1, <2>2, CommandsKeepSInv, WriteKeepsSInv, ReadReplyKeepsSInv,
         ReplayDoneKeepsSInv, ServeKeepsSInv, OtherStepsKeepSInv
         DEF Next, Progress, Terminated
  <1> QED
    BY <1>1, <1>2

LEMMA ConnectionInvariance == Spec => [](IInv /\ SInv)
  BY InitIInv, InitSInv, NextKeepsIInv, NextKeepsSInv, PTL DEF Spec

\* As long as no connection was lost, client and server have the same cars and
\* objects of the same names whenever the client waits for input.
THEOREM ConnectedMirrorIsSynchronised ==
    Spec => [](drops = 0 => ObjectsSynchronised)
  <1>1. IInv /\ SInv => (drops = 0 => ObjectsSynchronised)
    BY ReadyIsConnected DEF ObjectsSynchronised, Agree
  <1> QED
    BY ConnectionInvariance, <1>1, PTL

\* As long as no connection was lost, cars are built and rates are computed
\* from the objects as the user has edited them.
THEOREM ConnectedResultsUseEdits ==
    Spec => [](drops = 0 => ResultsUseEditedObjects)
  <1>1. IInv /\ SInv => (drops = 0 => ResultsUseEditedObjects)
    BY DEF SInv
  <1> QED
    BY ConnectionInvariance, <1>1, PTL
=============================================================================
