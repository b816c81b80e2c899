------------------------ MODULE SessionRefinementProofs ------------------------
(***************************************************************************)
(* TLAPS proof that Session implements RemoteStorage, for every set of     *)
(* names and inputs and every number of messages and drops.  The inductive *)
(* invariant of SessionProofs says what a mapped step needs: where the     *)
(* request and its reply are, and what snapshots contains.                 *)
(***************************************************************************)
EXTENDS SessionRefinement, SessionProofs

-----------------------------------------------------------------------------
(* What the mapping makes of a state *)

\* Outside of a call nothing is pending, and the storage is what the whole log
\* stands for.
LEMMA MappedOutsideCall ==
    ASSUME pc # "await"
    PROVE  Pending = {} /\ Answer = {} /\ Store = Expected
  BY DEF Pending, Answer, Store

\* A request that is pending is the last of the log; the storage at the other
\* end, and the mapped one, have executed everything before it.
LEMMA PendingIsLast ==
    ASSUME IInv, pc = "await", NEW r \in toServer
    PROVE  /\ link = "up" /\ toServer = {r} /\ toClient = {}
           /\ Len(messages) \in 1 .. Len(messages) /\ r = messages[Len(messages)]
           /\ Store = snapshots[Len(messages) - 1]
           /\ storage = snapshots[Len(messages) - 1]
           /\ Expected = NewAction(Store, r).store
  <1> DEFINE n == Len(messages)
  <1>1. messages \in Seq(Requests) /\ n \in Nat /\ messages # <<>>
    BY DEF IInv, TypeOK, CallInProgress
  <1>2. n \in 1 .. n
    BY <1>1
  <1>3. link = "up"
    BY DEF IInv, Wire, TypeOK
  <1>4. toServer = {messages[n]} /\ toClient = {} /\ served = n - 1
    BY <1>3 DEF IInv, Wire, OnTheWay
  <1>5. Store = snapshots[n - 1] /\ storage = snapshots[n - 1]
    BY <1>3, <1>4 DEF Store, Pending, IInv, Wire
  <1>6. snapshots[n] = NewAction(snapshots[n - 1], messages[n]).store
    BY <1>2 DEF IInv, SnapshotsOfLog
  <1> QED
    BY <1>2, <1>3, <1>4, <1>5, <1>6 DEF Expected

\* With no request on its way, the mapped storage has executed the whole log.
LEMMA NothingPending ==
    ASSUME toServer = {}
    PROVE  Pending = {} /\ Store = Expected
  BY DEF Pending, Store

-----------------------------------------------------------------------------
(* Steps *)

\* The view of an abstract step, written out.
LEMMA RemoteVars ==
    ASSUME UNCHANGED <<messages, Store, Pending, Answer, mirror>>
    PROVE  UNCHANGED Remote!vars
  BY DEF Remote!vars

\* A step that neither is part of a call nor touches log, mirror and snapshots
\* is nobody's business.
LEMMA HiddenStep ==
    ASSUME pc # "await", pc' # "await",
           UNCHANGED <<messages, mirror, snapshots>>
    PROVE  UNCHANGED Remote!vars
  <1>1. Expected' = Expected
    BY DEF Expected
  <1>2. Pending' = {} /\ Answer' = {} /\ Store' = Expected'
    BY DEF Pending, Answer, Store
  <1> QED
    BY <1>1, <1>2, MappedOutsideCall, RemoteVars

\* Commands and edits: only the view may change.
LEMMA CommandsMap ==
    ASSUME IInv, Commands
    PROVE  [Remote!Next]_(Remote!vars)
  <1>1. ASSUME NEW requests, Command(requests)
        PROVE  UNCHANGED Remote!vars
    BY <1>1, HiddenStep DEF Command, AtInput
  <1>2. CASE End
    BY <1>2, HiddenStep DEF End
  <1>3. ASSUME NEW m, Edit(m), SameObjects(mirror, m)
        PROVE  Remote!Next
    <2>1. /\ pc # "await" /\ pc' # "await" /\ mirror' = m
          /\ UNCHANGED <<messages, snapshots>>
      BY <1>3 DEF Edit, AtInput
    <2>2. UNCHANGED <<messages, Store, Pending, Answer>>
      BY <2>1 DEF Store, Pending, Answer, Expected
    <2>3. Remote!Edit
      BY <1>3, <2>1, <2>2 DEF Remote!Edit
    <2> QED
      BY <2>3 DEF Remote!Next
  <1>4. CASE EditBuilder
    <2>1. PICK n \in DOMAIN mirror.car_builders : \E new :
             Edit(WithBuilders(mirror, Put(mirror.car_builders, n, new)))
      BY <1>4 DEF EditBuilder, KnownBuilders
    <2>2. PICK new : Edit(WithBuilders(mirror, Put(mirror.car_builders, n, new)))
      BY <2>1
    <2>3. SameObjects(mirror,
                      WithBuilders(mirror, Put(mirror.car_builders, n, new)))
      BY DEF SameObjects, WithBuilders, Put, IInv, TypeOK, IsStore
    <2> QED
      BY <1>3, <2>2, <2>3
  <1>5. CASE EditCalculator
    <2>1. PICK n \in DOMAIN mirror.car_calculators : \E new :
             Edit(WithCalculators(mirror, Put(mirror.car_calculators, n, new)))
      BY <1>5 DEF EditCalculator, KnownCalculators
    <2>2. PICK new : Edit(WithCalculators(mirror, Put(mirror.car_calculators, n, new)))
      BY <2>1
    <2>3. SameObjects(mirror, WithCalculators(mirror,
                                  Put(mirror.car_calculators, n, new)))
      BY DEF SameObjects, WithCalculators, Put, IInv, TypeOK, IsStore
    <2> QED
      BY <1>3, <2>2, <2>3
  <1>6. CASE CreateBuilder \/ Build \/ CreateCalculator \/ AssignCar \/ Calculation
    BY <1>1, <1>6 DEF CreateBuilder, Build, CreateCalculator, AssignCar,
                      Calculation
  <1> QED
    BY <1>2, <1>4, <1>5, <1>6 DEF Commands

\* The write of a message is the asking; on a connection that is lost already
\* it is executed unseen.
LEMMA WriteMaps ==
    ASSUME IInv, Write
    PROVE  Remote!Next
  <1> DEFINE n == Len(messages)
             r == Head(todo)
  <1>1. messages \in Seq(Requests) /\ n \in Nat /\ r \in Requests
    BY TailOfRequests DEF IInv, TypeOK, Write
  <1>2. /\ messages' = Append(messages, r) /\ Len(messages') = n + 1
        /\ messages'[n + 1] = r /\ SubSeq(messages', 1, n) = messages
    BY <1>1 DEF Write
  <1>3. Pending = {} /\ Answer = {} /\ Store = Expected
    BY MappedOutsideCall DEF Write
  <1>4. Remote!NewRequest
    BY <1>2, <1>3 DEF Remote!NewRequest
  <1>5. Remote!Newest' = r
    BY <1>2 DEF Remote!Newest
  <1>6. snapshots'[n] = Expected /\ snapshots'[n + 1] = NewAction(Expected, r).store
    BY <1>1 DEF Write, Expected
  <1>7. toClient = {}
    BY DEF IInv, Wire, Write, TypeOK
  <1>8. Answer' = {} /\ mirror' = mirror
    BY <1>7 DEF Answer, Write
  <1>9. CASE link = "up"
    <2>1. Pending' = {r}
      BY <1>9 DEF Pending, Write
    <2>2. Store' = snapshots'[n]
      BY <1>1, <1>2, <2>1 DEF Store
    <2>3. Remote!Ask
      BY <1>1, <1>3, <1>4, <1>5, <1>6, <1>8, <2>1, <2>2 DEF Remote!Ask
    <2> QED
      BY <2>3 DEF Remote!Next
  <1>10. CASE link # "up"
    <2>1. Pending' = {}
      BY <1>10 DEF Pending, Write
    <2>2. Store' = snapshots'[n + 1]
      BY <1>2, <2>1 DEF Store, Expected
    <2>3. Remote!AskUnseen
      BY <1>1, <1>3, <1>4, <1>5, <1>6, <1>8, <2>1, <2>2 DEF Remote!AskUnseen
    <2> QED
      BY <2>3 DEF Remote!Next
  <1> QED
    BY <1>9, <1>10

\* A step that ends the wait for a reply takes the answer away.
LEMMA WaitEnds ==
    ASSUME pc = "await", pc' # "await", toServer = {},
           UNCHANGED <<messages, snapshots>>
    PROVE  /\ Answer = toClient /\ Answer' = {}
           /\ UNCHANGED <<messages, Store, Pending>>
  <1>1. Pending = {} /\ Store = Expected /\ Answer = toClient
    BY NothingPending DEF Answer
  <1>2. Pending' = {} /\ Answer' = {} /\ Store' = Expected'
    BY DEF Pending, Answer, Store
  <1>3. Expected' = Expected
    BY DEF Expected
  <1> QED
    BY <1>1, <1>2, <1>3

LEMMA ReadReplyMaps ==
    ASSUME IInv, ReadReply
    PROVE  Remote!Next
  <1>1. PICK reply \in toClient : mirror' = Mirrored(mirror, reply)
    BY DEF ReadReply
  <1>2. pc = "await" /\ pc' = "send" /\ UNCHANGED <<messages, snapshots>>
    BY DEF ReadReply, Return
  <1>3. toServer = {}
    BY <1>1, <1>2, PendingIsLast
  <1>4. Remote!Deliver
    BY <1>1, <1>2, <1>3, WaitEnds DEF Remote!Deliver
  <1> QED
    BY <1>4 DEF Remote!Next

\* The beginning of a reply is delivered as such.
LEMMA ReadCutReplyMaps ==
    ASSUME IInv, ReadCutReply
    PROVE  Remote!Next
  <1>1. PICK reply \in toClient : \E part \in Beginnings(reply) :
           mirror' = Mirrored(mirror, part)
    BY DEF ReadCutReply
  <1>2. pc = "await" /\ pc' = "send" /\ UNCHANGED <<messages, snapshots>>
    BY DEF ReadCutReply, Return
  <1>3. toServer = {}
    BY <1>1, <1>2, PendingIsLast
  <1>4. Remote!DeliverBeginning
    BY <1>1, <1>2, <1>3, WaitEnds DEF Remote!DeliverBeginning
  <1> QED
    BY <1>4 DEF Remote!Next

\* A reply that is not read, or not as a message, is lost; when there was none,
\* the request had been executed unseen.
LEMMA LostReplyMaps ==
    ASSUME IInv, RejectCutReply \/ DecodingThrows \/ ReadFails
    PROVE  [Remote!Next]_(Remote!vars)
  <1>1. /\ pc = "await" /\ pc' # "await" /\ link = "down"
        /\ UNCHANGED <<messages, mirror, snapshots>>
    BY DEF RejectCutReply, DecodingThrows, ReadFails, Return
  <1>2. toServer = {}
    BY <1>1 DEF IInv, Wire
  <1>3. /\ Answer' = {}
        /\ UNCHANGED <<messages, mirror, Store, Pending>>
    BY <1>1, <1>2, WaitEnds
  <1>4. CASE Answer = {}
    BY <1>3, <1>4, RemoteVars
  <1>5. CASE Answer # {}
    <2>1. Remote!LoseAnswer
      BY <1>3, <1>5 DEF Remote!LoseAnswer
    <2> QED
      BY <2>1 DEF Remote!Next
  <1> QED
    BY <1>4, <1>5

\* Only a message of a call counts, and the storage of the connection is then
\* where the one that never forgets is.
LEMMA ServeMaps ==
    ASSUME IInv, Serve
    PROVE  [Remote!Next]_(Remote!vars)
  <1>1. PICK r \in toServer :
           /\ toServer' = {} /\ toClient' = {NewAction(storage, r).reply}
           /\ UNCHANGED <<client, snapshots>>
    BY DEF Serve
  <1>2. UNCHANGED <<pc, mirror, messages, Expected>>
    BY <1>1 DEF client, Expected
  <1>3. CASE pc # "await"
    BY <1>1, <1>2, <1>3, HiddenStep
  <1>4. CASE pc = "await"
    <2>1. /\ toServer = {r} /\ toClient = {} /\ storage = Store
          /\ Expected = NewAction(Store, r).store
      BY <1>4, PendingIsLast
    <2>2. Pending = {r} /\ Answer = {} /\ Pending' = {}
          /\ Answer' = {NewAction(Store, r).reply}
      BY <1>1, <1>2, <1>4, <2>1 DEF Pending, Answer
    <2>3. Store' = NewAction(Store, r).store
      BY <1>2, <2>1, <2>2 DEF Store
    <2>4. Remote!Execute
      BY <1>2, <2>2, <2>3 DEF Remote!Execute
    <2> QED
      BY <2>4 DEF Remote!Next
  <1> QED
    BY <1>3, <1>4

\* A lost connection has the request executed unseen; a reply that is on its way
\* stays what it is until the client reads.
LEMMA DropMaps ==
    ASSUME IInv, Drop
    PROVE  [Remote!Next]_(Remote!vars)
  <1>1. /\ toServer' = {} /\ toClient' = toClient
        /\ UNCHANGED <<pc, mirror, messages, snapshots>>
    BY DEF Drop, client
  <1>2. UNCHANGED <<Expected, Answer>>
    BY <1>1 DEF Expected, Answer
  <1>3. Pending' = {} /\ Store' = Expected
    BY <1>1, <1>2 DEF Pending, Store
  <1>4. CASE pc = "await" /\ toServer # {}
    <2>1. PICK r : r \in toServer
      BY <1>4
    <2>2. /\ toServer = {r} /\ Expected = NewAction(Store, r).store
      BY <1>4, <2>1, PendingIsLast
    <2>3. Pending = {r}
      BY <1>4, <2>2 DEF Pending
    <2>4. Remote!ExecuteUnseen
      BY <1>1, <1>2, <1>3, <2>2, <2>3 DEF Remote!ExecuteUnseen
    <2> QED
      BY <2>4 DEF Remote!Next
  <1>5. CASE pc # "await" \/ toServer = {}
    <2>1. Pending = {} /\ Store = Expected
      BY <1>5 DEF Pending, Store
    <2> QED
      BY <1>1, <1>2, <1>3, <2>1, RemoteVars
  <1> QED
    BY <1>4, <1>5

\* The replay and the prompt change nothing that counts.
LEMMA ReplayMaps ==
    ASSUME CommandDone \/ AskReconnect \/ Decline \/ ConnectFails \/ Connect
              \/ ReplayWrite \/ ReplayRead \/ ReplayReadFails \/ ReplayBreaks
              \/ ReplayDone
    PROVE  UNCHANGED Remote!vars
  <1>1. /\ pc # "await" /\ pc' # "await"
        /\ UNCHANGED <<messages, mirror, snapshots>>
    BY DEF CommandDone, AskReconnect, Decline, ConnectFails, Connect,
           ReplayWrite, ReplayRead, ReplayReadFails, ReplayBreaks, ReplayDone,
           Return
  <1> QED
    BY <1>1, HiddenStep

LEMMA NextMaps == IInv /\ [Next]_vars => [Remote!Next]_(Remote!vars)
  <1> SUFFICES ASSUME IInv, [Next]_vars
               PROVE  [Remote!Next]_(Remote!vars)
    OBVIOUS
  <1>1. CASE Commands
    BY <1>1, CommandsMap
  <1>2. CASE Progress
    BY <1>2, WriteMaps, ReadReplyMaps, ReadCutReplyMaps, LostReplyMaps, ReplayMaps
       DEF Progress
  <1>3. CASE Decline \/ ConnectFails \/ Connect
    BY <1>3, ReplayMaps
  <1>4. CASE Serve
    BY <1>4, ServeMaps
  <1>5. CASE Drop
    BY <1>5, DropMaps
  <1>6. CASE UNCHANGED vars
    <2>1. UNCHANGED <<messages, mirror, Store, Pending, Answer>>
      BY <1>6 DEF vars, client, net, Store, Pending, Answer, Expected
    <2> QED
      BY <2>1, RemoteVars
  <1> QED
    BY <1>1, <1>2, <1>3, <1>4, <1>5, <1>6 DEF Next, Terminated

LEMMA InitMaps == Init => Remote!Init
  <1> SUFFICES ASSUME Init PROVE Remote!Init
    OBVIOUS
  <1>1. messages = <<>> /\ Len(messages) = 0 /\ snapshots[0] = EmptyStore
    BY DEF Init
  <1>2. Pending = {} /\ Answer = {} /\ Store = EmptyStore
    BY <1>1 DEF Init, Pending, Answer, Store, Expected
  <1> QED
    BY <1>1, <1>2 DEF Init, Remote!Init

\* A session is a client of one storage that never forgets: every message it
\* sends is executed once and in order, whatever becomes of the connections, and
\* its mirror changes by the reply, by a beginning of it, or not at all.
THEOREM SessionImplementsRemoteStorage == Spec => RemoteSpec
  BY SessionInvariance, InitMaps, NextMaps, PTL DEF Spec, RemoteSpec, Remote!Spec
=============================================================================
