# Verification of the car leasing client and server

The repository is a pair of C++ programs. The **client** is a command line (a *Repl*) in which a
user creates car builders, cars and car calculators; the **server** keeps the same objects, builds
the cars and computes leasing and insurance rates. Client and server exchange lines of text over
TCP. After a lost connection the client can connect again and bring the server back to its old
state by sending everything it ever sent. A second, gRPC, channel shuts the server down.

This directory holds TLA+ modules of that system, TLC configurations that check them on small
instances, and theorems that TLAPS proves for every size. All paths below are relative to the root
of the repository.

## 1. Inventory

| component | source | state | operations |
|---|---|---|---|
| Car, Car_Builder, Car_Calculator, messages | `src/src/car*.cpp`, `src/include/car*.h`, `src/src/messages/*.proto` | fields of an object; 16-bit numbers in the program, 32-bit in the messages; enumerators | setters, `build`, `calculate_*_rate`, to and from a message |
| Object_Storage | `src/src/server/object_storage.cpp` | three maps from names to objects | `new_action`: one request in, one reply out |
| Repl | `src/src/client/repl_functions.cpp`, `repl_constructor.cpp` | mirror of the three maps, log of sent messages, the stream, `running` | a grammar action per command, `send_message`, `parse_message`, `stop` |
| accept loop and handler threads | `src/src/server/s_main.cpp` | the variable `strm`, one Object_Storage per thread | accept, read line, `new_action`, write, close, delete |
| shutdown service | `src/src/server/server_grpc.cpp`, `src/src/client/client_grpc.cpp` | `shutdown_now`, a promise, permission | `shutdown`, `operator()` |
| client process, start of the server | `src/src/client/c_main.cpp`, `start_server` in `src/src/config.cpp`, `main` of `src/src/server/s_main.cpp` | pid of the server it started, settings of both | fork/exec, file, logger, bind, shutdown request, kill, waitpid |
| configuration | `src/src/config.cpp` | port, ip, logging | options, JSON, TOML, options passed on |
| message_utility | `src/src/message_utility.cpp` | none | bytes to a line of decimal numbers and back |
| grammar | `src/include/client/repl.h` | none | parsing of a command by cpp-peglib |
| pystring, tests | `src/src/pystring.cpp`, `src/unit_tests`, `src/integration_tests` | none | third-party string functions; statements of intent |

**Interactions.** The Repl calls `send_message` once or twice for a command. The call logs the
message, writes it to the stream and blocks until a line comes back; `parse_message` applies the
reply to the mirror. On the server one detached thread per client loops over read, `new_action` and
write, with an Object_Storage of its own that dies with the thread. The storage and the mirror use
the same classes and the same messages. The gRPC thread of the server sets `shutdown_now`, which
the accept loop tests; the client process sends the shutdown request when it had started the
server itself. Parent and server read the same file, each after options of its own.

**What is hard.**

* A connection can break at every point of `send_message`, also in the middle of the replay. A
  message can have been executed without its reply having arrived, or with only the beginning of
  its reply having arrived, which is applied to the mirror when it parses. Of a command of two
  messages one can be dropped.
* The mirror and the storage are two copies updated by different code, from requests on one side
  and from replies on the other, with fields that are narrowed or defaulted on the way.
* All handler threads reach their stream through one variable of the accept loop, captured by
  reference: who reads, writes, closes and deletes what depends on the scheduling.
* A line arrives in pieces, and a connection can be lost within one; `getline` then returns what
  there was of it as if it were a line.
* A client forks its server before it reads the file that can reject or redirect either of them;
  from then on two processes (or, when `execv` fails, two clients) run, other people's servers may
  hold the port or be reached by mistake, and the end of one depends on the end of the other.
* Cars are copied into calculators, builders are copied into cars; an error must leave all of them
  as they were.

**What makes each component correct.**

* Objects: encoding and decoding lose nothing but the width, and only complete cars are built.
* Object_Storage: it holds complete cars only, a reply shows what is stored, an error changes
  nothing it should not, a calculator's car is a copy that later builds do not reach.
* Repl and connection: the storage of a live connection is what the log says; the mirror never
  shows, under a name its user can give, what the log cannot restore; between commands both ends
  agree; results use the objects as edited; every command comes to an end.
* Lines: each end hands on exactly the messages the other has written; nobody waits for half a line.
* Processes and configuration: a client and the server it starts compute the same address and give
  a file the same verdict; a server that is asked to end does; a client never leaves its server
  behind nor waits for one that does not end.
* Server: every client is served by its own thread, storage and stream, in order and once; streams
  live as long as their client; threads end.

## 2. Modules

```
CarObjects <- StorageActions <- ObjectStorage             one storage, any peer
                    ^
                    +--------- Session                    one Repl, its connection, its storage
                                  ^
             RemoteStorage <- SessionRefinement           what Session promises, and the mapping
Server                                                    accept loop, handler threads, clients
Wire                                                      the lines between a Repl and its handler
Config <- Startup                                         processes, settings, shutdown service
```

`MCObjectStorage`, `MCSession`, `MCServer`, `MCWire` and `MCStartup` are the instances for TLC. The
modules that end in `Proofs` hold the theorems (section 5).

The four machines cut the program along its interfaces. Session has one client and one handler and
takes a line as one step, or, when the connection is lost within a reply, as a beginning that
protobuf parses or does not; Wire shows when a line is whole. Server has all the handlers and takes
what a request does as given (the sequence of what a storage has executed); `AloneServedRight` is
what Session relies on. Startup has the processes, and stops at the loop of the Repl and at the
accept loop, which are Session and Server; `shutdown_now`, which Startup sets, is what Server tests.

**CarObjects** has no state. A car or builder is a record of its six fields, a calculator a record
with a car (or `NoCar`), and each has the record of its message. `UShort` is the conversion to
`short unsigned int` (modulo 65536), applied where the code assigns a 32-bit field of a message to
a 16-bit field. `Switch` is the `switch` that turns an enumerator of a message into one of the
program, with the `default:` branch. Doubles are natural numbers up to `DBL_MAX`: the code only
stores them, compares them with 0 and with `DBL_MAX` and feeds them to the rates. `LeasingRate` and
`InsuranceRate` keep the conditions under which the code computes a rate at all and stand for the
value by the tuple of its inputs, so that two rates are equal exactly when they were computed from
the same inputs.

**StorageActions** is `Object_Storage::new_action` as the operator `NewAction(store, request)` that
returns the new store and the reply; every branch of the method is an operator (`NewBuilder`,
`BuildCar`, `Calculate`, `NewCalculator`). `Entry(map, name, default)` is the find-or-default that
the method opens with. An error reply keeps its text only as far as the name it mentions.

**ObjectStorage** is the state machine of one storage whose peer may send any request of
`CarMessages` and `CalculatorMessages`: a variable for the store, one for the last request and one
for the last reply. Objects may have the empty name, which a request has that was cut before its
name.

**Session** is one Repl, one TCP connection and the handler at the other end. `pc` says where the
Repl is:

| `pc` | code |
|---|---|
| `ready` | `operator()` waits for input |
| `send` | between two calls of `send_message`, `todo` holds the messages of the command still to send |
| `await` | `getline(*strm, ...)` for the reply |
| `prompt` | the question whether to connect again |
| `replay`, `replay_await` | the loop over `messages`, and its `getline` |
| `stopped` | `operator()` has returned |
| `threw` | `stoi` has thrown in `from_ascii`, which ends the process |

A step is what happens between two points where the server or the network can interfere. `Command`
actions start a command, `Write`/`ReadReply`/`ReadFails` are the normal path, `AskReconnect`,
`Decline`, `ConnectFails`, `Connect` and the `Replay` actions the other. `Serve` is one round of the
handler thread, `Drop` the loss of the connection with the storage and with a request on its way.
A write to a connection that is down succeeds (the kernel buffers it) and only the read fails, as
with the stream of the code.

`Drop` leaves a reply on its way to the reader, who finds out what has become of it: all of it has
arrived (`ReadReply`), nothing (`ReadFails`), or a beginning. `getline` returns a beginning with
`eofbit` alone, so that the stream stays true and the beginning is decoded and parsed like a reply:
`ReadCutReply` applies one of `Beginnings(reply)` to the mirror, `RejectCutReply` is one that does
not parse, `DecodingThrows` one that ends behind the sign of a negative byte. Which beginnings parse
follows from the encoding. Fields are written in the order of their numbers and those with their
default are left out, so a beginning that parses ends behind the type, behind the object, within the
last number of either, behind or within the last number of the text, or only lacks the line feed.
The last number of an object may have lost digits (`CutNumbers` are the values it may then have):
that of the last field that is set, unless it is an enumerator or a flag, which has one digit. A
text that has lost digits ends with a control character (the names `Unreadable`); NAME in the
grammar is `[a-z]+`, so no command names such an object (`KnownBuilders`, `KnownCalculators`). In
the replay what has arrived is thrown away undecoded. A request that was cut is executed only by a
handler whose storage dies with the connection; that part is in Wire and, for the empty name, in
ObjectStorage.

`snapshots` is history: the store after each prefix of the log, which the properties compare the
storage with.

**RemoteStorage** is the abstract specification of what a user may rely on: one storage that never
forgets and executes every request once and in order; only an answer can get lost, or its end
(`DeliverBeginning`). There is no connection, no log position and no replay in it; storage, requests,
view and the beginnings of an answer are parameters.
**SessionRefinement** maps Session to it: the storage is what the log stands for (minus the message
on its way), a request or an answer is pending only while `pc` is `await`, and whatever a replay
does is a stutter. A message of a broken connection is `AskUnseen` or `ExecuteUnseen` there: it
counts, because it is in the log.

**Server** is the accept loop, the handler threads and the clients. `slot` is the variable `strm`,
which every handler reads again for every operation; a step of a handler is what happens between
two such reads. `reading` is the stream that a blocking `getline` was called on, which can differ
from the slot when the call returns. Requests are pairs of client and number, storages the sequence
of what they have executed. Use of a deleted stream makes the process `"undefined"`, from where it
does nothing more. `overlapped` is history: some client was accepted while another handler was at
work.

**Wire** is the connection of one client, character by character. `to_ascii`, `from_ascii`,
`Tokens`, `stoi` and `Char` are the functions of `message_utility.cpp`, `getline` is that of a stream
with its flags (a last line without a line feed sets `eofbit` alone, which leaves the stream true).
`Text` is what `to_ascii` puts before the line feed; recursion is a recursive function in a `LET`,
so that the module can be proved about.
`Arrive` delivers any number of the characters written, `Cut` loses the connection with what has not
arrived. `sent` and `got` are history.

**Config** has no state. A file is a record with an entry, an entry of the wrong type or none for
each option; `config_from_json` and `config_from_toml` keep what the two accept differently (any
number as a port, which is narrowed, against one that fits; an empty text rejected or not) and in
what order options and file override each other. `PassedOn` is what `start_server` puts on the
command line of the server, `validate_ip_address` and `validate_localhost` the checks of addresses.

**Startup** is `main` of a client (and of a forked child that stays a client because `execv`
failed), `main` of the server it starts with the gRPC thread, and servers of other people. `pc`,
`spc` and `gpc` are the three places in the code; `child` is what the forked process runs.
`Reached(s)` is who listens at the address a client with settings `s` computes for the shutdown
service; `SendShutdown` is the call, whose answer is that of one of these or of nobody. `answered`
and `killed` are history.

## 3. Runs

| run | expected | what it shows |
|---|---|---|
| MCObjectStorage | pass | `TypeOK`, `CarsAreComplete`, `ReplyShowsStoredObject`, `ErrorsKeepObjects`, `CalculatorCarIsACopy` for any order of requests |
| MCSession | pass | `ObjectsSynchronised`, `ResultsUseEditedObjects` on a connection that holds: every setter, two cars, both rates |
| MCSessionDrops | pass | `TypeOK`, `ServerFollowsLog`, `NothingForgotten`, `CommandsComplete` and the refinement `RemoteSpec` with connections that break twice anywhere, also within a reply |
| MCServer | pass | `TypeOK`, `AloneServedRight`, `AloneKeepsItsStream`, `AtMostOnce`, `AloneAnswered`, `HandlersEnd` with two clients |
| MCStartup | pass | `TypeOK`, `ClientFindsItsServer`, `ExitedClientLeavesNoServer`, `FileEndsBoth`, `ShutdownCompletes`, `ServerGoesWithClient` for every command line and file of the instance |
| MCWire | pass | `TypeOK`, `HandedOnAsWritten`, `OnlyACutLineThrows`, `WaitEnds` with lines in pieces of any size |
| MCSessionCutReply, MCSessionStaleBuild, MCSessionLostReply, MCServerMixed, MCStartupElsewhere, MCStartupNoFork | violation | section 6 |

**Bounds and why they are enough.**

* *MCObjectStorage*: two names serve for builders, cars and calculators at once, so that a name of
  one kind can be the name of another and there is always a second object a request must leave
  alone. The empty name is a third; the constraint `TwoNames` keeps the states in which at most two
  of the three are in use. The car messages are a complete car, one with an enumerator unknown to
  the program and a ps of 65637 (narrowed to 101), and one whose ps of 65536 is narrowed to 0, the
  mark of an incomplete car. No bound on the number of requests is needed: the state space is
  finite. Names are symmetric; no property of that run is a liveness property.
* *MCSession*: `MaxMessages` is 8, which is the handshake, a builder, a build of two messages, a
  calculator, its car and a rate of two messages; or the handshake, a builder, three builds. There
  is no drop, and then no message of the log is ever read again: `ConnectedView` replaces the log by
  its length and leaves out the snapshots but the last. Two states with the same view have the same
  successors up to the view, and the properties look at nothing else. The constraint
  `BuildersOrCalculators` leaves out states in which a calculator exists and more of a builder is
  set than a car needs: the setters of the two do not interact, and each kind has all of its setters
  in the states that are left.
* *MCSessionDrops*: two lost connections are what it takes to lose one during the replay of the
  other. The log has up to 5 messages: the handshake, a builder, its build and a calculator, or
  without the handshake (a session that begins unconnected) a car that is assigned to a calculator.
  `AtInput` counts the messages of a command, so every command is complete within the bound. Every
  interruption point is reached because `Drop` is enabled whenever the link is up. One name that has
  lost digits and one value of a cut number are enough, since nothing tells two of them apart.
* *MCServer*: two clients show both kinds of interference, a newcomer during the life of a handler
  and two handlers that share a stream; two requests each are needed for order and for a request
  that is executed twice. With three clients the state space exceeds what a run of minutes can
  finish; the safety properties are proved for any number. Clients are symmetric, but liveness is
  checked, so only MCServerMixed uses the symmetry.
* *MCStartup*: command lines with both forms of a local address and a remote one, a port of its own
  and the one where another server may already run; files of both kinds that change the port (free,
  too large for 16 bits, the last one), move the client to another machine, need `log-to-file`, have
  an entry of the wrong type or do not parse. One foreign server on this machine and one elsewhere,
  each allowing shutdowns or not, ending at any time. The state space is finite without a bound.
* *MCWire*: three requests, each the handshake or one of three messages, with a line feed, numbers of
  one to three digits, and negative bytes; pieces of any size and a loss at any character. The text
  of a message longer than three bytes adds nothing but more places to cut; for the safety properties
  the proof covers messages of any length. Every message starts with 8, the tag of its first field,
  as a protobuf message of this program does.

**Fairness.** In Session `WF(Progress)` and `WF(Serve)`: the Repl's thread and the handler thread
run when they can, which the operating system's scheduler gives them. Nothing is assumed of the
user, who need not answer the prompt (so `CommandsComplete` lets a command end there), and nothing
of the network: a connection need not break, but when it does the read returns. In Server the
accept loop, `Exit`, each handler and the client's read are weakly fair; connecting, sending,
leaving and the shutdown are nobody's duty. A handler stays enabled only as long as nobody takes
the stream away, hence weak fairness per thread is exactly what the scheduler gives. In Wire the
threads run and what is written on a connection that holds arrives, which TCP gives; the loss of
the connection is nobody's duty. In Startup each thread of a process is weakly fair; the user, who
ends the Repl, and other people owe nothing. Waiting for time (500 ms after the fork, 50 ms after the
start of the service) is no fairness and no guard: whatever can happen in between may have
happened or not.

Deadlock is checked in every run; `Terminated` is the end of a Repl, of a server, or of all
processes.

## 4. What the properties say

* `ServerFollowsLog`: as long as the link is up, the storage is what executing a prefix of the
  client's log produces, and the whole log between two messages. A replay thus restores the lost
  state, whatever was interrupted, and no message is executed twice or skipped.
* `RemoteSpec`: the same seen from outside, step by step: with all its connections, reconnects and
  replays the session behaves like one storage that never forgets. What the user sees changes by the
  reply to a request, by a beginning of it that parses, or not at all.
* `NothingForgotten`: every object of the mirror is in the store the log produces, except under the
  names that a reply has lost the end of: the empty one and those of `Unreadable`. It is about which
  objects there are. What an object shows may be a number that was cut; a builder is built with it as
  if its user had edited it so. `OnlyNamedObjects`, that there are no objects of the exception, is
  refuted (section 6).
* `ObjectsSynchronised`, `ResultsUseEditedObjects`: both hold on a connection that holds, and are
  refuted once a connection can break (section 6), by the two windows that the replay leaves open.
* `AloneServedRight`, `AloneKeepsItsStream`, `AloneAnswered`, `HandlersEnd`: clients that come one
  after another get what the documentation promises, in spite of the reused variable: a handler
  that has ended left nothing behind that a later one can meet. `AtMostOnce` holds for clients that
  overlap too.
* `ErrorsKeepObjects`: an error reply leaves cars, builders and the copies in calculators alone.
  It does not claim that nothing changed: `new_action` stores the scalar fields of a calculator
  before it looks for its car, and the property says exactly this much.
* `CalculatorCarIsACopy`: a calculator's car changes only by a request for that calculator that
  names an existing car.
* `HandedOnAsWritten`: what a program takes for a message is what the other has written, byte by
  byte; only the last one on a lost connection may be a beginning of it, of which the last byte may
  have lost digits (its value is left free). It is handed on all the same: a request that was cut
  can be executed, and a reply that was cut can get into the mirror, which Session follows.
  `OnlyACutLineThrows` says that nothing else makes `stoi` throw; `WaitEnds` that nobody waits for
  the rest of a line.
* `ClientFindsItsServer`, `ExitedClientLeavesNoServer`, `FileEndsBoth`: parent and server read
  options and file independently, and still agree, on the address (as long as it stays on this
  machine) and on the verdict.
* `ShutdownCompletes`, `ServerGoesWithClient`: a server that has promised to end does, whatever its
  main thread has noticed and whoever asks again; and a client that has started one ends after it.
  The second holds only if the request was answered by that server or by nobody, which section 6
  shows.

## 5. What is proved

Assumptions, each named in its module: `DBL_MAX` is a positive number (`DoublesAssumption`), the
empty name is not a name (`NamesAssumption`), the messages a peer sends are well-typed
(`MessagesAssumption`), and so are the names and inputs of a user (`SessionAssumption`), the command
lines and files (`TextsAssumption`, `StartupAssumption`), the bound on requests
(`ServerAssumption`), and messages are sequences of signed bytes (`WireAssumption`). Nothing is
assumed about how many names, messages, clients, requests or lost connections there are, nor that
the sets are finite.

* **StorageActionsProofs**: lemmas about the operators. Conversions keep their types and a car
  survives its message (`CarRoundTrip`); each branch of `new_action` keeps the type of the store
  and the completeness of its cars, and its reply shows the stored object. They are stated of an
  arbitrary well-typed store and cited by both state machines.
* **ObjectStorageProofs**: `Invariance` (the inductive invariant: types, complete cars and what the
  last reply shows), and from it `TypeCorrect`, `OnlyCompleteCars`, `RepliesShowStoredObjects` and
  the action properties `CalculatorsOwnTheirCar` and `FailedRequestsKeepObjects`. The last one rests
  on `NewActionError`: whatever branch `new_action` takes, a reply of type `ERROR` comes with a
  store of the same cars and builders, in which every calculator has kept its car.
  `RepliesShowStoredObjects` needs both of the other parts: only a complete car is stored, and only
  then the reply of a build carries it.
* **SessionProofs**: `SessionInvariance` proves `IInv` of Session inductive, for every number of
  messages and drops; `SessionTypeCorrect` and `ReplayRestores` (`Spec => []ServerFollowsLog`)
  follow. `ServerFollowsLog` is not inductive alone. It needs `Wire` (a formula of Session, not the
  module): for every `pc`, what is in flight and how many messages the storage has executed (in
  `await` the last message of the log, in `replay_await` the one at `position`) and that a reply is
  on its way, or left behind by a lost connection, only where the client will read it;
  `CallInProgress`: where `pc` allows a message to be pending, there is one; `SnapshotsOfLog`: the
  history variable is what it is called, so that serving message n takes snapshot n-1 to snapshot n;
  and `StoresComplete`, without which the type of a reply could not be established. The proof has
  one step per action of `Next`.
* **SessionRefinementProofs**: `SessionImplementsRemoteStorage` (`Spec => RemoteSpec`). `IInv` says
  what the mapping needs: a request that is pending is the last of the log and the storage has
  executed everything before it (`PendingIsLast`), so that `Serve` is `Execute`, `ReadReply` is
  `Deliver`, `ReadCutReply` is `DeliverBeginning`, a reply that is rejected, throws or has not
  arrived is `LoseAnswer` (a stutter if there is no answer), a drop before the request was executed
  is `ExecuteUnseen` and any other a stutter, a write to a connection that is down is `AskUnseen`,
  and every step of prompt and replay is a stutter.
* **MirrorProofs**: `MirrorIsRestorable` (`Spec => []NothingForgotten`). It needs that the reply on
  its way shows an object of `Expected` (`AnswersKnown`), that a beginning of it names that object
  or none that the log has to restore (`BeginningName`, with `CutNames` the names of the exception
  and `Restorable` the rest), and that no message removes an object, so that a longer log keeps what
  a shorter one had. With `ReplayRestores` it gives `ShownObjectsAreStored`, what is left of
  `ObjectsSynchronised` after lost connections: the cars with names of the user, and the builders
  and calculators he can name, are on the server. `ConnectedMirrorIsSynchronised` and
  `ConnectedResultsUseEdits` are `[](drops = 0 => ...)` of `ObjectsSynchronised` and
  `ResultsUseEditedObjects`: the hypothesis is what MCSession has as a bound, and without it both
  are refuted (section 6). The invariant `SInv` says for every `pc` how far mirror and storage agree
  (`Agree`): fully between two messages, and, while a reply is on its way, once the reply has been
  applied to the mirror (`Connected`); before the first connection the mirror is empty
  (`Unconnected`). For a command of two messages it keeps that the first one has made the builder or
  the calculator of the storage what the user had edited, which is what the second one uses.
* **ServerProofs**: `ServerTypeCorrect` and `ExecutedAtMostOnce`, with clients that overlap as they
  like. The invariant `DInv` says where a request can be (on its way, read, executed) and that it
  is in one of these places once (`OnWayOnce`, `ReadOnce`); a new request is in none, because what a
  client has sent has smaller numbers (`SentBefore`). `ServedRightAlone` and `StreamKeptAlone` are
  about clients that come one after another. While no client was accepted with a handler at work, the
  handler at work is that of the newest stream (`OneAtWork`), so that the slot is its own;
  connections in the backlog have no handler yet (`Waiting`); `OwnStream` ties the state of a stream
  to the place of its thread, and `OwnLines` the one request without an answer to the one place where
  it is. `AInv` is `DInv` and, unless `overlapped`, these four.
* **StartupProofs**: `StartupTypeCorrect`, `ServerIsFound` and `ExitLeavesNoServer`, for every set of
  options and files. The invariant `SInv` says which settings each process has read by its place
  (`SettingsRead`), that a bound port is shared with nobody (`PortHeld`), and why a client has exited
  (`ForkedFirst`). Two lemmas carry it: `SameVerdict`, a file is accepted or not whatever the
  settings it overrides, as long as these log or not alike; and `ConfiguredSettings`, the port
  depends on the file, or if there is none on the options that were passed on.

* **WireProofs**: `MessageReadBack`, the codec for every message: `from_ascii` gives back what
  `to_ascii` has written, and no `stoi` throws. On top of it `WireTypeCorrect`, `MessagesHandedOn`
  (`HandedOnAsWritten`) and `ThrowsOnlyWhenCut` (`OnlyACutLineThrows`), for every set of messages,
  any number of requests, any pieces and a loss at any character.
  * Induction. A theorem of the library that takes an operator cannot be cited, so the induction over
    the characters of a line is one over a *set* of numbers: `SetOfNaturals` (a set that contains 0
    and with each number the next is `Nat`) follows from finite sets being well-founded under strict
    inclusion, and the lemmas `Upwards` and `Iterates` bring it into the form in which a recursive
    function of Wire is unfolded.
  * Codec. `Laid` says where in a text each number starts and what stands there. From it `ReadSteps`
    (what `Tokens` has found at each position), `StoiOfDecimal` (one number), and `BeginningRead`: a
    beginning of a line is read as a beginning of the message, in which the last number may be cut
    (`CutRead`, `CutMessageRead`). A whole line makes no `stoi` throw.
  * Connection. `WInv` is the invariant. Requests and replies take turns (`Turns`), so each direction
    has at most one message on its way, and what is underway or has arrived begins the line of that
    message (`InFlight`); a stream that has reached its end has nothing left (`Ended`). `getline`
    therefore finds the whole line or, once the connection is lost, a beginning of it (`LineFound`),
    and the codec lemmas say what either is read as. One lemma per action.

**Model-checked only.** The liveness properties (`CommandsComplete`, `AloneAnswered`, `HandlersEnd`,
`FileEndsBoth`, `ShutdownCompletes`, `ServerGoesWithClient`, `WaitEnds`): they need fairness and
ENABLED, which are out of reach of the prover. Every other property of a passing run is stated by
a theorem, `ObjectsSynchronised` and `ResultsUseEditedObjects` for sessions that lose no connection.

## 6. Where code and documents disagree

| run | what TLC finds |
|---|---|
| MCSessionCutReply | a reply that a lost connection cuts before its text is parsed all the same, and the mirror gets an object without a name instead of the one asked for |
| MCSessionStaleBuild | after a reconnect at the first message of a build, the builder's edits are dropped and the car is built from the old builder |
| MCSessionLostReply | an object whose first reply was lost comes back to the server by the replay, and never to the mirror, because the replay throws the replies away |
| MCServerMixed | with two clients at the same time a handler executes and answers the requests of the other |
| MCStartupElsewhere | the request to shut down goes to another server than the own one, here because the file gave its address; its yes is taken for that of the own one, which `waitpid` then waits for for ever |
| MCStartupNoFork | after a failed `fork` the client sends SIGKILL to -1, every process of the user |

Small ones that need no run: the client looks the car of a calculator up under the name of the
calculator, so that `show` has no car after an assignment (`src/src/client/repl_functions.cpp:289`,
`Mirrored` of Session); a failed rebuild of an existing car names the car in its error where
the other branch names the builder (`src/src/server/object_storage.cpp:98` and `:136`), "Server
updated" is printed also when the replay was broken off, and a client told to stop asks for a
reconnect once more for the second message of a command.

## 7. What is abstracted or left out, and why

* A request or reply stands for its line in Session and Server; Wire has the text, and shows that a
  line is whole unless the connection was lost within it. Session has the replies that are cut, by
  what protobuf makes of them; whether a particular reply has a negative byte, so that cutting it
  behind the sign ends the process, is left open there. Requests that are cut are not in Session:
  what they do is gone with the storage of their handler. A client that `stoi` has ended is not in
  Startup; its server then runs on.
* Parsing: a command of the model is the grammar action, with the values it was given. The grammar is
  a string that cpp-peglib interprets; a model of it would be one of that library. pystring is a
  third-party library in the repository; what the code uses of it is part of Wire and Config.
* Printing, logging, `to_string`, `operator==` and getters change no state. Log files are not
  modelled: with `-l` client and server rotate the same file, see the hazards.
* Addresses are the numbers between the dots, or a name; ports are not 0, and two servers on one
  machine meet when they have the same port. Client and server read the same content in the file.
* `SHUTDOWN` of the Repl calls the gRPC service and then stops the Repl whatever the answer: for
  Session it is `End`, in Startup `ReplShutsDown`, and its effect on the accept loop `Shutdown` in
  Server. The `file` command feeds lines to the same parser, one after another.
* A server of other people is only whether it runs, whether it may be shut down, and its port.
* Undefined behaviour. The variable `strm` is out of scope while detached threads read it; Server
  takes the outcome the usual build has, a stack slot that the next round of the loop reuses. Two
  threads that call `getline` on one stream race; the model lets either get the line and none both.
  What happens after the use of a deleted stream is not modelled. `Repl::running` is a reference to
  a parameter that is gone; Session takes it to hold what was last written. The address that
  `SHUTDOWN` captures is gone as well: `ReplShutsDown` lets the call go to its address or nowhere.
  The port text that `execv` reads is gone: `ServerRejects` lets the parser of the server find no
  number; that it might find another number is left out.
* `acceptor.close()` at the end of `main`, with the detached loop in `accept`, is undefined only
  until the process ends a few lines later; Server and Startup end it in one step.
* A `getline(cin)` at the end of the input spins without changing the state, and numbers that the
  parser cannot represent end the process; see the hazards without a property.

## 8. What is left

Every component with logic of its own is modelled. A next step could add the lifetime of what the
lambdas of the Repl capture, if the code is changed to keep it alive.
