--------------------------------- MODULE Server --------------------------------
(***************************************************************************)
(* The accept loop of the server and its handler threads                   *)
(* (src/src/server/s_main.cpp).  Every client gets a thread and an         *)
(* Object_Storage of its own, but all the threads reach their stream       *)
(* through the variable strm of the accept loop, which their lambda        *)
(* captures by reference.  The variable is out of scope once the thread is *)
(* detached; it lives in a stack slot that the next round of the loop uses *)
(* again, so that a thread that reads it finds the newest stream.          *)
(*                                                                         *)
(* A step of a thread is what happens between two reads of that slot.      *)
(* Using a stream that was deleted leaves the model: the process is        *)
(* "undefined" from then on.                                               *)
(***************************************************************************)
EXTENDS Naturals, Sequences, FiniteSets

CONSTANTS Clients,      \* every client connects once
          MaxRequests   \* bound on the requests of a client

ASSUME ServerAssumption == MaxRequests \in Nat

VARIABLES process,      \* of the server: "running", "ended" or "undefined"
          shutdown_now, \* Shutdown_Implementation::shutdown_now
          acceptor,     \* the accept loop: "test", "accept" or "left"
          backlog,      \* connections that wait to be accepted
          slot,         \* the variable strm of the accept loop
          stream,       \* the iostream of a client: "none", "live", "closed"
                        \*   or "deleted"
          good,         \* bool(*strm), by stream
          pc,           \* where the handler of a client is
          reading,      \* the stream its getline was called on
          data,         \* the line it has read
          obst,         \* what its Object_Storage has executed, in order
          client,       \* "new", "idle", "waiting" or "closed"
          sent,         \* number of requests a client has sent
          inbox,        \* bytes on their way to the server, by connection
          outbox,       \* bytes on their way to the client, by connection
          overlapped    \* history: a client was accepted while another
                        \*   handler was at work

loop    == <<shutdown_now, acceptor, backlog, slot>>
threads == <<pc, reading, data, obst>>
streams == <<stream, good>>
peers   == <<client, sent, inbox, outbox>>
vars    == <<process, loop, threads, streams, peers, overlapped>>

NoStream == "no stream"
Blank    == <<NoStream, 0>>     \* the string that a failed getline leaves empty

\* Requests are told apart by who sent them and when.
Requests == Clients \X (1 .. MaxRequests)

Init == /\ process = "running" /\ shutdown_now = FALSE
        /\ acceptor = "test" /\ backlog = <<>> /\ slot = NoStream
        /\ stream = [c \in Clients |-> "none"]
        /\ good = [c \in Clients |-> FALSE]
        /\ pc = [c \in Clients |-> "none"]
        /\ reading = [c \in Clients |-> NoStream]
        /\ data = [c \in Clients |-> Blank]
        /\ obst = [c \in Clients |-> <<>>]
        /\ client = [c \in Clients |-> "new"]
        /\ sent = [c \in Clients |-> 0]
        /\ inbox = [c \in Clients |-> <<>>]
        /\ outbox = [c \in Clients |-> <<>>]
        /\ overlapped = FALSE

AtWork(c) == pc[c] \notin {"none", "done"}

-----------------------------------------------------------------------------
(* The accept loop and the end of the process *)

\* while (!shutdown.shutdown_now)
TestShutdown ==
    /\ process = "running" /\ acceptor = "test"
    /\ acceptor' = IF shutdown_now THEN "left" ELSE "accept"
    /\ UNCHANGED <<process, shutdown_now, backlog, slot, threads, streams,
                   peers, overlapped>>

\* accept returns: a stream for the connection and a detached thread for it.
Accept ==
    /\ process = "running" /\ acceptor = "accept" /\ backlog # <<>>
    /\ LET c == Head(backlog)
       IN  /\ slot' = c
           /\ stream' = [stream EXCEPT ![c] = "live"]
           /\ good' = [good EXCEPT ![c] = TRUE]
           /\ pc' = [pc EXCEPT ![c] = "test"]
           /\ overlapped' = (overlapped \/ \E d \in Clients : AtWork(d))
    /\ backlog' = Tail(backlog)
    /\ acceptor' = "test"
    /\ UNCHANGED <<process, shutdown_now, reading, data, obst, peers>>

\* The gRPC thread has served the shutdown.
Shutdown ==
    /\ process = "running" /\ ~shutdown_now
    /\ shutdown_now' = TRUE
    /\ UNCHANGED <<process, acceptor, backlog, slot, threads, streams, peers,
                   overlapped>>

\* main joins the gRPC thread and returns: every thread ends with it.
Exit ==
    /\ process = "running" /\ shutdown_now
    /\ process' = "ended"
    /\ UNCHANGED <<loop, threads, streams, peers, overlapped>>

-----------------------------------------------------------------------------
(* A handler thread.  The thread is named after the client it was started *)
(* for; slot says whose stream it uses.                                    *)

\* A thread uses a stream that another thread has deleted.
UseDeleted(s) ==
    /\ stream[s] = "deleted"
    /\ process' = "undefined"
    /\ UNCHANGED <<loop, threads, streams, peers, overlapped>>

\* Mutant: the loop has no condition.
TestMutant(c) ==
    /\ process = "running" /\ pc[c] = "test"
    /\ pc' = [pc EXCEPT ![c] = "getline"]
    /\ reading' = [reading EXCEPT ![c] = slot]
    /\ UNCHANGED <<process, data, obst, loop, streams, peers, overlapped>>

\* while (*strm), and the call of getline
Test(c) ==
    /\ process = "running" /\ pc[c] = "test"
    /\ \/ UseDeleted(slot)
       \/ /\ stream[slot] # "deleted"
          /\ pc' = [pc EXCEPT ![c] = IF good[slot] THEN "getline" ELSE "close"]
          /\ reading' = [reading EXCEPT ![c] = slot]
          /\ UNCHANGED <<process, data, obst, loop, streams, peers, overlapped>>

\* Mutant: the line is not taken out of the buffer.
GetLineMutant(c) ==
    LET s == reading[c] IN
    /\ process = "running" /\ pc[c] = "getline"
    /\ \/ UseDeleted(s)
       \/ /\ stream[s] = "live" /\ good[s] /\ inbox[s] # <<>>
          /\ data' = [data EXCEPT ![c] = Head(inbox[s])]
          /\ pc' = [pc EXCEPT ![c] = "check"]
          /\ UNCHANGED <<process, reading, obst, loop, streams, peers, overlapped>>

\* getline has a line, or fails because the connection is closed.
GetLine(c) ==
    LET s == reading[c] IN
    /\ process = "running" /\ pc[c] = "getline"
    /\ \/ UseDeleted(s)
       \/ /\ stream[s] = "live" /\ good[s] /\ inbox[s] # <<>>
          /\ data' = [data EXCEPT ![c] = Head(inbox[s])]
          /\ inbox' = [inbox EXCEPT ![s] = Tail(inbox[s])]
          /\ pc' = [pc EXCEPT ![c] = "check"]
          /\ UNCHANGED <<process, reading, obst, loop, streams, client, sent,
                         outbox, overlapped>>
       \/ /\ stream[s] # "deleted"
          /\ \/ ~good[s] \/ stream[s] = "closed"
             \/ client[s] = "closed" /\ inbox[s] = <<>>
          /\ data' = [data EXCEPT ![c] = Blank]
          /\ good' = [good EXCEPT ![s] = FALSE]
          /\ pc' = [pc EXCEPT ![c] = "check"]
          /\ UNCHANGED <<process, reading, obst, loop, stream, peers, overlapped>>

\* Mutant: the stream is not checked after getline.
CheckMutant(c) ==
    /\ process = "running" /\ pc[c] = "check"
    /\ obst' = [obst EXCEPT ![c] = Append(obst[c], data[c])]
    /\ pc' = [pc EXCEPT ![c] = "write"]
    /\ UNCHANGED <<process, reading, data, loop, streams, peers, overlapped>>

\* if (*strm), and new_action on the storage of the thread
Check(c) ==
    /\ process = "running" /\ pc[c] = "check"
    /\ \/ UseDeleted(slot)
       \/ /\ stream[slot] # "deleted" /\ good[slot]
          /\ obst' = [obst EXCEPT ![c] = Append(obst[c], data[c])]
          /\ pc' = [pc EXCEPT ![c] = "write"]
          /\ UNCHANGED <<process, reading, data, loop, streams, peers, overlapped>>
       \/ /\ stream[slot] # "deleted" /\ ~good[slot]
          /\ pc' = [pc EXCEPT ![c] = "test"]
          /\ UNCHANGED <<process, reading, data, obst, loop, streams, peers,
                         overlapped>>

\* Mutant: the reply stays in the buffer of the stream.
WriteMutant(c) ==
    /\ process = "running" /\ pc[c] = "write"
    /\ pc' = [pc EXCEPT ![c] = "test"]
    /\ UNCHANGED <<process, reading, data, obst, loop, streams, peers, overlapped>>

\* *strm << data: the reply is written, unless the stream or the connection
\* does not take it any more.
Write(c) ==
    /\ process = "running" /\ pc[c] = "write"
    /\ \/ UseDeleted(slot)
       \/ /\ stream[slot] # "deleted"
          /\ outbox' = IF /\ good[slot] /\ stream[slot] = "live"
                          /\ client[slot] # "closed"
                       THEN [outbox EXCEPT ![slot] = Append(@, data[c])]
                       ELSE outbox
          /\ pc' = [pc EXCEPT ![c] = "test"]
          /\ UNCHANGED <<process, reading, data, obst, loop, streams, client,
                         sent, inbox, overlapped>>

\* Mutant: the stream is deleted before it is closed.
CloseMutant(c) ==
    /\ process = "running" /\ pc[c] = "close"
    /\ stream' = [stream EXCEPT ![slot] = "deleted"]
    /\ pc' = [pc EXCEPT ![c] = "delete"]
    /\ UNCHANGED <<process, reading, data, obst, loop, good, peers, overlapped>>

\* strm->close()
Close(c) ==
    /\ process = "running" /\ pc[c] = "close"
    /\ \/ UseDeleted(slot)
       \/ /\ stream[slot] # "deleted"
          /\ stream' = [stream EXCEPT ![slot] = "closed"]
          /\ pc' = [pc EXCEPT ![c] = "delete"]
          /\ UNCHANGED <<process, reading, data, obst, loop, good, peers,
                         overlapped>>

\* delete strm, and the storage goes out of scope
Delete(c) ==
    /\ process = "running" /\ pc[c] = "delete"
    /\ \/ UseDeleted(slot)
       \/ /\ stream[slot] # "deleted"
          /\ stream' = [stream EXCEPT ![slot] = "deleted"]
          /\ pc' = [pc EXCEPT ![c] = "done"]
          /\ obst' = [obst EXCEPT ![c] = <<>>]
          /\ UNCHANGED <<process, reading, data, loop, good, peers, overlapped>>

-----------------------------------------------------------------------------
(* The clients: Repl writes a line and waits for one. *)

\* The kernel completes the connection before accept returns it.
Connect(c) ==
    /\ process = "running" /\ client[c] = "new"
    /\ client' = [client EXCEPT ![c] = "idle"]
    /\ backlog' = Append(backlog, c)
    /\ UNCHANGED <<process, shutdown_now, acceptor, slot, threads, streams,
                   sent, inbox, outbox, overlapped>>

\* Mutant: requests are counted from 0.
SendMutant(c) ==
    /\ client[c] = "idle" /\ sent[c] < MaxRequests
    /\ client' = [client EXCEPT ![c] = "waiting"]
    /\ sent' = [sent EXCEPT ![c] = @ + 1]
    /\ inbox' = [inbox EXCEPT ![c] = Append(@, <<c, sent[c]>>)]
    /\ UNCHANGED <<process, loop, threads, streams, outbox, overlapped>>

\* A line is written.
Send(c) ==
    /\ client[c] = "idle" /\ sent[c] < MaxRequests
    /\ client' = [client EXCEPT ![c] = "waiting"]
    /\ sent' = [sent EXCEPT ![c] = @ + 1]
    /\ inbox' = [inbox EXCEPT ![c] = Append(@, <<c, sent'[c]>>)]
    /\ UNCHANGED <<process, loop, threads, streams, outbox, overlapped>>

Receive(c) ==
    /\ client[c] = "waiting" /\ outbox[c] # <<>>
    /\ client' = [client EXCEPT ![c] = "idle"]
    /\ outbox' = [outbox EXCEPT ![c] = Tail(@)]
    /\ UNCHANGED <<process, loop, threads, streams, sent, inbox, overlapped>>

\* The connection is closed: by the user, by the end of the client's process,
\* or because a read has failed.
Leave(c) ==
    /\ client[c] \in {"idle", "waiting"}
    /\ client' = [client EXCEPT ![c] = "closed"]
    /\ outbox' = [outbox EXCEPT ![c] = <<>>]
    /\ UNCHANGED <<process, loop, threads, streams, sent, inbox, overlapped>>

\* Every client is gone, or the process is.
Terminated ==
    /\ process # "running" \/ \A c \in Clients : client[c] = "closed"
    /\ UNCHANGED vars

Handler(c) == Test(c) \/ GetLine(c) \/ Check(c) \/ Write(c) \/ Close(c) \/ Delete(c)

Next == \/ TestShutdown \/ Accept \/ Shutdown \/ Exit
        \/ \E c \in Clients : \/ Handler(c)
                              \/ Connect(c) \/ Send(c) \/ Receive(c) \/ Leave(c)
        \/ Terminated

\* The threads of the server run and a client reads what it waits for; nobody
\* has to connect, to send or to leave.
Spec == /\ Init /\ [][Next]_vars
        /\ WF_vars(TestShutdown) /\ WF_vars(Accept) /\ WF_vars(Exit)
        /\ \A c \in Clients : WF_vars(Handler(c)) /\ WF_vars(Receive(c))

-----------------------------------------------------------------------------
Lines == Requests \cup {Blank}

TypeOK ==
    /\ process \in {"running", "ended", "undefined"}
    /\ shutdown_now \in BOOLEAN /\ overlapped \in BOOLEAN
    /\ acceptor \in {"test", "accept", "left"}
    /\ backlog \in Seq(Clients) /\ slot \in Clients \cup {NoStream}
    /\ stream \in [Clients -> {"none", "live", "closed", "deleted"}]
    /\ good \in [Clients -> BOOLEAN]
    /\ pc \in [Clients -> {"none", "test", "getline", "check", "write", "close",
                           "delete", "done"}]
    /\ reading \in [Clients -> Clients \cup {NoStream}]
    /\ data \in [Clients -> Lines]
    /\ client \in [Clients -> {"new", "idle", "waiting", "closed"}]
    /\ sent \in [Clients -> 0 .. MaxRequests]
    /\ obst \in [Clients -> Seq(Lines)] /\ inbox \in [Clients -> Seq(Lines)]
    /\ outbox \in [Clients -> Seq(Lines)]

\* What the handler of c has executed is what c has sent, in that order and
\* each request once; the last one may still be on its way.
ServesItsClient(c) ==
    /\ \A i \in 1 .. Len(obst[c]) : obst[c][i] = <<c, i>>
    /\ Len(obst[c]) <= sent[c]

\* The only reply on its way to c answers the request c waits for.
AnswersItsClient(c) ==
    outbox[c] # <<>> => outbox[c] = << <<c, sent[c]>> >> /\ client[c] = "waiting"

\* Clients that come one after another, each when the handler before it is
\* through, are served as Server.tex says ("eigenen Thread und ... eigenen
\* Object-Storage"), although the variable strm is reused under the threads.
AloneServedRight ==
    ~overlapped => \A c \in Clients : ServesItsClient(c) /\ AnswersItsClient(c)

\* Nor does a stream end under anybody's feet then: it is closed only after its
\* client has left, and never used once it is deleted.
AloneKeepsItsStream ==
    ~overlapped => /\ process # "undefined"
                   /\ \A c \in Clients : stream[c] \in {"closed", "deleted"} =>
                                            client[c] = "closed"

\* Whatever the threads do to each other's streams, no request is executed
\* twice.
AtMostOnce ==
    \A c, d \in Clients : \A i \in 1 .. Len(obst[c]), j \in 1 .. Len(obst[d]) :
        /\ obst[c][i] = obst[d][j]
        /\ obst[c][i] # Blank
        => c = d /\ i = j

\* A client that is alone gets an answer to every request, or leaves.
AloneAnswered ==
    \A c \in Clients :
        client[c] = "waiting" ~> \/ client[c] # "waiting" \/ overlapped
                                 \/ process # "running"

\* When a client leaves, its thread ends and its stream is deleted (Server.tex:
\* "Schliesst der Client die Verbindung, ... der Thread beendet sich").
HandlersEnd ==
    \A c \in Clients :
        client[c] = "closed" ~> \/ pc[c] = "done" /\ stream[c] = "deleted"
                                \/ overlapped \/ process # "running"

-----------------------------------------------------------------------------
(* What the documentation says of all clients and the code does not do for *)
(* clients at the same time.                                               *)

\* Every handler serves its own client.
EveryoneServedRight ==
    \A c \in Clients : ServesItsClient(c) /\ AnswersItsClient(c)
=============================================================================
