-------------------------------- MODULE Startup --------------------------------
(***************************************************************************)
(* The life of the processes: a client (src/src/client/c_main.cpp) that    *)
(* may start a server (config::start_server) and ends it when it ends      *)
(* itself; that server (src/src/server/s_main.cpp) with its thread for the *)
(* shutdown service (server_grpc.cpp); and the servers of other people     *)
(* that the client can meet at its address.                                *)
(*                                                                         *)
(* No step waits for time: 500 ms after the fork, and 50 ms after the      *)
(* start of the service, anything or nothing may have happened.            *)
(***************************************************************************)
EXTENDS Config

CONSTANTS Options,      \* command lines: settings, start_server, config
          Foreign,      \* servers of other people: "here" and "there"
          ForeignPort   \* the port they use, with the port one higher

ASSUME StartupAssumption ==
    /\ Foreign \subseteq {"here", "there"}
    /\ ForeignPort \in 1 .. MaxPort - 1
    /\ \A o \in Options :
          /\ o.settings \in Settings /\ CliAccepts(o.settings)
          /\ o.start_server \in BOOLEAN
          /\ o.config.kind \in {"none", "json", "toml"} /\ IsFile(o.config.file)

VARIABLES options,      \* of the client that the user starts
          pc,           \* main of that client, and of a child that stays one
          settings,     \* server_data and logger_settings of the clients
          pid,          \* what start_server returned: 0, Child or -1
          child,        \* the forked process: what it runs, or "dead"
          spc,          \* main of the server
          server,       \* its settings
          gpc,          \* its thread for the service
          promise,      \* exit_requested: "open" or "set"
          shutdown_now, \* Shutdown_Implementation::shutdown_now
          up,           \* which servers of other people run
          allows,       \* ... and let a client shut them down
          answered,     \* history: who accepted the client's last request
          killed        \* history: whom the client has sent SIGKILL

clientVars == <<pc, settings>>
serverVars == <<spc, server, gpc, promise, shutdown_now>>
others     == <<up, allows>>
vars == <<options, clientVars, pid, child, serverVars, others, answered, killed>>

Servers == Foreign \cup {"own"}
Clients == {"parent", "child"}
Child   == 1

Init == /\ options \in Options
        /\ pc = [c \in Clients |-> IF c = "parent" THEN "start" ELSE "none"]
        /\ settings = [c \in Clients |-> options.settings]
        /\ pid = 0 /\ child = "none"
        /\ spc = "none" /\ server = DefaultSettings("logs/server.log")
        /\ gpc = "none" /\ promise = "open" /\ shutdown_now = FALSE
        /\ up = [f \in Foreign |-> TRUE] /\ allows \in [Foreign -> BOOLEAN]
        /\ answered = "nobody" /\ killed = {}

-----------------------------------------------------------------------------
(* start_server *)

\* No server is wanted.
StartAlone ==
    /\ pc["parent"] = "start" /\ ~options.start_server
    /\ pc' = [pc EXCEPT !["parent"] = "configure"]
    /\ UNCHANGED <<options, settings, pid, child, serverVars, others, answered,
                   killed>>

\* The address given as an option is not of this machine: exit(1).
StartRejected ==
    /\ pc["parent"] = "start" /\ options.start_server
    /\ ~validate_localhost(options.settings.ip)
    /\ pc' = [pc EXCEPT !["parent"] = "exited"]
    /\ UNCHANGED <<options, settings, pid, child, serverVars, others, answered,
                   killed>>

\* fork; the parent sleeps and goes on.
Fork ==
    /\ pc["parent"] = "start" /\ options.start_server
    /\ validate_localhost(options.settings.ip)
    /\ pid' = Child /\ child' = "forked"
    /\ pc' = [pc EXCEPT !["parent"] = "configure"]
    /\ UNCHANGED <<options, settings, serverVars, others, answered, killed>>

\* fork fails: -1 is returned like the pid of a server.
ForkFails ==
    /\ pc["parent"] = "start" /\ options.start_server
    /\ validate_localhost(options.settings.ip)
    /\ pid' = -1
    /\ pc' = [pc EXCEPT !["parent"] = "configure"]
    /\ UNCHANGED <<options, settings, child, serverVars, others, answered, killed>>

\* execv replaces the child by the server.
Exec ==
    /\ child = "forked"
    /\ child' = "server" /\ spc' = "configure"
    /\ UNCHANGED <<options, clientVars, pid, server, gpc, promise, shutdown_now,
                   others, answered, killed>>

\* execv fails: the child returns from start_server with pid 0, as a client.
ExecFails ==
    /\ child = "forked"
    /\ child' = "client"
    /\ pc' = [pc EXCEPT !["child"] = "configure"]
    /\ UNCHANGED <<options, settings, pid, serverVars, others, answered, killed>>

-----------------------------------------------------------------------------
(* The service of a server, as a client finds it *)

\* The ports that the servers of other people on this machine use.
Taken == IF "here" \in Foreign /\ up["here"]
         THEN {ForeignPort, ForeignPort + 1} ELSE {}

Serving == child = "server" /\ gpc = "wait"

\* Who listens at the address of s, one above the port of s.
Reached(s) ==
    IF validate_localhost(s.ip)
    THEN (IF Serving /\ get_grpc_port(server) = get_grpc_port(s)
          THEN {"own"} ELSE {})
         \cup {f \in Foreign \cap {"here"} : up[f] /\ s.port = ForeignPort}
    ELSE {f \in Foreign \cap {"there"} : up[f] /\ s.port = ForeignPort}

\* A server that allows it says yes.  A second request finds the promise of the
\* started server set already, set_value throws, and the call fails.
AcceptsShutdown(who) ==
    IF who = "own" THEN server.allow_shutdown /\ promise = "open" ELSE allows[who]

\* Whoever says yes ends: its service wakes up, or it is out of this model.
ShutdownCall(who) ==
    /\ promise' = IF who = "own" THEN "set" ELSE promise
    /\ up' = [f \in Foreign |-> up[f] /\ f # who]
    /\ UNCHANGED <<spc, server, gpc, shutdown_now, allows>>

\* RPC_Client::send_shutdown: who says yes, or nobody.
SendShutdown(s, who) ==
    \/ who \in Reached(s) /\ AcceptsShutdown(who) /\ ShutdownCall(who)
    \/ /\ who = "nobody"
       /\ \A x \in Reached(s) : ~AcceptsShutdown(x)
       /\ UNCHANGED <<serverVars, others>>

-----------------------------------------------------------------------------
(* main of a client *)

At(c, here) == pc[c] = here /\ (c = "child" => child = "client")
GoTo(c, there) == pc' = [pc EXCEPT ![c] = there]

\* The file is read and the logger created.
Configure(c) ==
    /\ At(c, "configure")
    /\ \E s \in Configured(options.config, settings[c]) :
          settings' = [settings EXCEPT ![c] = s]
    /\ GoTo(c, "repl")
    /\ UNCHANGED <<options, pid, child, serverVars, others, answered, killed>>

\* exit(1), or the end of main: the process is gone.
Leave(c, how) ==
    /\ GoTo(c, how)
    /\ child' = IF c = "child" THEN "dead" ELSE child
    /\ UNCHANGED <<options, settings, pid, serverVars, others, answered, killed>>

FileRejected(c) ==
    /\ At(c, "configure") /\ Configured(options.config, settings[c]) = {}
    /\ Leave(c, "exited")

\* The file to log to cannot be created.
LoggerFails(c) ==
    /\ At(c, "configure")
    /\ \E s \in Configured(options.config, settings[c]) : s.log_to_file
    /\ Leave(c, "no logger")

\* The Repl ends by itself, or by END.
ReplEnds(c) ==
    /\ At(c, "repl") /\ GoTo(c, "joined")
    /\ UNCHANGED <<options, settings, pid, child, serverVars, others, answered,
                   killed>>

\* SHUTDOWN.  The address is taken from a parameter of the constructor that has
\* gone: the call may as well go nowhere.
ReplShutsDown(c) ==
    /\ At(c, "repl")
    /\ \/ \E who \in Servers \cup {"nobody"} : SendShutdown(settings[c], who)
       \/ UNCHANGED <<serverVars, others>>
    /\ GoTo(c, "joined")
    /\ UNCHANGED <<options, settings, pid, child, answered, killed>>

\* Nothing was started by this process.
EndAlone(c) ==
    /\ At(c, "joined") /\ (IF c = "parent" THEN pid ELSE 0) = 0
    /\ Leave(c, "ended")

\* The last request of a client that has started a server.
AskForShutdown ==
    /\ pc["parent"] = "joined" /\ pid # 0
    /\ \E who \in Servers \cup {"nobody"} :
          /\ SendShutdown(settings["parent"], who)
          /\ GoTo("parent", IF who = "nobody" THEN "kill" ELSE "wait")
          /\ answered' = who
    /\ UNCHANGED <<options, settings, pid, child, killed>>

\* Mutant: a server that does not answer is not killed.
KillMutant ==
    /\ pc["parent"] = "kill"
    /\ GoTo("parent", "wait")
    /\ UNCHANGED <<options, settings, pid, child, serverVars, others, answered,
                   killed>>

\* kill(pid, SIGKILL); -1 is every process that the user may signal.
Kill ==
    /\ pc["parent"] = "kill"
    /\ IF pid = Child
       THEN /\ child' = "dead"
            /\ killed' = {"child"} /\ UNCHANGED up
       ELSE /\ up' = [f \in Foreign |-> up[f] /\ f # "here"]
            /\ killed' = {"everybody"} /\ UNCHANGED child
    /\ GoTo("parent", "wait")
    /\ UNCHANGED <<options, settings, pid, serverVars, allows, answered>>

\* waitpid returns when the child has ended, or at once when there is none.
WaitPid ==
    /\ pc["parent"] = "wait"
    /\ pid = Child => child = "dead"
    /\ child' = IF pid = Child THEN "reaped" ELSE child
    /\ GoTo("parent", "ended")
    /\ UNCHANGED <<options, settings, pid, serverVars, others, answered, killed>>

-----------------------------------------------------------------------------
(* main of the server that was started *)

ServerAt(here) == child = "server" /\ spc = here

ServerDies == child' = "dead"
              /\ UNCHANGED <<options, clientVars, pid, serverVars, others,
                             answered, killed>>

\* Options and file of the client, and -e.
ServerConfigures ==
    /\ ServerAt("configure")
    /\ server' \in Configured(options.config, PassedOn(options.settings))
    /\ spc' = "bind"
    /\ UNCHANGED <<options, clientVars, pid, child, gpc, promise, shutdown_now,
                   others, answered, killed>>

\* The text of the port is a temporary that is gone when execv reads it: the
\* parser may not find a number.  Or the file is rejected, or no logger created.
ServerRejects == ServerAt("configure") /\ ServerDies

\* The acceptor takes the port, and the thread for the service is started.
ServerBinds ==
    /\ ServerAt("bind") /\ server.port \notin Taken
    /\ spc' = "pause" /\ gpc' = "build"
    /\ UNCHANGED <<options, clientVars, pid, child, server, promise, shutdown_now,
                   others, answered, killed>>

\* The constructor of the acceptor throws, and main ends.
PortTaken == ServerAt("bind") /\ server.port \in Taken /\ ServerDies

\* After 50 ms: unless the service is known to have failed, clients are accepted
\* (module Server).  main waits for the service in both cases.
ServerStarts ==
    /\ ServerAt("pause")
    /\ spc' = "join"
    /\ UNCHANGED <<options, clientVars, pid, child, server, gpc, promise,
                   shutdown_now, others, answered, killed>>

\* The thread is joined, and the end of main ends every other thread.
ServerEnds == ServerAt("join") /\ gpc = "done" /\ ServerDies

ServiceStep(next) == /\ child = "server" /\ gpc' = next
                     /\ UNCHANGED <<options, clientVars, pid, child, spc, server,
                                    promise, others, answered, killed>>

\* BuildAndStart: the port is free and is a port.
ServiceStarts ==
    /\ gpc = "build"
    /\ get_grpc_port(server) <= MaxPort /\ get_grpc_port(server) \notin Taken
    /\ ServiceStep("wait") /\ UNCHANGED shutdown_now

\* It returns no server.
ServiceFails ==
    /\ gpc = "build"
    /\ get_grpc_port(server) > MaxPort \/ get_grpc_port(server) \in Taken
    /\ ServiceStep("done") /\ shutdown_now' = TRUE

\* Mutant: the thread waits for another request.
ServiceEndsMutant ==
    /\ gpc = "wait" /\ promise = "set"
    /\ ServiceStep("wait") /\ shutdown_now' = TRUE

\* The promise is set: the service is shut down, requests in progress answered.
ServiceEnds ==
    /\ gpc = "wait" /\ promise = "set"
    /\ ServiceStep("done") /\ shutdown_now' = TRUE

-----------------------------------------------------------------------------
(* Other people *)

\* Another client shuts the started server down.
StrangerAsks ==
    /\ Serving /\ AcceptsShutdown("own") /\ ShutdownCall("own")
    /\ UNCHANGED <<options, clientVars, pid, child, answered, killed>>

\* A server of somebody else ends.
ForeignEnds ==
    /\ \E f \in Foreign : up[f] /\ up' = [up EXCEPT ![f] = FALSE]
    /\ UNCHANGED <<options, clientVars, pid, child, serverVars, allows, answered,
                   killed>>

\* Every process is gone.
Terminated ==
    /\ pc["parent"] \in {"exited", "no logger", "ended"}
    /\ child \in {"none", "dead", "reaped"}
    /\ UNCHANGED vars

Start == StartAlone \/ StartRejected \/ Fork \/ ForkFails
AfterFork == Exec \/ ExecFails

\* What a client does without its user.
Main(c) == Configure(c) \/ FileRejected(c) \/ LoggerFails(c) \/ EndAlone(c)
Closing == AskForShutdown \/ Kill \/ WaitPid

ServerMain == \/ ServerConfigures \/ ServerRejects \/ ServerBinds \/ PortTaken
              \/ ServerStarts \/ ServerEnds
Service == ServiceStarts \/ ServiceFails \/ ServiceEnds

Next == \/ Start \/ AfterFork
        \/ \E c \in Clients : Main(c) \/ ReplEnds(c) \/ ReplShutsDown(c)
        \/ Closing \/ ServerMain \/ Service
        \/ StrangerAsks \/ ForeignEnds \/ Terminated

\* Processes and threads run; users and other people owe nothing.
Spec == /\ Init /\ [][Next]_vars
        /\ WF_vars(Start) /\ WF_vars(AfterFork) /\ WF_vars(Closing)
        /\ \A c \in Clients : WF_vars(Main(c))
        /\ WF_vars(ServerMain) /\ WF_vars(Service)
-----------------------------------------------------------------------------
TypeOK ==
    /\ options \in Options /\ pid \in {-1, 0, Child}
    /\ pc \in [Clients -> {"none", "start", "configure", "repl", "joined",
                           "kill", "wait", "ended", "exited", "no logger"}]
    /\ settings \in [Clients -> Settings] /\ server \in Settings
    /\ child \in {"none", "forked", "server", "client", "dead", "reaped"}
    /\ spc \in {"none", "configure", "bind", "pause", "join"}
    /\ gpc \in {"none", "build", "wait", "done"} /\ promise \in {"open", "set"}
    /\ shutdown_now \in BOOLEAN
    /\ up \in [Foreign -> BOOLEAN] /\ allows \in [Foreign -> BOOLEAN]
    /\ answered \in Servers \cup {"nobody"}
    /\ killed \subseteq {"child", "everybody"}

\* Parent and server read their options and the file each for itself; when both
\* are through, and the file leaves the client on this machine, the address that
\* the client has computed for the service is that of the server it started,
\* and nobody else's (c_main.cpp:92-107 and 144, config.cpp:169-213 and 284).
ClientFindsItsServer ==
    /\ Serving
    /\ pc["parent"] \in {"repl", "joined"}
    /\ validate_localhost(settings["parent"].ip)
    => Reached(settings["parent"]) = {"own"}

\* A client that exits before its Repl runs has started no server that serves:
\* the address was not of this machine, or the server rejects the same file.
ExitedClientLeavesNoServer ==
    pc["parent"] = "exited" => spc \in {"none", "configure"}

Gone == child \in {"none", "dead", "reaped"}

\* A client that exits because of its file leaves no server behind, although it
\* has forked it before it reads the file (c_main.cpp:92-119): the server reads
\* the same file after the options passed on, and gives it the same verdict.
FileEndsBoth == pc["parent"] = "exited" ~> Gone

\* A server that has been asked to end does, also when it is asked again, when
\* main has not noticed anything after 50 ms, and whoever asked
\* (server_grpc.cpp:38-92, s_main.cpp:109-181).
ShutdownCompletes == Serving /\ promise = "set" ~> Gone

\* A client that has started a server ends, and its server with it, if the
\* request was answered by that server or by nobody (c_main.cpp:141-152).
ServerGoesWithClient ==
    pc["parent"] = "wait" /\ answered \in {"own", "nobody"}
        ~> pc["parent"] = "ended" /\ Gone

-----------------------------------------------------------------------------
(* What the documentation says and the code does not do. *)

\* The server that a client has started is closed with the client.
ServerClosesWithClient == pc["parent"] = "joined" /\ child = "server" ~> Gone

\* What start_server returns is the pid of the process it has created: it is
\* the only process that the client kills.
KillsOnlyItsServer == killed \subseteq {"child"}
=============================================================================
