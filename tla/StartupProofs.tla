------------------------------ MODULE StartupProofs ------------------------------
(***************************************************************************)
(* TLAPS proofs about Startup, for every set of command lines and files,   *)
(* and wherever servers of other people are: client and server, each with  *)
(* its own reading of the options and the file, agree on verdict and port. *)
(***************************************************************************)
EXTENDS Startup, TLAPS

-----------------------------------------------------------------------------
(* Operators of Config *)

\* The only fact about the range of ports that proofs use.
LEMMA PortRange == MaxPort \in Nat /\ 1113 <= MaxPort
  BY DEF MaxPort

\* Ports fit in 16 bits, and a port that fits is kept.
LEMMA PortNarrowed ==
    /\ \A n \in Int : UnsignedShort(n) \in 0 .. MaxPort
    /\ \A n \in 0 .. MaxPort : UnsignedShort(n) = n
  BY PortRange DEF UnsignedShort

LEMMA DefaultsAreSettings ==
    ASSUME NEW log_file \in Texts
    PROVE  DefaultSettings(log_file) \in Settings
  <1>1. <<127, 0, 0, 1>> \in Seq(0 .. NoNumber)
    BY DEF NoNumber
  <1>2. Address(<<127, 0, 0, 1>>) \in Hosts
    BY <1>1, TextsAssumption DEF Address, Hosts
  <1>3. 1113 \in 0 .. MaxPort
    BY PortRange
  <1> QED
    BY <1>2, <1>3 DEF DefaultSettings, Settings

\* What start_server passes on are settings, with the port and the logging of
\* the client.
LEMMA PassedOnSettings ==
    ASSUME NEW s \in Settings
    PROVE  /\ PassedOn(s) \in Settings
           /\ PassedOn(s).port = s.port
           /\ PassedOn(s).log_to_file = s.log_to_file
  <1> DEFINE d == DefaultSettings("logs/server.log")
             debug == s.log_to_file /\ s.log_level_debug
             file == IF s.log_to_file THEN s.log_file ELSE d.log_file
  <1>1. d \in Settings
    BY DefaultsAreSettings, TextsAssumption
  <1>2. PassedOn(s) = [d EXCEPT !.port = s.port, !.allow_shutdown = TRUE,
                                !.log_to_file = s.log_to_file,
                                !.log_level_debug = debug, !.log_file = file]
    BY DEF PassedOn
  <1>3. /\ s.port \in 0 .. MaxPort /\ s.log_to_file \in BOOLEAN
        /\ debug \in BOOLEAN /\ file \in Texts
    BY <1>1 DEF Settings
  <1> HIDE DEF d, debug, file
  <1> QED
    BY <1>1, <1>2, <1>3 DEF Settings

\* An entry of the right type, or the default.
LEMMA ValueOrType ==
    ASSUME NEW entry, NEW Values, \A e \in entry : e.value \in Values,
           NEW default \in Values
    PROVE  ValueOr(entry, default) \in Values
  <1>1. CASE entry = {}
    BY <1>1 DEF ValueOr
  <1>2. CASE entry # {}
    <2>1. (CHOOSE e \in entry : TRUE) \in entry
      BY <1>2
    <2> QED
      BY <1>2, <2>1 DEF ValueOr
  <1> QED
    BY <1>1, <1>2

\* A file whose entries have the right types changes what it has an entry for,
\* and nothing else.
LEMMA OverriddenSettings ==
    ASSUME NEW s \in Settings, NEW file,
           \A e \in file.port : e.value \in Int,
           \A e \in file.ip : e.value \in Hosts,
           \A e \in file.log_to_file : e.value \in BOOLEAN,
           \A e \in file.log_level_debug : e.value \in BOOLEAN,
           \A e \in file.log_file : e.value \in Texts
    PROVE  /\ Overridden(file, s) \in Settings
           /\ Overridden(file, s).port = UnsignedShort(ValueOr(file.port, s.port))
  <1>1. /\ s.port \in Int /\ s.ip \in Hosts /\ s.log_to_file \in BOOLEAN
        /\ s.log_level_debug \in BOOLEAN /\ s.log_file \in Texts
    <2>1. 0 .. MaxPort \subseteq Int
      BY PortRange
    <2> QED
      BY <2>1 DEF Settings
  <1>2. /\ ValueOr(file.port, s.port) \in Int
        /\ ValueOr(file.ip, s.ip) \in Hosts
        /\ ValueOr(file.log_to_file, s.log_to_file) \in BOOLEAN
        /\ ValueOr(file.log_level_debug, s.log_level_debug) \in BOOLEAN
        /\ ValueOr(file.log_file, s.log_file) \in Texts
    BY <1>1, ValueOrType
  <1>3. UnsignedShort(ValueOr(file.port, s.port)) \in 0 .. MaxPort
    BY <1>2, PortNarrowed
  <1> QED
    BY <1>2, <1>3 DEF Overridden, Settings

\* Which settings a program ends up with, by the kind of its file.
LEMMA ConfiguredByKind ==
    ASSUME NEW config, NEW s
    PROVE  /\ config.kind = "none" => Configured(config, s) = {s}
           /\ config.kind \in {"json", "toml"} /\ ~config.file.parses =>
                 Configured(config, s) = {}
           /\ config.kind = "json" /\ config.file.parses =>
                 Configured(config, s) = config_from_json(config.file, s)
           /\ config.kind = "toml" /\ config.file.parses =>
                 Configured(config, s) = config_from_toml(config.file, s)
  BY DEF Configured

\* Files are accepted only with well-typed entries.
LEMMA AcceptedFile ==
    ASSUME NEW s \in Settings, NEW file, IsFile(file),
           NEW x \in config_from_json(file, s) \cup config_from_toml(file, s)
    PROVE  /\ x = Overridden(file, s)
           /\ \A e \in file.port : e.value \in Int
           /\ \A e \in file.ip : e.value \in Hosts
           /\ \A e \in file.log_to_file : e.value \in BOOLEAN
           /\ \A e \in file.log_level_debug : e.value \in BOOLEAN
           /\ \A e \in file.log_file : e.value \in Texts
  <1>1. /\ x = Overridden(file, s) /\ LoggingAccepted(file, s)
        /\ \A e \in file.port : e.typed
        /\ \A e \in file.ip : e.typed
    BY DEF config_from_json, config_from_toml
  <1> QED
    BY <1>1 DEF LoggingAccepted, IsFile, IsEntry

IsConfig(config) ==
    config.kind \in {"none", "json", "toml"} /\ IsFile(config.file)

\* The port of a program that starts with port n.
PortOf(config, n) ==
    IF config.kind = "none" THEN n ELSE UnsignedShort(ValueOr(config.file.port, n))

LEMMA ConfiguredSettings ==
    ASSUME NEW s \in Settings, NEW config, IsConfig(config),
           NEW x \in Configured(config, s)
    PROVE  x \in Settings /\ x.port = PortOf(config, s.port)
  <1>1. CASE config.kind = "none"
    BY <1>1, ConfiguredByKind DEF PortOf
  <1>2. CASE config.kind # "none"
    <2>1. x \in config_from_json(config.file, s) \cup config_from_toml(config.file, s)
      BY <1>2, ConfiguredByKind DEF IsConfig
    <2>2. x \in Settings /\ x.port = UnsignedShort(ValueOr(config.file.port, s.port))
      BY <2>1, AcceptedFile, OverriddenSettings DEF IsConfig
    <2> QED
      BY <1>2, <2>2 DEF PortOf
  <1> QED
    BY <1>1, <1>2

\* The verdict on a file does not depend on anything but whether a program logs
\* before it reads the file.
LEMMA SameVerdict ==
    ASSUME NEW s, NEW t, s.log_to_file = t.log_to_file,
           NEW config, IsConfig(config), Configured(config, s) = {}
    PROVE  Configured(config, t) = {}
  <1>1. \A file : LoggingAccepted(file, s) <=> LoggingAccepted(file, t)
    BY DEF LoggingAccepted
  <1>2. \A file : /\ config_from_json(file, s) = {} => config_from_json(file, t) = {}
                  /\ config_from_toml(file, s) = {} => config_from_toml(file, t) = {}
    BY <1>1 DEF config_from_json, config_from_toml
  <1> QED
    BY <1>2, ConfiguredByKind DEF IsConfig

-----------------------------------------------------------------------------
(* The inductive invariant *)

Own == Configured(options.config, options.settings)
OfServer == Configured(options.config, PassedOn(options.settings))

\* What client and server have read, by how far they are.
SettingsRead ==
    /\ pc["parent"] \in {"start", "configure"} =>
          settings["parent"] = options.settings
    /\ pc["parent"] \in {"repl", "joined"} => settings["parent"] \in Own
    /\ spc \in {"bind", "pause", "join"} => server \in OfServer

\* A server that has bound its port shares it with nobody, and the service
\* starts only then.
PortHeld == /\ spc \in {"pause", "join"} => server.port \notin Taken
            /\ gpc # "none" => spc \in {"pause", "join"}

\* Before the fork there is no server; and why a client has exited.
ForkedFirst ==
    /\ pc["parent"] = "start" => child = "none"
    /\ child \in {"none", "forked"} => spc = "none"
    /\ pc["parent"] = "exited" => child = "none" \/ Own = {}

SInv == TypeOK /\ SettingsRead /\ PortHeld /\ ForkedFirst

LEMMA OptionsTyped ==
    ASSUME TypeOK
    PROVE  options.settings \in Settings /\ IsConfig(options.config)
  BY StartupAssumption DEF TypeOK, IsConfig

LEMMA InitSInv == Init => SInv
  <1> SUFFICES ASSUME Init PROVE SInv
    OBVIOUS
  <1>1. TypeOK
    <2>1. options \in Options /\ options.settings \in Settings
      BY StartupAssumption DEF Init
    <2>2. DefaultSettings("logs/server.log") \in Settings
      BY DefaultsAreSettings, TextsAssumption
    <2> QED
      BY <2>1, <2>2 DEF Init, TypeOK, Servers, Clients, Child
  <1> QED
    BY <1>1 DEF Init, SInv, SettingsRead, PortHeld, ForkedFirst, Clients
-----------------------------------------------------------------------------
(* Types *)

LEMMA CallTypes ==
    ASSUME TypeOK, NEW s, NEW who, SendShutdown(s, who)
    PROVE  /\ UNCHANGED <<spc, server, gpc, shutdown_now, allows>>
           /\ promise' \in {"open", "set"} /\ up' \in [Foreign -> BOOLEAN]
           /\ \A f \in Foreign : up'[f] => up[f]
           /\ who # "nobody" => who \in Servers
  <1>1. CASE who \in Reached(s) /\ AcceptsShutdown(who) /\ ShutdownCall(who)
    <2>1. who \in Servers
      BY <1>1 DEF Reached, Servers
    <2> QED
      BY <1>1, <2>1 DEF ShutdownCall, TypeOK
  <1>2. CASE who = "nobody" /\ UNCHANGED <<serverVars, others>>
    BY <1>2 DEF serverVars, others, TypeOK
  <1> QED
    BY <1>1, <1>2 DEF SendShutdown

\* Nothing that a client does on its own, or with its child, touches the server.
LEMMA ClientTypes ==
    ASSUME TypeOK, Start \/ (\E c \in Clients : Main(c) \/ ReplEnds(c))
    PROVE  TypeOK' /\ UNCHANGED <<options, spc, server, gpc, up>>
  <1>1. CASE Start
    <2>1. PICK there \in {"configure", "exited"} :
              pc' = [pc EXCEPT !["parent"] = there]
      BY <1>1 DEF Start, StartAlone, StartRejected, Fork, ForkFails
    <2>2. pid' \in {pid, Child, -1} /\ child' \in {child, "forked"}
      BY <1>1 DEF Start, StartAlone, StartRejected, Fork, ForkFails
    <2>3. UNCHANGED <<options, settings, serverVars, others, answered, killed>>
      BY <1>1 DEF Start, StartAlone, StartRejected, Fork, ForkFails
    <2>4. pc' \in [Clients -> {"none", "start", "configure", "repl", "joined",
                               "kill", "wait", "ended", "exited", "no logger"}]
      BY <2>1 DEF TypeOK
    <2>5. /\ pid' \in {-1, 0, Child}
          /\ child' \in {"none", "forked", "server", "client", "dead", "reaped"}
      BY <2>2 DEF TypeOK
    <2> QED
      BY <2>3, <2>4, <2>5 DEF TypeOK, serverVars, others
  <1>2. ASSUME NEW c \in Clients, Configure(c)
        PROVE  TypeOK' /\ UNCHANGED <<options, spc, server, gpc, up>>
    <2>1. PICK s \in Configured(options.config, settings[c]) :
              settings' = [settings EXCEPT ![c] = s]
      BY <1>2 DEF Configure
    <2>2. s \in Settings
      BY <2>1, OptionsTyped, ConfiguredSettings DEF TypeOK
    <2> QED
      BY ZenonT(40), <1>2, <2>1, <2>2 DEF Configure, GoTo, TypeOK, serverVars, others
  <1>3. ASSUME NEW c \in Clients, FileRejected(c) \/ LoggerFails(c) \/ EndAlone(c)
        PROVE  TypeOK' /\ UNCHANGED <<options, spc, server, gpc, up>>
    <2>1. PICK how \in {"exited", "no logger", "ended"} : Leave(c, how)
      BY <1>3 DEF FileRejected, LoggerFails, EndAlone
    <2> QED
      BY ZenonT(40), <2>1 DEF Leave, GoTo, TypeOK, serverVars, others
  <1>4. ASSUME NEW c \in Clients, ReplEnds(c)
        PROVE  TypeOK' /\ UNCHANGED <<options, spc, server, gpc, up>>
    <2>1. pc' = [pc EXCEPT ![c] = "joined"]
      BY <1>4 DEF ReplEnds, GoTo
    <2>2. UNCHANGED <<options, settings, pid, child, serverVars, others, answered,
                      killed>>
      BY <1>4 DEF ReplEnds
    <2> QED
      BY ZenonT(40), <2>1, <2>2 DEF TypeOK, serverVars, others
  <1> QED
    BY <1>1, <1>2, <1>3, <1>4 DEF Main

LEMMA ClosingTypes ==
    ASSUME TypeOK, Closing \/ (\E c \in Clients : ReplShutsDown(c))
    PROVE  /\ TypeOK' /\ UNCHANGED <<options, settings, spc, server, gpc>>
           /\ \A f \in Foreign : up'[f] => up[f]
  <1>1. ASSUME NEW c \in Clients, ReplShutsDown(c)
        PROVE  /\ TypeOK' /\ UNCHANGED <<options, settings, spc, server, gpc>>
               /\ \A f \in Foreign : up'[f] => up[f]
    <2>1. /\ UNCHANGED <<spc, server, gpc, shutdown_now, allows>>
          /\ promise' \in {"open", "set"} /\ up' \in [Foreign -> BOOLEAN]
          /\ \A f \in Foreign : up'[f] => up[f]
      BY <1>1, CallTypes DEF ReplShutsDown, serverVars, others, TypeOK
    <2> QED
      BY ZenonT(40), <1>1, <2>1 DEF ReplShutsDown, GoTo, TypeOK
  <1>2. CASE AskForShutdown
    <2>1. PICK who \in Servers \cup {"nobody"} :
              SendShutdown(settings["parent"], who) /\ answered' = who
      BY <1>2 DEF AskForShutdown
    <2>2. pc' = [pc EXCEPT !["parent"] = "kill"] \/ pc' = [pc EXCEPT !["parent"] = "wait"]
      BY <1>2 DEF AskForShutdown, GoTo
    <2>3. UNCHANGED <<options, settings, pid, child, killed>>
      BY <1>2 DEF AskForShutdown
    <2> QED
      <3>1. /\ UNCHANGED <<spc, server, gpc, shutdown_now, allows>>
            /\ promise' \in {"open", "set"} /\ up' \in [Foreign -> BOOLEAN]
            /\ \A f \in Foreign : up'[f] => up[f]
        BY <2>1, CallTypes
      <3>2. pc' \in [Clients -> {"none", "start", "configure", "repl", "joined",
                                 "kill", "wait", "ended", "exited", "no logger"}]
        BY <2>2 DEF TypeOK
      <3> QED
        BY ZenonT(40), <2>1, <2>3, <3>1, <3>2 DEF TypeOK
  <1>3. CASE Kill
    BY ZenonT(40), <1>3 DEF Kill, GoTo, TypeOK, serverVars
  <1>4. CASE WaitPid
    BY <1>4 DEF WaitPid, GoTo, TypeOK, serverVars, others
  <1> QED
    BY <1>1, <1>2, <1>3, <1>4 DEF Closing

LEMMA ServerTypes ==
    ASSUME TypeOK, AfterFork \/ ServerMain \/ Service \/ StrangerAsks \/ ForeignEnds
    PROVE  TypeOK'
  <1>1. CASE AfterFork
    BY <1>1 DEF AfterFork, Exec, ExecFails, TypeOK, clientVars, serverVars, others
  <1>2. CASE ServerConfigures
    <2>1. server' \in Settings
      BY <1>2, OptionsTyped, PassedOnSettings, ConfiguredSettings DEF ServerConfigures
    <2> QED
      BY <1>2, <2>1 DEF ServerConfigures, TypeOK, clientVars, others
  <1>3. CASE ServerRejects \/ PortTaken \/ ServerEnds
    BY ZenonT(40), <1>3 DEF ServerRejects, PortTaken, ServerEnds, ServerDies, TypeOK,
                clientVars, serverVars, others
  <1>4. CASE ServerBinds \/ ServerStarts
    BY <1>4 DEF ServerBinds, ServerStarts, TypeOK, clientVars, others
  <1>5. CASE Service
    BY <1>5 DEF Service, ServiceStarts, ServiceFails, ServiceEnds, ServiceStep,
                TypeOK, clientVars, others
  <1>6. CASE StrangerAsks
    BY ZenonT(40), <1>6 DEF StrangerAsks, ShutdownCall, TypeOK, clientVars
  <1>7. CASE ForeignEnds
    BY ZenonT(40), <1>7 DEF ForeignEnds, TypeOK, clientVars, serverVars
  <1> QED
    BY <1>1, <1>2, <1>3, <1>4, <1>5, <1>6, <1>7 DEF ServerMain

LEMMA NextTypes == TypeOK /\ [Next]_vars => TypeOK'
  <1>1. TypeOK /\ UNCHANGED vars => TypeOK'
    BY ZenonT(40) DEF vars, TypeOK, clientVars, serverVars, others
  <1> QED
    BY <1>1, ClientTypes, ClosingTypes, ServerTypes DEF Next, Terminated

\* The processes keep their types: a port is always one of 16 bits, whatever a
\* file says.
THEOREM StartupTypeCorrect == Spec => []TypeOK
  <1>1. Init => TypeOK
    BY InitSInv DEF SInv
  <1> QED
    BY <1>1, NextTypes, PTL DEF Spec
-----------------------------------------------------------------------------
(* Agreement *)

LEMMA TakenShrinks ==
    ASSUME \A f \in Foreign : up'[f] => up[f]
    PROVE  Taken' \subseteq Taken
  BY DEF Taken

\* A step that leaves the server where it is, and the parent behind its file or
\* on its way to it.
LEMMA OthersKeepSInv ==
    ASSUME SInv, UNCHANGED <<options, spc, server, gpc>>,
           settings'["parent"] = settings["parent"],
           \A f \in Foreign : up'[f] => up[f],
           pc'["parent"] = "start" => pc["parent"] = "start" /\ child' = child,
           pc'["parent"] = "configure" => pc["parent"] \in {"start", "configure"},
           pc'["parent"] \in {"repl", "joined"} => pc["parent"] \in {"repl", "joined"},
           pc'["parent"] = "exited" => pc["parent"] = "exited" \/ child' = "none" \/ Own = {},
           child' \in {"none", "forked"} => child \in {"none", "forked"},
           pc["parent"] = "exited" /\ child = "none" => child' = "none"
    PROVE  SettingsRead' /\ PortHeld' /\ ForkedFirst'
  <1>1. Own' = Own /\ OfServer' = OfServer
    BY DEF Own, OfServer
  <1>2. SettingsRead'
    BY <1>1 DEF SInv, SettingsRead
  <1>3. PortHeld'
    BY TakenShrinks DEF SInv, PortHeld
  <1>4. ForkedFirst'
    BY <1>1 DEF SInv, ForkedFirst
  <1> QED
    BY <1>2, <1>3, <1>4

LEMMA StartKeepsSInv ==
    ASSUME SInv, Start
    PROVE  SettingsRead' /\ PortHeld' /\ ForkedFirst'
  <1>1. /\ pc["parent"] = "start" /\ child = "none"
        /\ UNCHANGED <<options, settings, serverVars, others>>
    BY DEF Start, StartAlone, StartRejected, Fork, ForkFails, SInv, ForkedFirst
  <1>2. pc \in [Clients -> {"none", "start", "configure", "repl", "joined",
                             "kill", "wait", "ended", "exited", "no logger"}]
    BY DEF SInv, TypeOK
  <1>3. \/ pc'["parent"] = "configure"
        \/ pc'["parent"] = "exited" /\ child' = "none"
    BY <1>1, <1>2 DEF Start, StartAlone, StartRejected, Fork, ForkFails, Clients
  <1>4. UNCHANGED <<spc, server, gpc, up>>
    BY <1>1 DEF serverVars, others
  <1> QED
    BY <1>1, <1>3, <1>4, OthersKeepSInv

LEMMA MainKeepsSInv ==
    ASSUME SInv, NEW c \in Clients, Main(c) \/ ReplEnds(c) \/ ReplShutsDown(c)
    PROVE  SettingsRead' /\ PortHeld' /\ ForkedFirst'
  <1>1. pc \in [Clients -> {"none", "start", "configure", "repl", "joined",
                             "kill", "wait", "ended", "exited", "no logger"}]
    BY DEF SInv, TypeOK
  <1>2. TypeOK /\ "parent" \in Clients
    BY DEF SInv, Clients
  <1>3. CASE Configure(c)
    <2>1. UNCHANGED <<options, pid, child, spc, server, gpc, up>>
      BY <1>3 DEF Configure, serverVars, others
    <2>2. CASE c = "parent"
      <3>1. pc["parent"] = "configure" /\ pc'["parent"] = "repl"
        BY <1>1, <1>2, <1>3, <2>2 DEF Configure, At, GoTo
      <3>2. settings'["parent"] \in Own
        BY <1>2, <1>3, <2>2, <3>1 DEF Configure, SInv, SettingsRead, Own, TypeOK
      <3>3. Own' = Own /\ OfServer' = OfServer /\ Taken' = Taken
        BY <2>1 DEF Own, OfServer, Taken
      <3> QED
        BY <2>1, <3>1, <3>2, <3>3 DEF SInv, SettingsRead, PortHeld, ForkedFirst
    <2>3. CASE c # "parent"
      <3>1. pc'["parent"] = pc["parent"] /\ settings'["parent"] = settings["parent"]
        BY <1>1, <1>2, <1>3, <2>3 DEF Configure, GoTo, TypeOK
      <3> QED
        BY <2>1, <3>1, OthersKeepSInv DEF SInv, ForkedFirst
    <2> QED
      BY <2>2, <2>3
  <1>4. ASSUME NEW how \in {"exited", "no logger", "ended"}, Leave(c, how),
               how = "exited" => Configured(options.config, settings[c]) = {},
               pc[c] \in {"configure", "joined"},
               how = "exited" => pc[c] = "configure",
               c = "child" => child = "client"
        PROVE  SettingsRead' /\ PortHeld' /\ ForkedFirst'
    <2>1. /\ UNCHANGED <<options, settings, spc, server, gpc, up>>
          /\ pc' = [pc EXCEPT ![c] = how]
          /\ child' = IF c = "child" THEN "dead" ELSE child
      BY <1>4 DEF Leave, GoTo, serverVars, others
    <2>2. CASE c = "parent"
      <3>1. pc'["parent"] = how /\ child' = child
        BY <1>1, <1>2, <2>1, <2>2
      <3>2. how = "exited" => Own = {}
        BY <1>4, <2>2 DEF SInv, SettingsRead, Own
      <3> QED
        BY <1>4, <2>1, <2>2, <3>1, <3>2, OthersKeepSInv
    <2>3. CASE c = "child"
      <3>1. pc'["parent"] = pc["parent"] /\ child' = "dead" /\ child = "client"
        BY <1>1, <1>2, <1>4, <2>1, <2>3
      <3>2. pc["parent"] # "start"
        BY <3>1 DEF SInv, ForkedFirst
      <3>3. pc["parent"] = "exited" => Own = {}
        BY <3>1 DEF SInv, ForkedFirst
      <3> QED
        BY <2>1, <3>1, <3>2, <3>3, OthersKeepSInv
    <2> QED
      BY <2>2, <2>3 DEF Clients
  <1>5. CASE FileRejected(c) \/ LoggerFails(c) \/ EndAlone(c)
    BY <1>4, <1>5 DEF FileRejected, LoggerFails, EndAlone, At
  <1>6. CASE ReplEnds(c) \/ ReplShutsDown(c)
    <2>1. /\ UNCHANGED <<options, settings, child, spc, server, gpc>>
          /\ pc[c] = "repl" /\ pc' = [pc EXCEPT ![c] = "joined"]
      BY <1>2, <1>6, ClientTypes, ClosingTypes DEF ReplEnds, ReplShutsDown, At, GoTo
    <2>2. \A f \in Foreign : up'[f] => up[f]
      BY <1>2, <1>6, ClientTypes, ClosingTypes DEF ReplEnds, others
    <2>3. \/ pc["parent"] = "repl" /\ pc'["parent"] = "joined"
          \/ pc'["parent"] = pc["parent"]
      BY <1>1, <1>2, <2>1
    <2> QED
      BY <2>1, <2>2, <2>3, OthersKeepSInv DEF SInv, ForkedFirst
  <1> QED
    BY <1>3, <1>5, <1>6 DEF Main
LEMMA ClosingKeepsSInv ==
    ASSUME SInv, Closing
    PROVE  SettingsRead' /\ PortHeld' /\ ForkedFirst'
  <1>1. pc \in [Clients -> {"none", "start", "configure", "repl", "joined",
                             "kill", "wait", "ended", "exited", "no logger"}]
    BY DEF SInv, TypeOK
  <1>2. TypeOK /\ "parent" \in Clients
    BY DEF SInv, Clients
  <1>3. /\ UNCHANGED <<options, settings, spc, server, gpc>>
        /\ \A f \in Foreign : up'[f] => up[f]
    BY <1>2, ClosingTypes
  <1>4. /\ pc["parent"] \in {"joined", "kill", "wait"}
        /\ pc'["parent"] \in {"kill", "wait", "ended"}
    BY <1>1, <1>2 DEF Closing, AskForShutdown, Kill, WaitPid, GoTo
  <1>5. child' \in {"none", "forked"} => child \in {"none", "forked"}
    BY DEF Closing, AskForShutdown, Kill, WaitPid
  <1> QED
    BY <1>3, <1>4, <1>5, OthersKeepSInv

LEMMA ServerKeepsSInv ==
    ASSUME SInv, AfterFork \/ ServerMain \/ Service
    PROVE  SettingsRead' /\ PortHeld' /\ ForkedFirst'
  <1>1. /\ UNCHANGED <<options, up, settings>>
        /\ child # "none" /\ child' \notin {"none", "forked"}
    BY DEF AfterFork, Exec, ExecFails, ServerMain, ServerConfigures, ServerRejects,
           ServerBinds, PortTaken, ServerStarts, ServerEnds, ServerAt, ServerDies,
           Service, ServiceStarts, ServiceFails, ServiceEnds, ServiceStep,
           clientVars, others
  <1>2. Own' = Own /\ OfServer' = OfServer /\ Taken' = Taken
    BY <1>1 DEF Own, OfServer, Taken
  <1>3. /\ pc'["parent"] = pc["parent"] /\ pc["parent"] # "start"
        /\ pc["parent"] = "exited" => Own = {}
    <2>1. pc \in [Clients -> {"none", "start", "configure", "repl", "joined",
                               "kill", "wait", "ended", "exited", "no logger"}]
      BY DEF SInv, TypeOK
    <2>2. pc' = pc \/ pc' = [pc EXCEPT !["child"] = "configure"]
      BY DEF AfterFork, Exec, ExecFails, ServerMain, ServerConfigures, ServerRejects,
             ServerBinds, PortTaken, ServerStarts, ServerEnds, ServerDies,
             Service, ServiceStarts, ServiceFails, ServiceEnds, ServiceStep,
             clientVars
    <2> QED
      BY <1>1, <2>1, <2>2 DEF SInv, ForkedFirst, Clients
  <1>4. ForkedFirst'
    BY <1>1, <1>2, <1>3 DEF ForkedFirst
  <1>5. CASE AfterFork
    <2>1. /\ spc' = spc \/ spc' = "configure"
          /\ UNCHANGED <<server, gpc>> /\ child = "forked"
      BY <1>5 DEF AfterFork, Exec, ExecFails, serverVars
    <2>2. spc = "none" /\ gpc = "none"
      BY <2>1 DEF SInv, ForkedFirst, PortHeld, TypeOK
    <2> QED
      BY <1>1, <1>2, <1>3, <1>4, <2>1, <2>2 DEF SInv, SettingsRead, PortHeld
  <1>6. CASE ServerConfigures
    <2>1. spc' = "bind" /\ gpc' = gpc /\ server' \in OfServer /\ spc = "configure"
      BY <1>6 DEF ServerConfigures, OfServer, ServerAt
    <2> QED
      BY <1>1, <1>2, <1>3, <1>4, <2>1 DEF SInv, SettingsRead, PortHeld
  <1>7. CASE ServerBinds
    <2>1. /\ spc = "bind" /\ spc' = "pause" /\ server' = server
          /\ server.port \notin Taken
      BY <1>7 DEF ServerBinds, ServerAt
    <2> QED
      BY <1>1, <1>2, <1>3, <1>4, <2>1 DEF SInv, SettingsRead, PortHeld
  <1>8. CASE ServerStarts
    <2>1. /\ spc = "pause" /\ spc' = "join" /\ UNCHANGED <<server, gpc>>
      BY <1>8 DEF ServerStarts, ServerAt
    <2> QED
      BY <1>1, <1>2, <1>3, <1>4, <2>1 DEF SInv, SettingsRead, PortHeld
  <1>9. CASE ServerRejects \/ PortTaken \/ ServerEnds
    <2>1. UNCHANGED <<spc, server, gpc>>
      BY <1>9 DEF ServerRejects, PortTaken, ServerEnds, ServerDies, serverVars
    <2> QED
      BY <1>1, <1>2, <1>3, <1>4, <2>1 DEF SInv, SettingsRead, PortHeld
  <1>10. CASE Service
    <2>1. UNCHANGED <<spc, server>> /\ gpc # "none"
      BY <1>10 DEF Service, ServiceStarts, ServiceFails, ServiceEnds, ServiceStep
    <2> QED
      BY <1>1, <1>2, <1>3, <1>4, <2>1 DEF SInv, SettingsRead, PortHeld
  <1> QED
    BY <1>5, <1>6, <1>7, <1>8, <1>9, <1>10 DEF ServerMain
LEMMA NextKeepsSInv == SInv /\ [Next]_vars => SInv'
  <1> SUFFICES ASSUME SInv, [Next]_vars PROVE SInv'
    OBVIOUS
  <1>1. TypeOK'
    BY NextTypes DEF SInv
  <1>2. CASE StrangerAsks \/ ForeignEnds
    <2>1. /\ UNCHANGED <<options, pc, settings, child, spc, server, gpc>>
          /\ \A f \in Foreign : up'[f] => up[f]
      BY <1>2 DEF StrangerAsks, ForeignEnds, ShutdownCall, clientVars, serverVars,
                  SInv, TypeOK
    <2> QED
      BY <1>1, <2>1, OthersKeepSInv DEF SInv, ForkedFirst
  <1>3. CASE UNCHANGED vars
    BY <1>1, <1>3 DEF vars, clientVars, serverVars, others, SInv, SettingsRead,
                      PortHeld, ForkedFirst, Own, OfServer, Taken
  <1> QED
    BY <1>1, <1>2, <1>3, StartKeepsSInv, MainKeepsSInv, ClosingKeepsSInv,
       ServerKeepsSInv DEF Next, Terminated, SInv

-----------------------------------------------------------------------------
\* Whatever options and files there are: a server that serves is the one that
\* the client reaches at the address it has computed itself.
THEOREM ServerIsFound == Spec => []ClientFindsItsServer
  <1>1. SInv => ClientFindsItsServer
    <2> SUFFICES ASSUME SInv, Serving, pc["parent"] \in {"repl", "joined"},
                        validate_localhost(settings["parent"].ip)
                 PROVE  Reached(settings["parent"]) = {"own"}
      BY DEF ClientFindsItsServer
    <2> DEFINE s == settings["parent"]
    <2>1. s \in Own /\ server \in OfServer /\ server.port \notin Taken
      BY DEF SInv, SettingsRead, PortHeld, Serving
    <2>2. server.port = s.port
      BY <2>1, OptionsTyped, PassedOnSettings, ConfiguredSettings
      DEF SInv, Own, OfServer
    <2>3. get_grpc_port(server) = get_grpc_port(s)
      BY <2>2 DEF get_grpc_port
    <2>4. \A f \in Foreign \cap {"here"} : ~(up[f] /\ s.port = ForeignPort)
      BY <2>1, <2>2 DEF Taken
    <2> QED
      BY <2>3, <2>4 DEF Reached
  <1> QED
    BY InitSInv, NextKeepsSInv, <1>1, PTL DEF Spec

\* A client that exits because of its file leaves no server that serves: the
\* server it has forked before rejects the file, too.
THEOREM ExitLeavesNoServer == Spec => []ExitedClientLeavesNoServer
  <1>1. SInv => ExitedClientLeavesNoServer
    <2> SUFFICES ASSUME SInv, pc["parent"] = "exited"
                 PROVE  spc \in {"none", "configure"}
      BY DEF ExitedClientLeavesNoServer
    <2>1. CASE child = "none"
      BY <2>1 DEF SInv, ForkedFirst
    <2>2. CASE Own = {}
      <3>1. OfServer = {}
        BY <2>2, OptionsTyped, PassedOnSettings, SameVerdict
        DEF SInv, Own, OfServer
      <3> QED
        BY <3>1 DEF SInv, SettingsRead, TypeOK
    <2> QED
      BY <2>1, <2>2 DEF SInv, ForkedFirst
  <1> QED
    BY InitSInv, NextKeepsSInv, <1>1, PTL DEF Spec
=============================================================================
