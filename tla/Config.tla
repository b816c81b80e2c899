--------------------------------- MODULE Config ---------------------------------
(***************************************************************************)
(* The configuration of client and server (src/src/config.cpp): options of *)
(* the command line, overridden by a JSON or TOML file, and the options    *)
(* that a client passes on to the server it starts.                        *)
(***************************************************************************)
EXTENDS Integers, Sequences

CONSTANT Texts      \* names of hosts and of files

ASSUME TextsAssumption ==
    {"", "localhost", "logs/client.log", "logs/server.log"} \subseteq Texts

-----------------------------------------------------------------------------
(* Addresses.  A host is a name of letters, or the numbers between the dots; *)
(* NoNumber stands for a part that is not a number of one to three digits.   *)

HostName(name)  == [name |-> name, parts |-> <<>>]
Address(parts)  == [name |-> "", parts |-> parts]
NoHost          == HostName("")
NoNumber        == 1000
Hosts           == [name : Texts, parts : Seq(0 .. NoNumber)]

\* Names are not checked; an address has four parts and is neither the first
\* nor the last of its net.
validate_ip_address(ip) ==
    \/ ip.name # ""
    \/ /\ Len(ip.parts) = 4
       /\ ip.parts[4] \notin {0, 255}
       /\ \A i \in 1 .. 4 : ip.parts[i] <= 255

validate_localhost(ip) ==
    \/ ip = HostName("localhost")
    \/ /\ ip.name = "" /\ Len(ip.parts) > 1 /\ ip.parts[1] = 127
       /\ validate_ip_address(ip)

\* Ports are 16 bits wide; the port of the service is computed as an int.
MaxPort == 65535

\* Mutant: the port is kept as wide as it was read.
UnsignedShortMutant(n) == n

UnsignedShort(n) == n % (MaxPort + 1)
get_grpc_port(s) == s.port + 1

-----------------------------------------------------------------------------
(* Settings: config::Server and config::Log_Settings *)

DefaultSettings(log_file) ==
    [ip |-> Address(<<127, 0, 0, 1>>), port |-> 1113, allow_shutdown |-> FALSE,
     log_file |-> log_file, log_to_file |-> FALSE, log_level_debug |-> FALSE]

Settings == [ip : Hosts, port : 0 .. MaxPort, allow_shutdown : BOOLEAN,
             log_file : Texts, log_to_file : BOOLEAN, log_level_debug : BOOLEAN]

\* What the parser of the command line accepts of a client.
CliAccepts(s) ==
    /\ validate_ip_address(s.ip)
    /\ s.port \in 0 .. MaxPort
    /\ s.log_level_debug => s.log_to_file
    /\ s.log_file # "logs/client.log" => s.log_to_file

(* A file has an entry for an option, of the type expected or not, or none. *)

Absent   == {}
Given(v) == {[typed |-> TRUE, value |-> v]}
Mistyped == {[typed |-> FALSE, value |-> "not what was expected"]}

IsEntry(entry, Values) == \A e \in entry : e.typed => e.value \in Values

ValueOr(entry, default) ==
    IF entry = {} THEN default ELSE (CHOOSE e \in entry : TRUE).value

IsFile(file) ==
    /\ IsEntry(file.port, Int) /\ IsEntry(file.ip, Hosts)
    /\ IsEntry(file.log_to_file, BOOLEAN)
    /\ IsEntry(file.log_level_debug, BOOLEAN)
    /\ IsEntry(file.log_file, Texts)

EmptyFile == [parses |-> TRUE, port |-> Absent, ip |-> Absent,
              log_to_file |-> Absent, log_level_debug |-> Absent,
              log_file |-> Absent]

\* The options of the logger need log-to-file, from the file or from before.
LoggingAccepted(file, s) ==
    /\ \A e \in file.log_to_file : e.typed
    /\ \A e \in file.log_level_debug \cup file.log_file :
          e.typed /\ ValueOr(file.log_to_file, s.log_to_file)

\* Settings s, overridden by what the file has.
Overridden(file, s) ==
    [s EXCEPT !.port            = UnsignedShort(ValueOr(file.port, @)),
              !.ip              = ValueOr(file.ip, @),
              !.log_to_file     = ValueOr(file.log_to_file, @),
              !.log_level_debug = ValueOr(file.log_level_debug, @),
              !.log_file        = ValueOr(file.log_file, @)]

\* Any number that is not negative is accepted as a port, and narrowed.  Texts
\* must not be empty.
config_from_json(file, s) ==
    IF /\ \A e \in file.port : e.typed /\ e.value >= 0
       /\ \A e \in file.ip : e.typed /\ e.value # NoHost
       /\ LoggingAccepted(file, s)
       /\ \A e \in file.log_file : e.value # ""
    THEN {Overridden(file, s)} ELSE {}

\* Only a number that fits is accepted as a port; texts may be empty.
config_from_toml(file, s) ==
    IF /\ \A e \in file.port : e.typed /\ e.value \in 0 .. MaxPort
       /\ \A e \in file.ip : e.typed
       /\ LoggingAccepted(file, s)
    THEN {Overridden(file, s)} ELSE {}

\* The settings of a program with settings s from its options and the file that
\* they name; none when the file does not parse or is rejected.
Configured(config, s) ==
    CASE config.kind = "none" -> {s}
      [] config.kind # "none" /\ ~config.file.parses -> {}
      [] config.kind = "json" /\ config.file.parses ->
            config_from_json(config.file, s)
      [] config.kind = "toml" /\ config.file.parses ->
            config_from_toml(config.file, s)

\* Mutant: the port is not passed on.
PassedOnMutant(s) ==
    [DefaultSettings("logs/server.log") EXCEPT
        !.allow_shutdown = TRUE, !.log_to_file = s.log_to_file,
        !.log_level_debug = s.log_to_file /\ s.log_level_debug,
        !.log_file = IF s.log_to_file THEN s.log_file ELSE @]

\* Mutant: -l is passed on whether the client logs or not.
PassedOnLoggingMutant(s) ==
    [DefaultSettings("logs/server.log") EXCEPT
        !.port = s.port, !.allow_shutdown = TRUE, !.log_to_file = TRUE,
        !.log_level_debug = s.log_to_file /\ s.log_level_debug,
        !.log_file = IF s.log_to_file THEN s.log_file ELSE @]

\* The options that start_server passes on, with -e; the file is passed as well.
PassedOn(s) ==
    [DefaultSettings("logs/server.log") EXCEPT
        !.port = s.port, !.allow_shutdown = TRUE,
        !.log_to_file = s.log_to_file,
        !.log_level_debug = s.log_to_file /\ s.log_level_debug,
        !.log_file = IF s.log_to_file THEN s.log_file ELSE @]
=============================================================================
