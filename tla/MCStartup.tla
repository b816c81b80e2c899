------------------------------- MODULE MCStartup -------------------------------
(***************************************************************************)
(* Small instances of Startup for TLC: command lines and files that differ *)
(* in what the properties tell apart.  A server of other people may hold   *)
(* the port of the options, or be reached at the address of a file.        *)
(***************************************************************************)
EXTENDS Startup

MCTexts == {"", "localhost", "logs/client.log", "logs/server.log", "given.log"}

\* The addresses of another machine and of this one.
Remote == Address(<<10, 0, 0, 7>>)
Locals == {Address(<<127, 0, 0, 1>>), HostName("localhost")}

NoFile == [kind |-> "none", file |-> EmptyFile]
File(kind, f) == [kind |-> kind, file |-> f]

\* A port that is taken, one that is free (and narrowed in JSON, refused in
\* TOML), the last one; an address elsewhere; options of the logger, which need
\* log-to-file; and what is rejected.
Contents ==
    {[EmptyFile EXCEPT !.port = Given(n)] : n \in {1114, 67000, 65535}}
    \cup {[EmptyFile EXCEPT !.ip = Given(Remote)],
          [EmptyFile EXCEPT !.log_level_debug = Given(TRUE)],
          [EmptyFile EXCEPT !.log_to_file = Given(TRUE),
                            !.log_file = Given("given.log")],
          [EmptyFile EXCEPT !.parses = FALSE],
          [EmptyFile EXCEPT !.log_to_file = Mistyped]}

Command(start, ip, port, logged, config) ==
    [start_server |-> start, config |-> config,
     settings |-> [DefaultSettings("logs/client.log") EXCEPT
                      !.ip = ip, !.port = port, !.log_to_file = logged,
                      !.log_level_debug = logged]]

MCOptions ==
    {Command(TRUE, ip, 2000, logged, config) :
        ip \in Locals, logged \in BOOLEAN,
        config \in {NoFile} \cup {File(k, f) : k \in {"json", "toml"}, f \in Contents}}
    \cup {Command(TRUE, ip, 1113, FALSE, NoFile) : ip \in Locals \cup {Remote}}
    \cup {Command(FALSE, ip, 1113, FALSE, NoFile) : ip \in Locals \cup {Remote}}

\* A client that starts a server on a free port, with a file or without.
FreeOptions ==
    {Command(TRUE, Address(<<127, 0, 0, 1>>), 1113, FALSE, config) :
        config \in {NoFile,
                    File("json", [EmptyFile EXCEPT !.ip = Given(Remote)])}}
=============================================================================
