---------------------------------- MODULE Wire ----------------------------------
(***************************************************************************)
(* A line on the TCP connection between a Repl and its handler thread: how *)
(* message_utility (src/src/message_utility.cpp) turns the bytes of a      *)
(* message into a line of text and back, and what getline makes of a       *)
(* stream that arrives in pieces and may end within a line.                *)
(*                                                                         *)
(* Module Session takes requests and replies as whole; this module shows   *)
(* when they are.  Characters are given by their codes.                    *)
(***************************************************************************)
EXTENDS Integers, Sequences

CONSTANTS Messages,     \* what Repl and Object_Storage send, but for "ok"
          MaxRequests   \* bound on the requests of the client

Bytes == -128 .. 127    \* char is signed

ASSUME WireAssumption == Messages \subseteq Seq(Bytes) /\ MaxRequests \in Nat

Space == 32  Minus == 45  Zero == 48  Newline == 10
HandshakeBytes == <<>>
Ok == <<111, 107>>

-----------------------------------------------------------------------------
(* message_utility *)

\* An int as the stream prints it; that of a char has at most three digits.
Decimal(n) ==
    LET abs == IF n < 0 THEN -n ELSE n
    IN  (IF n < 0 THEN <<Minus>> ELSE <<>>)
        \o (IF abs < 10 THEN <<Zero + abs>>
            ELSE IF abs < 100 THEN <<Zero + abs \div 10, Zero + (abs % 10)>>
            ELSE <<Zero + abs \div 100, Zero + ((abs \div 10) % 10),
                   Zero + (abs % 10)>>)

\* Mutant: the numbers are not separated.
TextMutant(data) ==
    LET text[i \in 0 .. Len(data)] ==
            IF i = 0 THEN <<>> ELSE text[i - 1] \o Decimal(data[i])
    IN  text[Len(data)]

\* The loop of to_ascii: a space and a number for every byte.
Text(data) ==
    LET text[i \in 0 .. Len(data)] ==
            IF i = 0 THEN <<>>
            ELSE text[i - 1] \o <<Space>> \o Decimal(data[i])
    IN  text[Len(data)]

\* Mutant: the line is not ended.
to_asciiMutant(data) == Text(data)

to_ascii(data) == Text(data) \o <<Newline>>

\* The tokens with one more character in the last of them.
Longer(tokens, ch) == [tokens EXCEPT ![Len(tokens)] = Append(@, ch)]

\* What sstream >> temp finds one after the other.
Tokens(line) ==
    LET read[i \in 0 .. Len(line)] ==
            IF i = 0 THEN <<>>
            ELSE IF line[i] = Space THEN read[i - 1]
            ELSE IF i = 1 \/ line[i - 1] = Space
            THEN Append(read[i - 1], <<line[i]>>)
            ELSE Longer(read[i - 1], line[i])
    IN  read[Len(line)]

\* stoi throws where a minus has nothing behind it.
IsNumber(token) == token[Len(token)] # Minus

stoi(token) ==
    LET value[i \in 0 .. Len(token)] ==
            IF i = 0 THEN 0
            ELSE IF token[i] = Minus THEN value[i - 1]
            ELSE IF token[1] = Minus THEN 10 * value[i - 1] - (token[i] - Zero)
            ELSE 10 * value[i - 1] + (token[i] - Zero)
    IN  value[Len(token)]

\* The conversion to char.
Char(n) == ((n + 128) % 256) - 128

\* Mutant: the bytes are taken as unsigned.
from_asciiMutant(line) ==
    LET tokens == Tokens(line)
    IN  [k \in DOMAIN tokens |-> stoi(tokens[k]) % 256]

from_ascii(line) ==
    LET tokens == Tokens(line)
    IN  [k \in DOMAIN tokens |-> Char(stoi(tokens[k]))]

Throws(line) == \E k \in DOMAIN Tokens(line) : ~IsNumber(Tokens(line)[k])

-----------------------------------------------------------------------------
VARIABLES open,     \* the connection carries what is written
          onWay,    \* characters written that have not arrived yet, by reader
          arrived,  \* characters that getline finds, by reader
          flags,    \* of the stream of each end: "good", "eof" or "fail"
          pc,       \* what the thread at each end does
          sent,     \* history: the messages written, by reader
          got       \* history: the messages handed on to the program, by reader

vars == <<open, onWay, arrived, flags, pc, sent, got>>

Ends == {"client", "server"}

Init == /\ open = TRUE
        /\ onWay = [e \in Ends |-> <<>>] /\ arrived = [e \in Ends |-> <<>>]
        /\ flags = [e \in Ends |-> "good"]
        /\ pc = [client |-> "idle", server |-> "await"]
        /\ sent = [e \in Ends |-> <<>>] /\ got = [e \in Ends |-> <<>>]

\* *strm << to_ascii(m).  What is written to a connection that is gone is lost.
Written(reader, m) ==
    /\ sent' = [sent EXCEPT ![reader] = Append(@, m)]
    /\ onWay' = IF open THEN [onWay EXCEPT ![reader] = @ \o to_ascii(m)]
                ELSE onWay

\* The network delivers as much as it likes.
Arrive(e) ==
    \E n \in DOMAIN onWay[e] :
        /\ arrived' = [arrived EXCEPT ![e] = @ \o SubSeq(onWay[e], 1, n)]
        /\ onWay' = [onWay EXCEPT ![e] = SubSeq(@, n + 1, Len(@))]
        /\ UNCHANGED <<open, flags, pc, sent, got>>

\* The connection is lost, with what has not arrived.
Cut == /\ open
       /\ open' = FALSE /\ onWay' = [e \in Ends |-> <<>>]
       /\ UNCHANGED <<arrived, flags, pc, sent, got>>

\* Mutant: what has arrived is read, be it a line or not.
getlineMutant(e) ==
    IF flags[e] = "good" /\ arrived[e] # <<>>
    THEN {[line |-> SelectSeq(arrived[e], LAMBDA ch : ch # Newline),
           rest |-> <<>>, flag |-> "good"]}
    ELSE {}

\* A whole line, if there is one; or the characters that the stream ends with:
\* eofbit alone leaves the stream true.
getline(e) ==
    LET text  == arrived[e]
        lines == {i \in DOMAIN text : text[i] = Newline}
        end   == CHOOSE i \in lines : \A j \in lines : i <= j
    IN  CASE flags[e] = "good" /\ lines # {} ->
               {[line |-> SubSeq(text, 1, end - 1),
                 rest |-> SubSeq(text, end + 1, Len(text)), flag |-> "good"]}
          [] flags[e] = "good" /\ lines = {} /\ text # <<>> /\ ~open ->
               {[line |-> text, rest |-> <<>>, flag |-> "eof"]}
          [] OTHER -> {}

\* getline returns l.
GetLine(e, l) == /\ arrived' = [arrived EXCEPT ![e] = l.rest]
                 /\ flags' = [flags EXCEPT ![e] = l.flag]

\* getline finds nothing, or is called at the end of the stream.
GetNothing(e) ==
    /\ flags[e] # "good" \/ (arrived[e] = <<>> /\ ~open)
    /\ flags' = [flags EXCEPT ![e] = "fail"]
    /\ UNCHANGED <<onWay, arrived, sent, got>>

\* stoi throws, and nobody catches: the process and its connections end.
Die(e) == /\ pc' = [pc EXCEPT ![e] = "threw"]
          /\ open' = FALSE /\ onWay' = [d \in Ends |-> <<>>]
          /\ UNCHANGED <<sent, got>>

HandOn(e, line) == got' = [got EXCEPT ![e] = Append(@, from_ascii(line))]

-----------------------------------------------------------------------------
(* The handler thread *)

\* new_action: "ok" for the handshake, a message for everything else.
Replies(request) == IF request = HandshakeBytes THEN {Ok} ELSE Messages

ServerReads ==
    /\ pc["server"] = "await"
    /\ \E l \in getline("server") :
          /\ GetLine("server", l)
          /\ IF Throws(l.line) THEN Die("server")
             ELSE /\ HandOn("server", l.line)
                  /\ \E m \in Replies(from_ascii(l.line)) : Written("client", m)
                  /\ UNCHANGED <<open, pc>>

\* The loop is left, the stream is closed and deleted.
ServerLeaves ==
    /\ pc["server"] = "await" /\ GetNothing("server")
    /\ pc' = [pc EXCEPT !["server"] = "left"] /\ UNCHANGED open

-----------------------------------------------------------------------------
(* send_message *)

\* The stream is true: the message is written.
ClientWrites ==
    /\ pc["client"] = "idle" /\ flags["client"] = "good"
    /\ Len(sent["server"]) < MaxRequests
    /\ \E m \in Messages \cup {HandshakeBytes} : Written("server", m)
    /\ pc' = [pc EXCEPT !["client"] = "await"]
    /\ UNCHANGED <<open, arrived, flags, got>>

\* The stream is true but at its end: nothing is written, nothing is read.
ClientWritesNothing ==
    /\ pc["client"] = "idle" /\ flags["client"] = "eof"
    /\ GetNothing("client") /\ UNCHANGED <<open, pc>>

ClientReads ==
    /\ pc["client"] = "await"
    /\ \E l \in getline("client") :
          /\ GetLine("client", l)
          /\ IF Throws(l.line) THEN Die("client")
             ELSE /\ HandOn("client", l.line)
                  /\ pc' = [pc EXCEPT !["client"] = "idle"]
                  /\ UNCHANGED <<open, onWay, sent>>

\* The empty line that is left is ignored.
ClientReadsNothing ==
    /\ pc["client"] = "await" /\ GetNothing("client")
    /\ pc' = [pc EXCEPT !["client"] = "idle"] /\ UNCHANGED open

\* The user asks no more, or cannot.
Terminated == pc["client"] \in {"idle", "threw"} /\ UNCHANGED vars

Reads == ServerReads \/ ServerLeaves \/ ClientReads \/ ClientReadsNothing

Next == \/ ClientWrites \/ ClientWritesNothing \/ Reads
        \/ \E e \in Ends : Arrive(e)
        \/ Cut \/ Terminated

\* What is written arrives, and the threads run.
Spec == /\ Init /\ [][Next]_vars
        /\ \A e \in Ends : WF_vars(Arrive(e))
        /\ WF_vars(ServerReads \/ ServerLeaves)
        /\ WF_vars(ClientReads \/ ClientReadsNothing)
-----------------------------------------------------------------------------
TypeOK ==
    /\ open \in BOOLEAN /\ flags \in [Ends -> {"good", "eof", "fail"}]
    /\ pc["client"] \in {"idle", "await", "threw"}
    /\ pc["server"] \in {"await", "left", "threw"}
    /\ \A e \in Ends :
          /\ onWay[e] \in Seq(0 .. 127) /\ arrived[e] \in Seq(0 .. 127)
          /\ \A i \in DOMAIN sent[e] : sent[e][i] \in Seq(Bytes)
          /\ \A i \in DOMAIN got[e] : got[e][i] \in Seq(Bytes)

\* What a cut leaves of a message: bytes from its beginning.  The last of them may
\* have lost digits, and its value is left free.
IsCutOf(rest, m) ==
    /\ Len(rest) <= Len(m)
    /\ \A i \in 1 .. Len(rest) - 1 : rest[i] = m[i]

\* Each end hands on the messages that the other has written, in order and byte
\* by byte, line feeds and bytes beyond ASCII included, in however many pieces
\* they arrive.  Only the last message on a connection that is lost may be cut,
\* and is handed on all the same (message_utility.cpp:10-36, s_main.cpp:143-161,
\* repl_functions.cpp:142-158).
HandedOnAsWritten ==
    \A e \in Ends :
        /\ Len(got[e]) <= Len(sent[e])
        /\ \A i \in DOMAIN got[e] :
              \/ got[e][i] = sent[e][i]
              \/ /\ i = Len(got[e]) /\ flags[e] # "good"
                 /\ IsCutOf(got[e][i], sent[e][i])

\* stoi throws only for a line that was cut: bytes beyond ASCII alone do not end
\* the process (message_utility.cpp:32).
OnlyACutLineThrows == \A e \in Ends : pc[e] = "threw" => flags[e] = "eof"

\* The client waits for a line, never for the rest of one
\* (repl_functions.cpp:142-146, s_main.cpp:143-162).
WaitEnds == pc["client"] = "await" ~> pc["client"] \in {"idle", "threw"}
=============================================================================
