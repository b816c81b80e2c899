------------------------------ MODULE ServerProofs ------------------------------
(***************************************************************************)
(* TLAPS proofs about Server, for every number of clients and requests:    *)
(* overlapping as they like, its handlers execute no request twice; and    *)
(* clients that come one after another are served right.                   *)
(*                                                                         *)
(* The invariant DInv says where a request can be: on its way, read by a   *)
(* handler that has not executed it yet, or executed; and that it is in    *)
(* one of these places only once.  A new request is in none of them,       *)
(* because those of its client have smaller numbers.                       *)
(***************************************************************************)
EXTENDS Server, SequenceTheorems, TLAPS

\* A handler exists only after a stream was accepted, and reads from a stream.
SlotTaken ==
    /\ \A c \in Clients : pc[c] # "none" => slot \in Clients
    /\ \A c \in Clients : pc[c] = "getline" => reading[c] \in Clients

\* A line that was sent before, or the empty string.
Old(r) == r # Blank => r \in Requests /\ r[2] <= sent[r[1]]

SentBefore ==
    /\ \A s \in Clients : \A i \in 1 .. Len(inbox[s]) :
          inbox[s][i] # Blank /\ Old(inbox[s][i]) /\ inbox[s][i][1] = s
    /\ \A c \in Clients : pc[c] = "check" => Old(data[c])
    /\ \A c \in Clients : \A i \in 1 .. Len(obst[c]) : Old(obst[c][i])

\* No line is twice on its way, nor on its way and read or executed.
OnWayOnce ==
    \A s \in Clients : \A i \in 1 .. Len(inbox[s]) :
        /\ \A j \in 1 .. Len(inbox[s]) : inbox[s][i] = inbox[s][j] => i = j
        /\ \A c \in Clients : pc[c] = "check" => data[c] # inbox[s][i]
        /\ \A c \in Clients : \A j \in 1 .. Len(obst[c]) : obst[c][j] # inbox[s][i]

\* No request is read by two handlers, nor read once it was executed.
ReadOnce ==
    \A c \in Clients : pc[c] = "check" /\ data[c] # Blank =>
        /\ \A d \in Clients : pc[d] = "check" /\ data[d] = data[c] => d = c
        /\ \A d \in Clients : \A j \in 1 .. Len(obst[d]) : obst[d][j] # data[c]

DInv == TypeOK /\ SlotTaken /\ SentBefore /\ OnWayOnce /\ ReadOnce /\ AtMostOnce

-----------------------------------------------------------------------------
(* Lemmas *)

\* The empty string is no request.
LEMMA BlankIsNoRequest == Blank \notin Requests
  BY DEF Blank, Requests

\* What Append adds, element by element.
LEMMA Appended ==
    ASSUME NEW S, NEW seq \in Seq(S), NEW elt \in S
    PROVE  /\ Append(seq, elt) \in Seq(S)
           /\ \A i \in 1 .. Len(Append(seq, elt)) :
                 \/ i \in 1 .. Len(seq) /\ Append(seq, elt)[i] = seq[i]
                 \/ i = Len(seq) + 1 /\ Append(seq, elt)[i] = elt
  <1>1. Len(seq) \in Nat
    BY LenProperties
  <1> QED
    BY <1>1, AppendProperties

\* What Tail leaves, element by element.
LEMMA Tailed ==
    ASSUME NEW S, NEW seq \in Seq(S), seq # <<>>
    PROVE  /\ Head(seq) \in S /\ Tail(seq) \in Seq(S)
           /\ Len(seq) \in Nat \ {0} /\ Head(seq) = seq[1]
           /\ \A i \in 1 .. Len(Tail(seq)) :
                 i + 1 \in 1 .. Len(seq) /\ Tail(seq)[i] = seq[i + 1]
  <1>1. Len(seq) \in Nat /\ Len(seq) # 0
    BY LenProperties, EmptySeq
  <1>2. Head(seq) = seq[1]
    BY <1>1
  <1> QED
    BY <1>1, <1>2, HeadTailProperties

-----------------------------------------------------------------------------
(* Types *)

LEMMA InitEstablishesDInv == Init => DInv
  <1> SUFFICES ASSUME Init PROVE DInv
    OBVIOUS
  <1> USE ServerAssumption
  <1>1. <<>> \in Seq(Clients) /\ <<>> \in Seq(Lines) /\ Blank \in Lines
    BY EmptySeq DEF Lines
  <1>2. 0 \in 0 .. MaxRequests
    OBVIOUS
  <1>3. TypeOK
    BY <1>1, <1>2 DEF Init, TypeOK
  <1>4. Len(<<>>) = 0
    BY EmptySeq
  <1> QED
    BY <1>3, <1>4 DEF Init, DInv, SlotTaken, SentBefore, OnWayOnce, ReadOnce, AtMostOnce

\* Steps of the accept loop, of main and of the network's ends.
LEMMA LoopType ==
    ASSUME DInv,
           \/ TestShutdown \/ Accept \/ Shutdown \/ Exit
           \/ \E c \in Clients : Connect(c) \/ Leave(c)
    PROVE  TypeOK'
  <1> USE DEF DInv, TypeOK, threads, streams, peers
  <1>1. CASE TestShutdown
    BY <1>1 DEF TestShutdown
  <1>2. CASE Accept
    <2>1. Head(backlog) \in Clients /\ Tail(backlog) \in Seq(Clients)
      BY <1>2, HeadTailProperties DEF Accept
    <2> QED
      BY <1>2, <2>1 DEF Accept
  <1>3. CASE Shutdown
    BY <1>3 DEF Shutdown
  <1>4. CASE Exit
    BY <1>4 DEF Exit, loop
  <1>5. ASSUME NEW c \in Clients, Connect(c)
        PROVE  TypeOK'
    <2>1. Append(backlog, c) \in Seq(Clients)
      BY AppendProperties
    <2> QED
      BY <1>5, <2>1 DEF Connect
  <1>6. ASSUME NEW c \in Clients, Leave(c)
        PROVE  TypeOK'
    BY <1>6, EmptySeq DEF Leave, loop
  <1> QED
    BY <1>1, <1>2, <1>3, <1>4, <1>5, <1>6

\* The requests and replies of a client.
LEMMA PeerType ==
    ASSUME DInv, NEW c \in Clients, Send(c) \/ Receive(c)
    PROVE  TypeOK'
  <1> USE DEF DInv, TypeOK, threads, streams, loop
  <1>1. CASE Send(c)
    <2>1. sent[c] + 1 \in 1 .. MaxRequests /\ sent'[c] = sent[c] + 1
      BY SMTT(30), <1>1, ServerAssumption DEF Send
    <2>2. <<c, sent'[c]>> \in Lines
      BY <2>1 DEF Lines, Requests
    <2>3. Append(inbox[c], <<c, sent'[c]>>) \in Seq(Lines)
      BY <2>2, AppendProperties
    <2>4. sent' \in [Clients -> 0 .. MaxRequests]
      BY <1>1, <2>1 DEF Send
    <2> QED
      BY <1>1, <2>3, <2>4 DEF Send
  <1>2. CASE Receive(c)
    <2>1. Tail(outbox[c]) \in Seq(Lines)
      BY <1>2, HeadTailProperties DEF Receive
    <2> QED
      BY <1>2, <2>1 DEF Receive
  <1> QED
    BY <1>1, <1>2

\* A step of a handler.
LEMMA HandlerType ==
    ASSUME DInv, NEW c \in Clients, Handler(c)
    PROVE  TypeOK'
  <1> DEFINE PCs == {"none", "test", "getline", "check", "write", "close",
                     "delete", "done"}
             s == reading[c]
  <1>1. CASE UseDeleted(slot) \/ UseDeleted(s)
    BY <1>1 DEF UseDeleted, DInv, TypeOK, threads, streams, loop, peers
  <1>2. SUFFICES ASSUME ~UseDeleted(slot), ~UseDeleted(s) PROVE TypeOK'
    BY <1>1
  <1>3. slot \in Clients
    <2>1. pc[c] # "none"
      BY DEF Handler, Test, GetLine, Check, Write, Close, Delete
    <2> QED
      BY <2>1 DEF DInv, SlotTaken, TypeOK
  <1>4. /\ pc \in [Clients -> PCs] /\ reading \in [Clients -> Clients \cup {NoStream}]
        /\ data \in [Clients -> Lines] /\ good \in [Clients -> BOOLEAN]
        /\ stream \in [Clients -> {"none", "live", "closed", "deleted"}]
    BY DEF DInv, TypeOK
  <1>5. \E step \in PCs : pc' = [pc EXCEPT ![c] = step]
    BY <1>2 DEF Handler, Test, GetLine, Check, Write, Close, Delete
  <1>6. pc' \in [Clients -> PCs]
    BY <1>4, <1>5
  <1> HIDE DEF PCs
  <1> USE DEF threads, streams, loop, peers
  <1>7. CASE Test(c)
    <2>1. reading' \in [Clients -> Clients \cup {NoStream}]
      BY <1>2, <1>3, <1>4, <1>7 DEF Test
    <2> QED
      BY <1>2, <1>6, <1>7, <2>1 DEF Test, DInv, TypeOK, PCs
  <1>8. CASE GetLine(c)
    <2>1. s \in Clients
      BY <1>8 DEF GetLine, DInv, SlotTaken
    <2>2. inbox[s] # <<>> => Head(inbox[s]) \in Lines /\ Tail(inbox[s]) \in Seq(Lines)
      BY <2>1, HeadTailProperties DEF DInv, TypeOK
    <2>3. data' \in [Clients -> Lines] /\ good' \in [Clients -> BOOLEAN]
      BY ZenonT(40), <1>2, <1>4, <1>8, <2>2 DEF GetLine, Lines
    <2>4. inbox' \in [Clients -> Seq(Lines)]
      BY ZenonT(40), <1>2, <1>8, <2>2 DEF GetLine, DInv, TypeOK
    <2> QED
      BY <1>2, <1>6, <1>8, <2>3, <2>4 DEF GetLine, DInv, TypeOK, PCs
  <1>9. CASE Check(c)
    <2>1. obst[c] \in Seq(Lines) /\ data[c] \in Lines
      BY DEF DInv, TypeOK
    <2>2. Append(obst[c], data[c]) \in Seq(Lines)
      BY <2>1, AppendProperties
    <2>3. obst' \in [Clients -> Seq(Lines)]
      BY <1>2, <1>9, <2>2 DEF Check, DInv, TypeOK
    <2> QED
      BY <1>2, <1>6, <1>9, <2>3 DEF Check, DInv, TypeOK, PCs
  <1>10. CASE Write(c)
    <2>1. outbox[slot] \in Seq(Lines) /\ data[c] \in Lines
      BY <1>3 DEF DInv, TypeOK
    <2>2. Append(outbox[slot], data[c]) \in Seq(Lines)
      BY <2>1, AppendProperties
    <2>3. outbox' \in [Clients -> Seq(Lines)]
      BY <1>2, <1>10, <2>2 DEF Write, DInv, TypeOK
    <2> QED
      BY <1>2, <1>6, <1>10, <2>3 DEF Write, DInv, TypeOK, PCs
  <1>11. CASE Close(c)
    BY <1>2, <1>3, <1>4, <1>6, <1>11 DEF Close, DInv, TypeOK, PCs
  <1>12. CASE Delete(c)
    <2>1. stream' \in [Clients -> {"none", "live", "closed", "deleted"}]
      BY <1>2, <1>4, <1>12 DEF Delete
    <2>2. obst' \in [Clients -> Seq(Lines)]
      <3>1. <<>> \in Seq(Lines)
        BY EmptySeq
      <3> QED
        BY ZenonT(40), <1>2, <1>12, <3>1 DEF Delete, DInv, TypeOK
    <2> QED
      BY <1>2, <1>6, <1>12, <2>1, <2>2 DEF Delete, DInv, TypeOK, PCs
  <1> QED
    BY <1>7, <1>8, <1>9, <1>10, <1>11, <1>12 DEF Handler

-----------------------------------------------------------------------------
(* Places of the requests *)

Places == SentBefore /\ OnWayOnce /\ ReadOnce /\ AtMostOnce

\* Steps that put no line anywhere.
LEMMA NothingMoves ==
    ASSUME DInv, sent' = sent, inbox' = inbox,
           \A d \in Clients : pc'[d] = "check" => pc[d] = "check" /\ data'[d] = data[d],
           \A d \in Clients : obst'[d] \in {obst[d], <<>>}
    PROVE  Places'
  <1>1. Len(<<>>) = 0
    BY EmptySeq
  <1>2. \A d \in Clients : \A i \in 1 .. Len(obst'[d]) :
           i \in 1 .. Len(obst[d]) /\ obst'[d][i] = obst[d][i]
    BY <1>1
  <1>3. SentBefore'
    <2>1. \A s \in Clients : \A i \in 1 .. Len(inbox'[s]) :
             inbox'[s][i] # Blank /\ Old(inbox[s][i])' /\ inbox'[s][i][1] = s
      BY DEF DInv, SentBefore, Old
    <2>2. \A d \in Clients : pc'[d] = "check" => Old(data[d])'
      BY DEF DInv, SentBefore, Old
    <2>3. \A d \in Clients : \A i \in 1 .. Len(obst'[d]) : Old(obst[d][i])'
      <3>1. \A d \in Clients : \A i \in 1 .. Len(obst[d]) : Old(obst[d][i])
        BY DEF DInv, SentBefore
      <3> QED
        BY <1>2, <3>1 DEF Old
    <2> QED
      BY <2>1, <2>2, <2>3 DEF SentBefore
  <1>4. OnWayOnce'
    BY <1>2 DEF DInv, OnWayOnce
  <1>5. ReadOnce'
    BY <1>2 DEF DInv, ReadOnce
  <1>6. AtMostOnce'
    BY <1>2 DEF DInv, AtMostOnce
  <1> QED
    BY <1>3, <1>4, <1>5, <1>6 DEF Places

\* A new request has a number that no request of its client had before.
LEMMA SendMoves ==
    ASSUME DInv, NEW c \in Clients, Send(c)
    PROVE  Places'
  <1>0. PICK r : r = <<c, sent[c] + 1>>
    OBVIOUS
  <1>1. /\ sent[c] \in Nat /\ r \in Requests /\ r \in Lines
        /\ sent' = [sent EXCEPT ![c] = sent[c] + 1]
        /\ inbox' = [inbox EXCEPT ![c] = Append(inbox[c], r)]
        /\ UNCHANGED <<pc, data, obst>>
    <2>1. sent[c] + 1 \in 1 .. MaxRequests /\ sent[c] \in Nat
      BY SMTT(30), ServerAssumption DEF Send, DInv, TypeOK
    <2>2. sent'[c] = sent[c] + 1
      BY DEF Send, DInv, TypeOK
    <2> QED
      BY <1>0, <2>1, <2>2 DEF Send, Requests, Lines, threads
  <1>2. ~Old(r) /\ r # Blank /\ r[1] = c
    BY <1>0, <1>1, BlankIsNoRequest DEF Old
  <1>3. \A q : Old(q) => Old(q)'
    <2> SUFFICES ASSUME NEW q, Old(q), q # Blank
                 PROVE  q[2] <= sent'[q[1]]
      BY DEF Old
    <2>1. q[1] \in Clients /\ q[2] \in Nat /\ q[2] <= sent[q[1]]
      BY DEF Old, Requests
    <2>2. sent'[q[1]] \in Nat /\ sent[q[1]] \in Nat /\ sent'[q[1]] >= sent[q[1]]
      BY SMTT(30), <1>1, <2>1 DEF DInv, TypeOK
    <2> QED
      BY <2>1, <2>2
  <1>4. Old(r)'
    <2>1. r[1] = c /\ r[2] = sent[c] + 1
      BY <1>0
    <2>2. sent'[c] = sent[c] + 1
      BY <1>1 DEF DInv, TypeOK
    <2> QED
      BY <1>1, <2>1, <2>2 DEF Old
  <1>5. \A s \in Clients : \A i \in 1 .. Len(inbox'[s]) :
           \/ i \in 1 .. Len(inbox[s]) /\ inbox'[s][i] = inbox[s][i]
           \/ s = c /\ i = Len(inbox[c]) + 1 /\ inbox'[s][i] = r
    <2>1. inbox \in [Clients -> Seq(Lines)]
      BY DEF DInv, TypeOK
    <2> QED
      BY <1>1, <2>1, Appended
  <1>6. SentBefore'
    BY <1>1, <1>2, <1>3, <1>4, <1>5 DEF DInv, SentBefore
  <1>7. OnWayOnce'
    BY SMTT(30), <1>1, <1>2, <1>5 DEF DInv, SentBefore, OnWayOnce
  <1>8. ReadOnce' /\ AtMostOnce'
    BY SMTT(30), <1>1 DEF DInv, ReadOnce, AtMostOnce
  <1> QED
    BY <1>6, <1>7, <1>8 DEF Places

\* A line that is read is not on its way any more.
LEMMA GetLineMoves ==
    ASSUME DInv, NEW c \in Clients, GetLine(c), ~UseDeleted(reading[c])
    PROVE  Places'
  <1> DEFINE s == reading[c]
  <1>1. /\ s \in Clients /\ pc' = [pc EXCEPT ![c] = "check"]
        /\ UNCHANGED <<obst, sent>>
        /\ pc[c] = "getline" /\ inbox[s] \in Seq(Lines)
    BY DEF GetLine, DInv, SlotTaken, TypeOK, peers
  <1>2. /\ pc \in [Clients -> {"none", "test", "getline", "check", "write",
                               "close", "delete", "done"}]
        /\ data \in [Clients -> Lines] /\ inbox \in [Clients -> Seq(Lines)]
    BY DEF DInv, TypeOK
  <1> HIDE DEF s
  <1>3. CASE data' = [data EXCEPT ![c] = Blank] /\ inbox' = inbox
    <2>1. \A d \in Clients : pc'[d] = "check" =>
              \/ d = c /\ data'[d] = Blank
              \/ d # c /\ pc[d] = "check" /\ data'[d] = data[d]
      <3>1. \A d \in Clients : pc'[d] = "check" => d = c \/ pc[d] = "check"
        BY <1>1, <1>2
      <3>2. data'[c] = Blank /\ \A d \in Clients : d # c => data'[d] = data[d]
        BY <1>2, <1>3
      <3> QED
        BY <3>1, <3>2
    <2>2. SentBefore'
      BY <1>1, <1>3, <2>1 DEF DInv, SentBefore, Old
    <2>3. OnWayOnce'
      BY <1>1, <1>3, <2>1 DEF DInv, OnWayOnce, SentBefore
    <2>4. ReadOnce' /\ AtMostOnce'
      BY <1>1, <1>3, <2>1 DEF DInv, ReadOnce, AtMostOnce
    <2> QED
      BY <2>2, <2>3, <2>4 DEF Places
  <1>4. CASE /\ inbox[s] # <<>> /\ data' = [data EXCEPT ![c] = Head(inbox[s])]
             /\ inbox' = [inbox EXCEPT ![s] = Tail(inbox[s])]
    <2> DEFINE r == inbox[s][1]
    <2>1. /\ 1 \in 1 .. Len(inbox[s]) /\ r = Head(inbox[s])
          /\ \A i \in 1 .. Len(Tail(inbox[s])) :
                 /\ i + 1 \in 1 .. Len(inbox[s]) /\ i + 1 # 1
                 /\ Tail(inbox[s])[i] = inbox[s][i + 1]
      BY <1>1, <1>4, Tailed
    <2>2. \A d \in Clients : pc'[d] = "check" =>
              \/ d = c /\ data'[d] = r
              \/ d # c /\ pc[d] = "check" /\ data'[d] = data[d]
      <3>1. \A d \in Clients : pc'[d] = "check" => d = c \/ pc[d] = "check"
        BY <1>1, <1>2
      <3>2. data'[c] = r /\ \A d \in Clients : d # c => data'[d] = data[d]
        BY <1>2, <1>4, <2>1
      <3> QED
        BY <3>1, <3>2
    <2>3. \A t \in Clients : \A i \in 1 .. Len(inbox'[t]) :
              \E j \in 1 .. Len(inbox[t]) :
                  /\ inbox'[t][i] = inbox[t][j]
                  /\ j = IF t = s THEN i + 1 ELSE i
      BY <1>1, <1>2, <1>4, <2>1
    <2>4. Old(r) /\ r # Blank /\ r[1] = s
      BY <1>1, <2>1 DEF DInv, SentBefore
    <2>5. /\ \A t \in Clients : \A i \in 1 .. Len(inbox'[t]) : inbox'[t][i] # r
          /\ \A d \in Clients : \A j \in 1 .. Len(obst[d]) : obst[d][j] # r
          /\ \A d \in Clients : pc[d] = "check" => data[d] # r
      <3>1. \A t \in Clients : \A i \in 1 .. Len(inbox'[t]) : inbox'[t][i] # r
        <4> SUFFICES ASSUME NEW t \in Clients, NEW i \in 1 .. Len(inbox'[t]),
                            inbox'[t][i] = r
                     PROVE  FALSE
          OBVIOUS
        <4>1. PICK j \in 1 .. Len(inbox[t]) :
                 inbox[t][j] = r /\ j = IF t = s THEN i + 1 ELSE i
          BY <2>3
        <4>2. t = s
          BY <2>4, <4>1 DEF DInv, SentBefore
        <4>3. j = i + 1 /\ j # 1
          BY <4>1, <4>2
        <4> QED
          BY <1>1, <2>1, <4>1, <4>2, <4>3 DEF DInv, OnWayOnce
      <3> QED
        BY <1>1, <2>1, <3>1 DEF DInv, OnWayOnce
    <2> HIDE DEF r
    <2>6. SentBefore'
      <3>1. \A q : Old(q)' <=> Old(q)
        BY <1>1 DEF Old
      <3>2. \A t \in Clients : \A i \in 1 .. Len(inbox'[t]) :
               inbox'[t][i] # Blank /\ Old(inbox'[t][i]) /\ inbox'[t][i][1] = t
        BY <2>3 DEF DInv, SentBefore
      <3>3. \A d \in Clients : pc'[d] = "check" => Old(data'[d])
        BY <2>2, <2>4 DEF DInv, SentBefore
      <3> QED
        BY <1>1, <3>1, <3>2, <3>3 DEF DInv, SentBefore
    <2>7. OnWayOnce'
      <3>1. \A t \in Clients : \A i, j \in 1 .. Len(inbox'[t]) :
                inbox'[t][i] = inbox'[t][j] => i = j
        BY SMTT(30), <2>3 DEF DInv, OnWayOnce
      <3>2. \A t \in Clients : \A i \in 1 .. Len(inbox'[t]) :
                /\ \A d \in Clients : pc'[d] = "check" => data'[d] # inbox'[t][i]
                /\ \A d \in Clients : \A j \in 1 .. Len(obst'[d]) :
                      obst'[d][j] # inbox'[t][i]
        <4> SUFFICES ASSUME NEW t \in Clients, NEW i \in 1 .. Len(inbox'[t])
                     PROVE  /\ \A d \in Clients : pc'[d] = "check" =>
                                   data'[d] # inbox'[t][i]
                            /\ \A d \in Clients : \A j \in 1 .. Len(obst'[d]) :
                                   obst'[d][j] # inbox'[t][i]
          OBVIOUS
        <4>1. PICK j \in 1 .. Len(inbox[t]) : inbox'[t][i] = inbox[t][j]
          BY <2>3
        <4>2. \A d \in Clients : pc[d] = "check" => data[d] # inbox[t][j]
          BY DEF DInv, OnWayOnce
        <4>3. \A d \in Clients : \A k \in 1 .. Len(obst[d]) : obst[d][k] # inbox[t][j]
          BY DEF DInv, OnWayOnce
        <4> QED
          BY <1>1, <2>2, <2>5, <4>1, <4>2, <4>3
      <3> QED
        BY <3>1, <3>2 DEF OnWayOnce
    <2>8. ReadOnce'
      BY <1>1, <2>2, <2>5 DEF DInv, ReadOnce
    <2>9. AtMostOnce'
      BY <1>1 DEF DInv, AtMostOnce
    <2> QED
      BY <2>6, <2>7, <2>8, <2>9 DEF Places
  <1> QED
    BY <1>3, <1>4 DEF GetLine, s, peers

\* A request that is executed was read.
LEMMA CheckMoves ==
    ASSUME DInv, NEW c \in Clients, Check(c), ~UseDeleted(slot)
    PROVE  Places'
  <1>1. /\ pc \in [Clients -> {"none", "test", "getline", "check", "write",
                               "close", "delete", "done"}]
        /\ obst \in [Clients -> Seq(Lines)] /\ data[c] \in Lines
        /\ pc[c] = "check" /\ UNCHANGED <<inbox, sent, data>>
    BY DEF Check, DInv, TypeOK, peers
  <1>2. CASE pc' = [pc EXCEPT ![c] = "test"] /\ obst' = obst
    <2>1. \A d \in Clients : pc'[d] = "check" => pc[d] = "check"
      BY <1>1, <1>2
    <2> QED
      BY <1>1, <1>2, <2>1, NothingMoves
  <1>3. CASE /\ obst' = [obst EXCEPT ![c] = Append(obst[c], data[c])]
             /\ pc' = [pc EXCEPT ![c] = "write"]
    <2>1. \A d \in Clients : pc'[d] = "check" => d # c /\ pc[d] = "check"
      BY <1>1, <1>3
    <2>2. \A d \in Clients : \A i \in 1 .. Len(obst'[d]) :
             \/ i \in 1 .. Len(obst[d]) /\ obst'[d][i] = obst[d][i]
             \/ d = c /\ i = Len(obst[c]) + 1 /\ obst'[d][i] = data[c]
      BY <1>1, <1>3, Appended
    <2>3. SentBefore'
      <3>1. \A q : Old(q)' <=> Old(q)
        BY <1>1 DEF Old
      <3>2. Old(data[c])
        BY <1>1 DEF DInv, SentBefore
      <3> QED
        BY <1>1, <2>1, <2>2, <3>1, <3>2 DEF DInv, SentBefore
    <2>4. OnWayOnce'
      <3>1. \A s \in Clients : \A i \in 1 .. Len(inbox[s]) : data[c] # inbox[s][i]
        BY <1>1 DEF DInv, OnWayOnce
      <3>2. \A s \in Clients : \A i \in 1 .. Len(inbox[s]) :
               \A d \in Clients : \A j \in 1 .. Len(obst'[d]) :
                   obst'[d][j] # inbox[s][i]
        BY <2>2, <3>1 DEF DInv, OnWayOnce
      <3>3. \A d \in Clients : pc'[d] = "check" => pc[d] = "check" /\ data'[d] = data[d]
        BY <1>1, <2>1
      <3> QED
        BY <1>1, <3>2, <3>3 DEF DInv, OnWayOnce
    <2>5. ReadOnce'
      BY <1>1, <2>1, <2>2 DEF DInv, ReadOnce
    <2>6. AtMostOnce'
      <3>1. data[c] # Blank =>
               \A d \in Clients : \A j \in 1 .. Len(obst[d]) : obst[d][j] # data[c]
        BY <1>1 DEF DInv, ReadOnce
      <3> QED
        BY SMTT(30), <2>2, <3>1 DEF DInv, AtMostOnce
    <2> QED
      BY <2>3, <2>4, <2>5, <2>6 DEF Places
  <1> QED
    BY <1>2, <1>3 DEF Check

-----------------------------------------------------------------------------
(* Every step *)

\* A handler that starts finds the stream that was accepted for it.
LEMMA SlotStaysTaken ==
    ASSUME DInv, Next
    PROVE  SlotTaken'
  <1> USE DEF threads, streams, loop, peers
  <1>1. /\ pc \in [Clients -> {"none", "test", "getline", "check", "write",
                               "close", "delete", "done"}]
        /\ reading \in [Clients -> Clients \cup {NoStream}]
    BY DEF DInv, TypeOK
  <1>2. CASE Accept
    <2>1. Head(backlog) \in Clients
      BY <1>2, HeadTailProperties DEF Accept, DInv, TypeOK
    <2>2. slot' \in Clients /\ reading' = reading
      BY <1>2, <2>1 DEF Accept
    <2>3. \A c \in Clients : pc'[c] \in {pc[c], "test"}
      BY <1>1, <1>2 DEF Accept
    <2> QED
      BY <2>2, <2>3 DEF DInv, SlotTaken
  <1>3. ASSUME NEW c \in Clients, Handler(c)
        PROVE  SlotTaken'
    <2>1. CASE UseDeleted(slot) \/ UseDeleted(reading[c])
      BY <2>1 DEF UseDeleted, DInv, SlotTaken
    <2>2. SUFFICES ASSUME ~UseDeleted(slot), ~UseDeleted(reading[c])
                   PROVE  SlotTaken'
      BY <2>1
    <2>3. pc[c] # "none" /\ slot \in Clients /\ slot' = slot
      BY <1>3, <2>2 DEF Handler, Test, GetLine, Check, Write, Close, Delete,
                        DInv, SlotTaken
    <2>4. CASE Test(c)
      <3>1. \A d \in Clients : pc'[d] = "getline" => d = c \/ pc[d] = "getline"
        BY <1>1, <2>2, <2>4 DEF Test
      <3>2. reading'[c] = slot /\ \A d \in Clients : d # c => reading'[d] = reading[d]
        BY <1>1, <2>2, <2>4 DEF Test
      <3> QED
        BY <2>3, <3>1, <3>2 DEF DInv, SlotTaken
    <2>5. CASE GetLine(c) \/ Check(c) \/ Write(c) \/ Close(c) \/ Delete(c)
      <3>1. reading' = reading
        BY <2>2, <2>5 DEF GetLine, Check, Write, Close, Delete
      <3>2. \A d \in Clients : pc'[d] = "getline" => pc[d] = "getline"
        BY <1>1, <2>2, <2>5 DEF GetLine, Check, Write, Close, Delete
      <3> QED
        BY <2>3, <3>1, <3>2 DEF DInv, SlotTaken
    <2> QED
      BY <1>3, <2>4, <2>5 DEF Handler
  <1>4. CASE \/ TestShutdown \/ Shutdown \/ Exit \/ Terminated
             \/ \E c \in Clients : Connect(c) \/ Send(c) \/ Receive(c) \/ Leave(c)
    <2>1. UNCHANGED <<pc, slot, reading>>
      BY <1>4 DEF TestShutdown, Shutdown, Exit, Terminated, vars, Connect, Send,
                  Receive, Leave
    <2> QED
      BY <2>1 DEF DInv, SlotTaken
  <1> QED
    BY <1>2, <1>3, <1>4 DEF Next

\* Most steps put no line anywhere, or a line where it belongs.
LEMMA PlacesKept ==
    ASSUME DInv, Next
    PROVE  Places'
  <1> USE DEF threads, streams, loop, peers
  <1>1. /\ pc \in [Clients -> {"none", "test", "getline", "check", "write",
                               "close", "delete", "done"}]
        /\ obst \in [Clients -> Seq(Lines)]
    BY DEF DInv, TypeOK
  <1>2. CASE Accept
    <2>1. UNCHANGED <<sent, inbox, obst, data>>
      BY <1>2 DEF Accept
    <2>2. \A d \in Clients : pc'[d] = "check" => pc[d] = "check"
      BY <1>1, <1>2 DEF Accept
    <2> QED
      BY <2>1, <2>2, NothingMoves
  <1>3. ASSUME NEW c \in Clients, Handler(c)
        PROVE  Places'
    <2>1. CASE UseDeleted(slot) \/ UseDeleted(reading[c])
      <3>1. UNCHANGED <<sent, inbox, obst, data, pc>>
        BY <2>1 DEF UseDeleted
      <3> QED
        BY <3>1, NothingMoves
    <2>2. SUFFICES ASSUME ~UseDeleted(slot), ~UseDeleted(reading[c])
                   PROVE  Places'
      BY <2>1
    <2>3. CASE Test(c) \/ Write(c) \/ Close(c)
      <3>1. UNCHANGED <<sent, inbox, obst, data>>
        BY <2>2, <2>3 DEF Test, Write, Close
      <3>2. \A d \in Clients : pc'[d] = "check" => pc[d] = "check"
        BY <1>1, <2>2, <2>3 DEF Test, Write, Close
      <3> QED
        BY <3>1, <3>2, NothingMoves
    <2>4. CASE Delete(c)
      <3>1. UNCHANGED <<sent, inbox, data>>
        BY <2>2, <2>4 DEF Delete
      <3>2. \A d \in Clients : pc'[d] = "check" => pc[d] = "check"
        BY <1>1, <2>2, <2>4 DEF Delete
      <3>3. \A d \in Clients : obst'[d] \in {obst[d], <<>>}
        BY <1>1, <2>2, <2>4 DEF Delete
      <3> QED
        BY <3>1, <3>2, <3>3, NothingMoves
    <2> QED
      BY <1>3, <2>2, <2>3, <2>4, GetLineMoves, CheckMoves DEF Handler
  <1>4. CASE \E c \in Clients : Send(c)
    BY <1>4, SendMoves
  <1>5. CASE \/ TestShutdown \/ Shutdown \/ Exit \/ Terminated
             \/ \E c \in Clients : Connect(c) \/ Receive(c) \/ Leave(c)
    <2>1. UNCHANGED <<sent, inbox, obst, data, pc>>
      BY <1>5 DEF TestShutdown, Shutdown, Exit, Terminated, vars, Connect,
                  Receive, Leave
    <2> QED
      BY <2>1, NothingMoves
  <1> QED
    BY <1>2, <1>3, <1>4, <1>5 DEF Next

LEMMA StepKeepsDInv ==
    ASSUME DInv, [Next]_vars
    PROVE  DInv'
  <1>1. CASE UNCHANGED vars
    <2>1. UNCHANGED <<sent, inbox, obst, data, pc, slot, reading>>
      BY <1>1 DEF vars, loop, threads, streams, peers
    <2>2. TypeOK'
      BY <1>1 DEF vars, loop, threads, streams, peers, DInv, TypeOK
    <2>3. SlotTaken'
      BY <2>1 DEF DInv, SlotTaken
    <2>4. Places'
      BY <2>1, NothingMoves
    <2> QED
      BY <2>2, <2>3, <2>4 DEF DInv, Places
  <1>2. CASE Next
    <2>1. TypeOK'
      <3>1. CASE Terminated
        BY <3>1 DEF Terminated, vars, loop, threads, streams, peers, DInv, TypeOK
      <3> QED
        BY <1>2, <3>1, LoopType, PeerType, HandlerType DEF Next
    <2> QED
      BY <1>2, <2>1, SlotStaysTaken, PlacesKept DEF DInv, Places
  <1> QED
    BY <1>1, <1>2

-----------------------------------------------------------------------------
\* Server keeps its types (s_main.cpp:131-190), for every number of clients and
\* requests.
THEOREM ServerTypeCorrect == Spec => []TypeOK
  <1>1. DInv => TypeOK
    BY DEF DInv
  <1> QED
    BY InitEstablishesDInv, StepKeepsDInv, <1>1, PTL DEF Spec

\* However many handlers take their lines from each other's streams, and
\* execute an empty line of a failed read, no request is executed twice
\* (s_main.cpp:143-162).
THEOREM ExecutedAtMostOnce == Spec => []AtMostOnce
  <1>1. DInv => AtMostOnce
    BY DEF DInv
  <1> QED
    BY InitEstablishesDInv, StepKeepsDInv, <1>1, PTL DEF Spec

-----------------------------------------------------------------------------
(* Clients that come one after another are served right and keep their     *)
(* streams.  As long as no client was accepted while a handler was at      *)
(* work, the one handler at work is that of the newest stream, so that     *)
(* strm is its own; and the one request of its client that has no answer   *)
(* yet is in exactly one place.                                            *)

\* The thread of c uses the stream of c, which is closed and deleted only when c
\* has left.
OwnStream(c) ==
    /\ pc[c] = "none" <=> stream[c] = "none"
    /\ pc[c] \in {"test", "getline", "check", "write", "close"} => stream[c] = "live"
    /\ pc[c] = "delete" => stream[c] = "closed"
    /\ pc[c] = "done" => stream[c] = "deleted"
    /\ pc[c] = "getline" => reading[c] = c /\ good[c]
    /\ pc[c] \in {"close", "delete", "done"} => ~good[c]
    /\ pc[c] # "none" /\ ~good[c] => client[c] = "closed"
    /\ client[c] = "new" => pc[c] = "none"

\* The one request that has no answer yet.
Last(c) == <<c, sent[c]>>
Asking(c) == client[c] \in {"waiting", "closed"} /\ outbox[c] = <<>>
Got(c) == pc[c] = "check" /\ good[c]

\* It is on its way, read, executed, or its answer is on the way back.
OwnLines(c) ==
    /\ \A i \in 1 .. Len(obst[c]) : obst[c][i] = <<c, i>>
    /\ Len(obst[c]) <= sent[c]
    /\ inbox[c] # <<>> =>
          /\ inbox[c] = <<Last(c)>> /\ Asking(c) /\ Len(obst[c]) + 1 = sent[c]
          /\ pc[c] = "none" \/ (good[c] /\ pc[c] \in {"test", "getline"})
    /\ Got(c) => data[c] = Last(c) /\ Asking(c) /\ Len(obst[c]) + 1 = sent[c]
    /\ pc[c] = "write" => data[c] = Last(c) /\ Asking(c) /\ Len(obst[c]) = sent[c]
    /\ outbox[c] # <<>> => /\ outbox[c] = <<Last(c)>> /\ client[c] = "waiting"
                           /\ Len(obst[c]) = sent[c]
    /\ inbox[c] = <<>> /\ ~Got(c) /\ pc[c] # "done" => Len(obst[c]) = sent[c]

\* The handler at work is that of the newest stream, hence the only one.
OneAtWork == \A c \in Clients : AtWork(c) => slot = c

\* Connections that wait have no handler yet, and wait only once.
Waiting ==
    \A i \in 1 .. Len(backlog) :
        /\ pc[backlog[i]] = "none" /\ client[backlog[i]] # "new"
        /\ \A j \in 1 .. Len(backlog) : backlog[i] = backlog[j] => i = j

Alone == /\ process # "undefined" /\ OneAtWork /\ Waiting
         /\ \A c \in Clients : OwnStream(c) /\ OwnLines(c)

AInv == DInv /\ (~overlapped => Alone)

Steps == {"none", "test", "getline", "check", "write", "close", "delete", "done"}

-----------------------------------------------------------------------------
(* Lemmas *)

\* The sequence of one element.
LEMMA OneElement ==
    ASSUME NEW r
    PROVE  /\ Append(<<>>, r) = <<r>> /\ <<r>> # <<>>
           /\ Head(<<r>>) = r /\ Tail(<<r>>) = <<>>
  OBVIOUS

\* What nobody has touched stays right.
LEMMA Untouched ==
    ASSUME NEW d \in Clients, OwnStream(d), OwnLines(d),
           pc'[d] = pc[d], stream'[d] = stream[d], good'[d] = good[d],
           reading'[d] = reading[d], client'[d] = client[d], data'[d] = data[d],
           obst'[d] = obst[d], sent'[d] = sent[d], inbox'[d] = inbox[d],
           outbox'[d] = outbox[d]
    PROVE  OwnStream(d)' /\ OwnLines(d)'
  BY DEF OwnStream, OwnLines, Last, Asking, Got

\* No handler starts.
LEMMA StillAtWork ==
    ASSUME OneAtWork, slot' = slot,
           \A d \in Clients : pc'[d] \notin {"none", "done"} =>
                                 pc[d] \notin {"none", "done"}
    PROVE  OneAtWork'
  BY DEF OneAtWork, AtWork

\* Nor does a connection join those that wait.
LEMMA StillWaiting ==
    ASSUME DInv, Waiting, backlog' = backlog,
           \A d \in Clients : pc[d] = "none" => pc'[d] = "none",
           \A d \in Clients : client[d] # "new" => client'[d] # "new"
    PROVE  Waiting'
  <1>1. \A i \in 1 .. Len(backlog) : backlog[i] \in Clients
    BY ElementOfSeq DEF DInv, TypeOK
  <1> QED
    BY <1>1 DEF Waiting

-----------------------------------------------------------------------------
(* The handler that is alone *)

LEMMA HandlerOwns ==
    ASSUME DInv, Alone, NEW c \in Clients, Handler(c)
    PROVE  /\ slot = c /\ AtWork(c) /\ OwnStream(c) /\ OwnLines(c)
           /\ ~UseDeleted(slot)
           /\ pc[c] = "getline" => ~UseDeleted(reading[c])
  <1>1. pc[c] \in {"test", "getline", "check", "write", "close", "delete"}
    BY DEF Handler, Test, GetLine, Check, Write, Close, Delete
  <1>2. AtWork(c) /\ slot = c /\ OwnStream(c) /\ OwnLines(c)
    BY <1>1 DEF AtWork, Alone, OneAtWork
  <1>3. stream[c] # "deleted" /\ (pc[c] = "getline" => reading[c] = c)
    BY <1>1, <1>2 DEF OwnStream
  <1>4. ~UseDeleted(slot)
    BY <1>2, <1>3 DEF UseDeleted
  <1>5. pc[c] = "getline" => ~UseDeleted(reading[c])
    BY <1>3 DEF UseDeleted
  <1> QED
    BY <1>2, <1>4, <1>5

LEMMA HandlerAlone ==
    ASSUME DInv, Alone, NEW c \in Clients, Handler(c)
    PROVE  Alone'
  <1> USE DEF threads, streams, loop, peers
  <1>1. /\ slot = c /\ AtWork(c) /\ OwnStream(c) /\ OwnLines(c)
        /\ ~UseDeleted(slot)
        /\ pc[c] = "getline" => ~UseDeleted(reading[c]) /\ reading[c] = c
    BY HandlerOwns DEF OwnStream
  <1>2. /\ pc \in [Clients -> Steps]
        /\ reading \in [Clients -> Clients \cup {NoStream}]
        /\ data \in [Clients -> Lines] /\ good \in [Clients -> BOOLEAN]
        /\ stream \in [Clients -> {"none", "live", "closed", "deleted"}]
        /\ obst \in [Clients -> Seq(Lines)] /\ inbox \in [Clients -> Seq(Lines)]
        /\ outbox \in [Clients -> Seq(Lines)]
    BY DEF DInv, TypeOK, Steps
  <1>3. UNCHANGED <<process, client, sent, backlog, slot>>
    BY <1>1 DEF Handler, Test, GetLine, Check, Write, Close, Delete
  <1>4. \E step \in Steps \ {"none"} : pc' = [pc EXCEPT ![c] = step]
    BY <1>1 DEF Handler, Test, GetLine, Check, Write, Close, Delete, Steps
  <1>5. OneAtWork'
    BY <1>1, <1>2, <1>3, <1>4, StillAtWork DEF AtWork, Alone
  <1>6. Waiting'
    BY <1>1, <1>2, <1>3, <1>4, StillWaiting DEF AtWork, Alone
  <1>7. ASSUME NEW d \in Clients, d # c
        PROVE  OwnStream(d)' /\ OwnLines(d)'
    <2>1. pc'[d] = pc[d]
      BY <1>2, <1>4, <1>7
    <2>2. stream'[d] = stream[d] /\ good'[d] = good[d]
      BY <1>1, <1>2, <1>7 DEF Handler, Test, GetLine, Check, Write, Close, Delete
    <2>3. reading'[d] = reading[d] /\ data'[d] = data[d]
      BY <1>1, <1>2, <1>7 DEF Handler, Test, GetLine, Check, Write, Close, Delete
    <2>4. obst'[d] = obst[d] /\ inbox'[d] = inbox[d]
      BY <1>1, <1>2, <1>7 DEF Handler, Test, GetLine, Check, Write, Close, Delete
    <2>5. outbox'[d] = outbox[d]
      BY <1>1, <1>2, <1>7 DEF Handler, Test, GetLine, Check, Write, Close, Delete
    <2> QED
      BY <1>3, <2>1, <2>2, <2>3, <2>4, <2>5, Untouched DEF Alone
  <1> SUFFICES OwnStream(c)' /\ OwnLines(c)'
    BY <1>3, <1>5, <1>6, <1>7 DEF Alone
  <1>8. CASE Test(c)
    <2>1. /\ pc'[c] = IF good[c] THEN "getline" ELSE "close"
          /\ UNCHANGED <<stream, good, data, obst, inbox, outbox>>
      BY <1>1, <1>2, <1>8 DEF Test
    <2>2. reading'[c] = c
      BY <1>1, <1>2, <1>8 DEF Test
    <2>3. pc[c] = "test"
      BY <1>8 DEF Test
    <2>4. OwnStream(c)'
      BY <1>1, <1>3, <2>1, <2>2, <2>3 DEF OwnStream
    <2>5. OwnLines(c)'
      BY <1>1, <1>3, <2>1, <2>3 DEF OwnLines, OwnStream, Last, Asking, Got
    <2> QED
      BY <2>4, <2>5
  <1>9. CASE GetLine(c)
    <2>1. pc[c] = "getline" /\ pc'[c] = "check" /\ good[c] /\ reading[c] = c
      BY <1>1, <1>2, <1>9 DEF GetLine, OwnStream
    <2>2. UNCHANGED <<stream, obst, outbox, reading>>
      BY <1>1, <1>9, <2>1 DEF GetLine
    <2>3. CASE /\ inbox[c] # <<>> /\ good' = good
               /\ data' = [data EXCEPT ![c] = Head(inbox[c])]
               /\ inbox' = [inbox EXCEPT ![c] = Tail(inbox[c])]
      <3>1. inbox[c] = <<Last(c)>> /\ Asking(c) /\ Len(obst[c]) + 1 = sent[c]
        BY <1>1, <2>3 DEF OwnLines
      <3>2. data'[c] = Last(c) /\ inbox'[c] = <<>>
        BY <1>2, <2>3, <3>1, OneElement
      <3>3. OwnStream(c)'
        BY <1>1, <1>3, <2>1, <2>2, <2>3 DEF OwnStream
      <3>4. OwnLines(c)'
        BY <1>1, <1>3, <2>1, <2>2, <2>3, <3>1, <3>2 DEF OwnLines, Last, Asking, Got
      <3> QED
        BY <3>3, <3>4
    <2>4. CASE /\ client[c] = "closed" /\ inbox[c] = <<>> /\ inbox' = inbox
               /\ good' = [good EXCEPT ![c] = FALSE]
      <3>1. ~good'[c]
        BY <1>2, <2>4
      <3>2. OwnStream(c)'
        BY <1>1, <1>3, <2>1, <2>2, <2>4, <3>1 DEF OwnStream
      <3>3. OwnLines(c)'
        BY <1>1, <1>3, <2>1, <2>2, <2>4, <3>1 DEF OwnLines, Last, Asking, Got
      <3> QED
        BY <3>2, <3>3
    <2> QED
      BY <1>1, <1>9, <2>1, <2>3, <2>4 DEF GetLine, OwnStream
  <1>10. CASE Check(c)
    <2>1. pc[c] = "check" /\ UNCHANGED <<stream, good, reading, data, inbox, outbox>>
      BY <1>1, <1>10 DEF Check
    <2>2. CASE /\ good[c] /\ obst' = [obst EXCEPT ![c] = Append(obst[c], data[c])]
               /\ pc' = [pc EXCEPT ![c] = "write"]
      <3>1. data[c] = Last(c) /\ Asking(c) /\ Len(obst[c]) + 1 = sent[c]
        BY <1>1, <2>1, <2>2 DEF OwnLines, Got
      <3>2. pc'[c] = "write" /\ obst'[c] = Append(obst[c], Last(c))
        BY <1>2, <2>2, <3>1
      <3>3. obst[c] \in Seq(Lines) /\ Last(c) \in Lines /\ Len(obst[c]) \in Nat
        BY <1>2, <3>1, LenProperties
      <3>4. /\ Len(obst'[c]) = sent[c]
            /\ \A i \in 1 .. Len(obst'[c]) : obst'[c][i] = <<c, i>>
        BY <1>1, <3>1, <3>2, <3>3, Appended, AppendProperties DEF OwnLines, Last
      <3>5. OwnStream(c)'
        BY <1>1, <1>3, <2>1, <2>2, <3>2 DEF OwnStream
      <3>6. OwnLines(c)'
        BY <1>1, <1>3, <2>1, <3>1, <3>2, <3>3, <3>4 DEF OwnLines, Last, Asking, Got
      <3> QED
        BY <3>5, <3>6
    <2>3. CASE ~good[c] /\ obst' = obst /\ pc' = [pc EXCEPT ![c] = "test"]
      <3>1. pc'[c] = "test"
        BY <1>2, <2>3
      <3>2. OwnStream(c)'
        BY <1>1, <1>3, <2>1, <2>3, <3>1 DEF OwnStream
      <3>3. OwnLines(c)'
        BY <1>1, <1>3, <2>1, <2>3, <3>1 DEF OwnLines, Last, Asking, Got
      <3> QED
        BY <3>2, <3>3
    <2> QED
      BY <1>1, <1>10, <2>2, <2>3 DEF Check
  <1>11. CASE Write(c)
    <2>1. /\ pc[c] = "write" /\ pc'[c] = "test"
          /\ UNCHANGED <<stream, good, reading, data, obst, inbox>>
      BY <1>1, <1>2, <1>11 DEF Write
    <2>2. /\ outbox[c] = <<>> /\ data[c] = Last(c) /\ Len(obst[c]) = sent[c]
          /\ client[c] \in {"waiting", "closed"} /\ inbox[c] = <<>>
          /\ stream[c] = "live" /\ (~good[c] => client[c] = "closed")
      BY <1>1, <2>1 DEF OwnLines, OwnStream, Asking
    <2>3. outbox'[c] = IF client[c] = "waiting" THEN <<Last(c)>> ELSE <<>>
      BY <1>1, <1>2, <1>11, <2>2, OneElement DEF Write
    <2>4. OwnStream(c)'
      BY <1>1, <1>3, <2>1 DEF OwnStream
    <2>5. OwnLines(c)'
      BY <1>1, <1>3, <2>1, <2>2, <2>3 DEF OwnLines, Last, Asking, Got
    <2> QED
      BY <2>4, <2>5
  <1>12. CASE Close(c)
    <2>1. /\ pc[c] = "close" /\ pc'[c] = "delete"
          /\ UNCHANGED <<good, reading, data, obst, inbox, outbox>>
      BY <1>1, <1>2, <1>12 DEF Close
    <2>2. stream'[c] = "closed"
      BY <1>1, <1>2, <1>12 DEF Close
    <2>3. OwnStream(c)'
      BY <1>1, <1>3, <2>1, <2>2 DEF OwnStream
    <2>4. OwnLines(c)'
      BY <1>1, <1>3, <2>1 DEF OwnLines, Last, Asking, Got
    <2> QED
      BY <2>3, <2>4
  <1>13. CASE Delete(c)
    <2>1. /\ pc[c] = "delete" /\ pc'[c] = "done"
          /\ UNCHANGED <<good, reading, data, inbox, outbox>>
      BY <1>1, <1>2, <1>13 DEF Delete
    <2>2. stream'[c] = "deleted"
      BY <1>1, <1>2, <1>13 DEF Delete
    <2>3. obst'[c] = <<>> /\ Len(<<>>) = 0 /\ sent[c] \in Nat
      BY <1>1, <1>2, <1>13, ServerAssumption DEF Delete, DInv, TypeOK
    <2>4. OwnStream(c)'
      BY <1>1, <1>3, <2>1, <2>2 DEF OwnStream
    <2>5. client[c] = "closed" /\ inbox[c] = <<>> /\ outbox[c] = <<>>
      BY <1>1, <2>1 DEF OwnStream, OwnLines
    <2>6. OwnLines(c)'
      BY <1>1, <1>3, <2>1, <2>3, <2>5 DEF OwnLines, Last, Asking, Got
    <2> QED
      BY <2>4, <2>6
  <1> QED
    BY <1>8, <1>9, <1>10, <1>11, <1>12, <1>13 DEF Handler

-----------------------------------------------------------------------------
(* The accept loop *)

\* A client is accepted when the handler before it is through.
LEMMA AcceptAlone ==
    ASSUME DInv, Alone, Accept, ~overlapped'
    PROVE  Alone'
  <1> USE DEF threads, streams, loop, peers
  <1>1. PICK c \in Clients : c = Head(backlog)
    BY HeadTailProperties DEF Accept, DInv, TypeOK
  <1>2. /\ slot' = c /\ stream' = [stream EXCEPT ![c] = "live"]
        /\ good' = [good EXCEPT ![c] = TRUE] /\ pc' = [pc EXCEPT ![c] = "test"]
        /\ backlog # <<>> /\ backlog' = Tail(backlog)
        /\ UNCHANGED <<process, reading, data, obst, client, sent, inbox, outbox>>
        /\ \A d \in Clients : ~AtWork(d)
    BY <1>1 DEF Accept
  <1>3. /\ pc \in [Clients -> Steps] /\ good \in [Clients -> BOOLEAN]
        /\ stream \in [Clients -> {"none", "live", "closed", "deleted"}]
        /\ backlog \in Seq(Clients) /\ sent[c] \in Nat
    BY ServerAssumption DEF DInv, TypeOK, Steps
  <1>4. /\ Len(backlog) \in Nat \ {0} /\ backlog[1] = c
        /\ \A i \in 1 .. Len(Tail(backlog)) :
              i + 1 \in 1 .. Len(backlog) /\ Tail(backlog)[i] = backlog[i + 1]
    BY <1>1, <1>2, <1>3, Tailed
  <1>5. pc[c] = "none" /\ client[c] # "new"
    BY <1>4 DEF Alone, Waiting
  <1>6. OneAtWork'
    BY <1>2, <1>3 DEF OneAtWork, AtWork
  <1>7. Waiting'
    <2> SUFFICES ASSUME NEW i \in 1 .. Len(backlog')
                 PROVE  /\ pc'[backlog'[i]] = "none" /\ client'[backlog'[i]] # "new"
                        /\ \A j \in 1 .. Len(backlog') :
                              backlog'[i] = backlog'[j] => i = j
      BY DEF Waiting
    <2>1. i + 1 \in 1 .. Len(backlog) /\ backlog'[i] = backlog[i + 1] /\ i \in Nat
      BY <1>2, <1>4
    <2>2. backlog[i + 1] # c
      BY <1>4, <2>1 DEF Alone, Waiting
    <2>3. backlog[i + 1] \in Clients /\ pc[backlog[i + 1]] = "none"
      BY <1>3, <2>1, ElementOfSeq DEF Alone, Waiting
    <2>4. pc'[backlog'[i]] = "none" /\ client'[backlog'[i]] # "new"
      BY <1>2, <1>3, <2>1, <2>2, <2>3 DEF Alone, Waiting
    <2>5. ASSUME NEW j \in 1 .. Len(backlog'), backlog'[i] = backlog'[j]
          PROVE  i = j
      <3>1. j + 1 \in 1 .. Len(backlog) /\ backlog[i + 1] = backlog[j + 1]
        BY <1>2, <1>4, <2>1, <2>5
      <3>2. i + 1 = j + 1
        BY <2>1, <3>1 DEF Alone, Waiting
      <3> QED
        BY <2>1, <3>2
    <2> QED
      BY <2>4, <2>5
  <1>8. ASSUME NEW d \in Clients, d # c
        PROVE  OwnStream(d)' /\ OwnLines(d)'
    <2>1. pc'[d] = pc[d] /\ stream'[d] = stream[d] /\ good'[d] = good[d]
      BY <1>2, <1>3, <1>8
    <2> QED
      BY <1>2, <2>1, Untouched DEF Alone
  <1>9. pc'[c] = "test" /\ stream'[c] = "live" /\ good'[c]
    BY <1>2, <1>3
  <1>10. OwnStream(c)'
    BY <1>2, <1>5, <1>9 DEF OwnStream
  <1>11. OwnLines(c)'
    BY <1>2, <1>3, <1>5, <1>9 DEF Alone, OwnLines, Last, Asking, Got
  <1> QED
    BY <1>2, <1>6, <1>7, <1>8, <1>10, <1>11 DEF Alone

-----------------------------------------------------------------------------
(* The clients *)

LEMMA ConnectAlone ==
    ASSUME DInv, Alone, NEW c \in Clients, Connect(c)
    PROVE  Alone'
  <1> USE DEF threads, streams, loop, peers
  <1>1. /\ client[c] = "new" /\ client' = [client EXCEPT ![c] = "idle"]
        /\ backlog' = Append(backlog, c)
        /\ UNCHANGED <<process, slot, pc, reading, data, obst, stream, good, sent,
                       inbox, outbox>>
    BY DEF Connect
  <1>2. /\ client \in [Clients -> {"new", "idle", "waiting", "closed"}]
        /\ backlog \in Seq(Clients) /\ Len(backlog) \in Nat
    BY LenProperties DEF DInv, TypeOK
  <1>3. pc[c] = "none" /\ client'[c] = "idle"
    BY <1>1, <1>2 DEF Alone, OwnStream
  <1>4. OneAtWork'
    BY <1>1, StillAtWork DEF Alone
  <1>5. Waiting'
    <2>1. \A i \in 1 .. Len(backlog') :
             \/ i \in 1 .. Len(backlog) /\ backlog'[i] = backlog[i]
             \/ i = Len(backlog) + 1 /\ backlog'[i] = c
      BY <1>1, <1>2, Appended
    <2>2. \A i \in 1 .. Len(backlog) : backlog[i] \in Clients /\ backlog[i] # c
      BY <1>1, <1>2, ElementOfSeq DEF Alone, Waiting
    <2>3. \A d \in Clients : client[d] # "new" => client'[d] # "new"
      BY <1>1, <1>2
    <2>4. \A i \in 1 .. Len(backlog') :
             pc'[backlog'[i]] = "none" /\ client'[backlog'[i]] # "new"
      BY <1>1, <1>3, <2>1, <2>2, <2>3 DEF Alone, Waiting
    <2>5. \A i, j \in 1 .. Len(backlog') : backlog'[i] = backlog'[j] => i = j
      BY <2>1, <2>2 DEF Alone, Waiting
    <2> QED
      BY <2>4, <2>5 DEF Waiting
  <1>6. ASSUME NEW d \in Clients, d # c
        PROVE  OwnStream(d)' /\ OwnLines(d)'
    <2>1. client'[d] = client[d]
      BY <1>1, <1>2, <1>6
    <2> QED
      BY <1>1, <2>1, Untouched DEF Alone
  <1>7. OwnStream(c)'
    BY <1>1, <1>3 DEF Alone, OwnStream
  <1>8. OwnLines(c)'
    BY <1>1, <1>3 DEF Alone, OwnLines, Last, Asking, Got
  <1> QED
    BY <1>1, <1>4, <1>5, <1>6, <1>7, <1>8 DEF Alone

LEMMA TalkAlone ==
    ASSUME DInv, Alone, NEW c \in Clients, Send(c) \/ Receive(c) \/ Leave(c)
    PROVE  Alone'
  <1> USE DEF threads, streams, loop, peers
  <1>1. /\ UNCHANGED <<process, slot, backlog, pc, reading, data, obst, stream, good>>
        /\ client[c] \in {"idle", "waiting"}
    BY DEF Send, Receive, Leave
  <1>2. /\ client \in [Clients -> {"new", "idle", "waiting", "closed"}]
        /\ sent \in [Clients -> 0 .. MaxRequests]
        /\ inbox \in [Clients -> Seq(Lines)] /\ outbox \in [Clients -> Seq(Lines)]
        /\ sent[c] \in Nat /\ obst[c] \in Seq(Lines) /\ Len(obst[c]) \in Nat
    BY ServerAssumption, LenProperties DEF DInv, TypeOK
  <1>3. \E state \in {"idle", "waiting", "closed"} :
           client' = [client EXCEPT ![c] = state]
    BY DEF Send, Receive, Leave
  <1>4. OneAtWork'
    BY <1>1, StillAtWork DEF Alone
  <1>5. \A d \in Clients : client[d] # "new" => client'[d] # "new"
    BY <1>2, <1>3
  <1>6. Waiting'
    BY <1>1, <1>5, StillWaiting DEF Alone
  <1>7. ASSUME NEW d \in Clients, d # c
        PROVE  OwnStream(d)' /\ OwnLines(d)'
    <2>1. client'[d] = client[d]
      BY <1>2, <1>3, <1>7
    <2>2. sent'[d] = sent[d] /\ inbox'[d] = inbox[d]
      BY <1>2, <1>7 DEF Send, Receive, Leave
    <2>3. outbox'[d] = outbox[d]
      BY <1>2, <1>7 DEF Send, Receive, Leave
    <2> QED
      BY <1>1, <2>1, <2>2, <2>3, Untouched DEF Alone
  <1>8. OwnStream(c) /\ OwnLines(c)
    BY DEF Alone
  <1> SUFFICES OwnStream(c)' /\ OwnLines(c)'
    BY <1>1, <1>4, <1>6, <1>7 DEF Alone
  <1>9. CASE Send(c)
    <2>1. client[c] = "idle" /\ client'[c] = "waiting" /\ outbox' = outbox
      BY <1>2, <1>9 DEF Send
    <2>2. sent'[c] = sent[c] + 1
      BY <1>2, <1>9 DEF Send
    <2>3. inbox[c] = <<>> /\ outbox[c] = <<>> /\ ~Got(c) /\ pc[c] # "write"
      BY <1>8, <2>1 DEF OwnLines, Asking
    <2>4. (pc[c] = "none" \/ good[c]) /\ pc[c] \notin {"close", "delete", "done"}
      BY <1>8, <2>1 DEF OwnStream
    <2>5. pc[c] \in {"none", "test", "getline"}
      BY <2>3, <2>4 DEF DInv, TypeOK, Got
    <2>6. inbox'[c] = Append(inbox[c], <<c, sent[c] + 1>>)
      BY <1>2, <1>9, <2>2 DEF Send
    <2>7. inbox'[c] = <<Last(c)'>> /\ <<Last(c)'>> # <<>>
      BY <2>2, <2>3, <2>6, OneElement DEF Last
    <2>8. Len(obst[c]) = sent[c]
      BY <1>8, <2>3, <2>4 DEF OwnLines
    <2>9. OwnStream(c)'
      BY <1>1, <1>8, <2>1, <2>4 DEF OwnStream
    <2>10. Asking(c)' /\ ~Got(c)'
      BY <1>1, <2>1, <2>3 DEF Asking, Got
    <2>11. OwnLines(c)'
      BY <1>1, <1>2, <1>8, <2>1, <2>2, <2>3, <2>4, <2>5, <2>7, <2>8, <2>10
         DEF OwnLines
    <2> QED
      BY <2>9, <2>11
  <1>10. CASE Receive(c)
    <2>1. /\ client[c] = "waiting" /\ client'[c] = "idle" /\ outbox[c] # <<>>
          /\ sent' = sent /\ inbox' = inbox
      BY <1>2, <1>10 DEF Receive
    <2>2. outbox[c] = <<Last(c)>> /\ Len(obst[c]) = sent[c]
      BY <1>8, <2>1 DEF OwnLines
    <2>3. outbox'[c] = Tail(outbox[c])
      BY <1>2, <1>10 DEF Receive
    <2>4. outbox'[c] = <<>>
      BY <2>2, <2>3, OneElement
    <2>5. inbox[c] = <<>> /\ ~Got(c) /\ pc[c] # "write"
      BY <1>8, <2>1 DEF OwnLines, Asking
    <2>6. OwnStream(c)'
      BY <1>1, <1>8, <2>1 DEF OwnStream
    <2>7. OwnLines(c)'
      BY <1>1, <1>8, <2>1, <2>2, <2>4, <2>5 DEF OwnLines, Got
    <2> QED
      BY <2>6, <2>7
  <1>11. CASE Leave(c)
    <2>1. client'[c] = "closed" /\ sent' = sent /\ inbox' = inbox
      BY <1>2, <1>11 DEF Leave
    <2>2. outbox'[c] = <<>>
      BY <1>2, <1>11 DEF Leave
    <2>3. OwnStream(c)'
      BY <1>1, <1>8, <2>1 DEF OwnStream
    <2>4. OwnLines(c)'
      BY <1>1, <1>8, <2>1, <2>2 DEF OwnLines, Last, Asking, Got
    <2> QED
      BY <2>3, <2>4
  <1> QED
    BY <1>9, <1>10, <1>11

-----------------------------------------------------------------------------
(* Every step *)

LEMMA NothingTouched ==
    ASSUME Alone, UNCHANGED <<slot, backlog, threads, streams, peers>>,
           process' # "undefined"
    PROVE  Alone'
  <1> USE DEF threads, streams, peers
  <1>1. OneAtWork' /\ Waiting'
    BY DEF Alone, OneAtWork, AtWork, Waiting
  <1>2. \A d \in Clients : OwnStream(d)' /\ OwnLines(d)'
    BY Untouched DEF Alone
  <1> QED
    BY <1>1, <1>2 DEF Alone

LEMMA StepKeepsAlone ==
    ASSUME AInv, [Next]_vars
    PROVE  AInv'
  <1>1. DInv'
    BY StepKeepsDInv DEF AInv
  <1> SUFFICES ASSUME ~overlapped' PROVE Alone'
    BY <1>1 DEF AInv
  <1>2. ~overlapped
    BY DEF Next, vars, TestShutdown, Accept, Shutdown, Exit, Terminated, Handler,
           Test, GetLine, Check, Write, Close, Delete, UseDeleted, Connect, Send,
           Receive, Leave
  <1>3. DInv /\ Alone
    BY <1>2 DEF AInv
  <1>4. CASE TestShutdown \/ Shutdown \/ Exit \/ UNCHANGED vars
    <2>1. UNCHANGED <<slot, backlog, threads, streams, peers>>
      BY <1>4 DEF TestShutdown, Shutdown, Exit, vars, loop
    <2>2. process' # "undefined"
      BY <1>3, <1>4 DEF TestShutdown, Shutdown, Exit, vars, Alone
    <2> QED
      BY <1>3, <2>1, <2>2, NothingTouched
  <1>5. CASE Next /\ ~(TestShutdown \/ Shutdown \/ Exit \/ UNCHANGED vars)
    BY <1>3, <1>5, AcceptAlone, HandlerAlone, ConnectAlone, TalkAlone
       DEF Next, Terminated
  <1> QED
    BY <1>4, <1>5

LEMMA InitEstablishesAlone == Init => AInv
  <1> SUFFICES ASSUME Init PROVE AInv
    OBVIOUS
  <1>1. DInv
    BY InitEstablishesDInv
  <1>2. Len(<<>>) = 0
    BY EmptySeq
  <1>3. OneAtWork /\ Waiting
    BY <1>2 DEF Init, OneAtWork, AtWork, Waiting
  <1>4. \A c \in Clients : OwnStream(c)
    BY DEF Init, OwnStream
  <1>5. \A c \in Clients : OwnLines(c)
    BY <1>2 DEF Init, OwnLines, Got
  <1> QED
    BY <1>1, <1>3, <1>4, <1>5 DEF Init, AInv, Alone

-----------------------------------------------------------------------------
\* Clients that come one after another have their requests executed by their own
\* storage, each once and in order, and get the answer to the request they have
\* sent, although the variable strm is reused under the threads
\* (s_main.cpp:133-172).
THEOREM ServedRightAlone == Spec => []AloneServedRight
  <1>1. AInv => AloneServedRight
    BY DEF AInv, Alone, OwnLines, Last, AloneServedRight, ServesItsClient,
           AnswersItsClient
  <1> QED
    BY InitEstablishesAlone, StepKeepsAlone, <1>1, PTL DEF Spec

\* Their streams are closed only after they have left, and never used once they
\* are deleted (s_main.cpp:143-166).
THEOREM StreamKeptAlone == Spec => []AloneKeepsItsStream
  <1>1. AInv => AloneKeepsItsStream
    <2> SUFFICES ASSUME AInv, ~overlapped, NEW c \in Clients,
                        stream[c] \in {"closed", "deleted"}
                 PROVE  client[c] = "closed"
      BY DEF AInv, Alone, AloneKeepsItsStream
    <2>1. OwnStream(c) /\ pc[c] \in Steps
      BY DEF AInv, Alone, DInv, TypeOK, Steps
    <2>2. pc[c] \in {"delete", "done"}
      BY <2>1 DEF OwnStream, Steps
    <2> QED
      BY <2>1, <2>2 DEF OwnStream
  <1> QED
    BY InitEstablishesAlone, StepKeepsAlone, <1>1, PTL DEF Spec
=============================================================================
