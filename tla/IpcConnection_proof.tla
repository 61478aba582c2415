------------------------ MODULE IpcConnection_proof ------------------------
(***************************************************************************)
(* Theorems about IpcConnection, for any clients, commands and sizes, and  *)
(* however the streams are cut up.                                         *)
(***************************************************************************)
EXTENDS IpcConnection, TLAPS

\* Where a connection is says how much of its client's command has been read:
\* nothing until the header is, the header only until the payload is.  It is
\* this, and that a client writes no more than it announces, that keeps a
\* command from running on a part of its bytes, or twice.
ReadInStep(c) ==
    /\ state[c] = "none" => pc[c] \in {"idle"} \cup Gone /\ command[c] = NoCommand
    /\ state[c] # "none" => pc[c] # "idle" /\ command[c] \in Commands
    /\ command[c] = NoCommand => sent[c] = 0
    /\ state[c] \in {"none", "backlog", "READING_HEADER"} => taken[c] = 0 /\ ran[c] = 0
    /\ state[c] = "READING_PAYLOAD" =>
          taken[c] = HeaderSize /\ ran[c] = 0 /\ payloadSize[c] = Size[command[c]]
    /\ taken[c] <= sent[c]
    /\ reply[c].bytes \in {0, HeaderSize}
    /\ command[c] \in Commands => sent[c] <= Total(c)
    /\ ran[c] > 0 => /\ ran[c] = 1
                     /\ command[c] \notin Malformed
                     /\ sent[c] = Total(c)
                     /\ taken[c] = sent[c]

IInv == TypeOK /\ \A c \in Clients : ReadInStep(c)

-----------------------------------------------------------------------------
(* Each action keeps the types *)

\* Steps of the clients keep every variable in its type.
LEMMA ClientTypes ==
    ASSUME IInv, NEW c \in Clients, Open(c) \/ Die(c) \/ ClientStep(c)
    PROVE  TypeOK'
<1>0. TypeOK /\ ReadInStep(c)
  BY DEF IInv
<1> USE <1>0, CommandsAssumption DEF TypeOK, Gone, Waiting, Connected
<1>1. CASE Open(c)
  <2>1. CASE server = "down"
    BY <1>1, <2>1 DEF Open
  <2>2. CASE server # "down"
    <3>1. PICK m \in Commands : command' = [command EXCEPT ![c] = m]
      BY <1>1, <2>2, Zenon DEF Open
    <3>2. command' \in [Clients -> Commands \cup {NoCommand}]
      BY <3>1
    <3>3. QED
      BY <1>1, <2>2, <3>2 DEF Open
  <2>3. QED
    BY <2>1, <2>2
<1>2. CASE Die(c) \/ SigPipe(c)
  BY <1>2 DEF SigPipe, Die, connVars
<1>3. CASE Write(c)
  <2>1. PICK n \in 1..((IF sent[c] < HeaderSize THEN HeaderSize ELSE Total(c)) - sent[c]) :
            /\ sent' = [sent EXCEPT ![c] = @ + n]
            /\ pc' = [pc EXCEPT ![c] = IF sent'[c] = Total(c) THEN "header" ELSE @]
    BY <1>3, Zenon DEF Write
  <2>2. Total(c) \in Nat
    BY <1>3 DEF Write, ReadInStep, Total, HeaderSize
  <2>3. QED
    BY <1>3, <2>1, <2>2 DEF Write, connVars, HeaderSize
<1>4. CASE ReceiveHeader(c)
  <2>1. reply' \in [Clients -> [bytes: Nat, announced: Nat \cup {Garbage}]]
    <3>1. CASE reply[c].bytes > 0
      BY <1>4, <3>1 DEF ReceiveHeader, Consume, ReadInStep, HeaderSize
    <3>2. CASE ~ (reply[c].bytes > 0)
      BY <1>4, <3>2 DEF ReceiveHeader
    <3>3. QED
      BY <3>1, <3>2
  <2>2. QED
    BY <1>4, <2>1 DEF ReceiveHeader, Return
<1>5. CASE ReceiveBody(c)
  <2>1. reply' \in [Clients -> [bytes: Nat, announced: Nat \cup {Garbage}]]
    BY <1>5 DEF ReadInStep, ReceiveBody, Consume, HeaderSize
  <2>2. QED
    BY <1>5, <2>1 DEF ReceiveBody, Return
<1>6. QED
  BY <1>1, <1>2, <1>3, <1>4, <1>5 DEF ClientStep

LEMMA PayloadTypes ==
    ASSUME IInv, NEW c \in Clients, NEW start \in Nat,
           payloadSize' \in [Clients -> Nat], ReadPayload(c, start),
           command[c] \in Commands
    PROVE  /\ taken' \in [Clients -> Nat]
           /\ state' \in [Clients -> {"none", "backlog", "removed"} \cup Connected]
           /\ message' \in [Clients -> Nat]
           /\ ran' \in [Clients -> Nat]
           /\ server' \in {"running", "terminated", "down"}
BY CommandsAssumption DEF IInv, TypeOK, ReadPayload, Connected

\* Steps of the event loop keep every variable in its type.
LEMMA ServerTypes ==
    ASSUME IInv, Poll \/ Dispatch \/ Signal \/ Stop
    PROVE  TypeOK'
<1>0. TypeOK /\ \A c \in Clients : ReadInStep(c)
  BY DEF IInv
<1> USE <1>0, CommandsAssumption DEF TypeOK, Connected
<1>1. CASE Poll
  BY <1>1 DEF Poll, Ready, clientVars, connVars
<1>2. CASE Signal
  BY <1>2 DEF Signal, clientVars, connVars
<1>3. CASE Stop
  BY <1>3 DEF Stop, AllRemoved, clientVars
<1>4. ASSUME NEW e \in pending, Dropped(e)
      PROVE  TypeOK'
  BY <1>4 DEF Dropped, Take, clientVars, connVars
<1>5. ASSUME NEW e \in pending, HandleConnection(e)
      PROVE  TypeOK'
  BY <1>5 DEF HandleConnection, Take, clientVars
<1>6. ASSUME NEW e \in pending, HandleReadable(e)
      PROVE  TypeOK'
  <2> DEFINE c == e.client
  <2>0. e \in Events /\ e.source = "readable" /\ state[c] \in Connected
    BY <1>6 DEF HandleReadable
  <2>1. c \in Clients /\ command[c] \in Commands /\ Size[command[c]] \in Nat
    BY <2>0 DEF Events, ReadInStep
  <2> HIDE DEF c
  <2>2. /\ pending' = pending \ {e}
        /\ UNCHANGED <<clientVars, fds, reply>>
    BY <1>6 DEF HandleReadable, Take
  <2>3. /\ payloadSize' \in [Clients -> Nat]
        /\ taken' \in [Clients -> Nat]
        /\ state' \in [Clients -> {"none", "backlog", "removed"} \cup Connected]
        /\ message' \in [Clients -> Nat]
        /\ ran' \in [Clients -> Nat]
        /\ server' \in {"running", "terminated", "down"}
    <3>1. CASE RemoveClient(c) /\ UNCHANGED <<payloadSize, message, taken, ran, server>>
      BY <2>1, <3>1 DEF RemoveClient
    <3>2. CASE ReadHeader(c, sent[c] - taken[c])
      <4>1. payloadSize' \in [Clients -> Nat]
        BY <2>1, <3>2 DEF ReadHeader
      <4>2. CASE ReadPayload(c, taken[c] + HeaderSize)
        <5>1. taken[c] + HeaderSize \in Nat
          BY <2>1 DEF HeaderSize
        <5>2. QED
          BY <2>1, <4>1, <4>2, <5>1, PayloadTypes
      <4>3. CASE /\ state' = [state EXCEPT ![c] = "READING_PAYLOAD"]
                 /\ taken' = [taken EXCEPT ![c] = @ + HeaderSize]
                 /\ UNCHANGED <<message, ran, server>>
        BY <2>1, <4>1, <4>3 DEF HeaderSize
      <4>4. QED
        BY <3>2, <4>2, <4>3 DEF ReadHeader
    <3>3. CASE UNCHANGED payloadSize /\ ReadPayload(c, taken[c])
      BY <2>1, <3>3, PayloadTypes
    <3>4. CASE UNCHANGED <<state, payloadSize, message, taken, ran, server>>
      BY <3>4
    <3>5. QED
      BY <1>6, <3>1, <3>2, <3>3, <3>4 DEF HandleReadable, c
  <2>4. QED
    BY <2>2, <2>3 DEF clientVars
<1>7. ASSUME NEW e \in pending, HandleWriteable(e)
      PROVE  TypeOK'
  <2> DEFINE c == e.client
  <2>0. e \in Events /\ e.source = "writable"
    BY <1>7 DEF HandleWriteable
  <2>1. c \in Clients
    BY <2>0 DEF Events
  <2> HIDE DEF c
  <2>2. WrittenReply(message[c]) \in [bytes: Nat, announced: Nat \cup {Garbage}]
    BY DEF WrittenReply, HeaderSize
  <2>3. CASE RemoveClient(c) /\ UNCHANGED <<reply, server>>
    BY <1>7, <2>1, <2>3 DEF HandleWriteable, Take, RemoveClient, clientVars, c
  <2>4. CASE Answer(c)
    <3>1. reply' \in [Clients -> [bytes: Nat, announced: Nat \cup {Garbage}]]
      BY <2>1, <2>2, <2>4 DEF Answer
    <3>2. /\ state' \in [Clients -> {"none", "backlog", "removed"} \cup Connected]
          /\ server' \in {"running", "terminated", "down"}
      BY <2>1, <2>4 DEF Answer, RemoveClient, AllRemoved
    <3>3. QED
      BY <1>7, <3>1, <3>2 DEF HandleWriteable, Take, clientVars
  <2>5. QED
    BY <1>7, <2>3, <2>4 DEF HandleWriteable, c
<1>8. QED
  BY <1>1, <1>2, <1>3, <1>4, <1>5, <1>6, <1>7 DEF Dispatch

-----------------------------------------------------------------------------
(* Each action keeps what has been read in step with the connection *)

\* A step that changes nothing of a connection keeps it in step.
LEMMA OtherInStep ==
    ASSUME IInv, NEW d \in Clients,
           pc'[d] = pc[d], command'[d] = command[d], sent'[d] = sent[d],
           state'[d] \in {state[d], "removed"}, payloadSize'[d] = payloadSize[d],
           taken'[d] = taken[d], reply'[d] = reply[d], ran'[d] = ran[d],
           state[d] = "none" => state'[d] = "none"
    PROVE  ReadInStep(d)'
BY DEF IInv, ReadInStep, Total

LEMMA ClientInStep ==
    ASSUME IInv, TypeOK', NEW c \in Clients, Open(c) \/ Die(c) \/ ClientStep(c),
           NEW d \in Clients
    PROVE  ReadInStep(d)'
<1>0. TypeOK /\ ReadInStep(c)
  BY DEF IInv
<1>1. CASE d # c
  <2>1. /\ pc'[d] = pc[d] /\ command'[d] = command[d] /\ sent'[d] = sent[d]
        /\ state'[d] = state[d] /\ payloadSize'[d] = payloadSize[d]
        /\ taken'[d] = taken[d] /\ reply'[d] = reply[d] /\ ran'[d] = ran[d]
    BY <1>0, <1>1 DEF TypeOK, Open, Die, ClientStep, SigPipe, Write, ReceiveHeader,
       ReceiveBody, Consume, Return, connVars
  <2>2. QED
    BY <2>1, OtherInStep
<1>2. CASE d = c
  <2> USE <1>0, <1>2, CommandsAssumption
      DEF TypeOK, ReadInStep, Total, HeaderSize, Gone, Waiting
  <2>1. CASE Open(c)
    BY <2>1 DEF Open
  <2>2. CASE Die(c) \/ SigPipe(c)
    BY <2>2 DEF SigPipe, Die, connVars
  <2>3. CASE Write(c)
    BY <2>3 DEF Write, connVars
  <2>4. CASE ReceiveHeader(c)
    <3>1. reply'[c].bytes \in {0, HeaderSize}
      BY <2>4 DEF ReceiveHeader, Consume
    <3>2. QED
      BY <2>4, <3>1 DEF ReceiveHeader, Return
  <2>5. CASE ReceiveBody(c)
    <3>1. reply'[c].bytes \in {0, HeaderSize}
      BY <2>5 DEF ReceiveBody, Consume
    <3>2. QED
      BY <2>5, <3>1 DEF ReceiveBody, Return
  <2>6. QED
    BY <2>1, <2>2, <2>3, <2>4, <2>5 DEF ClientStep
<1>3. QED
  BY <1>1, <1>2

\* Reading a payload that has been sent whole takes all that was sent.
LEMMA PayloadInStep ==
    ASSUME IInv, TypeOK', NEW c \in Clients, NEW start \in Nat,
           command[c] \in Commands, ran[c] = 0,
           payloadSize'[c] = Size[command[c]], start = HeaderSize,
           start + payloadSize'[c] <= sent[c],
           ReadPayload(c, start), UNCHANGED <<clientVars, fds, reply>>
    PROVE  ReadInStep(c)'
BY CommandsAssumption
   DEF IInv, TypeOK, ReadInStep, ReadPayload, Total, HeaderSize, Connected, clientVars

LEMMA ServerInStep ==
    ASSUME IInv, TypeOK', Poll \/ Dispatch \/ Signal \/ Stop, NEW d \in Clients
    PROVE  ReadInStep(d)'
<1>0. TypeOK /\ \A c \in Clients : ReadInStep(c)
  BY DEF IInv
<1>1. CASE Poll \/ Signal \/ (\E e \in pending : Dropped(e))
  BY <1>1, OtherInStep DEF Poll, Signal, Dropped, clientVars, connVars
<1>2. CASE Stop
  BY <1>0, <1>2, OtherInStep DEF Stop, AllRemoved, TypeOK, clientVars
<1>3. ASSUME NEW e \in pending, HandleConnection(e)
      PROVE  ReadInStep(d)'
  <2> USE <1>0 DEF TypeOK
  <2>1. CASE state' = state
    BY <1>3, <2>1, OtherInStep DEF HandleConnection, clientVars
  <2>2. CASE \E c \in Clients : /\ state[c] = "backlog"
                                /\ state' = [state EXCEPT ![c] = "READING_HEADER"]
    BY <1>3, <2>2 DEF HandleConnection, clientVars, ReadInStep, Total
  <2>3. QED
    BY <1>3, <2>1, <2>2, Zenon DEF HandleConnection
<1>4. ASSUME NEW e \in pending, HandleReadable(e)
      PROVE  ReadInStep(d)'
  <2> DEFINE c == e.client
  <2>0. e \in Events /\ e.source = "readable" /\ state[c] \in Connected
    BY <1>0, <1>4 DEF HandleReadable, TypeOK
  <2>1. c \in Clients /\ command[c] \in Commands /\ state[c] # "none"
    BY <1>0, <2>0 DEF Events, ReadInStep, Connected
  <2>2. UNCHANGED <<clientVars, fds, reply>>
    BY <1>4 DEF HandleReadable
  <2>3. \/ RemoveClient(c) /\ UNCHANGED <<payloadSize, message, taken, ran, server>>
        \/ /\ state[c] = "READING_HEADER"
           /\ sent[c] - taken[c] >= HeaderSize
           /\ ReadHeader(c, sent[c] - taken[c])
        \/ /\ state[c] = "READING_PAYLOAD"
           /\ sent[c] - taken[c] >= payloadSize[c]
           /\ UNCHANGED payloadSize /\ ReadPayload(c, taken[c])
        \/ UNCHANGED <<state, payloadSize, message, taken, ran, server>>
    BY <1>4 DEF HandleReadable
  <2> HIDE DEF c
  <2> USE <1>0, <2>1, CommandsAssumption
  <2>4. CASE d # c
    <3>1. /\ payloadSize'[d] = payloadSize[d] /\ taken'[d] = taken[d]
          /\ state'[d] = state[d] /\ ran'[d] = ran[d]
      BY <2>3, <2>4 DEF TypeOK, RemoveClient, ReadHeader, ReadPayload
    <3>2. QED
      BY <2>2, <3>1, OtherInStep DEF clientVars
  <2>5. CASE RemoveClient(c) /\ UNCHANGED <<payloadSize, message, taken, ran, server>>
    BY <2>2, <2>5, OtherInStep DEF TypeOK, RemoveClient, clientVars
  <2>6. CASE /\ d = c
             /\ state[c] = "READING_HEADER"
             /\ sent[c] - taken[c] >= HeaderSize
             /\ ReadHeader(c, sent[c] - taken[c])
    <3>1. taken[c] = 0 /\ ran[c] = 0 /\ payloadSize'[c] = Size[command[c]]
      BY <2>6 DEF TypeOK, ReadInStep, ReadHeader
    <3>2. CASE ReadPayload(c, taken[c] + HeaderSize)
               /\ payloadSize'[c] <= sent[c] - taken[c] - HeaderSize
      BY <2>2, <2>6, <3>1, <3>2, PayloadInStep DEF TypeOK, HeaderSize
    <3>3. CASE /\ state' = [state EXCEPT ![c] = "READING_PAYLOAD"]
               /\ taken' = [taken EXCEPT ![c] = @ + HeaderSize]
               /\ UNCHANGED <<message, ran, server>>
      BY <2>2, <2>6, <3>1, <3>3 DEF TypeOK, ReadInStep, Total, HeaderSize, clientVars
    <3>4. QED
      BY <2>6, <3>2, <3>3 DEF ReadHeader
  <2>7. CASE /\ d = c
             /\ state[c] = "READING_PAYLOAD"
             /\ sent[c] - taken[c] >= payloadSize[c]
             /\ UNCHANGED payloadSize /\ ReadPayload(c, taken[c])
    <3>1. taken[c] = HeaderSize /\ ran[c] = 0 /\ payloadSize'[c] = Size[command[c]]
      BY <2>7 DEF ReadInStep
    <3>2. taken[c] + payloadSize'[c] <= sent[c]
      BY <2>7 DEF TypeOK
    <3>3. QED
      BY <2>2, <2>7, <3>1, <3>2, PayloadInStep DEF HeaderSize
  <2>8. CASE UNCHANGED <<state, payloadSize, message, taken, ran, server>>
    BY <2>2, <2>8, OtherInStep DEF clientVars
  <2>9. QED
    BY <2>3, <2>4, <2>5, <2>6, <2>7, <2>8
<1>5. ASSUME NEW e \in pending, HandleWriteable(e)
      PROVE  ReadInStep(d)'
  <2> DEFINE c == e.client
  <2>0. e \in Events /\ e.source = "writable" /\ state[c] \in Connected
    BY <1>0, <1>5 DEF HandleWriteable, TypeOK
  <2>1. c \in Clients /\ state[c] # "none"
    BY <2>0 DEF Events, Connected
  <2>2. UNCHANGED <<clientVars, payloadSize, message, taken, fds, ran>>
    BY <1>5 DEF HandleWriteable
  <2>3. \/ RemoveClient(c) /\ UNCHANGED <<reply, server>>
        \/ Answer(c)
    BY <1>5, Zenon DEF HandleWriteable
  <2> HIDE DEF c
  <2> USE <1>0, <2>1
  <2>4. state'[d] \in {state[d], "removed"} /\ (state[d] = "none" => state'[d] = "none")
    BY <2>3 DEF TypeOK, Answer, RemoveClient, AllRemoved
  <2>5. reply'[d] = reply[d] \/ reply'[d].bytes = HeaderSize
    BY <2>3 DEF TypeOK, Answer, WrittenReply
  <2>6. QED
    BY <2>2, <2>4, <2>5 DEF ReadInStep, Total, clientVars
<1>6. QED
  BY <1>1, <1>2, <1>3, <1>4, <1>5 DEF Dispatch

-----------------------------------------------------------------------------

LEMMA NextCases ==
    ASSUME Next
    PROVE  \/ \E c \in Clients : Open(c) \/ Die(c) \/ ClientStep(c)
           \/ Poll \/ Dispatch \/ Signal \/ Stop
BY Zenon DEF Next, Dispatch, ClientStep

LEMMA InvariantHolds == Spec => []IInv
<1>1. Init => IInv
  BY CommandsAssumption DEF Init, IInv, TypeOK, ReadInStep, Events, Garbage, Total, HeaderSize
<1>2. IInv /\ [Next]_vars => IInv'
  <2> SUFFICES ASSUME IInv, [Next]_vars PROVE IInv'
    OBVIOUS
  <2>1. CASE Next
    <3>1. TypeOK'
      BY <2>1, NextCases, ClientTypes, ServerTypes, Zenon
    <3>2. ASSUME NEW d \in Clients PROVE ReadInStep(d)'
      BY <2>1, <3>1, NextCases, ClientInStep, ServerInStep, Zenon
    <3>3. QED
      BY <3>1, <3>2 DEF IInv
  <2>2. CASE UNCHANGED vars
    BY <2>2 DEF IInv, TypeOK, ReadInStep, Total, vars, clientVars, connVars
  <2>3. QED
    BY <2>1, <2>2
<1>3. QED
  BY <1>1, <1>2, PTL DEF Spec

\* The type invariant.
THEOREM TypeCorrect == Spec => []TypeOK
<1>1. IInv => TypeOK
  BY DEF IInv
<1>2. QED
  BY <1>1, InvariantHolds, PTL

\* However the header and the payload arrive, handle_client_readable runs a
\* command only on all of its bytes.
THEOREM CommandsRunWhole == Spec => []RunsWhole
<1>1. IInv => RunsWhole
  BY DEF IInv, ReadInStep, RunsWhole
<1>2. QED
  BY <1>1, InvariantHolds, PTL

-----------------------------------------------------------------------------
(* The connection implements the promise of IpcRequest *)

\* A step of a client asks, or ends, or changes nothing the promise is about.
LEMMA ClientImplements ==
    ASSUME IInv, NEW c \in Clients, Open(c) \/ Die(c) \/ ClientStep(c)
    PROVE  [Request!Next]_Request!vars
<1>0. TypeOK /\ ReadInStep(c)
  BY DEF IInv
<1>1. ran' = ran /\ (command' = command \/ Open(c))
  BY DEF Open, Die, ClientStep, SigPipe, Write, ReceiveHeader, ReceiveBody, connVars
<1>2. ASSUME ~ HungUp(c), command' = command, NEW result, pc' = [pc EXCEPT ![c] = result],
             result \in Gone
      PROVE  Request!End(c)
  <2>1. {d \in Clients : HungUp(d)}' = {d \in Clients : HungUp(d)} \cup {c}
    BY <1>0, <1>2 DEF TypeOK, HungUp
  <2>2. QED
    BY <1>1, <1>2, <2>1 DEF Request!End
<1>3. CASE Open(c) /\ server = "down"
  BY <1>0, <1>2, <1>3 DEF Open, HungUp, Gone, Request!Next
<1>4. CASE Open(c) /\ server # "down"
  <2>1. command[c] = NoCommand /\ ~ HungUp(c)
    BY <1>0, <1>4 DEF Open, ReadInStep, HungUp, Gone
  <2>2. {d \in Clients : HungUp(d)}' = {d \in Clients : HungUp(d)}
    BY <1>0, <1>4 DEF Open, TypeOK, HungUp, Gone
  <2>3. \E m \in Commands : command' = [command EXCEPT ![c] = m]
    BY <1>4, Zenon DEF Open
  <2>4. Request!Ask(c)
    BY <1>1, <2>1, <2>2, <2>3 DEF Request!Ask
  <2>5. QED
    BY <2>4 DEF Request!Next
<1>5. CASE Die(c) \/ SigPipe(c)
  BY <1>2, <1>5 DEF Die, SigPipe, HungUp, Gone, Waiting, Request!Next
<1>6. ASSUME command' = command, NEW result, pc' = [pc EXCEPT ![c] = result],
             ~ HungUp(c), result \notin Gone
      PROVE  UNCHANGED Request!vars
  BY <1>0, <1>1, <1>6 DEF TypeOK, HungUp, Request!vars
<1>7. CASE Write(c)
  <2>1. \E result \in {"header", "sending"} : pc' = [pc EXCEPT ![c] = result]
    BY <1>7 DEF Write
  <2>2. command' = command /\ ~ HungUp(c)
    BY <1>7 DEF Write, HungUp, Gone
  <2>3. QED
    BY <1>6, <2>1, <2>2 DEF Gone
<1>8. CASE ReceiveHeader(c)
  <2>1. command' = command /\ ~ HungUp(c)
    BY <1>8 DEF ReceiveHeader, HungUp, Gone
  <2>2. \E result \in {"body", "done"} : pc' = [pc EXCEPT ![c] = result]
    BY <1>8 DEF ReceiveHeader, Return
  <2>3. QED
    BY <1>2, <1>6, <2>1, <2>2 DEF Gone, Request!Next
<1>9. CASE ReceiveBody(c)
  <2>1. command' = command /\ ~ HungUp(c) /\ pc' = [pc EXCEPT ![c] = "done"]
    BY <1>9 DEF ReceiveBody, Return, HungUp, Gone
  <2>2. QED
    BY <1>2, <2>1 DEF Gone, Request!Next
<1>10. QED
  BY <1>3, <1>4, <1>5, <1>7, <1>8, <1>9 DEF ClientStep

\* Reading a payload runs its command, once, or refuses it.
LEMMA PayloadImplements ==
    ASSUME IInv, NEW c \in Clients, NEW start, command[c] \in Commands, ran[c] = 0,
           ReadPayload(c, start), UNCHANGED clientVars
    PROVE  [Request!Next]_Request!vars
<1>1. command' = command /\ {d \in Clients : HungUp(d)}' = {d \in Clients : HungUp(d)}
  BY DEF clientVars, HungUp
<1>2. CASE command[c] \in Malformed
  BY <1>1, <1>2 DEF IInv, TypeOK, ReadPayload, Request!vars
<1>3. CASE command[c] \notin Malformed
  <2>1. Request!Run(c)
    BY <1>1, <1>3 DEF IInv, TypeOK, ReadPayload, Request!Run
  <2>2. QED
    BY <2>1 DEF Request!Next
<1>4. QED
  BY <1>2, <1>3

LEMMA ServerImplements ==
    ASSUME IInv, Poll \/ Dispatch \/ Signal \/ Stop
    PROVE  [Request!Next]_Request!vars
<1>0. TypeOK /\ \A c \in Clients : ReadInStep(c)
  BY DEF IInv
<1>1. UNCHANGED clientVars
  BY DEF Poll, Signal, Stop, Dispatch, Dropped, HandleConnection, HandleReadable, HandleWriteable
<1>2. CASE ran' = ran
  BY <1>1, <1>2 DEF clientVars, HungUp, Request!vars
<1>3. CASE \E e \in pending : HandleReadable(e)
  <2>1. PICK e \in pending : HandleReadable(e)
    BY <1>3
  <2> DEFINE c == e.client
  <2>2. c \in Clients /\ command[c] \in Commands
    BY <1>0, <2>1 DEF HandleReadable, Events, TypeOK, ReadInStep, Connected
  <2>3. \/ ran' = ran
        \/ /\ state[c] \in {"READING_HEADER", "READING_PAYLOAD"}
           /\ \E start : ReadPayload(c, start)
    BY <2>1 DEF HandleReadable, ReadHeader
  <2>4. state[c] \in {"READING_HEADER", "READING_PAYLOAD"} => ran[c] = 0
    BY <1>0, <2>2 DEF ReadInStep
  <2> HIDE DEF c
  <2>5. QED
    BY <1>1, <1>2, <2>2, <2>3, <2>4, PayloadImplements
<1>4. CASE ~ \E e \in pending : HandleReadable(e)
  <2>1. ran' = ran
    BY <1>4 DEF Poll, Signal, Stop, Dispatch, Dropped, HandleConnection, HandleWriteable, connVars
  <2>2. QED
    BY <1>2, <2>1
<1>5. QED
  BY <1>3, <1>4

\* Every run of the socket is one that IpcRequest allows: a command runs at
\* most once, after it was asked for, and never when it does not parse.
THEOREM ConnectionImplementsRequest == Spec => ImplementsRequest
<1>1. Init => Request!Init
  BY DEF Init, Request!Init, HungUp, Gone
<1>2. IInv /\ [Next]_vars => [Request!Next]_Request!vars
  <2> SUFFICES ASSUME IInv, [Next]_vars PROVE [Request!Next]_Request!vars
    OBVIOUS
  <2>1. CASE Next
    BY <2>1, NextCases, ClientImplements, ServerImplements, Zenon
  <2>2. CASE UNCHANGED vars
    BY <2>2 DEF vars, clientVars, connVars, HungUp, Request!vars
  <2>3. QED
    BY <2>1, <2>2
<1>3. QED
  BY <1>1, <1>2, InvariantHolds, PTL DEF Spec, ImplementsRequest, Request!Spec
=============================================================================
