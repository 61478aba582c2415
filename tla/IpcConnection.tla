--------------------------- MODULE IpcConnection ---------------------------
(***************************************************************************)
(* The command socket: the event loop callbacks of IPC.cpp on one side,    *)
(* programs that call libcardboard's client.cpp once on the other, with    *)
(* the bytes of the two streams between them.                              *)
(*                                                                         *)
(* A client sends the HeaderSize bytes of the header, then the payload the *)
(* header announces; of the bytes only their positions in the stream are   *)
(* kept.  epoll reports the events of all the sources at once, and the     *)
(* callbacks run on what it reported: a client may die in between.  Sockets *)
(* of clients block, because handle_client_connection passes F_GETFL where *)
(* it means F_SETFL: the EAGAIN branch of handle_client_writeable is never *)
(* taken.  WL_EVENT_ERROR is treated as WL_EVENT_HANGUP.                   *)
(***************************************************************************)
EXTENDS Integers, FiniteSets

CONSTANTS
    Clients,
    Commands,
    NoCommand,
    Malformed,    \* commands whose payload read_command_data refuses
    Quits,        \* commands that end the compositor
    Size,         \* bytes of each command's payload
    ReplySize,    \* bytes of the message each command results in
    MaxFds        \* accept fails when this many descriptors are open

ASSUME CommandsAssumption ==
    /\ NoCommand \notin Commands
    /\ Malformed \subseteq Commands
    /\ Quits \subseteq Commands \ Malformed
    /\ Size \in [Commands -> Nat \ {0}]
    /\ ReplySize \in [Commands -> Nat]
    /\ MaxFds \in Nat

HeaderSize == 4

Garbage == -1    \* an int made of characters, larger than any reply

VARIABLES
    \* the clients
    pc,           \* where a client is between open_client and its return
    command,      \* what it sends
    sent,         \* bytes of header and payload it has written
    outcome,      \* what wait_response has returned
    \* IPC::clients, and the event sources
    state,        \* Client::state, and the connection before and after
    payloadSize,  \* Client::payload_size
    message,      \* size of Client::message, 0 when it is empty
    taken,        \* bytes received from the client
    pending,      \* the events epoll_wait has reported, not yet dispatched
    fds,          \* descriptors accept has returned
    \* the rest
    reply,        \* bytes on their way to the client, and the size that the
                  \* first HeaderSize of them announce
    server,       \* the compositor's main loop
    ran           \* how many times each client's command has been run

clientVars == <<pc, command, sent, outcome>>
connVars == <<state, payloadSize, message, taken, fds, reply, ran>>
vars == <<clientVars, connVars, pending, server>>

Connected == {"READING_HEADER", "READING_PAYLOAD", "WRITING"}
Waiting == {"header", "body"}
Gone == {"done", "killed"}
Events == [source: {"listen"}] \cup
          [source: {"readable", "writable"}, client: Clients, hup: BOOLEAN]

TypeOK ==
    /\ pc \in [Clients -> {"idle", "sending"} \cup Waiting \cup Gone]
    /\ command \in [Clients -> Commands \cup {NoCommand}]
    /\ sent \in [Clients -> Nat]
    /\ outcome \in [Clients -> {"none", "empty", "message", "error"}]
    /\ state \in [Clients -> {"none", "backlog", "removed"} \cup Connected]
    /\ payloadSize \in [Clients -> Nat]
    /\ message \in [Clients -> Nat]
    /\ taken \in [Clients -> Nat]
    /\ pending \in SUBSET Events
    /\ fds \in 0..MaxFds
    /\ reply \in [Clients -> [bytes: Nat, announced: Nat \cup {Garbage}]]
    /\ server \in {"running", "terminated", "down"}
    /\ ran \in [Clients -> Nat]

Init ==
    /\ pc = [c \in Clients |-> "idle"]
    /\ command = [c \in Clients |-> NoCommand]
    /\ sent = [c \in Clients |-> 0]
    /\ outcome = [c \in Clients |-> "none"]
    /\ state = [c \in Clients |-> "none"]
    /\ payloadSize = [c \in Clients |-> 0]
    /\ message = [c \in Clients |-> 0]
    /\ taken = [c \in Clients |-> 0]
    /\ pending = {}
    /\ fds = 0
    /\ reply = [c \in Clients |-> [bytes |-> 0, announced |-> 0]]
    /\ server = "running"
    /\ ran = [c \in Clients |-> 0]

-----------------------------------------------------------------------------
(* Programs that use libcardboard *)

Total(c) == HeaderSize + Size[command[c]]

\* The client's end of the connection is closed, by ~Client or by its death.
HungUp(c) == pc[c] \in Gone

\* open_client; connect succeeds before the compositor accepts.
Open(c) ==
    /\ pc[c] = "idle"
    /\ IF server = "down"
       THEN /\ pc' = [pc EXCEPT ![c] = "done"]
            /\ outcome' = [outcome EXCEPT ![c] = "error"]
            /\ UNCHANGED <<command, state>>
       ELSE /\ \E m \in Commands : command' = [command EXCEPT ![c] = m]
            /\ pc' = [pc EXCEPT ![c] = "sending"]
            /\ state' = [state EXCEPT ![c] = "backlog"]
            /\ UNCHANGED outcome
    /\ UNCHANGED <<sent, payloadSize, message, taken, fds, reply, ran, pending, server>>

\* The two writes of Client::send_command; the stream takes what it has room
\* for.
Write(c) ==
    /\ pc[c] = "sending"
    /\ state[c] # "removed"
    /\ \E n \in 1..((IF sent[c] < HeaderSize THEN HeaderSize ELSE Total(c)) - sent[c]) :
          /\ sent' = [sent EXCEPT ![c] = @ + n]
          /\ pc' = [pc EXCEPT ![c] = IF sent'[c] = Total(c) THEN "header" ELSE @]
    /\ UNCHANGED <<command, outcome, connVars, pending, server>>

\* A client that dies, of a SIGPIPE too when it writes after a shutdown.
Die(c) ==
    /\ pc[c] \in {"sending"} \cup Waiting
    /\ pc' = [pc EXCEPT ![c] = "killed"]
    /\ UNCHANGED <<command, sent, outcome, connVars, pending, server>>

SigPipe(c) == pc[c] = "sending" /\ state[c] = "removed" /\ Die(c)

Return(c, result) ==
    /\ pc' = [pc EXCEPT ![c] = "done"]
    /\ outcome' = [outcome EXCEPT ![c] = result]

Consume(c, n) ==
    reply' = [reply EXCEPT ![c] = [bytes |-> @.bytes - n, announced |-> @.announced]]

\* Client::wait_response up to the size of the reply.  At the end of the
\* stream it looks at the errno of some earlier call.
ReceiveHeader(c) ==
    /\ pc[c] = "header"
    /\ IF reply[c].bytes > 0
       THEN /\ Consume(c, HeaderSize)
            /\ IF reply[c].announced = 0 THEN Return(c, "empty")
               ELSE pc' = [pc EXCEPT ![c] = "body"] /\ UNCHANGED outcome
       ELSE /\ state[c] = "removed"
            /\ \E result \in {"error", "empty"} : Return(c, result)
            /\ UNCHANGED reply
    /\ UNCHANGED <<command, sent, state, payloadSize, message, taken, fds, ran, pending, server>>

\* The rest of it, which asks for sizeof(int) bytes whatever the size.
ReceiveBody(c) ==
    LET got == IF reply[c].bytes < HeaderSize THEN reply[c].bytes ELSE HeaderSize
    IN /\ pc[c] = "body"
       /\ got > 0 \/ state[c] = "removed"
       /\ Return(c, IF got = reply[c].announced THEN "message" ELSE "error")
       /\ Consume(c, got)
       /\ UNCHANGED <<command, sent, state, payloadSize, message, taken, fds, ran, pending, server>>

-----------------------------------------------------------------------------
(* The compositor's event loop *)

\* What epoll_wait finds; a source is level triggered.
Ready ==
    {e \in Events :
        CASE e.source = "listen"   -> \E c \in Clients : state[c] = "backlog"
          [] e.source = "readable" -> /\ state[e.client] \in Connected
                                      /\ HungUp(e.client) \/ sent[e.client] > taken[e.client]
                                      /\ e.hup = HungUp(e.client)
          [] e.source = "writable" -> /\ state[e.client] = "WRITING"
                                      /\ e.hup = HungUp(e.client)}

Poll ==
    /\ server = "running"
    /\ pending = {}
    /\ Ready # {}
    /\ pending' = Ready
    /\ UNCHANGED <<clientVars, connVars, server>>

\* The event is taken off the list; one whose source has been removed since
\* is dropped.
Take(e) == e \in pending /\ pending' = pending \ {e} /\ server # "down"

Dropped(e) ==
    /\ Take(e)
    /\ e.source # "listen"
    /\ state[e.client] = "removed"
    /\ UNCHANGED <<clientVars, connVars, server>>

\* IPC::handle_client_connection
HandleConnection(e) ==
    /\ Take(e)
    /\ e.source = "listen"
    /\ IF fds = MaxFds
       THEN UNCHANGED <<state, fds>>
       ELSE /\ \E c \in Clients :
                  /\ state[c] = "backlog"
                  /\ state' = [state EXCEPT ![c] = "READING_HEADER"]
            /\ fds' = fds + 1
    /\ UNCHANGED <<clientVars, payloadSize, message, taken, reply, ran, server>>

\* IPC::remove_client and Client::~Client.  The descriptor is shut down and
\* not closed.
RemoveClient(c) == state' = [state EXCEPT ![c] = "removed"]

\* Mutant: a payload that does not parse is run all the same.
ReadPayloadUnparsed(c, start) ==
    /\ taken' = [taken EXCEPT ![c] = start + payloadSize'[c]]
    /\ state' = [state EXCEPT ![c] = "WRITING"]
    /\ message' = [message EXCEPT ![c] = ReplySize[command[c]]]
    /\ ran' = [ran EXCEPT ![c] = @ + 1]
    /\ UNCHANGED server

\* The case READING_PAYLOAD once the payload is there: parse, run, and wait
\* until the reply can be written.
ReadPayload(c, start) ==
    LET m == command[c]
    IN /\ taken' = [taken EXCEPT ![c] = start + payloadSize'[c]]
       /\ state' = [state EXCEPT ![c] = "WRITING"]
       /\ message' = [message EXCEPT ![c] = ReplySize[m]]
       /\ ran' = [ran EXCEPT ![c] = IF m \in Malformed THEN @ ELSE @ + 1]
       /\ server' = IF m \in Quits THEN "terminated" ELSE server

\* Mutant: what the header took is not subtracted from what is available.
ReadHeaderStale(c, available) ==
    /\ payloadSize' = [payloadSize EXCEPT ![c] = Size[command[c]]]
    /\ IF payloadSize'[c] <= available
       THEN ReadPayload(c, taken[c] + HeaderSize)
       ELSE /\ state' = [state EXCEPT ![c] = "READING_PAYLOAD"]
            /\ taken' = [taken EXCEPT ![c] = @ + HeaderSize]
            /\ UNCHANGED <<message, ran, server>>

\* Mutant: the size announced is taken to count the header.
ReadHeaderInclusive(c, available) ==
    /\ payloadSize' = [payloadSize EXCEPT ![c] = Size[command[c]] - HeaderSize]
    /\ state' = [state EXCEPT ![c] = "READING_PAYLOAD"]
    /\ taken' = [taken EXCEPT ![c] = @ + HeaderSize]
    /\ UNCHANGED <<message, ran, server>>

\* The case READING_HEADER once the header is there; it goes on to the
\* payload if that is there too.
ReadHeader(c, available) ==
    /\ payloadSize' = [payloadSize EXCEPT ![c] = Size[command[c]]]
    /\ IF payloadSize'[c] <= available - HeaderSize
       THEN ReadPayload(c, taken[c] + HeaderSize)
       ELSE /\ state' = [state EXCEPT ![c] = "READING_PAYLOAD"]
            /\ taken' = [taken EXCEPT ![c] = @ + HeaderSize]
            /\ UNCHANGED <<message, ran, server>>

\* IPC::handle_client_readable
HandleReadable(e) ==
    LET c == e.client
        available == sent[c] - taken[c]
    IN /\ Take(e)
       /\ e.source = "readable"
       /\ state[c] \in Connected
       /\ \/ e.hup /\ RemoveClient(c) /\ UNCHANGED <<payloadSize, message, taken, ran, server>>
          \/ /\ ~e.hup /\ state[c] = "READING_HEADER" /\ available >= HeaderSize
             /\ ReadHeader(c, available)
          \/ /\ ~e.hup /\ state[c] = "READING_PAYLOAD" /\ available >= payloadSize[c]
             /\ UNCHANGED payloadSize
             /\ ReadPayload(c, taken[c])
          \/ /\ ~e.hup
             /\ \/ state[c] = "READING_HEADER" /\ available < HeaderSize
                \/ state[c] = "READING_PAYLOAD" /\ available < payloadSize[c]
                \/ state[c] = "WRITING"
             /\ UNCHANGED <<state, payloadSize, message, taken, ran, server>>
       /\ UNCHANGED <<clientVars, fds, reply>>

\* The buffer handle_client_writeable writes for a message of n characters:
\* it has HeaderSize bytes, and the message is copied over the header in it.
WrittenReply(n) == [bytes |-> HeaderSize, announced |-> IF n = 0 THEN 0 ELSE Garbage]

\* What the end of the compositor does to every connection.
AllRemoved == state' = [c \in Clients |-> IF state[c] = "none" THEN "none" ELSE "removed"]

\* Mutant: the client of an empty reply is forgotten, not removed.
AnswerUnlessEmpty(c) ==
    /\ message[c] # 0
    /\ RemoveClient(c)
    /\ UNCHANGED server
    /\ reply' = IF HungUp(c) THEN reply ELSE [reply EXCEPT ![c] = WrittenReply(message[c])]

\* The part of handle_client_writeable after the masks.  A message longer
\* than the buffer is copied past its end, which the compositor may survive.
Answer(c) ==
    /\ reply' = IF message[c] = 0 \/ HungUp(c) THEN reply
                ELSE [reply EXCEPT ![c] = WrittenReply(message[c])]
    /\ \/ RemoveClient(c) /\ UNCHANGED server
       \/ message[c] > HeaderSize /\ server' = "down" /\ AllRemoved

\* IPC::handle_client_writeable
HandleWriteable(e) ==
    LET c == e.client
    IN /\ Take(e)
       /\ e.source = "writable"
       /\ state[c] \in Connected
       /\ IF e.hup THEN RemoveClient(c) /\ UNCHANGED <<reply, server>>
          ELSE Answer(c)
       /\ UNCHANGED <<clientVars, payloadSize, message, taken, fds, ran>>

\* Server::teardown from a signal
Signal ==
    /\ server = "running"
    /\ server' = "terminated"
    /\ UNCHANGED <<clientVars, connVars, pending>>

\* wl_display_run returns after the events it has collected; Server::stop
\* releases the IPC.
Stop ==
    /\ server = "terminated"
    /\ pending = {}
    /\ server' = "down"
    /\ AllRemoved
    /\ UNCHANGED <<clientVars, payloadSize, message, taken, fds, reply, ran, pending>>

-----------------------------------------------------------------------------

Dispatch ==
    \E e \in pending :
        Dropped(e) \/ HandleConnection(e) \/ HandleReadable(e) \/ HandleWriteable(e)

ClientStep(c) == Write(c) \/ SigPipe(c) \/ ReceiveHeader(c) \/ ReceiveBody(c)

Next ==
    \/ \E c \in Clients : Open(c) \/ Die(c)
    \/ \E c \in Clients : Write(c) \/ SigPipe(c) \/ ReceiveHeader(c) \/ ReceiveBody(c)
    \/ Poll
    \/ \E e \in pending : Dropped(e)
    \/ \E e \in pending : HandleConnection(e)
    \/ \E e \in pending : HandleReadable(e)
    \/ \E e \in pending : HandleWriteable(e)
    \/ Signal
    \/ Stop

Spec == Init /\ [][Next]_vars

\* The event loop runs, and a client that has been started is scheduled.
FairSpec ==
    /\ Spec
    /\ WF_vars(Poll) /\ WF_vars(Dispatch) /\ WF_vars(Stop)
    /\ \A c \in Clients : WF_vars(ClientStep(c))

-----------------------------------------------------------------------------

\* No command runs on part of its bytes, however the stream cuts them up
\* (handle_client_readable), and none that does not parse runs at all.
RunsWhole ==
    \A c \in Clients : ran[c] > 0 => /\ sent[c] = Total(c)
                                      /\ taken[c] = sent[c]
                                      /\ command[c] \notin Malformed

\* Each client is served as IpcRequest promises.
Request == INSTANCE IpcRequest WITH
    asked <- command, runs <- ran, over <- {c \in Clients : HungUp(c)}
ImplementsRequest == Request!Spec

\* wait_response returns: a program that has sent a command is answered, or
\* sees the connection end, whatever becomes of the others and of the
\* compositor.
ClientReturns ==
    \A c \in Clients : pc[c] = "sending" ~> HungUp(c)

\* client.h: wait_response `Waits for a string response from the server'.
\* While the compositor runs, a client that returns has the message its
\* command resulted in.
ReplyDelivered ==
    \A c \in Clients :
        pc[c] = "done" /\ ran[c] > 0 /\ message[c] > 0 /\ server = "running"
            => outcome[c] = "message"
=============================================================================
