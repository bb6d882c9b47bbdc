------------------------- MODULE OpenflowConnection -------------------------
(***************************************************************************)
(* One OpenFlow connection (openflow_connection.cpp): the chain of reads,  *)
(* the queue of messages and the chain of writes that empties it, the echo *)
(* timer, and what happens to them when the connection fails, is stopped   *)
(* and, for a virtual switch, is set up again with the same object.        *)
(*                                                                         *)
(* Handlers are the steps of the boost::asio loop.  An operation completes *)
(* (its handler is queued in "ready") before its handler runs; closing the *)
(* socket completes what is pending with operation_aborted, and leaves     *)
(* what had completed before in the queue.                                 *)
(*                                                                         *)
(* A message is its number in the order of the calls of send_message.      *)
(***************************************************************************)
EXTENDS Integers, Sequences, FiniteSets

CONSTANTS
  MaxMessages,  \* bound on the messages sent
  MaxReady,     \* bound on the completions that queue up
  MaxSessions   \* bound on the times one object connects

ASSUME ConnectionAssumption ==
  MaxMessages \in Nat /\ MaxReady \in Nat /\ MaxSessions \in Nat

VARIABLES
  c,         \* the connection object and its socket, a record (see TypeOK)
  ready,     \* completions whose handlers have not run yet
  wire,      \* the messages handed to the network on the current socket
  accepted,  \* number of messages given to send_message
  stuck      \* the handler waits for a mutex it holds: the loop hangs

vars == <<c, ready, wire, accepted, stuck>>

WriteCompletions == {"written", "write_failed", "write_aborted"}
Messages         == {"echo_request", "bad_hello", "other"}
ReadCompletions  == Messages \cup {"read_failed"}
Completions      == WriteCompletions \cup ReadCompletions
                      \cup {"echo_due", "connected"}

\* What the object is: a PhysicalSwitch without and with discovered links, or
\* a VirtualSwitch
Kinds == {"switch", "linked_switch", "virtual_switch"}

TypeOK ==
  /\ c \in [kind    : Kinds,
            sock    : {"closed", "connecting", "open", "failed"},
            session : Nat,                  \* how often it has connected
            started : BOOLEAN,              \* start was called since
            queue   : Seq(1 .. accepted),   \* send_queue
            writing : BOOLEAN,              \* async_write of its front waits
            reads   : Nat,                  \* async_reads that wait
            echo    : BOOLEAN]              \* echo_timer waits
  /\ ready \in Seq(Completions)
  /\ wire \in Seq(1 .. accepted)
  /\ accepted \in Nat
  /\ stuck \in BOOLEAN

\* A PhysicalSwitch gets the socket that was accepted, a VirtualSwitch a new one
Init ==
  /\ \E k \in Kinds :
       c = [kind |-> k,
            sock |-> IF k = "virtual_switch" THEN "closed" ELSE "open",
            session |-> IF k = "virtual_switch" THEN 0 ELSE 1,
            started |-> FALSE, queue |-> << >>,
            writing |-> FALSE, reads |-> 0, echo |-> FALSE]
  /\ ready = << >>
  /\ wire = << >>
  /\ accepted = 0
  /\ stuck = FALSE

Virtual     == c.kind = "virtual_switch"
SendsOnStop == c.kind = "linked_switch" /\ c.started

-----------------------------------------------------------------------------
\* Parts of handlers, on a state s = [c, ready, accepted] of the object

Current(queued) == [c |-> c, ready |-> queued, accepted |-> accepted]

Done(s, what) == [s EXCEPT !.ready = Append(@, what)]

\* send_message_queue_head: async_write of the front of the queue
WriteHead(s) ==
  CASE s.c.sock \in {"open", "connecting"} -> [s EXCEPT !.c.writing = TRUE]
    [] s.c.sock = "failed" -> Done(s, "write_failed")
    [] s.c.sock = "closed" -> Done(s, "write_aborted")

\* Seeded bugs: a message gets the number of the one before it, every message
\* starts a write, or a new message overtakes the queue
SendMessageReusesNumber(s) ==
  LET q == [s EXCEPT !.c.queue = Append(@, s.accepted), !.accepted = @ + 1]
  IN  IF s.c.queue = << >> THEN WriteHead(q) ELSE q

SendMessageAlwaysWrites(s) ==
  WriteHead([s EXCEPT !.c.queue = Append(@, s.accepted + 1), !.accepted = @ + 1])

SendMessageOvertakes(s) ==
  LET q == [s EXCEPT !.c.queue = <<s.accepted + 1>> \o @, !.accepted = @ + 1]
  IN  IF s.c.queue = << >> THEN WriteHead(q) ELSE q

\* send_message_response, which starts the chain of writes if nothing is queued
SendMessage(s) ==
  LET q == [s EXCEPT !.c.queue = Append(@, s.accepted + 1), !.accepted = @ + 1]
  IN  IF s.c.queue = << >> THEN WriteHead(q) ELSE q

\* start_receive_message: async_read of the next header
StartReceive(s) ==
  CASE s.c.sock \in {"open", "connecting"} -> [s EXCEPT !.c.reads = @ + 1]
    [] s.c.sock = "failed" -> Done(s, "read_failed")
    [] s.c.sock = "closed" -> s

\* OpenflowConnection::start: listen, schedule the echo, say hello
StartConnection(s) ==
  SendMessage([StartReceive(s) EXCEPT !.c.echo = TRUE, !.c.started = TRUE])

\* OpenflowConnection::stop; of the aborted handlers only that of the write
\* has work to do
Close(s) ==
  LET t == IF s.c.writing THEN Done(s, "write_aborted") ELSE s
  IN  [t EXCEPT !.c.sock = "closed", !.c.writing = FALSE, !.c.reads = 0,
                !.c.echo = FALSE, !.c.started = FALSE]

\* VirtualSwitch::try_connect
Connect(s) == [s EXCEPT !.c.sock = "connecting", !.c.session = @ + 1]

\* The virtual function stop.  PhysicalSwitch::stop first stops the links of
\* the switch, which changes rules of the switch; VirtualSwitch::stop connects
\* again at once if the connection was up.
Stop(s) ==
  LET t == Close(IF SendsOnStop THEN SendMessage(s) ELSE s)
  IN  IF Virtual /\ s.c.started THEN Connect(t) ELSE t

Becomes(s) ==
  /\ c' = s.c
  /\ ready' = s.ready
  /\ accepted' = s.accepted
  /\ wire' = IF s.c.sock \in {"closed", "connecting"} THEN << >> ELSE wire

-----------------------------------------------------------------------------
\* The network and the timer

MaySend == accepted < MaxMessages
Event   == ~stuck /\ Len(ready) < MaxReady

WriteCompletes ==
  /\ Event /\ c.sock = "open" /\ c.writing
  /\ c' = [c EXCEPT !.writing = FALSE]
  /\ wire' = Append(wire, Head(c.queue))
  /\ ready' = Append(ready, "written")
  /\ UNCHANGED <<accepted, stuck>>

MessageArrives(kind) ==
  /\ Event /\ c.sock = "open" /\ c.reads > 0
  /\ kind # "other" => MaySend
  /\ c' = [c EXCEPT !.reads = @ - 1]
  /\ ready' = Append(ready, kind)
  /\ UNCHANGED <<wire, accepted, stuck>>

\* The peer closes its side: the read fails, writes still work
PeerCloses ==
  /\ Event /\ c.sock = "open" /\ c.reads > 0
  /\ c' = [c EXCEPT !.reads = @ - 1]
  /\ ready' = Append(ready, "read_failed")
  /\ UNCHANGED <<wire, accepted, stuck>>

\* The connection is reset: everything that waits on the socket fails
ConnectionBreaks ==
  /\ Event /\ c.sock = "open"
  /\ c' = [c EXCEPT !.sock = "failed", !.writing = FALSE, !.reads = 0]
  /\ ready' = ready \o (IF c.writing THEN <<"write_failed">> ELSE << >>)
                    \o [i \in 1 .. c.reads |-> "read_failed"]
  /\ UNCHANGED <<wire, accepted, stuck>>

EchoExpires ==
  /\ Event /\ c.echo /\ MaySend
  /\ c' = [c EXCEPT !.echo = FALSE]
  /\ ready' = Append(ready, "echo_due")
  /\ UNCHANGED <<wire, accepted, stuck>>

ConnectSucceeds ==
  /\ Event /\ c.sock = "connecting" /\ MaySend
  /\ c' = [c EXCEPT !.sock = "open"]
  /\ ready' = Append(ready, "connected")
  /\ UNCHANGED <<wire, accepted, stuck>>

-----------------------------------------------------------------------------
\* Handlers of other objects

\* PhysicalSwitch::start, called by handle_accept
Start ==
  /\ ~stuck /\ ~Virtual /\ ~c.started /\ c.sock # "closed" /\ MaySend
  /\ Becomes(StartConnection(Current(ready)))
  /\ UNCHANGED stuck

\* A message is sent over this connection.  A physical switch is found only
\* until it is stopped; packet-ins are sent to a virtual switch in any state.
Send ==
  /\ ~stuck /\ MaySend
  /\ Virtual \/ c.started
  /\ Becomes(SendMessage(Current(ready)))
  /\ UNCHANGED stuck

\* check_online takes a virtual switch down, and up again later
GoDown ==
  /\ ~stuck /\ Virtual /\ c.sock # "closed"
  /\ Becomes(Close(Current(ready)))
  /\ UNCHANGED stuck

TryConnect ==
  /\ ~stuck /\ Virtual /\ c.sock = "closed" /\ c.session < MaxSessions
  /\ Becomes(Connect(Current(ready)))
  /\ UNCHANGED stuck

-----------------------------------------------------------------------------
\* Handlers of this object

Pending(what) == ~stuck /\ ready # << >> /\ Head(ready) = what
Handled       == Current(Tail(ready))

Popped == [Handled EXCEPT !.c.queue = Tail(@)]

\* A seeded bug: the next message is not sent
HandleWrittenStops ==
  /\ Pending("written")
  /\ Becomes(Popped)
  /\ UNCHANGED stuck

\* handle_send_message without an error
HandleWritten ==
  /\ Pending("written")
  /\ Becomes(IF Popped.c.queue = << >> THEN Popped ELSE WriteHead(Popped))
  /\ UNCHANGED stuck

\* handle_send_message with operation_aborted or bad_descriptor
HandleWriteAborted ==
  /\ Pending("write_aborted")
  /\ Becomes(Popped)
  /\ UNCHANGED stuck

\* handle_send_message with another error holds send_queue_mutex while it
\* calls stop: a stop that sends on this connection waits for itself
HandleWriteFailed ==
  /\ Pending("write_failed")
  /\ stuck' = SendsOnStop
  /\ IF SendsOnStop
     THEN /\ ready' = Tail(ready)
          /\ UNCHANGED <<c, wire, accepted>>
     ELSE Becomes(Stop(Popped))

HandleReadFailed ==
  /\ Pending("read_failed")
  /\ Becomes(Stop(Handled))
  /\ UNCHANGED stuck

\* receive_body with handle_echo_request or handle_hello, or with a handler of
\* the subclass that changes nothing here; then the next read is started
HandleMessage(kind) ==
  /\ Pending(kind)
  /\ Becomes(StartReceive(
       CASE kind = "echo_request" -> SendMessage(Handled)
         [] kind = "bad_hello"    -> Stop(SendMessage(Handled))
         [] kind = "other"        -> Handled))
  /\ UNCHANGED stuck

\* A seeded bug: the next echo is not scheduled
HandleEchoDueOnce ==
  /\ Pending("echo_due")
  /\ Becomes(SendMessage(Handled))
  /\ UNCHANGED stuck

\* send_echo_message
HandleEchoDue ==
  /\ Pending("echo_due")
  /\ Becomes([SendMessage(Handled) EXCEPT !.c.echo = TRUE])
  /\ UNCHANGED stuck

\* VirtualSwitch::handle_connect and start
HandleConnected ==
  /\ Pending("connected")
  /\ Becomes(IF c.started \/ c.sock = "closed" THEN Handled
             ELSE StartConnection(Handled))
  /\ UNCHANGED stuck

-----------------------------------------------------------------------------
HandleWrite == HandleWritten \/ HandleWriteAborted \/ HandleWriteFailed

HandleRead == HandleReadFailed \/ \E kind \in Messages : HandleMessage(kind)

Handle == HandleWrite \/ HandleRead \/ HandleEchoDue \/ HandleConnected

Next ==
  \/ WriteCompletes \/ PeerCloses \/ ConnectionBreaks
  \/ EchoExpires \/ ConnectSucceeds
  \/ \E kind \in Messages : MessageArrives(kind)
  \/ Start \/ Send \/ GoDown \/ TryConnect
  \/ Handle

Spec == Init /\ [][Next]_vars

\* The loop runs every handler that is ready, and the network takes what is
\* written to an open socket.
FairSpec == Spec /\ WF_vars(Handle) /\ WF_vars(WriteCompletes)

-----------------------------------------------------------------------------
\* Properties

Count(kinds) == Cardinality({i \in 1 .. Len(ready) : ready[i] \in kinds})

\* At most one write is under way, and while one is or its handler is queued
\* its message is still in send_queue: the pop of handle_send_message never
\* meets an empty queue, and async_write never runs twice at once.
OneWriter ==
  LET writes == Count(WriteCompletions) + (IF c.writing THEN 1 ELSE 0)
  IN  writes <= 1 /\ (writes = 1 => c.queue # << >>)

\* While messages are queued on a connection that is up, one is being sent
\* (openflow_connection.cpp:512-515): otherwise all of them wait forever.
ChainAlive ==
  c.sock = "open" /\ c.queue # << >> =>
    c.writing \/ Count(WriteCompletions) = 1

\* The same for physical switches, whose object connects only once.
SwitchChainAlive == ~Virtual => ChainAlive

\* Until the connection of a switch fails the messages sent are on the wire,
\* in the order of the calls, each once; the others wait in that order.
InOrder ==
  ~Virtual /\ c.sock = "open" =>
    wire \o (IF Count({"written"}) = 1 THEN Tail(c.queue) ELSE c.queue)
      = [i \in 1 .. accepted |-> i]

\* A switch connection that is up has one read and one echo under way: it
\* notices that the peer is gone, and never reads into message_buffer twice.
OneReader ==
  ~Virtual /\ c.started /\ ~stuck =>
    /\ c.reads + Count(ReadCompletions) = 1
    /\ Count({"echo_due"}) + (IF c.echo THEN 1 ELSE 0) = 1

\* A message sent to a switch leaves, unless the connection does not stay.
Delivered ==
  \A n \in 1 .. MaxMessages :
    n <= accepted /\ ~Virtual /\ c.sock = "open"
      ~> (\E i \in 1 .. Len(wire) : wire[i] = n) \/ c.sock # "open"

\* A connection that the other side gives up is stopped
\* (openflow_connection.cpp:35), which ends and does not hang the loop.
StopReturns == ~stuck
=============================================================================
