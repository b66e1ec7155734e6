-------------------------- MODULE WsConnections --------------------------
(***************************************************************************)
(* The WebSocket side of ocpp-server: for every connection a reader        *)
(* (readPump, which also runs the message's handler) and a writer          *)
(* (writePump) with a bounded channel between them, and the manager, whose *)
(* ping loop writes to the same sockets.                                   *)
(*                                                                         *)
(* A write to a socket is an interval, begun in one step and ended in      *)
(* another, because it may block until the write timeout.  The websocket   *)
(* library allows one writer at a time: when two writes to one socket      *)
(* overlap, the library panics, which nothing recovers, or the frames are  *)
(* damaged, or nothing happens.                                            *)
(*                                                                         *)
(* Requests are numbered per connection.  What the handlers do is in       *)
(* OcppServer; here a handler gives an answer, or none because the frame   *)
(* could not be parsed.                                                    *)
(***************************************************************************)
EXTENDS Integers, Sequences, FiniteSets

Seqs == INSTANCE SequencesExt

CONSTANTS
    Conns,      \* bound: connections, each accepted once
    Stations,   \* station ids
    None,       \* no connection
    StationOf,  \* the station_id a connection is opened with
    Cap,        \* capacity of the send channel
    MaxMsgs,    \* bound: requests per connection
    Loads       \* bound: which connections come, with how many requests

ASSUME WsAssumption ==
    /\ StationOf \in [Conns -> Stations]
    /\ None \notin Conns
    /\ Cap \in Nat \ {0} /\ MaxMsgs \in Nat
    /\ \A ld \in Loads : ld \in [DOMAIN ld -> 0..MaxMsgs]

VARIABLES
    conn,           \* the state of each connection
    connections,    \* Manager.connections
    ping,           \* the manager's ping loop
    alive,          \* the process runs
    load            \* what the stations will do, fixed at the start

wsVars == <<conn, connections, ping, alive, load>>

Msgs == 1..MaxMsgs

Writing == {"text", "ping", "close"}

(* rp, wp   where the reader and the writer are
   got      requests read so far
   queue    the send channel's buffer; open: it is not closed
   out      the answer the writer holds
   answers  ghost: the answers that were accepted by the channel
   sent     the answers that were written
   peer     the station is there, as far as the reader can tell
   failed   writes fail: one has failed, or the library has sent a Close
            frame, or the socket was closed
   mixed    writes to a socket that worked have overlapped
   ctx      the context is not cancelled *)
Conn == [rp : {"new", "add", "read", "process", "send",
               "close", "shut", "remove", "cancel", "done"},
         wp : {"off", "select", "exit"} \cup Writing,
         got : 0..MaxMsgs, queue : Seq(Msgs), open : BOOLEAN,
         out : Seq(Msgs), answers : Seq(Msgs), sent : Seq(Msgs),
         peer : BOOLEAN, failed : BOOLEAN, mixed : BOOLEAN, ctx : BOOLEAN]

NewConn == [rp |-> "new", wp |-> "off", got |-> 0, queue |-> << >>,
            open |-> TRUE, out |-> << >>, answers |-> << >>, sent |-> << >>,
            peer |-> TRUE, failed |-> FALSE, mixed |-> FALSE, ctx |-> TRUE]

WsInit ==
    /\ conn = [c \in Conns |-> NewConn]
    /\ connections = [st \in Stations |-> None]
    /\ ping = [held |-> FALSE, todo |-> {}, cur |-> None]
    /\ alive = TRUE
    /\ load \in Loads

(* Connection c becomes r and nothing else happens. *)
Becomes(c, r) ==
    /\ alive
    /\ conn' = [conn EXCEPT ![c] = r]
    /\ UNCHANGED <<connections, ping, alive, load>>

-----------------------------------------------------------------------------
(* HandleWS and the reader. *)

(* The upgrade succeeds and the connection object is made. *)
HandleWS(c) ==
    /\ conn[c].rp = "new" /\ c \in DOMAIN load
    /\ Becomes(c, [conn[c] EXCEPT !.rp = "add"])

(* Manager.Add replaces an older connection of the same station in the map.
   It waits for the lock that the ping loop holds.  Then both pumps start. *)
Add(c) ==
    /\ alive /\ conn[c].rp = "add" /\ ~ping.held
    /\ connections' = [connections EXCEPT ![StationOf[c]] = c]
    /\ conn' = [conn EXCEPT ![c] = [@ EXCEPT !.rp = "read", !.wp = "select"]]
    /\ UNCHANGED <<ping, alive, load>>

(* A request is read, perhaps one that was sent before the station left. *)
ReadMessage(c) ==
    /\ conn[c].rp = "read" /\ c \in DOMAIN load /\ conn[c].got < load[c]
    /\ Becomes(c, [conn[c] EXCEPT !.rp = "process", !.got = @ + 1])

(* ReadMessage returns an error and the reader ends.  The library answers a
   message over the read limit, a malformed frame and the station's Close
   frame with a Close frame of its own, after which no write succeeds; when
   the station is lost, or 60 seconds pass without a pong, it does not, and
   the socket can still be written to. *)
ReadFails(c) ==
    /\ conn[c].rp = "read"
    /\ \E failed \in {conn[c].failed, TRUE} :
         Becomes(c, [conn[c] EXCEPT !.rp = "close", !.peer = FALSE,
                                    !.failed = failed])

(* Mutant: reads have no deadline. *)
ReadMustEndNoDeadline(c) == ~conn[c].peer /\ ReadFails(c)

(* The cases in which a read is sure to fail: the station is gone, or writes
   fail, so that no ping reaches it and no pong extends the read deadline. *)
ReadMustEnd(c) == (~conn[c].peer \/ conn[c].failed) /\ ReadFails(c)

(* Processor.Process: an unparsable frame gets no answer; a handler's result
   and a handler's error are both answered. *)
Process(c) ==
    /\ conn[c].rp = "process"
    /\ \E pc \in {"send", "read"} : Becomes(c, [conn[c] EXCEPT !.rp = pc])

(* Mutant: a full buffer makes room by dropping what waits longest. *)
SendDropsOldest(c) ==
    LET r == conn[c]
        q == IF Len(r.queue) < Cap THEN r.queue ELSE Tail(r.queue)
    IN  /\ r.rp = "send"
        /\ Becomes(c, [r EXCEPT !.rp = "read", !.queue = Append(q, r.got),
                                !.answers = Append(@, r.got)])

(* Mutant: off by one, the last slot of the buffer is never used. *)
SendEarlyDrop(c) ==
    LET r == conn[c]
    IN  /\ r.rp = "send"
        /\ IF Len(r.queue) + 1 < Cap
           THEN Becomes(c, [r EXCEPT !.rp = "read", !.queue = Append(@, r.got),
                                     !.answers = Append(@, r.got)])
           ELSE Becomes(c, [r EXCEPT !.rp = "read"])

(* Mutant: the channel has no bound. *)
SendUnbounded(c) ==
    /\ conn[c].rp = "send"
    /\ Becomes(c, [conn[c] EXCEPT !.rp = "read", !.queue = Append(@, conn[c].got),
                                  !.answers = Append(@, conn[c].got)])

(* Send never blocks: an answer that finds the buffer full is dropped. *)
Send(c) ==
    LET r == conn[c]
    IN  /\ r.rp = "send"
        /\ IF Len(r.queue) < Cap
           THEN Becomes(c, [r EXCEPT !.rp = "read", !.queue = Append(@, r.got),
                                     !.answers = Append(@, r.got)])
           ELSE Becomes(c, [r EXCEPT !.rp = "read"])

(* cleanup: close(send), ws.Close(), Manager.Remove(station), cancel(). *)
CloseSend(c) ==
    /\ conn[c].rp = "close"
    /\ Becomes(c, [conn[c] EXCEPT !.rp = "shut", !.open = FALSE])

CloseSocket(c) ==
    /\ conn[c].rp = "shut"
    /\ Becomes(c, [conn[c] EXCEPT !.rp = "remove", !.failed = TRUE])

(* Mutant: a connection that ends leaves the map alone. *)
RemoveForgets(c) ==
    /\ alive /\ conn[c].rp = "remove" /\ ~ping.held
    /\ conn' = [conn EXCEPT ![c].rp = "cancel"]
    /\ UNCHANGED <<connections, ping, alive, load>>

(* Manager.Remove deletes the station's entry, whichever connection it is. *)
Remove(c) ==
    /\ alive /\ conn[c].rp = "remove" /\ ~ping.held
    /\ connections' = [connections EXCEPT ![StationOf[c]] = None]
    /\ conn' = [conn EXCEPT ![c].rp = "cancel"]
    /\ UNCHANGED <<ping, alive, load>>

Cancel(c) ==
    /\ conn[c].rp = "cancel"
    /\ Becomes(c, [conn[c] EXCEPT !.rp = "done", !.ctx = FALSE])

-----------------------------------------------------------------------------
(* The writer. *)

(* A write begins: it may overlap with a ping of the manager.  Where writes
   fail, no frame is written that could be damaged. *)
WriteBegins(c, kind, r) ==
    Becomes(c, [r EXCEPT !.wp = kind, !.mixed = @ \/ (ping.cur = c /\ ~r.failed)])

(* Mutant: the writer waits until the buffer is full. *)
TakeAnswerBatch(c) ==
    /\ conn[c].wp = "select" /\ Len(conn[c].queue) = Cap
    /\ WriteBegins(c, "text", [conn[c] EXCEPT
                                !.out = <<Head(conn[c].queue)>>, !.queue = Tail(@)])

TakeAnswer(c) ==
    /\ conn[c].wp = "select" /\ conn[c].queue # << >>
    /\ WriteBegins(c, "text", [conn[c] EXCEPT
                                !.out = <<Head(conn[c].queue)>>, !.queue = Tail(@)])

(* Mutant: a closed channel is seen before what it holds. *)
SendClosedEarly(c) ==
    /\ conn[c].wp = "select" /\ ~conn[c].open
    /\ WriteBegins(c, "close", conn[c])

(* A closed channel yields what is buffered first, then ok = false. *)
SendClosed(c) ==
    /\ conn[c].wp = "select" /\ ~conn[c].open /\ conn[c].queue = << >>
    /\ WriteBegins(c, "close", conn[c])

Ticker(c) ==
    /\ conn[c].wp = "select"
    /\ WriteBegins(c, "ping", conn[c])

ContextDone(c) ==
    /\ conn[c].wp = "select" /\ ~conn[c].ctx
    /\ Becomes(c, [conn[c] EXCEPT !.wp = "exit"])

(* The write succeeds, which means that the socket took the frame: it may do
   so although the station is gone.  A frame that was mixed with another one
   may not be what the station gets. *)
WriteSucceeds(c) ==
    LET r == conn[c]
    IN  /\ r.wp \in Writing /\ ~r.failed
        /\ \E sent \in {r.sent \o r.out} \cup (IF r.mixed THEN {r.sent} ELSE {}) :
             Becomes(c, [r EXCEPT !.wp = IF r.wp = "close" THEN "exit" ELSE "select",
                                  !.out = << >>, !.sent = sent])

(* The write fails: all writes do, or the station is gone or too slow.  The
   writer ends; the reader does not. *)
WriteFails(c) ==
    /\ conn[c].wp \in Writing
    /\ Becomes(c, [conn[c] EXCEPT !.wp = "exit", !.failed = TRUE, !.out = << >>])

-----------------------------------------------------------------------------
(* The manager's ping loop: all of a round happens under the read lock. *)

PingTick ==
    /\ alive /\ ~ping.held
    /\ ping' = [held |-> TRUE, cur |-> None,
                todo |-> {connections[st] : st \in Stations} \ {None}]
    /\ UNCHANGED <<conn, connections, alive, load>>

Ping(c) ==
    /\ alive /\ ping.cur = None /\ c \in ping.todo
    /\ ping' = [ping EXCEPT !.cur = c, !.todo = @ \ {c}]
    /\ conn' = [conn EXCEPT ![c].mixed =
                   @ \/ (conn[c].wp \in Writing /\ ~conn[c].failed)]
    /\ UNCHANGED <<connections, alive, load>>

(* The ping's write ends; its error is ignored. *)
PingEnds ==
    /\ alive /\ ping.cur # None
    /\ ping' = [ping EXCEPT !.cur = None]
    /\ \/ conn' = [conn EXCEPT ![ping.cur].failed = TRUE]
       \/ ~conn[ping.cur].failed /\ UNCHANGED conn
    /\ UNCHANGED <<connections, alive, load>>

PingRoundEnds ==
    /\ alive /\ ping.held /\ ping.cur = None /\ ping.todo = {}
    /\ ping' = [ping EXCEPT !.held = FALSE]
    /\ UNCHANGED <<conn, connections, alive, load>>

-----------------------------------------------------------------------------

(* The station closes its connection, or the network loses it. *)
PeerGone(c) ==
    /\ conn[c].peer /\ conn[c].rp # "new"
    /\ Becomes(c, [conn[c] EXCEPT !.peer = FALSE])

(* The library detects two writers and panics: the process ends. *)
Panic ==
    /\ alive /\ ping.cur # None /\ conn[ping.cur].wp \in Writing
    /\ alive' = FALSE
    /\ UNCHANGED <<conn, connections, ping, load>>

ReaderStep(c) ==
    \/ Process(c) \/ Send(c) \/ CloseSend(c) \/ CloseSocket(c) \/ Cancel(c)

WriterStep(c) ==
    \/ TakeAnswer(c) \/ SendClosed(c) \/ Ticker(c) \/ ContextDone(c)
    \/ WriteSucceeds(c) \/ WriteFails(c)

PingerStep == (\E c \in Conns : Ping(c)) \/ PingEnds \/ PingRoundEnds

WsNext ==
    \/ \E c \in Conns : \/ HandleWS(c) \/ Add(c) \/ ReadMessage(c) \/ ReadFails(c)
                        \/ Remove(c)
                        \/ ReaderStep(c) \/ WriterStep(c) \/ PeerGone(c)
    \/ PingTick \/ PingerStep
    \/ Panic

WsSpec == WsInit /\ [][WsNext]_wsVars

(* Goroutines are scheduled; handlers return (HandlersReturn of Charging-
   System); reads and writes have deadlines; select picks among the cases
   that are ready at random, so that the ticker, every 30 seconds, cannot
   keep the writer from its answers; a writer that waits for the RWMutex
   gets it, because it keeps later readers out. *)
WsFairSpec ==
    /\ WsSpec
    /\ \A c \in Conns : /\ WF_wsVars(ReaderStep(c)) /\ WF_wsVars(ReadMustEnd(c))
                        /\ WF_wsVars(WriterStep(c)) /\ SF_wsVars(TakeAnswer(c))
                        /\ SF_wsVars(Add(c)) /\ SF_wsVars(Remove(c))
    /\ WF_wsVars(PingerStep)

-----------------------------------------------------------------------------
(* Properties. *)

(* Every variable has its type, and the buffer keeps to its capacity. *)
WsTypeOK ==
    /\ conn \in [Conns -> Conn]
    /\ \A c \in Conns : Len(conn[c].queue) <= Cap
    /\ connections \in [Stations -> Conns \cup {None}]
    /\ ping \in [held : BOOLEAN, todo : SUBSET Conns, cur : Conns \cup {None}]
    /\ alive \in BOOLEAN /\ load \in Loads

(* The reader serves the station: it has not met the end of the connection. *)
Serving(c) == conn[c].rp \in {"read", "process", "send"}

(* What a station gets is the answers that the channel accepted, in that
   order, as long as writes have not overlapped: whatever fails and whoever
   ends first, answers are missing at the end only.  Until a write fails, a
   Close frame is sent or the socket is closed, none is missing: each is
   written, in the writer's hand or in the channel.  Meanwhile a connection
   that serves has a writer, and a writer that finds the channel closed
   empties it before it ends. *)
AnswersDelivered ==
    \A c \in Conns :
      LET r == conn[c]
      IN  ~r.mixed =>
            /\ Seqs!IsPrefix(r.sent, r.answers)
            /\ ~r.failed =>
                 /\ r.answers = r.sent \o r.out \o r.queue
                 /\ r.wp \in {"off", "exit"} => ~Serving(c) /\ r.queue = << >>

(* Send drops an answer only for a station that is behind: as many earlier
   answers as the channel holds were accepted and are not written yet. *)
DroppedOnlyWhenBehind ==
    [][\A c \in Conns :
         (conn[c].rp = "send" /\ conn'[c].rp # "send") =>
           \/ conn'[c].answers = Append(conn[c].answers, conn[c].got)
           \/ Len(conn[c].answers) - Len(conn[c].sent) >= Cap]_wsVars

(* Accepted answers do not wait for ever: a writer that is behind catches up,
   unless the connection stops serving, a write fails or overlaps, or the
   process ends. *)
AnswersWritten ==
    \A c \in Conns :
      conn[c].answers # conn[c].sent ~>
        \/ conn[c].answers = conn[c].sent
        \/ ~Serving(c) \/ conn[c].failed \/ conn[c].mixed \/ ~alive

(* The manager never holds, and so never pings, a connection whose cleanup
   has passed Remove, in whatever order connections of one station come and
   go.  A connection that serves is in the map, and so is pinged, unless
   its station has opened another one: that one took its place, or removed
   the station's entry when it ended. *)
RegisteredIsOpen ==
    /\ \A st \in Stations :
         connections[st] # None =>
           /\ StationOf[connections[st]] = st
           /\ conn[connections[st]].rp \notin {"new", "add", "cancel", "done"}
    /\ \A c \in Conns :
         Serving(c) /\ connections[StationOf[c]] # c =>
           \E d \in Conns \ {c} :
             StationOf[d] = StationOf[c] /\ conn[d].rp \notin {"new", "add"}

(* A connection whose station is gone, or whose writer has ended, is cleaned
   up completely: both goroutines end, unless the process does.  No cycle of
   reader, writer, ping loop and lock keeps one of them for ever. *)
ConnectionsEnd ==
    \A c \in Conns :
      (conn[c].rp # "new" /\ (~conn[c].peer \/ conn[c].wp = "exit")) ~>
        (~alive \/ (conn[c].rp = "done" /\ conn[c].wp = "exit"))

-----------------------------------------------------------------------------
(* What the library's documentation asks for, and the code does not do. *)

(* No more than one goroutine writes to a connection at a time. *)
OneWriter ==
    \A c \in Conns : ~(conn[c].wp \in Writing /\ ping.cur = c)

=============================================================================
