----------------------- MODULE WsConnectionsProofs -----------------------
(***************************************************************************)
(* Answers are lost at the end only, none is lost while the socket works,  *)
(* none is dropped for a station that keeps up, and the manager's map      *)
(* holds no connection that is cleaned up, for any number of connections,  *)
(* any channel capacity and any number of requests.                        *)
(*                                                                         *)
(* The inductive invariant is one predicate on connection records and one  *)
(* on the map.  It adds what each position of reader and writer says about *)
(* the channel and the socket, and that the accepted answers are at least  *)
(* as many as those written, in the writer's hand and in the channel.      *)
(***************************************************************************)
EXTENDS WsConnections, TLAPS, SequenceTheorems

Delivered(r) ==
    ~r.mixed => /\ Seqs!IsPrefix(r.sent, r.answers)
                /\ ~r.failed => r.answers = r.sent \o r.out \o r.queue

(* What the positions of reader and writer say. *)
Positions(r) ==
    /\ r.rp \in {"process", "send"} => r.got >= 1
    /\ r.wp # "text" => r.out = << >>
    /\ r.rp \in {"new", "add"} <=> r.wp = "off"
    /\ r.wp = "off" => r.queue = << >>
    /\ r.rp \notin {"shut", "remove", "cancel", "done"} => r.open
    /\ r.rp \in {"remove", "cancel", "done"} => r.failed
    /\ ~r.ctx => r.rp = "done"
    /\ r.wp = "close" => ~r.open /\ r.queue = << >>
    /\ r.wp = "exit" /\ ~r.failed => ~r.open /\ r.queue = << >>

(* How many answers are accounted for. *)
Counted(r) == Len(r.sent) + Len(r.out) + Len(r.queue) <= Len(r.answers)

OkConn(r) ==
    /\ r \in Conn
    /\ Len(r.queue) <= Cap
    /\ Positions(r)
    /\ Counted(r)
    /\ Delivered(r)

(* The states of a reader whose connection is not in the map. *)
Outside == {"new", "add", "cancel", "done"}

(* The states of a reader whose connection has not been in the map yet. *)
Fresh == {"new", "add"}

(* The states of a reader that serves. *)
Served == {"read", "process", "send"}

PingType == [held : BOOLEAN, todo : SUBSET Conns, cur : Conns \cup {None}]

WsInv ==
    /\ conn \in [Conns -> Conn] /\ \A c \in Conns : OkConn(conn[c])
    /\ connections \in [Stations -> Conns \cup {None}]
    /\ ping \in PingType /\ alive \in BOOLEAN /\ load \in Loads
    /\ RegisteredIsOpen

-----------------------------------------------------------------------------

(* Appending to what is queued appends to what is to be delivered. *)
LEMMA ConcatAppend ==
  ASSUME NEW S, NEW s \in Seq(S), NEW t \in Seq(S), NEW x \in S
  PROVE  s \o Append(t, x) = Append(s \o t, x)
OBVIOUS

(* Moving the head of a sequence to the one before it changes nothing. *)
LEMMA ConcatHeadTail ==
  ASSUME NEW S, NEW s \in Seq(S), NEW t \in Seq(S), t # << >>
  PROVE  s \o <<Head(t)>> \o Tail(t) = s \o t
<1>1. Head(t) \in S /\ Tail(t) \in Seq(S) /\ t = <<Head(t)>> \o Tail(t) /\ <<Head(t)>> \in Seq(S)
  OBVIOUS
<1>2. (s \o <<Head(t)>>) \o Tail(t) = s \o (<<Head(t)>> \o Tail(t))
  BY <1>1, ConcatAssociative
<1> QED BY <1>1, <1>2

(* A prefix, element by element. *)
LEMMA PrefixElements ==
  ASSUME NEW S, NEW s \in Seq(S), NEW t \in Seq(S)
  PROVE  Seqs!IsPrefix(s, t) <=> /\ Len(s) <= Len(t)
                                 /\ \A i \in 1..Len(s) : s[i] = t[i]
<1>1. SubSeq(s, 1, Len(s)) \in Seq(S) /\ Len(SubSeq(s, 1, Len(s))) = Len(s)
      /\ \A i \in 1..Len(s) : SubSeq(s, 1, Len(s))[i] = s[i]
  OBVIOUS
<1>2. CASE Len(s) <= Len(t)
  <2>1. SubSeq(t, 1, Len(s)) \in Seq(S) /\ Len(SubSeq(t, 1, Len(s))) = Len(s)
        /\ \A i \in 1..Len(s) : SubSeq(t, 1, Len(s))[i] = t[i]
    BY <1>2
  <2>2. SubSeq(s, 1, Len(s)) = SubSeq(t, 1, Len(s)) <=> \A i \in 1..Len(s) : s[i] = t[i]
    <3>1. ASSUME \A i \in 1..Len(s) : s[i] = t[i]
          PROVE  SubSeq(s, 1, Len(s)) = SubSeq(t, 1, Len(s))
      BY <3>1, <1>1, <2>1, SeqEqual
    <3> QED BY <3>1, <1>1, <2>1
  <2> QED BY <1>2, <2>2 DEF Seqs!IsPrefix
<1> QED BY <1>2 DEF Seqs!IsPrefix

(* A prefix stays one when the sequence grows. *)
LEMMA PrefixAppend ==
  ASSUME NEW S, NEW s \in Seq(S), NEW t \in Seq(S), NEW x \in S, Seqs!IsPrefix(s, t)
  PROVE  Seqs!IsPrefix(s, Append(t, x))
<1>1. Append(t, x) \in Seq(S) /\ Len(Append(t, x)) = Len(t) + 1
      /\ \A i \in 1..Len(t) : Append(t, x)[i] = t[i]
  OBVIOUS
<1>2. Len(s) <= Len(t) /\ \A i \in 1..Len(s) : s[i] = t[i]
  BY PrefixElements
<1>3. Len(s) \in Nat /\ Len(t) \in Nat
  OBVIOUS
<1> DEFINE u == Append(t, x)
<1> HIDE DEF u
<1>4. u \in Seq(S) /\ Len(s) <= Len(u) /\ \A i \in 1..Len(s) : s[i] = u[i]
  BY <1>1, <1>2, <1>3 DEF u
<1>5. Seqs!IsPrefix(s, u)
  BY <1>4, PrefixElements
<1> QED BY <1>5 DEF u

(* The first part of a concatenation is a prefix of it. *)
LEMMA PrefixConcat ==
  ASSUME NEW S, NEW s \in Seq(S), NEW t \in Seq(S)
  PROVE  Seqs!IsPrefix(s, s \o t)
<1>1. s \o t \in Seq(S) /\ Len(s \o t) = Len(s) + Len(t)
      /\ \A i \in 1..Len(s) : (s \o t)[i] = s[i]
  OBVIOUS
<1>3. Len(s) \in Nat /\ Len(t) \in Nat
  OBVIOUS
<1> DEFINE u == s \o t
<1> HIDE DEF u
<1>4. u \in Seq(S) /\ Len(s) <= Len(u) /\ \A i \in 1..Len(s) : s[i] = u[i]
  BY <1>1, <1>3 DEF u
<1>5. Seqs!IsPrefix(s, u)
  BY <1>4, PrefixElements
<1> QED BY <1>5 DEF u

(* A step that leaves the answers alone and does not repair the socket. *)
LEMMA SameAnswers ==
  ASSUME NEW r, NEW q, OkConn(r), q \in Conn,
         q.queue = r.queue, q.out = r.out, q.sent = r.sent, q.answers = r.answers,
         r.failed => q.failed, r.mixed => q.mixed, Positions(q)
  PROVE  OkConn(q)
<1>1. Delivered(q)
  BY DEF OkConn, Delivered
<1>2. Counted(q)
  BY DEF OkConn, Counted
<1> QED BY <1>1, <1>2 DEF OkConn

(* The initial state satisfies the invariant. *)
LEMMA WsInitInv == WsInit => WsInv
<1> SUFFICES ASSUME WsInit PROVE WsInv
  OBVIOUS
<1>1. OkConn(NewConn)
  <2>1. << >> \in Seq(Msgs) /\ 0 \in 0..MaxMsgs /\ Cap \in Nat /\ Len(<< >>) = 0
    BY WsAssumption
  <2>2. NewConn \in Conn
    BY <2>1 DEF NewConn, Conn, Writing
  <2>3. << >> = << >> \o << >> \o << >> /\ Seqs!IsPrefix(<< >>, << >>)
    <3>1. << >> = << >> \o << >> /\ << >> = << >> \o << >> \o << >>
      OBVIOUS
    <3>2. Seqs!IsPrefix(<< >>, << >> \o << >>)
      BY <2>1, PrefixConcat
    <3> QED BY <3>1, <3>2
  <2>4. Delivered(NewConn)
    BY <2>3 DEF Delivered, NewConn
  <2>5. Positions(NewConn) /\ Counted(NewConn)
    BY <2>1 DEF Positions, Counted, NewConn
  <2> QED BY <2>1, <2>2, <2>4, <2>5 DEF OkConn, NewConn
<1>2. conn \in [Conns -> Conn] /\ \A c \in Conns : OkConn(conn[c])
  BY <1>1 DEF WsInit, OkConn
<1>3. /\ connections \in [Stations -> Conns \cup {None}] /\ load \in Loads
      /\ ping \in PingType /\ alive \in BOOLEAN /\ RegisteredIsOpen
  BY DEF WsInit, PingType, RegisteredIsOpen, Serving, NewConn
<1> QED BY <1>2, <1>3 DEF WsInv

(* The map keeps its property when it does not change, no connection leaves
   it behind and none begins to serve. *)
LEMMA MapKept ==
  ASSUME WsInv, UNCHANGED connections,
         \A d \in Conns : /\ conn'[d].rp \in Outside => conn[d].rp \in Outside
                          /\ conn'[d].rp \in Fresh => conn[d].rp \in Fresh
                          /\ conn'[d].rp \in Served => conn[d].rp \in Served
  PROVE  RegisteredIsOpen'
<1>1. ASSUME NEW st \in Stations, connections[st] # None
      PROVE  /\ StationOf[connections[st]] = st
             /\ conn'[connections[st]].rp \notin Outside
  BY <1>1 DEF WsInv, RegisteredIsOpen, Outside
<1>2. ASSUME NEW c \in Conns, conn'[c].rp \in Served, connections[StationOf[c]] # c
      PROVE  \E d \in Conns \ {c} : StationOf[d] = StationOf[c] /\ conn'[d].rp \notin Fresh
  <2>1. PICK d \in Conns \ {c} : StationOf[d] = StationOf[c] /\ conn[d].rp \notin Fresh
    BY <1>2 DEF WsInv, RegisteredIsOpen, Serving, Served, Fresh
  <2> QED BY <2>1
<1> QED BY <1>1, <1>2 DEF RegisteredIsOpen, Serving, Served, Fresh, Outside

(* One connection changes, and stays in the map only if it may. *)
LEMMA BecomesInv ==
  ASSUME WsInv, NEW c \in Conns, NEW r, OkConn(r), Becomes(c, r),
         r.rp \in Outside => conn[c].rp \in Outside,
         r.rp \in Fresh => conn[c].rp \in Fresh,
         r.rp \in Served => conn[c].rp \in Served
  PROVE  WsInv'
<1>1. conn' = [conn EXCEPT ![c] = r] /\ r \in Conn /\ UNCHANGED <<connections, ping, alive, load>>
  BY DEF Becomes, OkConn
<1>2. conn' \in [Conns -> Conn] /\ \A d \in Conns : OkConn(conn'[d])
  BY <1>1 DEF WsInv
<1>3. RegisteredIsOpen'
  BY <1>1, MapKept DEF WsInv
<1> QED BY <1>1, <1>2, <1>3 DEF WsInv

(* The steps of a reader that touch only its own connection. *)
LEMMA ReaderInv ==
  ASSUME WsInv, NEW c \in Conns,
         HandleWS(c) \/ ReadMessage(c) \/ ReadFails(c) \/ ReaderStep(c) \/ PeerGone(c)
  PROVE  WsInv'
<1> DEFINE r == conn[c]
           Moves(q) == /\ q.rp \in Outside => r.rp \in Outside
                       /\ q.rp \in Fresh => r.rp \in Fresh
                       /\ q.rp \in Served => r.rp \in Served
<1>1. OkConn(r) /\ r \in Conn
  BY DEF WsInv, OkConn
<1>2. CASE HandleWS(c)
  <2> DEFINE q == [r EXCEPT !.rp = "add"]
  <2>1. q \in Conn /\ Positions(q) /\ Moves(q)
    BY <1>1, <1>2 DEF HandleWS, OkConn, Positions, Conn, Outside, Fresh, Served
  <2>2. OkConn(q)
    BY <1>1, <2>1, SameAnswers DEF Conn
  <2> QED BY <2>1, <2>2, <1>2, BecomesInv DEF HandleWS
<1>3. CASE ReadMessage(c)
  <2> DEFINE q == [r EXCEPT !.rp = "process", !.got = @ + 1]
  <2>1. r.got + 1 \in 0..MaxMsgs /\ r.got + 1 >= 1
    <3>1. load[c] \in 0..MaxMsgs
      BY <1>3, WsAssumption DEF ReadMessage, WsInv
    <3> QED BY <1>1, <1>3, <3>1, WsAssumption DEF ReadMessage, Conn
  <2>2. q \in Conn /\ Positions(q) /\ Moves(q)
    BY <1>1, <1>3, <2>1 DEF ReadMessage, OkConn, Positions, Conn, Outside, Fresh, Served
  <2>3. OkConn(q)
    BY <1>1, <2>2, SameAnswers DEF Conn
  <2> QED BY <2>2, <2>3, <1>3, BecomesInv DEF ReadMessage
<1>4. CASE ReadFails(c)
  <2>1. PICK f \in {r.failed, TRUE} :
          Becomes(c, [r EXCEPT !.rp = "close", !.peer = FALSE, !.failed = f]) /\ r.rp = "read"
    BY <1>4 DEF ReadFails
  <2> DEFINE q == [r EXCEPT !.rp = "close", !.peer = FALSE, !.failed = f]
  <2>2. f \in BOOLEAN /\ (r.failed => f)
    BY <1>1, <2>1 DEF Conn
  <2>3. q \in Conn /\ Positions(q) /\ Moves(q)
    BY <1>1, <2>1, <2>2 DEF OkConn, Positions, Conn, Outside, Fresh, Served
  <2>4. OkConn(q)
    BY <1>1, <2>2, <2>3, SameAnswers DEF Conn
  <2> QED BY <2>1, <2>3, <2>4, BecomesInv
<1>5. CASE Process(c)
  <2>1. PICK pc \in {"send", "read"} : Becomes(c, [r EXCEPT !.rp = pc]) /\ r.rp = "process"
    BY <1>5 DEF Process
  <2> DEFINE q == [r EXCEPT !.rp = pc]
  <2>2. q \in Conn /\ Positions(q) /\ Moves(q)
    BY <1>1, <2>1 DEF OkConn, Positions, Conn, Outside, Fresh, Served
  <2>3. OkConn(q)
    BY <1>1, <2>2, SameAnswers DEF Conn
  <2> QED BY <2>1, <2>2, <2>3, BecomesInv
<1>6. CASE Send(c)
  <2>0. r.rp = "send"
    BY <1>6 DEF Send
  <2>1. CASE Len(r.queue) < Cap
    <3> DEFINE q == [r EXCEPT !.rp = "read", !.queue = Append(@, r.got),
                              !.answers = Append(@, r.got)]
    <3>1. /\ r.got \in Msgs /\ r.queue \in Seq(Msgs) /\ r.answers \in Seq(Msgs)
          /\ r.sent \in Seq(Msgs) /\ r.out \in Seq(Msgs) /\ r.sent \o r.out \in Seq(Msgs)
      BY <1>1, <2>0 DEF OkConn, Positions, Conn, Msgs
    <3>2. /\ Append(r.queue, r.got) \in Seq(Msgs) /\ Append(r.answers, r.got) \in Seq(Msgs)
          /\ Len(Append(r.queue, r.got)) <= Cap
          /\ Len(Append(r.queue, r.got)) = Len(r.queue) + 1
          /\ Len(Append(r.answers, r.got)) = Len(r.answers) + 1
      BY <3>1, <2>1, WsAssumption
    <3>3. /\ q \in Conn /\ q.queue = Append(r.queue, r.got) /\ q.rp = "read"
          /\ q.answers = Append(r.answers, r.got) /\ q.sent = r.sent /\ q.out = r.out
          /\ q.failed = r.failed /\ q.mixed = r.mixed /\ q.wp = r.wp
          /\ q.open = r.open /\ q.ctx = r.ctx
      BY <3>1, <3>2, <1>1 DEF Conn
    <3>5. (r.sent \o r.out) \o Append(r.queue, r.got)
            = Append(r.sent \o r.out \o r.queue, r.got)
      <4> DEFINE s == r.sent \o r.out
                 t == r.queue
                 x == r.got
      <4>1. s \in Seq(Msgs) /\ t \in Seq(Msgs) /\ x \in Msgs
        BY <3>1
      <4> HIDE DEF s, t, x
      <4>2. s \o Append(t, x) = Append(s \o t, x)
        BY <4>1, ConcatAppend
      <4> QED BY <4>2 DEF s, t, x
    <3>6. Becomes(c, q)
      BY <1>6, <2>1 DEF Send
    <3>7. ~r.mixed => Seqs!IsPrefix(r.sent, Append(r.answers, r.got))
      <4> DEFINE s == r.sent
                 t == r.answers
                 x == r.got
      <4> SUFFICES ASSUME ~r.mixed PROVE Seqs!IsPrefix(s, Append(t, x))
        OBVIOUS
      <4>1. s \in Seq(Msgs) /\ t \in Seq(Msgs) /\ x \in Msgs
        BY <3>1
      <4>2. Seqs!IsPrefix(s, t)
        BY <1>1 DEF OkConn, Delivered
      <4> HIDE DEF s, t, x
      <4> QED BY <4>1, <4>2, PrefixAppend
    <3> HIDE DEF q
    <3>8. Delivered(q)
      <4> SUFFICES ASSUME ~q.mixed
                   PROVE  /\ Seqs!IsPrefix(q.sent, q.answers)
                          /\ ~q.failed => q.answers = q.sent \o q.out \o q.queue
        BY DEF Delivered
      <4>1. Seqs!IsPrefix(q.sent, q.answers)
        BY <3>3, <3>7
      <4>2. ~q.failed => q.answers = q.sent \o q.out \o q.queue
        BY <3>3, <3>5, <1>1 DEF OkConn, Delivered
      <4> QED BY <4>1, <4>2
    <3>9. Counted(q)
      <4> DEFINE s == Len(r.sent)
                 o == Len(r.out)
                 u == Len(r.queue)
                 n == Len(r.answers)
      <4>1. s \in Nat /\ o \in Nat /\ u \in Nat /\ n \in Nat
        BY <3>1
      <4>2. s + o + u <= n
        BY <1>1 DEF OkConn, Counted
      <4>3. Len(q.sent) = s /\ Len(q.out) = o /\ Len(q.queue) = u + 1 /\ Len(q.answers) = n + 1
        BY <3>2, <3>3
      <4> HIDE DEF s, o, u, n
      <4> QED BY <4>1, <4>2, <4>3 DEF Counted
    <3>10. Positions(q)
      BY <3>3, <1>1, <2>0 DEF OkConn, Positions
    <3>11. OkConn(q) /\ Moves(q)
      BY <3>2, <3>3, <3>8, <3>9, <3>10, <2>0 DEF OkConn, Outside, Fresh, Served
    <3> QED BY <3>6, <3>11, BecomesInv
  <2>2. CASE ~(Len(r.queue) < Cap)
    <3> DEFINE q == [r EXCEPT !.rp = "read"]
    <3>1. q \in Conn /\ Positions(q) /\ Moves(q)
      BY <1>1, <2>0 DEF OkConn, Positions, Conn, Outside, Fresh, Served
    <3>2. OkConn(q)
      BY <1>1, <3>1, SameAnswers DEF Conn
    <3> QED BY <3>1, <3>2, <2>2, <1>6, BecomesInv DEF Send
  <2> QED BY <2>1, <2>2
<1>7. CASE CloseSend(c)
  <2> DEFINE q == [r EXCEPT !.rp = "shut", !.open = FALSE]
  <2>1. q \in Conn /\ Positions(q) /\ Moves(q)
    BY <1>1, <1>7 DEF CloseSend, OkConn, Positions, Conn, Outside, Fresh, Served
  <2>2. OkConn(q)
    BY <1>1, <2>1, SameAnswers DEF Conn
  <2> QED BY <2>1, <2>2, <1>7, BecomesInv DEF CloseSend
<1>8. CASE CloseSocket(c)
  <2> DEFINE q == [r EXCEPT !.rp = "remove", !.failed = TRUE]
  <2>1. q \in Conn /\ Positions(q) /\ Moves(q)
    BY <1>1, <1>8 DEF CloseSocket, OkConn, Positions, Conn, Outside, Fresh, Served
  <2>2. OkConn(q)
    BY <1>1, <2>1, SameAnswers DEF Conn
  <2> QED BY <2>1, <2>2, <1>8, BecomesInv DEF CloseSocket
<1>9. CASE Cancel(c)
  <2> DEFINE q == [r EXCEPT !.rp = "done", !.ctx = FALSE]
  <2>1. q \in Conn /\ Positions(q) /\ Moves(q)
    BY <1>1, <1>9 DEF Cancel, OkConn, Positions, Conn, Outside, Fresh, Served
  <2>2. OkConn(q)
    BY <1>1, <2>1, SameAnswers DEF Conn
  <2> QED BY <2>1, <2>2, <1>9, BecomesInv DEF Cancel
<1>10. CASE PeerGone(c)
  <2> DEFINE q == [r EXCEPT !.peer = FALSE]
  <2>1. q \in Conn /\ Positions(q) /\ Moves(q)
    BY <1>1, <1>10 DEF PeerGone, OkConn, Positions, Conn, Outside, Fresh, Served
  <2>2. OkConn(q)
    BY <1>1, <2>1, SameAnswers DEF Conn
  <2> QED BY <2>1, <2>2, <1>10, BecomesInv DEF PeerGone
<1> QED BY <1>2, <1>3, <1>4, <1>5, <1>6, <1>7, <1>8, <1>9, <1>10 DEF ReaderStep

(* The steps of a writer. *)
LEMMA WriterInv ==
  ASSUME WsInv, NEW c \in Conns, WriterStep(c)
  PROVE  WsInv'
<1> DEFINE r == conn[c]
           overlap == r.mixed \/ (ping.cur = c /\ ~r.failed)
<1>1. /\ OkConn(r) /\ r \in Conn /\ overlap \in BOOLEAN
      /\ r.queue \in Seq(Msgs) /\ r.sent \in Seq(Msgs) /\ r.out \in Seq(Msgs)
      /\ r.answers \in Seq(Msgs) /\ << >> \in Seq(Msgs)
      /\ Len(r.queue) \in Nat /\ Len(r.sent) \in Nat /\ Len(r.out) \in Nat
      /\ Len(r.answers) \in Nat
  BY DEF WsInv, OkConn, Conn
<1>2. CASE TakeAnswer(c)
  <2> DEFINE q == [r EXCEPT !.out = <<Head(r.queue)>>, !.queue = Tail(@),
                            !.wp = "text", !.mixed = overlap]
  <2>1. /\ r.queue # << >> /\ r.wp = "select" /\ r.out = << >>
        /\ Head(r.queue) \in Msgs /\ Tail(r.queue) \in Seq(Msgs)
        /\ Len(Tail(r.queue)) <= Cap /\ <<Head(r.queue)>> \in Seq(Msgs)
        /\ Len(Tail(r.queue)) = Len(r.queue) - 1 /\ Len(<<Head(r.queue)>>) = 1
        /\ Len(r.out) = 0
    BY <1>1, <1>2, WsAssumption DEF TakeAnswer, OkConn, Positions
  <2>2. r.sent \o r.out \o r.queue = r.sent \o <<Head(r.queue)>> \o Tail(r.queue)
    <3>1. r.sent \o r.out = r.sent
      BY <2>1, <1>1
    <3> QED BY <3>1, <1>1, <2>1, ConcatHeadTail
  <2>3. /\ q \in Conn /\ q.out = <<Head(r.queue)>> /\ q.queue = Tail(r.queue)
        /\ q.wp = "text" /\ q.rp = r.rp /\ q.got = r.got /\ q.sent = r.sent
        /\ q.answers = r.answers /\ q.failed = r.failed /\ q.mixed = overlap
        /\ q.open = r.open /\ q.ctx = r.ctx
    BY <1>1, <2>1 DEF Conn, Writing
  <2>4. Becomes(c, q)
    <3> DEFINE p == [r EXCEPT !.out = <<Head(r.queue)>>, !.queue = Tail(@)]
    <3>1. WriteBegins(c, "text", p)
      BY <1>2 DEF TakeAnswer
    <3>2. p.mixed = r.mixed /\ p.failed = r.failed
      BY <1>1 DEF Conn
    <3> QED BY <3>1, <3>2 DEF WriteBegins
  <2>5. r.mixed => overlap
    OBVIOUS
  <2> HIDE DEF q, overlap
  <2>6. Delivered(q)
    <3> SUFFICES ASSUME ~q.mixed
                 PROVE  /\ Seqs!IsPrefix(q.sent, q.answers)
                        /\ ~q.failed => q.answers = q.sent \o q.out \o q.queue
      BY DEF Delivered
    <3>1. /\ Seqs!IsPrefix(r.sent, r.answers)
          /\ ~r.failed => r.answers = r.sent \o r.out \o r.queue
      BY <1>1, <2>3, <2>5 DEF OkConn, Delivered
    <3>2. Seqs!IsPrefix(q.sent, q.answers)
      BY <3>1, <2>3
    <3> QED BY <3>1, <3>2, <2>2, <2>3
  <2>7. Counted(q)
    <3> DEFINE s == Len(r.sent)
               o == Len(r.out)
               u == Len(r.queue)
               n == Len(r.answers)
    <3>1. s \in Nat /\ o \in Nat /\ u \in Nat /\ n \in Nat
      BY <1>1
    <3>2. s + o + u <= n
      BY <1>1 DEF OkConn, Counted
    <3>3. Len(q.sent) = s /\ Len(q.out) = 1 /\ Len(q.queue) = u - 1 /\ Len(q.answers) = n
      BY <2>1, <2>3
    <3> HIDE DEF s, o, u, n
    <3> QED BY <3>1, <3>2, <3>3 DEF Counted
  <2>8. OkConn(q)
    <3>1. Positions(q)
      BY <1>1, <2>1, <2>3 DEF OkConn, Positions
    <3> QED BY <3>1, <2>1, <2>3, <2>6, <2>7 DEF OkConn
  <2> QED BY <2>3, <2>4, <2>8, BecomesInv
<1>3. ASSUME NEW kind \in {"ping", "close"}, r.wp = "select", WriteBegins(c, kind, r),
             kind = "close" => ~r.open /\ r.queue = << >>
      PROVE  WsInv'
  <2> DEFINE q == [r EXCEPT !.wp = kind, !.mixed = overlap]
  <2>1. q \in Conn /\ Positions(q) /\ q.rp = r.rp /\ (r.mixed => q.mixed)
    BY <1>1, <1>3 DEF OkConn, Positions, Conn, Writing
  <2>2. OkConn(q)
    BY <1>1, <2>1, SameAnswers DEF Conn
  <2>3. Becomes(c, q)
    BY <1>3 DEF WriteBegins
  <2> QED BY <2>1, <2>2, <2>3, BecomesInv
<1>4. CASE SendClosed(c) \/ Ticker(c)
  BY <1>3, <1>4 DEF SendClosed, Ticker
<1>5. CASE ContextDone(c)
  <2> DEFINE q == [r EXCEPT !.wp = "exit"]
  <2>1. q \in Conn /\ Positions(q) /\ q.rp = r.rp
    BY <1>1, <1>5 DEF ContextDone, OkConn, Positions, Conn
  <2>2. OkConn(q)
    BY <1>1, <2>1, SameAnswers DEF Conn
  <2> QED BY <2>1, <2>2, <1>5, BecomesInv DEF ContextDone
<1>6. CASE WriteFails(c)
  <2> DEFINE q == [r EXCEPT !.wp = "exit", !.failed = TRUE, !.out = << >>]
  <2>0. /\ q \in Conn /\ q.rp = r.rp /\ q.queue = r.queue /\ q.got = r.got
        /\ q.wp = "exit" /\ q.out = << >> /\ q.failed = TRUE /\ r.wp # "off"
        /\ q.sent = r.sent /\ q.answers = r.answers /\ q.mixed = r.mixed
        /\ q.open = r.open /\ q.ctx = r.ctx
    BY <1>1, <1>6 DEF WriteFails, Conn, Writing
  <2>1. Becomes(c, q)
    BY <1>6 DEF WriteFails
  <2> HIDE DEF q
  <2>2. Delivered(q)
    <3> SUFFICES ASSUME ~q.mixed PROVE Seqs!IsPrefix(q.sent, q.answers)
      BY <2>0 DEF Delivered
    <3>1. Seqs!IsPrefix(r.sent, r.answers)
      BY <1>1, <2>0 DEF OkConn, Delivered
    <3> QED BY <3>1, <2>0
  <2>3. Counted(q)
    <3> DEFINE s == Len(r.sent)
               o == Len(r.out)
               u == Len(r.queue)
               n == Len(r.answers)
    <3>1. s \in Nat /\ o \in Nat /\ u \in Nat /\ n \in Nat
      BY <1>1
    <3>2. s + o + u <= n
      BY <1>1 DEF OkConn, Counted
    <3>3. Len(q.sent) = s /\ Len(q.out) = 0 /\ Len(q.queue) = u /\ Len(q.answers) = n
      BY <2>0
    <3> HIDE DEF s, o, u, n
    <3> QED BY <3>1, <3>2, <3>3 DEF Counted
  <2>4. Positions(q)
    BY <1>1, <2>0 DEF OkConn, Positions
  <2>5. OkConn(q)
    BY <1>1, <2>0, <2>2, <2>3, <2>4 DEF OkConn
  <2> QED BY <2>0, <2>1, <2>5, BecomesInv
<1>7. CASE WriteSucceeds(c)
  <2>1. PICK sent \in {r.sent \o r.out} \cup (IF r.mixed THEN {r.sent} ELSE {}) :
          Becomes(c, [r EXCEPT !.wp = IF r.wp = "close" THEN "exit" ELSE "select",
                               !.out = << >>, !.sent = sent])
    BY <1>7 DEF WriteSucceeds
  <2> DEFINE wp == IF r.wp = "close" THEN "exit" ELSE "select"
             q == [r EXCEPT !.wp = wp, !.out = << >>, !.sent = sent]
  <2>2. /\ sent \in Seq(Msgs) /\ (~r.mixed => sent = r.sent \o r.out)
        /\ wp \in {"exit", "select"} /\ (wp = "exit" => r.wp = "close")
        /\ r.wp # "off" /\ ~r.failed
        /\ Len(sent) \in Nat /\ Len(sent) <= Len(r.sent) + Len(r.out)
    <3>1. r.sent \o r.out \in Seq(Msgs) /\ Len(r.sent \o r.out) = Len(r.sent) + Len(r.out)
      BY <1>1
    <3>2. sent = r.sent \o r.out \/ (r.mixed /\ sent = r.sent)
      BY <2>1
    <3>3. r.wp # "off" /\ ~r.failed
      BY <1>7 DEF WriteSucceeds, Writing
    <3>4. sent \in Seq(Msgs) /\ (~r.mixed => sent = r.sent \o r.out)
      BY <1>1, <3>1, <3>2
    <3>5. Len(sent) \in Nat /\ Len(sent) <= Len(r.sent) + Len(r.out)
      <4> DEFINE a == Len(r.sent)
                 b == Len(r.out)
                 n == Len(sent)
      <4>1. a \in Nat /\ b \in Nat
        BY <1>1
      <4>2. n = a + b \/ n = a
        BY <3>1, <3>2
      <4> HIDE DEF a, b, n
      <4>3. n \in Nat /\ n <= a + b
        BY <4>1, <4>2
      <4> QED BY <4>3 DEF a, b, n
    <3> QED BY <3>3, <3>4, <3>5
  <2>3. sent \o << >> \o r.queue = sent \o r.queue
    BY <2>2
  <2> HIDE DEF wp
  <2>4. /\ q \in Conn /\ q.wp = wp /\ q.out = << >> /\ q.sent = sent /\ q.rp = r.rp
        /\ q.got = r.got /\ q.queue = r.queue /\ q.answers = r.answers
        /\ q.failed = r.failed /\ q.mixed = r.mixed /\ q.open = r.open /\ q.ctx = r.ctx
    BY <1>1, <2>2 DEF Conn
  <2>5. Becomes(c, q)
    BY <2>1 DEF wp
  <2> HIDE DEF q
  <2>6. Delivered(q)
    <3> SUFFICES ASSUME ~q.mixed
                 PROVE  /\ Seqs!IsPrefix(q.sent, q.answers)
                        /\ q.answers = q.sent \o q.out \o q.queue
      BY DEF Delivered
    <3>1. r.answers = r.sent \o r.out \o r.queue /\ sent = r.sent \o r.out
      BY <1>1, <2>2, <2>4 DEF OkConn, Delivered
    <3>2. q.answers = q.sent \o q.out \o q.queue /\ q.answers = q.sent \o q.queue
      BY <3>1, <2>3, <2>4
    <3>3. q.sent \in Seq(Msgs) /\ q.queue \in Seq(Msgs)
      BY <1>1, <2>2, <2>4
    <3>4. Seqs!IsPrefix(q.sent, q.sent \o q.queue)
      BY <3>3, PrefixConcat
    <3> QED BY <3>2, <3>4
  <2>7. Counted(q)
    <3> DEFINE s == Len(r.sent)
               o == Len(r.out)
               u == Len(r.queue)
               n == Len(r.answers)
    <3>1. s \in Nat /\ o \in Nat /\ u \in Nat /\ n \in Nat
      BY <1>1
    <3>2. s + o + u <= n
      BY <1>1 DEF OkConn, Counted
    <3>3. /\ Len(q.sent) \in Nat /\ Len(q.sent) <= s + o /\ Len(q.out) = 0
          /\ Len(q.queue) = u /\ Len(q.answers) = n
      BY <2>2, <2>4
    <3> HIDE DEF s, o, u, n
    <3> QED BY <3>1, <3>2, <3>3 DEF Counted
  <2>8. Positions(q)
    BY <1>1, <2>2, <2>4 DEF OkConn, Positions
  <2>9. OkConn(q)
    BY <1>1, <2>4, <2>6, <2>7, <2>8 DEF OkConn
  <2> QED BY <2>4, <2>5, <2>9, BecomesInv
<1> QED BY <1>2, <1>4, <1>5, <1>6, <1>7 DEF WriterStep

(* Add and Remove, the only writers of the map. *)
LEMMA MapInv ==
  ASSUME WsInv, NEW c \in Conns, Add(c) \/ Remove(c)
  PROVE  WsInv'
<1> DEFINE r == conn[c]
<1>1. /\ OkConn(r) /\ r \in Conn /\ StationOf \in [Conns -> Stations]
      /\ conn \in [Conns -> Conn] /\ connections \in [Stations -> Conns \cup {None}]
      /\ None \notin Conns
  BY WsAssumption DEF WsInv, OkConn
<1>2. PICK q, v : /\ OkConn(q) /\ conn' = [conn EXCEPT ![c] = q]
                  /\ connections' = [connections EXCEPT ![StationOf[c]] = v]
                  /\ (v = None /\ q.rp \notin Served) \/ (v = c /\ q.rp \notin Outside)
                  /\ q.rp \notin Fresh
                  /\ UNCHANGED <<ping, alive, load>>
  <2>1. CASE Add(c)
    <3> DEFINE q == [r EXCEPT !.rp = "read", !.wp = "select"]
    <3>1. q \in Conn /\ Positions(q) /\ q.rp \notin Outside /\ q.rp \notin Fresh
      BY <1>1, <2>1 DEF Add, OkConn, Positions, Conn, Outside, Fresh
    <3>2. /\ q.queue = r.queue /\ q.out = r.out /\ q.sent = r.sent /\ q.answers = r.answers
          /\ q.failed = r.failed /\ q.mixed = r.mixed
      BY <1>1 DEF Conn
    <3>3. OkConn(q)
      BY <1>1, <3>1, <3>2, SameAnswers
    <3> QED BY <3>1, <3>3, <2>1 DEF Add
  <2>2. CASE Remove(c)
    <3> DEFINE q == [r EXCEPT !.rp = "cancel"]
    <3>1. q \in Conn /\ Positions(q) /\ q.rp \notin Served /\ q.rp \notin Fresh
      BY <1>1, <2>2 DEF Remove, OkConn, Positions, Conn, Served, Fresh
    <3>2. OkConn(q)
      BY <1>1, <3>1, SameAnswers DEF Conn
    <3>3. conn' = [conn EXCEPT ![c] = q]
      BY <2>2 DEF Remove
    <3> QED BY <3>1, <3>2, <3>3, <2>2 DEF Remove
  <2> QED BY <2>1, <2>2
<1>3. conn' \in [Conns -> Conn] /\ \A d \in Conns : OkConn(conn'[d])
  BY <1>1, <1>2 DEF WsInv, OkConn
<1>4. connections' \in [Stations -> Conns \cup {None}]
  BY <1>1, <1>2
<1>5. ASSUME NEW st \in Stations, connections'[st] # None
      PROVE  /\ StationOf[connections'[st]] = st
             /\ conn'[connections'[st]].rp \notin Outside
  <2>1. CASE st = StationOf[c]
    BY <2>1, <1>1, <1>2, <1>5
  <2>2. CASE st # StationOf[c]
    <3>1. /\ connections'[st] = connections[st] /\ connections[st] \in Conns
          /\ StationOf[connections[st]] = st /\ conn[connections[st]].rp \notin Outside
      BY <2>2, <1>1, <1>2, <1>5 DEF WsInv, RegisteredIsOpen, Outside
    <3>2. connections[st] # c
      BY <2>2, <3>1
    <3> QED BY <3>1, <3>2, <1>1, <1>2
  <2> QED BY <2>1, <2>2
<1>6. ASSUME NEW d \in Conns, conn'[d].rp \in Served, connections'[StationOf[d]] # d
      PROVE  \E e \in Conns \ {d} : StationOf[e] = StationOf[d] /\ conn'[e].rp \notin Fresh
  <2>1. d # c
    BY <1>1, <1>2, <1>6
  <2>2. conn'[d] = conn[d] /\ conn'[c].rp \notin Fresh
    BY <2>1, <1>1, <1>2
  <2>3. CASE StationOf[d] = StationOf[c]
    BY <2>1, <2>2, <2>3
  <2>4. CASE StationOf[d] # StationOf[c]
    <3>1. connections'[StationOf[d]] = connections[StationOf[d]]
      BY <2>4, <1>1, <1>2
    <3>2. PICK e \in Conns \ {d} : StationOf[e] = StationOf[d] /\ conn[e].rp \notin Fresh
      BY <3>1, <2>2, <1>6 DEF WsInv, RegisteredIsOpen, Serving, Served, Fresh
    <3>3. conn'[e].rp \notin Fresh
      BY <3>2, <2>2, <1>1, <1>2
    <3> QED BY <3>2, <3>3
  <2> QED BY <2>3, <2>4
<1>7. RegisteredIsOpen'
  BY <1>5, <1>6 DEF RegisteredIsOpen, Serving, Served, Fresh, Outside
<1> QED BY <1>2, <1>3, <1>4, <1>7 DEF WsInv

(* The ping loop changes nothing of a connection but that a write failed or
   overlapped. *)
LEMMA PingerInv ==
  ASSUME WsInv, PingTick \/ PingerStep
  PROVE  WsInv' /\ \A d \in Conns : conn'[d].rp = conn[d].rp
<1>1. conn \in [Conns -> Conn] /\ \A d \in Conns : OkConn(conn[d]) /\ conn[d] \in Conn
  BY DEF WsInv, OkConn
<1> DEFINE Goal == WsInv' /\ \A d \in Conns : conn'[d].rp = conn[d].rp
<1>2. ASSUME NEW c \in Conns, NEW q, OkConn(q), q.rp = conn[c].rp,
             conn' = [conn EXCEPT ![c] = q], ping' \in PingType,
             UNCHANGED <<connections, alive, load>>
      PROVE  Goal
  <2>1. conn' \in [Conns -> Conn] /\ \A d \in Conns : OkConn(conn'[d])
    BY <1>1, <1>2 DEF OkConn
  <2>2. \A d \in Conns : conn'[d].rp = conn[d].rp
    BY <1>1, <1>2
  <2>3. RegisteredIsOpen'
    BY <2>2, <1>2, MapKept
  <2> QED BY <2>1, <2>2, <2>3, <1>2 DEF WsInv
<1>3. ASSUME ping' \in PingType, UNCHANGED <<conn, connections, alive, load>>
      PROVE  Goal
  <2>1. RegisteredIsOpen'
    BY <1>3, MapKept
  <2> QED BY <2>1, <1>3 DEF WsInv
<1>4. CASE PingTick
  <2>1. ping' \in PingType /\ UNCHANGED <<conn, connections, alive, load>>
    BY <1>4 DEF PingTick, PingType, WsInv
  <2> QED BY <2>1, <1>3
<1>5. CASE PingRoundEnds
  <2>1. ping' \in PingType /\ UNCHANGED <<conn, connections, alive, load>>
    BY <1>5 DEF PingRoundEnds, PingType, WsInv
  <2> QED BY <2>1, <1>3
<1>6. ASSUME NEW c \in Conns, Ping(c) PROVE Goal
  <2> DEFINE m == conn[c].mixed \/ (conn[c].wp \in Writing /\ ~conn[c].failed)
             q == [conn[c] EXCEPT !.mixed = m]
  <2>1. m \in BOOLEAN /\ (conn[c].mixed => m)
    BY <1>1 DEF Conn
  <2>2. conn' = [conn EXCEPT ![c] = q]
    BY <1>6, <1>1 DEF Ping
  <2> HIDE DEF m
  <2>3. q \in Conn /\ Positions(q) /\ q.rp = conn[c].rp /\ (conn[c].mixed => q.mixed)
    BY <2>1, <1>1 DEF OkConn, Positions, Conn
  <2>4. OkConn(q)
    BY <1>1, <2>3, SameAnswers DEF Conn
  <2>5. ping' \in PingType /\ UNCHANGED <<connections, alive, load>>
    BY <1>6 DEF Ping, PingType, WsInv
  <2> QED BY <2>2, <2>3, <2>4, <2>5, <1>2
<1>7. CASE PingEnds
  <2>1. ping.cur \in Conns /\ ping' \in PingType /\ UNCHANGED <<connections, alive, load>>
    BY <1>7 DEF PingEnds, PingType, WsInv
  <2> DEFINE q == [conn[ping.cur] EXCEPT !.failed = TRUE]
  <2>2. q \in Conn /\ Positions(q) /\ q.rp = conn[ping.cur].rp
    BY <2>1, <1>1 DEF OkConn, Positions, Conn
  <2>3. OkConn(q)
    BY <2>1, <2>2, <1>1, SameAnswers DEF Conn
  <2>4. CASE conn' = [conn EXCEPT ![ping.cur].failed = TRUE]
    <3>1. conn' = [conn EXCEPT ![ping.cur] = q]
      BY <2>4, <2>1, <1>1
    <3> QED BY <3>1, <2>1, <2>2, <2>3, <1>2
  <2>5. CASE UNCHANGED conn
    BY <2>1, <2>5, <1>3
  <2> QED BY <2>4, <2>5, <1>7 DEF PingEnds
<1> QED BY <1>4, <1>5, <1>6, <1>7 DEF PingerStep

(* The invariant is inductive. *)
LEMMA WsNextInv ==
  ASSUME WsInv, [WsNext]_wsVars
  PROVE  WsInv'
<1>1. CASE Panic \/ UNCHANGED wsVars
  BY <1>1 DEF Panic, wsVars, WsInv, RegisteredIsOpen, Serving
<1> QED BY <1>1, ReaderInv, WriterInv, MapInv, PingerInv DEF WsNext

(* A step in which a reader leaves the position before Send is that Send. *)
LEMMA LeavesSend ==
  ASSUME WsInv, WsNext, NEW c \in Conns, conn[c].rp = "send", conn'[c].rp # "send"
  PROVE  Send(c)
<1>1. conn \in [Conns -> Conn] /\ conn[c] \in Conn
  BY DEF WsInv
<1>2. ASSUME NEW d \in Conns, NEW r, Becomes(d, r), r.rp = conn[d].rp
      PROVE  FALSE
  BY <1>1, <1>2 DEF Becomes
<1>3. ASSUME NEW d \in Conns, WriterStep(d) \/ PeerGone(d)
      PROVE  FALSE
  <2>1. conn[d] \in Conn
    BY <1>1
  <2>2. ASSUME NEW kind, NEW r, r.rp = conn[d].rp, r \in Conn, WriteBegins(d, kind, r)
        PROVE  FALSE
    BY <2>2, <1>2 DEF WriteBegins, Conn
  <2>3. CASE TakeAnswer(d)
    <3> DEFINE r == [conn[d] EXCEPT !.out = <<Head(conn[d].queue)>>, !.queue = Tail(@)]
    <3>1. WriteBegins(d, "text", r) /\ conn[d].queue # << >>
      BY <2>3 DEF TakeAnswer
    <3>2. conn[d].queue \in Seq(Msgs)
      BY <2>1 DEF Conn
    <3>3. <<Head(conn[d].queue)>> \in Seq(Msgs) /\ Tail(conn[d].queue) \in Seq(Msgs)
      BY <3>1, <3>2
    <3>4. r \in Conn /\ r.rp = conn[d].rp
      BY <2>1, <3>3 DEF Conn
    <3> HIDE DEF r
    <3> QED BY <3>1, <3>4, <2>2
  <2>4. CASE SendClosed(d) \/ Ticker(d)
    BY <2>1, <2>2, <2>4 DEF SendClosed, Ticker
  <2>5. CASE ContextDone(d)
    BY <2>1, <2>5, <1>2 DEF ContextDone, Conn
  <2>6. CASE WriteFails(d)
    BY <2>1, <2>6, <1>2 DEF WriteFails, Conn
  <2>7. CASE PeerGone(d)
    BY <2>1, <2>7, <1>2 DEF PeerGone, Conn
  <2>8. CASE WriteSucceeds(d)
    <3>1. PICK sent : Becomes(d, [conn[d] EXCEPT !.wp = IF conn[d].wp = "close" THEN "exit" ELSE "select",
                                                 !.out = << >>, !.sent = sent])
      BY <2>8 DEF WriteSucceeds
    <3> QED BY <2>1, <3>1, <1>2 DEF Conn
  <2> QED BY <1>3, <2>3, <2>4, <2>5, <2>6, <2>7, <2>8 DEF WriterStep
<1>4. ASSUME NEW d \in Conns,
             \/ HandleWS(d) \/ Add(d) \/ ReadMessage(d) \/ ReadFails(d) \/ Remove(d)
             \/ Process(d) \/ CloseSend(d) \/ CloseSocket(d) \/ Cancel(d)
      PROVE  FALSE
  <2>1. conn[d].rp # "send" /\ \E r : conn' = [conn EXCEPT ![d] = r]
    BY <1>4 DEF HandleWS, Add, ReadMessage, ReadFails, Remove, Process, CloseSend,
                CloseSocket, Cancel, Becomes
  <2>2. d # c
    BY <2>1
  <2> QED BY <2>1, <2>2, <1>1
<1>5. ASSUME NEW d \in Conns, Send(d)
      PROVE  Send(c)
  <2>1. \E r : conn' = [conn EXCEPT ![d] = r]
    BY <1>5 DEF Send, Becomes
  <2>2. d = c
    BY <2>1, <1>1
  <2> QED BY <2>2, <1>5
<1>6. CASE PingTick \/ PingerStep
  BY <1>6, PingerInv
<1>7. CASE Panic
  BY <1>7 DEF Panic
<1> QED BY <1>3, <1>4, <1>5, <1>6, <1>7 DEF WsNext, ReaderStep

(* An answer that Send does not accept finds the channel full of answers
   that were accepted and not written. *)
LEMMA SendOrBehind ==
  ASSUME WsInv, NEW c \in Conns, Send(c)
  PROVE  \/ conn'[c].answers = Append(conn[c].answers, conn[c].got)
         \/ Len(conn[c].answers) - Len(conn[c].sent) >= Cap
<1> DEFINE r == conn[c]
<1>1. /\ OkConn(r) /\ r \in Conn /\ conn \in [Conns -> Conn]
      /\ r.queue \in Seq(Msgs) /\ r.sent \in Seq(Msgs) /\ r.out \in Seq(Msgs)
      /\ r.answers \in Seq(Msgs) /\ Cap \in Nat
  BY WsAssumption DEF WsInv, OkConn, Conn
<1>2. CASE Len(r.queue) < Cap
  <2>1. conn' = [conn EXCEPT ![c] =
                   [r EXCEPT !.rp = "read", !.queue = Append(@, r.got),
                             !.answers = Append(@, r.got)]]
    BY <1>2 DEF Send, Becomes
  <2> QED BY <2>1, <1>1 DEF Conn
<1>3. CASE ~(Len(r.queue) < Cap)
  <2> DEFINE s == Len(r.sent)
             o == Len(r.out)
             u == Len(r.queue)
             n == Len(r.answers)
  <2>1. s \in Nat /\ o \in Nat /\ u \in Nat /\ n \in Nat
    BY <1>1
  <2>2. s + o + u <= n
    BY <1>1 DEF OkConn, Counted
  <2>3. ~(u < Cap) /\ Cap \in Nat
    BY <1>1, <1>3
  <2> HIDE DEF s, o, u, n
  <2>4. n - s >= Cap
    BY <2>1, <2>2, <2>3
  <2> QED BY <2>4 DEF s, n
<1> QED BY <1>2, <1>3

(* Type correctness, including that the channel keeps to its capacity. *)
THEOREM WsTyped == WsSpec => []WsTypeOK
<1>1. WsInv => WsTypeOK
  BY DEF WsInv, WsTypeOK, PingType, OkConn
<1> QED BY <1>1, WsInitInv, WsNextInv, PTL DEF WsSpec

(* A station gets a prefix of the answers that were accepted for it; until a
   write fails, a Close frame is sent or the socket is closed none of them is
   lost, and a writer that ends has written them all; the map holds only
   connections whose cleanup has not passed Remove, and every one that serves
   unless its station opened another. *)
THEOREM WsDelivers == WsSpec => [](AnswersDelivered /\ RegisteredIsOpen)
<1>1. WsInv => AnswersDelivered /\ RegisteredIsOpen
  <2> SUFFICES ASSUME WsInv PROVE AnswersDelivered
    BY DEF WsInv
  <2> SUFFICES ASSUME NEW c \in Conns, ~conn[c].mixed
               PROVE  /\ Seqs!IsPrefix(conn[c].sent, conn[c].answers)
                      /\ ~conn[c].failed =>
                           /\ conn[c].answers = conn[c].sent \o conn[c].out \o conn[c].queue
                           /\ conn[c].wp \in {"off", "exit"} =>
                                ~Serving(c) /\ conn[c].queue = << >>
    BY DEF AnswersDelivered
  <2>1. OkConn(conn[c])
    BY DEF WsInv
  <2>2. /\ Seqs!IsPrefix(conn[c].sent, conn[c].answers)
        /\ ~conn[c].failed => conn[c].answers = conn[c].sent \o conn[c].out \o conn[c].queue
    BY <2>1 DEF OkConn, Delivered
  <2>3. ~conn[c].failed /\ conn[c].wp \in {"off", "exit"} =>
          ~Serving(c) /\ conn[c].queue = << >>
    BY <2>1 DEF OkConn, Positions, Serving
  <2> QED BY <2>2, <2>3
<1> QED BY <1>1, WsInitInv, WsNextInv, PTL DEF WsSpec

(* Send drops an answer only where as many as the channel holds are accepted
   and not yet written. *)
THEOREM WsDropsLate == WsSpec => DroppedOnlyWhenBehind
<1> DEFINE Late == \A c \in Conns :
             (conn[c].rp = "send" /\ conn'[c].rp # "send") =>
               \/ conn'[c].answers = Append(conn[c].answers, conn[c].got)
               \/ Len(conn[c].answers) - Len(conn[c].sent) >= Cap
<1>1. WsInv /\ [WsNext]_wsVars => [Late]_wsVars
  <2> SUFFICES ASSUME WsInv, WsNext PROVE Late
    OBVIOUS
  <2> QED BY LeavesSend, SendOrBehind
<1>2. WsSpec => []WsInv
  BY WsInitInv, WsNextInv, PTL DEF WsSpec
<1> QED BY <1>1, <1>2, PTL DEF WsSpec, DroppedOnlyWhenBehind

=============================================================================
