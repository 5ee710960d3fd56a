------------------------------ MODULE WsBroadcast ------------------------------
(***************************************************************************)
(* The fills stream of the WebSocket clients: FillBroadcast                *)
(* (ws/broadcast.rs) and the task that ws_market spawns for each client    *)
(* (handlers/ws.rs).                                                       *)
(*                                                                         *)
(* External: tokio's broadcast channel, a ring of Cap messages that never  *)
(* makes the sender wait and tells a receiver that was overtaken that it   *)
(* lagged; and actix_ws, whose session puts every frame, the closing one   *)
(* and a pong too, into a channel of Buffer frames to the socket.          *)
(*                                                                         *)
(* Messages are numbered in the order they are published; 0 is a frame     *)
(* that carries no fill.  RecvError::Closed is left out: the application   *)
(* data of the HTTP server keep a sender as long as the process lives.     *)
(***************************************************************************)
EXTENDS Integers, Sequences, FiniteSets

CONSTANTS
  Clients,
  Readers,       \* the clients that always go on reading
  Cap,           \* CHANNEL_CAPACITY
  Buffer,        \* frames between a session and its socket
  MaxPublished,  \* bound on the fills that are published
  MaxPings       \* bound on the pings of one client

ASSUME BroadcastAssumption ==
  /\ IsFiniteSet(Clients)
  /\ Readers \subseteq Clients
  /\ {Cap, Buffer} \subseteq Nat \ {0}
  /\ {MaxPublished, MaxPings} \subseteq Nat

VARIABLES
  tail,     \* messages published so far
  client,   \* per client: its task, its receiver, its session and its socket
  gauge     \* ws_client_count

vars == <<tail, client, gauge>>

(* task: what the spawned task awaits ("none": there is no task yet, "gone":
   it has returned); open: the peer is connected; from, pos: the receiver's
   first and current position; buf: frames on the way to the socket; got:
   fills the peer has read; pings: pings it has sent. *)
NoClient ==
  [task |-> "none", open |-> FALSE, from |-> 0, pos |-> 0, buf |-> << >>,
   got |-> << >>, pings |-> 0]

Init ==
  /\ tail = 0
  /\ client = [k \in Clients |-> NoClient]
  /\ gauge = 0
-----------------------------------------------------------------------------
(* Mutant of Publish: a channel that makes the sender wait for the slowest
   receiver. *)
PublishWaits ==
  /\ tail < MaxPublished
  /\ \A k \in Clients :
       client[k].task \in {"select", "send", "close", "pong"} => tail - client[k].pos < Cap
  /\ tail' = tail + 1
  /\ UNCHANGED <<client, gauge>>

(* FillBroadcast::publish, called by the fan-out task. *)
Publish ==
  /\ tail < MaxPublished
  /\ tail' = tail + 1
  /\ UNCHANGED <<client, gauge>>

(* ws_market: the receiver starts at the end of the ring. *)
Connect(k) ==
  /\ client[k].task = "none"
  /\ client' = [client EXCEPT ![k] = [@ EXCEPT !.task = "select", !.open = TRUE,
                                               !.from = tail, !.pos = tail]]
  /\ gauge' = gauge + 1
  /\ UNCHANGED tail

(* The task of client k goes on and counts for the gauge as before, or
   returns and is counted no more. *)
Goes(k, task) ==
  /\ client' = [client EXCEPT ![k].task = task]
  /\ UNCHANGED <<tail, gauge>>

Returns(k) ==
  /\ client' = [client EXCEPT ![k].task = "gone"]
  /\ gauge' = gauge - 1
  /\ UNCHANGED tail

(* A frame for client k: the session's channel has room for it and the task
   goes on in its select loop. *)
Frame(k, frame) ==
  /\ client[k].open
  /\ Len(client[k].buf) < Buffer
  /\ client' = [client EXCEPT ![k].buf = Append(@, frame), ![k].task = "select"]
  /\ UNCHANGED <<tail, gauge>>

(* Mutant of Recv: an overtaken receiver goes on with the oldest message. *)
RecvSkips(k) ==
  /\ client[k].task = "select"
  /\ client[k].pos < tail
  /\ client' = [client EXCEPT ![k].task = "send",
                              ![k].pos = IF tail - @ <= Cap THEN @ + 1
                                         ELSE tail - Cap + 1]
  /\ UNCHANGED <<tail, gauge>>

(* rx.recv gives a message, and session.text begins. *)
Recv(k) ==
  /\ client[k].task = "select"
  /\ client[k].pos < tail
  /\ tail - client[k].pos <= Cap
  /\ client' = [client EXCEPT ![k].task = "send", ![k].pos = @ + 1]
  /\ UNCHANGED <<tail, gauge>>

(* rx.recv says Lagged; the client is dropped, session.close begins. *)
Lagged(k) ==
  /\ client[k].task = "select"
  /\ tail - client[k].pos > Cap
  /\ Goes(k, "close")

TextSent(k) ==
  /\ client[k].task = "send"
  /\ Frame(k, client[k].pos)

(* session.text fails, or SLOW_CLIENT_TIMEOUT_MS pass without room. *)
TextFails(k) ==
  /\ client[k].task = "send"
  /\ client[k].open => Len(client[k].buf) >= Buffer
  /\ Goes(k, "close")

(* Mutant of CloseDone: the path returns without the decrement. *)
CloseDoneCounted(k) ==
  /\ client[k].task = "close"
  /\ client[k].open => Len(client[k].buf) < Buffer
  /\ client' = [client EXCEPT ![k].task = "gone"]
  /\ UNCHANGED <<tail, gauge>>

(* Mutant of CloseDone: only room for the frame ends the wait. *)
CloseDoneNeedsRoom(k) ==
  /\ client[k].task = "close"
  /\ Len(client[k].buf) < Buffer
  /\ Returns(k)

(* session.close returns: its frame finds room, or the socket is gone.  No
   timeout bounds the wait. *)
CloseDone(k) ==
  /\ client[k].task = "close"
  /\ client[k].open => Len(client[k].buf) < Buffer
  /\ Returns(k)

(* msg_stream.recv gives a ping; any other frame is ignored. *)
Ping(k) ==
  /\ client[k].task = "select" /\ client[k].open
  /\ client[k].pings < MaxPings
  /\ client' = [client EXCEPT ![k].pings = @ + 1, ![k].task = "pong"]
  /\ UNCHANGED <<tail, gauge>>

(* session.pong returns, again without a timeout. *)
PongSent(k) == client[k].task = "pong" /\ Frame(k, 0)

PongFails(k) ==
  /\ client[k].task = "pong" /\ ~client[k].open
  /\ Returns(k)

(* Mutant of PeerClosed: the path decrements the gauge and goes on to the one
   that decrements it again. *)
PeerClosedTwice(k) ==
  /\ client[k].task = "select" /\ ~client[k].open
  /\ client' = [client EXCEPT ![k].task = "close"]
  /\ gauge' = gauge - 1
  /\ UNCHANGED tail

(* msg_stream.recv gives a Close frame or the end of the stream. *)
PeerClosed(k) ==
  /\ client[k].task = "select" /\ ~client[k].open
  /\ Returns(k)
-----------------------------------------------------------------------------
(* The peer reads a frame from its socket. *)
Read(k) ==
  /\ client[k].open /\ client[k].buf # << >>
  /\ LET frame == Head(client[k].buf)
     IN  client' = [client EXCEPT ![k].buf = Tail(@),
                                  ![k].got = IF frame = 0 THEN @ ELSE Append(@, frame)]
  /\ UNCHANGED <<tail, gauge>>

(* The peer closes the connection, or loses it. *)
Disconnect(k) ==
  /\ client[k].open
  /\ client' = [client EXCEPT ![k].open = FALSE]
  /\ UNCHANGED <<tail, gauge>>
-----------------------------------------------------------------------------
Task(k) ==
  \/ Recv(k) \/ Lagged(k) \/ TextSent(k) \/ TextFails(k) \/ CloseDone(k)
  \/ PongSent(k) \/ PongFails(k) \/ PeerClosed(k)

Peer(k) == Connect(k) \/ Ping(k) \/ Read(k) \/ Disconnect(k)

Next == Publish \/ \E k \in Clients : Task(k) \/ Peer(k)

Spec == Init /\ [][Next]_vars

(* The fan-out task publishes and a client's task runs whenever it can; only
   a reader is sure to read. *)
FairSpec ==
  /\ Spec
  /\ WF_vars(Publish)
  /\ \A k \in Clients : WF_vars(Task(k))
  /\ \A k \in Readers : WF_vars(Read(k))
-----------------------------------------------------------------------------
ClientType ==
  [task : {"none", "select", "send", "close", "pong", "gone"}, open : BOOLEAN,
   from : 0..tail, pos : 0..tail, buf : Seq(0..tail), got : Seq(1..tail),
   pings : 0..MaxPings]

(* The types of the variables; the gauge is a number of clients. *)
TypeOK ==
  /\ tail \in 0..MaxPublished
  /\ client \in [Clients -> ClientType]
  /\ gauge \in 0 .. Cardinality(Clients)

Live(k) == client[k].task \notin {"none", "gone"}

(* The latest fill that client c has read, and the first n frames on their way
   to it. *)
Delivered(c, n) == {c.from + Len(c.got)} \cup {c.buf[j] : j \in 1..n}

(* Fill f is the one after the latest of fs. *)
Follows(f, fs) == f - 1 \in fs /\ \A g \in fs : g < f

(* What client c has read and what is on its way to it are the fills published
   since it connected, in order and without a gap, up to the receiver's
   position. *)
Gapless(c) ==
  /\ c.got = [i \in 1 .. Len(c.got) |-> c.from + i]
  /\ \A i \in 1 .. Len(c.buf) : c.buf[i] # 0 => Follows(c.buf[i], Delivered(c, i - 1))
  /\ c.task = "select" => Follows(c.pos + 1, Delivered(c, Len(c.buf)))

(* No client sees a gap: one that was overtaken is dropped, never resumed behind
   the hole. *)
NoGap == \A k \in Clients : Gapless(client[k])

(* ws_client_count is the number of clients that have a task, whichever of the
   exits the tasks took. *)
GaugeExact == gauge = Cardinality({k \in Clients : Live(k)})

(* Every fill published reaches every connected reader, or the reader's
   connection is closed, whatever the other clients do: one that does not read
   holds up neither the publisher nor the others. *)
ReadersServed ==
  \A k \in Readers :
    Live(k) ~> (~Live(k) \/ client[k].from + Len(client[k].got) = MaxPublished)

(* The task of a client that is gone ends, also when it waits for room in the
   session's channel. *)
GoneReleased ==
  \A k \in Clients : (Live(k) /\ ~client[k].open) ~> ~Live(k)
===============================================================================
