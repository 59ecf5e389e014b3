---------------------------- MODULE TickIpcProofs ----------------------------
(***************************************************************************)
(* The ticks on their way: types, and what the order of the events in a    *)
(* connection is good for.                                                 *)
(*                                                                         *)
(* The argument.  The events in the socket and the queue of the consumer's *)
(* connection are one line.  Writing moves an event along it, receiving    *)
(* takes the first one, publishing appends, a registration appends a       *)
(* snapshot, and whatever closes the connection cuts the line's end off.   *)
(* Along the line the ticks of a symbol do not get older, none is older    *)
(* than what the gateway has, and none is newer than what a poll that is   *)
(* not published yet has read.  While the connection is open, the last     *)
(* event of a symbol is the newest published tick.                         *)
(***************************************************************************)
EXTENDS TickIpc, FiniteSetTheorems, SequenceTheorems, TLAPS

-----------------------------------------------------------------------------
(* Connections *)

LEMMA Bounds ==
  /\ QueueSize \in Nat \ {0} /\ WireSize \in Nat \ {0} /\ MaxTick \in Nat \ {0}
  /\ MaxFaults \in Nat \ {0} /\ None \notin Channels /\ None \notin Symbols
  /\ IsFiniteSet(Symbols)
BY TickAssumption

Fits(c) == Len(c.queue) <= QueueSize /\ Len(c.wire) <= WireSize
Sockets == {c \in Connection : Fits(c)}

LEMMA NoEvents == <<>> \in Seq(Events) /\ Len(<<>>) = 0
BY EmptySeq

LEMMA FreeSocket == Free \in Sockets
<1>1. Free \in Connection BY NoEvents DEF Free, Connection
<1>2. Fits(Free) BY NoEvents, Bounds DEF Free, Fits
<1> QED BY <1>1, <1>2 DEF Sockets

Conn(v, p, q, w) == [server |-> v, peer |-> p, queue |-> q, wire |-> w]

LEMMA Socket ==
  ASSUME NEW v \in {"free", "backlog", "accepted", "open", "closed"}, NEW p \in BOOLEAN,
         NEW q \in Seq(Events), Len(q) <= QueueSize,
         NEW w \in Seq(Events), Len(w) <= WireSize
  PROVE  Conn(v, p, q, w) \in Sockets
BY DEF Sockets, Connection, Fits, Conn

LEMMA SocketParts ==
  ASSUME NEW c \in Sockets
  PROVE  /\ c.server \in {"free", "backlog", "accepted", "open", "closed"}
         /\ c.peer \in BOOLEAN
         /\ c.queue \in Seq(Events) /\ Len(c.queue) <= QueueSize
         /\ c.wire \in Seq(Events) /\ Len(c.wire) <= WireSize
         /\ c = Conn(c.server, c.peer, c.queue, c.wire)
BY DEF Sockets, Connection, Fits, Conn

LEMMA ConnParts ==
  ASSUME NEW v, NEW p, NEW q, NEW w
  PROVE  /\ Conn(v, p, q, w).server = v /\ Conn(v, p, q, w).peer = p
         /\ Conn(v, p, q, w).queue = q /\ Conn(v, p, q, w).wire = w
BY DEF Conn

LEMMA WriteServer ==
  ASSUME NEW v, NEW p, NEW q, NEW w, NEW c, c = Conn(v, p, q, w), NEW x
  PROVE  [c EXCEPT !.server = x] = Conn(x, p, q, w)
BY DEF Conn

LEMMA WritePeer ==
  ASSUME NEW v, NEW p, NEW q, NEW w, NEW c, c = Conn(v, p, q, w), NEW x
  PROVE  [c EXCEPT !.peer = x] = Conn(v, x, q, w)
BY DEF Conn

LEMMA WriteQueue ==
  ASSUME NEW v, NEW p, NEW q, NEW w, NEW c, c = Conn(v, p, q, w), NEW x
  PROVE  [c EXCEPT !.queue = x] = Conn(v, p, x, w)
BY DEF Conn

LEMMA WriteWire ==
  ASSUME NEW v, NEW p, NEW q, NEW w, NEW c, c = Conn(v, p, q, w), NEW x
  PROVE  [c EXCEPT !.wire = x] = Conn(v, p, q, x)
BY DEF Conn

LEMMA Closing ==
  ASSUME NEW c \in Sockets
  PROVE  /\ CloseServer(c) \in Sockets
         /\ CloseServer(c).server \in {"closed", "free"}
         /\ CloseServer(c).queue = <<>>
         /\ CloseServer(c).wire = c.wire \/ CloseServer(c).wire = <<>>
<1> DEFINE d == Conn("closed", c.peer, <<>>, c.wire)
<1>1. d \in Sockets
  <2>1. <<>> \in Seq(Events) /\ Len(<<>>) <= QueueSize BY NoEvents, Bounds
  <2> QED BY <2>1, Socket, SocketParts
<1>2. [c EXCEPT !.server = "closed", !.queue = <<>>] = d
  <2> DEFINE s == [c EXCEPT !.server = "closed"]
  <2>1. s = Conn("closed", c.peer, c.queue, c.wire) BY SocketParts, WriteServer
  <2>2. [s EXCEPT !.queue = <<>>] = d
    <3> HIDE DEF s
    <3> QED BY <2>1, WriteQueue
  <2> QED BY <2>2
<1>3. CloseServer(c) = d \/ CloseServer(c) = Free BY <1>2 DEF CloseServer, Live
<1>4. /\ d.server = "closed" /\ d.queue = <<>> /\ d.wire = c.wire
      /\ Free.server = "free" /\ Free.queue = <<>> /\ Free.wire = <<>>
  BY ConnParts DEF Free
<1> HIDE DEF d
<1> QED BY <1>1, <1>3, <1>4, FreeSocket

(* The consumer's end is closed. *)
LEMMA Hanging ==
  ASSUME NEW c \in Sockets
  PROVE  Live([c EXCEPT !.peer = FALSE, !.wire = <<>>]) \in Sockets
<1> DEFINE d == Conn(c.server, FALSE, c.queue, <<>>)
<1>1. d \in Sockets
  <2>1. <<>> \in Seq(Events) /\ Len(<<>>) <= WireSize BY NoEvents, Bounds
  <2> QED BY <2>1, Socket, SocketParts
<1>2. ASSUME NEW p, NEW w
      PROVE  [c EXCEPT !.peer = p, !.wire = w] = Conn(c.server, p, c.queue, w)
  <2> DEFINE s == [c EXCEPT !.peer = p]
  <2>1. s = Conn(c.server, p, c.queue, c.wire) BY SocketParts, WritePeer
  <2>2. [s EXCEPT !.wire = w] = Conn(c.server, p, c.queue, w)
    <3> HIDE DEF s
    <3> QED BY <2>1, WriteWire
  <2> QED BY <2>2
<1>3. [c EXCEPT !.peer = FALSE, !.wire = <<>>] = d BY <1>2, Zenon
<1> HIDE DEF d
<1> QED BY <1>1, <1>3, FreeSocket DEF Live

LEMMA Put ==
  ASSUME NEW f \in [Channels -> Sockets], NEW k \in Channels, NEW c \in Sockets
  PROVE  /\ [f EXCEPT ![k] = c] \in [Channels -> Sockets]
         /\ [f EXCEPT ![k] = c][k] = c
         /\ \A j \in Channels \ {k} : [f EXCEPT ![k] = c][j] = f[j]
OBVIOUS

(* What each end of a connection writes of it *)
LEMMA PutServer ==
  ASSUME NEW f \in [Channels -> Sockets], NEW k \in Channels, NEW v
  PROVE  [f EXCEPT ![k].server = v]
           = [f EXCEPT ![k] = Conn(v, f[k].peer, f[k].queue, f[k].wire)]
<1> DEFINE r == f[k]
<1>1. r = Conn(r.server, r.peer, r.queue, r.wire) BY SocketParts
<1>2. [r EXCEPT !.server = v] = Conn(v, r.peer, r.queue, r.wire)
  <2> HIDE DEF r
  <2> QED BY <1>1, WriteServer
<1>3. [f EXCEPT ![k].server = v] = [f EXCEPT ![k] = [r EXCEPT !.server = v]] OBVIOUS
<1> QED BY <1>2, <1>3

LEMMA Ends ==
  ASSUME NEW q \in Seq(Events), NEW e \in Events
  PROVE  /\ Append(q, e) \in Seq(Events) /\ Len(Append(q, e)) = Len(q) + 1
         /\ q # <<>> => /\ Head(q) \in Events /\ Tail(q) \in Seq(Events)
                        /\ Len(Tail(q)) = Len(q) - 1
<1> DEFINE S == Events
<1> SUFFICES ASSUME q \in Seq(S), e \in S
             PROVE  /\ Append(q, e) \in Seq(S) /\ Len(Append(q, e)) = Len(q) + 1
                    /\ q # <<>> => /\ Head(q) \in S /\ Tail(q) \in Seq(S)
                                   /\ Len(Tail(q)) = Len(q) - 1
  OBVIOUS
<1> HIDE DEF S
<1> QED BY HeadTailProperties

-----------------------------------------------------------------------------
(* Types *)

LEMMA ChanTyped == TypeOK => chan \in [Channels -> Sockets]
BY DEF TypeOK, Sockets, Fits

LEMMA SocketsTyped ==
  ASSUME NEW f \in [Channels -> Sockets]
  PROVE  /\ f \in [Channels -> Connection]
         /\ \A k \in Channels : Len(f[k].queue) <= QueueSize /\ Len(f[k].wire) <= WireSize
BY DEF Sockets, Fits

LEMMA EventIs ==
  ASSUME NEW e \in Events
  PROVE  e.sym \in Symbols /\ e.tick \in 1..MaxTick /\ e.tick \in Nat /\ e.tick <= MaxTick
BY Bounds DEF Events

LEMMA AnEvent ==
  ASSUME NEW s \in Symbols, NEW n \in 1..MaxTick
  PROVE  /\ [sym |-> s, tick |-> n] \in Events
         /\ [sym |-> s, tick |-> n].sym = s /\ [sym |-> s, tick |-> n].tick = n
BY DEF Events

LEMMA Zeros == NoTicks \in [Symbols -> 0..MaxTick] /\ \A s \in Symbols : NoTicks[s] = 0
BY Bounds DEF NoTicks

(* There are fewer ticks of one symbol than of all. *)
LEMMA RoomForTick ==
  ASSUME TypeOK, NEW s \in Symbols, Tick(s)
  PROVE  market[s] + 1 \in 0..MaxTick
<1> DEFINE T == {st \in Symbols \X (1..MaxTick) : st[2] <= market[st[1]]}
           I == 1..market[s]
           f == [n \in I |-> <<s, n>>]
<1>1. market[s] \in 0..MaxTick /\ market[s] \in Nat /\ MaxTick \in Nat BY Bounds DEF TypeOK
<1>2. IsFiniteSet(T) /\ Cardinality(T) \in Nat
  <2>1. IsFiniteSet(1..MaxTick) BY Bounds, FS_Interval
  <2>2. IsFiniteSet(Symbols \X (1..MaxTick)) BY <2>1, Bounds, FS_Product
  <2>3. T \in SUBSET (Symbols \X (1..MaxTick)) OBVIOUS
  <2> HIDE DEF T
  <2>4. IsFiniteSet(T) BY <2>2, <2>3, FS_Subset
  <2> QED BY <2>4, FS_CardinalityType
<1>3. f \in Injection(I, T)
  <2>1. \A n \in I : <<s, n>> \in T BY <1>1
  <2>2. f \in [I -> T] BY <2>1
  <2>3. \A m, n \in I : f[m] = f[n] => m = n OBVIOUS
  <2> QED BY <2>2, <2>3 DEF Injection, IsInjective
<1>4. Cardinality(I) = market[s]
  <2> DEFINE m == market[s]
  <2>1. m \in Nat /\ m \in Int /\ 1 \in Int BY <1>1
  <2> HIDE DEF m
  <2>2. Cardinality(1..m) = IF 1 > m THEN 0 ELSE m - 1 + 1 BY <2>1, FS_Interval
  <2>3. Cardinality(1..m) = m BY <2>1, <2>2
  <2> QED BY <2>3 DEF m
<1>5. Cardinality(T) < MaxTick BY DEF Tick
<1>6. market[s] <= Cardinality(T)
  <2> HIDE DEF T, I, f
  <2> QED BY <1>2, <1>3, <1>4, FS_Injection
<1> HIDE DEF T
<1> QED BY <1>1, <1>2, <1>5, <1>6

(* A snapshot has the newest tick of every symbol that has one, once. *)
LEMMA SnapshotIs ==
  ASSUME TypeOK, NEW q \in Snapshots
  PROVE  /\ q \in Seq(Events)
         /\ \A i \in 1..Len(q) : /\ q[i].sym \in Symbols /\ latest[q[i].sym] # 0
                                 /\ q[i].tick = latest[q[i].sym]
         /\ \A i, j \in 1..Len(q) : q[i].sym = q[j].sym => i = j
         /\ \A s \in Symbols : latest[s] # 0 => \E i \in 1..Len(q) : q[i].sym = s
<1> DEFINE known == {s \in Symbols : latest[s] # 0}
           n == Cardinality(known)
<1>1. known \in SUBSET Symbols OBVIOUS
<1>2. IsFiniteSet(known) /\ n \in Nat
  <2> HIDE DEF known
  <2> QED BY <1>1, Bounds, FS_Subset, FS_CardinalityType
<1>3. PICK f \in [1..n -> known] :
        /\ \A i, j \in 1..n : f[i] = f[j] => i = j
        /\ q = [i \in 1..n |-> [sym |-> f[i], tick |-> latest[f[i]]]]
  BY DEF Snapshots
<1>4. \A s \in known : latest[s] \in 1..MaxTick BY Bounds DEF TypeOK
<1>5. \A i \in 1..n : f[i] \in Symbols /\ latest[f[i]] # 0 /\ latest[f[i]] \in 1..MaxTick
  BY <1>3, <1>4
<1>6. \A i \in 1..n : /\ q[i] \in Events /\ q[i].sym = f[i] /\ q[i].tick = latest[f[i]]
  BY <1>3, <1>5, AnEvent
<1>7. q \in Seq(Events) /\ Len(q) = n
  <2>1. q \in [1..n -> Events]
    <3>1. DOMAIN q = 1..n /\ q = [i \in 1..n |-> q[i]] BY <1>3
    <3> HIDE DEF n
    <3> QED BY <3>1, <1>6
  <2> HIDE DEF n
  <2>2. q \in Seq(Events) BY <2>1, <1>2, SeqDef
  <2>3. DOMAIN q = 1..n BY <2>1
  <2> QED BY <2>2, <2>3, <1>2, LenProperties
<1>8. \A s \in known : \E i \in 1..n : f[i] = s
  <2> HIDE DEF known
  <2>1. f \in Injection(1..n, known) BY <1>3 DEF Injection, IsInjective
  <2>2. Cardinality(1..n) = n
    <3>1. n \in Int /\ 1 \in Int BY <1>2
    <3> HIDE DEF n
    <3>2. Cardinality(1..n) = IF 1 > n THEN 0 ELSE n - 1 + 1 BY <3>1, FS_Interval
    <3> QED BY <3>2, <1>2
  <2>3. f \in Surjection(1..n, known) BY <2>1, <2>2, <1>2, FS_Injection
  <2> QED BY <2>3 DEF Surjection
<1> HIDE DEF n
<1>9. ASSUME NEW s \in Symbols, latest[s] # 0 PROVE \E i \in 1..Len(q) : q[i].sym = s
  <2>1. s \in known BY <1>9
  <2> QED BY <2>1, <1>8, <1>6, <1>7
<1>a. \A i \in 1..Len(q) : /\ q[i].sym \in Symbols /\ latest[q[i].sym] # 0
                            /\ q[i].tick = latest[q[i].sym]
  BY <1>5, <1>6, <1>7
<1>b. \A i, j \in 1..Len(q) : q[i].sym = q[j].sym => i = j BY <1>3, <1>6, <1>7
<1> QED BY <1>7, <1>9, <1>a, <1>b

(* The types of the ends of the way: the worker's and the gateway's        *)
Numbers ==
  /\ market \in [Symbols -> 0..MaxTick] /\ batch \in [Symbols -> 0..MaxTick]
  /\ latest \in [Symbols -> 0..MaxTick]
Controls ==
  /\ worker \in {"down", "up", "stopping", "exiting"}
  /\ acceptor \in Channels \cup {None} /\ sock \in Channels \cup {None}
  /\ faults \in 0..MaxFaults
Reader ==
  /\ ticks \in [Symbols -> 0..MaxTick] /\ heard \in Events \cup {None}
  /\ browser \in {"out", "joined", "in"} /\ taken \in Events \cup {None}
  /\ shown \in [Symbols -> 0..MaxTick]
Wires == chan \in [Channels -> Sockets]

LEMMA TypeParts == TypeOK <=> Numbers /\ Controls /\ Reader /\ Wires
<1>1. TypeOK => Numbers /\ Controls /\ Reader BY DEF TypeOK, Numbers, Controls, Reader
<1>2. TypeOK => Wires BY ChanTyped DEF Wires
<1>3. Wires => /\ chan \in [Channels -> Connection]
               /\ \A k \in Channels : Len(chan[k].queue) <= QueueSize /\ Len(chan[k].wire) <= WireSize
  BY SocketsTyped DEF Wires
<1>4. Numbers /\ Controls /\ Reader /\ Wires => TypeOK
  BY <1>3 DEF TypeOK, Numbers, Controls, Reader
<1> QED BY <1>1, <1>2, <1>4

LEMMA TypePartsNext == Numbers' /\ Controls' /\ Reader' /\ Wires' => TypeOK'
BY TypeParts, PTL

LEMMA FaultTyped ==
  ASSUME TypeOK, UNCHANGED faults \/ Fault
  PROVE  faults' \in 0..MaxFaults
BY Bounds DEF TypeOK, Fault

LEMMA ClosingAll ==
  ASSUME TypeOK, NEW states, CloseAll(states)
  PROVE  Wires'
BY ChanTyped, Closing DEF CloseAll, Wires

LEMMA NumbersKept ==
  ASSUME TypeOK, [Next]_vars
  PROVE  Numbers'
<1>1. ASSUME NEW s \in Symbols, Tick(s) PROVE Numbers'
  <2>1. market[s] + 1 \in 0..MaxTick BY <1>1, RoomForTick
  <2> QED BY <1>1, <2>1 DEF Tick, TypeOK, Numbers, producer
<1>2. CASE Poll
  <2>1. PICK read \in SUBSET Symbols :
          batch' = [s \in Symbols |-> IF s \in read THEN market[s] ELSE 0]
    BY <1>2 DEF Poll
  <2>2. 0 \in 0..MaxTick BY Bounds
  <2>3. batch' \in [Symbols -> 0..MaxTick] BY <2>1, <2>2 DEF TypeOK
  <2> QED BY <1>2, <2>3 DEF Poll, TypeOK, Numbers
<1>3. ASSUME NEW s \in Symbols, Publish(s) PROVE Numbers'
  <2>1. 0 \in 0..MaxTick BY Bounds
  <2>2. /\ batch' = [batch EXCEPT ![s] = 0] /\ latest' = [latest EXCEPT ![s] = batch[s]]
        /\ UNCHANGED market
    BY <1>3 DEF Publish
  <2> QED BY <2>1, <2>2 DEF TypeOK, Numbers
<1>4. CASE Stop BY <1>4, Zeros DEF Stop, TypeOK, Numbers
<1>5. CASE Exit BY <1>5, Zeros DEF Exit, TypeOK, Numbers
<1>6. CASE UNCHANGED <<market, batch, latest>> BY <1>6 DEF TypeOK, Numbers
<1>7. CASE Start \/ DropClients BY <1>6, <1>7 DEF Start, DropClients
<1>8. CASE Serve BY <1>6, <1>8 DEF Serve, Accept, Register
<1>9. ASSUME NEW k \in Channels, Write(k) PROVE Numbers' BY <1>6, <1>9 DEF Write, producer
<1>10. CASE Consume \/ RestartGateway
  BY <1>6, <1>10 DEF Consume, RestartGateway, Connect, Receive, EmitTick, EndOfStream, producer
<1>11. CASE Subscribe \/ Handle \/ UNCHANGED vars
  BY <1>6, <1>11 DEF Subscribe, Handle, TakeTick, EmitTaken, producer, vars
<1> QED BY <1>1, <1>2, <1>3, <1>4, <1>5, <1>7, <1>8, <1>9, <1>10, <1>11 DEF Next, Produce

LEMMA ControlsKept ==
  ASSUME TypeOK, [Next]_vars
  PROVE  Controls'
<1> USE DEF Controls, TypeOK
<1>1. faults' \in 0..MaxFaults
  <2>1. UNCHANGED faults \/ Fault
    BY DEF Next, Tick, Produce, Start, Poll, Publish, DropClients, Exit, Serve, Accept,
           Register, Stop, Write, Consume, Connect, Receive, EmitTick, EndOfStream,
           RestartGateway, Subscribe, Handle, TakeTick, EmitTaken, vars
  <2> QED BY <2>1, FaultTyped
<1>2. CASE \/ \E s \in Symbols : Tick(s) \/ Publish(s)
           \/ Start \/ Poll \/ Stop \/ DropClients \/ Exit
  BY <1>1, <1>2 DEF Tick, Publish, Start, Poll, Stop, DropClients, Exit, producer, gateway
<1>3. CASE Serve BY <1>1, <1>3 DEF Serve, Accept, Register, gateway
<1>4. CASE Consume \/ RestartGateway
  BY <1>1, <1>4 DEF Consume, RestartGateway, Connect, Receive, EmitTick, EndOfStream, producer
<1>5. CASE Subscribe \/ Handle \/ UNCHANGED vars
  BY <1>1, <1>5 DEF Subscribe, Handle, TakeTick, EmitTaken, producer, gateway, vars
<1>6. ASSUME NEW k \in Channels, Write(k) PROVE Controls'
  BY <1>1, <1>6 DEF Write, producer, gateway
<1> QED BY <1>2, <1>3, <1>4, <1>5, <1>6 DEF Next, Produce

LEMMA ReaderKept ==
  ASSUME TypeOK, [Next]_vars
  PROVE  Reader'
<1>1. CASE UNCHANGED <<ticks, heard, browser, taken, shown>> BY <1>1 DEF TypeOK, Reader
<1>2. CASE Receive
  <2> DEFINE e == Head(chan[sock].wire)
  <2>1. sock \in Channels /\ chan[sock].wire # <<>> BY <1>2 DEF Receive, TypeOK
  <2>2. chan[sock].wire \in Seq(Events) BY <2>1, ChanTyped, SocketParts
  <2>3. e \in Events
    <3> DEFINE q == chan[sock].wire
    <3>1. q \in Seq(Events) /\ q # <<>> BY <2>1, <2>2
    <3> HIDE DEF q
    <3>2. Head(q) \in Events BY <3>1, HeadTailProperties
    <3> QED BY <3>2 DEF q
  <2>4. ticks' = [ticks EXCEPT ![e.sym] = e.tick] /\ heard' = e BY <1>2 DEF Receive
  <2> HIDE DEF e
  <2>5. e.sym \in Symbols /\ e.tick \in 0..MaxTick BY <2>3, EventIs, Bounds
  <2>6. ticks' \in [Symbols -> 0..MaxTick] BY <2>4, <2>5 DEF TypeOK
  <2> QED BY <1>2, <2>3, <2>4, <2>6 DEF Receive, TypeOK, Reader, page
<1>3. CASE EmitTick
  <2>1. heard \in Events BY <1>3 DEF EmitTick, TypeOK
  <2>2. heard.sym \in Symbols /\ heard.tick \in 0..MaxTick BY <2>1, EventIs, Bounds
  <2>3. shown' \in [Symbols -> 0..MaxTick] BY <1>3, <2>2 DEF EmitTick, TypeOK
  <2> QED BY <1>3, <2>3 DEF EmitTick, TypeOK, Reader
<1>4. CASE RestartGateway BY <1>4, Zeros DEF RestartGateway, Reader
<1>5. CASE Subscribe BY <1>5 DEF Subscribe, Reader, TypeOK, gateway
<1>6. CASE \E s \in Symbols : TakeTick(s) BY <1>6 DEF TakeTick, Reader, TypeOK, gateway
<1>7. CASE EmitTaken
  <2>1. taken \in Events BY <1>7 DEF EmitTaken, TypeOK
  <2>2. taken.sym \in Symbols /\ taken.tick \in 0..MaxTick BY <2>1, EventIs, Bounds
  <2>3. shown' \in [Symbols -> 0..MaxTick] BY <1>7, <2>2 DEF EmitTaken, TypeOK
  <2> QED BY <1>7, <2>3 DEF EmitTaken, TypeOK, Reader, gateway
<1>8. CASE \/ \E s \in Symbols : Tick(s) \/ Publish(s)
           \/ Start \/ Poll \/ Stop \/ DropClients \/ Exit
  BY <1>1, <1>8 DEF Tick, Publish, Start, Poll, Stop, DropClients, Exit, gateway, page
<1>9. CASE Serve BY <1>1, <1>9 DEF Serve, Accept, Register, gateway, page
<1>10. CASE EndOfStream \/ \E k \in Channels : Connect(k) \/ Write(k)
  BY <1>1, <1>10 DEF EndOfStream, Connect, Write, gateway, page
<1>11. CASE UNCHANGED vars BY <1>1, <1>11 DEF vars, gateway, page
<1> QED BY <1>2, <1>3, <1>4, <1>5, <1>6, <1>7, <1>8, <1>9, <1>10, <1>11
        DEF Next, Produce, Consume, Handle

-----------------------------------------------------------------------------
(* Lines of events *)

Shorter(M, L) == Len(M) <= Len(L) /\ \A i \in 1..Len(M) : M[i] = L[i]

Sorted(L) ==
  \A i, j \in 1..Len(L) : i < j /\ L[i].sym = L[j].sym => L[i].tick <= L[j].tick
Ahead(L, has) == \A i \in 1..Len(L) : has[L[i].sym] <= L[i].tick
Upto(L, has, s, n) ==
  /\ has[s] <= n
  /\ \A i \in 1..Len(L) : L[i].sym = s => L[i].tick <= n
Newest(L, s, has, n) ==
  \/ \E i \in 1..Len(L) : /\ L[i].sym = s /\ L[i].tick = n
                          /\ \A j \in 1..Len(L) : L[j].sym = s => j <= i
  \/ has[s] = n /\ \A i \in 1..Len(L) : L[i].sym # s

LEMMA Lengths ==
  ASSUME NEW S, NEW L \in Seq(S)
  PROVE  Len(L) \in Nat /\ DOMAIN L = 1..Len(L) /\ \A i \in 1..Len(L) : L[i] \in S
BY LenProperties, ElementOfSeq

LEMMA Moved ==
  ASSUME NEW S, NEW w \in Seq(S), NEW q \in Seq(S), q # <<>>
  PROVE  Append(w, Head(q)) \o Tail(q) = w \o q
<1>1. Head(q) \in S /\ Tail(q) \in Seq(S) /\ Len(Tail(q)) = Len(q) - 1 /\ Len(q) \in Nat
      /\ \A i \in 1..Len(Tail(q)) : Tail(q)[i] = q[i + 1]
  BY HeadTailProperties, LenProperties
<1>2. <<Head(q)>> \in Seq(S) /\ q = <<Head(q)>> \o Tail(q)
  <2>1. <<Head(q)>> \in Seq(S) /\ Len(<<Head(q)>>) = 1 /\ <<Head(q)>>[1] = Head(q) BY <1>1
  <2>2. /\ <<Head(q)>> \o Tail(q) \in Seq(S)
        /\ Len(<<Head(q)>> \o Tail(q)) = Len(q)
        /\ \A i \in 1..Len(q) : (<<Head(q)>> \o Tail(q))[i]
                                  = IF i <= 1 THEN <<Head(q)>>[i] ELSE Tail(q)[i - 1]
    BY <1>1, <2>1, ConcatProperties
  <2>3. Len(q) > 0 /\ q[1] = Head(q) BY <1>1, EmptySeq
  <2>4. \A i \in 1..Len(q) : (<<Head(q)>> \o Tail(q))[i] = q[i]
    BY <1>1, <2>1, <2>2, <2>3
  <2> QED BY <2>1, <2>2, <2>4, SeqEqual
<1>3. Append(w, Head(q)) = w \o <<Head(q)>> BY <1>1, AppendIsConcat
<1>4. (w \o <<Head(q)>>) \o Tail(q) = w \o (<<Head(q)>> \o Tail(q))
  BY <1>1, <1>2, ConcatAssociative
<1> QED BY <1>2, <1>3, <1>4

LEMMA Lengthened ==
  ASSUME NEW S, NEW w \in Seq(S), NEW q \in Seq(S), NEW e \in S
  PROVE  w \o Append(q, e) = Append(w \o q, e)
<1>1. <<e>> \in Seq(S) /\ w \o q \in Seq(S) BY ConcatProperties
<1>2. Append(q, e) = q \o <<e>> /\ Append(w \o q, e) = (w \o q) \o <<e>>
  BY <1>1, AppendIsConcat
<1>3. (w \o q) \o <<e>> = w \o (q \o <<e>>) BY <1>1, ConcatAssociative
<1> QED BY <1>2, <1>3

LEMMA Shortened ==
  ASSUME NEW S, NEW w \in Seq(S), NEW q \in Seq(S), w # <<>>
  PROVE  LET L == w \o q  M == Tail(w) \o q IN
         /\ Len(L) \in Nat /\ 0 < Len(L) /\ L[1] = Head(w) /\ Len(M) = Len(L) - 1
         /\ \A i \in 1..Len(M) : M[i] = L[i + 1]
<1>1. /\ Tail(w) \in Seq(S) /\ Len(Tail(w)) = Len(w) - 1
      /\ \A i \in 1..Len(Tail(w)) : Tail(w)[i] = w[i + 1]
  BY HeadTailProperties
<1>2. Len(w) \in Nat /\ Len(q) \in Nat /\ 0 < Len(w) /\ Head(w) = w[1]
  BY LenProperties, EmptySeq
<1>3. /\ Len(w \o q) = Len(w) + Len(q)
      /\ \A i \in 1..Len(w) + Len(q) : (w \o q)[i] = IF i <= Len(w) THEN w[i] ELSE q[i - Len(w)]
  BY ConcatProperties
<1>4. /\ Len(Tail(w) \o q) = Len(w) - 1 + Len(q)
      /\ \A i \in 1..Len(w) - 1 + Len(q) :
           (Tail(w) \o q)[i] = IF i <= Len(w) - 1 THEN Tail(w)[i] ELSE q[i - (Len(w) - 1)]
  <2>1. /\ Len(Tail(w) \o q) = Len(Tail(w)) + Len(q)
        /\ \A i \in 1..Len(Tail(w)) + Len(q) :
             (Tail(w) \o q)[i] = IF i <= Len(Tail(w)) THEN Tail(w)[i] ELSE q[i - Len(Tail(w))]
    BY <1>1, ConcatProperties
  <2> QED BY <1>1, <2>1
<1>5. ASSUME NEW i \in 1..Len(w) - 1 + Len(q) PROVE (Tail(w) \o q)[i] = (w \o q)[i + 1]
  BY <1>1, <1>2, <1>3, <1>4
<1> QED BY <1>2, <1>3, <1>4, <1>5

LEMMA Cut ==
  ASSUME NEW S, NEW w \in Seq(S), NEW q \in Seq(S)
  PROVE  Shorter(w \o <<>>, w \o q) /\ Shorter(<<>> \o <<>>, w \o q)
<1>1. w \o <<>> = w /\ <<>> \in Seq(S) BY ConcatEmptySeq, EmptySeq
<1>2. <<>> \o <<>> = <<>> /\ Len(<<>>) = 0 BY ConcatEmptySeq, EmptySeq
<1>3. /\ Len(w) \in Nat /\ Len(q) \in Nat /\ Len(w \o q) = Len(w) + Len(q)
      /\ \A i \in 1..Len(w) + Len(q) : (w \o q)[i] = IF i <= Len(w) THEN w[i] ELSE q[i - Len(w)]
  BY ConcatProperties, LenProperties
<1>4. Shorter(w, w \o q) BY <1>3 DEF Shorter
<1>5. Shorter(<<>>, w \o q) BY <1>2, <1>3 DEF Shorter
<1> QED BY <1>1, <1>2, <1>4, <1>5

(* What holds along a line holds along a part of it that begins with it, *)
LEMMA CutKeeps ==
  ASSUME NEW L \in Seq(Events), NEW M \in Seq(Events), Shorter(M, L),
         NEW has \in [Symbols -> 0..MaxTick]
  PROVE  /\ Sorted(L) => Sorted(M)
         /\ Ahead(L, has) => Ahead(M, has)
         /\ \A s \in Symbols, n \in 0..MaxTick : Upto(L, has, s, n) => Upto(M, has, s, n)
<1>1. Len(L) \in Nat /\ Len(M) \in Nat BY Lengths
<1>2. \A i \in 1..Len(M) : i \in 1..Len(L) /\ M[i] = L[i] BY <1>1 DEF Shorter
<1>3. ASSUME Sorted(L), NEW i \in 1..Len(M), NEW j \in 1..Len(M), i < j, M[i].sym = M[j].sym
      PROVE  M[i].tick <= M[j].tick
  <2>1. i \in 1..Len(L) /\ j \in 1..Len(L) /\ M[i] = L[i] /\ M[j] = L[j] BY <1>2
  <2> QED BY <1>3, <2>1 DEF Sorted
<1>4. Ahead(L, has) => Ahead(M, has) BY <1>2 DEF Ahead
<1>5. \A s \in Symbols, n \in 0..MaxTick : Upto(L, has, s, n) => Upto(M, has, s, n)
  BY <1>2 DEF Upto
<1> QED BY <1>3, <1>4, <1>5 DEF Sorted

(* ... along what is left when the first event is taken, *)
LEMMA TakenKeeps ==
  ASSUME NEW L \in Seq(Events), NEW M \in Seq(Events), 0 < Len(L), Len(M) = Len(L) - 1,
         \A i \in 1..Len(M) : M[i] = L[i + 1],
         NEW has \in [Symbols -> 0..MaxTick], NEW had \in [Symbols -> 0..MaxTick],
         has = [had EXCEPT ![L[1].sym] = L[1].tick]
  PROVE  /\ Sorted(L) => Sorted(M)
         /\ Sorted(L) /\ Ahead(L, had) => Ahead(M, has)
         /\ \A s \in Symbols, n \in 0..MaxTick : Upto(L, had, s, n) => Upto(M, has, s, n)
         /\ \A s \in Symbols, n \in 0..MaxTick : Newest(L, s, had, n) => Newest(M, s, has, n)
<1>1. Len(L) \in Nat /\ Len(M) \in Nat /\ \A i \in 1..Len(L) : L[i] \in Events BY Lengths
<1>2. \A i \in 1..Len(L) : L[i].sym \in Symbols /\ L[i].tick \in Nat BY <1>1, EventIs
<1>3. 1 \in 1..Len(L) /\ \A i \in 1..Len(M) : i + 1 \in 1..Len(L) BY <1>1
<1>4. Sorted(L) => Sorted(M)
  <2> SUFFICES ASSUME Sorted(L), NEW i \in 1..Len(M), NEW j \in 1..Len(M), i < j,
                      M[i].sym = M[j].sym
               PROVE  M[i].tick <= M[j].tick
    BY DEF Sorted
  <2>1. /\ i + 1 \in 1..Len(L) /\ j + 1 \in 1..Len(L) /\ i + 1 < j + 1
        /\ M[i] = L[i + 1] /\ M[j] = L[j + 1]
    BY <1>1, <1>3
  <2> DEFINE a == i + 1
             b == j + 1
  <2>2. a \in 1..Len(L) /\ b \in 1..Len(L) /\ a < b /\ M[i] = L[a] /\ M[j] = L[b] BY <2>1
  <2> HIDE DEF a, b
  <2> QED BY <2>2 DEF Sorted
<1>5. Sorted(L) /\ Ahead(L, had) => Ahead(M, has)
  <2> SUFFICES ASSUME Sorted(L), Ahead(L, had), NEW i \in 1..Len(M)
               PROVE  has[M[i].sym] <= M[i].tick
    BY DEF Ahead
  <2>1. M[i] = L[i + 1] /\ i + 1 \in 1..Len(L) /\ 1 < i + 1 BY <1>1, <1>3
  <2>2. CASE L[1].sym = L[i + 1].sym
    <3>1. L[1].tick <= L[i + 1].tick BY <1>3, <2>1, <2>2 DEF Sorted
    <3> QED BY <1>2, <1>3, <2>1, <2>2, <3>1
  <2>3. CASE L[1].sym # L[i + 1].sym
    BY <1>2, <2>1, <2>3 DEF Ahead
  <2> QED BY <2>2, <2>3
<1>6. ASSUME NEW s \in Symbols, NEW n \in 0..MaxTick, Upto(L, had, s, n)
      PROVE  Upto(M, has, s, n)
  <2>1. has[s] <= n BY <1>2, <1>3, <1>6 DEF Upto
  <2>2. ASSUME NEW i \in 1..Len(M), M[i].sym = s PROVE M[i].tick <= n
    BY <1>3, <1>6, <2>2 DEF Upto
  <2> QED BY <2>1, <2>2 DEF Upto
<1>7. ASSUME NEW s \in Symbols, NEW n \in 0..MaxTick, Newest(L, s, had, n)
      PROVE  Newest(M, s, has, n)
  <2>1. CASE has[s] = n /\ \A i \in 1..Len(M) : M[i].sym # s BY <2>1 DEF Newest
  <2>2. CASE \A i \in 1..Len(L) : L[i].sym # s
    BY <1>2, <1>3, <1>7, <2>2, <2>1 DEF Newest
  <2>3. ASSUME NEW i \in 1..Len(L), L[i].sym = s, L[i].tick = n,
               \A j \in 1..Len(L) : L[j].sym = s => j <= i
        PROVE  Newest(M, s, has, n)
    <3>1. CASE i = 1
      <4>1. has[s] = n BY <1>2, <2>3, <3>1
      <4>2. ASSUME NEW j \in 1..Len(M), M[j].sym = s PROVE FALSE
        <5>1. j + 1 \in 1..Len(L) /\ L[j + 1].sym = s BY <1>3, <4>2
        <5>2. j + 1 <= 1 BY <5>1, <2>3, <3>1
        <5> QED BY <5>2
      <4> QED BY <4>1, <4>2, <2>1
    <3>2. CASE i # 1
      <4>1. i - 1 \in 1..Len(M) /\ (i - 1) + 1 = i BY <1>1, <3>2
      <4>2. M[i - 1] = L[i] BY <4>1
      <4>3. ASSUME NEW j \in 1..Len(M), M[j].sym = s PROVE j <= i - 1
        <5>1. j + 1 \in 1..Len(L) /\ L[j + 1].sym = s BY <1>3, <4>3
        <5>2. j + 1 <= i BY <5>1, <2>3
        <5> QED BY <5>2
      <4> QED BY <4>1, <4>2, <4>3, <2>3 DEF Newest
    <3> QED BY <3>1, <3>2
  <2> QED BY <1>7, <2>2, <2>3 DEF Newest
<1> QED BY <1>4, <1>5, <1>6, <1>7

(* ... and along a line that is extended by what is not older. *)
LEMMA AppendKeeps ==
  ASSUME NEW L \in Seq(Events), NEW e \in Events,
         NEW has \in [Symbols -> 0..MaxTick], Upto(L, has, e.sym, e.tick)
  PROVE  LET M == Append(L, e) IN
         /\ Sorted(L) => Sorted(M)
         /\ Ahead(L, has) => Ahead(M, has)
         /\ \A s \in Symbols, n \in 0..MaxTick :
              Upto(L, has, s, n) /\ (s = e.sym => e.tick <= n) => Upto(M, has, s, n)
         /\ \A s \in Symbols, n \in 0..MaxTick :
              s # e.sym /\ Newest(L, s, has, n) => Newest(M, s, has, n)
         /\ Newest(M, e.sym, has, e.tick)
<1> DEFINE M == Append(L, e)
<1>1. Len(L) \in Nat /\ \A i \in 1..Len(L) : L[i] \in Events BY Lengths
<1>2. e.sym \in Symbols /\ e.tick \in Nat BY EventIs
<1>3. Len(M) = Len(L) + 1 /\ M[Len(L) + 1] = e /\ \A i \in 1..Len(L) : M[i] = L[i]
  <2> DEFINE S == Events
  <2>1. L \in Seq(S) /\ e \in S OBVIOUS
  <2> HIDE DEF S
  <2> QED BY <2>1, AppendProperties
<1>4. \A i \in 1..Len(M) : i \in 1..Len(L) \/ i = Len(L) + 1 BY <1>1, <1>3
<1>5. Len(L) + 1 \in 1..Len(M) /\ \A i \in 1..Len(L) : i \in 1..Len(M) BY <1>1, <1>3
<1> HIDE DEF M
<1>6. Sorted(L) => Sorted(M)
  <2> SUFFICES ASSUME Sorted(L), NEW i \in 1..Len(M), NEW j \in 1..Len(M), i < j,
                      M[i].sym = M[j].sym
               PROVE  M[i].tick <= M[j].tick
    BY DEF Sorted
  <2>1. i \in 1..Len(L) BY <1>1, <1>3, <1>4
  <2>2. CASE j \in 1..Len(L) BY <1>3, <2>1, <2>2 DEF Sorted
  <2>3. CASE j = Len(L) + 1 BY <1>3, <2>1, <2>3 DEF Upto
  <2> QED BY <1>4, <2>2, <2>3
<1>7. Ahead(L, has) => Ahead(M, has) BY <1>2, <1>3, <1>4 DEF Ahead, Upto
<1>8. ASSUME NEW s \in Symbols, NEW n \in 0..MaxTick, Upto(L, has, s, n), s = e.sym => e.tick <= n
      PROVE  Upto(M, has, s, n)
  BY <1>3, <1>4, <1>8 DEF Upto
<1>9. ASSUME NEW s \in Symbols, NEW n \in 0..MaxTick, s # e.sym, Newest(L, s, has, n)
      PROVE  Newest(M, s, has, n)
  <2>1. CASE has[s] = n /\ \A i \in 1..Len(L) : L[i].sym # s
    BY <1>3, <1>4, <1>9, <2>1 DEF Newest
  <2>2. ASSUME NEW i \in 1..Len(L), L[i].sym = s, L[i].tick = n,
               \A j \in 1..Len(L) : L[j].sym = s => j <= i
        PROVE  Newest(M, s, has, n)
    <3>1. i \in 1..Len(M) /\ M[i] = L[i] BY <1>3, <1>5
    <3>2. \A j \in 1..Len(M) : M[j].sym = s => j <= i BY <1>3, <1>4, <1>9, <2>2
    <3> QED BY <2>2, <3>1, <3>2 DEF Newest
  <2> QED BY <1>9, <2>1, <2>2 DEF Newest
<1>10. Newest(M, e.sym, has, e.tick)
  <2>1. \A j \in 1..Len(M) : j <= Len(L) + 1 BY <1>1, <1>3
  <2> QED BY <1>3, <1>5, <2>1 DEF Newest
<1> QED BY <1>6, <1>7, <1>8, <1>9, <1>10 DEF M

(* A snapshot is not older than a line, if its ticks are not. *)
LEMMA SnapshotKeeps ==
  ASSUME NEW w \in Seq(Events), NEW q \in Seq(Events),
         NEW has \in [Symbols -> 0..MaxTick], NEW new \in [Symbols -> 0..MaxTick],
         \A i \in 1..Len(q) : new[q[i].sym] # 0 /\ q[i].tick = new[q[i].sym],
         \A i, j \in 1..Len(q) : q[i].sym = q[j].sym => i = j,
         \A s \in Symbols : new[s] # 0 =>
           Upto(w, has, s, new[s]) /\ \E i \in 1..Len(q) : q[i].sym = s
  PROVE  LET M == w \o q IN
         /\ Sorted(w) => Sorted(M)
         /\ Ahead(w, has) => Ahead(M, has)
         /\ \A s \in Symbols, n \in 0..MaxTick :
              Upto(w, has, s, n) /\ new[s] <= n => Upto(M, has, s, n)
         /\ \A s \in Symbols : new[s] # 0 => Newest(M, s, has, new[s])
<1> DEFINE M == w \o q
<1>1. Len(w) \in Nat /\ Len(q) \in Nat /\ \A i \in 1..Len(w) : w[i] \in Events BY Lengths
<1>2. \A i \in 1..Len(w) : w[i].sym \in Symbols /\ w[i].tick \in Nat BY <1>1, EventIs
<1>3. \A i \in 1..Len(q) : q[i].sym \in Symbols /\ q[i].tick \in Nat BY Lengths, EventIs
<1>4. /\ Len(M) = Len(w) + Len(q)
      /\ \A i \in 1..Len(w) : M[i] = w[i]
      /\ \A i \in 1..Len(q) : M[Len(w) + i] = q[i]
  <2>1. /\ Len(M) = Len(w) + Len(q)
        /\ \A i \in 1..Len(w) + Len(q) : M[i] = IF i <= Len(w) THEN w[i] ELSE q[i - Len(w)]
    BY ConcatProperties
  <2>2. \A i \in 1..Len(q) : Len(w) + i \in 1..Len(w) + Len(q) /\ ~(Len(w) + i <= Len(w))
                             /\ (Len(w) + i) - Len(w) = i
    BY <1>1
  <2>3. \A i \in 1..Len(w) : i \in 1..Len(w) + Len(q) /\ i <= Len(w) BY <1>1
  <2> HIDE DEF M
  <2> QED BY <2>1, <2>2, <2>3
<1> HIDE DEF M
<1>5. \A i \in 1..Len(M) : i \in 1..Len(w) \/ \E j \in 1..Len(q) : i = Len(w) + j
  <2> SUFFICES ASSUME NEW i \in 1..Len(M), i \notin 1..Len(w)
               PROVE  \E j \in 1..Len(q) : i = Len(w) + j
    OBVIOUS
  <2>1. i - Len(w) \in 1..Len(q) /\ i = Len(w) + (i - Len(w)) BY <1>1, <1>4
  <2> QED BY <2>1
<1>6. ASSUME NEW i \in 1..Len(w), NEW j \in 1..Len(q), w[i].sym = q[j].sym
      PROVE  w[i].tick <= q[j].tick
  BY <1>2, <1>3, <1>6 DEF Upto
<1>7. Sorted(w) => Sorted(M)
  <2> SUFFICES ASSUME Sorted(w), NEW i \in 1..Len(M), NEW j \in 1..Len(M), i < j,
                      M[i].sym = M[j].sym
               PROVE  M[i].tick <= M[j].tick
    BY DEF Sorted
  <2>1. CASE j \in 1..Len(w)
    <3>1. i \in 1..Len(w) BY <1>1, <1>4, <2>1
    <3>2. M[i] = w[i] /\ M[j] = w[j] BY <1>4, <2>1, <3>1
    <3> QED BY <2>1, <3>1, <3>2 DEF Sorted
  <2>2. ASSUME NEW b \in 1..Len(q), j = Len(w) + b PROVE M[i].tick <= M[j].tick
    <3>1. M[j] = q[b] BY <1>4, <2>2
    <3>2. CASE i \in 1..Len(w)
      <4>1. M[i] = w[i] /\ w[i].sym = q[b].sym BY <1>4, <3>1, <3>2
      <4>2. w[i].tick <= q[b].tick BY <1>6, <3>2, <4>1
      <4> QED BY <3>1, <4>1, <4>2
    <3>3. ASSUME NEW a \in 1..Len(q), i = Len(w) + a PROVE FALSE
      <4>1. M[i] = q[a] BY <1>4, <3>3
      <4>2. a = b BY <3>1, <4>1
      <4> QED BY <1>1, <2>2, <3>3, <4>2
    <3> QED BY <1>5, <3>2, <3>3
  <2> QED BY <1>5, <2>1, <2>2
<1>8. Ahead(w, has) => Ahead(M, has)
  <2> SUFFICES ASSUME Ahead(w, has), NEW i \in 1..Len(M) PROVE has[M[i].sym] <= M[i].tick
    BY DEF Ahead
  <2>1. CASE i \in 1..Len(w) BY <1>4, <2>1 DEF Ahead
  <2>2. ASSUME NEW b \in 1..Len(q), i = Len(w) + b PROVE has[M[i].sym] <= M[i].tick
    <3>1. M[i] = q[b] BY <1>4, <2>2
    <3> QED BY <1>3, <3>1 DEF Upto
  <2> QED BY <1>5, <2>1, <2>2
<1>9. ASSUME NEW s \in Symbols, NEW n \in 0..MaxTick, Upto(w, has, s, n), new[s] <= n
      PROVE  Upto(M, has, s, n)
  <2> SUFFICES ASSUME NEW i \in 1..Len(M), M[i].sym = s PROVE M[i].tick <= n
    BY <1>9 DEF Upto
  <2>1. CASE i \in 1..Len(w) BY <1>4, <1>9, <2>1 DEF Upto
  <2>2. ASSUME NEW b \in 1..Len(q), i = Len(w) + b PROVE M[i].tick <= n
    <3>1. M[i] = q[b] BY <1>4, <2>2
    <3> QED BY <1>9, <3>1
  <2> QED BY <1>5, <2>1, <2>2
<1>10. ASSUME NEW s \in Symbols, new[s] # 0 PROVE Newest(M, s, has, new[s])
  <2>1. PICK b \in 1..Len(q) : q[b].sym = s BY <1>10
  <2>2. M[Len(w) + b] = q[b] /\ Len(w) + b \in 1..Len(M) BY <1>1, <1>4
  <2>3. q[b].tick = new[s] BY <2>1
  <2>4. ASSUME NEW j \in 1..Len(M), M[j].sym = s PROVE j <= Len(w) + b
    <3>1. CASE j \in 1..Len(w) BY <1>1, <3>1
    <3>2. ASSUME NEW a \in 1..Len(q), j = Len(w) + a PROVE j <= Len(w) + b
      <4>1. M[j] = q[a] BY <1>4, <3>2
      <4>2. a = b BY <2>1, <2>4, <4>1
      <4> QED BY <1>1, <3>2, <4>2
    <3> QED BY <1>5, <3>1, <3>2
  <2> QED BY <2>1, <2>2, <2>3, <2>4 DEF Newest
<1> QED BY <1>7, <1>8, <1>9, <1>10 DEF M

-----------------------------------------------------------------------------
(* The consumer's connection *)

LineOf(c) == c.wire \o c.queue
Line == IF sock = None THEN <<>> ELSE LineOf(chan[sock])
Open == sock # None /\ chan[sock].server = "open"

Ordered ==
  /\ Sorted(Line) /\ Ahead(Line, ticks)
  /\ \A s \in Symbols :
       /\ Upto(Line, ticks, s, market[s]) /\ latest[s] <= market[s] /\ batch[s] <= market[s]
       /\ latest[s] # 0 => Upto(Line, ticks, s, latest[s])
       /\ batch[s] # 0 => Upto(Line, ticks, s, batch[s]) /\ latest[s] <= batch[s]

Current ==
  Open => \A s \in Symbols : latest[s] # 0 => Newest(Line, s, ticks, latest[s])

LineInv == Ordered /\ Current

LEMMA LineOfIs ==
  ASSUME NEW c \in Sockets
  PROVE  LineOf(c) \in Seq(Events)
BY SocketParts, ConcatProperties DEF LineOf

LEMMA LineTyped == TypeOK => Line \in Seq(Events)
BY ChanTyped, LineOfIs, NoEvents DEF Line, TypeOK

LEMMA LineTypedNext ==
  Wires' /\ sock' \in Channels \cup {None} => Line' \in Seq(Events)
BY LineOfIs, NoEvents DEF Line, Wires

LEMMA ShorterItself ==
  ASSUME NEW L \in Seq(Events)
  PROVE  Shorter(L, L) /\ Shorter(<<>>, L)
BY Lengths, NoEvents DEF Shorter

(* The worker's steps that publish nothing, or give up what they have not  *)
(* published, keep the line, or what a closed connection leaves of it.     *)
LEMMA LineKept ==
  ASSUME TypeOK, LineInv, Wires', Numbers', sock' \in Channels \cup {None},
         Shorter(Line', Line), Open' => Open /\ Line' = Line,
         UNCHANGED ticks,
         \A s \in Symbols : /\ market[s] <= market'[s]
                            /\ latest'[s] \in {latest[s], 0} /\ batch'[s] \in {batch[s], 0}
  PROVE  LineInv'
<1> DEFINE L == Line
           M == Line'
<1>1. L \in Seq(Events) /\ M \in Seq(Events) BY LineTyped, LineTypedNext
<1>2. ticks \in [Symbols -> 0..MaxTick] /\ ticks' = ticks BY DEF TypeOK
<1>3. /\ Sorted(L) => Sorted(M)
      /\ Ahead(L, ticks) => Ahead(M, ticks)
      /\ \A s \in Symbols, n \in 0..MaxTick : Upto(L, ticks, s, n) => Upto(M, ticks, s, n)
  <2> HIDE DEF L, M
  <2>1. Shorter(M, L) BY DEF L, M
  <2> QED BY <1>1, <1>2, <2>1, CutKeeps
<1>4. /\ Sorted(L) /\ Ahead(L, ticks)
      /\ \A s \in Symbols :
           /\ Upto(L, ticks, s, market[s]) /\ latest[s] <= market[s] /\ batch[s] <= market[s]
           /\ latest[s] # 0 => Upto(L, ticks, s, latest[s])
           /\ batch[s] # 0 => Upto(L, ticks, s, batch[s]) /\ latest[s] <= batch[s]
  BY DEF LineInv, Ordered
<1>5. \A s \in Symbols : /\ market[s] \in 0..MaxTick /\ latest[s] \in 0..MaxTick
                         /\ batch[s] \in 0..MaxTick /\ market'[s] \in 0..MaxTick
                         /\ ticks[s] \in 0..MaxTick
                         /\ latest'[s] \in 0..MaxTick /\ batch'[s] \in 0..MaxTick
  BY DEF TypeOK, Numbers
<1>6. Sorted(M) /\ Ahead(M, ticks') BY <1>2, <1>3, <1>4
<1>7. ASSUME NEW s \in Symbols
      PROVE  /\ Upto(M, ticks, s, market'[s])
             /\ latest'[s] <= market'[s] /\ batch'[s] <= market'[s]
             /\ latest'[s] # 0 => Upto(M, ticks, s, latest'[s])
             /\ batch'[s] # 0 => Upto(M, ticks, s, batch'[s]) /\ latest'[s] <= batch'[s]
  <2> HIDE DEF L, M
  <2>1. Upto(M, ticks, s, market[s]) BY <1>3, <1>4, <1>5
  <2>2. \A i \in 1..Len(M) : M[i].tick \in Nat BY <1>1, Lengths, EventIs
  <2>3. market[s] <= market'[s] OBVIOUS
  <2>4. Upto(M, ticks, s, market'[s]) BY <2>1, <2>2, <2>3, <1>5, Bounds DEF Upto
  <2>5. latest'[s] # 0 => Upto(M, ticks, s, latest'[s])
    <3>1. latest'[s] \in {latest[s], 0} OBVIOUS
    <3> QED BY <3>1, <1>3, <1>4, <1>5
  <2>6. batch'[s] # 0 => Upto(M, ticks, s, batch'[s]) /\ latest'[s] <= batch'[s]
    <3>1. latest'[s] \in {latest[s], 0} /\ batch'[s] \in {batch[s], 0} OBVIOUS
    <3>2. 0 <= batch[s] BY <1>5
    <3> QED BY <3>1, <3>2, <1>3, <1>4, <1>5
  <2>7. latest'[s] <= market'[s] /\ batch'[s] <= market'[s]
    <3>1. latest'[s] \in {latest[s], 0} /\ batch'[s] \in {batch[s], 0} OBVIOUS
    <3> QED BY <3>1, <2>3, <1>4, <1>5, Bounds
  <2> QED BY <2>4, <2>5, <2>6, <2>7
<1>8. Ordered' BY <1>2, <1>6, <1>7 DEF Ordered
<1>9. ASSUME Open', NEW s \in Symbols, latest'[s] # 0
      PROVE  Newest(Line', s, ticks', latest'[s])
  <2>1. latest'[s] = latest[s] /\ Line' = Line /\ Open BY <1>9
  <2> QED BY <2>1, <1>2, <1>9 DEF LineInv, Current
<1> QED BY <1>8, <1>9 DEF LineInv, Current

LEMMA Cutting ==
  ASSUME NEW c \in Sockets
  PROVE  Shorter(LineOf(CloseServer(c)), LineOf(c)) /\ CloseServer(c).server # "open"
<1> DEFINE S == Events
<1>1. c.wire \in Seq(S) /\ c.queue \in Seq(S) BY SocketParts
<1>2. Shorter(c.wire \o <<>>, c.wire \o c.queue) /\ Shorter(<<>> \o <<>>, c.wire \o c.queue)
  <2> HIDE DEF S
  <2> QED BY <1>1, Cut
<1> QED BY <1>2, Closing DEF LineOf

(* Connections are left alone or closed by their server. *)
LEMMA LineCut ==
  ASSUME TypeOK, LineInv, Wires', Numbers', UNCHANGED sock,
         \A k \in Channels : chan'[k] = chan[k] \/ chan'[k] = CloseServer(chan[k]),
         UNCHANGED ticks,
         \A s \in Symbols : /\ market[s] <= market'[s]
                            /\ latest'[s] \in {latest[s], 0} /\ batch'[s] \in {batch[s], 0}
  PROVE  LineInv'
<1>1. CASE sock = None
  <2>1. Line' = Line /\ Line = <<>> /\ ~Open' BY <1>1 DEF Line, Open
  <2>2. Shorter(Line', Line) BY <2>1, ShorterItself, NoEvents
  <2> QED BY <2>1, <2>2, LineKept DEF TypeOK
<1>2. CASE sock # None
  <2>1. sock \in Channels /\ chan[sock] \in Sockets BY <1>2, ChanTyped DEF TypeOK
  <2>2. Line = LineOf(chan[sock]) /\ Line' = LineOf(chan'[sock]) BY <1>2 DEF Line
  <2>3. Line \in Seq(Events) BY LineTyped
  <2>4. CASE chan'[sock] = chan[sock]
    <3>1. Line' = Line /\ Open' = Open BY <2>2, <2>4 DEF Open
    <3>2. Shorter(Line', Line) BY <3>1, <2>3, ShorterItself
    <3> QED BY <3>1, <3>2, LineKept DEF TypeOK
  <2>5. CASE chan'[sock] = CloseServer(chan[sock])
    <3>1. Shorter(Line', Line) /\ ~Open' BY <2>1, <2>2, <2>5, Cutting DEF Open
    <3> QED BY <3>1, LineKept DEF TypeOK
  <2> QED BY <2>1, <2>4, <2>5
<1> QED BY <1>1, <1>2

(* One connection is written. *)
LEMMA OneWritten ==
  ASSUME TypeOK, UNCHANGED sock, NEW k \in Channels, NEW c \in Sockets,
         chan' = [chan EXCEPT ![k] = c]
  PROVE  /\ Wires'
         /\ sock # k => Line' = Line /\ Open' = Open
         /\ sock = k => Line = LineOf(chan[k]) /\ Line' = LineOf(c) /\ (Open' <=> c.server = "open")
         /\ \A j \in Channels : j # k => chan'[j] = chan[j]
         /\ chan'[k] = c
<1>1. chan \in [Channels -> Sockets] BY ChanTyped
<1>2. /\ chan' \in [Channels -> Sockets] /\ chan'[k] = c
      /\ \A j \in Channels \ {k} : chan'[j] = chan[j]
  BY <1>1, Put
<1>3. k # None /\ sock \in Channels \cup {None} BY Bounds DEF TypeOK
<1>4. ASSUME sock # k PROVE Line' = Line /\ Open' = Open
  <2>1. CASE sock = None BY <2>1 DEF Line, Open
  <2>2. CASE sock # None BY <2>2, <1>2, <1>3, <1>4 DEF Line, Open
  <2> QED BY <2>1, <2>2
<1>5. ASSUME sock = k
      PROVE  Line = LineOf(chan[k]) /\ Line' = LineOf(c) /\ (Open' <=> c.server = "open")
  BY <1>2, <1>3, <1>5 DEF Line, Open
<1> QED BY <1>2, <1>4, <1>5 DEF Wires

-----------------------------------------------------------------------------
(* Every step keeps the connections typed and the line in order. *)

LEMMA StillSame ==
  ASSUME TypeOK, LineInv, Numbers', UNCHANGED <<chan, sock, ticks>>,
         \A s \in Symbols : /\ market[s] <= market'[s]
                            /\ latest'[s] \in {latest[s], 0} /\ batch'[s] \in {batch[s], 0}
  PROVE  Wires' /\ LineInv'
<1>1. Wires' BY ChanTyped DEF Wires
<1> QED BY <1>1, LineCut

LEMMA NumbersAre ==
  ASSUME TypeOK, NEW s \in Symbols
  PROVE  /\ market[s] \in Nat /\ latest[s] \in Nat /\ batch[s] \in Nat /\ ticks[s] \in Nat
         /\ market[s] \in 0..MaxTick /\ latest[s] \in 0..MaxTick
         /\ batch[s] \in 0..MaxTick /\ ticks[s] \in 0..MaxTick
BY Bounds DEF TypeOK

LEMMA UnmovedLine ==
  ASSUME TypeOK, LineInv, UNCHANGED <<market, batch, latest, chan, sock, ticks>>
  PROVE  Wires' /\ LineInv'
<1>1. Numbers' BY DEF TypeOK, Numbers
<1>2. \A s \in Symbols : market[s] <= market'[s] BY NumbersAre
<1> QED BY <1>1, <1>2, StillSame

LEMMA TickLine ==
  ASSUME TypeOK, LineInv, Numbers', NEW s \in Symbols, Tick(s)
  PROVE  Wires' /\ LineInv'
<1>1. \A u \in Symbols : market[u] <= market'[u]
  BY NumbersAre DEF Tick, TypeOK
<1> QED BY <1>1, StillSame DEF Tick, producer, gateway

LEMMA PollLine ==
  ASSUME TypeOK, LineInv, Numbers', Poll
  PROVE  Wires' /\ LineInv'
<1>1. UNCHANGED <<market, latest, chan, sock, ticks>> BY DEF Poll, gateway
<1>2. \A s \in Symbols : batch'[s] \in {market[s], 0} BY DEF Poll
<1>3. Line' = Line /\ Open' = Open BY <1>1 DEF Line, Open
<1>4. ASSUME NEW s \in Symbols, batch'[s] # 0
      PROVE  Upto(Line', ticks', s, batch'[s]) /\ latest'[s] <= batch'[s]
  BY <1>1, <1>2, <1>3, <1>4 DEF LineInv, Ordered
<1>5. \A s \in Symbols : batch'[s] <= market'[s] BY <1>1, <1>2, NumbersAre
<1>6. Ordered' BY <1>1, <1>3, <1>4, <1>5 DEF LineInv, Ordered
<1>7. Current' BY <1>1, <1>3 DEF LineInv, Current
<1>8. Wires' BY <1>1, ChanTyped DEF Wires
<1> QED BY <1>6, <1>7, <1>8 DEF LineInv

LEMMA Queued ==
  ASSUME NEW c \in Sockets, NEW e \in Events, Len(c.queue) < QueueSize
  PROVE  /\ [c EXCEPT !.queue = Append(@, e)] \in Sockets
         /\ LineOf([c EXCEPT !.queue = Append(@, e)]) = Append(LineOf(c), e)
         /\ [c EXCEPT !.queue = Append(@, e)].server = c.server
<1> DEFINE q == Append(c.queue, e)
           d == Conn(c.server, c.peer, q, c.wire)
<1>1. q \in Seq(Events) /\ Len(q) = Len(c.queue) + 1 BY SocketParts, Ends
<1>2. Len(c.queue) \in Nat BY SocketParts, Lengths
<1>3. d \in Sockets
  <2>1. Len(q) <= QueueSize BY <1>1, <1>2, Bounds
  <2> HIDE DEF q
  <2> QED BY <1>1, <2>1, Socket, SocketParts
<1>4. [c EXCEPT !.queue = q] = d
  <2> HIDE DEF q
  <2> QED BY SocketParts, WriteQueue
<1>5. d.wire = c.wire /\ d.queue = q /\ d.server = c.server
  <2> HIDE DEF q
  <2> QED BY ConnParts
<1>6. c.wire \o q = Append(c.wire \o c.queue, e)
  <2> DEFINE S == Events
             w == c.wire
             v == c.queue
  <2>1. w \in Seq(S) /\ v \in Seq(S) /\ e \in S BY SocketParts
  <2>2. w \o Append(v, e) = Append(w \o v, e)
    <3> HIDE DEF S, w, v
    <3> QED BY <2>1, Lengthened
  <2> QED BY <2>2
<1> HIDE DEF d
<1> QED BY <1>3, <1>4, <1>5, <1>6 DEF LineOf

LEMMA PublishLine ==
  ASSUME TypeOK, LineInv, Numbers', NEW s \in Symbols, Publish(s)
  PROVE  Wires' /\ LineInv'
<1> DEFINE e == [sym |-> s, tick |-> batch[s]]
<1>1. /\ batch[s] # 0 /\ batch' = [batch EXCEPT ![s] = 0]
      /\ latest' = [latest EXCEPT ![s] = batch[s]] /\ UNCHANGED <<market, sock, ticks>>
      /\ chan' = [k \in Channels |->
           IF k \notin Clients THEN chan[k]
           ELSE IF Len(chan[k].queue) < QueueSize
             THEN [chan[k] EXCEPT !.queue = Append(@, e)]
           ELSE CloseServer(chan[k])]
  BY DEF Publish, gateway
<1>2. e \in Events /\ e.sym = s /\ e.tick = batch[s]
  BY <1>1, NumbersAre, AnEvent, Bounds
<1> HIDE DEF e
<1>3. \A k \in Channels : chan[k] \in Sockets BY ChanTyped
<1>4. ASSUME NEW k \in Channels PROVE chan'[k] \in Sockets
  BY <1>1, <1>2, <1>3, Queued, Closing
<1>5. Wires'
  <2>1. chan' = [k \in Channels |-> chan'[k]] BY <1>1
  <2> QED BY <2>1, <1>4 DEF Wires
<1>6. ticks' = ticks /\ ticks \in [Symbols -> 0..MaxTick] BY <1>1 DEF TypeOK
<1>7. /\ Line \in Seq(Events) /\ Line' \in Seq(Events)
  BY <1>1, <1>5, LineTyped, LineTypedNext DEF TypeOK
<1>8. Ordered BY DEF LineInv
<1>9. /\ Sorted(Line) /\ Ahead(Line, ticks) /\ Upto(Line, ticks, s, batch[s])
      /\ latest[s] <= batch[s]
  BY <1>1, <1>8 DEF Ordered
<1>10. ASSUME Sorted(Line'), Ahead(Line', ticks),
              \A u \in Symbols, n \in 0..MaxTick :
                Upto(Line, ticks, u, n) /\ (u = s => batch[s] <= n) => Upto(Line', ticks, u, n)
       PROVE  Ordered'
  <2>1. \A u \in Symbols : /\ u # s => latest'[u] = latest[u] /\ batch'[u] = batch[u]
                           /\ u = s => latest'[u] = batch[s] /\ batch'[u] = 0
    BY <1>1 DEF TypeOK
  <2>2. ASSUME NEW u \in Symbols
        PROVE  /\ Upto(Line', ticks, u, market[u]) /\ latest'[u] <= market[u]
               /\ batch'[u] <= market[u]
               /\ latest'[u] # 0 => Upto(Line', ticks, u, latest'[u])
               /\ batch'[u] # 0 => Upto(Line', ticks, u, batch'[u]) /\ latest'[u] <= batch'[u]
    <3>1. batch[s] <= market[s] BY <1>8 DEF Ordered
    <3>2. Upto(Line', ticks, u, market[u]) BY <1>8, <1>10, <3>1, NumbersAre DEF Ordered
    <3>3. CASE u = s
      <4>1. Upto(Line', ticks, s, batch[s]) BY <1>9, <1>10, NumbersAre
      <4> QED BY <2>1, <3>1, <3>2, <3>3, <4>1, NumbersAre
    <3>4. CASE u # s
      <4>1. latest[u] # 0 => Upto(Line', ticks, u, latest[u])
        BY <1>8, <1>10, <3>4, NumbersAre DEF Ordered
      <4>2. batch[u] # 0 => Upto(Line', ticks, u, batch[u])
        BY <1>8, <1>10, <3>4, NumbersAre DEF Ordered
      <4> QED BY <2>1, <3>2, <3>4, <4>1, <4>2, <1>8 DEF Ordered
    <3> QED BY <3>3, <3>4
  <2> QED BY <1>1, <1>6, <1>10, <2>2 DEF Ordered
<1>11. CASE Shorter(Line', Line) /\ ~Open'
  <2>1. /\ Sorted(Line) => Sorted(Line')
        /\ Ahead(Line, ticks) => Ahead(Line', ticks)
        /\ \A u \in Symbols, n \in 0..MaxTick : Upto(Line, ticks, u, n) => Upto(Line', ticks, u, n)
    BY <1>6, <1>7, <1>11, CutKeeps
  <2>2. Ordered' BY <2>1, <1>9, <1>10
  <2> QED BY <1>5, <1>11, <2>2 DEF LineInv, Current
<1>12. CASE Line' = Append(Line, e) /\ Open
  <2>1. Upto(Line, ticks, e.sym, e.tick) BY <1>2, <1>9
  <2>2. LET M == Append(Line, e) IN
        /\ Sorted(Line) => Sorted(M)
        /\ Ahead(Line, ticks) => Ahead(M, ticks)
        /\ \A u \in Symbols, n \in 0..MaxTick :
             Upto(Line, ticks, u, n) /\ (u = e.sym => e.tick <= n) => Upto(M, ticks, u, n)
        /\ \A u \in Symbols, n \in 0..MaxTick :
             u # e.sym /\ Newest(Line, u, ticks, n) => Newest(M, u, ticks, n)
        /\ Newest(M, e.sym, ticks, e.tick)
    BY <1>2, <1>6, <1>7, <2>1, AppendKeeps
  <2>3. Ordered' BY <2>2, <1>2, <1>9, <1>10, <1>12
  <2>4. ASSUME NEW u \in Symbols, latest'[u] # 0 PROVE Newest(Line', u, ticks, latest'[u])
    <3>1. CASE u = s
      <4>1. latest'[u] = e.tick BY <1>1, <1>2, <3>1 DEF TypeOK
      <4> QED BY <4>1, <2>2, <1>2, <1>12, <3>1
    <3>2. CASE u # s
      <4>1. latest'[u] = latest[u] BY <1>1, <3>2 DEF TypeOK
      <4>2. Newest(Line, u, ticks, latest[u]) BY <2>4, <4>1, <1>12 DEF LineInv, Current
      <4> QED BY <4>1, <4>2, <2>2, <1>2, <1>12, <3>2, NumbersAre
    <3> QED BY <3>1, <3>2
  <2> QED BY <1>5, <1>6, <2>3, <2>4 DEF LineInv, Current
<1>13. CASE sock = None
  <2>1. Line' = Line /\ Line = <<>> /\ ~Open' BY <1>1, <1>13 DEF Line, Open
  <2>2. Shorter(Line', Line) BY <2>1, ShorterItself, NoEvents
  <2> QED BY <2>1, <2>2, <1>11
<1>14. CASE sock # None
  <2>1. sock \in Channels BY <1>14 DEF TypeOK
  <2>2. Line = LineOf(chan[sock]) /\ Line' = LineOf(chan'[sock]) BY <1>1, <1>14 DEF Line
  <2>3. CASE sock \notin Clients
    <3>1. chan'[sock] = chan[sock] BY <1>1, <2>1, <2>3
    <3>2. Line' = Line /\ ~Open' BY <1>1, <2>1, <2>2, <2>3, <3>1 DEF Clients, Open
    <3>3. Shorter(Line', Line) BY <3>2, <1>7, ShorterItself
    <3> QED BY <1>11, <3>2, <3>3
  <2>4. CASE sock \in Clients /\ Len(chan[sock].queue) < QueueSize
    <3>1. chan'[sock] = [chan[sock] EXCEPT !.queue = Append(@, e)] BY <1>1, <2>1, <2>4
    <3>2. Line' = Append(Line, e) BY <3>1, <2>1, <2>2, <2>4, <1>2, <1>3, Queued
    <3>3. Open BY <1>14, <2>4 DEF Clients, Open
    <3> QED BY <1>12, <3>2, <3>3
  <2>5. CASE sock \in Clients /\ ~(Len(chan[sock].queue) < QueueSize)
    <3>1. chan'[sock] = CloseServer(chan[sock]) BY <1>1, <2>1, <2>5
    <3>2. Shorter(Line', Line) /\ ~Open' BY <1>1, <3>1, <2>1, <2>2, <1>3, Cutting DEF Open
    <3> QED BY <1>11, <3>2
  <2> QED BY <2>3, <2>4, <2>5
<1> QED BY <1>13, <1>14

LEMMA AcceptLine ==
  ASSUME TypeOK, LineInv, NEW k \in Channels, Accept(k)
  PROVE  Wires' /\ LineInv'
<1> DEFINE c == Conn("accepted", chan[k].peer, chan[k].queue, chan[k].wire)
<1>1. chan \in [Channels -> Sockets] /\ chan[k] \in Sockets BY ChanTyped
<1>2. c \in Sockets BY <1>1, Socket, SocketParts
<1>3. chan' = [chan EXCEPT ![k] = c]
  <2>1. chan' = [chan EXCEPT ![k].server = "accepted"] BY Zenon DEF Accept
  <2>2. [chan EXCEPT ![k].server = "accepted"] = [chan EXCEPT ![k] = c]
    BY <1>1, PutServer, Zenon
  <2> QED BY <2>1, <2>2, Zenon
<1>4. LineOf(c) = LineOf(chan[k]) /\ c.server = "accepted"
  <2>1. c.wire = chan[k].wire /\ c.queue = chan[k].queue /\ c.server = "accepted" BY ConnParts
  <2> HIDE DEF c
  <2> QED BY <2>1 DEF LineOf
<1> HIDE DEF c
<1>5. UNCHANGED <<market, batch, latest, sock, ticks>> BY DEF Accept, gateway
<1>6. /\ Wires'
      /\ sock # k => Line' = Line /\ Open' = Open
      /\ sock = k => Line = LineOf(chan[k]) /\ Line' = LineOf(c) /\ (Open' <=> c.server = "open")
  BY <1>2, <1>3, <1>5, OneWritten
<1>7. Line' = Line /\ (Open' => Open) BY <1>4, <1>6
<1>8. Shorter(Line', Line) BY <1>7, LineTyped, ShorterItself
<1>9. Numbers' BY <1>5 DEF TypeOK, Numbers
<1>10. sock' \in Channels \cup {None} BY <1>5 DEF TypeOK
<1> QED BY <1>5, <1>6, <1>7, <1>8, <1>9, <1>10, NumbersAre, LineKept

LEMMA Opened ==
  ASSUME NEW c \in Sockets, NEW q \in Seq(Events), Len(q) <= QueueSize
  PROVE  /\ [c EXCEPT !.server = "open", !.queue = q] \in Sockets
         /\ LineOf([c EXCEPT !.server = "open", !.queue = q]) = c.wire \o q
         /\ [c EXCEPT !.server = "open", !.queue = q].server = "open"
<1> DEFINE d == Conn("open", c.peer, q, c.wire)
<1>1. d \in Sockets BY Socket, SocketParts
<1>2. [c EXCEPT !.server = "open", !.queue = q] = d
  <2> DEFINE s == [c EXCEPT !.server = "open"]
  <2>1. s = Conn("open", c.peer, c.queue, c.wire) BY SocketParts, WriteServer
  <2>2. [s EXCEPT !.queue = q] = d
    <3> HIDE DEF s
    <3> QED BY <2>1, WriteQueue
  <2> QED BY <2>2
<1>3. d.wire = c.wire /\ d.queue = q /\ d.server = "open" BY ConnParts
<1> HIDE DEF d
<1> QED BY <1>1, <1>2, <1>3 DEF LineOf

LEMMA RegisterLine ==
  ASSUME TypeOK, LineInv, Register
  PROVE  Wires' /\ LineInv'
<1>1. acceptor \in Channels /\ chan \in [Channels -> Sockets] /\ chan[acceptor] \in Sockets
  BY ChanTyped DEF Register, TypeOK
<1>2. PICK q \in Snapshots :
        chan' = [chan EXCEPT ![acceptor] =
                  IF Len(q) <= QueueSize THEN [@ EXCEPT !.server = "open", !.queue = q]
                                         ELSE CloseServer(@)]
  BY DEF Register
<1>3. UNCHANGED <<market, batch, latest, sock, ticks>> BY DEF Register, gateway
<1>4. Numbers' /\ \A s \in Symbols : market[s] <= market'[s]
  BY <1>3, NumbersAre DEF TypeOK, Numbers
<1>5. CASE ~(Len(q) <= QueueSize)
  <2>1. chan' = [chan EXCEPT ![acceptor] = CloseServer(chan[acceptor])] BY <1>2, <1>5
  <2>2. CloseServer(chan[acceptor]) \in Sockets BY <1>1, Closing
  <2>3. Wires' BY <1>1, <1>3, <2>1, <2>2, OneWritten
  <2>4. \A j \in Channels : chan'[j] = chan[j] \/ chan'[j] = CloseServer(chan[j])
    BY <1>1, <2>1
  <2> QED BY <2>3, <2>4, <1>3, <1>4, LineCut
<1>6. CASE Len(q) <= QueueSize
  <2> DEFINE c == [chan[acceptor] EXCEPT !.server = "open", !.queue = q]
             w == chan[acceptor].wire
  <2>1. /\ q \in Seq(Events)
        /\ \A i \in 1..Len(q) : latest[q[i].sym] # 0 /\ q[i].tick = latest[q[i].sym]
        /\ \A i, j \in 1..Len(q) : q[i].sym = q[j].sym => i = j
        /\ \A s \in Symbols : latest[s] # 0 => \E i \in 1..Len(q) : q[i].sym = s
    BY SnapshotIs
  <2>2. c \in Sockets /\ LineOf(c) = w \o q /\ c.server = "open" BY <1>1, <1>6, <2>1, Opened
  <2>3. chan' = [chan EXCEPT ![acceptor] = c] BY <1>2, <1>6
  <2> HIDE DEF c
  <2>4. /\ Wires'
        /\ sock # acceptor => Line' = Line /\ Open' = Open
        /\ sock = acceptor => Line = LineOf(chan[acceptor]) /\ Line' = LineOf(c)
    BY <1>1, <1>3, <2>2, <2>3, OneWritten
  <2>5. CASE sock # acceptor
    <3>1. Shorter(Line', Line) BY <2>4, <2>5, LineTyped, ShorterItself
    <3>2. sock' \in Channels \cup {None} BY <1>3 DEF TypeOK
    <3> QED BY <1>3, <1>4, <2>4, <2>5, <3>1, <3>2, LineKept
  <2>6. CASE sock = acceptor
    <3>1. Line' = w \o q /\ Line \in Seq(Events) /\ w \in Seq(Events)
      BY <1>1, <2>2, <2>4, <2>6, LineTyped, SocketParts
    <3>2. Shorter(w, Line)
      <4> DEFINE S == Events
                 v == chan[acceptor].queue
      <4>1. w \in Seq(S) /\ v \in Seq(S) BY <1>1, SocketParts
      <4>2. Line = w \o v BY <2>4, <2>6 DEF LineOf
      <4> HIDE DEF S, w, v
      <4>3. w \o <<>> = w BY <4>1, ConcatEmptySeq
      <4> QED BY <4>1, <4>2, <4>3, Cut
    <3> HIDE DEF w
    <3>3. ticks' = ticks /\ ticks \in [Symbols -> 0..MaxTick] /\ latest \in [Symbols -> 0..MaxTick]
      BY <1>3 DEF TypeOK
    <3>4. /\ Sorted(Line) => Sorted(w)
          /\ Ahead(Line, ticks) => Ahead(w, ticks)
          /\ \A s \in Symbols, n \in 0..MaxTick : Upto(Line, ticks, s, n) => Upto(w, ticks, s, n)
      BY <3>1, <3>2, <3>3, CutKeeps
    <3>5. Ordered BY DEF LineInv
    <3>6. Sorted(w) /\ Ahead(w, ticks) BY <3>4, <3>5 DEF Ordered
    <3>7. \A s \in Symbols :
            /\ Upto(w, ticks, s, market[s])
            /\ latest[s] # 0 => Upto(w, ticks, s, latest[s])
            /\ batch[s] # 0 => Upto(w, ticks, s, batch[s])
      BY <3>4, <3>5, NumbersAre DEF Ordered
    <3>8. \A s \in Symbols : latest[s] # 0 =>
            Upto(w, ticks, s, latest[s]) /\ \E i \in 1..Len(q) : q[i].sym = s
      BY <3>7, <2>1
    <3>9. LET M == w \o q IN
          /\ Sorted(w) => Sorted(M)
          /\ Ahead(w, ticks) => Ahead(M, ticks)
          /\ \A s \in Symbols, n \in 0..MaxTick :
               Upto(w, ticks, s, n) /\ latest[s] <= n => Upto(M, ticks, s, n)
          /\ \A s \in Symbols : latest[s] # 0 => Newest(M, s, ticks, latest[s])
      BY <2>1, <3>1, <3>3, <3>8, SnapshotKeeps
    <3>10. ASSUME NEW s \in Symbols
           PROVE  /\ Upto(Line', ticks, s, market[s])
                  /\ latest[s] # 0 => Upto(Line', ticks, s, latest[s])
                  /\ batch[s] # 0 => Upto(Line', ticks, s, batch[s])
      <4>1. latest[s] <= market[s] /\ (batch[s] # 0 => latest[s] <= batch[s])
        BY <3>5 DEF Ordered
      <4>2. latest[s] <= latest[s] BY NumbersAre
      <4> QED BY <3>1, <3>7, <3>9, <4>1, <4>2, NumbersAre
    <3>11. Ordered' BY <1>3, <3>1, <3>3, <3>5, <3>6, <3>9, <3>10 DEF Ordered
    <3>12. Current' BY <1>3, <3>1, <3>9 DEF Current
    <3> QED BY <2>4, <3>11, <3>12 DEF LineInv
  <2> QED BY <2>5, <2>6
<1> QED BY <1>5, <1>6

LEMMA WriteLine ==
  ASSUME TypeOK, LineInv, NEW k \in Channels, Write(k)
  PROVE  Wires' /\ LineInv'
<1>1. chan \in [Channels -> Sockets] /\ chan[k] \in Sockets BY ChanTyped
<1>2. UNCHANGED <<market, batch, latest, sock, ticks>> BY DEF Write, producer, gateway
<1>3. Numbers' /\ \A s \in Symbols : market[s] <= market'[s]
  BY <1>2, NumbersAre DEF TypeOK, Numbers
<1>4. CASE chan' = [chan EXCEPT ![k] = CloseServer(@)]
  <2>1. CloseServer(chan[k]) \in Sockets BY <1>1, Closing
  <2>2. Wires' BY <1>2, <1>4, <2>1, OneWritten
  <2>3. \A j \in Channels : chan'[j] = chan[j] \/ chan'[j] = CloseServer(chan[j])
    BY <1>1, <1>4
  <2> QED BY <2>2, <2>3, <1>2, <1>3, LineCut
<1>5. CASE /\ Len(chan[k].wire) < WireSize
           /\ chan' = [chan EXCEPT ![k].queue = Tail(@), ![k].wire = Append(@, Head(chan[k].queue))]
  <2> DEFINE S == Events
             q == chan[k].queue
             w == chan[k].wire
             c == Conn(chan[k].server, chan[k].peer, Tail(q), Append(w, Head(q)))
  <2>1. q \in Seq(S) /\ w \in Seq(S) /\ q # <<>> /\ Len(q) <= QueueSize
    BY <1>1, SocketParts DEF Write
  <2>2. /\ Head(q) \in S /\ Tail(q) \in Seq(S) /\ Len(Tail(q)) = Len(q) - 1
        /\ Append(w, Head(q)) \in Seq(S) /\ Len(Append(w, Head(q))) = Len(w) + 1
        /\ Append(w, Head(q)) \o Tail(q) = w \o q
        /\ Len(q) \in Nat /\ Len(w) \in Nat
    <3> HIDE DEF S, q, w
    <3>1. Head(q) \in S /\ Tail(q) \in Seq(S) /\ Len(Tail(q)) = Len(q) - 1
      BY <2>1, HeadTailProperties
    <3>2. Append(w, Head(q)) \in Seq(S) /\ Len(Append(w, Head(q))) = Len(w) + 1
      BY <2>1, <3>1, AppendProperties
    <3> QED BY <2>1, <3>1, <3>2, Moved, LenProperties
  <2>3. chan' = [chan EXCEPT ![k] = c]
    <3> HIDE DEF c
    <3>1. chan' = [chan EXCEPT ![k].queue = Tail(q), ![k].wire = Append(w, Head(q))] BY <1>5
    <3>2. ASSUME NEW x, NEW y
          PROVE  [chan EXCEPT ![k].queue = x, ![k].wire = y]
                   = [chan EXCEPT ![k] = Conn(chan[k].server, chan[k].peer, x, y)]
      <4> DEFINE r == chan[k]
                 d == [r EXCEPT !.queue = x]
      <4>1. r = Conn(r.server, r.peer, r.queue, r.wire) BY <1>1, SocketParts
      <4>2. d = Conn(r.server, r.peer, x, r.wire)
        <5> HIDE DEF r
        <5> QED BY <4>1, WriteQueue
      <4>3. [d EXCEPT !.wire = y] = Conn(r.server, r.peer, x, y)
        <5> HIDE DEF d
        <5> QED BY <4>2, WriteWire
      <4>4. [chan EXCEPT ![k].queue = x, ![k].wire = y] = [chan EXCEPT ![k] = [d EXCEPT !.wire = y]]
        BY <1>1
      <4> QED BY <4>3, <4>4
    <3> QED BY <3>1, <3>2, Zenon DEF c
  <2>4. c \in Sockets
    <3>1. Len(Tail(q)) <= QueueSize /\ Len(Append(w, Head(q))) <= WireSize
      BY <1>5, <2>1, <2>2, Bounds
    <3> QED BY <1>1, <2>2, <3>1, Socket, SocketParts
  <2>5. c.server = chan[k].server /\ c.queue = Tail(q) /\ c.wire = Append(w, Head(q))
    BY DEF Conn
  <2>6. LineOf(c) = LineOf(chan[k]) BY <2>2, <2>5 DEF LineOf
  <2> HIDE DEF c
  <2>7. /\ Wires'
        /\ sock # k => Line' = Line /\ Open' = Open
        /\ sock = k => Line = LineOf(chan[k]) /\ Line' = LineOf(c) /\ (Open' <=> c.server = "open")
    BY <1>2, <2>3, <2>4, OneWritten
  <2>8. k # None BY Bounds
  <2>9. Line' = Line /\ (Open' => Open) BY <2>5, <2>6, <2>7, <2>8 DEF Open
  <2>10. Shorter(Line', Line) BY <2>9, LineTyped, ShorterItself
  <2>11. sock' \in Channels \cup {None} BY <1>2 DEF TypeOK
  <2> QED BY <1>2, <1>3, <2>7, <2>9, <2>10, <2>11, LineKept
<1> QED BY <1>4, <1>5 DEF Write

LEMMA WorkerLine ==
  ASSUME TypeOK, LineInv, Numbers', Stop \/ DropClients \/ Exit
  PROVE  Wires' /\ LineInv'
<1>1. PICK states : CloseAll(states)
  BY DEF Stop, DropClients, Exit
<1>2. UNCHANGED <<market, sock, ticks>> BY DEF Stop, DropClients, Exit, gateway
<1>3. \A s \in Symbols : NoTicks[s] = 0 BY Zeros
<1>4. \A s \in Symbols : /\ market[s] <= market'[s]
                         /\ latest'[s] \in {latest[s], 0} /\ batch'[s] \in {batch[s], 0}
  BY <1>2, <1>3, NumbersAre DEF Stop, DropClients, Exit
<1>5. Wires' BY <1>1, ClosingAll
<1>6. \A k \in Channels : chan'[k] = chan[k] \/ chan'[k] = CloseServer(chan[k])
  BY <1>1 DEF CloseAll
<1> QED BY <1>2, <1>4, <1>5, <1>6, LineCut

LEMMA NoLine ==
  ASSUME TypeOK, LineInv, UNCHANGED <<market, batch, latest>>, Wires', Line' = <<>>, ~Open',
         UNCHANGED ticks \/ ticks' = NoTicks
  PROVE  LineInv'
<1>1. \A s \in Symbols : ticks'[s] \in Nat /\ ticks'[s] <= ticks[s]
  BY Zeros, NumbersAre
<1>2. Sorted(<<>>) /\ Ahead(<<>>, ticks') BY NoEvents DEF Sorted, Ahead
<1>3. ASSUME NEW s \in Symbols, NEW n \in Nat, Upto(Line, ticks, s, n)
      PROVE  Upto(<<>>, ticks', s, n)
  BY <1>1, <1>3, NoEvents, NumbersAre DEF Upto
<1>4. Ordered'
  <2>1. \A s \in Symbols :
          /\ Upto(Line, ticks, s, market[s]) /\ latest[s] <= market[s] /\ batch[s] <= market[s]
          /\ latest[s] # 0 => Upto(Line, ticks, s, latest[s])
          /\ batch[s] # 0 => Upto(Line, ticks, s, batch[s]) /\ latest[s] <= batch[s]
    BY DEF LineInv, Ordered
  <2>2. \A s \in Symbols :
          /\ Upto(<<>>, ticks', s, market[s]) /\ latest[s] <= market[s] /\ batch[s] <= market[s]
          /\ latest[s] # 0 => Upto(<<>>, ticks', s, latest[s])
          /\ batch[s] # 0 => Upto(<<>>, ticks', s, batch[s]) /\ latest[s] <= batch[s]
    BY <2>1, <1>3, NumbersAre
  <2> QED BY <2>2, <1>2 DEF Ordered
<1> QED BY <1>4 DEF LineInv, Current

LEMMA ConnectLine ==
  ASSUME TypeOK, LineInv, NEW k \in Channels, Connect(k)
  PROVE  Wires' /\ LineInv'
<1> DEFINE c == Conn("backlog", TRUE, <<>>, <<>>)
<1>1. chan \in [Channels -> Sockets] BY ChanTyped
<1>2. chan[k].queue = <<>> /\ chan[k].wire = <<>> BY DEF Connect, Free
<1>3. chan' = [chan EXCEPT ![k] = c]
  <2>1. chan' = [chan EXCEPT ![k].server = "backlog", ![k].peer = TRUE] BY Zenon DEF Connect
  <2>2. ASSUME NEW v, NEW p
        PROVE  [chan EXCEPT ![k].server = v, ![k].peer = p]
                 = [chan EXCEPT ![k] = Conn(v, p, chan[k].queue, chan[k].wire)]
    <3> DEFINE r == chan[k]
               d == [r EXCEPT !.server = v]
    <3>1. r = Conn(r.server, r.peer, r.queue, r.wire) BY <1>1, SocketParts
    <3>2. d = Conn(v, r.peer, r.queue, r.wire)
      <4> HIDE DEF r
      <4> QED BY <3>1, WriteServer
    <3>3. [d EXCEPT !.peer = p] = Conn(v, p, r.queue, r.wire)
      <4> HIDE DEF d
      <4> QED BY <3>2, WritePeer
    <3>4. [chan EXCEPT ![k].server = v, ![k].peer = p] = [chan EXCEPT ![k] = [d EXCEPT !.peer = p]]
      BY <1>1
    <3> QED BY <3>3, <3>4
  <2>3. chan' = [chan EXCEPT ![k] = Conn("backlog", TRUE, chan[k].queue, chan[k].wire)]
    BY <2>1, <2>2, Zenon
  <2> QED BY <2>3, <1>2, Zenon
<1>4. c \in Sockets
  <2>1. <<>> \in Seq(Events) /\ Len(<<>>) <= QueueSize /\ Len(<<>>) <= WireSize
    BY NoEvents, Bounds
  <2> QED BY <2>1, Socket
<1>5. c.server = "backlog" /\ c.queue = <<>> /\ c.wire = <<>> BY DEF Conn
<1> HIDE DEF c
<1>6. chan' \in [Channels -> Sockets] /\ chan'[k] = c BY <1>1, <1>3, <1>4, Put
<1>7. sock' = k /\ k # None /\ UNCHANGED <<market, batch, latest, ticks>>
  BY Bounds DEF Connect, producer
<1>8. Line' = <<>> /\ ~Open'
  <2>1. <<>> \o <<>> = <<>> BY NoEvents, ConcatEmptySeq
  <2> QED BY <2>1, <1>5, <1>6, <1>7 DEF Line, Open, LineOf
<1> QED BY <1>6, <1>7, <1>8, NoLine DEF Wires

LEMMA HangUpLine ==
  ASSUME TypeOK, LineInv, EndOfStream \/ RestartGateway
  PROVE  Wires' /\ LineInv'
<1>1. Wires'
  <2>1. CASE EndOfStream
    <3>1. sock \in Channels /\ chan' = [chan EXCEPT ![sock] = Free]
      BY <2>1 DEF EndOfStream, TypeOK
    <3> QED BY <3>1, ChanTyped, FreeSocket, Put DEF Wires
  <2>2. CASE RestartGateway
    <3>1. chan' = [k \in Channels |-> IF k = sock
                     THEN Live([chan[k] EXCEPT !.peer = FALSE, !.wire = <<>>]) ELSE chan[k]]
      BY <2>2 DEF RestartGateway
    <3>2. \A k \in Channels : chan[k] \in Sockets BY ChanTyped
    <3> QED BY <3>1, <3>2, Hanging DEF Wires
  <2> QED BY <2>1, <2>2
<1>2. sock' = None /\ UNCHANGED <<market, batch, latest>>
      /\ (UNCHANGED ticks \/ ticks' = NoTicks)
  BY DEF EndOfStream, RestartGateway, producer
<1>3. Line' = <<>> /\ ~Open' BY <1>2 DEF Line, Open
<1> QED BY <1>1, <1>2, <1>3, NoLine

LEMMA ReceiveLine ==
  ASSUME TypeOK, LineInv, Receive
  PROVE  /\ Wires' /\ LineInv'
         /\ \A s \in Symbols : ticks'[s] >= ticks[s]
<1> DEFINE S == Events
           w == chan[sock].wire
           q == chan[sock].queue
           e == Head(w)
           c == Conn(chan[sock].server, chan[sock].peer, q, Tail(w))
<1>1. sock \in Channels /\ sock # None /\ chan \in [Channels -> Sockets] /\ chan[sock] \in Sockets
  BY ChanTyped DEF Receive, TypeOK
<1>2. w \in Seq(S) /\ q \in Seq(S) /\ w # <<>> /\ Len(w) <= WireSize /\ Len(q) <= QueueSize
  BY <1>1, SocketParts DEF Receive
<1>3. /\ e \in S /\ Tail(w) \in Seq(S) /\ Len(Tail(w)) = Len(w) - 1 /\ Len(w) \in Nat
  <2> HIDE DEF S, w, q
  <2> QED BY <1>2, HeadTailProperties, LenProperties
<1>4. c \in Sockets
  <2>1. Len(Tail(w)) <= WireSize BY <1>2, <1>3, Bounds
  <2> QED BY <1>1, <1>2, <1>3, <2>1, Socket, SocketParts
<1>5. chan' = [chan EXCEPT ![sock] = c]
  <2>1. chan' = [chan EXCEPT ![sock].wire = Tail(w)] BY DEF Receive
  <2>2. ASSUME NEW v
        PROVE  [chan EXCEPT ![sock].wire = v]
                 = [chan EXCEPT ![sock] =
                      Conn(chan[sock].server, chan[sock].peer, chan[sock].queue, v)]
    <3> DEFINE r == chan[sock]
    <3>1. r = Conn(r.server, r.peer, r.queue, r.wire) BY <1>1, SocketParts
    <3>2. [r EXCEPT !.wire = v] = Conn(r.server, r.peer, r.queue, v)
      <4> HIDE DEF r
      <4> QED BY <3>1, WriteWire
    <3>3. [chan EXCEPT ![sock].wire = v] = [chan EXCEPT ![sock] = [r EXCEPT !.wire = v]]
      BY <1>1
    <3> QED BY <3>2, <3>3
  <2> QED BY <2>1, <2>2, Zenon DEF q
<1>6. c.server = chan[sock].server /\ LineOf(c) = Tail(w) \o q
  BY DEF Conn, LineOf
<1>7. Line = w \o q BY <1>1 DEF Line, LineOf
<1>8. UNCHANGED <<market, batch, latest, sock>> /\ ticks' = [ticks EXCEPT ![e.sym] = e.tick]
  BY DEF Receive, producer
<1> HIDE DEF c
<1>9. Wires' /\ Line' = Tail(w) \o q /\ (Open' => Open)
  <2>1. Wires' /\ Line' = LineOf(c) /\ (Open' <=> c.server = "open")
    BY <1>1, <1>4, <1>5, <1>8, OneWritten
  <2> QED BY <2>1, <1>1, <1>6 DEF Open
<1>10. LET L == w \o q  M == Tail(w) \o q IN
       /\ Len(L) \in Nat /\ 0 < Len(L) /\ L[1] = Head(w) /\ Len(M) = Len(L) - 1
       /\ \A i \in 1..Len(M) : M[i] = L[i + 1]
  <2> HIDE DEF S, w, q
  <2> QED BY <1>2, Shortened
<1>11. e.sym \in Symbols /\ e.tick \in 0..MaxTick BY <1>3, EventIs, Bounds
<1>12. ticks \in [Symbols -> 0..MaxTick] /\ ticks' \in [Symbols -> 0..MaxTick]
  BY <1>8, <1>11 DEF TypeOK
<1>13. Line \in Seq(Events) /\ Line' \in Seq(Events)
  BY <1>8, <1>9, LineTyped, LineTypedNext DEF TypeOK
<1>14. /\ 0 < Len(Line) /\ Len(Line') = Len(Line) - 1 /\ Line[1] = e
       /\ \A i \in 1..Len(Line') : Line'[i] = Line[i + 1]
       /\ ticks' = [ticks EXCEPT ![Line[1].sym] = Line[1].tick]
  BY <1>7, <1>8, <1>9, <1>10
<1> HIDE DEF S, w, q, e
<1>15. /\ Sorted(Line) => Sorted(Line')
       /\ Sorted(Line) /\ Ahead(Line, ticks) => Ahead(Line', ticks')
       /\ \A s \in Symbols, n \in 0..MaxTick : Upto(Line, ticks, s, n) => Upto(Line', ticks', s, n)
       /\ \A s \in Symbols, n \in 0..MaxTick : Newest(Line, s, ticks, n) => Newest(Line', s, ticks', n)
  <2> DEFINE L == Line
             M == Line'
             has == ticks'
  <2>1. /\ L \in Seq(Events) /\ M \in Seq(Events) /\ 0 < Len(L) /\ Len(M) = Len(L) - 1
        /\ \A i \in 1..Len(M) : M[i] = L[i + 1]
        /\ has \in [Symbols -> 0..MaxTick] /\ ticks \in [Symbols -> 0..MaxTick]
        /\ has = [ticks EXCEPT ![L[1].sym] = L[1].tick]
    BY <1>12, <1>13, <1>14
  <2> HIDE DEF L, M, has
  <2>2. /\ Sorted(L) => Sorted(M)
        /\ Sorted(L) /\ Ahead(L, ticks) => Ahead(M, has)
        /\ \A s \in Symbols, n \in 0..MaxTick : Upto(L, ticks, s, n) => Upto(M, has, s, n)
        /\ \A s \in Symbols, n \in 0..MaxTick : Newest(L, s, ticks, n) => Newest(M, s, has, n)
    BY <2>1, TakenKeeps
  <2> QED BY <2>2 DEF L, M, has
<1>16. Ordered BY DEF LineInv
<1>17. Sorted(Line') /\ Ahead(Line', ticks') BY <1>15, <1>16 DEF Ordered
<1>18. ASSUME NEW s \in Symbols
       PROVE  /\ Upto(Line', ticks', s, market[s])
              /\ latest[s] # 0 => Upto(Line', ticks', s, latest[s])
              /\ batch[s] # 0 => Upto(Line', ticks', s, batch[s])
  BY <1>15, <1>16, NumbersAre DEF Ordered
<1>19. Ordered' BY <1>8, <1>16, <1>17, <1>18 DEF Ordered
<1>20. Current'
  <2> SUFFICES ASSUME Open', NEW s \in Symbols, latest'[s] # 0
               PROVE  Newest(Line', s, ticks', latest'[s])
    BY DEF Current
  <2>1. latest'[s] = latest[s] /\ Open BY <1>8, <1>9
  <2>2. Newest(Line, s, ticks, latest[s]) BY <2>1 DEF LineInv, Current
  <2> QED BY <2>1, <2>2, <1>15, NumbersAre
<1>21. ASSUME NEW s \in Symbols PROVE ticks'[s] >= ticks[s]
  <2>1. 1 \in 1..Len(Line)
    <3>1. Len(Line) \in Nat BY <1>13, Lengths
    <3> QED BY <3>1, <1>14
  <2>2. ticks[Line[1].sym] <= Line[1].tick BY <2>1, <1>16 DEF Ordered, Ahead
  <2>3. Line[1].sym \in Symbols /\ Line[1].tick \in Nat BY <2>1, <1>13, Lengths, EventIs
  <2> QED BY <2>2, <2>3, <1>12, <1>14, NumbersAre
<1> QED BY <1>9, <1>19, <1>20, <1>21 DEF LineInv

-----------------------------------------------------------------------------
(* The invariant *)

LEMMA Start0 == Init => TypeOK /\ LineInv
<1> SUFFICES ASSUME Init PROVE TypeOK /\ LineInv
  OBVIOUS
<1>1. Numbers /\ Controls /\ Reader
  BY Zeros, Bounds DEF Init, Numbers, Controls, Reader
<1>2. Wires BY FreeSocket DEF Init, Wires
<1>3. TypeOK BY <1>1, <1>2, TypeParts
<1>4. Line = <<>> /\ ~Open BY DEF Init, Line, Open
<1>5. Sorted(<<>>) /\ Ahead(<<>>, ticks) BY NoEvents DEF Sorted, Ahead
<1>6. \A s \in Symbols : Upto(<<>>, ticks, s, 0) /\ market[s] = 0 /\ latest[s] = 0 /\ batch[s] = 0
  BY NoEvents, Zeros DEF Init, Upto
<1>7. Ordered BY <1>4, <1>5, <1>6 DEF Ordered
<1> QED BY <1>3, <1>4, <1>7 DEF LineInv, Current

LEMMA LineStep ==
  ASSUME TypeOK, LineInv, Numbers', [Next]_vars
  PROVE  Wires' /\ LineInv'
<1>1. CASE \E s \in Symbols : Tick(s) BY <1>1, TickLine
<1>2. CASE Start BY <1>2, UnmovedLine DEF Start, gateway
<1>3. CASE Poll BY <1>3, PollLine
<1>4. CASE \E s \in Symbols : Publish(s) BY <1>4, PublishLine
<1>5. CASE Stop \/ DropClients \/ Exit BY <1>5, WorkerLine
<1>6. CASE \E k \in Channels : Accept(k) BY <1>6, AcceptLine
<1>7. CASE Register BY <1>7, RegisterLine
<1>8. CASE \E k \in Channels : Write(k) BY <1>8, WriteLine
<1>9. CASE \E k \in Channels : Connect(k) BY <1>9, ConnectLine
<1>10. CASE Receive BY <1>10, ReceiveLine
<1>11. CASE EndOfStream \/ RestartGateway BY <1>11, HangUpLine
<1>12. CASE EmitTick BY <1>12, UnmovedLine DEF EmitTick, producer
<1>13. CASE Subscribe \/ Handle \/ UNCHANGED vars
  BY <1>13, UnmovedLine DEF Subscribe, Handle, TakeTick, EmitTaken, producer, gateway, vars
<1> QED BY <1>1, <1>2, <1>3, <1>4, <1>5, <1>6, <1>7, <1>8, <1>9, <1>10, <1>11, <1>12, <1>13
        DEF Next, Produce, Serve, Consume

LEMMA Induction == TypeOK /\ LineInv /\ [Next]_vars => (TypeOK /\ LineInv)'
<1> SUFFICES ASSUME TypeOK, LineInv, [Next]_vars PROVE TypeOK' /\ LineInv'
  OBVIOUS
<1>1. Numbers' BY NumbersKept
<1>2. Wires' /\ LineInv' BY <1>1, LineStep
<1> QED BY <1>1, <1>2, ControlsKept, ReaderKept, TypePartsNext

LEMMA Invariant == Spec => [](TypeOK /\ LineInv)
<1>1. Init => TypeOK /\ LineInv BY Start0
<1>2. (TypeOK /\ LineInv) /\ [Next]_vars => (TypeOK /\ LineInv)' BY Induction
<1> QED BY <1>1, <1>2, PTL DEF Spec

(* The variables of the worker, the connections, the gateway and the page  *)
(* keep their types: queues do not outgrow client_queue_size.              *)
THEOREM TicksTyped == Spec => []TypeOK
BY Invariant, PTL

LEMMA NewestIsLast ==
  ASSUME NEW L \in Seq(Events), NEW s \in Symbols, NEW has, NEW n, Newest(L, s, has, n)
  PROVE  LastTick(L, s, has[s]) = n
<1> DEFINE at == {i \in DOMAIN L : L[i].sym = s}
<1>1. Len(L) \in Nat /\ DOMAIN L = 1..Len(L) BY Lengths
<1>2. LastTick(L, s, has[s])
        = IF at = {} THEN has[s] ELSE L[CHOOSE i \in at : \A j \in at : j <= i].tick
  BY DEF LastTick
<1>3. CASE has[s] = n /\ \A i \in 1..Len(L) : L[i].sym # s
  <2>1. at = {} BY <1>1, <1>3
  <2> QED BY <1>2, <1>3, <2>1
<1>4. ASSUME NEW i \in 1..Len(L), L[i].sym = s, L[i].tick = n,
             \A j \in 1..Len(L) : L[j].sym = s => j <= i
      PROVE  LastTick(L, s, has[s]) = n
  <2>1. i \in at /\ at \subseteq 1..Len(L) BY <1>1, <1>4
  <2>2. \A j \in at : j <= i BY <1>1, <1>4
  <2> DEFINE last == CHOOSE x \in at : \A j \in at : j <= x
  <2> HIDE DEF at
  <2>3. last \in at /\ \A j \in at : j <= last BY <2>1, <2>2
  <2> HIDE DEF last
  <2>4. i <= last /\ last <= i /\ last \in 1..Len(L) BY <2>1, <2>2, <2>3
  <2>5. last = i BY <2>4
  <2>6. at # {} BY <2>1
  <2> QED BY <1>2, <1>4, <2>5, <2>6 DEF last
<1> QED BY <1>3, <1>4 DEF Newest

(* While its connection is registered, the gateway has or will read the    *)
(* newest published tick of every symbol: the snapshot and the events      *)
(* after it leave none out, whatever _write_loop has written so far, and   *)
(* an event that does not fit closes the connection.                       *)
THEOREM NoneMissed == Spec => []NothingMissed
<1>1. TypeOK /\ LineInv => NothingMissed
  <2> SUFFICES ASSUME TypeOK, LineInv, NEW k \in Clients, k = sock, NEW s \in Symbols, latest[s] # 0
               PROVE  LastTick(chan[k].wire \o chan[k].queue, s, ticks[s]) = latest[s]
    BY DEF NothingMissed
  <2>1. k \in Channels /\ k # None /\ Open BY Bounds DEF Clients, Open
  <2>2. Line = chan[k].wire \o chan[k].queue BY <2>1 DEF Line, LineOf
  <2>3. Newest(Line, s, ticks, latest[s]) BY <2>1 DEF LineInv, Current
  <2> QED BY <2>2, <2>3, LineTyped, NewestIsLast
<1> QED BY Invariant, <1>1, PTL

LEMMA OnlyReceiveHears ==
  ASSUME [Next]_vars
  PROVE  Receive \/ UNCHANGED ticks \/ ticks' = NoTicks
BY DEF Next, Tick, Produce, Start, Poll, Publish, DropClients, Exit, Serve, Accept, Register,
       Stop, Write, Consume, Connect, EmitTick, EndOfStream, RestartGateway, Subscribe, Handle,
       TakeTick, EmitTaken, vars, gateway

(* _accept_line never replaces a tick of the gateway by an older one,      *)
(* though its connection is cut off and made again, and the worker that    *)
(* sends it snapshots is restarted in between.                             *)
THEOREM NeverBack == Spec => TicksForward
<1>1. ASSUME TypeOK, LineInv, [Next]_vars
      PROVE  ticks' = NoTicks \/ \A s \in Symbols : ticks'[s] >= ticks[s]
  <2>1. CASE Receive BY <1>1, <2>1, ReceiveLine
  <2>2. CASE UNCHANGED ticks BY <1>1, <2>2, NumbersAre
  <2> QED BY <1>1, <2>1, <2>2, OnlyReceiveHears
<1>2. TypeOK /\ LineInv /\ [Next]_vars
        => [ticks' = NoTicks \/ \A s \in Symbols : ticks'[s] >= ticks[s]]_vars
  BY <1>1
<1> QED BY <1>2, Invariant, PTL DEF Spec, TicksForward

=============================================================================
