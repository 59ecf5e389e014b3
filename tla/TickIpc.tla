------------------------------- MODULE TickIpc -------------------------------
(***************************************************************************)
(* Ticks on their way from the terminal to a browser: the realtime worker  *)
(* (TickService.run) that polls and publishes, the socket server in it     *)
(* (TickPublisher and its _ClientChannels: an accept thread, and one       *)
(* writer thread with a bounded queue per client), the gateway's           *)
(* TickConsumer thread, which connects again whenever it is cut off, and   *)
(* a browser that subscribes through the gateway's websocket handlers,     *)
(* which run on threads of their own.                                      *)
(*                                                                         *)
(* A tick of a symbol is a number, larger for a newer one; 0 is no tick.   *)
(* The publisher's lock covers publish and the registration of a client,   *)
(* each of which is one step here.                                         *)
(***************************************************************************)
EXTENDS Integers, Sequences, FiniteSets

CONSTANTS
  Symbols,    \* the symbols of the tick service
  Channels,   \* connections there can be at a time
  QueueSize,  \* client_queue_size
  WireSize,   \* events the socket's buffer takes
  None,
  MaxTick,    \* bound: ticks altogether
  MaxFaults   \* bound: failed reads, slow clients, slow threads, restarts

(* A snapshot and the events of the poll that goes on meanwhile fit in the *)
(* queue of a client: client_queue_size is 256, the symbols are a few.     *)
ASSUME TickAssumption ==
  /\ {QueueSize, WireSize, MaxTick, MaxFaults} \subseteq Nat \ {0}
  /\ IsFiniteSet(Symbols) /\ 2 * Cardinality(Symbols) <= QueueSize
  /\ None \notin Channels \cup Symbols

VARIABLES
  market,   \* the terminal's tick of each symbol
  worker,   \* the realtime worker's process: "down", "up", "stopping", "exiting"
  batch,    \* the ticks of this poll that are not published yet
  latest,   \* _latest
  chan,     \* the connections, both ends
  acceptor, \* the client the accept thread has accepted and not registered
  sock,     \* the consumer's connection
  ticks,    \* the consumer's _ticks
  heard,    \* the event that _accept_line has stored and on_tick emits next
  browser,  \* whether the browser is in the rooms: "out", "joined", "in"
  taken,    \* the tick its subscription emits next
  shown,    \* the tick of each symbol the browser has
  faults

producer == <<worker, batch, latest, acceptor>>
gateway  == <<sock, ticks, heard>>
page     == <<browser, taken, shown>>
vars     == <<market, producer, chan, gateway, page, faults>>

-----------------------------------------------------------------------------
Events == [sym : Symbols, tick : 1..MaxTick]
NoTicks == [s \in Symbols |-> 0]

(* server: of the publisher's end, "backlog" until it is accepted; peer:   *)
(* the consumer's end is open                                              *)
Connection == [server : {"free", "backlog", "accepted", "open", "closed"},
               peer : BOOLEAN, queue : Seq(Events), wire : Seq(Events)]

Free == [server |-> "free", peer |-> FALSE, queue |-> <<>>, wire |-> <<>>]

TypeOK ==
  /\ market \in [Symbols -> 0..MaxTick]
  /\ worker \in {"down", "up", "stopping", "exiting"}
  /\ batch \in [Symbols -> 0..MaxTick] /\ latest \in [Symbols -> 0..MaxTick]
  /\ chan \in [Channels -> Connection]
  /\ \A k \in Channels : Len(chan[k].queue) <= QueueSize /\ Len(chan[k].wire) <= WireSize
  /\ acceptor \in Channels \cup {None} /\ sock \in Channels \cup {None}
  /\ ticks \in [Symbols -> 0..MaxTick] /\ heard \in Events \cup {None}
  /\ browser \in {"out", "joined", "in"} /\ taken \in Events \cup {None}
  /\ shown \in [Symbols -> 0..MaxTick]
  /\ faults \in 0..MaxFaults

Fault == faults < MaxFaults /\ faults' = faults + 1

Init ==
  /\ market = NoTicks
  /\ worker = "down" /\ batch = NoTicks /\ latest = NoTicks /\ acceptor = None
  /\ chan = [k \in Channels |-> Free]
  /\ sock = None /\ ticks = NoTicks /\ heard = None
  /\ browser = "out" /\ taken = None /\ shown = NoTicks
  /\ faults = 0

Tick(s) ==
  /\ Cardinality({st \in Symbols \X (1..MaxTick) : st[2] <= market[st[1]]}) < MaxTick
  /\ market' = [market EXCEPT ![s] = @ + 1]
  /\ UNCHANGED <<producer, chan, gateway, page, faults>>

-----------------------------------------------------------------------------
(* The realtime worker *)

Clients == {k \in Channels : chan[k].server = "open"}

(* A connection with both ends closed is gone. *)
Live(c) == IF c.server \in {"free", "closed"} /\ ~c.peer THEN Free ELSE c
CloseServer(c) == Live([c EXCEPT !.server = "closed", !.queue = <<>>])
CloseAll(states) ==
  chan' = [k \in Channels |->
             IF chan[k].server \in states THEN CloseServer(chan[k]) ELSE chan[k]]

(* TickPublisher.start; the socket file of a dead publisher is replaced. *)
Start ==
  /\ worker = "down"
  /\ worker' = "up"
  /\ UNCHANGED <<market, batch, latest, acceptor, chan, gateway, page, faults>>

BugUnchangedNotPublished ==
  /\ worker = "up" /\ batch = NoTicks
  /\ batch' = [s \in Symbols |-> IF market[s] # latest[s] THEN market[s] ELSE 0]
  /\ \A k \in Clients : chan[k].queue = <<>> /\ chan[k].wire = <<>>
  /\ UNCHANGED <<market, worker, latest, acceptor, chan, gateway, page, faults>>

(* fetch_ticks, after the sleep of a poll.  A healthy client has written   *)
(* and read what was queued for it by then: one that has not is a fault.   *)
(* A read that fails ends the poll with the ticks it has.                  *)
Poll ==
  /\ worker = "up" /\ batch = NoTicks
  /\ \E read \in SUBSET Symbols :
       /\ batch' = [s \in Symbols |-> IF s \in read THEN market[s] ELSE 0]
       /\ IF read = Symbols /\ \A k \in Clients : chan[k].queue = <<>> /\ chan[k].wire = <<>>
            THEN UNCHANGED faults ELSE Fault
  /\ UNCHANGED <<market, worker, latest, acceptor, chan, gateway, page>>

BugQueueUnbounded(s) ==
  /\ worker = "up" /\ batch[s] # 0
  /\ batch' = [batch EXCEPT ![s] = 0]
  /\ latest' = [latest EXCEPT ![s] = batch[s]]
  /\ chan' = [k \in Channels |->
        IF k \in Clients
          THEN [chan[k] EXCEPT !.queue = Append(@, [sym |-> s, tick |-> batch[s]])]
          ELSE chan[k]]
  /\ UNCHANGED <<market, worker, acceptor, gateway, page, faults>>

BugSlowClientMissesEvent(s) ==
  /\ worker = "up" /\ batch[s] # 0
  /\ batch' = [batch EXCEPT ![s] = 0]
  /\ latest' = [latest EXCEPT ![s] = batch[s]]
  /\ LET event == [sym |-> s, tick |-> batch[s]] IN
       chan' = [k \in Channels |->
         IF k \in Clients /\ Len(chan[k].queue) < QueueSize
           THEN [chan[k] EXCEPT !.queue = Append(@, event)]
         ELSE chan[k]]
  /\ UNCHANGED <<market, worker, acceptor, gateway, page, faults>>

(* publish: a client whose queue is full is dropped. *)
Publish(s) ==
  /\ worker = "up" /\ batch[s] # 0
  /\ batch' = [batch EXCEPT ![s] = 0]
  /\ latest' = [latest EXCEPT ![s] = batch[s]]
  /\ LET event == [sym |-> s, tick |-> batch[s]] IN
       chan' = [k \in Channels |->
         IF k \notin Clients THEN chan[k]
         ELSE IF Len(chan[k].queue) < QueueSize
           THEN [chan[k] EXCEPT !.queue = Append(@, event)]
         ELSE CloseServer(chan[k])]
  /\ UNCHANGED <<market, worker, acceptor, gateway, page, faults>>

(* The accept thread, which looks at the stop event before it accepts. *)
Accept(k) ==
  /\ worker = "up" /\ acceptor = None
  /\ chan[k].server = "backlog"
  /\ acceptor' = k
  /\ chan' = [chan EXCEPT ![k].server = "accepted"]
  /\ UNCHANGED <<market, worker, batch, latest, gateway, page, faults>>

(* The orders in which sorted(_latest) can come *)
Snapshots ==
  LET known == {s \in Symbols : latest[s] # 0} IN
  {[i \in 1..Cardinality(known) |-> [sym |-> order[i], tick |-> latest[order[i]]]] :
     order \in {f \in [1..Cardinality(known) -> known] :
                  \A i, j \in 1..Cardinality(known) : f[i] = f[j] => i = j}}

(* The client is registered with a snapshot, which the stop event that     *)
(* was set in the meantime does not prevent.                               *)
Register ==
  /\ worker # "down" /\ acceptor # None
  /\ acceptor' = None
  /\ \E snapshot \in Snapshots :
       chan' = [chan EXCEPT ![acceptor] =
                  IF Len(snapshot) <= QueueSize
                    THEN [@ EXCEPT !.server = "open", !.queue = snapshot]
                    ELSE CloseServer(@)]
  /\ UNCHANGED <<market, worker, batch, latest, gateway, page, faults>>

BugWritesNewestFirst(k) ==
  /\ k \in Clients /\ chan[k].queue # <<>> /\ chan[k].peer
  /\ Len(chan[k].wire) < WireSize
  /\ LET queue == chan[k].queue IN
       chan' = [chan EXCEPT ![k].queue = SubSeq(queue, 1, Len(queue) - 1),
                            ![k].wire = Append(@, queue[Len(queue)])]
  /\ UNCHANGED <<market, producer, gateway, page, faults>>

(* _write_loop: sendall, which waits for room, and fails once the consumer *)
(* has closed its end.                                                     *)
Write(k) ==
  /\ k \in Clients /\ chan[k].queue # <<>>
  /\ \/ /\ chan[k].peer /\ Len(chan[k].wire) < WireSize
        /\ chan' = [chan EXCEPT ![k].queue = Tail(@), ![k].wire = Append(@, Head(chan[k].queue))]
     \/ ~chan[k].peer /\ chan' = [chan EXCEPT ![k] = CloseServer(@)]
  /\ UNCHANGED <<market, producer, gateway, page, faults>>

(* run ends: publisher.stop sets the stop event and closes the server,     *)
(* with the connections nobody has accepted.                               *)
Stop ==
  /\ worker = "up" /\ Fault
  /\ worker' = "stopping" /\ batch' = NoTicks
  /\ CloseAll({"backlog"})
  /\ UNCHANGED <<market, latest, acceptor, gateway, page>>

(* The accept thread is joined, for a second at most: then the clients are *)
(* dropped.                                                                *)
DropClients ==
  /\ worker = "stopping"
  /\ (acceptor = None /\ UNCHANGED faults) \/ Fault
  /\ worker' = "exiting"
  /\ CloseAll({"open"})
  /\ UNCHANGED <<market, batch, latest, acceptor, gateway, page>>

(* The process ends, at once when it is killed: its threads and sockets    *)
(* end with it.                                                            *)
Exit ==
  /\ (worker = "exiting" /\ UNCHANGED faults) \/ (worker \in {"up", "stopping"} /\ Fault)
  /\ worker' = "down" /\ batch' = NoTicks /\ latest' = NoTicks /\ acceptor' = None
  /\ CloseAll({"backlog", "accepted", "open"})
  /\ UNCHANGED <<market, gateway, page>>

-----------------------------------------------------------------------------
(* The gateway's consumer *)

(* TickConsumer.run: without a listening socket it waits and tries again. *)
Connect(k) ==
  /\ sock = None /\ heard = None
  /\ worker = "up"
  /\ chan[k] = Free
  /\ chan' = [chan EXCEPT ![k].server = "backlog", ![k].peer = TRUE]
  /\ sock' = k
  /\ UNCHANGED <<market, producer, ticks, heard, page, faults>>

(* _read_stream and _accept_line *)
Receive ==
  /\ sock # None /\ heard = None /\ chan[sock].wire # <<>>
  /\ LET event == Head(chan[sock].wire) IN
       ticks' = [ticks EXCEPT ![event.sym] = event.tick] /\ heard' = event
  /\ chan' = [chan EXCEPT ![sock].wire = Tail(@)]
  /\ UNCHANGED <<market, producer, sock, page, faults>>

(* on_tick of gateway/app.py: the room of the symbol *)
EmitTick ==
  /\ heard # None
  /\ heard' = None
  /\ shown' = IF browser = "out" THEN shown ELSE [shown EXCEPT ![heard.sym] = heard.tick]
  /\ UNCHANGED <<market, producer, chan, sock, ticks, browser, taken, faults>>

(* The end of the stream, or of half a line: run closes its socket. *)
EndOfStream ==
  /\ sock # None /\ heard = None
  /\ chan[sock].wire = <<>> /\ chan[sock].server = "closed"
  /\ chan' = [chan EXCEPT ![sock] = Free]
  /\ sock' = None
  /\ UNCHANGED <<market, producer, ticks, heard, page, faults>>

(* The gateway is restarted. *)
RestartGateway ==
  /\ Fault
  /\ sock' = None /\ ticks' = NoTicks /\ heard' = None
  /\ chan' = [k \in Channels |-> IF k = sock
                THEN Live([chan[k] EXCEPT !.peer = FALSE, !.wire = <<>>]) ELSE chan[k]]
  /\ browser' = "out" /\ taken' = None /\ shown' = NoTicks
  /\ UNCHANGED <<market, producer>>

-----------------------------------------------------------------------------
(* A browser subscribes: handle_subscribe joins the room, *)
Subscribe ==
  /\ browser = "out"
  /\ browser' = "joined"
  /\ UNCHANGED <<market, producer, chan, gateway, taken, shown, faults>>

(* ... takes a tick of the consumer if that is fresh *)
TakeTick(s) ==
  /\ browser = "joined"
  /\ browser' = "in"
  /\ taken' \in {None} \cup {e \in Events : e = [sym |-> s, tick |-> ticks[s]]}
  /\ UNCHANGED <<market, producer, chan, gateway, shown, faults>>

(* ... and emits it, though on_tick may have emitted a newer one since. *)
EmitTaken ==
  /\ taken # None
  /\ shown' = [shown EXCEPT ![taken.sym] = taken.tick]
  /\ taken' = None
  /\ UNCHANGED <<market, producer, chan, gateway, browser, faults>>

-----------------------------------------------------------------------------
Produce == Start \/ Poll \/ (\E s \in Symbols : Publish(s)) \/ DropClients \/ Exit
Serve == (\E k \in Channels : Accept(k)) \/ Register
Consume == (\E k \in Channels : Connect(k)) \/ Receive \/ EmitTick \/ EndOfStream
Handle == (\E s \in Symbols : TakeTick(s)) \/ EmitTaken

Next ==
  \/ \E s \in Symbols : Tick(s)
  \/ Produce \/ Serve \/ Stop
  \/ \E k \in Channels : Write(k)
  \/ Consume \/ RestartGateway
  \/ Subscribe \/ Handle

Spec == Init /\ [][Next]_vars

(* Every thread runs, a worker that is down is started again, and it polls *)
(* for ever.  Logins, new ticks and subscriptions need not happen, and     *)
(* faults are bounded.                                                     *)
FairSpec ==
  /\ Spec
  /\ WF_vars(Produce /\ faults' = faults) /\ WF_vars(Serve)
  /\ \A k \in Channels : WF_vars(Write(k))
  /\ WF_vars(Consume) /\ WF_vars(Handle)

-----------------------------------------------------------------------------
(* Properties *)

LastTick(events, s, default) ==
  LET at == {i \in DOMAIN events : events[i].sym = s} IN
  IF at = {} THEN default ELSE events[CHOOSE i \in at : \A j \in at : j <= i].tick

(* A registered client whose reader is there has received, or will from    *)
(* its socket and its queue, the newest published tick of every symbol: a  *)
(* snapshot and the events after it leave none out, and a client that      *)
(* cannot take an event is not kept.                                       *)
NothingMissed ==
  \A k \in Clients : k = sock =>
    \A s \in Symbols :
      latest[s] # 0 => LastTick(chan[k].wire \o chan[k].queue, s, ticks[s]) = latest[s]

(* The ticks of the gateway never go back in time, through reconnections   *)
(* and restarts of the worker, unless the gateway itself starts again.     *)
TicksForward ==
  [][ticks' = NoTicks \/ \A s \in Symbols : ticks'[s] >= ticks[s]]_vars

(* When the market is quiet, the gateway has its ticks, whatever client    *)
(* was dropped, read failed or process was restarted before: a dropped     *)
(* consumer resumes from a snapshot.  A subscribed browser has them too: a *)
(* tick that was overtaken by the one its own subscription emits is        *)
(* corrected by the next poll.                                             *)
TicksCatchUp == <>[](ticks = market /\ (browser = "in" => shown = market))
=============================================================================
