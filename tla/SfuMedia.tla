------------------------------ MODULE SfuMedia ------------------------------
(***************************************************************************)
(* The media of SFU calls: SfuManager.ts, which keeps one mediasoup worker  *)
(* with the routers, transports, producers and consumers it carries, and   *)
(* the requests of SfuSignalingHandler.ts that use it (src/apps/server/src) *)
(* while voice membership, mutes and the worker itself change under them.  *)
(*                                                                         *)
(* A handler runs to its end in one step, except where it waits for the    *)
(* worker to start or to answer, or for the router of its room.  The worker *)
(* answers its requests in order (`requests`); what it has open is `open`, *)
(* apart from what the server has on record, so that whatever is forgotten *)
(* but left open shows.  A record is an object of the program: its `id`    *)
(* tells it apart from others that are alike.                              *)
(***************************************************************************)
EXTENDS Integers, FiniteSets, SequencesExt

CONSTANTS
  Sessions, Rooms,
  Publishers,     \* bound: who sends; the other sessions receive
  None,           \* no room
  Ids,            \* bound: what objects of one kind and session are told apart by
  MaxRequests,    \* bound: handlers that wait when another begins to, one at a time
                  \* for a session that receives
  MaxFaults       \* bound: the events that count as a fault (MayFail)

ASSUME SfuMediaAssumption ==
  /\ Publishers \subseteq Sessions /\ None \notin Rooms
  /\ Ids \subseteq Nat /\ {MaxRequests, MaxFaults} \subseteq Nat

VARIABLES
  channels,    \* the rooms that exist
  room,        \* voiceStates: the room each session is in
  muted,       \* the sessions in a room whose microphone may not be heard
  generation, worker, startup,   \* the fields of SfuManager; 0: no worker, no startup
  starting,    \* the starts under way, by generation: "spawning" or "binding"
  processes,   \* the worker processes that run, by the generation they began in
  delayed,     \* handlers waiting for a start, by its generation
  ready,       \* handlers whose wait is over, which go on before anything else happens
  routers, creations,            \* the routers on record and those being created
  transports, producers, consumers,
  open,        \* what the worker has open
  paused,      \* the producers it has paused
  pending,     \* what is being created for someone who still wants it: not cancelled, nor
               \* asked over a connection that was replaced
  joined,      \* transports that wait for the router of their room
  requests,    \* what the worker has not answered
  told,        \* producers each client was told of in its stay and not told to be closed
  asked,       \* the clients that have asked for the list of producers
  lost,        \* history: producers that went with a transport whose DTLS failed and
               \* that some client was told of
  faults       \* how many of the bounded events happened

membership == <<channels, room, muted>>
manager    == <<generation, worker, startup, starting, processes>>
handlers   == <<delayed, ready>>
routing    == <<routers, creations>>
media      == <<transports, producers, consumers, open, paused>>
views      == <<told, asked, lost>>
vars == <<membership, manager, handlers, routing, media, pending, joined, requests, views, faults>>

Generations == 1..(MaxFaults + 1)

\* What the worker can have open.  A producer or consumer is of the session and
\* room of its transport; a client listens to a producer once per transport.
Router == [kind : {"router"}, id : Ids, r : Rooms]
Transport == {t \in [kind : {"transport"}, id : Ids, s : Sessions, r : Rooms, router : Router] : t.router.r = t.r}
Producer == {p \in [kind : {"producer"}, id : Ids, s : Sessions, r : Rooms, transport : Transport] :
               p.transport.s = p.s /\ p.transport.r = p.r}
Consumer == {c \in [kind : {"consumer"}, s : Sessions, r : Rooms, transport : Transport, producer : Producer] :
               c.transport.s = c.s /\ c.transport.r = c.r /\ c.producer.r = c.r}

\* A handler that asks for a transport while the worker starts, and one that
\* waits for the microphones of a session to be paused or resumed, after which
\* it announces `news`, or closes what a join or a move left behind.
Asking == [kind : {"asking"}, id : Ids, s : Sessions, r : Rooms]
Mute == {m \in [kind : {"pause", "resume"}, s : Sessions, r : Rooms, mics : SUBSET Producer,
                next : {"nothing", "join", "move"}, news : SUBSET Producer] :
           /\ \A p \in m.mics : p.s = m.s
           /\ \A p \in m.news : p.s = m.s /\ p.r = m.r /\ m.next = "nothing"}
IsMute(e, s) == e.kind \in {"pause", "resume"} /\ e.s = s
Request == Router \union Transport \union Producer \union Consumer \union Mute

Direction(s) == IF s \in Publishers THEN "send" ELSE "recv"
Fault == faults < MaxFaults /\ faults' = faults + 1

\* The least identity that tells a new transport, or microphone, of a session
\* from those it had and something still refers to.  The transports it has are
\* closed when a new one is made.
Asked(kinds) == {e \in ToSet(requests) : e.kind \in kinds}
Least(borne) == LET free == Ids \ borne IN {i \in free : \A j \in free : i <= j}
ForTransport(s) ==
  LET around == joined \union UNION {delayed[g] : g \in Generations} \union Asked({"router", "transport"})
                  \union {e.transport : e \in Asked({"producer", "consumer"})}
  IN Least({x.id : x \in {y \in around : y.kind # "router" => y.s = s}})
ForProducer(s) ==
  LET around == producers \union lost \union UNION {told[q] : q \in Sessions} \union Asked({"producer"})
                  \union {e.producer : e \in Asked({"consumer"})} \union UNION {e.mics : e \in Asked({"pause", "resume"})}
  IN Least({p.id : p \in {q \in around : q.s = s}})

MayWait(s) ==
  LET mine(x) == x.kind # "router" /\ x.s = s
      asking == {x \in UNION {delayed[g] : g \in Generations} : x.kind = "asking"}
      asks == {i \in DOMAIN requests : requests[i].kind # "router"}
  IN /\ Cardinality(asking) + Cardinality(joined) + Cardinality(asks) < MaxRequests
     /\ s \notin Publishers => ~\E x \in asking \union joined \union ToSet(requests) : mine(x)

-----------------------------------------------------------------------------
(* Closing. *)

RoutersOf(r) == {x \in routers : x.r = r}
TransportsOf(S, R) == {t \in transports : t.s \in S /\ t.r \in R}
ProducersOn(T) == {p \in producers : p.transport \in T}
MicrophonesOf(s) == {p \in producers : p.s = s}
ConsumersOf(T, P) == {c \in consumers : c.transport \in T \/ c.producer \in P}

\* What the clients now know.
Tell(known) ==
  /\ told' = known
  /\ lost' = lost \intersect UNION {known[s] : s \in Sessions}

\* These routers, these transports with what they carry, given what is paused
\* and known by now; then SFU_PRODUCER_CLOSED to every client that was told.
Close(R, T, quiet, known) ==
  LET mics == ProducersOn(T)
      heard == ConsumersOf(T, mics)
  IN /\ transports' = transports \ T
     /\ producers' = producers \ mics
     /\ consumers' = consumers \ heard
     /\ open' = open \ (R \union T \union mics \union heard)
     /\ paused' = quiet \ mics
     /\ Tell([s \in Sessions |-> known[s] \ mics])

\* cancelPendingTransports, of all but those.
Uncancelled(S, R) == {x \in pending : ~(x.kind = "transport" /\ x.s \in S /\ x.r \in R)}

CloseSession(s, quiet, known) ==
  /\ pending' = Uncancelled({s}, Rooms)
  /\ Close({}, TransportsOf({s}, Rooms), quiet, known)

\* Mutant: nobody is told of what goes with the media of another room.
CloseSessionExceptSilently(s, r, quiet, known) ==
  LET T == TransportsOf({s}, Rooms \ {r})
  IN /\ pending' = Uncancelled({s}, Rooms \ {r})
     /\ transports' = transports \ T
     /\ producers' = producers \ ProducersOn(T)
     /\ consumers' = consumers \ ConsumersOf(T, ProducersOn(T))
     /\ open' = open \ (T \union ProducersOn(T) \union ConsumersOf(T, ProducersOn(T)))
     /\ paused' = quiet \ ProducersOn(T)
     /\ Tell(known)

CloseSessionExcept(s, r, quiet, known) ==
  /\ pending' = Uncancelled({s}, Rooms \ {r})
  /\ Close({}, TransportsOf({s}, Rooms \ {r}), quiet, known)

\* The room ends with everyone inside it.
CloseChannel(r, inside, known) ==
  /\ routers' = routers \ RoutersOf(r)
  /\ creations' = {x \in creations : x.r # r}
  /\ pending' = Uncancelled(inside, Rooms) \intersect Uncancelled(Sessions, {r})
  /\ Close(RoutersOf(r), TransportsOf(inside, Rooms) \union TransportsOf(Sessions, {r}), paused, known)

-----------------------------------------------------------------------------
(* The worker's start.  Whoever needs it waits for the start under way. *)

\* init: joins the start under way, or begins one.
Wait(handler) ==
  /\ startup' = IF startup = 0 THEN generation ELSE startup
  /\ starting' = IF startup = 0 THEN [starting EXCEPT ![generation] = "spawning"] ELSE starting
  /\ delayed' = [delayed EXCEPT ![startup'] = @ \union {handler}]
  /\ UNCHANGED <<generation, worker, processes>>

\* A creation that fails takes along the transports that wait for it.
Reject(E) ==
  /\ creations' = creations \ E
  /\ joined' = {t \in joined : t.router \notin E}
  /\ pending' = {x \in pending : ~(x \in joined /\ x.router \in E)}

\* A start ended: whoever waits for it goes on, unless it was rejected.
EndStart(g, rejected) ==
  /\ starting' = [starting EXCEPT ![g] = "no"]
  /\ startup' = IF startup = g THEN 0 ELSE startup
  /\ delayed' = [delayed EXCEPT ![g] = {}]
  /\ ready' = IF rejected THEN ready ELSE ready \union delayed[g]
  /\ IF rejected THEN Reject({e \in delayed[g] : e.kind = "router"})
     ELSE UNCHANGED <<creations, joined, pending>>
  /\ UNCHANGED <<membership, generation, routers, media, requests, views>>

\* createWorker answered.
Spawned(g) ==
  /\ starting[g] = "spawning"
  /\ UNCHANGED <<worker, faults>>
  /\ IF generation # g THEN EndStart(g, FALSE) /\ UNCHANGED processes
     ELSE /\ starting' = [starting EXCEPT ![g] = "binding"]
          /\ processes' = processes \union {g}
          /\ UNCHANGED <<membership, generation, startup, handlers, routing, media, pending, joined, requests, views>>

\* Mutant: a start that outlived the SFU it was for takes over.
BoundUnchecked(g) ==
  /\ starting[g] = "binding"
  /\ worker' = g /\ UNCHANGED <<processes, faults>>
  /\ EndStart(g, FALSE)

\* The shared sockets are bound: the worker serves, unless the SFU was closed
\* meanwhile.
Bound(g) ==
  /\ starting[g] = "binding"
  /\ IF generation # g THEN processes' = processes \ {g} /\ UNCHANGED worker
     ELSE worker' = g /\ UNCHANGED processes
  /\ EndStart(g, FALSE) /\ UNCHANGED faults

\* No process, or no free port.
StartFails(g) ==
  /\ starting[g] # "no" /\ Fault
  /\ processes' = processes \ {g} /\ UNCHANGED worker
  /\ EndStart(g, starting[g] = "binding" /\ generation # g)

-----------------------------------------------------------------------------
(* Transports, and the router of their room. *)

\* Mutant: the router the room already has is not looked for.
CreateTransportAnew(x, kept) ==
  LET new(router) == [kind |-> "transport", id |-> x.id, s |-> x.s, r |-> x.r, router |-> router]
      made == [kind |-> "router", id |-> x.id, r |-> x.r]
  IN IF \E c \in creations : c.r = x.r
     THEN \E c \in {y \in creations : y.r = x.r} :
            /\ pending' = kept \union {new(c)} /\ joined' = joined \union {new(c)}
            /\ UNCHANGED <<creations, requests, manager, delayed>>
     ELSE /\ creations' = creations \union {made}
          /\ pending' = kept \union {new(made)} /\ joined' = joined \union {new(made)}
          /\ IF worker = 0 THEN Wait(made) /\ UNCHANGED requests
             ELSE requests' = Append(requests, made) /\ UNCHANGED <<manager, delayed>>

\* createWebRtcTransport and getOrCreateRouter: one creation of the room's
\* router serves everyone who asks meanwhile.
CreateTransport(x, kept) ==
  LET new(router) == [kind |-> "transport", id |-> x.id, s |-> x.s, r |-> x.r, router |-> router]
      made == [kind |-> "router", id |-> x.id, r |-> x.r]
  IN \/ \E router \in routers :
          /\ router.r = x.r
          /\ pending' = kept \union {new(router)} /\ requests' = Append(requests, new(router))
          /\ UNCHANGED <<creations, joined, manager, delayed>>
     \/ \E c \in creations :
          /\ c.r = x.r /\ \A router \in routers : router.r # x.r
          /\ pending' = kept \union {new(c)} /\ joined' = joined \union {new(c)}
          /\ UNCHANGED <<creations, requests, manager, delayed>>
     \/ /\ \A router \in routers \union creations : router.r # x.r
        /\ creations' = creations \union {made}
        /\ pending' = kept \union {new(made)} /\ joined' = joined \union {new(made)}
        /\ IF worker = 0 THEN Wait(made) /\ UNCHANGED requests
           ELSE requests' = Append(requests, made) /\ UNCHANGED <<manager, delayed>>

\* handleSfuCreateWebRtcTransport, once the worker runs: closeTransportsFor and
\* closeSessionExcept end what the session had, in this room and in any other.
OpenTransport(x) ==
  /\ Close({}, TransportsOf({x.s}, Rooms), paused, told)
  /\ CreateTransport(x, Uncancelled({x.s}, Rooms))
  /\ UNCHANGED routers

RequestTransport(s) ==
  /\ room[s] # None /\ MayWait(s)
  /\ \E i \in ForTransport(s) :
       LET x == [kind |-> "asking", id |-> i, s |-> s, r |-> room[s]]
       IN IF worker = 0 THEN Wait(x) /\ UNCHANGED <<routing, media, pending, joined, requests, told, lost>>
          ELSE OpenTransport(x)
  /\ UNCHANGED <<membership, ready, asked, faults>>

\* The wait for the worker is over: the request is looked at again.
RequestGoesOn(x) ==
  /\ x.kind = "asking"
  /\ ready' = ready \ {x}
  /\ IF room[x.s] = x.r THEN OpenTransport(x)
     ELSE UNCHANGED <<manager, delayed, routing, media, pending, joined, requests, told, lost>>
  /\ UNCHANGED <<membership, asked, faults>>

\* createRouter, once it need not wait for the worker.
RouterGoesOn(x) ==
  /\ x.kind = "router"
  /\ ready' = ready \ {x}
  /\ IF worker = 0 THEN Reject({x}) /\ UNCHANGED requests
     ELSE requests' = Append(requests, x) /\ UNCHANGED <<creations, joined, pending>>
  /\ UNCHANGED <<membership, manager, delayed, routers, media, views, faults>>

\* The router is there; nothing comes of a transport that nobody wants any more.
TransportGoesOn(t) ==
  /\ t.kind = "transport"
  /\ ready' = ready \ {t}
  /\ requests' = IF t \in pending THEN Append(requests, t) ELSE requests
  /\ UNCHANGED <<membership, manager, delayed, routing, media, pending, joined, views, faults>>

-----------------------------------------------------------------------------
(* The other media requests of members. *)

\* A client sends its microphone on the transport it was given.
Produce(s) ==
  /\ Direction(s) = "send" /\ MayWait(s)
  /\ \E t \in transports :
       /\ t.s = s /\ t.r = room[s] /\ t \in open
       /\ ProducersOn({t}) = {}
       /\ \E i \in ForProducer(s) :
            LET p == [kind |-> "producer", id |-> i, s |-> s, r |-> t.r, transport |-> t]
            IN pending' = pending \union {p} /\ requests' = Append(requests, p)
  /\ UNCHANGED <<membership, manager, handlers, routing, media, joined, views, faults>>

\* consumeRemoteProducer: a client asks for a producer it was told of, and once.
AsksOnce(s, c) == c.producer \in told[s] /\ c \notin consumers \union Asked({"consumer"})

\* A client listens to a producer of its room.
Consume(s) ==
  /\ Direction(s) = "recv" /\ MayWait(s)
  /\ \E t \in transports, p \in producers :
       LET c == [kind |-> "consumer", s |-> s, r |-> t.r, transport |-> t, producer |-> p]
       IN /\ t.s = s /\ t.r = room[s] /\ t \in open
          /\ p.r = t.r /\ AsksOnce(s, c)
          /\ pending' = pending \union {c} /\ requests' = Append(requests, c)
  /\ UNCHANGED <<membership, manager, handlers, routing, media, joined, views, faults>>

\* SFU_GET_PRODUCERS.
GetProducers(s) ==
  /\ room[s] # None /\ Direction(s) = "recv"
  /\ told' = [told EXCEPT ![s] = @ \union {p \in producers : p.r = room[s] /\ p.s # s}]
  /\ asked' = asked \union {s}
  /\ UNCHANGED <<membership, manager, handlers, routing, media, pending, joined, requests, lost, faults>>

\* SFU_PRODUCER_CLOSED from its owner.
CloseProducer(s) ==
  \E p \in producers :
    LET heard == ConsumersOf({}, {p}) IN
    /\ p.s = s /\ p.r = room[s]
    /\ producers' = producers \ {p} /\ paused' = paused \ {p}
    /\ consumers' = consumers \ heard
    /\ open' = open \ ({p} \union heard)
    /\ Tell([q \in Sessions |-> told[q] \ {p}])
    /\ UNCHANGED <<membership, manager, handlers, routing, transports, pending, joined, requests, asked, faults>>

-----------------------------------------------------------------------------
(* Membership and mutes. *)

\* SFU_NEW_PRODUCER, to those in the room who receive.
Announced(m, known) ==
  [s \in Sessions |-> IF s # m.s /\ Direction(s) = "recv" /\ room[s] = m.r
                      THEN known[s] \union (m.news \intersect producers) ELSE known[s]]

Heard(m, quiet, known) ==
  /\ paused' = quiet /\ Tell(Announced(m, known))
  /\ UNCHANGED <<transports, producers, consumers, open, pending>>

\* Mutants: a join leaves what the session had in other rooms; a muted
\* microphone is not announced.
AfterMuteKeeping(m, quiet, known) ==
  IF m.next = "move" THEN CloseSession(m.s, quiet, known) ELSE Heard(m, quiet, known)
AfterMuteAudible(m, quiet, known) ==
  CASE m.next = "join" -> CloseSessionExcept(m.s, m.r, quiet, known)
    [] m.next = "move" -> CloseSession(m.s, quiet, known)
    [] m.next = "nothing" -> Heard([m EXCEPT !.news = IF m.kind = "pause" THEN {} ELSE @], quiet, known)

\* What follows the pausing or resuming of a session's microphones.
AfterMute(m, quiet, known) ==
  CASE m.next = "join" -> CloseSessionExcept(m.s, m.r, quiet, known)
    [] m.next = "move" -> CloseSession(m.s, quiet, known)
    [] m.next = "nothing" -> Heard(m, quiet, known)

\* What the worker is asked to do with the microphones of a session.
Hush(s, silent) == IF s \in silent THEN "pause" ELSE "resume"

\* syncSfuMicrophoneMute and what follows: nothing to wait for without a microphone.
SyncMute(s, r, silent, next, known) ==
  LET m == [kind |-> Hush(s, silent), s |-> s, r |-> r, mics |-> MicrophonesOf(s), next |-> next, news |-> {}]
  IN IF m.mics = {} THEN AfterMute(m, paused, known) /\ UNCHANGED requests
     ELSE /\ requests' = Append(requests, m) /\ Tell(known)
          /\ UNCHANGED <<media, pending>>

\* What a client was told belongs to its stay in a room.
Enter(s, r, next) ==
  /\ room' = [room EXCEPT ![s] = r]
  /\ asked' = IF room[s] = r THEN asked ELSE asked \ {s}
  /\ SyncMute(s, r, muted, next, IF room[s] = r THEN told ELSE [told EXCEPT ![s] = {}])
  /\ UNCHANGED <<channels, muted, manager, handlers, routing, joined, faults>>

Join(s, r) == r \in channels /\ MayWait(s) /\ Enter(s, r, "join")

Move(s, r) == r \in channels /\ room[s] \notin {None, r} /\ MayWait(s) /\ Enter(s, r, "move")

\* Any end of a stay.
Leave(s) ==
  /\ room[s] # None
  /\ room' = [room EXCEPT ![s] = None] /\ muted' = muted \ {s}
  /\ asked' = asked \ {s}
  /\ CloseSession(s, paused, [told EXCEPT ![s] = {}])
  /\ UNCHANGED <<channels, manager, handlers, routing, joined, requests, faults>>

SetMuted(s) ==
  LET silent == IF s \in muted THEN muted \ {s} ELSE muted \union {s} IN
  /\ s \in Publishers /\ room[s] # None /\ MayWait(s)
  /\ muted' = silent
  /\ SyncMute(s, room[s], silent, "nothing", told)
  /\ UNCHANGED <<channels, room, manager, handlers, routing, joined, asked, faults>>

\* A new connection of the same session, which keeps its room: its client
\* starts over, and answers to the old connection find nobody.
Replace(s) ==
  /\ room[s] # None /\ Fault
  /\ pending' = {x \in pending : x.s # s}
  /\ delayed' = [g \in Generations |-> {x \in delayed[g] : x.kind = "asking" => x.s # s}]
  /\ asked' = asked \ {s}
  /\ Tell([told EXCEPT ![s] = {}])
  /\ UNCHANGED <<membership, manager, ready, routing, media, joined, requests>>

DeleteChannel(r) ==
  LET inside == {s \in Sessions : room[s] = r}
  IN /\ r \in channels /\ Fault
     /\ channels' = channels \ {r}
     /\ room' = [s \in Sessions |-> IF s \in inside THEN None ELSE room[s]]
     /\ muted' = muted \ inside
     /\ asked' = asked \ inside
     /\ CloseChannel(r, inside, [s \in Sessions |-> IF s \in inside THEN {} ELSE told[s]])
     /\ UNCHANGED <<manager, handlers, joined, requests>>

-----------------------------------------------------------------------------
(* The worker answers the oldest request. *)

\* A creation that is no longer the room's is abandoned, with those who wait
\* for it; otherwise they go on.
RouterCreated(x) ==
  /\ x.kind = "router"
  /\ requests' = Tail(requests)
  /\ IF x \notin creations THEN Reject({x}) /\ UNCHANGED <<routers, open, ready>>
     ELSE /\ routers' = routers \union {x} /\ creations' = creations \ {x} /\ open' = open \union {x}
          /\ ready' = ready \union {t \in joined : t.router = x}
          /\ joined' = {t \in joined : t.router # x}
          /\ UNCHANGED pending
  /\ UNCHANGED <<membership, manager, delayed, transports, producers, consumers, paused, views, faults>>

\* Whoever asked is still there, on the same connection and in the same room.
Wanted(x) == x \in pending /\ room[x.s] = x.r

TransportCreated(t) ==
  /\ t.kind = "transport"
  /\ requests' = Tail(requests) /\ pending' = pending \ {t}
  /\ IF Wanted(t) THEN transports' = transports \union {t} /\ open' = open \union {t}
     ELSE UNCHANGED <<transports, open>>
  /\ UNCHANGED <<membership, manager, handlers, routing, producers, consumers, paused, joined, views, faults>>

TransportIsGone(x) == x.transport \notin transports \intersect open

\* Mutant: the microphone is not brought to the mute of its session.
ProducedUnsynced(p) ==
  /\ p.kind = "producer"
  /\ pending' = pending \ {p} /\ requests' = Tail(requests)
  /\ IF Wanted(p) /\ ~TransportIsGone(p) /\ ProducersOn({p.transport}) = {}
     THEN /\ producers' = producers \union {p} /\ open' = open \union {p} /\ paused' = paused \union {p}
          /\ told' = [s \in Sessions |-> IF s # p.s /\ Direction(s) = "recv" /\ room[s] = p.r
                                         THEN told[s] \union {p} ELSE told[s]]
     ELSE UNCHANGED <<producers, open, paused, told>>
  /\ UNCHANGED <<membership, manager, handlers, routing, transports, consumers, joined, asked, lost, faults>>

Produced(p) ==
  LET m == [kind |-> Hush(p.s, muted), s |-> p.s, r |-> p.r, mics |-> MicrophonesOf(p.s) \union {p},
            next |-> "nothing", news |-> {p}]
  IN /\ p.kind = "producer"
     /\ pending' = pending \ {p}
     /\ IF Wanted(p) /\ ~TransportIsGone(p) /\ ProducersOn({p.transport}) = {}
        THEN /\ producers' = producers \union {p} /\ open' = open \union {p} /\ paused' = paused \union {p}
             /\ requests' = Append(Tail(requests), m)
        ELSE requests' = Tail(requests) /\ UNCHANGED <<producers, open, paused>>
     /\ UNCHANGED <<membership, manager, handlers, routing, transports, consumers, joined, views, faults>>

Consumed(c) ==
  /\ c.kind = "consumer"
  /\ requests' = Tail(requests) /\ pending' = pending \ {c}
  /\ CASE c.producer \notin producers ->
            Tell([told EXCEPT ![c.s] = @ \ {c.producer}]) /\ UNCHANGED <<consumers, open>>
       [] c.producer \in producers /\ (TransportIsGone(c) \/ ~Wanted(c)) -> UNCHANGED <<consumers, open, told, lost>>
       [] c.producer \in producers /\ ~TransportIsGone(c) /\ Wanted(c) ->
            /\ consumers' = consumers \union {c} /\ open' = open \union {c}
            /\ Tell([told EXCEPT ![c.s] = @ \union {c.producer}])
  /\ UNCHANGED <<membership, manager, handlers, routing, transports, producers, paused, joined, asked, faults>>

Muted(m) ==
  /\ m.kind \in {"pause", "resume"}
  /\ requests' = Tail(requests)
  /\ AfterMute(m, IF m.kind = "pause" THEN paused \union (m.mics \intersect open) ELSE paused \ m.mics, told)
  /\ UNCHANGED <<membership, manager, handlers, routing, joined, asked, faults>>

WorkerAnswers ==
  requests # <<>> /\ LET e == Head(requests)
                     IN RouterCreated(e) \/ TransportCreated(e) \/ Produced(e) \/ Consumed(e) \/ Muted(e)

\* The network between a client and its transport fails: the worker closes the
\* transport and what it carried, the record of it stays until it is replaced.
DtlsFails(t) ==
  LET mics == ProducersOn({t})
      heard == ConsumersOf({t}, mics)
  IN /\ t \in open /\ Fault
     /\ producers' = producers \ mics /\ consumers' = consumers \ heard
     /\ open' = open \ ({t} \union mics \union heard) /\ paused' = paused \ mics
     /\ lost' = (lost \union mics) \intersect UNION {told[s] : s \in Sessions}
     /\ UNCHANGED <<membership, manager, handlers, routing, transports, pending, joined, requests, told, asked>>

-----------------------------------------------------------------------------
(* The end of a worker. *)

\* forgetMedia, and what clients are told.  The requests that were not answered
\* are rejected: a handler that waits for a mute goes on all the same, but
\* finds nothing on record to close or to announce.
ForgetMedia ==
  /\ routers' = {} /\ creations' = {}
  /\ transports' = {} /\ producers' = {} /\ consumers' = {} /\ open' = {} /\ paused' = {}
  /\ pending' = {} /\ joined' = {} /\ requests' = <<>>
  /\ told' = [s \in Sessions |-> {}] /\ lost' = {}

WorkerDies ==
  /\ worker # 0 /\ Fault
  /\ generation' = generation + 1 /\ worker' = 0 /\ processes' = processes \ {worker}
  /\ ForgetMedia
  /\ UNCHANGED <<membership, startup, starting, handlers, asked>>

\* The server's calls become peer to peer: everyone leaves, the SFU closes.
CloseSfu ==
  /\ Fault
  /\ generation' = generation + 1 /\ startup' = 0 /\ worker' = 0 /\ processes' = processes \ {worker}
  /\ room' = [s \in Sessions |-> None] /\ muted' = {}
  /\ ForgetMedia /\ asked' = {}
  /\ UNCHANGED <<channels, starting, handlers>>

-----------------------------------------------------------------------------

Init ==
  /\ channels = Rooms
  /\ room = [s \in Sessions |-> None]
  /\ muted = {}
  /\ generation = 1 /\ worker = 0 /\ startup = 0
  /\ starting = [g \in Generations |-> "no"]
  /\ processes = {}
  /\ delayed = [g \in Generations |-> {}] /\ ready = {}
  /\ routers = {} /\ creations = {}
  /\ transports = {} /\ producers = {} /\ consumers = {}
  /\ open = {} /\ paused = {}
  /\ pending = {} /\ joined = {} /\ requests = <<>>
  /\ told = [s \in Sessions |-> {}]
  /\ asked = {} /\ lost = {} /\ faults = 0

GoesOn(x) == RequestGoesOn(x) \/ RouterGoesOn(x) \/ TransportGoesOn(x)

Member(s) ==
  \/ \E r \in Rooms : Join(s, r) \/ Move(s, r)
  \/ Leave(s) \/ SetMuted(s) \/ Replace(s)
  \/ RequestTransport(s) \/ Produce(s) \/ Consume(s) \/ GetProducers(s) \/ CloseProducer(s)

Next ==
  \/ \E x \in ready : GoesOn(x)
  \/ /\ ready = {}
     /\ \/ \E s \in Sessions : Member(s)
        \/ \E r \in Rooms : DeleteChannel(r)
        \/ \E g \in Generations : Spawned(g) \/ Bound(g) \/ StartFails(g)
        \/ WorkerAnswers
        \/ \E t \in transports : DtlsFails(t)
        \/ WorkerDies
        \/ CloseSfu

Spec == Init /\ [][Next]_vars

-----------------------------------------------------------------------------

\* A transport carries one microphone at most.
OneMicrophone == \A p, q \in producers : p.transport = q.transport => p = q

\* Types, and what ties the records together: every producer and consumer is
\* open and hangs from a transport on record, a consumer listens to a producer
\* on record, and a transport carries one microphone at most.
TypeOK ==
  /\ channels \subseteq Rooms
  /\ room \in [Sessions -> channels \union {None}]
  /\ muted \subseteq Sessions
  /\ generation \in Generations /\ {worker, startup} \subseteq {0} \union Generations
  /\ starting \in [Generations -> {"no", "spawning", "binding"}]
  /\ processes \subseteq Generations
  /\ delayed \in [Generations -> SUBSET (Router \union Asking)]
  /\ ready \subseteq Router \union Asking \union Transport
  /\ routers \subseteq Router /\ creations \subseteq Router
  /\ transports \subseteq Transport
  /\ producers \subseteq Producer \intersect open /\ \A p \in producers : p.transport \in transports
  /\ OneMicrophone
  /\ consumers \subseteq Consumer \intersect open
  /\ \A c \in consumers : c.transport \in transports /\ c.producer \in producers
  /\ paused \subseteq producers
  /\ pending \subseteq Transport \union Producer \union Consumer
  /\ joined \subseteq Transport
  /\ requests \in Seq(Request)
  /\ told \in [Sessions -> SUBSET Producer]
  /\ asked \subseteq Sessions /\ lost \subseteq Producer /\ faults \in 0..MaxFaults

\* Everyone in a room is on one router, the one on record: two would split the
\* room into people who cannot hear each other.
OneRouter ==
  \A t \in transports \intersect open : RoutersOf(t.r) = {t.router} /\ t.router \in open

\* What the worker has open is on record, and its routers are those of rooms that
\* exist, so that something will close them; and
\* the only worker processes are the one on record and those still starting.
NothingLeaks ==
  /\ open \subseteq {x \in routers : x.r \in channels} \union transports \union producers \union consumers
  /\ processes \subseteq {worker} \union {g \in Generations : starting[g] = "binding"}

\* A session has media only in the room it is in, except while its own join or
\* move still waits for its microphone.
MediaFollowsRoom ==
  \A x \in transports \union producers \union consumers :
    x.r = room[x.s] \/ \E i \in DOMAIN requests :
      IsMute(requests[i], x.s) /\ requests[i].next \in {"join", "move"}

\* A person has one microphone on a transport, however many were asked for at once.
\* Once the worker has nothing left to answer, it is paused exactly when the person
\* may not be heard.
MutesSettle ==
  /\ OneMicrophone
  /\ \A p \in producers :
       (\A i \in DOMAIN requests : ~IsMute(requests[i], p.s)) => (p \in paused <=> p.s \in muted)

\* No client listens to a producer that is gone, except one that went with its
\* owner's failed transport, of which nobody is told.
HearsOnlyLive == \A s \in Sessions : told[s] \subseteq producers \union lost

\* Nobody goes unheard: a client that asked for the list of producers of its
\* room knows every one of them once the worker has nothing left to answer.
NobodyUnheard ==
  requests = <<>> => \A s \in asked, p \in producers : p.r = room[s] /\ p.s # s => p \in told[s]

=============================================================================
