--------------------------- MODULE SfuMediaProofs ---------------------------
(***************************************************************************)
(* Proofs of the safety properties of SfuMedia, for any sessions, rooms,   *)
(* identities and bounds.  The inductive invariant is TypeOK with one part *)
(* for each property, which says where it stands while answers of the      *)
(* worker are still to come.                                               *)
(***************************************************************************)
EXTENDS SfuMedia, SequenceTheorems, TLAPS

\* One router for each room that exists, on record or being created; a
\* transport is on the one on record, and so is one that was asked of the
\* worker, unless its room is gone.
Routed ==
  /\ \A x, y \in routers \union creations : x.r = y.r => x = y
  /\ routers \intersect creations = {}
  /\ \A x \in routers \union creations : x.r \in channels
  /\ routers \subseteq open
  /\ \A t \in transports : t.router \in routers
  /\ \A t \in ready : t.kind = "transport" => t.router \in routers \/ t.r \notin channels
  /\ \A i \in DOMAIN requests :
       requests[i].kind = "transport" => requests[i].router \in routers \/ requests[i].r \notin channels

\* What the worker has open is on record.
Recorded == open \subseteq routers \union transports \union producers \union consumers

\* A start under way is this generation's or an older one's; while it is this
\* one's there is no worker, and a process is the worker's or about to be.
Started ==
  /\ generation <= faults + 1
  /\ \A g \in Generations : g > generation => starting[g] = "no"
  /\ starting[generation] # "no" => startup = generation
  /\ startup # 0 => startup = generation /\ worker = 0
  /\ processes \subseteq {worker} \union {g \in Generations : starting[g] = "binding"}

\* The join or move that is to close what a session has elsewhere is the one
\* into the room it is in.
Following ==
  \A t \in transports :
    t.r = room[t.s] \/ \E i \in DOMAIN requests :
      IsMute(requests[i], t.s) /\ requests[i].next \in {"join", "move"} /\ requests[i].r = room[t.s]

\* The last mute asked for a session is the one that holds, and covers each of
\* its microphones.
Holds(q, p, stopped, silent) ==
  \/ /\ \A i \in DOMAIN q : ~IsMute(q[i], p.s)
     /\ p \in stopped <=> p.s \in silent
  \/ \E i \in DOMAIN q :
       /\ IsMute(q[i], p.s) /\ (q[i].kind = "pause" <=> p.s \in silent) /\ p \in q[i].mics
       /\ \A j \in DOMAIN q : IsMute(q[j], p.s) => j <= i

Settling == \A p \in producers : Holds(requests, p, paused, muted)

\* Whoever asked for the list knows of a microphone, or will be told of it.
Heeding ==
  /\ \A s \in asked : Direction(s) = "recv"
  /\ \A s \in asked, p \in producers : p.r = room[s] /\ p.s # s =>
       p \in told[s] \/ \E i \in DOMAIN requests : IsMute(requests[i], p.s) /\ p \in requests[i].news

IInv == TypeOK /\ Routed /\ Recorded /\ Started /\ Following /\ Settling /\ HearsOnlyLive /\ Heeding

-----------------------------------------------------------------------------
(* The queue of requests. *)

\* What Append and Tail do to the entries of a queue.
LEMMA Appended ==
  ASSUME NEW S, NEW q \in Seq(S), NEW e \in S
  PROVE  /\ Append(q, e) \in Seq(S)
         /\ DOMAIN q \subseteq DOMAIN Append(q, e)
         /\ Len(q) \in Nat /\ DOMAIN q = 1..Len(q) /\ DOMAIN Append(q, e) = 1..(Len(q) + 1)
         /\ \A i \in DOMAIN q : Append(q, e)[i] = q[i]
         /\ Append(q, e)[Len(q) + 1] = e
BY AppendProperties, LenProperties

LEMMA Tailed ==
  ASSUME NEW S, NEW q \in Seq(S), q # <<>>
  PROVE  /\ Tail(q) \in Seq(S) /\ Head(q) \in S
         /\ Len(q) \in Nat \ {0} /\ DOMAIN q = 1..Len(q) /\ DOMAIN Tail(q) = 1..(Len(q) - 1)
         /\ \A i \in DOMAIN Tail(q) : i + 1 \in DOMAIN q /\ Tail(q)[i] = q[i + 1]
         /\ Head(q) = q[1]
<1>1. Tail(q) \in Seq(S) /\ Head(q) \in S /\ Len(Tail(q)) = Len(q) - 1
  BY HeadTailProperties
<1>2. Len(q) \in Nat \ {0} /\ DOMAIN q = 1..Len(q) /\ DOMAIN Tail(q) = 1..(Len(q) - 1)
  BY <1>1, LenProperties, EmptySeq
<1>3. \A i \in DOMAIN Tail(q) : i + 1 \in DOMAIN q /\ Tail(q)[i] = q[i + 1]
  BY <1>1, <1>2, HeadTailProperties
<1>4. Head(q) = q[1]
  OBVIOUS
<1> QED  BY <1>1, <1>2, <1>3, <1>4

\* A microphone stays with its mute when another request follows, when a mute
\* of its session follows, and when the oldest request is answered.
LEMMA HoldsBefore ==
  ASSUME NEW S, NEW q \in Seq(S), NEW e \in S, NEW p, NEW stopped, NEW silent,
         Holds(q, p, stopped, silent), ~IsMute(e, p.s)
  PROVE  Holds(Append(q, e), p, stopped, silent)
<1> DEFINE r == Append(q, e)
<1>1. /\ Len(q) \in Nat /\ DOMAIN q = 1..Len(q) /\ DOMAIN r = 1..(Len(q) + 1)
      /\ \A i \in DOMAIN q : r[i] = q[i]
      /\ r[Len(q) + 1] = e
  BY Appended
<1> HIDE DEF r
<1>2. \A j \in DOMAIN r : IsMute(r[j], p.s) => j \in DOMAIN q /\ IsMute(q[j], p.s)
  BY <1>1
<1>3. CASE \A i \in DOMAIN q : ~IsMute(q[i], p.s)
  BY <1>1, <1>2, <1>3 DEF Holds, r
<1>4. CASE \E i \in DOMAIN q : /\ IsMute(q[i], p.s) /\ (q[i].kind = "pause" <=> p.s \in silent) /\ p \in q[i].mics
                               /\ \A j \in DOMAIN q : IsMute(q[j], p.s) => j <= i
  <2>1. PICK i \in DOMAIN q : /\ IsMute(q[i], p.s) /\ (q[i].kind = "pause" <=> p.s \in silent) /\ p \in q[i].mics
                               /\ \A j \in DOMAIN q : IsMute(q[j], p.s) => j <= i
    BY <1>4
  <2>2. i \in DOMAIN r /\ r[i] = q[i]
    BY <1>1
  <2>3. \A j \in DOMAIN r : IsMute(r[j], p.s) => j <= i
    BY <1>2, <2>1
  <2> QED  BY <2>1, <2>2, <2>3 DEF Holds, r
<1> QED  BY <1>3, <1>4 DEF Holds

LEMMA HoldsAnew ==
  ASSUME NEW S, NEW q \in Seq(S), NEW e \in S, NEW p, NEW stopped, NEW silent,
         IsMute(e, p.s), e.kind = "pause" <=> p.s \in silent, p \in e.mics
  PROVE  Holds(Append(q, e), p, stopped, silent)
<1> DEFINE r == Append(q, e)
<1>1. Len(q) \in Nat /\ DOMAIN r = 1..(Len(q) + 1) /\ r[Len(q) + 1] = e
  BY Appended
<1> HIDE DEF r
<1>2. Len(q) + 1 \in DOMAIN r /\ \A j \in DOMAIN r : j <= Len(q) + 1
  BY <1>1
<1> QED  BY <1>1, <1>2 DEF Holds, r

LEMMA HoldsAfter ==
  ASSUME NEW S, NEW q \in Seq(S), q # <<>>, NEW p, NEW before, NEW stopped, NEW silent,
         Holds(q, p, before, silent),
         ~IsMute(Head(q), p.s) => (p \in stopped <=> p \in before),
         IsMute(Head(q), p.s) /\ p \in Head(q).mics => (p \in stopped <=> Head(q).kind = "pause")
  PROVE  Holds(Tail(q), p, stopped, silent)
<1> DEFINE r == Tail(q)
<1>1. /\ Len(q) \in Nat \ {0} /\ DOMAIN q = 1..Len(q) /\ DOMAIN r = 1..(Len(q) - 1)
      /\ \A i \in DOMAIN r : i + 1 \in DOMAIN q /\ r[i] = q[i + 1]
      /\ Head(q) = q[1]
  BY Tailed
<1> HIDE DEF r
<1>2. CASE \A i \in DOMAIN q : ~IsMute(q[i], p.s)
  <2>1. ~IsMute(q[1], p.s) /\ \A i \in DOMAIN r : ~IsMute(r[i], p.s)
    BY <1>1, <1>2
  <2> QED  BY <1>1, <1>2, <2>1 DEF Holds, r
<1>3. CASE \E i \in DOMAIN q : /\ IsMute(q[i], p.s) /\ (q[i].kind = "pause" <=> p.s \in silent) /\ p \in q[i].mics
                               /\ \A j \in DOMAIN q : IsMute(q[j], p.s) => j <= i
  <2>1. PICK i \in DOMAIN q : /\ IsMute(q[i], p.s) /\ (q[i].kind = "pause" <=> p.s \in silent) /\ p \in q[i].mics
                               /\ \A j \in DOMAIN q : IsMute(q[j], p.s) => j <= i
    BY <1>3
  <2>2. CASE i = 1
    <3>1. \A j \in DOMAIN r : ~IsMute(r[j], p.s)
      BY <1>1, <2>1, <2>2
    <3> QED  BY <1>1, <2>1, <2>2, <3>1 DEF Holds, r
  <2>3. CASE i # 1
    <3>1. i - 1 \in DOMAIN r /\ r[i - 1] = q[i]
      BY <1>1, <2>3
    <3>2. \A j \in DOMAIN r : IsMute(r[j], p.s) => j <= i - 1
      BY <1>1, <2>1
    <3> QED  BY <2>1, <3>1, <3>2 DEF Holds, r
  <2> QED  BY <2>2, <2>3
<1> QED  BY <1>2, <1>3 DEF Holds

-----------------------------------------------------------------------------
(* Closing.  What a step does to the media is summed up by Thinned: of what was *)
(* there, the rest stands as it did, with what is paused and known by then.    *)

\* TypeOK in two parts: the media with what clients were told of it, the rest.
MediaOK ==
  /\ transports \subseteq Transport
  /\ producers \subseteq Producer \intersect open /\ \A p \in producers : p.transport \in transports
  /\ \A p, q \in producers : p.transport = q.transport => p = q
  /\ consumers \subseteq Consumer \intersect open
  /\ \A c \in consumers : c.transport \in transports /\ c.producer \in producers
  /\ paused \subseteq producers
  /\ told \in [Sessions -> SUBSET Producer] /\ lost \subseteq Producer

RestOK ==
  /\ channels \subseteq Rooms
  /\ room \in [Sessions -> channels \union {None}]
  /\ muted \subseteq Sessions
  /\ generation \in Generations /\ {worker, startup} \subseteq {0} \union Generations
  /\ starting \in [Generations -> {"no", "spawning", "binding"}]
  /\ processes \subseteq Generations
  /\ delayed \in [Generations -> SUBSET (Router \union Asking)]
  /\ ready \subseteq Router \union Asking \union Transport
  /\ routers \subseteq Router /\ creations \subseteq Router
  /\ pending \subseteq Transport \union Producer \union Consumer
  /\ joined \subseteq Transport
  /\ requests \in Seq(Request)
  /\ asked \subseteq Sessions /\ faults \in 0..MaxFaults

LEMMA Parts == (TypeOK <=> MediaOK /\ RestOK) /\ (TypeOK' <=> MediaOK' /\ RestOK')
BY DEF TypeOK, OneMicrophone, MediaOK, RestOK

Known(known) == known \in [Sessions -> SUBSET Producer] /\ \A s \in Sessions : known[s] \subseteq producers \union lost

Thinned(quiet, known) ==
  /\ transports' \subseteq transports /\ producers' \subseteq producers
  /\ \A p \in producers' : p \in paused' <=> p \in quiet
  /\ \A s \in Sessions : \A p \in producers' : p \in known[s] => p \in told'[s]

\* Of the routers, those of R are closed, and nothing but them.
OpenButFor(R) ==
  /\ routers \intersect (open \ R) \subseteq open'
  /\ open' \subseteq (routers \ R) \union transports' \union producers' \union consumers'

\* Nothing is of two kinds.
LEMMA Kinds ==
  /\ \A x \in Router : x.kind = "router"
  /\ \A x \in Transport : x.kind = "transport"
  /\ \A x \in Producer : x.kind = "producer"
  /\ \A x \in Consumer : x.kind = "consumer"
  /\ \A x \in Asking : x.kind = "asking"
  /\ \A x \in Mute : x.kind \in {"pause", "resume"}
BY DEF Router, Transport, Producer, Consumer, Asking, Mute

\* Closing transports thins the media out, and leaves nothing on them.
LEMMA CloseThins ==
  ASSUME MediaOK, RestOK, Recorded,
         NEW R \in SUBSET Router, NEW T \in SUBSET transports, NEW quiet \in SUBSET producers,
         NEW known, Known(known), Close(R, T, quiet, known)
  PROVE  MediaOK' /\ HearsOnlyLive' /\ Thinned(quiet, known) /\ OpenButFor(R) /\ transports' = transports \ T
<1> USE DEF Close, Tell
<1>1. /\ transports' = transports \ T
      /\ producers' = {p \in producers : p.transport \notin T}
      /\ consumers' = {c \in consumers : c.transport \notin T /\ c.producer \in producers'}
  <2>1. \A p : p \in ProducersOn(T) <=> p \in producers /\ p.transport \in T
    BY DEF ProducersOn
  <2>2. producers' = {p \in producers : p.transport \notin T}
    BY <2>1
  <2>3. \A c \in consumers : c \in ConsumersOf(T, ProducersOn(T)) <=> c.transport \in T \/ c.producer \notin producers'
    BY <2>1, <2>2 DEF ConsumersOf, MediaOK
  <2> QED  BY <2>2, <2>3
<1>2. /\ paused' = {p \in quiet : p \in producers'}
      /\ told' = [s \in Sessions |-> {p \in known[s] : ~(p \in producers /\ p \notin producers')}]
      /\ lost' = lost \intersect UNION {told'[s] : s \in Sessions}
  <2>1. \A p : p \in ProducersOn(T) <=> p \in producers /\ p \notin producers'
    BY DEF ProducersOn
  <2>2. told' = [s \in Sessions |-> known[s] \ ProducersOn(T)]
    BY DEF Close, Tell
  <2>3. \A s \in Sessions : known[s] \ ProducersOn(T) = {p \in known[s] : ~(p \in producers /\ p \notin producers')}
    BY <2>1
  <2>4. paused' = {p \in quiet : p \in producers'}
    BY <2>1
  <2>5. lost' = lost \intersect UNION {told'[s] : s \in Sessions}
    BY <2>2
  <2> QED  BY <2>2, <2>3, <2>4, <2>5
<1>3. open' = {x \in open : x \notin R /\ x \notin T /\ ~(x \in producers /\ x \notin producers')
                           /\ ~(x \in consumers /\ x \notin consumers')}
  <2>1. \A x : x \in ProducersOn(T) <=> x \in producers /\ x \notin producers'
    BY DEF ProducersOn
  <2>2. \A x : x \in ConsumersOf(T, ProducersOn(T)) <=> x \in consumers /\ x \notin consumers'
    BY DEF ConsumersOf
  <2> QED  BY <2>1, <2>2
<1> HIDE DEF Close, Tell
<1>4. told' \in [Sessions -> SUBSET Producer] /\ lost' \subseteq Producer
  BY <1>2 DEF MediaOK, Known
<1>5. HearsOnlyLive'
  BY <1>2 DEF HearsOnlyLive, Known
<1>6. producers' \subseteq open' /\ consumers' \subseteq open'
  BY <1>1, <1>3, Kinds DEF MediaOK
<1>7. MediaOK'
  BY <1>1, <1>2, <1>4, <1>6 DEF MediaOK
<1>8. routers \intersect (open \ R) \subseteq open'
  BY <1>1, <1>3, Kinds DEF MediaOK, RestOK
<1>9. open' \subseteq (routers \ R) \union transports' \union producers' \union consumers'
  BY <1>1, <1>3 DEF Recorded
<1>10. \A s \in Sessions : \A p \in producers' : p \in known[s] => p \in told'[s]
  BY <1>2
<1> QED  BY <1>1, <1>2, <1>5, <1>7, <1>8, <1>9, <1>10 DEF Thinned, OpenButFor

LEMMA ToldIsKnown ==
  ASSUME MediaOK, HearsOnlyLive
  PROVE  Known(told) /\ \A s \in Sessions : Known([told EXCEPT ![s] = {}])
BY DEF MediaOK, HearsOnlyLive, Known

LEMMA SessionThins ==
  ASSUME MediaOK, RestOK, Recorded, NEW s \in Sessions,
         NEW quiet \in SUBSET producers, NEW known, Known(known), CloseSession(s, quiet, known)
  PROVE  /\ MediaOK' /\ HearsOnlyLive' /\ Thinned(quiet, known) /\ OpenButFor({})
         /\ pending' \subseteq pending /\ \A t \in transports' : t.s # s
<1>1. TransportsOf({s}, Rooms) \in SUBSET transports /\ Close({}, TransportsOf({s}, Rooms), quiet, known)
  BY DEF TransportsOf, CloseSession
<1>2. pending' \subseteq pending
  BY DEF CloseSession, Uncancelled
<1>3. /\ MediaOK' /\ HearsOnlyLive' /\ Thinned(quiet, known) /\ OpenButFor({})
      /\ transports' = transports \ TransportsOf({s}, Rooms)
  BY <1>1, CloseThins
<1>4. \A t \in transports' : t.s # s
  BY <1>3 DEF TransportsOf, MediaOK, Transport
<1> QED  BY <1>2, <1>3, <1>4

LEMMA SessionExceptThins ==
  ASSUME MediaOK, RestOK, Recorded, NEW s \in Sessions, NEW r \in Rooms,
         NEW quiet \in SUBSET producers, NEW known, Known(known), CloseSessionExcept(s, r, quiet, known)
  PROVE  /\ MediaOK' /\ HearsOnlyLive' /\ Thinned(quiet, known) /\ OpenButFor({})
         /\ pending' \subseteq pending /\ \A t \in transports' : t.s = s => t.r = r
<1>1. TransportsOf({s}, Rooms \ {r}) \in SUBSET transports /\ Close({}, TransportsOf({s}, Rooms \ {r}), quiet, known)
  BY DEF TransportsOf, CloseSessionExcept
<1>2. pending' \subseteq pending
  BY DEF CloseSessionExcept, Uncancelled
<1>3. /\ MediaOK' /\ HearsOnlyLive' /\ Thinned(quiet, known) /\ OpenButFor({})
      /\ transports' = transports \ TransportsOf({s}, Rooms \ {r})
  BY <1>1, CloseThins
<1>4. \A t \in transports' : t.s = s => t.r = r
  BY <1>3 DEF TransportsOf, MediaOK, Transport
<1> QED  BY <1>2, <1>3, <1>4

LEMMA ChannelThins ==
  ASSUME MediaOK, RestOK, Recorded, NEW r \in Rooms, NEW inside \in SUBSET Sessions,
         NEW known, Known(known), CloseChannel(r, inside, known)
  PROVE  /\ MediaOK' /\ HearsOnlyLive' /\ Thinned(paused, known) /\ OpenButFor(RoutersOf(r))
         /\ pending' \subseteq pending /\ \A t \in transports' : t.r # r /\ t.s \notin inside
<1> DEFINE T == TransportsOf(inside, Rooms) \union TransportsOf(Sessions, {r})
<1>1. T \in SUBSET transports /\ RoutersOf(r) \in SUBSET Router /\ Close(RoutersOf(r), T, paused, known)
  BY DEF TransportsOf, CloseChannel, RoutersOf, RestOK
<1>2. pending' \subseteq pending
  BY DEF CloseChannel, Uncancelled
<1>3. /\ MediaOK' /\ HearsOnlyLive' /\ Thinned(paused, known) /\ OpenButFor(RoutersOf(r))
      /\ transports' = transports \ T
  <2> HIDE DEF T
  <2> QED  BY <1>1, CloseThins DEF MediaOK
<1>4. \A t \in transports' : t.r # r /\ t.s \notin inside
  BY <1>3 DEF TransportsOf, MediaOK, Transport
<1> QED  BY <1>2, <1>3, <1>4

LEMMA OneProducerThins ==
  ASSUME MediaOK, RestOK, Recorded, HearsOnlyLive, NEW s \in Sessions, CloseProducer(s)
  PROVE  MediaOK' /\ HearsOnlyLive' /\ Thinned(paused, told) /\ OpenButFor({}) /\ transports' = transports
<1>1. PICK p \in producers :
        /\ producers' = producers \ {p} /\ paused' = paused \ {p}
        /\ consumers' = consumers \ ConsumersOf({}, {p})
        /\ open' = open \ ({p} \union ConsumersOf({}, {p}))
        /\ Tell([q \in Sessions |-> told[q] \ {p}])
        /\ transports' = transports
  BY DEF CloseProducer
<1>2. consumers' = {c \in consumers : c.producer # p} /\ open' = {x \in open : x # p /\ (x \in consumers => x \in consumers')}
  BY <1>1 DEF ConsumersOf
<1>3. told' = [q \in Sessions |-> told[q] \ {p}] /\ lost' = lost \intersect UNION {told'[q] : q \in Sessions}
  BY <1>1 DEF Tell
<1>4. told' \in [Sessions -> SUBSET Producer] /\ lost' \subseteq Producer
  BY <1>3 DEF MediaOK
<1>5. HearsOnlyLive'
  BY <1>1, <1>3 DEF HearsOnlyLive
<1>6. producers' \subseteq open' /\ consumers' \subseteq open'
  BY <1>1, <1>2, Kinds DEF MediaOK
<1>7. MediaOK'
  BY <1>1, <1>2, <1>4, <1>6 DEF MediaOK
<1>8. routers \subseteq Router /\ \A x \in routers : x \notin consumers /\ x # p
  BY Kinds DEF MediaOK, RestOK
<1>9. OpenButFor({})
  BY <1>1, <1>2, <1>8 DEF Recorded, OpenButFor
<1> QED  BY <1>1, <1>3, <1>5, <1>7, <1>9 DEF Thinned

LEMMA DtlsThins ==
  ASSUME MediaOK, RestOK, Recorded, HearsOnlyLive, NEW t \in transports, DtlsFails(t)
  PROVE  MediaOK' /\ HearsOnlyLive' /\ Thinned(paused, told) /\ OpenButFor({}) /\ transports' = transports
<1> DEFINE mics == ProducersOn({t})
           heard == ConsumersOf({t}, mics)
<1>1. /\ producers' = producers \ mics /\ consumers' = consumers \ heard
      /\ open' = open \ ({t} \union mics \union heard) /\ paused' = paused \ mics
      /\ lost' = (lost \union mics) \intersect UNION {told[s] : s \in Sessions}
      /\ told' = told /\ transports' = transports
  BY DEF DtlsFails, views, media
<1>2. producers' = {p \in producers : p.transport # t}
  BY <1>1 DEF ProducersOn
<1>3. consumers' = {c \in consumers : c.transport # t /\ c.producer \in producers'}
  BY <1>1 DEF ConsumersOf, MediaOK
<1>4. mics \subseteq producers /\ heard \subseteq consumers
  BY DEF ProducersOn, ConsumersOf
<1>5. told' \in [Sessions -> SUBSET Producer] /\ lost' \subseteq Producer
  BY <1>1, <1>4 DEF MediaOK
<1>6. HearsOnlyLive'
  BY <1>1 DEF HearsOnlyLive
<1> HIDE DEF mics, heard
<1>7. producers' \subseteq open' /\ consumers' \subseteq open'
  BY <1>1, <1>4, Kinds DEF MediaOK
<1>8. MediaOK'
  BY <1>1, <1>2, <1>3, <1>5, <1>7 DEF MediaOK
<1>9. \A x \in routers : x # t /\ x \notin producers /\ x \notin consumers
  BY Kinds DEF MediaOK, RestOK
<1>10. OpenButFor({})
  BY <1>1, <1>4, <1>9 DEF Recorded, OpenButFor
<1> QED  BY <1>1, <1>2, <1>6, <1>8, <1>10 DEF Thinned

\* The same holds of what leaves the media alone.
LEMMA UntouchedThins ==
  ASSUME MediaOK, RestOK, Recorded, NEW known, Known(known), UNCHANGED media, Tell(known)
  PROVE  MediaOK' /\ HearsOnlyLive' /\ Thinned(paused, known) /\ OpenButFor({})
<1>1. told' = known /\ lost' = lost \intersect UNION {told'[q] : q \in Sessions}
  BY DEF Tell
<1>2. told' \in [Sessions -> SUBSET Producer] /\ lost' \subseteq Producer
  BY <1>1 DEF MediaOK, Known
<1>3. HearsOnlyLive'
  BY <1>1 DEF HearsOnlyLive, Known, media
<1>4. MediaOK'
  BY <1>2 DEF MediaOK, media
<1> QED  BY <1>1, <1>3, <1>4 DEF Thinned, OpenButFor, Recorded, media

LEMMA UnchangedThins ==
  ASSUME MediaOK, RestOK, Recorded, HearsOnlyLive, UNCHANGED <<media, told, lost>>
  PROVE  MediaOK' /\ HearsOnlyLive' /\ Thinned(paused, told) /\ OpenButFor({})
BY DEF MediaOK, HearsOnlyLive, Thinned, OpenButFor, Recorded, media

\* An announcement tells those in the room of what is still there.
LEMMA HeardThins ==
  ASSUME MediaOK, RestOK, Recorded, NEW m \in Mute,
         NEW quiet \in SUBSET producers, NEW known, Known(known), Heard(m, quiet, known)
  PROVE  /\ MediaOK' /\ HearsOnlyLive' /\ Thinned(quiet, known) /\ OpenButFor({})
         /\ \A s \in Sessions : s # m.s /\ Direction(s) = "recv" /\ room[s] = m.r =>
              m.news \intersect producers' \subseteq told'[s]
<1>1. told' = Announced(m, known) /\ lost' = lost \intersect UNION {told'[q] : q \in Sessions}
  BY DEF Tell, Heard
<1>2. /\ paused' = quiet
      /\ transports' = transports /\ producers' = producers /\ consumers' = consumers /\ open' = open
  BY DEF Heard
<1>3. \A s \in Sessions : told'[s] = IF s # m.s /\ Direction(s) = "recv" /\ room[s] = m.r
                                  THEN known[s] \union (m.news \intersect producers) ELSE known[s]
  BY <1>1 DEF Announced
<1>4. told' \in [Sessions -> SUBSET Producer] /\ lost' \subseteq Producer
  BY <1>1, <1>3 DEF MediaOK, Known, Announced
<1>5. HearsOnlyLive'
  BY <1>1, <1>2, <1>3 DEF HearsOnlyLive, Known
<1>6. MediaOK'
  BY <1>2, <1>4 DEF MediaOK
<1> QED  BY <1>2, <1>3, <1>5, <1>6 DEF Thinned, OpenButFor, Recorded

\* What follows a mute closes what the session has in other rooms, or announces.
LEMMA AfterMuteThins ==
  ASSUME MediaOK, RestOK, Recorded, NEW m \in Mute,
         NEW quiet \in SUBSET producers, NEW known, Known(known), AfterMute(m, quiet, known)
  PROVE  /\ MediaOK' /\ HearsOnlyLive' /\ Thinned(quiet, known) /\ OpenButFor({}) /\ pending' \subseteq pending
         /\ m.next \in {"join", "move"} => \A t \in transports' : t.s = m.s => t.r = m.r
         /\ \A s \in Sessions : s # m.s /\ Direction(s) = "recv" /\ room[s] = m.r =>
              m.news \intersect producers' \subseteq told'[s]
<1>1. m.s \in Sessions /\ m.r \in Rooms /\ m.next \in {"nothing", "join", "move"} /\ (m.next # "nothing" => m.news = {})
  BY DEF Mute
<1>2. CASE m.next = "join"
  <2>1. CloseSessionExcept(m.s, m.r, quiet, known)
    BY <1>2 DEF AfterMute
  <2> QED  BY <1>1, <1>2, <2>1, SessionExceptThins
<1>3. CASE m.next = "move"
  <2>1. CloseSession(m.s, quiet, known)
    BY <1>3 DEF AfterMute
  <2> QED  BY <1>1, <1>3, <2>1, SessionThins
<1>4. CASE m.next = "nothing"
  <2>1. Heard(m, quiet, known)
    BY <1>4 DEF AfterMute
  <2>2. pending' = pending
    BY <2>1 DEF Heard
  <2> QED  BY <1>4, <2>1, <2>2, HeardThins
<1> QED  BY <1>1, <1>2, <1>3, <1>4

\* A mute that is asked for, or needs no asking: whatever is left of the session's
\* media then is in the room it entered, or is covered by the mute.
LEMMA SyncMuteThins ==
  ASSUME MediaOK, RestOK, Recorded, NEW s \in Sessions, NEW r \in Rooms, NEW silent \in SUBSET Sessions,
         NEW next \in {"nothing", "join", "move"}, NEW known, Known(known), SyncMute(s, r, silent, next, known)
  PROVE  /\ MediaOK' /\ HearsOnlyLive' /\ Thinned(paused, known) /\ OpenButFor({}) /\ pending' \subseteq pending
         /\ \/ /\ requests' = requests /\ \A p \in producers' : p.s # s
               /\ next \in {"join", "move"} => \A t \in transports' : t.s = s => t.r = r
            \/ \E m \in Mute : /\ requests' = Append(requests, m) /\ m.s = s /\ m.r = r /\ m.next = next
                               /\ m.kind = "pause" <=> s \in silent
                               /\ \A p \in producers' : p.s = s => p \in m.mics
<1> DEFINE m == [kind |-> Hush(s, silent), s |-> s, r |-> r, mics |-> MicrophonesOf(s), next |-> next, news |-> {}]
<1>1. MicrophonesOf(s) \subseteq producers /\ \A p \in producers : p.s = s <=> p \in MicrophonesOf(s)
  BY DEF MicrophonesOf
<1>2. m \in Mute
  <2>1. MicrophonesOf(s) \in SUBSET Producer /\ Hush(s, silent) \in {"pause", "resume"}
    BY <1>1 DEF MediaOK, Hush
  <2> QED  BY <1>1, <2>1 DEF Mute, MicrophonesOf
<1>3. /\ m.s = s /\ m.r = r /\ m.next = next /\ m.mics = MicrophonesOf(s)
      /\ m.kind = "pause" <=> s \in silent
  BY DEF Hush
<1>4. IF m.mics = {} THEN AfterMute(m, paused, known) /\ UNCHANGED requests
      ELSE requests' = Append(requests, m) /\ Tell(known) /\ UNCHANGED <<media, pending>>
  BY DEF SyncMute
<1> HIDE DEF m
<1>5. CASE m.mics = {}
  <2>1. paused \in SUBSET producers
    BY DEF MediaOK
  <2>2. /\ MediaOK' /\ HearsOnlyLive' /\ Thinned(paused, known) /\ OpenButFor({}) /\ pending' \subseteq pending
        /\ m.next \in {"join", "move"} => \A t \in transports' : t.s = m.s => t.r = m.r
    BY <1>2, <1>4, <1>5, <2>1, AfterMuteThins
  <2>3. \A p \in producers' : p.s # s
    BY <1>1, <1>3, <1>5, <2>2 DEF Thinned
  <2> QED  BY <1>3, <1>4, <1>5, <2>2, <2>3
<1>6. CASE m.mics # {}
  <2>1. requests' = Append(requests, m) /\ Tell(known) /\ UNCHANGED media /\ pending' = pending
    BY <1>4, <1>6
  <2>2. MediaOK' /\ HearsOnlyLive' /\ Thinned(paused, known) /\ OpenButFor({})
    BY <2>1, UntouchedThins
  <2>3. \A p \in producers' : p.s = s => p \in m.mics
    BY <1>1, <1>3, <2>2 DEF Thinned
  <2> QED  BY <1>2, <1>3, <2>1, <2>2, <2>3
<1> QED  BY <1>5, <1>6

-----------------------------------------------------------------------------
(* What a step leaves of each part of the invariant.                         *)

\* One request more, at most, or the oldest one answered.
Queued(e) == requests' = requests \/ (e \in Request /\ requests' = Append(requests, e))
Nothing == [kind |-> "nothing"]
Answered == requests # <<>> /\ requests' = Tail(requests)

LEMMA NothingAsked ==
  ASSUME requests' = requests
  PROVE  Queued(Nothing) /\ Nothing.kind \notin {"pause", "resume", "transport"}
BY DEF Queued, Nothing

LEMMA Entries ==
  ASSUME RestOK, NEW e, Queued(e) \/ Answered
  PROVE  /\ requests' \in Seq(Request)
         /\ \A j \in DOMAIN requests' : requests'[j] = e \/ \E i \in DOMAIN requests : requests'[j] = requests[i]
<1>1. requests \in Seq(Request)
  BY DEF RestOK
<1>2. CASE requests' = requests
  BY <1>1, <1>2
<1>3. CASE e \in Request /\ requests' = Append(requests, e)
  BY <1>1, <1>3, Appended
<1>4. CASE Answered
  BY <1>1, <1>4, Tailed DEF Answered
<1> QED  BY <1>2, <1>3, <1>4 DEF Queued

\* The mutes of a session that are still to come, but for the one just answered.
Kept(s) == \A i \in DOMAIN requests : IsMute(requests[i], s) => \E j \in DOMAIN requests' : requests'[j] = requests[i]

LEMMA QueuedKeeps ==
  ASSUME RestOK, NEW e, Queued(e), NEW s
  PROVE  Kept(s)
<1>1. requests \in Seq(Request)
  BY DEF RestOK
<1>2. CASE requests' = requests
  BY <1>2 DEF Kept
<1>3. CASE e \in Request /\ requests' = Append(requests, e)
  BY <1>1, <1>3, Appended DEF Kept
<1> QED  BY <1>2, <1>3 DEF Queued

LEMMA AnsweredKeeps ==
  ASSUME RestOK, Answered, NEW s
  PROVE  /\ ~IsMute(Head(requests), s) => Kept(s)
         /\ \A i \in DOMAIN requests : requests[i] = Head(requests) \/ \E j \in DOMAIN requests' : requests'[j] = requests[i]
<1>1. /\ Len(requests) \in Nat \ {0} /\ DOMAIN requests = 1..Len(requests) /\ DOMAIN requests' = 1..(Len(requests) - 1)
      /\ \A i \in DOMAIN requests' : requests'[i] = requests[i + 1]
      /\ Head(requests) = requests[1]
  BY Tailed DEF RestOK, Answered
<1>2. ASSUME NEW i \in DOMAIN requests, i # 1
      PROVE  i - 1 \in DOMAIN requests' /\ requests'[i - 1] = requests[i]
  BY <1>1, <1>2
<1> QED  BY <1>1, <1>2 DEF Kept

\* Routers stay one per room when none is opened, nor asked for.
LEMMA RoutedKept ==
  ASSUME RestOK, Routed, OpenButFor({}), transports' \subseteq transports,
         routers' = routers, creations' \subseteq creations, channels' = channels,
         NEW e, e.kind = "transport" => e.router \in routers \/ e.r \notin channels,
         Queued(e) \/ Answered,
         \A t \in ready' : t.kind = "transport" => t \in ready
  PROVE  Routed'
<1>1. \A j \in DOMAIN requests' : requests'[j] = e \/ \E i \in DOMAIN requests : requests'[j] = requests[i]
  BY Entries
<1>2. \A j \in DOMAIN requests' :
        requests'[j].kind = "transport" => requests'[j].router \in routers' \/ requests'[j].r \notin channels'
  BY <1>1 DEF Routed
<1>3. \A t \in ready' : t.kind = "transport" => t.router \in routers' \/ t.r \notin channels'
  BY DEF Routed
<1>4. routers' \subseteq open'
  BY DEF Routed, OpenButFor
<1>5. \A t \in transports' : t.router \in routers'
  BY DEF Routed
<1>6. /\ \A x, y \in routers' \union creations' : x.r = y.r => x = y
      /\ routers' \intersect creations' = {}
      /\ \A x \in routers' \union creations' : x.r \in channels'
  BY DEF Routed
<1> QED  BY <1>2, <1>3, <1>4, <1>5, <1>6 DEF Routed

\* Starts are not touched by who does not start anything.
LEMMA StartedKept ==
  ASSUME Started, RestOK, UNCHANGED manager, faults' \in {faults, faults + 1}
  PROVE  Started'
BY DEF Started, RestOK, manager

\* A step that neither asks for a mute nor answers one, and brings no
\* microphone: the sessions it takes out of their room have no media left.
Calm(e) ==
  /\ \/ Queued(e) /\ e.kind \notin {"pause", "resume"}
     \/ Answered /\ Head(requests).kind \notin {"pause", "resume"}
  /\ producers' \subseteq producers /\ \A p \in producers' : p \in paused' <=> p \in paused
  /\ \A t \in transports' : t \in transports \/ t.r = room'[t.s]
  /\ asked' \subseteq asked
  /\ \A s \in Sessions :
       \/ room'[s] = room[s] /\ (s \in muted' <=> s \in muted)
       \/ s \notin asked' /\ \A t \in transports' : t.s # s
  /\ \A s \in asked' : \A p \in producers' : p \in told[s] => p \in told'[s]

LEMMA CalmKeeps ==
  ASSUME TypeOK, Following, Settling, Heeding, NEW e, Calm(e), MediaOK'
  PROVE  Following' /\ Settling' /\ Heeding'
<1> USE Parts
<1>1. \A s \in Sessions : Kept(s)
  <2>1. CASE Queued(e)
    BY <2>1, QueuedKeeps
  <2>2. CASE Answered /\ Head(requests).kind \notin {"pause", "resume"}
    BY <2>2, AnsweredKeeps DEF IsMute
  <2> QED  BY <2>1, <2>2 DEF Calm
<1>2. \A t \in transports' : t.s \in Sessions
  BY DEF MediaOK, Transport
<1>3. \A p \in producers' : p.s \in Sessions /\ p.transport \in transports' /\ p.transport.s = p.s
  BY DEF MediaOK, Producer
<1>4. Following'
  <2> SUFFICES ASSUME NEW t \in transports', t.r # room'[t.s]
               PROVE  \E j \in DOMAIN requests' : /\ IsMute(requests'[j], t.s)
                                                  /\ requests'[j].next \in {"join", "move"} /\ requests'[j].r = room'[t.s]
    BY DEF Following
  <2>1. t \in transports /\ room'[t.s] = room[t.s]
    BY <1>2 DEF Calm
  <2>2. PICK i \in DOMAIN requests :
          IsMute(requests[i], t.s) /\ requests[i].next \in {"join", "move"} /\ requests[i].r = room[t.s]
    BY <2>1 DEF Following
  <2>3. PICK j \in DOMAIN requests' : requests'[j] = requests[i]
    BY <1>1, <1>2, <2>2 DEF Kept
  <2> QED  BY <2>1, <2>2, <2>3
<1>5. Settling'
  <2> SUFFICES ASSUME NEW p \in producers'
               PROVE  Holds(requests', p, paused', muted')
    BY DEF Settling
  <2>1. p \in producers /\ (p \in paused' <=> p \in paused) /\ (p.s \in muted' <=> p.s \in muted)
    BY <1>3 DEF Calm
  <2>2. Holds(requests, p, paused, muted) /\ requests \in Seq(Request)
    BY <2>1 DEF Settling, RestOK
  <2>3. CASE requests' = requests
    BY <2>1, <2>2, <2>3 DEF Holds
  <2>4. CASE e \in Request /\ requests' = Append(requests, e) /\ ~IsMute(e, p.s)
    <3>1. Holds(requests, p, paused', muted')
      BY <2>1, <2>2 DEF Holds
    <3> QED  BY <2>2, <2>4, <3>1, HoldsBefore
  <2>5. CASE Answered /\ ~IsMute(Head(requests), p.s)
    <3>1. Holds(requests, p, paused, muted')
      BY <2>1, <2>2 DEF Holds
    <3> QED  BY <2>1, <2>2, <2>5, <3>1, HoldsAfter DEF Answered
  <2> QED  BY <2>3, <2>4, <2>5 DEF Calm, Queued, IsMute
<1>6. Heeding'
  <2>1. \A s \in asked' : Direction(s) = "recv" /\ s \in Sessions
    BY DEF Calm, Heeding, RestOK
  <2> SUFFICES ASSUME NEW s \in asked', NEW p \in producers', p.r = room'[s], p.s # s, p \notin told'[s]
               PROVE  \E j \in DOMAIN requests' : IsMute(requests'[j], p.s) /\ p \in requests'[j].news
    BY <2>1 DEF Heeding
  <2>2. s \in asked /\ p \in producers /\ room'[s] = room[s] /\ p \notin told[s]
    BY <2>1 DEF Calm
  <2>3. PICK i \in DOMAIN requests : IsMute(requests[i], p.s) /\ p \in requests[i].news
    BY <2>2 DEF Heeding
  <2>4. PICK j \in DOMAIN requests' : requests'[j] = requests[i]
    BY <1>1, <1>3, <2>3 DEF Kept
  <2> QED  BY <2>3, <2>4
<1> QED  BY <1>4, <1>5, <1>6

-----------------------------------------------------------------------------
(* Requests for transports, and what they wait for.                          *)

\* Waiting for the worker begins a start if none is under way.
LEMMA WaitKeeps ==
  ASSUME RestOK, Started, worker = 0, NEW x \in Router \union Asking, Wait(x), faults' = faults
  PROVE  /\ Started'
         /\ worker' = 0 /\ generation' = generation /\ startup' \in {0} \union Generations
         /\ starting' \in [Generations -> {"no", "spawning", "binding"}] /\ processes' = processes
         /\ delayed' \in [Generations -> SUBSET (Router \union Asking)]
<1>1. generation \in Generations /\ generation \in Nat /\ startup \in {0} \union Generations
  BY SfuMediaAssumption DEF RestOK, Generations
<1>2. /\ startup' = IF startup = 0 THEN generation ELSE startup
      /\ starting' = IF startup = 0 THEN [starting EXCEPT ![generation] = "spawning"] ELSE starting
      /\ delayed' = [delayed EXCEPT ![startup'] = @ \union {x}]
      /\ generation' = generation /\ worker' = worker /\ processes' = processes
  BY DEF Wait
<1>3. startup' = generation
  BY <1>1, <1>2 DEF Started
<1>4. /\ starting' \in [Generations -> {"no", "spawning", "binding"}]
      /\ delayed' \in [Generations -> SUBSET (Router \union Asking)]
  BY <1>1, <1>2, <1>3 DEF RestOK
<1>5. \A g \in Generations : /\ g # generation => starting'[g] = starting[g]
                             /\ starting[g] = "binding" => starting'[g] = "binding"
  BY <1>1, <1>2 DEF RestOK, Started
<1>6. Started'
  BY <1>1, <1>2, <1>3, <1>5, SfuMediaAssumption DEF Started, Generations
<1> QED  BY <1>1, <1>2, <1>3, <1>4, <1>6

\* What the creation of a transport does to all but the media.
LEMMA CreateKeeps ==
  ASSUME TypeOK, Routed, Started, NEW x \in Asking, x.r \in channels,
         NEW kept \in SUBSET pending, CreateTransport(x, kept),
         UNCHANGED <<routers, channels, faults>>, OpenButFor({}), transports' \subseteq transports, ready' \subseteq ready
  PROVE  /\ Started' /\ Routed'
         /\ generation' \in Generations /\ {worker', startup'} \subseteq {0} \union Generations
         /\ starting' \in [Generations -> {"no", "spawning", "binding"}] /\ processes' = processes
         /\ delayed' \in [Generations -> SUBSET (Router \union Asking)]
         /\ creations' \subseteq Router /\ joined' \subseteq Transport
         /\ pending' \subseteq Transport \union Producer \union Consumer
         /\ \E e : Queued(e) /\ e.kind \notin {"pause", "resume"}
<1> DEFINE new(router) == [kind |-> "transport", id |-> x.id, s |-> x.s, r |-> x.r, router |-> router]
           made == [kind |-> "router", id |-> x.id, r |-> x.r]
<1> USE Parts
<1>1. made \in Router /\ made.r = x.r /\ made.kind = "router"
  BY DEF Asking, Router
<1>2. \A router \in Router : router.r = x.r => /\ new(router) \in Transport /\ new(router).kind = "transport"
                                               /\ new(router).router = router
  BY DEF Asking, Transport
<1>3. \/ \E router \in routers :
           /\ router.r = x.r
           /\ pending' = kept \union {new(router)} /\ requests' = Append(requests, new(router))
           /\ UNCHANGED <<creations, joined, manager, delayed>>
      \/ \E c \in creations :
           /\ c.r = x.r /\ \A router \in routers : router.r # x.r
           /\ pending' = kept \union {new(c)} /\ joined' = joined \union {new(c)}
           /\ UNCHANGED <<creations, requests, manager, delayed>>
      \/ /\ \A router \in routers \union creations : router.r # x.r
         /\ creations' = creations \union {made}
         /\ pending' = kept \union {new(made)} /\ joined' = joined \union {new(made)}
         /\ IF worker = 0 THEN Wait(made) /\ UNCHANGED requests
            ELSE requests' = Append(requests, made) /\ UNCHANGED <<manager, delayed>>
  BY DEF CreateTransport
<1> HIDE DEF new, made
<1>4. CASE \E router \in routers :
             /\ router.r = x.r
             /\ pending' = kept \union {new(router)} /\ requests' = Append(requests, new(router))
             /\ UNCHANGED <<creations, joined, manager, delayed>>
  <2>1. PICK router \in routers :
             /\ router.r = x.r
             /\ pending' = kept \union {new(router)} /\ requests' = Append(requests, new(router))
             /\ UNCHANGED <<creations, joined, manager, delayed>>
    BY <1>4
  <2>2. new(router) \in Transport /\ new(router).kind = "transport" /\ new(router).router = router
    BY <1>2, <2>1 DEF RestOK
  <2>3. Queued(new(router))
    BY <2>1, <2>2 DEF Queued, Request
  <2>4. Routed'
    BY <2>1, <2>2, <2>3, RoutedKept
  <2>5. Started'
    BY <2>1, StartedKept
  <2>6. /\ generation' \in Generations /\ {worker', startup'} \subseteq {0} \union Generations
        /\ starting' \in [Generations -> {"no", "spawning", "binding"}] /\ processes' = processes
        /\ delayed' \in [Generations -> SUBSET (Router \union Asking)]
        /\ creations' \subseteq Router /\ joined' \subseteq Transport
    BY <2>1 DEF RestOK, manager
  <2> QED  BY <2>1, <2>2, <2>3, <2>4, <2>5, <2>6 DEF RestOK
<1>5. CASE \E c \in creations :
             /\ c.r = x.r /\ \A router \in routers : router.r # x.r
             /\ pending' = kept \union {new(c)} /\ joined' = joined \union {new(c)}
             /\ UNCHANGED <<creations, requests, manager, delayed>>
  <2>1. PICK c \in creations :
             /\ c.r = x.r /\ \A router \in routers : router.r # x.r
             /\ pending' = kept \union {new(c)} /\ joined' = joined \union {new(c)}
             /\ UNCHANGED <<creations, requests, manager, delayed>>
    BY <1>5
  <2>2. new(c) \in Transport
    BY <1>2, <2>1 DEF RestOK
  <2>3. Queued(Nothing) /\ Nothing.kind \notin {"pause", "resume", "transport"}
    BY <2>1, NothingAsked
  <2>4. Routed'
    BY <2>1, <2>3, RoutedKept
  <2>5. Started'
    BY <2>1, StartedKept
  <2>6. /\ generation' \in Generations /\ {worker', startup'} \subseteq {0} \union Generations
        /\ starting' \in [Generations -> {"no", "spawning", "binding"}] /\ processes' = processes
        /\ delayed' \in [Generations -> SUBSET (Router \union Asking)]
        /\ creations' \subseteq Router /\ joined' \subseteq Transport
    BY <2>1, <2>2 DEF RestOK, manager
  <2> QED  BY <2>1, <2>2, <2>3, <2>4, <2>5, <2>6 DEF RestOK
<1>6. CASE /\ \A router \in routers \union creations : router.r # x.r
           /\ creations' = creations \union {made}
           /\ pending' = kept \union {new(made)} /\ joined' = joined \union {new(made)}
           /\ IF worker = 0 THEN Wait(made) /\ UNCHANGED requests
              ELSE requests' = Append(requests, made) /\ UNCHANGED <<manager, delayed>>
  <2>1. new(made) \in Transport
    BY <1>1, <1>2
  <2>2. \E e : Queued(e) /\ e.kind \notin {"pause", "resume", "transport"}
    <3>1. CASE requests' = requests
      BY <3>1, NothingAsked
    <3>2. CASE requests' = Append(requests, made)
      <4>1. Queued(made)
        BY <1>1, <3>2 DEF Queued, Request
      <4> QED  BY <1>1, <4>1
    <3> QED  BY <1>6, <3>1, <3>2
  <2>3. /\ Started'
        /\ generation' \in Generations /\ {worker', startup'} \subseteq {0} \union Generations
        /\ starting' \in [Generations -> {"no", "spawning", "binding"}] /\ processes' = processes
        /\ delayed' \in [Generations -> SUBSET (Router \union Asking)]
    <3>1. CASE worker = 0
      <4>1. Wait(made) /\ faults' = faults
        BY <1>6, <3>1
      <4> QED  BY <1>1, <3>1, <4>1, WaitKeeps DEF RestOK
    <3>2. CASE worker # 0
      <4>1. UNCHANGED <<manager, delayed>> /\ faults' = faults
        BY <1>6, <3>2
      <4>2. Started'
        BY <4>1, StartedKept
      <4> QED  BY <4>1, <4>2 DEF RestOK, manager
    <3> QED  BY <3>1, <3>2
  <2>4. Routed'
    <3>1. /\ \A y, z \in routers' \union creations' : y.r = z.r => y = z
          /\ routers' \intersect creations' = {}
          /\ \A y \in routers' \union creations' : y.r \in channels'
      BY <1>1, <1>6 DEF Routed
    <3>2. PICK e : Queued(e) /\ e.kind \notin {"pause", "resume", "transport"}
      BY <2>2
    <3>3. \A j \in DOMAIN requests' : requests'[j] = e \/ \E i \in DOMAIN requests : requests'[j] = requests[i]
      BY <3>2, Entries
    <3>4. \A j \in DOMAIN requests' :
            requests'[j].kind = "transport" => requests'[j].router \in routers' \/ requests'[j].r \notin channels'
      BY <3>2, <3>3 DEF Routed
    <3> QED  BY <3>1, <3>4 DEF Routed, OpenButFor
  <2>5. creations' \subseteq Router /\ joined' \subseteq Transport
    BY <1>1, <1>6, <2>1 DEF RestOK
  <2> QED  BY <1>6, <2>1, <2>2, <2>3, <2>4, <2>5 DEF RestOK
<1> QED  BY <1>3, <1>4, <1>5, <1>6

LEMMA RequestRuns ==
  ASSUME IInv, NEW x \in Asking, room[x.s] = x.r, OpenTransport(x),
         UNCHANGED <<membership, asked, faults>>, ready' \subseteq ready
  PROVE  IInv'
<1> USE Parts
<1> DEFINE kept == Uncancelled({x.s}, Rooms)
<1>1. x.s \in Sessions /\ x.r \in Rooms /\ x.r \in channels
  BY SfuMediaAssumption DEF IInv, RestOK, Asking
<1>2. TransportsOf({x.s}, Rooms) \in SUBSET transports /\ kept \in SUBSET pending /\ Known(told) /\ paused \in SUBSET producers
  BY ToldIsKnown DEF TransportsOf, Uncancelled, IInv, MediaOK
<1>3. Close({}, TransportsOf({x.s}, Rooms), paused, told) /\ CreateTransport(x, kept) /\ UNCHANGED routers
  BY DEF OpenTransport
<1> HIDE DEF kept
<1>4. /\ MediaOK' /\ HearsOnlyLive' /\ Thinned(paused, told) /\ OpenButFor({})
  BY <1>2, <1>3, CloseThins DEF IInv
<1>5. channels' = channels /\ room' = room /\ muted' = muted /\ asked' = asked /\ faults' = faults /\ routers' = routers
  BY <1>3 DEF membership
<1>6. /\ Started' /\ Routed'
      /\ generation' \in Generations /\ {worker', startup'} \subseteq {0} \union Generations
      /\ starting' \in [Generations -> {"no", "spawning", "binding"}] /\ processes' = processes
      /\ delayed' \in [Generations -> SUBSET (Router \union Asking)]
      /\ creations' \subseteq Router /\ joined' \subseteq Transport
      /\ pending' \subseteq Transport \union Producer \union Consumer
      /\ \E e : Queued(e) /\ e.kind \notin {"pause", "resume"}
  BY <1>1, <1>2, <1>3, <1>4, <1>5, CreateKeeps DEF IInv, Thinned
<1>7. PICK e : Queued(e) /\ e.kind \notin {"pause", "resume"}
  BY <1>6
<1>8. RestOK'
  <2>1. requests' \in Seq(Request)
    BY <1>7, Entries DEF IInv
  <2> QED  BY <1>5, <1>6, <2>1 DEF IInv, RestOK
<1>9. Calm(e)
  BY <1>4, <1>5, <1>7 DEF Calm, Thinned, IInv, RestOK
<1>10. Following' /\ Settling' /\ Heeding'
  BY <1>4, <1>9, CalmKeeps DEF IInv
<1> QED  BY <1>4, <1>5, <1>6, <1>8, <1>10 DEF IInv, Recorded, OpenButFor

\* What leaves the media, the members and the manager alone: it asks the worker
\* for something, or for nothing.
LEMMA QuietKeeps ==
  ASSUME IInv, UNCHANGED <<membership, media, told, lost>>, asked' \subseteq asked,
         RestOK', Started', NEW e, Queued(e) \/ Answered, Routed', routers' = routers,
         e.kind \notin {"pause", "resume"},
         Answered => Queued(e) \/ Head(requests).kind \notin {"pause", "resume"}
  PROVE  IInv'
<1> USE Parts
<1>1. MediaOK' /\ HearsOnlyLive' /\ Thinned(paused, told) /\ OpenButFor({})
  BY UnchangedThins DEF IInv
<1>2. channels' = channels /\ room' = room /\ muted' = muted /\ told' = told
      /\ transports' = transports /\ producers' = producers /\ paused' = paused
  BY DEF membership, media
<1>3. Calm(e)
  BY <1>2 DEF Calm, IInv, RestOK
<1>4. Following' /\ Settling' /\ Heeding'
  BY <1>1, <1>3, CalmKeeps DEF IInv
<1> QED  BY <1>1, <1>4 DEF IInv, Recorded, OpenButFor

LEMMA RequestTransportKeeps ==
  ASSUME IInv, NEW s \in Sessions, RequestTransport(s)
  PROVE  IInv'
<1> USE Parts
<1>1. PICK i \in ForTransport(s) :
        LET x == [kind |-> "asking", id |-> i, s |-> s, r |-> room[s]]
        IN IF worker = 0 THEN Wait(x) /\ UNCHANGED <<routing, media, pending, joined, requests, told, lost>>
           ELSE OpenTransport(x)
  BY DEF RequestTransport
<1> DEFINE x == [kind |-> "asking", id |-> i, s |-> s, r |-> room[s]]
<1>2. room[s] # None /\ UNCHANGED <<membership, ready, asked, faults>>
  BY DEF RequestTransport
<1>3. i \in Ids
  BY <1>1 DEF ForTransport, Least
<1>4. room[s] \in Rooms
  BY <1>2 DEF IInv, RestOK
<1>5. x \in Asking /\ room[x.s] = x.r
  BY <1>3, <1>4 DEF Asking
<1>6. IF worker = 0 THEN Wait(x) /\ UNCHANGED <<routing, media, pending, joined, requests, told, lost>>
      ELSE OpenTransport(x)
  BY <1>1
<1> HIDE DEF x
<1>7. CASE worker = 0
  <2>1. Wait(x) /\ UNCHANGED <<routing, media, pending, joined, requests, told, lost>>
    BY <1>6, <1>7
  <2>2. /\ Started'
        /\ worker' = 0 /\ generation' = generation /\ startup' \in {0} \union Generations
        /\ starting' \in [Generations -> {"no", "spawning", "binding"}] /\ processes' = processes
        /\ delayed' \in [Generations -> SUBSET (Router \union Asking)]
    BY <1>2, <1>5, <1>7, <2>1, WaitKeeps DEF IInv
  <2>3. RestOK'
    BY <1>2, <2>1, <2>2 DEF IInv, RestOK, membership, routing
  <2>4. Queued(Nothing) /\ Nothing.kind \notin {"pause", "resume", "transport"}
    BY <2>1, NothingAsked
  <2>5. Routed'
    BY <1>2, <2>1 DEF IInv, Routed, membership, routing, media
  <2>6. UNCHANGED <<membership, media, told, lost>> /\ asked' \subseteq asked /\ routers' = routers
    BY <1>2, <2>1 DEF routing
  <2> QED  BY <2>2, <2>3, <2>4, <2>5, <2>6, QuietKeeps
<1>8. CASE worker # 0
  BY <1>2, <1>5, <1>6, <1>8, RequestRuns
<1> QED  BY <1>7, <1>8

LEMMA RequestGoesOnKeeps ==
  ASSUME IInv, NEW x \in ready, RequestGoesOn(x)
  PROVE  IInv'
<1> USE Parts
<1>1. x \in Asking
  BY Kinds DEF IInv, RestOK, RequestGoesOn
<1>2. ready' \subseteq ready /\ UNCHANGED <<membership, asked, faults>>
  BY DEF RequestGoesOn
<1>3. CASE room[x.s] = x.r
  BY <1>1, <1>2, <1>3, RequestRuns DEF RequestGoesOn
<1>4. CASE room[x.s] # x.r
  <2>1. UNCHANGED <<manager, delayed, routing, media, pending, joined, requests, told, lost>>
    BY <1>4 DEF RequestGoesOn
  <2>2. RestOK'
    BY <1>2, <2>1 DEF IInv, RestOK, membership, routing, manager
  <2>3. Started'
    BY <1>2, <2>1, StartedKept DEF IInv
  <2>4. Queued(Nothing) /\ Nothing.kind \notin {"pause", "resume", "transport"}
    BY <2>1, NothingAsked
  <2>5. Routed'
    BY <1>2, <2>1 DEF IInv, Routed, membership, routing, media
  <2>6. UNCHANGED <<membership, media, told, lost>> /\ asked' \subseteq asked /\ routers' = routers
    BY <1>2, <2>1 DEF routing
  <2> QED  BY <2>2, <2>3, <2>4, <2>5, <2>6, QuietKeeps
<1> QED  BY <1>3, <1>4

LEMMA RouterGoesOnKeeps ==
  ASSUME IInv, NEW x \in ready, RouterGoesOn(x)
  PROVE  IInv'
<1> USE Parts
<1>1. x \in Router /\ x.kind = "router"
  BY Kinds DEF IInv, RestOK, RouterGoesOn
<1>2. /\ ready' \subseteq ready
      /\ UNCHANGED <<membership, manager, delayed, routers, media, views, faults>>
      /\ IF worker = 0 THEN Reject({x}) /\ UNCHANGED requests
         ELSE requests' = Append(requests, x) /\ UNCHANGED <<creations, joined, pending>>
  BY DEF RouterGoesOn
<1>3. creations' \subseteq creations /\ joined' \subseteq joined /\ pending' \subseteq pending
  BY <1>2 DEF Reject
<1>4. PICK e : Queued(e) /\ e.kind \notin {"pause", "resume", "transport"}
  <2>1. CASE worker = 0
    BY <1>2, <2>1, NothingAsked
  <2>2. CASE worker # 0
    <3>1. Queued(x)
      BY <1>1, <1>2, <2>2 DEF Queued, Request
    <3> QED  BY <1>1, <3>1
  <2> QED  BY <2>1, <2>2
<1>5. requests' \in Seq(Request)
  BY <1>4, Entries DEF IInv
<1>6. RestOK'
  BY <1>2, <1>3, <1>5 DEF IInv, RestOK, membership, manager, views
<1>7. Started'
  BY <1>2, StartedKept DEF IInv
<1>8. OpenButFor({}) /\ transports' \subseteq transports
  BY <1>2, UnchangedThins DEF IInv, views, Thinned
<1>9. routers' = routers /\ channels' = channels
  BY <1>2 DEF membership
<1>10. Routed'
  BY <1>2, <1>3, <1>4, <1>8, <1>9, RoutedKept DEF IInv
<1> QED  BY <1>2, <1>4, <1>6, <1>7, <1>9, <1>10, QuietKeeps DEF views

LEMMA TransportGoesOnKeeps ==
  ASSUME IInv, NEW t \in ready, TransportGoesOn(t)
  PROVE  IInv'
<1> USE Parts
<1>1. t \in Transport /\ t.kind = "transport"
  BY Kinds DEF IInv, RestOK, TransportGoesOn
<1>2. /\ ready' \subseteq ready
      /\ UNCHANGED <<membership, manager, delayed, routing, media, pending, joined, views, faults>>
      /\ requests' = IF t \in pending THEN Append(requests, t) ELSE requests
  BY DEF TransportGoesOn
<1>3. Queued(t)
  BY <1>1, <1>2 DEF Queued, Request
<1>4. requests' \in Seq(Request)
  BY <1>3, Entries DEF IInv
<1>5. RestOK'
  BY <1>2, <1>4 DEF IInv, RestOK, membership, manager, routing, views
<1>6. Started'
  BY <1>2, StartedKept DEF IInv
<1>7. OpenButFor({}) /\ transports' \subseteq transports
  BY <1>2, UnchangedThins DEF IInv, views, Thinned
<1>8. routers' = routers /\ creations' = creations /\ channels' = channels
  BY <1>2 DEF membership, routing
<1>9. Routed'
  <2>1. t.router \in routers \/ t.r \notin channels
    BY <1>1 DEF IInv, Routed
  <2> QED  BY <1>2, <1>3, <1>7, <1>8, <2>1, RoutedKept DEF IInv
<1> QED  BY <1>1, <1>2, <1>3, <1>5, <1>6, <1>8, <1>9, QuietKeeps DEF views

\* A client's own request, for a producer or a consumer.
LEMMA AskedKeeps ==
  ASSUME IInv, NEW e \in Producer \union Consumer,
         pending' = pending \union {e}, requests' = Append(requests, e),
         UNCHANGED <<membership, manager, handlers, routing, media, joined, views, faults>>
  PROVE  IInv'
<1> USE Parts
<1>1. e.kind \in {"producer", "consumer"}
  BY Kinds
<1>2. Queued(e)
  BY DEF Queued, Request
<1>3. requests' \in Seq(Request)
  BY <1>2, Entries DEF IInv
<1>4. RestOK'
  BY <1>3 DEF IInv, RestOK, membership, manager, handlers, routing, views
<1>5. Started'
  BY StartedKept DEF IInv
<1>6. OpenButFor({}) /\ transports' \subseteq transports
  BY UnchangedThins DEF IInv, views, Thinned
<1>7. routers' = routers /\ creations' = creations /\ channels' = channels /\ ready' = ready
  BY DEF membership, routing, handlers
<1>8. Routed'
  BY <1>1, <1>2, <1>6, <1>7, RoutedKept DEF IInv
<1> QED  BY <1>1, <1>2, <1>4, <1>5, <1>7, <1>8, QuietKeeps DEF views

LEMMA ProduceKeeps ==
  ASSUME IInv, NEW s \in Sessions, Produce(s)
  PROVE  IInv'
<1>1. PICK t \in transports, i \in ForProducer(s) :
        LET p == [kind |-> "producer", id |-> i, s |-> s, r |-> t.r, transport |-> t]
        IN t.s = s /\ pending' = pending \union {p} /\ requests' = Append(requests, p)
  BY DEF Produce
<1> DEFINE p == [kind |-> "producer", id |-> i, s |-> s, r |-> t.r, transport |-> t]
<1>2. i \in Ids /\ t \in Transport /\ t.s = s /\ t.r \in Rooms
  BY <1>1 DEF ForProducer, Least, IInv, TypeOK, Transport
<1>3. p \in Producer
  BY <1>2 DEF Producer
<1>4. UNCHANGED <<membership, manager, handlers, routing, media, joined, views, faults>>
  BY DEF Produce
<1> QED  BY <1>1, <1>3, <1>4, AskedKeeps

LEMMA ConsumeKeeps ==
  ASSUME IInv, NEW s \in Sessions, Consume(s)
  PROVE  IInv'
<1>1. PICK t \in transports, p \in producers :
        LET c == [kind |-> "consumer", s |-> s, r |-> t.r, transport |-> t, producer |-> p]
        IN t.s = s /\ p.r = t.r /\ pending' = pending \union {c} /\ requests' = Append(requests, c)
  BY DEF Consume, AsksOnce
<1> DEFINE c == [kind |-> "consumer", s |-> s, r |-> t.r, transport |-> t, producer |-> p]
<1>2. p \in Producer /\ t \in Transport /\ t.s = s /\ t.r \in Rooms /\ p.r = t.r
  BY <1>1 DEF IInv, TypeOK, Transport
<1>3. c \in Consumer
  BY <1>2 DEF Consumer
<1>4. UNCHANGED <<membership, manager, handlers, routing, media, joined, views, faults>>
  BY DEF Consume, AsksOnce
<1> QED  BY <1>1, <1>3, <1>4, AskedKeeps

-----------------------------------------------------------------------------
(* The worker's start.                                                       *)

LEMMA EndStartKeeps ==
  ASSUME IInv, NEW g \in Generations, NEW rejected \in BOOLEAN, EndStart(g, rejected), Started',
         worker' \in {0} \union Generations, processes' \subseteq Generations, faults' \in 0..MaxFaults
  PROVE  IInv'
<1> USE Parts
<1>1. /\ starting' = [starting EXCEPT ![g] = "no"]
      /\ startup' = IF startup = g THEN 0 ELSE startup
      /\ delayed' = [delayed EXCEPT ![g] = {}]
      /\ ready' \subseteq ready \union delayed[g]
      /\ UNCHANGED <<membership, generation, routers, media, requests, views>>
  BY DEF EndStart
<1>2. creations' \subseteq creations /\ joined' \subseteq joined /\ pending' \subseteq pending
  BY DEF EndStart, Reject
<1>3. delayed[g] \subseteq Router \union Asking
  BY DEF IInv, RestOK
<1>4. /\ starting' \in [Generations -> {"no", "spawning", "binding"}]
      /\ delayed' \in [Generations -> SUBSET (Router \union Asking)]
      /\ startup' \in {0} \union Generations
  BY <1>1 DEF IInv, RestOK
<1>5. RestOK'
  BY <1>1, <1>2, <1>3, <1>4 DEF IInv, RestOK, membership, views
<1>6. OpenButFor({}) /\ transports' \subseteq transports
  BY <1>1, UnchangedThins DEF IInv, views, Thinned
<1>7. Queued(Nothing) /\ Nothing.kind \notin {"pause", "resume", "transport"}
  BY <1>1, NothingAsked
<1>8. \A t \in ready' : t.kind = "transport" => t \in ready
  BY <1>1, <1>3, Kinds
<1>9. routers' = routers /\ channels' = channels
  BY <1>1 DEF membership
<1>10. Routed'
  BY <1>2, <1>6, <1>7, <1>8, <1>9, RoutedKept DEF IInv
<1> QED  BY <1>1, <1>5, <1>7, <1>9, <1>10, QuietKeeps DEF views

LEMMA SpawnedKeeps ==
  ASSUME IInv, NEW g \in Generations, Spawned(g)
  PROVE  IInv'
<1> USE Parts
<1>1. generation \in Generations /\ startup \in {0} \union Generations /\ 0 \notin Generations
  BY SfuMediaAssumption DEF IInv, RestOK, Generations
<1>2. starting[g] = "spawning" /\ worker' = worker /\ faults' = faults
  BY DEF Spawned
<1>3. CASE generation # g
  <2>1. EndStart(g, FALSE) /\ processes' = processes
    BY <1>3 DEF Spawned
  <2>2. /\ starting' = [starting EXCEPT ![g] = "no"] /\ generation' = generation
        /\ startup' = IF startup = g THEN 0 ELSE startup
    BY <2>1 DEF EndStart
  <2>3. \A h \in Generations : starting'[h] = IF h = g THEN "no" ELSE starting[h]
    BY <2>2 DEF IInv, RestOK
  <2>4. Started'
    BY <1>1, <1>2, <1>3, <2>1, <2>2, <2>3 DEF IInv, Started
  <2> QED  BY <1>2, <2>1, <2>4, EndStartKeeps DEF IInv, RestOK
<1>4. CASE generation = g
  <2>1. /\ starting' = [starting EXCEPT ![g] = "binding"]
        /\ processes' = processes \union {g}
        /\ UNCHANGED <<membership, generation, startup, handlers, routing, media, pending, joined, requests, views>>
    BY <1>4 DEF Spawned
  <2>2. \A h \in Generations : starting'[h] = IF h = g THEN "binding" ELSE starting[h]
    BY <2>1 DEF IInv, RestOK
  <2>3. Started'
    BY <1>1, <1>2, <1>4, <2>1, <2>2, SfuMediaAssumption DEF IInv, Started, Generations
  <2>4. RestOK'
    BY <1>2, <2>1 DEF IInv, RestOK, membership, handlers, routing, views
  <2>5. Queued(Nothing) /\ Nothing.kind \notin {"pause", "resume", "transport"}
    BY <2>1, NothingAsked
  <2>6. Routed'
    BY <2>1 DEF IInv, Routed, membership, handlers, routing, media
  <2> QED  BY <2>1, <2>3, <2>4, <2>5, <2>6, QuietKeeps DEF views, routing
<1> QED  BY <1>3, <1>4

LEMMA BoundKeeps ==
  ASSUME IInv, NEW g \in Generations, Bound(g)
  PROVE  IInv'
<1> USE Parts
<1>1. /\ generation \in Generations /\ startup \in {0} \union Generations /\ 0 \notin Generations
      /\ processes \subseteq Generations
  BY SfuMediaAssumption DEF IInv, RestOK, Generations
<1>2. /\ starting[g] = "binding" /\ EndStart(g, FALSE) /\ faults' = faults
      /\ IF generation # g THEN processes' = processes \ {g} /\ UNCHANGED worker
         ELSE worker' = g /\ UNCHANGED processes
  BY DEF Bound
<1>3. /\ starting' = [starting EXCEPT ![g] = "no"] /\ generation' = generation
      /\ startup' = IF startup = g THEN 0 ELSE startup
  BY <1>2 DEF EndStart
<1>4. \A h \in Generations : starting'[h] = IF h = g THEN "no" ELSE starting[h]
  BY <1>3 DEF IInv, RestOK
<1>5. worker' \in {0} \union Generations /\ processes' \subseteq Generations /\ faults' \in 0..MaxFaults
  BY <1>1, <1>2 DEF IInv, RestOK
<1>6. Started'
  <2>1. CASE generation # g
    BY <1>1, <1>2, <1>3, <1>4, <2>1 DEF IInv, Started
  <2>2. CASE generation = g
    <3>1. startup = g /\ worker = 0 /\ startup' = 0 /\ worker' = g /\ processes' = processes
      BY <1>1, <1>2, <1>3, <2>2 DEF IInv, Started
    <3>2. processes' \subseteq {worker'} \union {h \in Generations : starting'[h] = "binding"}
      BY <1>1, <1>4, <3>1 DEF IInv, Started
    <3> QED  BY <1>1, <1>2, <1>3, <1>4, <2>2, <3>1, <3>2 DEF IInv, Started
  <2> QED  BY <2>1, <2>2
<1> QED  BY <1>2, <1>5, <1>6, EndStartKeeps

LEMMA StartFailsKeeps ==
  ASSUME IInv, NEW g \in Generations, StartFails(g)
  PROVE  IInv'
<1> USE Parts
<1>1. /\ generation \in Generations /\ startup \in {0} \union Generations /\ 0 \notin Generations
      /\ processes \subseteq Generations /\ Generations \subseteq Nat /\ faults \in Nat /\ MaxFaults \in Nat
  BY SfuMediaAssumption DEF IInv, RestOK, Generations
<1>2. /\ starting[g] # "no" /\ EndStart(g, starting[g] = "binding" /\ generation # g)
      /\ faults < MaxFaults /\ faults' = faults + 1 /\ processes' = processes \ {g} /\ worker' = worker
  BY DEF StartFails, Fault
<1>3. /\ starting' = [starting EXCEPT ![g] = "no"] /\ generation' = generation
      /\ startup' = IF startup = g THEN 0 ELSE startup
  BY <1>2 DEF EndStart
<1>4. \A h \in Generations : starting'[h] = IF h = g THEN "no" ELSE starting[h]
  BY <1>3 DEF IInv, RestOK
<1>5. worker' \in {0} \union Generations /\ processes' \subseteq Generations /\ faults' \in 0..MaxFaults
  BY <1>1, <1>2 DEF IInv, RestOK
<1>6. Started'
  <2>1. generation' <= faults' + 1
    BY <1>1, <1>2, <1>3 DEF IInv, Started
  <2>2. /\ \A h \in Generations : h > generation' => starting'[h] = "no"
        /\ starting'[generation'] # "no" => startup' = generation'
        /\ startup' # 0 => startup' = generation' /\ worker' = 0
    BY <1>1, <1>2, <1>3, <1>4 DEF IInv, Started
  <2>3. processes' \subseteq {worker'} \union {h \in Generations : starting'[h] = "binding"}
    BY <1>1, <1>2, <1>4 DEF IInv, Started
  <2> QED  BY <2>1, <2>2, <2>3 DEF Started
<1> QED  BY <1>2, <1>5, <1>6, EndStartKeeps

-----------------------------------------------------------------------------
(* Membership and mutes.                                                     *)

\* A session leaves with all its media; the rest of the media is as it was.
LEMMA LeaveKeeps ==
  ASSUME IInv, NEW s \in Sessions, Leave(s)
  PROVE  IInv'
<1> USE Parts
<1>1. /\ room' = [room EXCEPT ![s] = None] /\ muted' = muted \ {s} /\ asked' = asked \ {s}
      /\ CloseSession(s, paused, [told EXCEPT ![s] = {}])
      /\ UNCHANGED <<channels, manager, handlers, routing, joined, requests, faults>>
  BY DEF Leave
<1>2. paused \in SUBSET producers /\ Known([told EXCEPT ![s] = {}])
  BY ToldIsKnown DEF IInv, MediaOK
<1>3. /\ MediaOK' /\ HearsOnlyLive' /\ Thinned(paused, [told EXCEPT ![s] = {}]) /\ OpenButFor({})
      /\ pending' \subseteq pending /\ \A t \in transports' : t.s # s
  BY <1>1, <1>2, SessionThins DEF IInv
<1>4. Queued(Nothing) /\ Nothing.kind \notin {"pause", "resume", "transport"}
  BY <1>1, NothingAsked
<1>5. RestOK'
  BY <1>1, <1>3 DEF IInv, RestOK, manager, handlers, routing
<1>6. Started'
  BY <1>1, StartedKept DEF IInv
<1>7. transports' \subseteq transports /\ routers' = routers /\ creations' = creations /\ channels' = channels /\ ready' = ready
  BY <1>1, <1>3 DEF Thinned, routing, handlers
<1>8. Routed'
  BY <1>3, <1>4, <1>7, RoutedKept DEF IInv
<1>9. Calm(Nothing)
  <2>1. asked' \subseteq Sessions /\ \A q \in asked' : [told EXCEPT ![s] = {}][q] = told[q]
    BY <1>1 DEF IInv, RestOK, MediaOK
  <2>2. \A q \in Sessions : q # s => room'[q] = room[q] /\ (q \in muted' <=> q \in muted)
    BY <1>1 DEF IInv, RestOK
  <2> QED  BY <1>1, <1>3, <1>4, <1>7, <2>1, <2>2 DEF Calm, Thinned
<1>10. Following' /\ Settling' /\ Heeding'
  BY <1>3, <1>9, CalmKeeps DEF IInv
<1> QED  BY <1>3, <1>5, <1>6, <1>7, <1>8, <1>10 DEF IInv, Recorded, OpenButFor

LEMMA ReplaceKeeps ==
  ASSUME IInv, NEW s \in Sessions, Replace(s)
  PROVE  IInv'
<1> USE Parts
<1>1. /\ pending' \subseteq pending /\ asked' = asked \ {s} /\ faults < MaxFaults /\ faults' = faults + 1
      /\ delayed' = [g \in Generations |-> {x \in delayed[g] : x.kind = "asking" => x.s # s}]
      /\ Tell([told EXCEPT ![s] = {}])
      /\ UNCHANGED <<membership, manager, ready, routing, media, joined, requests>>
  BY DEF Replace, Fault
<1>2. paused \in SUBSET producers /\ Known([told EXCEPT ![s] = {}])
  BY ToldIsKnown DEF IInv, MediaOK
<1>3. MediaOK' /\ HearsOnlyLive' /\ Thinned(paused, [told EXCEPT ![s] = {}]) /\ OpenButFor({})
  BY <1>1, <1>2, UntouchedThins DEF IInv
<1>4. Queued(Nothing) /\ Nothing.kind \notin {"pause", "resume", "transport"}
  BY <1>1, NothingAsked
<1>5. RestOK'
  <2>1. faults' \in 0..MaxFaults
    BY <1>1, SfuMediaAssumption DEF IInv, RestOK
  <2>2. delayed' \in [Generations -> SUBSET (Router \union Asking)]
    BY <1>1 DEF IInv, RestOK
  <2> QED  BY <1>1, <2>1, <2>2 DEF IInv, RestOK, membership, manager, routing
<1>6. Started'
  BY <1>1, StartedKept DEF IInv
<1>7. /\ transports' \subseteq transports /\ routers' = routers /\ creations' = creations /\ ready' = ready
      /\ channels' = channels /\ room' = room /\ muted' = muted
  BY <1>1, <1>3 DEF Thinned, routing, membership
<1>8. Routed'
  BY <1>3, <1>4, <1>7, RoutedKept DEF IInv
<1>9. Calm(Nothing)
  <2>1. asked' \subseteq Sessions /\ \A q \in asked' : [told EXCEPT ![s] = {}][q] = told[q]
    BY <1>1 DEF IInv, RestOK, MediaOK
  <2> QED  BY <1>1, <1>3, <1>4, <1>7, <2>1 DEF Calm, Thinned
<1>10. Following' /\ Settling' /\ Heeding'
  BY <1>3, <1>9, CalmKeeps DEF IInv
<1> QED  BY <1>3, <1>5, <1>6, <1>7, <1>8, <1>10 DEF IInv, Recorded, OpenButFor

LEMMA CloseProducerKeeps ==
  ASSUME IInv, NEW s \in Sessions, CloseProducer(s)
  PROVE  IInv'
<1> USE Parts
<1>1. /\ MediaOK' /\ HearsOnlyLive' /\ Thinned(paused, told) /\ OpenButFor({})
  BY OneProducerThins DEF IInv
<1>2. UNCHANGED <<membership, manager, handlers, routing, pending, joined, requests, asked, faults>>
  BY DEF CloseProducer
<1>3. Queued(Nothing) /\ Nothing.kind \notin {"pause", "resume", "transport"}
  BY <1>2, NothingAsked
<1>4. RestOK'
  BY <1>2 DEF IInv, RestOK, membership, manager, handlers, routing
<1>5. Started'
  BY <1>2, StartedKept DEF IInv
<1>6. /\ transports' \subseteq transports /\ routers' = routers /\ creations' = creations /\ ready' = ready
      /\ channels' = channels /\ room' = room /\ muted' = muted /\ asked' = asked
  BY <1>1, <1>2 DEF Thinned, routing, membership, handlers
<1>7. Routed'
  BY <1>1, <1>3, <1>6, RoutedKept DEF IInv
<1>8. Calm(Nothing)
  BY <1>1, <1>3, <1>6 DEF Calm, Thinned, IInv, RestOK
<1>9. Following' /\ Settling' /\ Heeding'
  BY <1>1, <1>8, CalmKeeps DEF IInv
<1> QED  BY <1>1, <1>4, <1>5, <1>6, <1>7, <1>9 DEF IInv, Recorded, OpenButFor

LEMMA DtlsFailsKeeps ==
  ASSUME IInv, NEW t \in transports, DtlsFails(t)
  PROVE  IInv'
<1> USE Parts
<1>1. MediaOK' /\ HearsOnlyLive' /\ Thinned(paused, told) /\ OpenButFor({})
  BY DtlsThins DEF IInv
<1>2. /\ UNCHANGED <<membership, manager, handlers, routing, pending, joined, requests, asked>>
      /\ faults < MaxFaults /\ faults' = faults + 1
  BY DEF DtlsFails, Fault
<1>3. Queued(Nothing) /\ Nothing.kind \notin {"pause", "resume", "transport"}
  BY <1>2, NothingAsked
<1>4. RestOK'
  <2>1. faults' \in 0..MaxFaults
    BY <1>2, SfuMediaAssumption DEF IInv, RestOK
  <2> QED  BY <1>2, <2>1 DEF IInv, RestOK, membership, manager, handlers, routing
<1>5. Started'
  BY <1>2, StartedKept DEF IInv
<1>6. /\ transports' \subseteq transports /\ routers' = routers /\ creations' = creations /\ ready' = ready
      /\ channels' = channels /\ room' = room /\ muted' = muted /\ asked' = asked
  BY <1>1, <1>2 DEF Thinned, routing, membership, handlers
<1>7. Routed'
  BY <1>1, <1>3, <1>6, RoutedKept DEF IInv
<1>8. Calm(Nothing)
  BY <1>1, <1>3, <1>6 DEF Calm, Thinned, IInv, RestOK
<1>9. Following' /\ Settling' /\ Heeding'
  BY <1>1, <1>8, CalmKeeps DEF IInv
<1> QED  BY <1>1, <1>4, <1>5, <1>6, <1>7, <1>9 DEF IInv, Recorded, OpenButFor

LEMMA DeleteChannelKeeps ==
  ASSUME IInv, NEW r \in Rooms, DeleteChannel(r)
  PROVE  IInv'
<1> USE Parts
<1> DEFINE inside == {s \in Sessions : room[s] = r}
           known == [s \in Sessions |-> IF s \in inside THEN {} ELSE told[s]]
<1>1. /\ channels' = channels \ {r} /\ faults < MaxFaults /\ faults' = faults + 1
      /\ room' = [s \in Sessions |-> IF s \in inside THEN None ELSE room[s]]
      /\ muted' = muted \ inside /\ asked' = asked \ inside
      /\ CloseChannel(r, inside, known)
      /\ UNCHANGED <<manager, handlers, joined, requests>>
  BY DEF DeleteChannel, Fault
<1>2. inside \in SUBSET Sessions /\ Known(known)
  BY DEF IInv, MediaOK, HearsOnlyLive, Known
<1>3. \A s \in Sessions : /\ s \in inside <=> room[s] = r
                          /\ s \notin inside => known[s] = told[s]
  OBVIOUS
<1> HIDE DEF inside, known
<1>4. /\ MediaOK' /\ HearsOnlyLive' /\ Thinned(paused, known) /\ OpenButFor(RoutersOf(r))
      /\ pending' \subseteq pending /\ \A t \in transports' : t.r # r /\ t.s \notin inside
  BY <1>1, <1>2, ChannelThins DEF IInv
<1>5. routers' = {x \in routers : x.r # r} /\ creations' = {x \in creations : x.r # r} /\ transports' \subseteq transports
  BY <1>1, <1>4 DEF CloseChannel, RoutersOf, Thinned
<1>6. Queued(Nothing) /\ Nothing.kind \notin {"pause", "resume", "transport"}
  BY <1>1, NothingAsked
<1>7. RestOK'
  <2>1. faults' \in 0..MaxFaults
    BY <1>1, SfuMediaAssumption DEF IInv, RestOK
  <2>2. room' \in [Sessions -> channels' \union {None}]
    BY <1>1, <1>2, <1>3 DEF IInv, RestOK
  <2> QED  BY <1>1, <1>4, <1>5, <2>1, <2>2 DEF IInv, RestOK, manager, handlers
<1>8. Started'
  BY <1>1, StartedKept DEF IInv
<1>9. Routed'
  <2>1. /\ \A x, y \in routers' \union creations' : x.r = y.r => x = y
        /\ routers' \intersect creations' = {}
        /\ \A x \in routers' \union creations' : x.r \in channels'
    BY <1>1, <1>5 DEF IInv, Routed
  <2>2. routers' \subseteq open'
    BY <1>4, <1>5 DEF IInv, Routed, OpenButFor, RoutersOf
  <2>3. \A t \in Transport : t.router \in routers \/ t.r \notin channels => t.router \in routers' \/ t.r \notin channels'
    BY <1>1, <1>5 DEF Transport
  <2>4. \A t \in transports' : t.router \in routers'
    BY <1>4, <1>5 DEF IInv, Routed, Transport, MediaOK
  <2>5. \A t \in ready' : t.kind = "transport" => t.router \in routers' \/ t.r \notin channels'
    BY <1>1, <2>3, Kinds DEF IInv, Routed, RestOK, handlers
  <2>6. \A i \in DOMAIN requests' :
          requests'[i].kind = "transport" => requests'[i].router \in routers' \/ requests'[i].r \notin channels'
    <3>1. requests \in Seq(Request) /\ requests' = requests
      BY <1>1 DEF IInv, RestOK
    <3>2. \A i \in DOMAIN requests : requests[i] \in Request
      BY <3>1, ElementOfSeq, LenProperties
    <3> QED  BY <2>3, <3>1, <3>2, Kinds DEF IInv, Routed, Request
  <2> QED  BY <2>1, <2>2, <2>4, <2>5, <2>6 DEF Routed
<1>10. Calm(Nothing)
  <2>1. \A s \in Sessions :
          \/ room'[s] = room[s] /\ (s \in muted' <=> s \in muted)
          \/ s \notin asked' /\ \A t \in transports' : t.s # s
    BY <1>1, <1>4
  <2>2. \A s \in asked' : s \in Sessions /\ known[s] = told[s]
    BY <1>1, <1>3 DEF IInv, RestOK
  <2> QED  BY <1>1, <1>4, <1>5, <1>6, <2>1, <2>2 DEF Calm, Thinned
<1>11. Following' /\ Settling' /\ Heeding'
  BY <1>4, <1>10, CalmKeeps DEF IInv
<1>12. Recorded'
  BY <1>4, <1>5 DEF Recorded, OpenButFor, RoutersOf
<1> QED  BY <1>4, <1>7, <1>8, <1>9, <1>11, <1>12 DEF IInv

\* A step that asks for the mute of a session, or finds no microphone to mute.
LEMMA SyncMuteKeeps ==
  ASSUME IInv, NEW s \in Sessions, NEW r \in Rooms,
         NEW next \in {"nothing", "join", "move"}, NEW known, Known(known),
         SyncMute(s, r, muted', next, known),
         muted' \subseteq Sessions, room' \in [Sessions -> channels \union {None}],
         \A q \in Sessions : q # s => room'[q] = room[q] /\ (q \in muted' <=> q \in muted),
         IF next = "nothing" THEN room'[s] = room[s] ELSE room'[s] = r,
         asked' \subseteq asked, \A q \in asked' : room'[q] = room[q] /\ known[q] = told[q],
         UNCHANGED <<channels, manager, handlers, routing, joined, faults>>
  PROVE  IInv'
<1> USE Parts
<1>1. /\ MediaOK' /\ HearsOnlyLive' /\ Thinned(paused, known) /\ OpenButFor({}) /\ pending' \subseteq pending
      /\ \/ /\ requests' = requests /\ \A p \in producers' : p.s # s
            /\ next \in {"join", "move"} => \A t \in transports' : t.s = s => t.r = r
         \/ \E m \in Mute : /\ requests' = Append(requests, m) /\ m.s = s /\ m.r = r /\ m.next = next
                            /\ m.kind = "pause" <=> s \in muted'
                            /\ \A p \in producers' : p.s = s => p \in m.mics
  BY SyncMuteThins DEF IInv
<1>2. PICK e : /\ Queued(e) /\ e.kind # "transport"
               /\ \/ /\ requests' = requests /\ \A p \in producers' : p.s # s
                     /\ next \in {"join", "move"} => \A t \in transports' : t.s = s => t.r = r
                  \/ /\ e \in Mute /\ requests' = Append(requests, e) /\ e.s = s /\ e.r = r /\ e.next = next
                     /\ e.kind = "pause" <=> s \in muted'
                     /\ \A p \in producers' : p.s = s => p \in e.mics
  <2>1. CASE /\ requests' = requests /\ \A p \in producers' : p.s # s
             /\ next \in {"join", "move"} => \A t \in transports' : t.s = s => t.r = r
    BY <2>1, NothingAsked
  <2>2. CASE \E m \in Mute : /\ requests' = Append(requests, m) /\ m.s = s /\ m.r = r /\ m.next = next
                             /\ m.kind = "pause" <=> s \in muted'
                             /\ \A p \in producers' : p.s = s => p \in m.mics
    <3>1. PICK m \in Mute : /\ requests' = Append(requests, m) /\ m.s = s /\ m.r = r /\ m.next = next
                            /\ m.kind = "pause" <=> s \in muted'
                            /\ \A p \in producers' : p.s = s => p \in m.mics
      BY <2>2
    <3>2. Queued(m) /\ m.kind # "transport"
      BY <3>1, Kinds DEF Queued, Request
    <3> QED  BY <3>1, <3>2
  <2> QED  BY <1>1, <2>1, <2>2
<1>3. requests' \in Seq(Request) /\ requests \in Seq(Request)
  BY <1>2, Entries DEF IInv, RestOK
<1>4. RestOK'
  BY <1>1, <1>3 DEF IInv, RestOK, manager, handlers, routing
<1>5. Started'
  BY StartedKept DEF IInv
<1>6. transports' \subseteq transports /\ routers' = routers /\ creations' = creations /\ ready' = ready
  BY <1>1 DEF Thinned, routing, handlers
<1>7. Routed'
  BY <1>1, <1>2, <1>6, RoutedKept DEF IInv
<1>8. \A q : Kept(q)
  BY <1>2, QueuedKeeps DEF IInv
<1>9. /\ \A t \in transports' : t.s \in Sessions
      /\ \A p \in producers' : p.s \in Sessions /\ p \in producers /\ (p \in paused' <=> p \in paused)
  BY <1>1 DEF MediaOK, Transport, Producer, Thinned
<1>10. Following'
  <2> SUFFICES ASSUME NEW t \in transports', t.r # room'[t.s]
               PROVE  \E j \in DOMAIN requests' : /\ IsMute(requests'[j], t.s)
                                                  /\ requests'[j].next \in {"join", "move"} /\ requests'[j].r = room'[t.s]
    BY DEF Following
  <2>1. CASE room'[t.s] = room[t.s]
    <3>1. PICK i \in DOMAIN requests :
            IsMute(requests[i], t.s) /\ requests[i].next \in {"join", "move"} /\ requests[i].r = room[t.s]
      BY <1>6, <2>1 DEF IInv, Following
    <3>2. PICK j \in DOMAIN requests' : requests'[j] = requests[i]
      BY <1>8, <3>1 DEF Kept
    <3> QED  BY <2>1, <3>1, <3>2
  <2>2. CASE room'[t.s] # room[t.s]
    <3>1. t.s = s /\ next \in {"join", "move"} /\ room'[s] = r
      BY <1>9, <2>2
    <3>2. e \in Mute /\ requests' = Append(requests, e) /\ e.s = s /\ e.r = r /\ e.next = next
      BY <1>2, <3>1
    <3>3. Len(requests) + 1 \in DOMAIN requests' /\ requests'[Len(requests) + 1] = e
      BY <1>3, <3>2, Appended DEF Request
    <3>4. IsMute(e, t.s)
      BY <3>1, <3>2, Kinds DEF IsMute
    <3> QED  BY <3>1, <3>2, <3>3, <3>4
  <2> QED  BY <2>1, <2>2
<1>11. Settling'
  <2> SUFFICES ASSUME NEW p \in producers'
               PROVE  Holds(requests', p, paused', muted')
    BY DEF Settling
  <2>1. CASE p.s = s
    <3>1. e \in Mute /\ requests' = Append(requests, e) /\ e.s = s /\ (e.kind = "pause" <=> s \in muted') /\ p \in e.mics
      BY <1>2, <2>1
    <3>2. IsMute(e, p.s) /\ e \in Request
      BY <2>1, <3>1, Kinds DEF IsMute, Request
    <3> QED  BY <1>3, <2>1, <3>1, <3>2, HoldsAnew
  <2>2. CASE p.s # s
    <3>1. Holds(requests, p, paused, muted) /\ (p.s \in muted' <=> p.s \in muted) /\ (p \in paused' <=> p \in paused)
      BY <1>9, <2>2 DEF IInv, Settling
    <3>2. Holds(requests, p, paused', muted')
      BY <3>1 DEF Holds
    <3>3. CASE requests' = requests
      BY <3>2, <3>3
    <3>4. CASE e \in Mute /\ requests' = Append(requests, e) /\ e.s = s
      <4>1. ~IsMute(e, p.s) /\ e \in Request
        BY <2>2, <3>4 DEF IsMute, Request
      <4> QED  BY <1>3, <3>2, <3>4, <4>1, HoldsBefore
    <3> QED  BY <1>2, <3>3, <3>4
  <2> QED  BY <2>1, <2>2
<1>12. Heeding'
  <2>1. \A q \in asked' : Direction(q) = "recv" /\ q \in Sessions
    BY DEF IInv, Heeding, RestOK
  <2> SUFFICES ASSUME NEW q \in asked', NEW p \in producers', p.r = room'[q], p.s # q, p \notin told'[q]
               PROVE  \E j \in DOMAIN requests' : IsMute(requests'[j], p.s) /\ p \in requests'[j].news
    BY <2>1 DEF Heeding
  <2>2. q \in asked /\ p \in producers /\ room'[q] = room[q] /\ p \notin told[q]
    BY <1>1, <1>9, <2>1 DEF Thinned
  <2>3. PICK i \in DOMAIN requests : IsMute(requests[i], p.s) /\ p \in requests[i].news
    BY <2>2 DEF IInv, Heeding
  <2>4. PICK j \in DOMAIN requests' : requests'[j] = requests[i]
    BY <1>8, <2>3 DEF Kept
  <2> QED  BY <2>3, <2>4
<1> QED  BY <1>1, <1>4, <1>5, <1>6, <1>7, <1>10, <1>11, <1>12 DEF IInv, Recorded, OpenButFor

LEMMA EnterKeeps ==
  ASSUME IInv, NEW s \in Sessions, NEW r \in channels, NEW next \in {"join", "move"}, Enter(s, r, next)
  PROVE  IInv'
<1> USE Parts
<1> DEFINE known == IF room[s] = r THEN told ELSE [told EXCEPT ![s] = {}]
<1>1. /\ room' = [room EXCEPT ![s] = r] /\ muted' = muted
      /\ asked' = IF room[s] = r THEN asked ELSE asked \ {s}
      /\ SyncMute(s, r, muted, next, known)
      /\ UNCHANGED <<channels, manager, handlers, routing, joined, faults>>
  BY DEF Enter
<1>2. Known(known)
  BY ToldIsKnown DEF IInv
<1>3. \A q \in Sessions : q # s \/ room[s] = r => known[q] = told[q]
  BY DEF IInv, MediaOK
<1> HIDE DEF known
<1>4. r \in Rooms /\ muted' \subseteq Sessions /\ room' \in [Sessions -> channels \union {None}]
  BY <1>1 DEF IInv, RestOK
<1>5. /\ \A q \in Sessions : q # s => room'[q] = room[q] /\ (q \in muted' <=> q \in muted)
      /\ room'[s] = r /\ asked' \subseteq asked
  BY <1>1 DEF IInv, RestOK
<1>6. \A q \in asked' : room'[q] = room[q] /\ known[q] = told[q]
  BY <1>1, <1>3, <1>5 DEF IInv, RestOK
<1>7. SyncMute(s, r, muted', next, known)
  BY <1>1
<1> QED  BY <1>1, <1>2, <1>4, <1>5, <1>6, <1>7, SyncMuteKeeps

LEMMA SetMutedKeeps ==
  ASSUME IInv, NEW s \in Sessions, SetMuted(s)
  PROVE  IInv'
<1> USE Parts
<1>1. /\ room[s] # None /\ muted' = IF s \in muted THEN muted \ {s} ELSE muted \union {s}
      /\ UNCHANGED <<channels, room, manager, handlers, routing, joined, asked, faults>>
  BY DEF SetMuted
<1>2. SyncMute(s, room[s], muted', "nothing", told)
  BY <1>1 DEF SetMuted
<1>3. room[s] \in Rooms /\ muted' \subseteq Sessions /\ room' \in [Sessions -> channels \union {None}] /\ Known(told)
  BY <1>1, ToldIsKnown DEF IInv, RestOK
<1>4. \A q \in Sessions : q # s => room'[q] = room[q] /\ (q \in muted' <=> q \in muted)
  BY <1>1
<1> QED  BY <1>1, <1>2, <1>3, <1>4, SyncMuteKeeps

\* Whoever asks for the list knows every microphone of its room.
LEMMA GetProducersKeeps ==
  ASSUME IInv, NEW s \in Sessions, GetProducers(s)
  PROVE  IInv'
<1> USE Parts
<1>1. /\ Direction(s) = "recv" /\ asked' = asked \union {s}
      /\ told' = [told EXCEPT ![s] = @ \union {p \in producers : p.r = room[s] /\ p.s # s}]
      /\ UNCHANGED <<membership, manager, handlers, routing, media, pending, joined, requests, lost, faults>>
  BY DEF GetProducers
<1>2. /\ told' \in [Sessions -> SUBSET Producer]
      /\ \A q \in Sessions : told'[q] = IF q = s THEN told[s] \union {p \in producers : p.r = room[s] /\ p.s # s} ELSE told[q]
  BY <1>1 DEF IInv, MediaOK
<1>3. MediaOK' /\ RestOK'
  BY <1>1, <1>2 DEF IInv, MediaOK, RestOK, membership, manager, handlers, routing, media
<1>4. HearsOnlyLive'
  BY <1>1, <1>2 DEF IInv, HearsOnlyLive, media
<1>5. Started'
  BY <1>1, StartedKept DEF IInv
<1>6. Routed' /\ Recorded' /\ Following' /\ Settling'
  BY <1>1 DEF IInv, Routed, Recorded, Following, Settling, Holds, membership, handlers, routing, media
<1>7. Heeding'
  <2>1. \A q \in asked' : Direction(q) = "recv" /\ q \in Sessions
    BY <1>1 DEF IInv, Heeding, RestOK
  <2>2. room' = room /\ producers' = producers /\ requests' = requests
    BY <1>1 DEF membership, media
  <2>3. ASSUME NEW q \in asked', NEW p \in producers', p.r = room'[q], p.s # q
        PROVE  p \in told'[q] \/ \E i \in DOMAIN requests : IsMute(requests[i], p.s) /\ p \in requests[i].news
    <3>1. CASE q = s
      BY <1>2, <2>2, <2>3, <3>1
    <3>2. CASE q # s
      BY <1>1, <1>2, <2>1, <2>2, <2>3, <3>2 DEF IInv, Heeding
    <3> QED  BY <3>1, <3>2
  <2> QED  BY <2>1, <2>2, <2>3 DEF Heeding
<1> QED  BY <1>3, <1>4, <1>5, <1>6, <1>7 DEF IInv

-----------------------------------------------------------------------------
(* The worker's answers.                                                     *)

LEMMA RouterCreatedKeeps ==
  ASSUME IInv, requests # <<>>, NEW x, x = Head(requests), RouterCreated(x)
  PROVE  IInv'
<1> USE Parts
<1>1. /\ x.kind = "router" /\ requests' = Tail(requests)
      /\ IF x \notin creations THEN Reject({x}) /\ UNCHANGED <<routers, open, ready>>
         ELSE /\ routers' = routers \union {x} /\ creations' = creations \ {x} /\ open' = open \union {x}
              /\ ready' = ready \union {t \in joined : t.router = x}
              /\ joined' = {t \in joined : t.router # x}
              /\ UNCHANGED pending
      /\ UNCHANGED <<membership, manager, delayed, transports, producers, consumers, paused, views, faults>>
  BY DEF RouterCreated
<1>2. Answered
  BY <1>1 DEF Answered
<1>3. requests' \in Seq(Request) /\ Head(requests) \in Request
  BY <1>2, Tailed DEF IInv, RestOK, Answered
<1>4. /\ creations' \subseteq creations /\ joined' \subseteq joined /\ pending' \subseteq pending
      /\ routers' \subseteq routers \union {x} /\ routers \subseteq routers' /\ (x \in routers' => x \in routers \union creations)
      /\ open \subseteq open' /\ open' \subseteq open \union routers' /\ routers' \subseteq routers \union open'
      /\ ready' \subseteq ready \union {t \in joined : t.router \in routers'}
  <2>1. CASE x \notin creations
    <3>1. Reject({x}) /\ UNCHANGED <<routers, open, ready>>
      BY <1>1, <2>1
    <3> QED  BY <3>1 DEF Reject
  <2>2. CASE x \in creations
    BY <1>1, <2>2
  <2> QED  BY <2>1, <2>2
<1>5. MediaOK' /\ HearsOnlyLive'
  BY <1>1, <1>4 DEF IInv, MediaOK, HearsOnlyLive, views
<1>6. RestOK'
  BY <1>1, <1>3, <1>4 DEF IInv, RestOK, membership, manager, views
<1>7. Started'
  BY <1>1, StartedKept DEF IInv
<1>8. Recorded'
  BY <1>1, <1>4 DEF IInv, Recorded
<1>9. Routed'
  <2>1. routers' \intersect creations' = {} /\ routers' \union creations' \subseteq routers \union creations
    BY <1>1, <1>4 DEF IInv, Routed
  <2>2. /\ \A y, z \in routers' \union creations' : y.r = z.r => y = z
        /\ \A y \in routers' \union creations' : y.r \in channels'
    BY <1>1, <2>1 DEF IInv, Routed, membership
  <2>3. routers' \subseteq open'
    BY <1>4 DEF IInv, Routed
  <2>4. channels' = channels /\ transports' = transports
    BY <1>1 DEF membership
  <2>5. \A j \in DOMAIN requests' : \E i \in DOMAIN requests : requests'[j] = requests[i]
    BY <1>2, Tailed DEF IInv, RestOK, Answered
  <2>6. \A j \in DOMAIN requests' :
          requests'[j].kind = "transport" => requests'[j].router \in routers' \/ requests'[j].r \notin channels'
    BY <1>4, <2>4, <2>5 DEF IInv, Routed
  <2>7. \A t \in ready' : t.kind = "transport" => t.router \in routers' \/ t.r \notin channels'
    BY <1>4, <2>4 DEF IInv, Routed
  <2>8. \A t \in transports' : t.router \in routers'
    BY <1>4, <2>4 DEF IInv, Routed
  <2> QED  BY <2>1, <2>2, <2>3, <2>6, <2>7, <2>8 DEF Routed
<1>10. Calm(Nothing)
  BY <1>1, <1>2 DEF Calm, membership, views, IInv, RestOK
<1>11. Following' /\ Settling' /\ Heeding'
  BY <1>5, <1>10, CalmKeeps DEF IInv
<1> QED  BY <1>5, <1>6, <1>7, <1>8, <1>9, <1>11 DEF IInv

LEMMA TransportCreatedKeeps ==
  ASSUME IInv, requests # <<>>, NEW t, t = Head(requests), TransportCreated(t)
  PROVE  IInv'
<1> USE Parts
<1>1. /\ t.kind = "transport" /\ requests' = Tail(requests) /\ pending' = pending \ {t}
      /\ IF Wanted(t) THEN transports' = transports \union {t} /\ open' = open \union {t}
         ELSE UNCHANGED <<transports, open>>
      /\ UNCHANGED <<membership, manager, handlers, routing, producers, consumers, paused, joined, views, faults>>
  BY DEF TransportCreated
<1>2. Answered
  BY <1>1 DEF Answered
<1>3. /\ requests' \in Seq(Request) /\ Head(requests) \in Request
      /\ 1 \in DOMAIN requests /\ requests[1] = t
      /\ \A j \in DOMAIN requests' : \E i \in DOMAIN requests : requests'[j] = requests[i]
  BY <1>2, Tailed DEF IInv, RestOK, Answered
<1>4. t \in Transport
  BY <1>1, <1>3, Kinds DEF Request
<1>5. /\ transports \subseteq transports' /\ open \subseteq open'
      /\ \A x \in transports' : x \in transports \/ (x = t /\ room[t.s] = t.r)
      /\ open' \subseteq open \union transports'
  BY <1>1 DEF Wanted
<1>6. MediaOK' /\ HearsOnlyLive'
  BY <1>1, <1>4, <1>5 DEF IInv, MediaOK, HearsOnlyLive, views
<1>7. RestOK'
  BY <1>1, <1>3 DEF IInv, RestOK, membership, manager, handlers, routing, views
<1>8. Started'
  BY <1>1, StartedKept DEF IInv
<1>9. Recorded'
  BY <1>1, <1>5 DEF IInv, Recorded, routing
<1>10. channels' = channels /\ room' = room /\ muted' = muted /\ routers' = routers /\ creations' = creations /\ ready' = ready
  BY <1>1 DEF membership, routing, handlers
<1>11. Routed'
  <2>1. \A x \in transports' : x.router \in routers
    <3>1. t.router \in routers \/ t.r \notin channels
      BY <1>1, <1>3 DEF IInv, Routed
    <3>2. t.r \in Rooms /\ t.s \in Sessions
      BY <1>4 DEF Transport
    <3>3. room[t.s] = t.r => t.r \in channels
      BY <3>2, SfuMediaAssumption DEF IInv, RestOK
    <3> QED  BY <1>5, <3>1, <3>3 DEF IInv, Routed
  <2>2. \A j \in DOMAIN requests' : requests'[j].kind = "transport" => requests'[j].router \in routers \/ requests'[j].r \notin channels
    BY <1>3 DEF IInv, Routed
  <2> QED  BY <1>5, <1>10, <2>1, <2>2 DEF IInv, Routed
<1>12. Calm(Nothing)
  BY <1>1, <1>2, <1>5, <1>10 DEF Calm, views, IInv, RestOK
<1>13. Following' /\ Settling' /\ Heeding'
  BY <1>6, <1>12, CalmKeeps DEF IInv
<1> QED  BY <1>6, <1>7, <1>8, <1>9, <1>11, <1>13 DEF IInv

LEMMA ConsumedKeeps ==
  ASSUME IInv, requests # <<>>, NEW c, c = Head(requests), Consumed(c)
  PROVE  IInv'
<1> USE Parts
<1>1. /\ c.kind = "consumer" /\ requests' = Tail(requests) /\ pending' = pending \ {c}
      /\ UNCHANGED <<membership, manager, handlers, routing, transports, producers, paused, joined, asked, faults>>
  BY DEF Consumed
<1>2. Answered
  BY <1>1 DEF Answered
<1>3. requests' \in Seq(Request) /\ Head(requests) \in Request
  BY <1>2, Tailed DEF IInv, RestOK, Answered
<1>4. c \in Consumer /\ c.s \in Sessions /\ c.producer \in Producer
  BY <1>1, <1>3, Kinds DEF Request, Consumer
<1>5. /\ consumers \subseteq consumers' /\ open \subseteq open' /\ open' \subseteq open \union consumers' /\ consumers' \subseteq consumers \union open'
      /\ \A x \in consumers' : x \in consumers \/ (x = c /\ c.transport \in transports /\ c.producer \in producers)
  <2>1. CASE c.producer \notin producers
    BY <2>1 DEF Consumed
  <2>2. CASE c.producer \in producers /\ (TransportIsGone(c) \/ ~Wanted(c))
    BY <2>2 DEF Consumed
  <2>3. CASE c.producer \in producers /\ ~TransportIsGone(c) /\ Wanted(c)
    BY <2>3 DEF Consumed, TransportIsGone
  <2> QED  BY <2>1, <2>2, <2>3
<1>6. /\ told' \in [Sessions -> SUBSET Producer] /\ lost' \subseteq Producer /\ HearsOnlyLive'
      /\ \A s \in Sessions : \A p \in producers : p \in told[s] => p \in told'[s]
  <2>1. CASE c.producer \notin producers
    <3>1. told' = [told EXCEPT ![c.s] = @ \ {c.producer}] /\ lost' = lost \intersect UNION {told'[q] : q \in Sessions}
      <4>1. Tell([told EXCEPT ![c.s] = @ \ {c.producer}])
        BY <2>1 DEF Consumed
      <4> QED  BY <4>1 DEF Tell
    <3>2. told' \in [Sessions -> SUBSET Producer]
          /\ \A s \in Sessions : told'[s] = IF s = c.s THEN told[s] \ {c.producer} ELSE told[s]
      BY <1>4, <3>1 DEF IInv, MediaOK
    <3> QED  BY <1>1, <2>1, <3>1, <3>2 DEF IInv, MediaOK, HearsOnlyLive
  <2>2. CASE c.producer \in producers /\ (TransportIsGone(c) \/ ~Wanted(c))
    <3>1. told' = told /\ lost' = lost
      BY <2>2 DEF Consumed
    <3> QED  BY <1>1, <3>1 DEF IInv, MediaOK, HearsOnlyLive
  <2>3. CASE c.producer \in producers /\ ~TransportIsGone(c) /\ Wanted(c)
    <3>1. told' = [told EXCEPT ![c.s] = @ \union {c.producer}] /\ lost' = lost \intersect UNION {told'[q] : q \in Sessions}
      <4>1. Tell([told EXCEPT ![c.s] = @ \union {c.producer}])
        BY <2>3 DEF Consumed
      <4> QED  BY <4>1 DEF Tell
    <3>2. told' \in [Sessions -> SUBSET Producer]
          /\ \A s \in Sessions : told'[s] = IF s = c.s THEN told[s] \union {c.producer} ELSE told[s]
      BY <1>4, <3>1 DEF IInv, MediaOK
    <3> QED  BY <1>1, <2>3, <3>1, <3>2 DEF IInv, MediaOK, HearsOnlyLive
  <2> QED  BY <2>1, <2>2, <2>3
<1>7. MediaOK'
  BY <1>1, <1>4, <1>5, <1>6 DEF IInv, MediaOK
<1>8. RestOK'
  BY <1>1, <1>3 DEF IInv, RestOK, membership, manager, handlers, routing
<1>9. Started'
  BY <1>1, StartedKept DEF IInv
<1>10. channels' = channels /\ room' = room /\ muted' = muted /\ routers' = routers /\ creations' = creations /\ ready' = ready
  BY <1>1 DEF membership, routing, handlers
<1>11. Recorded'
  BY <1>1, <1>5, <1>10 DEF IInv, Recorded
<1>12. Routed'
  <2>1. \A j \in DOMAIN requests' : \E i \in DOMAIN requests : requests'[j] = requests[i]
    BY <1>2, Tailed DEF IInv, RestOK, Answered
  <2>2. \A j \in DOMAIN requests' : requests'[j].kind = "transport" => requests'[j].router \in routers \/ requests'[j].r \notin channels
    BY <2>1 DEF IInv, Routed
  <2> QED  BY <1>1, <1>5, <1>10, <2>2 DEF IInv, Routed
<1>13. Calm(Nothing)
  BY <1>1, <1>2, <1>6, <1>10 DEF Calm, IInv, RestOK
<1>14. Following' /\ Settling' /\ Heeding'
  BY <1>7, <1>13, CalmKeeps DEF IInv
<1> QED  BY <1>6, <1>7, <1>8, <1>9, <1>11, <1>12, <1>14 DEF IInv

\* A producer that is made brings the mute of its session along, for all the
\* session's microphones.
LEMMA ProducedAnew ==
  ASSUME IInv, requests # <<>>, NEW p, p = Head(requests), Produced(p),
         Wanted(p) /\ ~TransportIsGone(p) /\ ProducersOn({p.transport}) = {}
  PROVE  IInv'
<1> USE Parts
<1> DEFINE m == [kind |-> Hush(p.s, muted), s |-> p.s, r |-> p.r, mics |-> MicrophonesOf(p.s) \union {p},
                 next |-> "nothing", news |-> {p}]
<1>1. /\ p.kind = "producer" /\ requests' = Append(Tail(requests), m) /\ pending' = pending \ {p}
      /\ producers' = producers \union {p} /\ open' = open \union {p} /\ paused' = paused \union {p}
      /\ UNCHANGED <<membership, manager, handlers, routing, transports, consumers, joined, views, faults>>
  BY DEF Produced
<1>2. /\ requests \in Seq(Request) /\ Tail(requests) \in Seq(Request) /\ p \in Request
      /\ DOMAIN Tail(requests) = 1..(Len(requests) - 1) /\ Len(requests) \in Nat \ {0}
      /\ DOMAIN requests = 1..Len(requests)
      /\ \A i \in DOMAIN Tail(requests) : i + 1 \in DOMAIN requests /\ Tail(requests)[i] = requests[i + 1]
      /\ requests[1] = p
  BY Tailed DEF IInv, RestOK
<1>3. p \in Producer /\ p.s \in Sessions /\ p.r \in Rooms /\ p.transport \in transports /\ p \notin producers
  BY <1>1, <1>2, Kinds DEF Request, Producer, TransportIsGone, ProducersOn
<1>4. m \in Mute /\ m \in Request
  <2>1. MicrophonesOf(p.s) \in SUBSET Producer /\ Hush(p.s, muted) \in {"pause", "resume"}
        /\ \A q \in MicrophonesOf(p.s) : q.s = p.s
    BY DEF IInv, MediaOK, Hush, MicrophonesOf
  <2> QED  BY <1>3, <2>1 DEF Mute, Request
<1>5. /\ m.s = p.s /\ m.news = {p} /\ m.mics = MicrophonesOf(p.s) \union {p} /\ (m.kind = "pause" <=> p.s \in muted)
      /\ m.kind \in {"pause", "resume"}
  BY DEF Hush
<1> HIDE DEF m
<1>6. MediaOK'
  <2>1. producers' \subseteq Producer \intersect open' /\ (\A q \in producers' : q.transport \in transports')
    BY <1>1, <1>3 DEF IInv, MediaOK
  <2>2. \A q \in producers : q.transport # p.transport
    BY DEF ProducersOn
  <2>3. \A q, r \in producers' : q.transport = r.transport => q = r
    BY <1>1, <2>2 DEF IInv, MediaOK
  <2> QED  BY <1>1, <2>1, <2>3 DEF IInv, MediaOK, views
<1>7. HearsOnlyLive'
  BY <1>1 DEF IInv, HearsOnlyLive, views
<1>8. /\ requests' \in Seq(Request) /\ DOMAIN requests' = 1..Len(requests)
      /\ \A i \in 1..(Len(requests) - 1) : requests'[i] = requests[i + 1]
      /\ requests'[Len(requests)] = m
  <2>1. Len(Tail(requests)) = Len(requests) - 1
    BY <1>2, LenProperties
  <2> QED  BY <1>1, <1>2, <1>4, <2>1, Appended
<1>9. RestOK'
  BY <1>1, <1>8 DEF IInv, RestOK, membership, manager, handlers, routing, views
<1>10. Started'
  BY <1>1, StartedKept DEF IInv
<1>11. /\ channels' = channels /\ room' = room /\ muted' = muted /\ routers' = routers /\ creations' = creations
       /\ ready' = ready /\ asked' = asked /\ told' = told /\ transports' = transports
  BY <1>1 DEF membership, routing, handlers, views
<1>12. Recorded'
  BY <1>1, <1>11 DEF IInv, Recorded
<1>13. ASSUME NEW i \in DOMAIN requests, i # 1
       PROVE  i - 1 \in DOMAIN requests' /\ requests'[i - 1] = requests[i]
  BY <1>2, <1>8, <1>13
<1>14. Routed'
  <2>1. \A j \in DOMAIN requests' : requests'[j] = m \/ \E i \in DOMAIN requests : requests'[j] = requests[i]
    BY <1>2, <1>8
  <2>2. \A j \in DOMAIN requests' : requests'[j].kind = "transport" => requests'[j].router \in routers \/ requests'[j].r \notin channels
    BY <1>5, <2>1 DEF IInv, Routed
  <2> QED  BY <1>1, <1>11, <2>2 DEF IInv, Routed
<1>15. Following'
  <2> SUFFICES ASSUME NEW t \in transports, t.r # room[t.s]
               PROVE  \E j \in DOMAIN requests' : /\ IsMute(requests'[j], t.s)
                                                  /\ requests'[j].next \in {"join", "move"} /\ requests'[j].r = room[t.s]
    BY <1>11 DEF Following
  <2>1. PICK i \in DOMAIN requests :
          IsMute(requests[i], t.s) /\ requests[i].next \in {"join", "move"} /\ requests[i].r = room[t.s]
    BY DEF IInv, Following
  <2>2. i # 1
    BY <1>1, <1>2, <2>1 DEF IsMute
  <2> QED  BY <1>13, <2>1, <2>2
<1>16. Settling'
  <2> SUFFICES ASSUME NEW q \in producers'
               PROVE  Holds(requests', q, paused', muted')
    BY DEF Settling
  <2>1. CASE q.s = p.s
    <3>1. q \in m.mics /\ IsMute(m, q.s)
      BY <1>1, <1>5, <2>1 DEF MicrophonesOf, IsMute
    <3> QED  BY <1>1, <1>2, <1>4, <1>5, <1>11, <2>1, <3>1, HoldsAnew
  <2>2. CASE q.s # p.s
    <3>1. q \in producers /\ (q \in paused' <=> q \in paused)
      BY <1>1, <2>2
    <3>2. Holds(requests, q, paused, muted) /\ ~IsMute(Head(requests), q.s)
      BY <1>1, <3>1 DEF IInv, Settling, IsMute
    <3>3. Holds(Tail(requests), q, paused', muted)
      BY <1>2, <3>1, <3>2, HoldsAfter
    <3>4. ~IsMute(m, q.s)
      BY <1>5, <2>2 DEF IsMute
    <3> QED  BY <1>1, <1>2, <1>4, <1>11, <3>3, <3>4, HoldsBefore
  <2> QED  BY <2>1, <2>2
<1>17. Heeding'
  <2> SUFFICES ASSUME NEW s \in asked, NEW q \in producers', q.r = room[s], q.s # s, q \notin told[s]
               PROVE  \E j \in DOMAIN requests' : IsMute(requests'[j], q.s) /\ q \in requests'[j].news
    BY <1>11 DEF Heeding, IInv
  <2>1. CASE q = p
    BY <1>2, <1>5, <1>8, <2>1 DEF IsMute
  <2>2. CASE q # p
    <3>1. PICK i \in DOMAIN requests : IsMute(requests[i], q.s) /\ q \in requests[i].news
      BY <1>1, <2>2 DEF IInv, Heeding
    <3>2. i # 1
      BY <1>1, <1>2, <3>1 DEF IsMute
    <3> QED  BY <1>13, <3>1, <3>2
  <2> QED  BY <2>1, <2>2
<1> QED  BY <1>6, <1>7, <1>9, <1>10, <1>12, <1>14, <1>15, <1>16, <1>17 DEF IInv

LEMMA ProducedKeeps ==
  ASSUME IInv, requests # <<>>, NEW p, p = Head(requests), Produced(p)
  PROVE  IInv'
<1> USE Parts
<1>1. CASE Wanted(p) /\ ~TransportIsGone(p) /\ ProducersOn({p.transport}) = {}
  BY <1>1, ProducedAnew
<1>2. CASE ~(Wanted(p) /\ ~TransportIsGone(p) /\ ProducersOn({p.transport}) = {})
  <2>1. /\ p.kind = "producer" /\ requests' = Tail(requests) /\ pending' = pending \ {p}
        /\ UNCHANGED <<producers, open, paused>>
        /\ UNCHANGED <<membership, manager, handlers, routing, transports, consumers, joined, views, faults>>
    BY <1>2 DEF Produced
  <2>2. Answered /\ Head(requests).kind \notin {"pause", "resume"} /\ Nothing.kind \notin {"pause", "resume", "transport"}
    BY <2>1 DEF Answered, Nothing
  <2>3. requests' \in Seq(Request)
    BY <2>2, Entries DEF IInv
  <2>4. RestOK'
    BY <2>1, <2>3 DEF IInv, RestOK, membership, manager, handlers, routing, views
  <2>5. Started'
    BY <2>1, StartedKept DEF IInv
  <2>6. UNCHANGED <<membership, media, told, lost>> /\ asked' \subseteq asked /\ routers' = routers
    BY <2>1 DEF media, views, routing
  <2>7. OpenButFor({}) /\ transports' \subseteq transports
    BY <2>6, UnchangedThins DEF IInv, Thinned
  <2>8. creations' = creations /\ channels' = channels /\ ready' = ready
    BY <2>1 DEF membership, routing, handlers
  <2>9. Routed'
    BY <2>2, <2>6, <2>7, <2>8, RoutedKept DEF IInv
  <2> QED  BY <2>2, <2>4, <2>5, <2>6, <2>9, QuietKeeps
<1> QED  BY <1>1, <1>2

\* The answer to a mute pauses or resumes the microphones it was for, and what
\* follows closes the session's media elsewhere, or announces its producers.
LEMMA MutedKeeps ==
  ASSUME IInv, requests # <<>>, NEW m, m = Head(requests), Muted(m)
  PROVE  IInv'
<1> USE Parts
<1> DEFINE quiet == IF m.kind = "pause" THEN paused \union (m.mics \intersect open) ELSE paused \ m.mics
<1>1. /\ m.kind \in {"pause", "resume"} /\ requests' = Tail(requests) /\ AfterMute(m, quiet, told)
      /\ UNCHANGED <<membership, manager, handlers, routing, joined, asked, faults>>
  BY DEF Muted
<1>2. Answered
  BY <1>1 DEF Answered
<1>3. /\ requests \in Seq(Request) /\ requests' \in Seq(Request) /\ m \in Request
  BY <1>2, Tailed DEF IInv, RestOK, Answered
<1>4. m \in Mute /\ m.s \in Sessions /\ m.mics \subseteq Producer /\ \A p \in m.mics \union m.news : p.s = m.s
  <2>1. m \in Mute
    BY <1>1, <1>3, Kinds DEF Request
  <2> QED  BY <2>1 DEF Mute
<1>5. \A p \in m.news : p.r = m.r
  BY <1>4 DEF Mute
<1>6. m.mics \intersect open \subseteq producers
  BY <1>4, Kinds DEF IInv, Recorded, RestOK, MediaOK
<1>7. quiet \in SUBSET producers /\ Known(told)
  BY <1>6, ToldIsKnown DEF IInv, MediaOK
<1>8. \A p \in producers : /\ p \notin m.mics => (p \in quiet <=> p \in paused)
                           /\ p \in m.mics => (p \in quiet <=> m.kind = "pause")
  BY <1>1 DEF IInv, MediaOK
<1> HIDE DEF quiet
<1>9. /\ MediaOK' /\ HearsOnlyLive' /\ Thinned(quiet, told) /\ OpenButFor({}) /\ pending' \subseteq pending
      /\ m.next \in {"join", "move"} => \A t \in transports' : t.s = m.s => t.r = m.r
      /\ \A s \in Sessions : s # m.s /\ Direction(s) = "recv" /\ room[s] = m.r =>
           m.news \intersect producers' \subseteq told'[s]
  BY <1>1, <1>4, <1>7, AfterMuteThins DEF IInv
<1>10. RestOK'
  BY <1>1, <1>3, <1>9 DEF IInv, RestOK, membership, manager, handlers, routing
<1>11. Started'
  BY <1>1, StartedKept DEF IInv
<1>12. /\ channels' = channels /\ room' = room /\ muted' = muted /\ routers' = routers /\ creations' = creations
       /\ ready' = ready /\ asked' = asked /\ transports' \subseteq transports
       /\ \A p \in producers' : p \in producers /\ (p \in paused' <=> p \in quiet)
  BY <1>1, <1>9 DEF membership, routing, handlers, Thinned
<1>13. Routed'
  <2>1. Nothing.kind # "transport"
    BY DEF Nothing
  <2> QED  BY <1>2, <1>9, <1>12, <2>1, RoutedKept DEF IInv
<1>14. \A i \in DOMAIN requests : requests[i] = m \/ \E j \in DOMAIN requests' : requests'[j] = requests[i]
  BY <1>2, AnsweredKeeps DEF IInv
<1>15. Following'
  <2> SUFFICES ASSUME NEW t \in transports', t.r # room[t.s]
               PROVE  \E j \in DOMAIN requests' : /\ IsMute(requests'[j], t.s)
                                                  /\ requests'[j].next \in {"join", "move"} /\ requests'[j].r = room[t.s]
    BY <1>12 DEF Following
  <2>1. PICK i \in DOMAIN requests :
          IsMute(requests[i], t.s) /\ requests[i].next \in {"join", "move"} /\ requests[i].r = room[t.s]
    BY <1>12 DEF IInv, Following
  <2>2. requests[i] # m
    BY <1>9, <2>1 DEF IsMute
  <2> QED  BY <1>14, <2>1, <2>2
<1>16. Settling'
  <2> SUFFICES ASSUME NEW p \in producers'
               PROVE  Holds(requests', p, paused', muted')
    BY DEF Settling
  <2>1. Holds(requests, p, paused, muted)
    BY <1>12 DEF IInv, Settling
  <2>2. ~IsMute(Head(requests), p.s) => (p \in paused' <=> p \in paused)
    BY <1>1, <1>4, <1>8, <1>12 DEF IsMute
  <2>3. IsMute(Head(requests), p.s) /\ p \in Head(requests).mics => (p \in paused' <=> Head(requests).kind = "pause")
    BY <1>8, <1>12
  <2> QED  BY <1>1, <1>3, <1>12, <2>1, <2>2, <2>3, HoldsAfter
<1>17. Heeding'
  <2> SUFFICES ASSUME NEW s \in asked, NEW p \in producers', p.r = room[s], p.s # s, p \notin told'[s]
               PROVE  \E j \in DOMAIN requests' : IsMute(requests'[j], p.s) /\ p \in requests'[j].news
    BY <1>12 DEF Heeding, IInv
  <2>1. s \in Sessions /\ Direction(s) = "recv" /\ p \in producers /\ p \notin told[s]
    BY <1>9, <1>12 DEF IInv, Heeding, RestOK, Thinned
  <2>2. PICK i \in DOMAIN requests : IsMute(requests[i], p.s) /\ p \in requests[i].news
    BY <2>1 DEF IInv, Heeding
  <2>3. requests[i] # m
    BY <1>4, <1>5, <1>9, <2>1, <2>2
  <2> QED  BY <1>14, <2>2, <2>3
<1> QED  BY <1>9, <1>10, <1>11, <1>12, <1>13, <1>15, <1>16, <1>17 DEF IInv, Recorded, OpenButFor

-----------------------------------------------------------------------------
(* The end of a worker, the first state and the conclusion.                  *)

LEMMA WorkerDiesKeeps ==
  ASSUME IInv, ready = {}, WorkerDies
  PROVE  IInv'
<1> USE Parts
<1>1. /\ worker # 0 /\ faults < MaxFaults /\ faults' = faults + 1
      /\ generation' = generation + 1 /\ worker' = 0 /\ processes' = processes \ {worker}
      /\ UNCHANGED <<membership, startup, starting, handlers, asked>> /\ ForgetMedia
  BY DEF WorkerDies, Fault
<1>2. /\ routers' = {} /\ creations' = {}
      /\ transports' = {} /\ producers' = {} /\ consumers' = {} /\ open' = {} /\ paused' = {}
      /\ pending' = {} /\ joined' = {} /\ requests' = <<>>
      /\ told' = [s \in Sessions |-> {}] /\ lost' = {} /\ ready' = {}
  BY <1>1 DEF ForgetMedia, handlers
<1>3. generation \in Nat /\ faults \in Nat /\ MaxFaults \in Nat /\ generation <= faults + 1 /\ 0 \notin Generations
  BY SfuMediaAssumption DEF IInv, RestOK, Started, Generations
<1>4. generation' \in Generations /\ faults' \in 0..MaxFaults
  BY <1>1, <1>3 DEF Generations
<1>5. MediaOK' /\ RestOK'
  <2>1. requests' \in Seq(Request) /\ told' \in [Sessions -> SUBSET Producer]
    BY <1>2
  <2> QED  BY <1>1, <1>2, <1>4, <2>1 DEF IInv, MediaOK, RestOK, membership, handlers
<1>6. Started'
  <2>1. starting[generation'] = "no" /\ generation' > generation /\ startup = 0
    BY <1>1, <1>3, <1>4 DEF IInv, Started
  <2>2. startup' = 0 /\ starting' = starting /\ worker' = 0
    BY <1>1, <2>1
  <2>3. generation' <= faults' + 1 /\ \A g \in Generations : g > generation' => starting'[g] = "no"
    BY <1>1, <1>3, <2>2, SfuMediaAssumption DEF IInv, Started, Generations
  <2>4. processes' \subseteq {worker'} \union {g \in Generations : starting'[g] = "binding"}
    BY <1>1, <2>2 DEF IInv, Started
  <2> QED  BY <2>1, <2>2, <2>3, <2>4 DEF Started
<1>7. Routed' /\ Recorded' /\ Following' /\ Settling' /\ HearsOnlyLive'
  BY <1>2 DEF Routed, Recorded, Following, Settling, HearsOnlyLive
<1>8. Heeding'
  BY <1>1, <1>2 DEF IInv, Heeding
<1> QED  BY <1>5, <1>6, <1>7, <1>8 DEF IInv

LEMMA CloseSfuKeeps ==
  ASSUME IInv, ready = {}, CloseSfu
  PROVE  IInv'
<1> USE Parts
<1>1. /\ faults < MaxFaults /\ faults' = faults + 1
      /\ generation' = generation + 1 /\ startup' = 0 /\ worker' = 0 /\ processes' = processes \ {worker}
      /\ room' = [s \in Sessions |-> None] /\ muted' = {} /\ asked' = {}
      /\ UNCHANGED <<channels, starting, handlers>> /\ ForgetMedia
  BY DEF CloseSfu, Fault
<1>2. /\ routers' = {} /\ creations' = {}
      /\ transports' = {} /\ producers' = {} /\ consumers' = {} /\ open' = {} /\ paused' = {}
      /\ pending' = {} /\ joined' = {} /\ requests' = <<>>
      /\ told' = [s \in Sessions |-> {}] /\ lost' = {} /\ ready' = {}
  BY <1>1 DEF ForgetMedia, handlers
<1>3. generation \in Nat /\ faults \in Nat /\ MaxFaults \in Nat /\ generation <= faults + 1 /\ 0 \notin Generations
  BY SfuMediaAssumption DEF IInv, RestOK, Started, Generations
<1>4. generation' \in Generations /\ faults' \in 0..MaxFaults
  BY <1>1, <1>3 DEF Generations
<1>5. MediaOK' /\ RestOK'
  <2>1. requests' \in Seq(Request) /\ told' \in [Sessions -> SUBSET Producer]
    BY <1>2
  <2>2. room' \in [Sessions -> channels' \union {None}]
    BY <1>1
  <2> QED  BY <1>1, <1>2, <1>4, <2>1, <2>2 DEF IInv, MediaOK, RestOK, handlers
<1>6. Started'
  <2>1. starting[generation'] = "no" /\ starting' = starting
    BY <1>1, <1>3, <1>4 DEF IInv, Started
  <2>2. generation' <= faults' + 1 /\ \A g \in Generations : g > generation' => starting'[g] = "no"
    BY <1>1, <1>3, <2>1, SfuMediaAssumption DEF IInv, Started, Generations
  <2>3. processes' \subseteq {worker'} \union {g \in Generations : starting'[g] = "binding"}
    BY <1>1, <2>1 DEF IInv, Started
  <2> QED  BY <1>1, <2>1, <2>2, <2>3 DEF Started
<1>7. Routed' /\ Recorded' /\ Following' /\ Settling' /\ HearsOnlyLive' /\ Heeding'
  BY <1>1, <1>2 DEF Routed, Recorded, Following, Settling, HearsOnlyLive, Heeding
<1> QED  BY <1>5, <1>6, <1>7 DEF IInv

\* The invariant holds at first.
LEMMA InitIInv == Init => IInv
<1> SUFFICES ASSUME Init PROVE IInv
  OBVIOUS
<1> USE Parts
<1>1. 1 \in Generations /\ 0 \in 0..MaxFaults
  BY SfuMediaAssumption DEF Generations
<1>2. requests \in Seq(Request) /\ \A i \in DOMAIN requests : FALSE
  BY DEF Init
<1>3. MediaOK
  BY DEF Init, MediaOK
<1>4. RestOK
  BY <1>1, <1>2 DEF Init, RestOK
<1>5. Started
  BY <1>1 DEF Init, Started
<1>6. Routed /\ Recorded /\ Following /\ Settling /\ HearsOnlyLive /\ Heeding
  BY <1>2 DEF Init, Routed, Recorded, Following, Settling, HearsOnlyLive, Heeding
<1> QED  BY <1>3, <1>4, <1>5, <1>6 DEF IInv

\* Every step keeps it.
LEMMA NextIInv == IInv /\ [Next]_vars => IInv'
<1> SUFFICES ASSUME IInv, [Next]_vars PROVE IInv'
  OBVIOUS
<1>1. ASSUME NEW x \in ready, GoesOn(x) PROVE IInv'
  BY <1>1, RequestGoesOnKeeps, RouterGoesOnKeeps, TransportGoesOnKeeps DEF GoesOn
<1>2. ASSUME NEW s \in Sessions, Member(s) PROVE IInv'
  <2>1. ASSUME NEW r \in Rooms, Join(s, r) \/ Move(s, r) PROVE IInv'
    BY <2>1, EnterKeeps DEF Join, Move
  <2> QED  BY <1>2, <2>1, LeaveKeeps, SetMutedKeeps, ReplaceKeeps, RequestTransportKeeps, ProduceKeeps,
              ConsumeKeeps, GetProducersKeeps, CloseProducerKeeps DEF Member
<1>3. ASSUME NEW r \in Rooms, DeleteChannel(r) PROVE IInv'
  BY <1>3, DeleteChannelKeeps
<1>4. ASSUME NEW g \in Generations, Spawned(g) \/ Bound(g) \/ StartFails(g) PROVE IInv'
  BY <1>4, SpawnedKeeps, BoundKeeps, StartFailsKeeps
<1>5. ASSUME WorkerAnswers PROVE IInv'
  <2>1. requests # <<>> /\ \/ RouterCreated(Head(requests)) \/ TransportCreated(Head(requests)) \/ Produced(Head(requests))
                           \/ Consumed(Head(requests)) \/ Muted(Head(requests))
    BY <1>5 DEF WorkerAnswers
  <2> QED  BY <2>1, RouterCreatedKeeps, TransportCreatedKeeps, ProducedKeeps, ConsumedKeeps, MutedKeeps
<1>6. ASSUME NEW t \in transports, DtlsFails(t) PROVE IInv'
  BY <1>6, DtlsFailsKeeps
<1>7. ASSUME ready = {}, WorkerDies \/ CloseSfu PROVE IInv'
  BY <1>7, WorkerDiesKeeps, CloseSfuKeeps
<1>8. CASE UNCHANGED vars
  BY <1>8 DEF IInv, TypeOK, OneMicrophone, Routed, Recorded, Started, Following, Settling, Holds, HearsOnlyLive, Heeding,
              vars, membership, manager, handlers, routing, media, views
<1> QED  BY <1>1, <1>2, <1>3, <1>4, <1>5, <1>6, <1>7, <1>8 DEF Next

THEOREM Invariant == Spec => []IInv
BY InitIInv, NextIInv, PTL DEF Spec

\* The state always has its types, and its records hang together: every producer
\* and consumer is open and hangs from a transport on record, a consumer listens
\* to a producer on record, a transport carries one microphone at most.
THEOREM SfuTypes == Spec => []TypeOK
<1>1. IInv => TypeOK
  BY DEF IInv
<1> QED  BY <1>1, Invariant, PTL

\* Everyone in a room is on the one router on record for it, however many asked
\* while it was being created and however often the worker was replaced.
THEOREM OneRouterCorrect == Spec => []OneRouter
<1>1. IInv => OneRouter
  <2> SUFFICES ASSUME IInv, NEW t \in transports PROVE RoutersOf(t.r) = {t.router} /\ t.router \in open
    BY DEF OneRouter
  <2>1. t.router \in routers /\ t.router.r = t.r
    BY DEF IInv, Routed, TypeOK, Transport
  <2>2. \A x \in routers : x.r = t.r => x = t.router
    BY <2>1 DEF IInv, Routed
  <2> QED  BY <2>1, <2>2 DEF RoutersOf, IInv, Routed
<1> QED  BY <1>1, Invariant, PTL

\* Whatever the worker has open is on record, its routers for rooms that exist,
\* and the only worker processes are the one on record and those being started.
THEOREM NothingLeaksCorrect == Spec => []NothingLeaks
<1>1. IInv => NothingLeaks
  BY DEF IInv, Routed, Recorded, Started, NothingLeaks
<1> QED  BY <1>1, Invariant, PTL

\* A session has media only in the room it is in, unless its own join or move
\* into that room still waits for its microphones to be muted.
THEOREM MediaFollowsRoomCorrect == Spec => []MediaFollowsRoom
<1>1. IInv => MediaFollowsRoom
  <2> SUFFICES ASSUME IInv, NEW x \in transports \union producers \union consumers, x.r # room[x.s]
               PROVE  \E i \in DOMAIN requests : IsMute(requests[i], x.s) /\ requests[i].next \in {"join", "move"}
    BY DEF MediaFollowsRoom
  <2>1. \E t \in transports : t.s = x.s /\ t.r = x.r
    BY DEF IInv, TypeOK, Producer, Consumer
  <2> QED  BY <2>1 DEF IInv, Following
<1> QED  BY <1>1, Invariant, PTL

\* A microphone whose session has no mute left unanswered is paused exactly when
\* its person may not be heard.
THEOREM MutesSettleCorrect == Spec => []MutesSettle
<1>1. IInv => MutesSettle
  BY DEF IInv, TypeOK, Settling, Holds, MutesSettle
<1> QED  BY <1>1, Invariant, PTL

\* A client knows of no producer that is gone, except one that went with its
\* owner's failed transport.
THEOREM HearsOnlyLiveCorrect == Spec => []HearsOnlyLive
<1>1. IInv => HearsOnlyLive
  BY DEF IInv
<1> QED  BY <1>1, Invariant, PTL

\* When the worker has answered everything, whoever asked for the list of
\* producers knows every microphone of its room but its own.
THEOREM NobodyUnheardCorrect == Spec => []NobodyUnheard
<1>1. IInv => NobodyUnheard
  BY DEF IInv, Heeding, NobodyUnheard
<1> QED  BY <1>1, Invariant, PTL

=============================================================================
