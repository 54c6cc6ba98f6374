-------------------------- MODULE VoiceRoomsProofs --------------------------
(***************************************************************************)
(* Proofs about VoiceRooms: everyone has the rooms of their own presence   *)
(* in the list, peer-to-peer clients show exactly who is inside, and no    *)
(* move leaves a room behind.                                              *)
(*                                                                         *)
(* A handler is a chain of functions from one record of the state to the   *)
(* next, so the lemmas are about such records (World) and the functions;   *)
(* an action then only says which chain it is.                             *)
(***************************************************************************)
EXTENDS VoiceRooms, SequenceTheorems, TLAPS

View == [listed : SUBSET Rooms, key : SUBSET Rooms, shows : [Sessions -> Place]]
Orders == {o \in Seq(Sessions) : IsInjective(o)}
World == [may : [Users -> SUBSET Rooms], order : Orders,
          room : [Sessions -> Place], returns : [Sessions -> Place],
          moving : [Sessions -> Place], mic : [Sessions -> Place],
          views : [Sessions -> View]]

\* Every list was made for today's presence of its person and holds it.
Fresh(w) ==
  \A v \in Online(w) :
    /\ w.views[v].key = Presence(w, UserOf[v])
    /\ w.views[v].key \subseteq w.views[v].listed

\* The part of it that a change of presence leaves.
Kept(w) == \A v \in Online(w) : w.views[v].key \subseteq w.views[v].listed

\* A list is what the roles give and the presence it was made for.
Composed(w) ==
  \A v \in Online(w) : w.views[v].listed = w.may[UserOf[v]] \union w.views[v].key

\* Every client shows p where p is, if it lists the room.
ShownRight(w, p) ==
  \A v \in Online(w) :
    w.views[v].shows[p] = IF w.room[p] \in w.views[v].listed THEN w.room[p] ELSE None

\* No client shows p anywhere, if it does not list the room p is in.
HiddenRight(w, p) ==
  \A v \in Online(w) : w.room[p] \notin w.views[v].listed => w.views[v].shows[p] = None

\* Whoever has p's person lists the room p is in.
OwnListed(w, p) ==
  \A v \in Online(w) :
    UserOf[v] = UserOf[p] /\ w.room[p] # None => w.room[p] \in w.views[v].listed

\* d is w but for what is shown and for the microphones.
SameLists(w, d) ==
  /\ d.may = w.may /\ d.order = w.order /\ d.room = w.room
  /\ d.returns = w.returns /\ d.moving = w.moving
  /\ \A v \in Sessions : d.views[v].listed = w.views[v].listed /\ d.views[v].key = w.views[v].key

-----------------------------------------------------------------------------
(* The order of the sessions. *)

\* An entry of the Map is deleted: exactly that session is gone, and each of
\* the others is still there once.
LEMMA WithoutProperties ==
  ASSUME NEW o \in Orders, NEW s \in Sessions
  PROVE  /\ Without(o, s) \in Orders
         /\ ToSet(Without(o, s)) = ToSet(o) \ {s}
<1>0. o \in Seq(Sessions) /\ IsInjective(o) /\ Len(o) \in Nat /\ DOMAIN o = 1..Len(o)
  BY LenProperties DEF Orders
<1>1. CASE s \notin ToSet(o)
  BY <1>1 DEF Without
<1>2. CASE s \in ToSet(o)
  <2> DEFINE i == CHOOSE j \in DOMAIN o : o[j] = s
             a == SubSeq(o, 1, i-1)
             b == SubSeq(o, i+1, Len(o))
  <2>1. i \in 1..Len(o) /\ o[i] = s
    BY <1>0, <1>2 DEF ToSet
  <2>2. Without(o, s) = a \o b
    BY <1>2 DEF Without, RemoveAt
  <2> HIDE DEF i
  <2>3. /\ a \in Seq(Sessions) /\ Len(a) = i-1
        /\ \A j \in 1..(i-1) : a[j] = o[j]
    <3>1. \A j \in 1..(i-1) : o[j] \in Sessions
      BY <2>1, <1>0, ElementOfSeq
    <3>2. i-1 \in Int /\ i \in Int BY <2>1
    <3>3. /\ a \in Seq(Sessions)
          /\ Len(a) = IF 1 <= i-1 THEN i-1-1+1 ELSE 0
          /\ \A j \in 1..(i-1)-1+1 : a[j] = o[1+j-1]
      BY <3>1, <3>2, SubSeqProperties
    <3>4. (IF 1 <= i-1 THEN i-1-1+1 ELSE 0) = i-1 /\ (i-1)-1+1 = i-1 BY <2>1
    <3>5. \A j \in 1..(i-1) : 1+j-1 = j OBVIOUS
    <3> QED BY <3>3, <3>4, <3>5
  <2>4. /\ b \in Seq(Sessions) /\ Len(b) = Len(o) - i
        /\ \A j \in 1..(Len(o) - i) : b[j] = o[i + j]
    <3>1. \A j \in (i+1)..Len(o) : o[j] \in Sessions
      BY <2>1, <1>0, ElementOfSeq
    <3>2. i+1 \in Int /\ Len(o) \in Int BY <2>1, <1>0
    <3>3. /\ b \in Seq(Sessions)
          /\ Len(b) = IF i+1 <= Len(o) THEN Len(o)-(i+1)+1 ELSE 0
          /\ \A j \in 1..Len(o)-(i+1)+1 : b[j] = o[(i+1)+j-1]
      BY <3>1, <3>2, SubSeqProperties
    <3>4. /\ (IF i+1 <= Len(o) THEN Len(o)-(i+1)+1 ELSE 0) = Len(o) - i
          /\ Len(o)-(i+1)+1 = Len(o) - i
      <4>1. i \in Int /\ Len(o) \in Int /\ i <= Len(o) BY <2>1, <1>0
      <4>2. Len(o)-(i+1)+1 = Len(o) - i BY <4>1
      <4>3. CASE i+1 <= Len(o) BY <4>2, <4>3
      <4>4. CASE ~(i+1 <= Len(o))
        <5>1. Len(o) - i = 0 BY <4>1, <4>4
        <5> QED BY <5>1, <4>2, <4>4
      <4> QED BY <4>3, <4>4
    <3>5. ASSUME NEW j \in 1..(Len(o) - i) PROVE b[j] = o[i+j]
      <4>1. j \in 1..Len(o)-(i+1)+1 BY <3>4
      <4>2. b[j] = o[(i+1)+j-1] BY <4>1, <3>3
      <4>3. (i+1)+j-1 = i+j BY <2>1
      <4> QED BY <4>2, <4>3
    <3> QED BY <3>3, <3>4, <3>5
  <2> DEFINE c == a \o b
  <2> HIDE DEF a, b
  <2>5. /\ c \in Seq(Sessions) /\ Len(c) = Len(a) + Len(b)
        /\ \A j \in 1..Len(a)+Len(b) : c[j] = IF j <= Len(a) THEN a[j] ELSE b[j - Len(a)]
    BY <2>3, <2>4, ConcatProperties
  <2> HIDE DEF c
  <2>6. DOMAIN c = 1..(Len(o) - 1)
    <3>1. Len(c) = Len(o) - 1 BY <2>5, <2>3, <2>4, <2>1, <1>0
    <3> QED BY <3>1, <2>5, LenProperties
  <2>7. \A j \in 1..(Len(o) - 1) : c[j] = IF j < i THEN o[j] ELSE o[j+1]
    <3> TAKE j \in 1..(Len(o) - 1)
    <3>0. /\ Len(a) = i-1 /\ j \in 1..(Len(a) + Len(b))
          /\ j \in Nat /\ i \in Nat
          /\ c[j] = IF j <= Len(a) THEN a[j] ELSE b[j - Len(a)]
      <4>1. Len(a) + Len(b) = Len(o) - 1 BY <2>3, <2>4, <2>1, <1>0
      <4> QED BY <4>1, <2>5, <2>3, <2>1
    <3>1. CASE j < i
      <4>1. j <= Len(a) /\ j \in 1..(i-1) BY <3>1, <3>0
      <4>2. c[j] = a[j] BY <4>1, <3>0
      <4> QED BY <4>1, <4>2, <2>3, <3>1
    <3>2. CASE ~(j < i)
      <4>1. c[j] = b[j - (i-1)]
        <5>1. ~(j <= Len(a)) BY <3>2, <3>0
        <5> QED BY <5>1, <3>0
      <4>2. j - (i-1) \in 1..(Len(o) - i) /\ i + (j - (i-1)) = j + 1
        BY <3>2, <2>1, <1>0
      <4> QED BY <4>1, <4>2, <2>4, <3>2
    <3> QED BY <3>1, <3>2
  <2>8. IsInjective(c)
    <3> SUFFICES ASSUME NEW x \in DOMAIN c, NEW y \in DOMAIN c, c[x] = c[y] PROVE x = y
      BY DEF IsInjective
    <3>1. x \in 1..(Len(o) - 1) /\ y \in 1..(Len(o) - 1) BY <2>6
    <3> DEFINE at(z) == IF z < i THEN z ELSE z+1
    <3>2. /\ at(x) \in DOMAIN o /\ at(y) \in DOMAIN o
          /\ c[x] = o[at(x)] /\ c[y] = o[at(y)]
      BY <3>1, <2>7, <1>0, <2>1
    <3>3. at(x) = at(y) BY <3>2, <1>0 DEF IsInjective
    <3> QED BY <3>3, <3>1, <2>1
  <2>9. ToSet(c) = ToSet(o) \ {s}
    <3>1. ASSUME NEW x \in ToSet(c) PROVE x \in ToSet(o) /\ x # s
      <4>1. PICK j \in 1..(Len(o) - 1) : x = c[j] BY <2>6 DEF ToSet
      <4> DEFINE k == IF j < i THEN j ELSE j+1
      <4>2. k \in DOMAIN o /\ x = o[k] /\ k # i BY <4>1, <2>7, <1>0, <2>1
      <4> QED BY <4>2, <1>0, <2>1 DEF ToSet, IsInjective
    <3>2. ASSUME NEW x \in ToSet(o), x # s PROVE x \in ToSet(c)
      <4>1. PICK k \in 1..Len(o) : x = o[k] BY <1>0 DEF ToSet
      <4>2. k # i BY <4>1, <2>1, <3>2
      <4> DEFINE j == IF k < i THEN k ELSE k-1
      <4>3. j \in DOMAIN c /\ c[j] = o[k] BY <4>1, <4>2, <2>6, <2>7, <1>0, <2>1
      <4> QED BY <4>3, <4>1 DEF ToSet
    <3> QED BY <3>1, <3>2
  <2> QED BY <2>2, <2>5, <2>8, <2>9 DEF Orders, c
<1> QED BY <1>1, <1>2

\* A session that is not there is set in the Map: it comes last.
LEMMA AppendNew ==
  ASSUME NEW o \in Orders, NEW s \in Sessions, s \notin ToSet(o)
  PROVE  Append(o, s) \in Orders /\ ToSet(Append(o, s)) = ToSet(o) \union {s}
<1> DEFINE a == Append(o, s)
<1>0. o \in Seq(Sessions) /\ IsInjective(o) /\ Len(o) \in Nat /\ DOMAIN o = 1..Len(o)
  BY LenProperties DEF Orders
<1>1. /\ a \in Seq(Sessions) /\ Len(a) = Len(o) + 1
      /\ \A j \in 1..Len(o) : a[j] = o[j]
      /\ a[Len(o)+1] = s
  BY <1>0, AppendProperties
<1> HIDE DEF a
<1>2. DOMAIN a = 1..(Len(o) + 1)
  BY <1>1, LenProperties
<1>3. \A j \in 1..Len(o) : o[j] # s
  BY <1>0 DEF ToSet
<1>4. IsInjective(a)
  BY <1>0, <1>1, <1>2, <1>3 DEF IsInjective
<1>5. ToSet(a) = ToSet(o) \union {s}
  <2>1. ASSUME NEW x \in ToSet(a) PROVE x \in ToSet(o) \union {s}
    <3>1. PICK j \in 1..(Len(o)+1) : x = a[j] BY <1>2 DEF ToSet
    <3> QED BY <3>1, <1>0, <1>1 DEF ToSet
  <2>2. ASSUME NEW x \in ToSet(o) PROVE x \in ToSet(a)
    <3>1. PICK j \in 1..Len(o) : x = o[j] BY <1>0 DEF ToSet
    <3>2. j \in DOMAIN a /\ a[j] = x BY <3>1, <1>0, <1>1, <1>2
    <3> QED BY <3>2 DEF ToSet
  <2>3. s \in ToSet(a) BY <1>0, <1>1, <1>2 DEF ToSet
  <2> QED BY <2>1, <2>2, <2>3
<1> QED BY <1>1, <1>4, <1>5 DEF Orders, a

\* Who is online is a session.
LEMMA OnlineType ==
  ASSUME NEW w \in World
  PROVE  Online(w) \subseteq Sessions
BY LenProperties, ElementOfSeq DEF World, Orders, Online, ToSet
-----------------------------------------------------------------------------
(* Presence. *)

\* Presence is made of rooms.
LEMMA PresenceType ==
  ASSUME NEW w \in World, NEW u \in Users
  PROVE  Presence(w, u) \subseteq Rooms
<1>1. w.room \in [Sessions -> Place] /\ w.returns \in [Sessions -> Place] /\ w.moving \in [Sessions -> Place]
  BY DEF World
<1>2. ASSUME NEW x \in Presence(w, u) PROVE x \in Rooms
  <2> DEFINE S == {s \in Sessions : UserOf[s] = u}
  <2>2. x # None /\ x \in UNION {{w.room[s], w.returns[s], w.moving[s]} : s \in S}
    BY Zenon DEF Presence
  <2>3. PICK T \in {{w.room[s], w.returns[s], w.moving[s]} : s \in S} : x \in T
    BY <2>2
  <2>4. PICK s \in S : T = {w.room[s], w.returns[s], w.moving[s]}
    BY <2>3
  <2>1. x # None /\ \E p \in Sessions : x \in {w.room[p], w.returns[p], w.moving[p]}
    BY <2>2, <2>3, <2>4
  <2> QED BY <2>1, <1>1 DEF Place
<1> QED BY <1>2

\* The room a session is in is among them.
LEMMA PresenceHasRoom ==
  ASSUME NEW w, NEW s \in Sessions, w.room[s] # None
  PROVE  w.room[s] \in Presence(w, UserOf[s])
<1> DEFINE S == {x \in Sessions : UserOf[x] = UserOf[s]}
<1>1. s \in S OBVIOUS
<1>2. {w.room[s], w.returns[s], w.moving[s]} \in {{w.room[x], w.returns[x], w.moving[x]} : x \in S}
  BY <1>1
<1>3. w.room[s] \in UNION {{w.room[x], w.returns[x], w.moving[x]} : x \in S}
  BY <1>2
<1> QED BY <1>3, Zenon DEF Presence

\* Presence depends on rooms, returns and moves alone.
LEMMA PresenceSame ==
  ASSUME NEW w, NEW d, d.room = w.room, d.returns = w.returns, d.moving = w.moving, NEW u
  PROVE  Presence(d, u) = Presence(w, u)
BY DEF Presence

\* What happens to one session changes the presence of its person only.
LEMMA PresenceOfOthers ==
  ASSUME NEW w, NEW d, NEW s \in Sessions, NEW u, u # UserOf[s],
         \A p \in Sessions \ {s} :
           d.room[p] = w.room[p] /\ d.returns[p] = w.returns[p] /\ d.moving[p] = w.moving[p]
  PROVE  Presence(d, u) = Presence(w, u)
<1> DEFINE S == {x \in Sessions : UserOf[x] = u}
<1>1. \A x \in S : {d.room[x], d.returns[x], d.moving[x]} = {w.room[x], w.returns[x], w.moving[x]}
  OBVIOUS
<1>2. {{d.room[x], d.returns[x], d.moving[x]} : x \in S} = {{w.room[x], w.returns[x], w.moving[x]} : x \in S}
  BY <1>1
<1> QED BY <1>2 DEF Presence

\* What only shows people elsewhere keeps the lists as they were made.
LEMMA SameListsFresh ==
  ASSUME NEW w \in World, NEW d, SameLists(w, d), Fresh(w)
  PROVE  Fresh(d)
<1>1. \A u : Presence(d, u) = Presence(w, u) BY PresenceSame DEF SameLists
<1>2. Online(d) = Online(w) /\ Online(w) \subseteq Sessions BY OnlineType DEF SameLists, Online
<1> QED BY <1>1, <1>2 DEF Fresh, SameLists

\* The same for lists that a change of presence left behind.
LEMMA SameListsKept ==
  ASSUME NEW w \in World, NEW d, SameLists(w, d)
  PROVE  /\ Kept(w) => Kept(d)
         /\ Composed(w) => Composed(d)
<1>1. Online(d) = Online(w) /\ Online(w) \subseteq Sessions BY OnlineType DEF SameLists, Online
<1> QED BY <1>1 DEF Kept, Composed, SameLists

-----------------------------------------------------------------------------
(* What the announcements and the answer to a join change. *)

\* A view that shows others elsewhere keeps its list.
LEMMA ViewFields ==
  ASSUME NEW d \in View, NEW f \in [Sessions -> Place]
  PROVE  LET e == [d EXCEPT !.shows = f]
         IN e \in View /\ e.listed = d.listed /\ e.key = d.key /\ e.shows = f
BY DEF View

\* A view that shows one session elsewhere keeps the rest.
LEMMA ViewShows ==
  ASSUME NEW d \in View, NEW p \in Sessions, NEW r \in Place
  PROVE  LET e == [d EXCEPT !.shows[p] = r]
         IN /\ e \in View /\ e.listed = d.listed /\ e.key = d.key
            /\ e.shows[p] = r
            /\ \A q \in Sessions \ {p} : e.shows[q] = d.shows[q]
BY DEF View

\* A change of the views leaves everything else.
LEMMA WorldViews ==
  ASSUME NEW w \in World, NEW f \in [Sessions -> View]
  PROVE  LET d == [w EXCEPT !.views = f]
         IN /\ d \in World /\ d.views = f
            /\ d.may = w.may /\ d.order = w.order /\ d.room = w.room
            /\ d.returns = w.returns /\ d.moving = w.moving /\ d.mic = w.mic
BY DEF World

\* A departure is told to whoever lists the room or is the same person.
LEMMA DepartureFields ==
  ASSUME NEW w \in World, NEW p \in Sessions, NEW r \in Place
  PROVE  LET d == AnnounceDeparture(w, p, r)
         IN /\ d \in World /\ SameLists(w, d) /\ d.mic = w.mic
            /\ \A v \in Sessions :
                 /\ \A q \in Sessions \ {p} : d.views[v].shows[q] = w.views[v].shows[q]
                 /\ d.views[v].shows[p] =
                      IF v \in Online(w) /\ (UserOf[v] = UserOf[p] \/ r \in w.views[v].listed)
                      THEN None ELSE w.views[v].shows[p]
<1> DEFINE Told(v) == v \in Online(w) /\ (UserOf[v] = UserOf[p] \/ r \in w.views[v].listed)
           f == [v \in Sessions |-> IF Told(v) THEN [w.views[v] EXCEPT !.shows[p] = None] ELSE w.views[v]]
<1>0. \A v \in Sessions : w.views[v] \in View
  BY DEF World
<1>1. None \in Place BY DEF Place
<1>2. AnnounceDeparture(w, p, r) = [w EXCEPT !.views = f]
  BY DEF AnnounceDeparture, World
<1>3. \A v \in Sessions :
        /\ f[v] \in View /\ f[v].listed = w.views[v].listed /\ f[v].key = w.views[v].key
        /\ \A q \in Sessions \ {p} : f[v].shows[q] = w.views[v].shows[q]
        /\ f[v].shows[p] = IF Told(v) THEN None ELSE w.views[v].shows[p]
  <2> TAKE v \in Sessions
  <2>1. CASE Told(v)
    <3>1. f[v] = [w.views[v] EXCEPT !.shows[p] = None] BY <2>1
    <3> HIDE DEF f, Told
    <3> QED BY <3>1, <2>1, <1>0, <1>1, ViewShows
  <2>2. CASE ~Told(v) BY <2>2, <1>0
  <2> QED BY <2>1, <2>2
<1>4. f \in [Sessions -> View] BY <1>3
<1> HIDE DEF f
<1> QED BY <1>2, <1>3, <1>4, WorldViews DEF SameLists

\* An arrival is told to whoever may see the room.
LEMMA ArrivalFields ==
  ASSUME NEW w \in World, NEW p \in Sessions, NEW r \in Place
  PROVE  LET d == AnnounceArrival(w, p, r)
         IN /\ d \in World /\ SameLists(w, d) /\ d.mic = w.mic
            /\ \A v \in Sessions :
                 /\ \A q \in Sessions \ {p} : d.views[v].shows[q] = w.views[v].shows[q]
                 /\ d.views[v].shows[p] =
                      IF v \in Online(w) /\ r \in Visible(w, UserOf[v])
                      THEN r ELSE w.views[v].shows[p]
<1> DEFINE Told(v) == v \in Online(w) /\ r \in Visible(w, UserOf[v])
           f == [v \in Sessions |-> IF Told(v) THEN [w.views[v] EXCEPT !.shows[p] = r] ELSE w.views[v]]
<1>0. \A v \in Sessions : w.views[v] \in View
  BY DEF World
<1>2. AnnounceArrival(w, p, r) = [w EXCEPT !.views = f]
  BY DEF AnnounceArrival, World
<1>3. \A v \in Sessions :
        /\ f[v] \in View /\ f[v].listed = w.views[v].listed /\ f[v].key = w.views[v].key
        /\ \A q \in Sessions \ {p} : f[v].shows[q] = w.views[v].shows[q]
        /\ f[v].shows[p] = IF Told(v) THEN r ELSE w.views[v].shows[p]
  <2> TAKE v \in Sessions
  <2>1. CASE Told(v)
    <3>1. f[v] = [w.views[v] EXCEPT !.shows[p] = r] BY <2>1
    <3> HIDE DEF f, Told
    <3> QED BY <3>1, <2>1, <1>0, ViewShows
  <2>2. CASE ~Told(v) BY <2>2, <1>0
  <2> QED BY <2>1, <2>2
<1>4. f \in [Sessions -> View] BY <1>3
<1> HIDE DEF f
<1> QED BY <1>2, <1>3, <1>4, WorldViews DEF SameLists

\* The answer to a join carries who is in the room.
LEMMA AnswerFields ==
  ASSUME NEW w \in World, NEW s \in Sessions, NEW r \in Rooms
  PROVE  LET d == AnswerJoin(w, s, r)
         IN /\ d \in World /\ SameLists(w, d) /\ d.mic = w.mic
            /\ \A v \in Sessions, q \in Sessions :
                 d.views[v].shows[q] =
                   IF v # s THEN w.views[v].shows[q]
                   ELSE IF w.room[q] = r THEN r
                   ELSE IF w.views[v].shows[q] = r THEN None ELSE w.views[v].shows[q]
<1> DEFINE g == [q \in Sessions |->
                  IF w.room[q] = r THEN r
                  ELSE IF w.views[s].shows[q] = r THEN None ELSE w.views[s].shows[q]]
           f == [w.views EXCEPT ![s] = [w.views[s] EXCEPT !.shows = g]]
<1>0. \A v \in Sessions : w.views[v] \in View
  BY DEF World
<1>1. r \in Place /\ None \in Place BY DEF Place
<1>2. AnswerJoin(w, s, r) = [w EXCEPT !.views = f]
  BY DEF AnswerJoin, World
<1>3. g \in [Sessions -> Place]
  BY <1>0, <1>1 DEF View
<1>4. \A v \in Sessions :
        /\ f[v] \in View /\ f[v].listed = w.views[v].listed /\ f[v].key = w.views[v].key
        /\ f[v].shows = IF v = s THEN g ELSE w.views[v].shows
  <2> HIDE DEF g
  <2>1. w.views \in [Sessions -> View] BY DEF World
  <2> QED BY <2>1, <1>0, <1>3, ViewFields
<1>5. f \in [Sessions -> View] BY <1>4 DEF World
<1> DEFINE d == AnswerJoin(w, s, r)
<1>6. /\ d \in World /\ d.views = f /\ d.may = w.may /\ d.order = w.order
      /\ d.room = w.room /\ d.returns = w.returns /\ d.moving = w.moving /\ d.mic = w.mic
  <2> HIDE DEF f
  <2> QED BY <1>2, <1>5, WorldViews
<1>7. \A v \in Sessions, q \in Sessions :
        f[v].shows[q] = IF v # s THEN w.views[v].shows[q]
                        ELSE IF w.room[q] = r THEN r
                        ELSE IF w.views[v].shows[q] = r THEN None ELSE w.views[v].shows[q]
  <2> TAKE v \in Sessions, q \in Sessions
  <2> HIDE DEF f
  <2>1. CASE v = s BY <2>1, <1>4
  <2>2. CASE v # s
    <3> HIDE DEF g
    <3> QED BY <2>2, <1>4
  <2> QED BY <2>1, <2>2
<1> HIDE DEF f, g, d
<1> QED BY <1>4, <1>6, <1>7 DEF SameLists, d
-----------------------------------------------------------------------------
(* What sending a list changes. *)

\* A delta takes away who is in rooms withdrawn, and brings who is in rooms new.
LEMMA SendFields ==
  ASSUME NEW w \in World, NEW d \in View, NEW u \in Users, NEW now \in SUBSET Rooms
  PROVE  LET e == SendChannels(w, d, u, now)
         IN /\ e \in View /\ e.listed = now /\ e.key = Presence(w, u)
            /\ \A q \in Sessions :
                 e.shows[q] = IF UserOf[q] = u THEN d.shows[q]
                              ELSE IF w.room[q] \in now \ d.listed THEN w.room[q]
                              ELSE IF w.room[q] \in d.listed \ now THEN None
                              ELSE d.shows[q]
<1> DEFINE g == [q \in Sessions |->
                  IF UserOf[q] = u THEN d.shows[q]
                  ELSE IF w.room[q] \in now \ d.listed THEN w.room[q]
                  ELSE IF w.room[q] \in d.listed \ now THEN None
                  ELSE d.shows[q]]
<1>1. w.room \in [Sessions -> Place] /\ d.shows \in [Sessions -> Place] /\ None \in Place
  BY DEF World, View, Place
<1>2. g \in [Sessions -> Place] BY <1>1
<1>3. Presence(w, u) \in SUBSET Rooms BY PresenceType
<1>4. SendChannels(w, d, u, now) = [listed |-> now, key |-> Presence(w, u), shows |-> g]
  BY DEF SendChannels
<1>5. \A q \in Sessions :
        g[q] = IF UserOf[q] = u THEN d.shows[q]
               ELSE IF w.room[q] \in now \ d.listed THEN w.room[q]
               ELSE IF w.room[q] \in d.listed \ now THEN None
               ELSE d.shows[q]
  OBVIOUS
<1> HIDE DEF g
<1> QED BY <1>2, <1>3, <1>4, <1>5 DEF View

\* Rooms that come with those inside and go without them leave a right picture
\* right, if the person's own rooms were listed; and they leave nobody in a
\* room that is not listed.
LEMMA SendRight ==
  ASSUME NEW w \in World, NEW d \in View, NEW u \in Users, NEW now \in SUBSET Rooms,
         Presence(w, u) \subseteq now, NEW p \in Sessions
  PROVE  LET e == SendChannels(w, d, u, now)
         IN /\ /\ d.shows[p] = IF w.room[p] \in d.listed THEN w.room[p] ELSE None
               /\ UserOf[p] = u /\ w.room[p] # None => w.room[p] \in d.listed
               => e.shows[p] = IF w.room[p] \in now THEN w.room[p] ELSE None
            /\ (w.room[p] \notin d.listed => d.shows[p] = None)
               => (w.room[p] \notin now => e.shows[p] = None)
<1> DEFINE e == SendChannels(w, d, u, now)
<1>1. e.shows[p] = IF UserOf[p] = u THEN d.shows[p]
                   ELSE IF w.room[p] \in now \ d.listed THEN w.room[p]
                   ELSE IF w.room[p] \in d.listed \ now THEN None
                   ELSE d.shows[p]
  BY SendFields
<1>2. UserOf[p] = u /\ w.room[p] # None => w.room[p] \in now
  BY PresenceHasRoom
<1>3. None \notin d.listed /\ None \notin now
  BY VoiceRoomsAssumption DEF View
<1> HIDE DEF e
<1> QED BY <1>1, <1>2, <1>3 DEF e

\* A session is somebody's.
LEMMA UserType ==
  ASSUME NEW s \in Sessions
  PROVE  UserOf[s] \in Users
BY VoiceRoomsAssumption

\* What one may see is made of rooms.
LEMMA VisibleType ==
  ASSUME NEW w \in World, NEW u \in Users
  PROVE  Visible(w, u) \in SUBSET Rooms
BY PresenceType DEF Visible, World

\* The presence pass sends a delta where the presence differs from the last list's.
LEMMA SyncFields ==
  ASSUME NEW w \in World
  PROVE  LET d == SyncPresence(w)
         IN /\ d \in World
            /\ d.may = w.may /\ d.order = w.order /\ d.room = w.room
            /\ d.returns = w.returns /\ d.moving = w.moving /\ d.mic = w.mic
            /\ \A v \in Sessions :
                 d.views[v] = IF v \in Online(w) /\ w.views[v].key # Presence(w, UserOf[v])
                              THEN SendChannels(w, w.views[v], UserOf[v], Visible(w, UserOf[v]))
                              ELSE w.views[v]
<1> DEFINE f == [v \in Sessions |->
                  IF v \in Online(w) /\ w.views[v].key # Presence(w, UserOf[v])
                  THEN SendChannels(w, w.views[v], UserOf[v], Visible(w, UserOf[v]))
                  ELSE w.views[v]]
<1>1. SyncPresence(w) = [w EXCEPT !.views = f]
  BY DEF SyncPresence, World
<1>2. \A v \in Sessions : w.views[v] \in View
  BY DEF World
<1>3. \A v \in Sessions : SendChannels(w, w.views[v], UserOf[v], Visible(w, UserOf[v])) \in View
  BY <1>2, SendFields, UserType, VisibleType
<1>4. f \in [Sessions -> View] BY <1>2, <1>3
<1>5. \A v \in Sessions :
        f[v] = IF v \in Online(w) /\ w.views[v].key # Presence(w, UserOf[v])
               THEN SendChannels(w, w.views[v], UserOf[v], Visible(w, UserOf[v]))
               ELSE w.views[v]
  OBVIOUS
<1> HIDE DEF f
<1> QED BY <1>1, <1>4, <1>5, WorldViews

\* A presence pass makes every list fresh, ...
LEMMA SyncFresh ==
  ASSUME NEW w \in World, Kept(w)
  PROVE  Fresh(SyncPresence(w))
<1> DEFINE d == SyncPresence(w)
<1> SUFFICES ASSUME NEW v \in Online(d)
             PROVE  /\ d.views[v].key = Presence(d, UserOf[v])
                    /\ d.views[v].key \subseteq d.views[v].listed
  BY DEF Fresh
<1>1. v \in Online(w) /\ v \in Sessions /\ w.views[v] \in View
  BY SyncFields, OnlineType DEF Online, World
<1>2. Presence(d, UserOf[v]) = Presence(w, UserOf[v])
  BY SyncFields, PresenceSame
<1>3. CASE w.views[v].key # Presence(w, UserOf[v])
  <2>1. d.views[v] = SendChannels(w, w.views[v], UserOf[v], Visible(w, UserOf[v]))
    BY <1>1, <1>3, SyncFields
  <2>2. d.views[v].key = Presence(w, UserOf[v]) /\ d.views[v].listed = Visible(w, UserOf[v])
    BY <2>1, <1>1, SendFields, UserType, VisibleType
  <2> QED BY <2>2, <1>2 DEF Visible
<1>4. CASE w.views[v].key = Presence(w, UserOf[v])
  <2>1. d.views[v] = w.views[v] BY <1>1, <1>4, SyncFields
  <2> QED BY <2>1, <1>1, <1>2, <1>4 DEF Kept
<1> QED BY <1>3, <1>4

\* ... leaves alone those that were, ...
LEMMA SyncLeaves ==
  ASSUME NEW w \in World, NEW v \in Sessions, w.views[v].key = Presence(w, UserOf[v])
  PROVE  SyncPresence(w).views[v] = w.views[v]
BY SyncFields

\* ... and keeps lists that roles and presence make up.
LEMMA SyncComposed ==
  ASSUME NEW w \in World, Composed(w)
  PROVE  Composed(SyncPresence(w))
<1> DEFINE d == SyncPresence(w)
<1> SUFFICES ASSUME NEW v \in Online(d)
             PROVE  d.views[v].listed = d.may[UserOf[v]] \union d.views[v].key
  BY DEF Composed
<1>1. v \in Online(w) /\ v \in Sessions /\ w.views[v] \in View /\ d.may = w.may
  BY SyncFields, OnlineType DEF Online, World
<1>3. CASE w.views[v].key # Presence(w, UserOf[v])
  <2>1. d.views[v] = SendChannels(w, w.views[v], UserOf[v], Visible(w, UserOf[v]))
    BY <1>1, <1>3, SyncFields
  <2>2. d.views[v].key = Presence(w, UserOf[v]) /\ d.views[v].listed = Visible(w, UserOf[v])
    BY <2>1, <1>1, SendFields, UserType, VisibleType
  <2> QED BY <2>2, <1>1 DEF Visible
<1>4. CASE w.views[v].key = Presence(w, UserOf[v])
  <2>1. d.views[v] = w.views[v] BY <1>1, <1>4, SyncFields
  <2> QED BY <2>1, <1>1 DEF Composed
<1> QED BY <1>3, <1>4

\* What it does to the picture of one session.
LEMMA SyncRight ==
  ASSUME NEW w \in World, NEW p \in Sessions
  PROVE  /\ ShownRight(w, p) /\ OwnListed(w, p) => ShownRight(SyncPresence(w), p)
         /\ HiddenRight(w, p) => HiddenRight(SyncPresence(w), p)
<1> DEFINE d == SyncPresence(w)
<1>0. Online(d) = Online(w) /\ Online(w) \subseteq Sessions /\ d.room = w.room
  BY SyncFields, OnlineType DEF Online
<1>1. ASSUME NEW v \in Online(w), w.views[v].key # Presence(w, UserOf[v])
      PROVE  /\ /\ w.views[v].shows[p] = IF w.room[p] \in w.views[v].listed THEN w.room[p] ELSE None
                /\ UserOf[p] = UserOf[v] /\ w.room[p] # None => w.room[p] \in w.views[v].listed
                => d.views[v].shows[p] = IF w.room[p] \in d.views[v].listed THEN w.room[p] ELSE None
             /\ (w.room[p] \notin w.views[v].listed => w.views[v].shows[p] = None)
                => (w.room[p] \notin d.views[v].listed => d.views[v].shows[p] = None)
  <2>1. v \in Sessions /\ w.views[v] \in View /\ UserOf[v] \in Users
    BY <1>0, UserType DEF World
  <2>2. d.views[v] = SendChannels(w, w.views[v], UserOf[v], Visible(w, UserOf[v]))
    BY <2>1, <1>1, SyncFields
  <2>3. d.views[v].listed = Visible(w, UserOf[v])
    BY <2>1, <2>2, SendFields, VisibleType
  <2>4. Presence(w, UserOf[v]) \subseteq Visible(w, UserOf[v]) BY DEF Visible
  <2> HIDE DEF d
  <2> QED BY <2>1, <2>2, <2>3, <2>4, SendRight, VisibleType
<1>2. ASSUME NEW v \in Online(w), w.views[v].key = Presence(w, UserOf[v])
      PROVE  d.views[v] = w.views[v]
  BY <1>0, <1>2, SyncLeaves
<1> HIDE DEF d
<1>3. ASSUME ShownRight(w, p), OwnListed(w, p) PROVE ShownRight(d, p)
  <2> SUFFICES ASSUME NEW v \in Online(w)
               PROVE  d.views[v].shows[p] = IF d.room[p] \in d.views[v].listed THEN d.room[p] ELSE None
    BY <1>0 DEF ShownRight
  <2>1. CASE w.views[v].key # Presence(w, UserOf[v])
    BY <2>1, <1>0, <1>1, <1>3 DEF ShownRight, OwnListed
  <2>2. CASE w.views[v].key = Presence(w, UserOf[v])
    BY <2>2, <1>0, <1>2, <1>3 DEF ShownRight
  <2> QED BY <2>1, <2>2
<1>4. ASSUME HiddenRight(w, p) PROVE HiddenRight(d, p)
  <2> SUFFICES ASSUME NEW v \in Online(w), d.room[p] \notin d.views[v].listed
               PROVE  d.views[v].shows[p] = None
    BY <1>0 DEF HiddenRight
  <2>1. CASE w.views[v].key # Presence(w, UserOf[v])
    BY <2>1, <1>0, <1>1, <1>4 DEF HiddenRight
  <2>2. CASE w.views[v].key = Presence(w, UserOf[v])
    BY <2>2, <1>0, <1>2, <1>4 DEF HiddenRight
  <2> QED BY <2>1, <2>2
<1> QED BY <1>3, <1>4 DEF d

\* A list made for today's presence has the room one is in.
LEMMA FreshLists ==
  ASSUME NEW w \in World, Fresh(w)
  PROVE  Kept(w) /\ \A p \in Sessions : OwnListed(w, p)
<1>1. Kept(w) BY DEF Fresh, Kept
<1>2. ASSUME NEW p \in Sessions PROVE OwnListed(w, p)
  <2> SUFFICES ASSUME NEW v \in Online(w), UserOf[v] = UserOf[p], w.room[p] # None
               PROVE  w.room[p] \in w.views[v].listed
    BY DEF OwnListed
  <2>1. w.room[p] \in Presence(w, UserOf[v]) BY PresenceHasRoom
  <2> QED BY <2>1 DEF Fresh
<1> QED BY <1>1, <1>2
-----------------------------------------------------------------------------
(* The steps of the handlers, each with all that the actions need of it. *)

Silent(w) == \A s \in Sessions : w.mic[s] = None

\* What only shows some elsewhere leaves what is shown of the others.
LEMMA SameListsOwn ==
  ASSUME NEW w \in World, NEW d, SameLists(w, d), NEW p \in Sessions
  PROVE  /\ OwnListed(w, p) => OwnListed(d, p)
         /\ (\A v \in Sessions : d.views[v].shows[p] = w.views[v].shows[p])
            => /\ ShownRight(w, p) => ShownRight(d, p)
               /\ HiddenRight(w, p) => HiddenRight(d, p)
<1>1. Online(d) = Online(w) /\ Online(w) \subseteq Sessions /\ d.room = w.room
  BY OnlineType DEF SameLists, Online
<1> QED BY <1>1 DEF SameLists, OwnListed, ShownRight, HiddenRight

\* The arrival is told to exactly those who list the room.
LEMMA ArrivalRight ==
  ASSUME NEW w \in World, NEW s \in Sessions, NEW r \in Rooms
  PROVE  LET d == AnnounceArrival(w, s, r)
         IN /\ Fresh(w) => Fresh(d)
            /\ Composed(w) => Composed(d)
            /\ \A p \in Sessions \ {s} : ShownRight(w, p) => ShownRight(d, p)
            /\ Fresh(w) /\ Composed(w) /\ w.room[s] = r /\ HiddenRight(w, s) => ShownRight(d, s)
<1> DEFINE d == AnnounceArrival(w, s, r)
<1>0. r \in Place BY DEF Place
<1>1. /\ d \in World /\ SameLists(w, d)
      /\ \A v \in Sessions :
           /\ \A q \in Sessions \ {s} : d.views[v].shows[q] = w.views[v].shows[q]
           /\ d.views[v].shows[s] = IF v \in Online(w) /\ r \in Visible(w, UserOf[v])
                                    THEN r ELSE w.views[v].shows[s]
  BY <1>0, ArrivalFields
<1> HIDE DEF d
<1>2. Fresh(w) => Fresh(d) BY <1>1, SameListsFresh
<1>3. Composed(w) => Composed(d) BY <1>1, SameListsKept
<1>4. \A p \in Sessions \ {s} : ShownRight(w, p) => ShownRight(d, p)
  BY <1>1, SameListsOwn
<1>5. ASSUME Fresh(w), Composed(w), w.room[s] = r, HiddenRight(w, s) PROVE ShownRight(d, s)
  <2>1. Online(d) = Online(w) /\ Online(w) \subseteq Sessions /\ d.room[s] = r
    BY <1>1, <1>5, OnlineType DEF SameLists, Online
  <2>2. ASSUME NEW v \in Online(w) PROVE w.views[v].listed = Visible(w, UserOf[v])
    BY <1>5 DEF Fresh, Composed, Visible
  <2> SUFFICES ASSUME NEW v \in Online(w)
               PROVE  d.views[v].shows[s] = IF r \in d.views[v].listed THEN r ELSE None
    BY <2>1 DEF ShownRight
  <2>3. d.views[v].listed = Visible(w, UserOf[v]) BY <2>1, <2>2, <1>1 DEF SameLists
  <2>4. CASE r \in Visible(w, UserOf[v]) BY <2>1, <2>3, <2>4, <1>1
  <2>5. CASE r \notin Visible(w, UserOf[v])
    <3>1. d.views[v].shows[s] = w.views[v].shows[s] BY <2>1, <2>5, <1>1
    <3>2. w.views[v].shows[s] = None BY <2>2, <2>5, <1>5 DEF HiddenRight
    <3> QED BY <3>1, <3>2, <2>3, <2>5
  <2> QED BY <2>4, <2>5
<1> QED BY <1>2, <1>3, <1>4, <1>5 DEF d

\* A session leaves its room: shown right before, it is shown nowhere after.
LEMMA EndVoiceStep ==
  ASSUME NEW w \in World, NEW s \in Sessions
  PROVE  LET d == EndVoice(w, s)
         IN /\ d \in World /\ d.may = w.may /\ d.order = w.order
            /\ d.returns = w.returns /\ d.moving = w.moving
            /\ Silent(w) => Silent(d)
            /\ Kept(w) => Kept(d)
            /\ Composed(w) => Composed(d)
            /\ \A p \in Sessions : OwnListed(w, p) => OwnListed(d, p)
            /\ \A p \in Sessions : ShownRight(w, p) => ShownRight(d, p)
<1>1. CASE w.room[s] = None
  BY <1>1 DEF EndVoice
<1>2. CASE w.room[s] # None
  <2> DEFINE r == w.room[s]
             w1 == [w EXCEPT !.room[s] = None, !.mic[s] = None]
             d == AnnounceDeparture(w1, s, r)
  <2>0. EndVoice(w, s) = d BY <1>2 DEF EndVoice
  <2>1. r \in Place /\ None \in Place BY DEF World, Place
  <2>2. /\ w1 \in World /\ w1.may = w.may /\ w1.order = w.order
        /\ w1.returns = w.returns /\ w1.moving = w.moving /\ w1.views = w.views
        /\ w1.room[s] = None /\ w1.mic[s] = None
        /\ \A p \in Sessions \ {s} : w1.room[p] = w.room[p] /\ w1.mic[p] = w.mic[p]
    BY <2>1 DEF World
  <2>3. Online(w1) = Online(w) /\ Online(w) \subseteq Sessions
    BY <2>2, OnlineType DEF Online
  <2> HIDE DEF w1, r
  <2>4. /\ d \in World /\ SameLists(w1, d) /\ d.mic = w1.mic
        /\ \A v \in Sessions :
             /\ \A q \in Sessions \ {s} : d.views[v].shows[q] = w1.views[v].shows[q]
             /\ d.views[v].shows[s] =
                  IF v \in Online(w1) /\ (UserOf[v] = UserOf[s] \/ r \in w1.views[v].listed)
                  THEN None ELSE w1.views[v].shows[s]
    <3>1. w1 \in World /\ r \in Place BY <2>1, <2>2
    <3> QED BY <3>1, DepartureFields
  <2> HIDE DEF d
  <2>5. /\ Kept(w) => Kept(w1)
        /\ Composed(w) => Composed(w1)
    BY <2>2, <2>3 DEF Kept, Composed
  <2>6. \A p \in Sessions : OwnListed(w, p) => OwnListed(w1, p)
    BY <2>2, <2>3 DEF OwnListed
  <2>7. \A p \in Sessions \ {s} : ShownRight(w, p) => ShownRight(w1, p)
    BY <2>2, <2>3 DEF ShownRight
  <2>8. Kept(w) => Kept(d) BY <2>5, <2>4, <2>2, SameListsKept
  <2>9. Composed(w) => Composed(d) BY <2>5, <2>4, <2>2, SameListsKept
  <2>10. \A p \in Sessions : OwnListed(w, p) => OwnListed(d, p)
    BY <2>6, <2>4, <2>2, SameListsOwn
  <2>11. \A p \in Sessions \ {s} : ShownRight(w, p) => ShownRight(d, p)
    BY <2>7, <2>4, <2>2, SameListsOwn
  <2>12. ASSUME ShownRight(w, s) PROVE ShownRight(d, s)
    <3>1. Online(d) = Online(w) /\ d.room[s] = None
      BY <2>2, <2>3, <2>4 DEF SameLists, Online
    <3> SUFFICES ASSUME NEW v \in Online(w) PROVE d.views[v].shows[s] = None
      BY <3>1 DEF ShownRight
    <3>2. r \notin w.views[v].listed => w.views[v].shows[s] = None
      BY <2>12 DEF ShownRight, r
    <3> QED BY <3>2, <2>2, <2>3, <2>4
  <2>13. Silent(w) => Silent(d) BY <2>2, <2>4 DEF Silent
  <2>14. d.may = w.may /\ d.order = w.order /\ d.returns = w.returns /\ d.moving = w.moving
    BY <2>2, <2>4 DEF SameLists
  <2> QED BY <2>0, <2>4, <2>8, <2>9, <2>10, <2>11, <2>12, <2>13, <2>14
<1> QED BY <1>1, <1>2

\* The right to return goes, and the lists with it.
LEMMA ClearReturnStep ==
  ASSUME NEW w \in World, NEW s \in Sessions
  PROVE  LET d == ClearReturn(w, s)
         IN /\ d \in World /\ d.may = w.may /\ d.order = w.order /\ d.room = w.room
            /\ d.moving = w.moving /\ d.mic = w.mic
            /\ Kept(w) => Fresh(d)
            /\ Composed(w) => Composed(d)
            /\ \A p \in Sessions : OwnListed(w, p) /\ ShownRight(w, p) => ShownRight(d, p)
<1> DEFINE w1 == [w EXCEPT !.returns[s] = None]
           d == SyncPresence(w1)
<1>0. ClearReturn(w, s) = d BY DEF ClearReturn
<1>1. None \in Place BY DEF Place
<1>2. /\ w1 \in World /\ w1.may = w.may /\ w1.order = w.order /\ w1.room = w.room
      /\ w1.moving = w.moving /\ w1.mic = w.mic /\ w1.views = w.views
  BY <1>1 DEF World
<1>3. Online(w1) = Online(w) BY <1>2 DEF Online
<1> HIDE DEF w1
<1>4. /\ d \in World
      /\ d.may = w1.may /\ d.order = w1.order /\ d.room = w1.room
      /\ d.moving = w1.moving /\ d.mic = w1.mic
  BY <1>2, SyncFields
<1>5. /\ Kept(w) => Kept(w1)
      /\ Composed(w) => Composed(w1)
      /\ \A p \in Sessions : OwnListed(w, p) => OwnListed(w1, p)
      /\ \A p \in Sessions : ShownRight(w, p) => ShownRight(w1, p)
  BY <1>2, <1>3 DEF Kept, Composed, OwnListed, ShownRight
<1>6. Kept(w) => Fresh(d) BY <1>5, <1>2, SyncFresh
<1>7. Composed(w) => Composed(d) BY <1>5, <1>2, SyncComposed
<1>8. \A p \in Sessions : OwnListed(w, p) /\ ShownRight(w, p) => ShownRight(d, p)
  BY <1>5, <1>2, SyncRight
<1> QED BY <1>0, <1>2, <1>4, <1>6, <1>7, <1>8

\* Whoever enters a room leaves no picture of themselves where the room is not
\* listed; everyone else's picture stays right.
LEMMA EnterStep ==
  ASSUME NEW w \in World, NEW s \in Sessions, NEW r \in Rooms
  PROVE  LET d == Enter(w, s, r)
         IN /\ d \in World /\ d.may = w.may /\ d.order = w.order /\ d.room[s] = r
            /\ d.moving = w.moving /\ d.mic = w.mic
            /\ Kept(w) => Fresh(d)
            /\ Composed(w) => Composed(d)
            /\ \A p \in Sessions \ {s} : OwnListed(w, p) /\ ShownRight(w, p) => ShownRight(d, p)
            /\ ShownRight(w, s) => HiddenRight(d, s)
<1> DEFINE old == w.room[s]
           w1 == [w EXCEPT !.room[s] = r]
           w2 == IF old \in {None, r} THEN w1 ELSE AnnounceDeparture(w1, s, old)
           d == SyncPresence(w2)
<1>0. Enter(w, s, r) = d BY DEF Enter
<1>1. r \in Place /\ old \in Place BY DEF World, Place
<1>2. /\ w1 \in World /\ w1.may = w.may /\ w1.order = w.order
      /\ w1.moving = w.moving /\ w1.mic = w.mic /\ w1.views = w.views
      /\ w1.room[s] = r /\ \A p \in Sessions \ {s} : w1.room[p] = w.room[p]
  BY <1>1 DEF World
<1>3. Online(w1) = Online(w) /\ Online(w) \subseteq Sessions
  BY <1>2, OnlineType DEF Online
<1> HIDE DEF w1
<1>4. /\ w2 \in World /\ SameLists(w1, w2) /\ w2.mic = w1.mic
      /\ \A v \in Sessions : \A q \in Sessions \ {s} : w2.views[v].shows[q] = w1.views[v].shows[q]
      /\ \A v \in Sessions : w2.views[v].shows[s] =
           IF old \notin {None, r} /\ v \in Online(w1) /\ (UserOf[v] = UserOf[s] \/ old \in w1.views[v].listed)
           THEN None ELSE w1.views[v].shows[s]
  <2>1. CASE old \in {None, r}
    BY <2>1, <1>2 DEF SameLists
  <2>2. CASE old \notin {None, r}
    <3>1. w2 = AnnounceDeparture(w1, s, old) BY <2>2
    <3>2. w1 \in World /\ old \in Place BY <1>1, <1>2
    <3> DEFINE e == AnnounceDeparture(w1, s, old)
    <3> HIDE DEF w2, old
    <3>3. /\ e \in World /\ SameLists(w1, e) /\ e.mic = w1.mic
          /\ \A v \in Sessions :
               /\ \A q \in Sessions \ {s} : e.views[v].shows[q] = w1.views[v].shows[q]
               /\ e.views[v].shows[s] =
                    IF v \in Online(w1) /\ (UserOf[v] = UserOf[s] \/ old \in w1.views[v].listed)
                    THEN None ELSE w1.views[v].shows[s]
      BY <3>2, DepartureFields
    <3> HIDE DEF e
    <3>4. w2 = e BY <3>1 DEF e
    <3> QED BY <2>2, <3>3, <3>4
  <2> QED BY <2>1, <2>2
<1> HIDE DEF w2
<1>5. /\ d \in World
      /\ d.may = w2.may /\ d.order = w2.order /\ d.room = w2.room
      /\ d.moving = w2.moving /\ d.mic = w2.mic
  BY <1>4, SyncFields
<1>6. Kept(w) => Fresh(d)
  <2>1. Kept(w) => Kept(w1) BY <1>2, <1>3 DEF Kept
  <2> QED BY <2>1, <1>2, <1>4, SameListsKept, SyncFresh
<1>7. Composed(w) => Composed(d)
  <2>1. Composed(w) => Composed(w1) BY <1>2, <1>3 DEF Composed
  <2> QED BY <2>1, <1>2, <1>4, SameListsKept, SyncComposed
<1>8. ASSUME NEW p \in Sessions \ {s}, OwnListed(w, p), ShownRight(w, p) PROVE ShownRight(d, p)
  <2>1. OwnListed(w1, p) /\ ShownRight(w1, p)
    BY <1>2, <1>3, <1>8 DEF OwnListed, ShownRight
  <2>2. OwnListed(w2, p) /\ ShownRight(w2, p)
    BY <2>1, <1>2, <1>4, SameListsOwn
  <2> QED BY <2>2, <1>4, SyncRight
<1>9. ASSUME ShownRight(w, s) PROVE HiddenRight(d, s)
  <2>1. HiddenRight(w2, s)
    <3>1. Online(w2) = Online(w) /\ w2.room[s] = r
      BY <1>2, <1>3, <1>4 DEF SameLists, Online
    <3> SUFFICES ASSUME NEW v \in Online(w), r \notin w2.views[v].listed
                 PROVE  w2.views[v].shows[s] = None
      BY <3>1 DEF HiddenRight
    <3>2. v \in Sessions /\ v \in Online(w1) /\ w2.views[v].listed = w.views[v].listed
      BY <1>2, <1>3, <1>4 DEF SameLists
    <3>3. w.views[v].shows[s] = IF old \in w.views[v].listed THEN old ELSE None
      BY <1>9 DEF ShownRight
    <3>4. w2.views[v].shows[s] =
            IF old \notin {None, r} /\ (UserOf[v] = UserOf[s] \/ old \in w.views[v].listed)
            THEN None ELSE w.views[v].shows[s]
      BY <3>2, <1>2, <1>4
    <3> HIDE DEF old
    <3> QED BY <3>2, <3>3, <3>4
  <2> QED BY <2>1, <1>4, SyncRight
<1>10. d.may = w.may /\ d.order = w.order /\ d.room[s] = r /\ d.moving = w.moving /\ d.mic = w.mic
  BY <1>2, <1>4, <1>5 DEF SameLists
<1> QED BY <1>0, <1>5, <1>6, <1>7, <1>8, <1>9, <1>10
\* The rest of a join announces the arrival and answers, and the picture is
\* right for everyone again.
LEMMA AdmitStep ==
  ASSUME NEW w \in World, NEW s \in Sessions, NEW r \in Rooms, NEW connected \in BOOLEAN, Fresh(w)
  PROVE  LET d == Admit(w, s, r, connected)
         IN /\ d \in World /\ d.may = w.may /\ d.order = w.order /\ d.room = w.room /\ d.moving = w.moving
            /\ Fresh(d)
            /\ Silent(w) => Silent(d)
            /\ Composed(w) => Composed(d)
            /\ /\ Composed(w) /\ w.room[s] = r /\ HiddenRight(w, s)
               /\ \A p \in Sessions \ {s} : ShownRight(w, p)
               => \A p \in Sessions : ShownRight(d, p)
<1> DEFINE w1 == [w EXCEPT !.mic[s] = IF @ = r THEN r ELSE None]
           w2 == AnnounceArrival(w1, s, r)
           w3 == IF connected /\ w.room[s] = r THEN AnswerJoin(w2, s, r) ELSE w2
           d == ClearReturn(w3, s)
<1>0. Admit(w, s, r, connected) = d BY DEF Admit
<1>1. r \in Place /\ None \in Place /\ r # None BY VoiceRoomsAssumption DEF Place
<1>2. /\ w1 \in World /\ SameLists(w, w1) /\ w1.views = w.views
      /\ Silent(w) => Silent(w1)
  BY <1>1 DEF World, SameLists, Silent
<1> HIDE DEF w1
<1>3. /\ w2 \in World /\ SameLists(w1, w2) /\ w2.mic = w1.mic
  BY <1>1, <1>2, ArrivalFields
<1>4. Fresh(w1) BY <1>2, SameListsFresh
<1>5. Fresh(w2) BY <1>2, <1>4, ArrivalRight
<1>6. Composed(w) => Composed(w2) BY <1>2, <1>3, SameListsKept
<1>7. ASSUME Composed(w), w.room[s] = r, HiddenRight(w, s),
             \A p \in Sessions \ {s} : ShownRight(w, p),
             NEW p \in Sessions
      PROVE  ShownRight(w2, p)
  <2>1. Composed(w1) BY <1>2, <1>7, SameListsKept
  <2>2. HiddenRight(w1, s) /\ w1.room[s] = r /\ \A q \in Sessions \ {s} : ShownRight(w1, q)
    BY <1>2, <1>7, SameListsOwn DEF SameLists
  <2> QED BY <2>1, <2>2, <1>2, <1>4, ArrivalRight
<1> HIDE DEF w2
<1>8. /\ w3 \in World /\ SameLists(w2, w3) /\ w3.mic = w2.mic
      /\ \A v \in Sessions, q \in Sessions :
           w3.views[v].shows[q] =
             IF v # s \/ ~connected \/ w.room[s] # r THEN w2.views[v].shows[q]
             ELSE IF w2.room[q] = r THEN r
             ELSE IF w2.views[v].shows[q] = r THEN None ELSE w2.views[v].shows[q]
  <2>1. CASE connected /\ w.room[s] = r
    <3> DEFINE e == AnswerJoin(w2, s, r)
    <3>1. /\ e \in World /\ SameLists(w2, e) /\ e.mic = w2.mic
          /\ \A v \in Sessions, q \in Sessions :
               e.views[v].shows[q] =
                 IF v # s THEN w2.views[v].shows[q]
                 ELSE IF w2.room[q] = r THEN r
                 ELSE IF w2.views[v].shows[q] = r THEN None ELSE w2.views[v].shows[q]
      BY <1>3, AnswerFields
    <3>2. w3 = e BY <2>1
    <3> HIDE DEF e, w3
    <3> QED BY <2>1, <3>1, <3>2
  <2>2. CASE ~(connected /\ w.room[s] = r)
    BY <2>2, <1>3 DEF SameLists
  <2> QED BY <2>1, <2>2
<1> HIDE DEF w3
<1>9. Fresh(w3) BY <1>3, <1>5, <1>8, SameListsFresh
<1>10. Kept(w3) /\ \A p \in Sessions : OwnListed(w3, p) BY <1>8, <1>9, FreshLists
<1>11. Composed(w) => Composed(w3) BY <1>3, <1>6, <1>8, SameListsKept
<1>12. ASSUME Composed(w), w.room[s] = r, HiddenRight(w, s),
              \A p \in Sessions \ {s} : ShownRight(w, p),
              NEW p \in Sessions
       PROVE  ShownRight(w3, p)
  <2>1. ShownRight(w2, p) BY <1>7, <1>12
  <2>2. OwnListed(w2, s) BY <1>3, <1>5, FreshLists
  <2>3. /\ Online(w3) = Online(w2) /\ Online(w2) \subseteq Sessions
        /\ w3.room = w2.room /\ w2.room[s] = r
    BY <1>2, <1>3, <1>8, <1>12, OnlineType DEF SameLists, Online
  <2> SUFFICES ASSUME NEW v \in Online(w2)
               PROVE  w3.views[v].shows[p] = IF w2.room[p] \in w3.views[v].listed THEN w2.room[p] ELSE None
    BY <2>3 DEF ShownRight
  <2>4. w3.views[v].listed = w2.views[v].listed BY <2>3, <1>8 DEF SameLists
  <2>5. w2.views[v].shows[p] = IF w2.room[p] \in w2.views[v].listed THEN w2.room[p] ELSE None
    BY <2>1 DEF ShownRight
  <2>6. v = s => r \in w2.views[v].listed BY <2>2, <2>3, <1>1 DEF OwnListed
  <2>7. w3.views[v].shows[p] =
             IF v # s \/ ~connected THEN w2.views[v].shows[p]
             ELSE IF w2.room[p] = r THEN r
             ELSE IF w2.views[v].shows[p] = r THEN None ELSE w2.views[v].shows[p]
    BY <1>8, <1>12, <2>3
  <2> QED BY <2>4, <2>5, <2>6, <2>7
<1>13. /\ d \in World /\ d.may = w3.may /\ d.order = w3.order /\ d.room = w3.room
       /\ d.moving = w3.moving /\ d.mic = w3.mic
       /\ Fresh(d)
       /\ Composed(w3) => Composed(d)
       /\ \A p \in Sessions : OwnListed(w3, p) /\ ShownRight(w3, p) => ShownRight(d, p)
  BY <1>8, <1>10, ClearReturnStep
<1> HIDE DEF d
<1>14. Silent(w) => Silent(d) BY <1>2, <1>3, <1>8, <1>13 DEF Silent
<1>15. d.may = w.may /\ d.order = w.order /\ d.room = w.room /\ d.moving = w.moving
  BY <1>2, <1>3, <1>8, <1>13 DEF SameLists
<1>16. ASSUME Composed(w), w.room[s] = r, HiddenRight(w, s),
              \A p \in Sessions \ {s} : ShownRight(w, p),
              NEW p \in Sessions
       PROVE  ShownRight(d, p)
  BY <1>10, <1>12, <1>13, <1>16
<1>17. Composed(w) => Composed(d) BY <1>11, <1>13
<1> QED BY <1>0, <1>13, <1>14, <1>15, <1>16, <1>17

\* Every client that may still show s in the room it is carried out of lists
\* that room, or is s's person's own.
StillTold(w, s, from) ==
  \A v \in Online(w) :
    UserOf[v] = UserOf[s] \/ from \in w.views[v].listed \/ w.views[v].shows[s] = None

\* A move is made on the server before anybody is told of it.
LEMMA CarryStep ==
  ASSUME NEW w \in World, NEW s \in Sessions, NEW to \in Rooms, Fresh(w)
  PROVE  LET d == Carry(w, s, to)
         IN /\ d \in World /\ d.may = w.may /\ d.order = w.order /\ d.mic = w.mic
            /\ d.room[s] = to
            /\ d.moving = [w.moving EXCEPT ![s] = w.room[s]]
            /\ Fresh(d)
            /\ Composed(w) => Composed(d)
            /\ \A p \in Sessions \ {s} : ShownRight(w, p) => ShownRight(d, p)
            /\ ShownRight(w, s) => StillTold(d, s, w.room[s])
<1> DEFINE w1 == [w EXCEPT !.moving[s] = w.room[s], !.room[s] = to]
           d == SyncPresence(w1)
<1>0. Carry(w, s, to) = d BY DEF Carry
<1>1. to \in Place /\ w.room[s] \in Place BY DEF Place, World
<1>2. /\ w1 \in World /\ w1.may = w.may /\ w1.order = w.order /\ w1.returns = w.returns
      /\ w1.mic = w.mic /\ w1.views = w.views
      /\ w1.room[s] = to /\ \A p \in Sessions \ {s} : w1.room[p] = w.room[p]
      /\ w1.moving = [w.moving EXCEPT ![s] = w.room[s]]
      /\ \A p \in Sessions \ {s} : w1.moving[p] = w.moving[p]
  BY <1>1 DEF World
<1>3. Online(w1) = Online(w) /\ Online(w) \subseteq Sessions
  BY <1>2, OnlineType DEF Online
<1> HIDE DEF w1
<1>4. Kept(w1)
  <2>1. Kept(w) BY FreshLists
  <2> QED BY <2>1, <1>2, <1>3 DEF Kept
<1>5. /\ d \in World /\ d.may = w.may /\ d.order = w.order /\ d.mic = w.mic
      /\ d.room[s] = to /\ d.moving = [w.moving EXCEPT ![s] = w.room[s]]
      /\ Fresh(d)
  BY <1>2, <1>4, SyncFields, SyncFresh
<1>6. Composed(w) => Composed(d)
  <2>1. Composed(w) => Composed(w1) BY <1>2, <1>3 DEF Composed
  <2> QED BY <2>1, <1>2, SyncComposed
<1>7. ASSUME NEW p \in Sessions \ {s}, ShownRight(w, p) PROVE ShownRight(d, p)
  <2>1. OwnListed(w, p) BY FreshLists
  <2>2. OwnListed(w1, p) /\ ShownRight(w1, p)
    BY <2>1, <1>2, <1>3, <1>7 DEF OwnListed, ShownRight
  <2> QED BY <2>2, <1>2, SyncRight
<1>8. ASSUME ShownRight(w, s) PROVE StillTold(d, s, w.room[s])
  <2> SUFFICES ASSUME NEW v \in Online(w), UserOf[v] # UserOf[s]
               PROVE  w.room[s] \in d.views[v].listed \/ d.views[v].shows[s] = None
    BY <1>3, <1>5 DEF StillTold, Online
  <2>1. Presence(w1, UserOf[v]) = Presence(w, UserOf[v])
    <3>1. \A p \in Sessions \ {s} :
            w1.room[p] = w.room[p] /\ w1.returns[p] = w.returns[p] /\ w1.moving[p] = w.moving[p]
      BY <1>2
    <3> QED BY <3>1, PresenceOfOthers
  <2>2. w1.views[v].key = Presence(w1, UserOf[v]) BY <2>1, <1>2 DEF Fresh
  <2>3. d.views[v] = w.views[v] BY <2>2, <1>2, <1>3, SyncLeaves
  <2> QED BY <2>3, <1>8 DEF ShownRight
<1> HIDE DEF d
<1> QED BY <1>0, <1>5, <1>6, <1>7, <1>8

\* The rest of a move tells of it and, if it was the last, gives the old room up.
LEMMA SettleStep ==
  ASSUME NEW w \in World, NEW s \in Sessions, NEW from \in Place, NEW to \in Rooms,
         NEW last \in BOOLEAN, Fresh(w)
  PROVE  LET d == Settle(w, s, from, to, last)
         IN /\ d \in World /\ d.may = w.may /\ d.order = w.order /\ d.room = w.room
            /\ last => d.moving = [w.moving EXCEPT ![s] = None]
            /\ ~last => d.moving = w.moving
            /\ Fresh(d)
            /\ Silent(w) => Silent(d)
            /\ Composed(w) => Composed(d)
            /\ /\ Composed(w) /\ w.room[s] = to /\ StillTold(w, s, from)
               /\ \A p \in Sessions \ {s} : ShownRight(w, p)
               => \A p \in Sessions : ShownRight(d, p)
<1> DEFINE w1 == [w EXCEPT !.mic[s] = None]
           w2 == SyncPresence(w1)
           w3 == AnnounceDeparture(w2, s, from)
           w4 == IF last THEN [w3 EXCEPT !.moving[s] = None] ELSE w3
           w5 == SyncPresence(w4)
           d == AnnounceArrival(w5, s, to)
<1>0. Settle(w, s, from, to, last) = d BY DEF Settle
<1>1. None \in Place /\ to \in Place BY DEF Place
<1>2. /\ w1 \in World /\ SameLists(w, w1) /\ w1.views = w.views /\ (Silent(w) => Silent(w1))
  BY <1>1 DEF World, SameLists, Silent
<1>3. Online(w1) = Online(w) /\ Online(w) \subseteq Sessions /\ Fresh(w1)
  BY <1>2, OnlineType, SameListsFresh DEF Online, SameLists
<1> HIDE DEF w1
<1>4. /\ w2 \in World /\ SameLists(w1, w2) /\ w2.mic = w1.mic
      /\ \A v \in Sessions : w2.views[v] = w1.views[v]
  <2>1. /\ w2 \in World
        /\ w2.may = w1.may /\ w2.order = w1.order /\ w2.room = w1.room
        /\ w2.returns = w1.returns /\ w2.moving = w1.moving /\ w2.mic = w1.mic
    BY <1>2, SyncFields
  <2>2. ASSUME NEW v \in Sessions PROVE w2.views[v] = w1.views[v]
    <3>1. CASE v \in Online(w1)
      BY <3>1, <1>2, <1>3, SyncLeaves DEF Fresh
    <3>2. CASE v \notin Online(w1)
      BY <3>2, <1>2, SyncFields
    <3> QED BY <3>1, <3>2
  <2> HIDE DEF w2
  <2> QED BY <2>1, <2>2 DEF SameLists
<1>5. Online(w2) = Online(w) /\ Fresh(w2)
  BY <1>2, <1>3, <1>4, SameListsFresh DEF Online, SameLists
<1> HIDE DEF w2
<1>6. /\ w3 \in World /\ SameLists(w2, w3) /\ w3.mic = w2.mic
      /\ \A v \in Sessions :
           /\ \A q \in Sessions \ {s} : w3.views[v].shows[q] = w2.views[v].shows[q]
           /\ w3.views[v].shows[s] =
                IF v \in Online(w2) /\ (UserOf[v] = UserOf[s] \/ from \in w2.views[v].listed)
                THEN None ELSE w2.views[v].shows[s]
  BY <1>4, DepartureFields
<1>7. Online(w3) = Online(w) /\ Fresh(w3)
  BY <1>4, <1>5, <1>6, SameListsFresh DEF Online, SameLists
<1> HIDE DEF w3
<1>8. Kept(w3) /\ \A p \in Sessions : OwnListed(w3, p)
  BY <1>6, <1>7, FreshLists
<1>9. ASSUME StillTold(w, s, from) PROVE HiddenRight(w3, s)
  <2> SUFFICES ASSUME NEW v \in Online(w) PROVE w3.views[v].shows[s] = None
    BY <1>7 DEF HiddenRight
  <2>1. v \in Sessions /\ w2.views[v] = w.views[v] /\ v \in Online(w2)
    BY <1>2, <1>3, <1>4, <1>5
  <2>2. UserOf[v] = UserOf[s] \/ from \in w.views[v].listed \/ w.views[v].shows[s] = None
    BY <1>9 DEF StillTold
  <2>3. w3.views[v].shows[s] =
          IF UserOf[v] = UserOf[s] \/ from \in w2.views[v].listed THEN None ELSE w2.views[v].shows[s]
    BY <2>1, <1>6
  <2> QED BY <2>1, <2>2, <2>3
<1>10. ASSUME NEW p \in Sessions \ {s}, ShownRight(w, p) PROVE ShownRight(w3, p)
  <2>1. ShownRight(w1, p) BY <1>2, <1>10, SameListsOwn
  <2>2. ShownRight(w2, p) BY <2>1, <1>2, <1>4, SameListsOwn
  <2> QED BY <2>2, <1>4, <1>6, SameListsOwn
<1>11. Composed(w) => Composed(w3)
  <2>1. Composed(w) => Composed(w1) BY <1>2, SameListsKept
  <2>2. Composed(w) => Composed(w2) BY <2>1, <1>2, <1>4, SameListsKept
  <2> QED BY <2>2, <1>4, <1>6, SameListsKept
<1>12. /\ w4 \in World /\ w4.may = w3.may /\ w4.order = w3.order /\ w4.room = w3.room
       /\ w4.returns = w3.returns /\ w4.mic = w3.mic /\ w4.views = w3.views
       /\ w4.moving = IF last THEN [w3.moving EXCEPT ![s] = None] ELSE w3.moving
  BY <1>1, <1>6 DEF World
<1> HIDE DEF w4
<1>13. Online(w4) = Online(w3) BY <1>12 DEF Online
<1>14. /\ Kept(w4)
       /\ \A p \in Sessions : OwnListed(w4, p)
       /\ Composed(w3) => Composed(w4)
       /\ HiddenRight(w3, s) => HiddenRight(w4, s)
       /\ \A p \in Sessions : ShownRight(w3, p) => ShownRight(w4, p)
  BY <1>8, <1>12, <1>13 DEF Kept, OwnListed, Composed, HiddenRight, ShownRight
<1>15. /\ w5 \in World /\ w5.may = w4.may /\ w5.order = w4.order /\ w5.room = w4.room
       /\ w5.moving = w4.moving /\ w5.mic = w4.mic
       /\ Fresh(w5)
  BY <1>12, <1>14, SyncFields, SyncFresh
<1>16. /\ Composed(w4) => Composed(w5)
       /\ HiddenRight(w4, s) => HiddenRight(w5, s)
       /\ \A p \in Sessions : ShownRight(w4, p) => ShownRight(w5, p)
  BY <1>12, <1>14, SyncComposed, SyncRight
<1> HIDE DEF w5
<1>17. d \in World /\ SameLists(w5, d) /\ d.mic = w5.mic
  BY <1>1, <1>15, ArrivalFields
<1>18. /\ Fresh(d)
       /\ Composed(w5) => Composed(d)
       /\ \A p \in Sessions \ {s} : ShownRight(w5, p) => ShownRight(d, p)
       /\ Composed(w5) /\ w5.room[s] = to /\ HiddenRight(w5, s) => ShownRight(d, s)
  BY <1>15, ArrivalRight
<1> HIDE DEF d
<1>19. /\ d.may = w.may /\ d.order = w.order /\ d.room = w.room
       /\ last => d.moving = [w.moving EXCEPT ![s] = None]
       /\ ~last => d.moving = w.moving
  BY <1>2, <1>4, <1>6, <1>12, <1>15, <1>17 DEF SameLists
<1>20. Silent(w) => Silent(d)
  BY <1>2, <1>4, <1>6, <1>12, <1>15, <1>17 DEF Silent
<1>21. Composed(w) => Composed(w5) BY <1>11, <1>14, <1>16
<1>22. w5.room = w.room BY <1>2, <1>4, <1>6, <1>12, <1>15 DEF SameLists
<1>23. ASSUME Composed(w), w.room[s] = to, StillTold(w, s, from),
              \A p \in Sessions \ {s} : ShownRight(w, p),
              NEW p \in Sessions
       PROVE  ShownRight(d, p)
  <2>1. HiddenRight(w5, s) BY <1>9, <1>14, <1>16, <1>23
  <2>2. CASE p = s BY <2>1, <2>2, <1>18, <1>21, <1>22, <1>23
  <2>3. CASE p # s BY <2>3, <1>10, <1>14, <1>16, <1>18, <1>23
  <2> QED BY <2>2, <2>3
<1> QED BY <1>0, <1>17, <1>18, <1>19, <1>20, <1>21, <1>23

\* A stretch of the permission pass is over sessions; with no microphone it is all of it.
LEMMA StretchOnline ==
  ASSUME NEW w \in World, NEW done
  PROVE  /\ Stretch(w, done) \subseteq Online(w)
         /\ Silent(w) => Stretch(w, {}) = Online(w) /\ ~Paused(w, {})
<1>1. Stretch(w, done) \subseteq Online(w) BY DEF Stretch, Online, ToSet
<1>2. ASSUME Silent(w) PROVE Stretch(w, {}) = Online(w) /\ ~Paused(w, {})
  <2>1. \A i \in DOMAIN w.order : w.order[i] \in Online(w) BY DEF Online, ToSet
  <2>2. \A s \in Online(w) : ~StopsAt(w, s) BY <1>2, OnlineType DEF StopsAt, Silent
  <2>3. Stretch(w, {}) = Online(w) BY <2>1, <2>2 DEF Stretch, Online, ToSet
  <2> QED BY <2>2, <2>3 DEF Paused
<1> QED BY <1>1, <1>2

\* A stretch leaves fresh lists, and people shown where they are.
LEMMA ReconcileStep ==
  ASSUME NEW w \in World, NEW roles \in [Users -> SUBSET Rooms], NEW done, Fresh(w)
  PROVE  LET d == Reconcile(w, roles, done)
         IN /\ d \in World /\ d.may = w.may /\ d.order = w.order /\ d.room = w.room
            /\ d.moving = w.moving /\ d.mic = w.mic
            /\ Fresh(d)
            /\ \A p \in Sessions : ShownRight(w, p) => ShownRight(d, p)
            /\ Silent(w) /\ done = {} /\ roles = w.may => Composed(d)
<1> DEFINE now(v) == roles[UserOf[v]] \union Presence(w, UserOf[v])
           f == [v \in Sessions |->
                  IF v \in Stretch(w, done) THEN SendChannels(w, w.views[v], UserOf[v], now(v)) ELSE w.views[v]]
           d == Reconcile(w, roles, done)
<1>1. d = [w EXCEPT !.views = f]
  BY DEF Reconcile, World
<1>2. \A v \in Sessions : w.views[v] \in View /\ UserOf[v] \in Users
  BY UserType DEF World
<1>3. \A v \in Sessions : now(v) \in SUBSET Rooms
  BY <1>2, PresenceType
<1>4. \A v \in Sessions : SendChannels(w, w.views[v], UserOf[v], now(v)) \in View
  <2> HIDE DEF now
  <2> QED BY <1>2, <1>3, SendFields
<1>5. f \in [Sessions -> View] BY <1>2, <1>4
<1>6. \A v \in Sessions :
        f[v] = IF v \in Stretch(w, done) THEN SendChannels(w, w.views[v], UserOf[v], now(v)) ELSE w.views[v]
  OBVIOUS
<1> HIDE DEF f
<1>7. /\ d \in World /\ d.views = f /\ d.may = w.may /\ d.order = w.order /\ d.room = w.room
      /\ d.returns = w.returns /\ d.moving = w.moving /\ d.mic = w.mic
  BY <1>1, <1>5, WorldViews
<1>8. Online(d) = Online(w) /\ Online(w) \subseteq Sessions
  BY <1>7, OnlineType DEF Online
<1> HIDE DEF d
<1>9. \A u : Presence(d, u) = Presence(w, u) BY <1>7, PresenceSame
<1>10. ASSUME NEW v \in Online(w), v \in Stretch(w, done)
       PROVE  /\ d.views[v] = SendChannels(w, w.views[v], UserOf[v], now(v))
              /\ d.views[v].listed = now(v)
              /\ d.views[v].key = Presence(w, UserOf[v])
  <2>1. d.views[v] = SendChannels(w, w.views[v], UserOf[v], now(v))
    BY <1>6, <1>7, <1>8, <1>10
  <2> HIDE DEF now
  <2> QED BY <2>1, <1>2, <1>3, <1>8, SendFields
<1>11. ASSUME NEW v \in Online(w), v \notin Stretch(w, done) PROVE d.views[v] = w.views[v]
  BY <1>6, <1>7, <1>8, <1>11
<1>12. Fresh(d)
  <2> SUFFICES ASSUME NEW v \in Online(w)
               PROVE  /\ d.views[v].key = Presence(d, UserOf[v])
                      /\ d.views[v].key \subseteq d.views[v].listed
    BY <1>8 DEF Fresh
  <2>1. CASE v \in Stretch(w, done) BY <2>1, <1>9, <1>10
  <2>2. CASE v \notin Stretch(w, done) BY <2>2, <1>9, <1>11 DEF Fresh
  <2> QED BY <2>1, <2>2
<1>13. ASSUME NEW p \in Sessions, ShownRight(w, p) PROVE ShownRight(d, p)
  <2> SUFFICES ASSUME NEW v \in Online(w)
               PROVE  d.views[v].shows[p] = IF w.room[p] \in d.views[v].listed THEN w.room[p] ELSE None
    BY <1>7, <1>8 DEF ShownRight
  <2>1. OwnListed(w, p) BY FreshLists
  <2>2. /\ w.views[v].shows[p] = IF w.room[p] \in w.views[v].listed THEN w.room[p] ELSE None
        /\ UserOf[p] = UserOf[v] /\ w.room[p] # None => w.room[p] \in w.views[v].listed
    BY <2>1, <1>13 DEF ShownRight, OwnListed
  <2>3. CASE v \in Stretch(w, done)
    <3>1. Presence(w, UserOf[v]) \subseteq now(v) OBVIOUS
    <3>2. v \in Sessions BY <1>8
    <3> HIDE DEF now
    <3> QED BY <2>2, <2>3, <3>1, <3>2, <1>2, <1>3, <1>10, SendRight
  <2>4. CASE v \notin Stretch(w, done) BY <2>2, <2>4, <1>11
  <2> QED BY <2>3, <2>4
<1>14. ASSUME Silent(w), done = {}, roles = w.may PROVE Composed(d)
  <2> SUFFICES ASSUME NEW v \in Online(w)
               PROVE  d.views[v].listed = d.may[UserOf[v]] \union d.views[v].key
    BY <1>8 DEF Composed
  <2>1. v \in Stretch(w, done) BY <1>14, StretchOnline
  <2> QED BY <2>1, <1>7, <1>10, <1>14
<1> QED BY <1>7, <1>12, <1>13, <1>14 DEF d
-----------------------------------------------------------------------------
(* The waiting handlers. *)

Entry ==
  [kind : {"join"}, s : Sessions, r : Rooms, connected : BOOLEAN]
  \union [kind : {"move"}, s : Sessions, from : Place, to : Rooms]
  \union [kind : {"reconcile"}, roles : [Users -> SUBSET Rooms], done : SUBSET Sessions]

MoveOf(e, s) == e.kind = "move" /\ e.s = s

\* The last move of s that waits is out of `from`.
LastMove(q, s, from) ==
  \E i \in DOMAIN q :
    /\ MoveOf(q[i], s) /\ q[i].from = from
    /\ \A j \in DOMAIN q : j > i => ~MoveOf(q[j], s)

\* A handler that begins to wait last is the last of its session.
LEMMA AppendMove ==
  ASSUME NEW q \in Seq(Entry), NEW e \in Entry
  PROVE  /\ Append(q, e) \in Seq(Entry)
         /\ \A s, from : ~MoveOf(e, s) /\ LastMove(q, s, from) => LastMove(Append(q, e), s, from)
         /\ \A s, from : MoveOf(e, s) /\ e.from = from => LastMove(Append(q, e), s, from)
<1> DEFINE a == Append(q, e)
<1>0. Len(q) \in Nat /\ DOMAIN q = 1..Len(q) BY LenProperties
<1>1. /\ a \in Seq(Entry) /\ Len(a) = Len(q) + 1
      /\ \A i \in 1..Len(q) : a[i] = q[i]
      /\ a[Len(q) + 1] = e
  BY AppendProperties
<1> HIDE DEF a
<1>2. DOMAIN a = 1..(Len(q) + 1) BY <1>1, LenProperties
<1>3. ASSUME NEW s, NEW from, ~MoveOf(e, s), LastMove(q, s, from) PROVE LastMove(a, s, from)
  <2>1. PICK i \in 1..Len(q) :
          /\ MoveOf(q[i], s) /\ q[i].from = from
          /\ \A j \in 1..Len(q) : j > i => ~MoveOf(q[j], s)
    BY <1>0, <1>3 DEF LastMove
  <2>2. i \in DOMAIN a /\ a[i] = q[i] BY <1>0, <1>1, <1>2
  <2>3. ASSUME NEW j \in DOMAIN a, j > i PROVE ~MoveOf(a[j], s)
    <3>1. CASE j = Len(q) + 1 BY <3>1, <1>1, <1>3
    <3>2. CASE j # Len(q) + 1
      <4>1. j \in 1..Len(q) BY <3>2, <1>0, <1>2
      <4> QED BY <4>1, <1>1, <2>1, <2>3
    <3> QED BY <3>1, <3>2
  <2> QED BY <2>1, <2>2, <2>3 DEF LastMove
<1>4. ASSUME NEW s, NEW from, MoveOf(e, s), e.from = from PROVE LastMove(a, s, from)
  <2>1. Len(q) + 1 \in DOMAIN a /\ \A j \in DOMAIN a : ~(j > Len(q) + 1) BY <1>0, <1>2
  <2> QED BY <2>1, <1>1, <1>4 DEF LastMove
<1> QED BY <1>1, <1>3, <1>4 DEF a

\* The last move of a session is not the one that goes on, if another follows.
LEMMA TailMove ==
  ASSUME NEW q \in Seq(Entry), q # <<>>
  PROVE  /\ Tail(q) \in Seq(Entry)
         /\ Head(q) \in Entry
         /\ \A s, from :
              /\ ~MoveOf(Head(q), s) \/ (\E i \in 2..Len(q) : MoveOf(q[i], s))
              /\ LastMove(q, s, from)
              => LastMove(Tail(q), s, from)
<1> DEFINE a == Tail(q)
<1>0. Len(q) \in Nat /\ Len(q) # 0 /\ DOMAIN q = 1..Len(q) BY LenProperties, EmptySeq
<1>1. /\ a \in Seq(Entry) /\ Len(a) = Len(q) - 1
      /\ \A i \in 1..Len(a) : a[i] = q[i + 1]
      /\ Head(q) \in Entry /\ Head(q) = q[1]
  BY HeadTailProperties
<1> HIDE DEF a
<1>2. DOMAIN a = 1..(Len(q) - 1) BY <1>1, LenProperties
<1>3. ASSUME NEW s, NEW from,
             ~MoveOf(Head(q), s) \/ (\E i \in 2..Len(q) : MoveOf(q[i], s)),
             LastMove(q, s, from)
      PROVE  LastMove(a, s, from)
  <2>1. PICK i \in 1..Len(q) :
          /\ MoveOf(q[i], s) /\ q[i].from = from
          /\ \A j \in 1..Len(q) : j > i => ~MoveOf(q[j], s)
    BY <1>0, <1>3 DEF LastMove
  <2>2. i # 1
    <3>1. CASE ~MoveOf(Head(q), s) BY <3>1, <1>1, <2>1
    <3>2. CASE \E k \in 2..Len(q) : MoveOf(q[k], s)
      <4>1. PICK k \in 2..Len(q) : MoveOf(q[k], s) BY <3>2
      <4>2. k \in 1..Len(q) /\ k > 1 BY <1>0
      <4> QED BY <4>1, <4>2, <2>1
    <3> QED BY <3>1, <3>2, <1>3
  <2>3. i - 1 \in DOMAIN a /\ a[i - 1] = q[i]
    <3>1. i - 1 \in 1..Len(a) /\ (i - 1) + 1 = i BY <2>2, <1>0, <1>1
    <3>2. a[i - 1] = q[(i - 1) + 1] BY <3>1, <1>1
    <3> QED BY <3>1, <3>2, <1>1, <1>2
  <2>4. ASSUME NEW j \in DOMAIN a, j > i - 1 PROVE ~MoveOf(a[j], s)
    <3>1. j + 1 \in 1..Len(q) /\ j + 1 > i /\ a[j] = q[j + 1]
      BY <2>4, <1>0, <1>1, <1>2
    <3> QED BY <3>1, <2>1
  <2> QED BY <2>1, <2>3, <2>4 DEF LastMove
<1> QED BY <1>1, <1>3 DEF a

\* A session that goes takes no move from the others, nor its own.
LEMMA ForgottenMove ==
  ASSUME NEW s \in Sessions, waiting \in Seq(Entry)
  PROVE  /\ Forgotten(s) \in Seq(Entry)
         /\ Len(Forgotten(s)) = Len(waiting)
         /\ waiting = <<>> => Forgotten(s) = <<>>
         /\ \A p, from : LastMove(waiting, p, from) => LastMove(Forgotten(s), p, from)
<1> DEFINE new(i) ==
             CASE waiting[i].kind = "join" /\ waiting[i].s = s -> [waiting[i] EXCEPT !.connected = FALSE]
               [] waiting[i].kind = "reconcile" -> [waiting[i] EXCEPT !.done = @ \ {s}]
               [] OTHER -> waiting[i]
           f == [i \in DOMAIN waiting |-> new(i)]
<1>0. Len(waiting) \in Nat /\ DOMAIN waiting = 1..Len(waiting) BY LenProperties
<1>1. ASSUME NEW i \in DOMAIN waiting
      PROVE  /\ new(i) \in Entry
             /\ \A p : MoveOf(new(i), p) <=> MoveOf(waiting[i], p)
             /\ MoveOf(waiting[i], s) \/ waiting[i].kind = "move" => new(i) = waiting[i]
  <2>1. waiting[i] \in Entry BY <1>0, ElementOfSeq
  <2>2. CASE waiting[i] \in [kind : {"join"}, s : Sessions, r : Rooms, connected : BOOLEAN]
    <3>1. waiting[i].kind = "join" BY <2>2
    <3>2. CASE waiting[i].s = s
      <4>1. new(i) = [waiting[i] EXCEPT !.connected = FALSE] BY <3>1, <3>2
      <4>2. /\ [waiting[i] EXCEPT !.connected = FALSE] \in [kind : {"join"}, s : Sessions, r : Rooms, connected : BOOLEAN]
            /\ [waiting[i] EXCEPT !.connected = FALSE].kind = "join"
        BY <2>2, <3>1
      <4> HIDE DEF new
      <4> QED BY <3>1, <4>1, <4>2 DEF Entry, MoveOf
    <3>3. CASE waiting[i].s # s
      <4>1. new(i) = waiting[i] BY <3>1, <3>3
      <4> HIDE DEF new
      <4> QED BY <4>1, <2>1
    <3> QED BY <3>2, <3>3
  <2>3. CASE waiting[i] \in [kind : {"move"}, s : Sessions, from : Place, to : Rooms]
    <3>1. waiting[i].kind = "move" BY <2>3
    <3>2. new(i) = waiting[i] BY <3>1
    <3> HIDE DEF new
    <3> QED BY <3>2, <2>1
  <2>4. CASE waiting[i] \in [kind : {"reconcile"}, roles : [Users -> SUBSET Rooms], done : SUBSET Sessions]
    <3>1. waiting[i].kind = "reconcile" BY <2>4
    <3>2. new(i) = [waiting[i] EXCEPT !.done = @ \ {s}] BY <3>1
    <3>3. /\ [waiting[i] EXCEPT !.done = @ \ {s}] \in [kind : {"reconcile"}, roles : [Users -> SUBSET Rooms], done : SUBSET Sessions]
          /\ [waiting[i] EXCEPT !.done = @ \ {s}].kind = "reconcile"
      BY <2>4, <3>1
    <3> HIDE DEF new
    <3> QED BY <3>1, <3>2, <3>3 DEF Entry, MoveOf
  <2> QED BY <2>1, <2>2, <2>3, <2>4 DEF Entry
<1>2. Forgotten(s) = f BY DEF Forgotten
<1>3. DOMAIN f = DOMAIN waiting /\ \A i \in DOMAIN waiting : f[i] = new(i) OBVIOUS
<1>4. f \in [1..Len(waiting) -> Entry]
  <2> HIDE DEF new
  <2> QED BY <1>0, <1>1
<1>5. f \in Seq(Entry) BY <1>0, <1>4, SeqDef
<1>6. Len(f) = Len(waiting) /\ (waiting = <<>> => f = <<>>)
  <2>1. Len(f) = Len(waiting) BY <1>0, <1>3, <1>5, LenProperties
  <2> QED BY <2>1, <1>5, EmptySeq
<1> HIDE DEF f, new
<1>7. ASSUME NEW p, NEW from, LastMove(waiting, p, from) PROVE LastMove(f, p, from)
  <2>1. PICK i \in DOMAIN waiting :
          /\ MoveOf(waiting[i], p) /\ waiting[i].from = from
          /\ \A j \in DOMAIN waiting : j > i => ~MoveOf(waiting[j], p)
    BY <1>7 DEF LastMove
  <2>2. f[i] = waiting[i] BY <2>1, <1>1, <1>3 DEF MoveOf
  <2>3. \A j \in DOMAIN f : j > i => ~MoveOf(f[j], p) BY <2>1, <1>1, <1>3
  <2> QED BY <2>1, <2>2, <2>3, <1>3 DEF LastMove
<1> QED BY <1>2, <1>5, <1>6, <1>7
-----------------------------------------------------------------------------
(* The inductive invariant. *)

\* Where nothing waits (peer to peer), lists and pictures are right at once.
SeatsRight(w, quiet) ==
  /\ w \in World
  /\ Fresh(w)
  /\ quiet => Silent(w) /\ Composed(w) /\ \A p \in Sessions : ShownRight(w, p)

MovesWait == \A s \in Sessions : moving[s] # None => LastMove(waiting, s, moving[s])

VoiceInv ==
  /\ sfu \in BOOLEAN
  /\ SeatsRight(Now, ~sfu)
  /\ waiting \in Seq(Entry)
  /\ ~sfu => waiting = <<>>
  /\ MovesWait

\* The record of the state holds the variables.
LEMMA NowFields ==
  /\ Now.may = may /\ Now.order = order /\ Now.room = room /\ Now.returns = returns
  /\ Now.moving = moving /\ Now.mic = mic /\ Now.views = views
BY DEF Now

\* An action that makes it a record makes the variables that record's.
LEMMA BecomesNow ==
  ASSUME NEW w \in World, Becomes(w)
  PROVE  Now' = w /\ moving' = w.moving
<1>1. w = [may |-> w.may, order |-> w.order, room |-> w.room, returns |-> w.returns,
           moving |-> w.moving, mic |-> w.mic, views |-> w.views]
  BY DEF World
<1> QED BY <1>1 DEF Becomes, Now

\* Records with the same fields are the same.
LEMMA SameWorld ==
  ASSUME NEW w \in World, NEW d \in World,
         w.may = d.may, w.order = d.order, w.room = d.room, w.returns = d.returns,
         w.moving = d.moving, w.mic = d.mic, w.views = d.views
  PROVE  w = d
BY DEF World

\* A step that makes another record of the state and leaves the moves alone.
LEMMA Steps ==
  ASSUME VoiceInv, NEW d, SeatsRight(d, ~sfu), Becomes(d), d.moving = moving, UNCHANGED sfu,
         waiting' \in Seq(Entry), ~sfu => waiting' = <<>>,
         \A s, from : LastMove(waiting, s, from) => LastMove(waiting', s, from)
  PROVE  VoiceInv'
<1>1. Now' = d /\ moving' = moving BY BecomesNow DEF SeatsRight
<1>2. SeatsRight(Now, ~sfu)' BY <1>1
<1>3. MovesWait' BY <1>1 DEF VoiceInv, MovesWait
<1> QED BY <1>2, <1>3 DEF VoiceInv

\* The invariant holds before anybody connects.
LEMMA InitSeats == Init => VoiceInv
<1> SUFFICES ASSUME Init PROVE VoiceInv OBVIOUS
<1>1. order \in Orders
  BY DEF Init, Orders, IsInjective
<1>2. views \in [Sessions -> View] /\ None \in Place
  BY DEF Init, Blank, NobodyShown, View, Place
<1>3. Now \in World BY <1>1, <1>2 DEF Init, Now, World, Place
<1>4. Online(Now) = {} BY NowFields DEF Init, Online, ToSet
<1>5. Fresh(Now) /\ Composed(Now) /\ \A p \in Sessions : ShownRight(Now, p)
  BY <1>4 DEF Fresh, Composed, ShownRight
<1>6. Silent(Now) BY NowFields DEF Init, Silent
<1>7. waiting \in Seq(Entry) /\ MovesWait BY DEF Init, MovesWait
<1> QED BY <1>3, <1>5, <1>6, <1>7 DEF Init, VoiceInv, SeatsRight

\* A session that signs in is new in the Map, whatever it was in before.
LEMMA SignInKeeps ==
  ASSUME VoiceInv, NEW s \in Sessions, SignIn(s)
  PROVE  VoiceInv'
<1> DEFINE o == Append(Without(order, s), s)
           w == [Now EXCEPT !.order = o]
           seen == Visible(w, UserOf[s])
           view == [listed |-> seen, key |-> Presence(w, UserOf[s]),
                    shows |-> [p \in Sessions |-> IF room[p] \in seen THEN room[p] ELSE None]]
           d == [w EXCEPT !.views[s] = view]
<1>0. Now \in World /\ Fresh(Now) /\ order \in Orders
  BY NowFields DEF VoiceInv, SeatsRight, World
<1>1. o \in Orders /\ ToSet(o) = ToSet(order) \union {s}
  <2>1. Without(order, s) \in Orders /\ ToSet(Without(order, s)) = ToSet(order) \ {s}
    BY <1>0, WithoutProperties
  <2>2. s \notin ToSet(Without(order, s)) BY <2>1
  <2> HIDE DEF o
  <2>3. o \in Orders /\ ToSet(o) = ToSet(Without(order, s)) \union {s}
    BY <2>1, <2>2, AppendNew DEF o
  <2> QED BY <2>1, <2>3
<1>2. Becomes(d) /\ waiting' = Forgotten(s) /\ UNCHANGED sfu
  BY NowFields DEF SignIn
<1> HIDE DEF o
<1>3. /\ w \in World /\ w.order = o /\ w.may = may /\ w.room = room /\ w.returns = returns
      /\ w.moving = moving /\ w.mic = mic /\ w.views = views
  BY <1>0, <1>1, NowFields DEF World
<1> HIDE DEF w
<1>4. /\ Presence(w, UserOf[s]) \in SUBSET Rooms /\ seen \in SUBSET Rooms
      /\ Presence(w, UserOf[s]) \subseteq seen
      /\ seen = may[UserOf[s]] \union Presence(w, UserOf[s])
  BY <1>3, UserType, PresenceType, VisibleType DEF Visible
<1> HIDE DEF seen
<1>5. /\ view \in View /\ view.listed = seen /\ view.key = Presence(w, UserOf[s])
      /\ \A p \in Sessions : view.shows[p] = IF room[p] \in seen THEN room[p] ELSE None
  <2>1. room \in [Sessions -> Place] BY <1>0, NowFields DEF World
  <2>2. [p \in Sessions |-> IF room[p] \in seen THEN room[p] ELSE None] \in [Sessions -> Place]
    BY <2>1 DEF Place
  <2> QED BY <2>2, <1>4 DEF View
<1> HIDE DEF view
<1>6. /\ d \in World /\ d.order = o /\ d.may = may /\ d.room = room /\ d.returns = returns
      /\ d.moving = moving /\ d.mic = mic
      /\ d.views[s] = view /\ \A v \in Sessions \ {s} : d.views[v] = views[v]
  BY <1>3, <1>5 DEF World
<1> HIDE DEF d
<1>7. \A u : Presence(d, u) = Presence(Now, u) /\ Presence(w, u) = Presence(Now, u)
  BY <1>3, <1>6, NowFields, PresenceSame
<1>8. \A v \in Online(d) : v \in Sessions /\ (v = s \/ v \in Online(Now))
  BY <1>1, <1>6, NowFields, OnlineType DEF Online
<1>9. Fresh(d)
  <2> SUFFICES ASSUME NEW v \in Online(d)
               PROVE  d.views[v].key = Presence(d, UserOf[v]) /\ d.views[v].key \subseteq d.views[v].listed
    BY DEF Fresh
  <2>1. CASE v = s BY <2>1, <1>4, <1>5, <1>6, <1>7
  <2>2. CASE v # s BY <2>2, <1>0, <1>6, <1>7, <1>8, NowFields DEF Fresh
  <2> QED BY <2>1, <2>2
<1>10. ASSUME ~sfu PROVE Silent(d) /\ Composed(d) /\ \A p \in Sessions : ShownRight(d, p)
  <2>1. Silent(Now) /\ Composed(Now) /\ \A p \in Sessions : ShownRight(Now, p)
    BY <1>10 DEF VoiceInv, SeatsRight
  <2>2. Silent(d) BY <2>1, <1>6, NowFields DEF Silent
  <2>3. Composed(d)
    <3> SUFFICES ASSUME NEW v \in Online(d)
                 PROVE  d.views[v].listed = d.may[UserOf[v]] \union d.views[v].key
      BY DEF Composed
    <3>1. CASE v = s BY <3>1, <1>4, <1>5, <1>6
    <3>2. CASE v # s BY <3>2, <2>1, <1>6, <1>8, NowFields DEF Composed
    <3> QED BY <3>1, <3>2
  <2>4. ASSUME NEW p \in Sessions PROVE ShownRight(d, p)
    <3> SUFFICES ASSUME NEW v \in Online(d)
                 PROVE  d.views[v].shows[p] = IF d.room[p] \in d.views[v].listed THEN d.room[p] ELSE None
      BY DEF ShownRight
    <3>1. CASE v = s BY <3>1, <1>5, <1>6
    <3>2. CASE v # s BY <3>2, <2>1, <1>6, <1>8, NowFields DEF ShownRight
    <3> QED BY <3>1, <3>2
  <2> QED BY <2>2, <2>3, <2>4
<1>11. SeatsRight(d, ~sfu) BY <1>6, <1>9, <1>10 DEF SeatsRight
<1>12. /\ waiting' \in Seq(Entry) /\ (~sfu => waiting' = <<>>)
       /\ \A p, from : LastMove(waiting, p, from) => LastMove(waiting', p, from)
  BY <1>2, ForgottenMove DEF VoiceInv
<1> QED BY <1>2, <1>6, <1>11, <1>12, Steps

\* What a drop and a sign-out start from: the session's connection is gone.
LEMMA GoneSeats ==
  ASSUME VoiceInv, NEW s \in Sessions, NEW r \in Place
  PROVE  LET d == [Now EXCEPT !.order = Without(order, s), !.views[s] = Blank, !.returns[s] = r]
         IN /\ d \in World /\ d.moving = moving
            /\ Kept(d) /\ \A p \in Sessions : OwnListed(d, p)
            /\ ~sfu => Silent(d) /\ Composed(d) /\ \A p \in Sessions : ShownRight(d, p)
<1> DEFINE o == Without(order, s)
           d == [Now EXCEPT !.order = o, !.views[s] = Blank, !.returns[s] = r]
<1>0. Now \in World /\ Fresh(Now) /\ order \in Orders
  BY NowFields DEF VoiceInv, SeatsRight, World
<1>1. o \in Orders /\ ToSet(o) = ToSet(order) \ {s}
  BY <1>0, WithoutProperties
<1>2. Blank \in View BY DEF Blank, NobodyShown, View, Place
<1> HIDE DEF o
<1>3. /\ d \in World /\ d.order = o /\ d.may = may /\ d.room = room
      /\ d.moving = moving /\ d.mic = mic
      /\ \A v \in Sessions \ {s} : d.views[v] = views[v]
  BY <1>0, <1>1, <1>2, NowFields DEF World
<1> HIDE DEF d
<1>4. \A v \in Online(d) : v \in Sessions \ {s} /\ v \in Online(Now)
  BY <1>0, <1>1, <1>3, NowFields, OnlineType DEF Online
<1>5. Kept(Now) /\ \A p \in Sessions : OwnListed(Now, p) BY <1>0, FreshLists
<1>6. Kept(d) /\ \A p \in Sessions : OwnListed(d, p)
  BY <1>3, <1>4, <1>5, NowFields DEF Kept, OwnListed
<1>7. ASSUME ~sfu PROVE Silent(d) /\ Composed(d) /\ \A p \in Sessions : ShownRight(d, p)
  <2>1. Silent(Now) /\ Composed(Now) /\ \A p \in Sessions : ShownRight(Now, p)
    BY <1>7 DEF VoiceInv, SeatsRight
  <2> QED BY <2>1, <1>3, <1>4, NowFields DEF Silent, Composed, ShownRight
<1> QED BY <1>3, <1>6, <1>7 DEF d, o

\* A session that drops may return, and keeps its room in the list meanwhile.
LEMMA DropKeeps ==
  ASSUME VoiceInv, NEW s \in Sessions, Drop(s)
  PROVE  VoiceInv'
<1> DEFINE r == IF room[s] = None THEN returns[s] ELSE room[s]
           g == [Now EXCEPT !.order = Without(order, s), !.views[s] = Blank, !.returns[s] = r]
           e == EndVoice(g, s)
           d == SyncPresence(e)
<1>0. Now \in World /\ r \in Place BY NowFields DEF VoiceInv, SeatsRight, World
<1>1. Becomes(d) /\ waiting' = Forgotten(s) /\ UNCHANGED sfu
  BY NowFields DEF Drop, Now
<1>2. /\ g \in World /\ g.moving = moving
      /\ Kept(g) /\ \A p \in Sessions : OwnListed(g, p)
      /\ ~sfu => Silent(g) /\ Composed(g) /\ \A p \in Sessions : ShownRight(g, p)
  BY <1>0, GoneSeats
<1> HIDE DEF g
<1>3. /\ e \in World /\ e.moving = moving
      /\ Kept(e) /\ \A p \in Sessions : OwnListed(e, p)
      /\ ~sfu => Silent(e) /\ Composed(e) /\ \A p \in Sessions : ShownRight(e, p)
  BY <1>2, EndVoiceStep
<1> HIDE DEF e
<1>4. d \in World /\ d.moving = moving /\ d.mic = e.mic /\ Fresh(d)
  BY <1>3, SyncFields, SyncFresh
<1>5. ~sfu => Composed(d) /\ \A p \in Sessions : ShownRight(d, p)
  BY <1>3, SyncComposed, SyncRight
<1> HIDE DEF d
<1>6. SeatsRight(d, ~sfu) BY <1>3, <1>4, <1>5 DEF SeatsRight, Silent
<1>7. /\ waiting' \in Seq(Entry) /\ (~sfu => waiting' = <<>>)
      /\ \A p, from : LastMove(waiting, p, from) => LastMove(waiting', p, from)
  BY <1>1, ForgottenMove DEF VoiceInv
<1> QED BY <1>1, <1>4, <1>6, <1>7, Steps

\* A logout leaves the room and the Map.
LEMMA LogoutKeeps ==
  ASSUME VoiceInv, NEW s \in Sessions, Logout(s)
  PROVE  VoiceInv'
<1> DEFINE g == [Now EXCEPT !.order = Without(order, s), !.views[s] = Blank]
           e == EndVoice(g, s)
           d == ClearReturn(e, s)
<1>0. Now \in World /\ returns[s] \in Place /\ returns \in [Sessions -> Place]
  BY NowFields DEF VoiceInv, SeatsRight, World
<1>1. Becomes(d) /\ waiting' = Forgotten(s) /\ UNCHANGED sfu
  BY NowFields DEF Logout
<1>2. /\ g \in World /\ g.moving = moving
      /\ Kept(g) /\ \A p \in Sessions : OwnListed(g, p)
      /\ ~sfu => Silent(g) /\ Composed(g) /\ \A p \in Sessions : ShownRight(g, p)
  <2>1. g = [Now EXCEPT !.order = Without(order, s), !.views[s] = Blank, !.returns[s] = returns[s]]
    <3> DEFINE o == Without(order, s)
               k == [Now EXCEPT !.order = o, !.views[s] = Blank, !.returns[s] = returns[s]]
    <3>1. o \in Orders /\ Blank \in View /\ returns[s] \in Place /\ returns \in [Sessions -> Place]
      BY <1>0, NowFields, WithoutProperties DEF World, Blank, NobodyShown, View, Place
    <3>2. g = [Now EXCEPT !.order = o, !.views[s] = Blank] OBVIOUS
    <3> HIDE DEF o, g
    <3>3. /\ k \in World /\ k.may = may /\ k.order = o /\ k.room = room /\ k.returns = returns
          /\ k.moving = moving /\ k.mic = mic /\ k.views = [views EXCEPT ![s] = Blank]
      BY <3>1, <1>0, NowFields DEF World
    <3>4. /\ g \in World /\ g.may = may /\ g.order = o /\ g.room = room /\ g.returns = returns
          /\ g.moving = moving /\ g.mic = mic /\ g.views = [views EXCEPT ![s] = Blank]
      BY <3>1, <3>2, <1>0, NowFields DEF World
    <3> HIDE DEF k
    <3>5. g = k BY <3>3, <3>4, SameWorld
    <3> QED BY <3>5 DEF k, o
  <2> HIDE DEF g
  <2> QED BY <2>1, <1>0, GoneSeats
<1> HIDE DEF g
<1>3. /\ e \in World /\ e.moving = moving
      /\ Kept(e) /\ \A p \in Sessions : OwnListed(e, p)
      /\ ~sfu => Silent(e) /\ Composed(e) /\ \A p \in Sessions : ShownRight(e, p)
  BY <1>2, EndVoiceStep
<1> HIDE DEF e
<1>4. /\ d \in World /\ d.moving = moving /\ d.mic = e.mic /\ Fresh(d)
      /\ ~sfu => Composed(d) /\ \A p \in Sessions : ShownRight(d, p)
  BY <1>3, ClearReturnStep
<1> HIDE DEF d
<1>6. SeatsRight(d, ~sfu) BY <1>3, <1>4 DEF SeatsRight, Silent
<1>7. /\ waiting' \in Seq(Entry) /\ (~sfu => waiting' = <<>>)
      /\ \A p, from : LastMove(waiting, p, from) => LastMove(waiting', p, from)
  BY <1>1, ForgottenMove DEF VoiceInv
<1> QED BY <1>1, <1>4, <1>6, <1>7, Steps
\* A right to return that lapses, or that a refused join gives up.
LEMMA ReturnKeeps ==
  ASSUME VoiceInv, NEW s \in Sessions, Becomes(ClearReturn(Now, s)), UNCHANGED <<sfu, waiting>>
  PROVE  VoiceInv'
<1> DEFINE d == ClearReturn(Now, s)
<1>0. Now \in World /\ Fresh(Now) BY DEF VoiceInv, SeatsRight
<1>1. Kept(Now) /\ \A p \in Sessions : OwnListed(Now, p) BY <1>0, FreshLists
<1>2. /\ d \in World /\ d.moving = moving /\ d.mic = mic /\ Fresh(d)
      /\ Composed(Now) => Composed(d)
      /\ \A p \in Sessions : ShownRight(Now, p) => ShownRight(d, p)
  BY <1>0, <1>1, NowFields, ClearReturnStep
<1> HIDE DEF d
<1>3. ~sfu => Silent(d) BY <1>2, NowFields DEF VoiceInv, SeatsRight, Silent
<1>4. SeatsRight(d, ~sfu) BY <1>2, <1>3 DEF VoiceInv, SeatsRight
<1> QED BY <1>2, <1>4, Steps DEF VoiceInv, d

\* A leave gives up the room and the way back.
LEMMA LeaveKeeps ==
  ASSUME VoiceInv, NEW s \in Sessions, Leave(s)
  PROVE  VoiceInv'
<1> DEFINE c == ClearReturn(Now, s)
           e == EndVoice(c, s)
           d == SyncPresence(e)
<1>0. Now \in World /\ Fresh(Now) BY DEF VoiceInv, SeatsRight
<1>1. Kept(Now) /\ \A p \in Sessions : OwnListed(Now, p) BY <1>0, FreshLists
<1>2. Becomes(d) /\ UNCHANGED <<sfu, waiting>> BY DEF Leave
<1>3. /\ c \in World /\ c.moving = moving /\ c.mic = mic /\ Fresh(c)
      /\ Composed(Now) => Composed(c)
      /\ \A p \in Sessions : ShownRight(Now, p) => ShownRight(c, p)
  BY <1>0, <1>1, NowFields, ClearReturnStep
<1> HIDE DEF c
<1>4. Kept(c) /\ \A p \in Sessions : OwnListed(c, p) BY <1>3, FreshLists
<1>5. Silent(Now) => Silent(c) BY <1>3, NowFields DEF Silent
<1>6. /\ e \in World /\ e.moving = moving
      /\ Silent(c) => Silent(e)
      /\ Kept(e) /\ \A p \in Sessions : OwnListed(e, p)
      /\ Composed(c) => Composed(e)
      /\ \A p \in Sessions : ShownRight(c, p) => ShownRight(e, p)
  BY <1>3, <1>4, EndVoiceStep
<1> HIDE DEF e
<1>7. /\ d \in World /\ d.moving = moving /\ d.mic = e.mic /\ Fresh(d)
      /\ Composed(e) => Composed(d)
      /\ \A p \in Sessions : ShownRight(e, p) => ShownRight(d, p)
  BY <1>6, SyncFields, SyncFresh, SyncComposed, SyncRight
<1> HIDE DEF d
<1>8. Silent(e) => Silent(d) BY <1>7 DEF Silent
<1>9. SeatsRight(d, ~sfu) BY <1>3, <1>5, <1>6, <1>7, <1>8 DEF VoiceInv, SeatsRight
<1> QED BY <1>2, <1>7, <1>9, Steps DEF VoiceInv

\* A join tells at once, or waits for the microphone left behind.
LEMMA JoinKeeps ==
  ASSUME VoiceInv, NEW s \in Sessions, NEW r \in Rooms, Join(s, r)
  PROVE  VoiceInv'
<1> DEFINE e == Enter(Now, s, r)
           d == Admit(e, s, r, TRUE)
           entry == [kind |-> "join", s |-> s, r |-> r, connected |-> TRUE]
<1>0. Now \in World /\ Fresh(Now) BY DEF VoiceInv, SeatsRight
<1>1. Kept(Now) /\ \A p \in Sessions : OwnListed(Now, p) BY <1>0, FreshLists
<1>2. /\ UNCHANGED sfu
      /\ mic[s] # None => Becomes(e) /\ waiting' = Append(waiting, entry)
      /\ mic[s] = None => Becomes(d) /\ waiting' = waiting
  BY DEF Join, Waits, Hold
<1>3. /\ e \in World /\ e.room[s] = r /\ e.moving = moving /\ e.mic = mic /\ Fresh(e)
      /\ Composed(Now) => Composed(e)
      /\ \A p \in Sessions \ {s} : ShownRight(Now, p) => ShownRight(e, p)
      /\ ShownRight(Now, s) => HiddenRight(e, s)
  BY <1>0, <1>1, NowFields, EnterStep
<1> HIDE DEF e
<1>4. CASE mic[s] # None
  <2>1. sfu BY <1>4, NowFields DEF VoiceInv, SeatsRight, Silent
  <2>2. SeatsRight(e, ~sfu) BY <2>1, <1>3 DEF SeatsRight
  <2>3. entry \in Entry /\ \A p : ~MoveOf(entry, p) BY DEF Entry, MoveOf
  <2> HIDE DEF entry
  <2>4. /\ waiting' \in Seq(Entry)
        /\ \A p, from : LastMove(waiting, p, from) => LastMove(waiting', p, from)
    BY <2>3, <1>2, <1>4, AppendMove DEF VoiceInv
  <2> QED BY <2>1, <2>2, <2>4, <1>2, <1>3, <1>4, Steps
<1>5. CASE mic[s] = None
  <2>1. /\ d \in World /\ d.moving = moving /\ Fresh(d)
        /\ Silent(e) => Silent(d)
        /\ Composed(e) => Composed(d)
        /\ /\ Composed(e) /\ HiddenRight(e, s)
           /\ \A p \in Sessions \ {s} : ShownRight(e, p)
           => \A p \in Sessions : ShownRight(d, p)
    BY <1>3, AdmitStep
  <2> HIDE DEF d
  <2>2. Silent(Now) => Silent(e) BY <1>3, NowFields DEF Silent
  <2>3. SeatsRight(d, ~sfu) BY <2>1, <2>2, <1>3 DEF VoiceInv, SeatsRight
  <2> QED BY <2>1, <2>3, <1>2, <1>5, Steps DEF VoiceInv
<1> QED BY <1>4, <1>5

\* A step that replaces the move of one session.
LEMMA MoveSteps ==
  ASSUME VoiceInv, NEW d, SeatsRight(d, ~sfu), Becomes(d), UNCHANGED sfu,
         waiting' \in Seq(Entry), ~sfu => waiting' = <<>>, NEW s \in Sessions,
         \A p \in Sessions \ {s} : d.moving[p] = moving[p],
         \A p \in Sessions \ {s} : \A from : LastMove(waiting, p, from) => LastMove(waiting', p, from),
         d.moving[s] # None => LastMove(waiting', s, d.moving[s])
  PROVE  VoiceInv'
<1>1. Now' = d /\ moving' = d.moving BY BecomesNow DEF SeatsRight
<1>2. SeatsRight(Now, ~sfu)' BY <1>1
<1>3. MovesWait' BY <1>1 DEF VoiceInv, MovesWait
<1> QED BY <1>2, <1>3 DEF VoiceInv

\* A move tells at once, or waits and is then the last of its session.
LEMMA MoveKeeps ==
  ASSUME VoiceInv, NEW s \in Sessions, NEW to \in Rooms, Move(s, to)
  PROVE  VoiceInv'
<1> DEFINE from == room[s]
           e == Carry(Now, s, to)
           d == Settle(e, s, from, to, TRUE)
           entry == [kind |-> "move", s |-> s, from |-> from, to |-> to]
<1>0. Now \in World /\ Fresh(Now) BY DEF VoiceInv, SeatsRight
<1>1. from \in Place /\ from # None /\ moving \in [Sessions -> Place]
  BY <1>0, NowFields DEF World, Move
<1>2. /\ UNCHANGED sfu
      /\ mic[s] # None => Becomes(e) /\ waiting' = Append(waiting, entry)
      /\ mic[s] = None => Becomes(d) /\ waiting' = waiting
  BY DEF Move, Waits, Hold
<1>3. /\ e \in World /\ e.mic = mic /\ e.room[s] = to
      /\ e.moving = [moving EXCEPT ![s] = from]
      /\ Fresh(e)
      /\ Composed(Now) => Composed(e)
      /\ \A p \in Sessions \ {s} : ShownRight(Now, p) => ShownRight(e, p)
      /\ ShownRight(Now, s) => StillTold(e, s, from)
  BY <1>0, NowFields, CarryStep
<1> HIDE DEF e, from
<1>4. CASE mic[s] # None
  <2>1. sfu BY <1>4, NowFields DEF VoiceInv, SeatsRight, Silent
  <2>2. SeatsRight(e, ~sfu) BY <2>1, <1>3 DEF SeatsRight
  <2>3. /\ entry \in Entry /\ MoveOf(entry, s) /\ entry.from = from
        /\ \A p \in Sessions \ {s} : ~MoveOf(entry, p)
    BY <1>1 DEF Entry, MoveOf
  <2> HIDE DEF entry
  <2>4. /\ waiting' \in Seq(Entry)
        /\ \A p \in Sessions \ {s} : \A f : LastMove(waiting, p, f) => LastMove(waiting', p, f)
        /\ LastMove(waiting', s, from)
    BY <2>3, <1>2, <1>4, AppendMove DEF VoiceInv
  <2>5. e.moving[s] = from /\ \A p \in Sessions \ {s} : e.moving[p] = moving[p]
    BY <1>1, <1>3
  <2> QED BY <2>1, <2>2, <2>4, <2>5, <1>2, <1>4, MoveSteps
<1>5. CASE mic[s] = None
  <2>1. /\ d \in World /\ d.moving = [e.moving EXCEPT ![s] = None] /\ Fresh(d)
        /\ Silent(e) => Silent(d)
        /\ Composed(e) => Composed(d)
        /\ /\ Composed(e) /\ StillTold(e, s, from)
           /\ \A p \in Sessions \ {s} : ShownRight(e, p)
           => \A p \in Sessions : ShownRight(d, p)
    BY <1>1, <1>3, SettleStep
  <2> HIDE DEF d
  <2>2. Silent(Now) => Silent(e) BY <1>3, NowFields DEF Silent
  <2>3. SeatsRight(d, ~sfu) BY <2>1, <2>2, <1>3 DEF VoiceInv, SeatsRight
  <2>4. d.moving[s] = None /\ \A p \in Sessions \ {s} : d.moving[p] = moving[p]
    BY <2>1, <1>1, <1>3
  <2> QED BY <2>3, <2>4, <1>2, <1>5, MoveSteps DEF VoiceInv
<1> QED BY <1>4, <1>5

\* A change of roles runs a permission pass up to its first wait.
LEMMA ChangeRolesKeeps ==
  ASSUME VoiceInv, NEW u \in Users, NEW rooms \in SUBSET Rooms, ChangeRoles(u, rooms)
  PROVE  VoiceInv'
<1> DEFINE w == [Now EXCEPT !.may[u] = rooms]
           d == Reconcile(w, w.may, {})
           entry == [kind |-> "reconcile", roles |-> w.may, done |-> Stretch(w, {})]
<1>0. Now \in World /\ Fresh(Now) BY DEF VoiceInv, SeatsRight
<1>1. /\ UNCHANGED sfu /\ Becomes(d)
      /\ Paused(w, {}) => waiting' = Append(waiting, entry)
      /\ ~Paused(w, {}) => waiting' = waiting
  BY DEF ChangeRoles, Hold
<1>2. /\ w \in World /\ w.order = order /\ w.room = room /\ w.returns = returns
      /\ w.moving = moving /\ w.mic = mic /\ w.views = views
  BY <1>0, NowFields DEF World
<1> HIDE DEF w
<1>3. Online(w) = Online(Now) /\ \A x : Presence(w, x) = Presence(Now, x)
  BY <1>2, NowFields, PresenceSame DEF Online
<1>4. Fresh(w) /\ (\A p \in Sessions : ShownRight(Now, p) => ShownRight(w, p)) /\ (Silent(Now) => Silent(w))
  BY <1>0, <1>2, <1>3, NowFields DEF Fresh, ShownRight, Silent
<1>5. w.may \in [Users -> SUBSET Rooms] BY <1>2 DEF World
<1>6. /\ d \in World /\ d.moving = moving /\ d.mic = mic /\ Fresh(d)
      /\ \A p \in Sessions : ShownRight(w, p) => ShownRight(d, p)
      /\ Silent(w) => Composed(d)
  BY <1>2, <1>4, <1>5, ReconcileStep
<1>7. Stretch(w, {}) \in SUBSET Sessions /\ (Silent(w) => ~Paused(w, {}))
  BY <1>2, StretchOnline, OnlineType
<1>8. entry \in Entry /\ \A p : ~MoveOf(entry, p) BY <1>5, <1>7 DEF Entry, MoveOf
<1> HIDE DEF d, entry
<1>9. SeatsRight(d, ~sfu)
  BY <1>4, <1>6, NowFields DEF VoiceInv, SeatsRight, Silent
<1>10. /\ waiting' \in Seq(Entry)
       /\ \A p, from : LastMove(waiting, p, from) => LastMove(waiting', p, from)
  BY <1>1, <1>8, AppendMove DEF VoiceInv
<1>11. ~sfu => waiting' = <<>> BY <1>1, <1>4, <1>7 DEF VoiceInv, SeatsRight
<1> QED BY <1>1, <1>6, <1>9, <1>10, <1>11, Steps

\* A microphone is published in the room one is in.
LEMMA PublishKeeps ==
  ASSUME VoiceInv, NEW s \in Sessions, Publish(s)
  PROVE  VoiceInv'
<1> DEFINE d == [Now EXCEPT !.mic[s] = room[s]]
<1>0. Now \in World /\ Fresh(Now) BY DEF VoiceInv, SeatsRight
<1>1. sfu /\ UNCHANGED <<sfu, waiting>> /\ mic' = [mic EXCEPT ![s] = room[s]]
      /\ UNCHANGED <<may, order, room, returns, moving, views>>
  BY DEF Publish
<1>2. Becomes(d) BY <1>1 DEF Becomes, Now
<1>3. room[s] \in Place BY <1>0, NowFields DEF World
<1>4. d \in World /\ SameLists(Now, d) /\ d.moving = moving
  BY <1>0, <1>3, NowFields DEF World, SameLists
<1> HIDE DEF d
<1>5. SeatsRight(d, ~sfu) BY <1>0, <1>1, <1>4, SameListsFresh DEF SeatsRight
<1> QED BY <1>1, <1>2, <1>4, <1>5, Steps DEF VoiceInv
\* A join that waited tells of itself.
LEMMA JoinGoesOnKeeps ==
  ASSUME VoiceInv, JoinGoesOn
  PROVE  VoiceInv'
<1> DEFINE h == Head(waiting)
           d == Admit(Now, h.s, h.r, h.connected)
<1>0. Now \in World /\ Fresh(Now) /\ waiting \in Seq(Entry) BY DEF VoiceInv, SeatsRight
<1>1. /\ waiting # <<>> /\ h.kind = "join" /\ Becomes(d) /\ waiting' = Tail(waiting) /\ UNCHANGED sfu
  BY DEF JoinGoesOn
<1>2. sfu BY <1>1 DEF VoiceInv
<1>3. h \in Entry BY <1>0, <1>1, TailMove
<1> HIDE DEF h
<1>4. h.s \in Sessions /\ h.r \in Rooms /\ h.connected \in BOOLEAN /\ \A p : ~MoveOf(h, p)
  BY <1>1, <1>3 DEF Entry, MoveOf
<1>5. d \in World /\ d.moving = moving /\ Fresh(d) BY <1>0, <1>4, NowFields, AdmitStep
<1> HIDE DEF d
<1>6. SeatsRight(d, ~sfu) BY <1>2, <1>5 DEF SeatsRight
<1>7. /\ waiting' \in Seq(Entry)
      /\ \A p, from : LastMove(waiting, p, from) => LastMove(waiting', p, from)
  BY <1>0, <1>1, <1>4, TailMove DEF h
<1> QED BY <1>1, <1>2, <1>5, <1>6, <1>7, Steps

\* A move that waited tells of itself, unless a later one took over.
LEMMA MoveGoesOnKeeps ==
  ASSUME VoiceInv, MoveGoesOn
  PROVE  VoiceInv'
<1> DEFINE h == Head(waiting)
           later == {i \in 2..Len(waiting) : waiting[i].kind = "move" /\ waiting[i].s = h.s}
           last == later = {}
           d == Settle(Now, h.s, h.from, h.to, last)
<1>0. Now \in World /\ Fresh(Now) /\ waiting \in Seq(Entry) /\ moving \in [Sessions -> Place]
  BY NowFields DEF VoiceInv, SeatsRight, World
<1>1. /\ waiting # <<>> /\ h.kind = "move" /\ Becomes(d) /\ waiting' = Tail(waiting) /\ UNCHANGED sfu
  BY DEF MoveGoesOn
<1>2. sfu BY <1>1 DEF VoiceInv
<1>3. h \in Entry BY <1>0, <1>1, TailMove
<1>4. later # {} => \E i \in 2..Len(waiting) : MoveOf(waiting[i], h.s) BY DEF MoveOf
<1>11. last \in BOOLEAN /\ (~last => later # {}) OBVIOUS
<1> HIDE DEF h, later, last
<1>5. h.s \in Sessions /\ h.from \in Place /\ h.to \in Rooms /\ \A p \in Sessions \ {h.s} : ~MoveOf(h, p)
  BY <1>1, <1>3 DEF Entry, MoveOf
<1>6. /\ d \in World /\ Fresh(d)
      /\ last => d.moving = [moving EXCEPT ![h.s] = None]
      /\ ~last => d.moving = moving
  <2>1. h.s \in Sessions /\ h.from \in Place /\ h.to \in Rooms /\ Now \in World /\ Fresh(Now) /\ last \in BOOLEAN
    BY <1>0, <1>5, <1>11
  <2>2. /\ d \in World /\ Fresh(d)
        /\ last => d.moving = [Now.moving EXCEPT ![h.s] = None]
        /\ ~last => d.moving = Now.moving
    BY <2>1, SettleStep
  <2> HIDE DEF d
  <2> QED BY <2>2, NowFields
<1> HIDE DEF d
<1>7. SeatsRight(d, ~sfu) BY <1>2, <1>6 DEF SeatsRight
<1>8. /\ waiting' \in Seq(Entry)
      /\ \A p \in Sessions \ {h.s} : \A from : LastMove(waiting, p, from) => LastMove(waiting', p, from)
      /\ ~last => \A from : LastMove(waiting, h.s, from) => LastMove(waiting', h.s, from)
  BY <1>11, <1>0, <1>1, <1>4, <1>5, TailMove DEF h
<1>9. d.moving[h.s] # None => LastMove(waiting', h.s, d.moving[h.s])
  BY <1>11, <1>0, <1>5, <1>6, <1>8 DEF VoiceInv, MovesWait
<1>10. \A p \in Sessions \ {h.s} : d.moving[p] = moving[p] BY <1>0, <1>6
<1> QED BY <1>1, <1>2, <1>5, <1>7, <1>8, <1>9, <1>10, MoveSteps

\* A pass that waited goes on with the roles it read, up to its next wait.
LEMMA ReconcileGoesOnKeeps ==
  ASSUME VoiceInv, ReconcileGoesOn
  PROVE  VoiceInv'
<1> DEFINE h == Head(waiting)
           d == Reconcile(Now, h.roles, h.done)
           entry == [h EXCEPT !.done = @ \union Stretch(Now, h.done)]
<1>0. Now \in World /\ Fresh(Now) /\ waiting \in Seq(Entry) BY DEF VoiceInv, SeatsRight
<1>1. /\ waiting # <<>> /\ h.kind = "reconcile" /\ Becomes(d) /\ UNCHANGED sfu
      /\ Paused(Now, h.done) => waiting' = Append(Tail(waiting), entry)
      /\ ~Paused(Now, h.done) => waiting' = Tail(waiting)
  BY DEF ReconcileGoesOn
<1>2. sfu BY <1>1 DEF VoiceInv
<1>3. h \in Entry BY <1>0, <1>1, TailMove
<1>4. Tail(waiting) \in Seq(Entry)
  BY <1>0, <1>1, TailMove
<1>5. \A p, from : ~MoveOf(h, p) /\ LastMove(waiting, p, from) => LastMove(Tail(waiting), p, from)
  BY <1>0, <1>1, TailMove
<1> HIDE DEF h
<1>6. /\ h \in [kind : {"reconcile"}, roles : [Users -> SUBSET Rooms], done : SUBSET Sessions]
      /\ \A p : ~MoveOf(h, p)
  BY <1>1, <1>3 DEF Entry, MoveOf
<1>7. Stretch(Now, h.done) \in SUBSET Sessions BY <1>0, StretchOnline, OnlineType
<1>8. entry \in Entry /\ \A p : ~MoveOf(entry, p)
  <2>1. entry \in [kind : {"reconcile"}, roles : [Users -> SUBSET Rooms], done : SUBSET Sessions]
    BY <1>6, <1>7
  <2>2. entry.kind = "reconcile" BY <2>1
  <2> HIDE DEF entry
  <2> QED BY <2>1, <2>2 DEF Entry, MoveOf
<1>9. d \in World /\ d.moving = moving /\ Fresh(d) BY <1>0, <1>6, NowFields, ReconcileStep
<1> HIDE DEF d, entry
<1>10. SeatsRight(d, ~sfu) BY <1>2, <1>9 DEF SeatsRight
<1>11. /\ waiting' \in Seq(Entry)
       /\ \A p, from : LastMove(waiting, p, from) => LastMove(waiting', p, from)
  <2>1. \A p, from : LastMove(waiting, p, from) => LastMove(Tail(waiting), p, from) BY <1>5, <1>6
  <2>2. CASE Paused(Now, h.done)
    <3>1. Append(Tail(waiting), entry) \in Seq(Entry) BY <1>4, <1>8, AppendMove
    <3>2. \A p, from : LastMove(Tail(waiting), p, from) => LastMove(Append(Tail(waiting), entry), p, from)
      BY <1>4, <1>8, AppendMove
    <3> QED BY <3>1, <3>2, <2>1, <2>2, <1>1
  <2>3. CASE ~Paused(Now, h.done) BY <2>1, <2>3, <1>1, <1>4
  <2> QED BY <2>2, <2>3
<1> QED BY <1>1, <1>2, <1>9, <1>10, <1>11, Steps

\* One step per handler, for each of the invariant's parts.
LEMMA VoiceStep == VoiceInv /\ [Next]_vars => VoiceInv'
<1> SUFFICES ASSUME VoiceInv, [Next]_vars PROVE VoiceInv' OBVIOUS
<1>1. ASSUME NEW s \in Sessions, SignIn(s) PROVE VoiceInv' BY <1>1, SignInKeeps
<1>2. ASSUME NEW s \in Sessions, Drop(s) PROVE VoiceInv' BY <1>2, DropKeeps
<1>3. ASSUME NEW s \in Sessions, Logout(s) PROVE VoiceInv' BY <1>3, LogoutKeeps
<1>4. ASSUME NEW s \in Sessions, ReturnLapses(s) PROVE VoiceInv'
  BY <1>4, ReturnKeeps DEF ReturnLapses
<1>5. ASSUME NEW s \in Sessions, NEW r \in Rooms, Join(s, r) PROVE VoiceInv' BY <1>5, JoinKeeps
<1>6. ASSUME NEW s \in Sessions, NEW r \in Rooms, JoinRefused(s, r) PROVE VoiceInv'
  BY <1>6, ReturnKeeps DEF JoinRefused
<1>7. ASSUME NEW s \in Sessions, NEW r \in Rooms, Move(s, r) PROVE VoiceInv' BY <1>7, MoveKeeps
<1>8. ASSUME NEW s \in Sessions, Leave(s) PROVE VoiceInv' BY <1>8, LeaveKeeps
<1>9. ASSUME NEW s \in Sessions, Publish(s) PROVE VoiceInv' BY <1>9, PublishKeeps
<1>10. ASSUME NEW u \in Governed, NEW rooms \in SUBSET Rooms, ChangeRoles(u, rooms) PROVE VoiceInv'
  BY <1>10, ChangeRolesKeeps, VoiceRoomsAssumption
<1>11. CASE JoinGoesOn BY <1>11, JoinGoesOnKeeps
<1>12. CASE MoveGoesOn BY <1>12, MoveGoesOnKeeps
<1>13. CASE ReconcileGoesOn BY <1>13, ReconcileGoesOnKeeps
<1>14. CASE UNCHANGED vars
  <2>1. Now' = Now /\ sfu' = sfu /\ waiting' = waiting /\ moving' = moving BY <1>14 DEF vars, Now
  <2> QED BY <2>1 DEF VoiceInv, MovesWait
<1> QED
  BY <1>1, <1>2, <1>3, <1>4, <1>5, <1>6, <1>7, <1>8, <1>9, <1>10, <1>11, <1>12, <1>13, <1>14 DEF Next

\* So the invariant always holds.
LEMMA VoiceAlways == Spec => []VoiceInv
BY InitSeats, VoiceStep, PTL DEF Spec

-----------------------------------------------------------------------------
(* The theorems. *)

\* A person has the rooms they are inside, are being moved out of or may return
\* to in the list of every connection, however passes and moves that wait for
\* a microphone interleave (ChannelVisibility.ts, voicePresenceChannelIds).
THEOREM PresenceAlwaysListed == Spec => []PresenceIsListed
<1>1. VoiceInv => PresenceIsListed BY DEF VoiceInv, SeatsRight, Fresh, PresenceIsListed, Now
<1> QED BY <1>1, VoiceAlways, PTL

\* A room a session is being moved out of is kept for it only while that move
\* waits (movingOut in VoiceSessionHandler.ts).
THEOREM NoMoveLeft == Spec => []MovingIsWaiting
<1>1. VoiceInv => MovingIsWaiting BY DEF VoiceInv, MovesWait, LastMove, MoveOf, MovingIsWaiting
<1> QED BY <1>1, VoiceAlways, PTL

\* Peer to peer, every client shows exactly those inside the rooms it lists.
THEOREM RostersAlwaysAgree == Spec => []RostersAgree
<1>1. VoiceInv => RostersAgree BY DEF VoiceInv, SeatsRight, ShownRight, RostersAgree, Now
<1> QED BY <1>1, VoiceAlways, PTL

\* One more handler waits.
LEMMA AppendLength ==
  ASSUME NEW S, NEW q \in Seq(S), NEW e
  PROVE  Len(Append(q, e)) = Len(q) + 1
BY LenProperties

\* Handlers wait only while there is room for another.
LEMMA BoundStep ==
  ASSUME VoiceInv, VoiceInv', Len(waiting) <= MaxWaiting, [Next]_vars
  PROVE  Len(waiting') <= MaxWaiting
<1>1. waiting \in Seq(Entry) /\ waiting' \in Seq(Entry) BY DEF VoiceInv
<1>2. MaxWaiting \in Nat /\ Len(waiting) \in Nat /\ Len(waiting') \in Nat
  BY <1>1, LenProperties, VoiceRoomsAssumption
<1>3. ASSUME NEW e, Hold(e) PROVE Len(waiting') <= MaxWaiting
  BY <1>1, <1>2, <1>3, AppendLength DEF Hold
<1>4. ASSUME NEW s \in Sessions, waiting' = Forgotten(s) PROVE Len(waiting') <= MaxWaiting
  BY <1>1, <1>4, ForgottenMove
<1>5. ASSUME waiting # <<>>, waiting' = Tail(waiting) PROVE Len(waiting') <= MaxWaiting
  BY <1>1, <1>2, <1>5, HeadTailProperties
<1>6. CASE ReconcileGoesOn
  <2>1. waiting # <<>> /\ (waiting' = Tail(waiting) \/ \E e : waiting' = Append(Tail(waiting), e))
    BY <1>6 DEF ReconcileGoesOn
  <2>2. Tail(waiting) \in Seq(Entry) /\ Len(Tail(waiting)) = Len(waiting) - 1
    BY <2>1, <1>1, HeadTailProperties
  <2> QED BY <2>1, <2>2, <1>2, <1>5, AppendLength
<1> QED
  BY <1>3, <1>4, <1>5, <1>6
  DEF Next, SignIn, Drop, Logout, ReturnLapses, Join, JoinRefused, Leave, Move, ChangeRoles,
      Publish, JoinGoesOn, MoveGoesOn, vars

\* Every variable keeps its type, a session is in the server's Map once, and no
\* more handlers wait than the bound.
THEOREM VoiceTypes == Spec => []TypeOK
<1>1. Init => Len(waiting) <= MaxWaiting BY VoiceRoomsAssumption DEF Init
<1>2. VoiceInv /\ Len(waiting) <= MaxWaiting => TypeOK
  <2> SUFFICES ASSUME VoiceInv PROVE
         /\ sfu \in BOOLEAN
         /\ may \in [Users -> SUBSET Rooms]
         /\ order \in Seq(Sessions) /\ IsInjective(order)
         /\ room \in [Sessions -> Place]
         /\ returns \in [Sessions -> Place]
         /\ moving \in [Sessions -> Place]
         /\ mic \in [Sessions -> Place]
         /\ views \in [Sessions -> View]
    BY DEF TypeOK, View
  <2>1. Now \in World /\ sfu \in BOOLEAN BY DEF VoiceInv, SeatsRight
  <2> QED BY <2>1, NowFields DEF World, Orders
<1>3. VoiceInv /\ VoiceInv' /\ Len(waiting) <= MaxWaiting /\ [Next]_vars => (Len(waiting) <= MaxWaiting)'
  BY BoundStep
<1> QED BY <1>1, <1>2, <1>3, VoiceAlways, PTL DEF Spec

=============================================================================
