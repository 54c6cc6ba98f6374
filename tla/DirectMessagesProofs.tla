------------------------ MODULE DirectMessagesProofs ------------------------
(***************************************************************************)
(* Theorems about DirectMessages, for any number of devices, messages,     *)
(* texts, clocks, crashes, and any set of slow devices.                    *)
(***************************************************************************)
EXTENDS DirectMessages, TLAPS

-----------------------------------------------------------------------------
(* What a merge of two copies of one message does, for every text, clock   *)
(* and mark.                                                               *)

\* What two devices show and compare of a message.
Agree(x, y) == fingerprint(x) = fingerprint(y) /\ x.text = y.text

\* A text nobody edited is the one that was sent, the same on every device.
SameOrigin(c, d) ==
  ~c.deleted /\ ~d.deleted /\ contentClock(c) = 0 /\ contentClock(d) = 0 => c.text = d.text

\* Does the text of d replace that of c?
Takes(c, d, gone) == /\ ~c.deleted /\ ~d.deleted /\ ~gone /\ contentClock(d) # 0
                     /\ contentWins(contentClock(d), d.text, c)

\* The types of the parts of a copy.
LEMMA CopyParts ==
  ASSUME NEW c \in StoredMessages
  PROVE  /\ c.text \in Nat /\ c.text \in Texts \cup {NoText}
         /\ c.at \in Nat /\ c.edited \in Nat /\ c.deleted \in BOOLEAN
         /\ c.delivery \in Deliveries /\ contentClock(c) \in Nat
<1>1. c.text \in Texts \cup {NoText} /\ c.at \in Nat /\ c.edited \in Nat
      /\ c.deleted \in BOOLEAN /\ c.delivery \in Deliveries
  BY DEF StoredMessages
<1>2. c.text \in Nat
  <2>1. CASE c.text \in Texts
    BY <2>1, TextsAssumption
  <2>2. CASE c.text = NoText
    BY <2>2 DEF NoText
  <2> QED  BY <1>1, <2>1, <2>2
<1>3. contentClock(c) \in Nat
  BY <1>1 DEF contentClock
<1> QED  BY <1>1, <1>2, <1>3

\* What a merge of c with d leaves, part by part.
Parts(m, c, d, gone) ==
  LET deleted == c.deleted \/ d.deleted \/ gone
  IN  /\ m \in StoredMessages
      /\ m.deleted = deleted
      /\ m.edited = IF d.edited > c.edited THEN d.edited ELSE c.edited
      /\ ~c.deleted /\ deleted => m.text = NoText
      /\ c.deleted => m.text = c.text
      /\ ~deleted /\ Takes(c, d, gone) => m.text = d.text /\ m.at = contentClock(d)
      /\ ~deleted /\ ~Takes(c, d, gone) => m.text = c.text /\ m.at = c.at

LEMMA MergeParts ==
  ASSUME NEW c \in StoredMessages, NEW d \in StoredMessages, NEW gone \in BOOLEAN
  PROVE  Parts(merged(c, wire(d), gone), c, d, gone)
<1> DEFINE w == wire(d)
           b == mergedText(c, w, gone)
<1>1. w = [text |-> d.text, at |-> contentClock(d), edited |-> d.edited, deleted |-> d.deleted]
  BY DEF wire
<1>2. /\ w.text = d.text /\ w.at = contentClock(d) /\ w.edited = d.edited /\ w.deleted = d.deleted
  BY <1>1
<1>3. NewestMark(c, w) = IF d.edited > c.edited THEN d.edited ELSE c.edited
  BY <1>2 DEF NewestMark
<1>4. NewestMark(c, w) \in Nat
  BY <1>3, CopyParts
<1>5. \A x \in StoredMessages, n \in Nat :
        /\ [x EXCEPT !.edited = n] \in StoredMessages
        /\ LET y == [x EXCEPT !.edited = n]
           IN  y.text = x.text /\ y.at = x.at /\ y.edited = n /\ y.deleted = x.deleted
  BY DEF StoredMessages
<1>6. b \in StoredMessages /\ b.deleted = (c.deleted \/ d.deleted \/ gone)
      /\ (~c.deleted /\ (d.deleted \/ gone) => b.text = NoText)
      /\ (c.deleted => b.text = c.text)
      /\ (Takes(c, d, gone) => b.text = d.text /\ b.at = contentClock(d))
      /\ (~c.deleted /\ ~d.deleted /\ ~gone /\ ~Takes(c, d, gone) => b.text = c.text /\ b.at = c.at)
  <2>1. CASE ~c.deleted /\ (d.deleted \/ gone)
    <3>1. b = markDeleted(c)
      BY <1>2, <2>1 DEF mergedText
    <3>2. /\ markDeleted(c) \in StoredMessages
          /\ markDeleted(c).deleted = TRUE /\ markDeleted(c).text = NoText
      BY DEF markDeleted, StoredMessages
    <3> QED  BY <2>1, <3>1, <3>2 DEF Takes
  <2>2. CASE Takes(c, d, gone)
    <3>1. b = [c EXCEPT !.text = d.text, !.at = contentClock(d)]
      BY <1>2, <2>2 DEF mergedText, Takes
    <3>2. /\ d.text \in Texts \cup {NoText} /\ contentClock(d) \in Nat /\ c.edited \in Nat
          /\ c.deleted \in BOOLEAN /\ c.delivery \in Deliveries
      BY CopyParts
    <3>3. c = [text |-> c.text, at |-> c.at, edited |-> c.edited, deleted |-> c.deleted,
               delivery |-> c.delivery]
      BY DEF StoredMessages
    <3>4. b = [text |-> d.text, at |-> contentClock(d), edited |-> c.edited,
               deleted |-> c.deleted, delivery |-> c.delivery]
      BY <3>1, <3>3
    <3> HIDE DEF b
    <3>5. b \in StoredMessages
      BY <3>2, <3>4 DEF StoredMessages
    <3>6. b.text = d.text /\ b.at = contentClock(d) /\ b.deleted = c.deleted
      BY <3>4
    <3>7. ~c.deleted /\ ~d.deleted /\ ~gone
      BY <2>2 DEF Takes
    <3>8. ~b.deleted
      BY <3>6, <3>7
    <3>9. d.deleted \in BOOLEAN /\ c.deleted \in BOOLEAN /\ b.deleted \in BOOLEAN
      BY <3>2, <3>6, CopyParts
    <3> QED  BY <2>2, <3>5, <3>6, <3>7, <3>8, <3>9
  <2>3. CASE ~(~c.deleted /\ (d.deleted \/ gone)) /\ ~Takes(c, d, gone)
    <3>1. b = c
      BY <1>2, <2>3 DEF mergedText, Takes
    <3> QED  BY <2>3, <3>1, CopyParts
  <2> QED  BY <2>1, <2>2, <2>3
<1>7. merged(c, w, gone) = [b EXCEPT !.edited = NewestMark(c, w)]
  BY DEF merged
<1> HIDE DEF b, w
<1>8. Parts([b EXCEPT !.edited = NewestMark(c, w)], c, d, gone)
  BY <1>3, <1>4, <1>5, <1>6 DEF Parts
<1> QED  BY <1>7, <1>8 DEF w

\* mergeHistory keeps a copy well formed: a clock behind the "edited" mark would
\* make an older text win later.
THEOREM MergeWellFormed ==
  ASSUME NEW c, NEW d, WellFormed(c), WellFormed(d), NEW gone \in BOOLEAN
  PROVE  WellFormed(merged(c, wire(d), gone))
<1> DEFINE m == merged(c, wire(d), gone)
<1>1. /\ c \in StoredMessages /\ d \in StoredMessages
      /\ (~c.deleted => c.at >= c.edited) /\ (~d.deleted => d.at >= d.edited)
      /\ (c.deleted => c.text = NoText)
  BY DEF WellFormed
<1>3. Parts(m, c, d, gone)
  BY <1>1, MergeParts
<1>4. /\ c.text \in Nat /\ c.at \in Nat /\ c.edited \in Nat /\ c.deleted \in BOOLEAN
      /\ d.text \in Nat /\ d.at \in Nat /\ d.edited \in Nat /\ d.deleted \in BOOLEAN
  BY <1>1, CopyParts
<1> HIDE DEF m
<1>2. ~m.deleted => m.at >= m.edited
  <2> SUFFICES ASSUME ~m.deleted PROVE m.at >= m.edited
    OBVIOUS
  <2>1. ~c.deleted /\ ~d.deleted /\ ~gone
    BY <1>3 DEF Parts
  <2>2. c.at >= c.edited /\ d.at >= d.edited /\ contentClock(c) = c.at /\ contentClock(d) = d.at
    BY <1>1, <1>4, <2>1 DEF contentClock
  <2>3. Takes(c, d, gone) => d.at >= c.at /\ m.at = d.at
    BY <1>3, <1>4, <2>1, <2>2 DEF Takes, contentWins, Parts
  <2>4. ~Takes(c, d, gone) => c.at >= d.at /\ m.at = c.at
    BY <1>3, <1>4, <2>1, <2>2 DEF Takes, contentWins, Parts
  <2>5. m.edited = IF d.edited > c.edited THEN d.edited ELSE c.edited
    BY <1>3 DEF Parts
  <2> QED  BY <1>4, <2>2, <2>3, <2>4, <2>5
<1>5. m \in StoredMessages /\ (m.deleted => m.text = NoText)
  BY <1>1, <1>3, <1>4 DEF Parts
<1> QED  BY <1>2, <1>5 DEF WellFormed, m

\* "Both sides of a merge end with the same one in this round": two devices that
\* send each other the copy they had end with the same text and version.
THEOREM MergeAgrees ==
  ASSUME NEW c, NEW d, WellFormed(c), WellFormed(d), SameOrigin(c, d)
  PROVE  Agree(merged(c, wire(d), FALSE), merged(d, wire(c), FALSE))
<1> DEFINE x == merged(c, wire(d), FALSE)
           y == merged(d, wire(c), FALSE)
<1>1. /\ c \in StoredMessages /\ d \in StoredMessages
      /\ (~c.deleted => c.at >= c.edited) /\ (~d.deleted => d.at >= d.edited)
      /\ (c.deleted => c.text = NoText) /\ (d.deleted => d.text = NoText)
  BY DEF WellFormed
<1>2. Parts(x, c, d, FALSE) /\ Parts(y, d, c, FALSE)
  BY <1>1, MergeParts
<1>3. /\ c.text \in Nat /\ c.at \in Nat /\ c.edited \in Nat /\ c.deleted \in BOOLEAN
      /\ d.text \in Nat /\ d.at \in Nat /\ d.edited \in Nat /\ d.deleted \in BOOLEAN
  BY <1>1, CopyParts
<1> SUFFICES Agree(x, y)
  OBVIOUS
<1> HIDE DEF x, y
<1>4. x.deleted = y.deleted /\ x.edited = y.edited
  BY <1>2, <1>3 DEF Parts
<1>5. CASE c.deleted \/ d.deleted
  <2>1. x.deleted /\ x.text = NoText /\ y.text = NoText
    BY <1>1, <1>2, <1>3, <1>5 DEF Parts
  <2> QED  BY <1>4, <2>1 DEF Agree, fingerprint
<1>6. CASE ~c.deleted /\ ~d.deleted
  <2>1. contentClock(c) = c.at /\ contentClock(d) = d.at
    BY <1>1, <1>3, <1>6 DEF contentClock
  <2>2. Takes(c, d, FALSE) => ~Takes(d, c, FALSE)
    BY <1>3, <2>1 DEF Takes, contentWins
  <2>3. ~Takes(c, d, FALSE) /\ ~Takes(d, c, FALSE) => c.text = d.text /\ c.at = d.at
    BY <1>3, <1>6, <2>1 DEF Takes, contentWins, SameOrigin
  <2>4. x.text = y.text /\ x.at = y.at
    BY <1>2, <1>6, <2>1, <2>2, <2>3 DEF Parts
  <2> QED  BY <1>4, <2>4 DEF Agree, fingerprint
<1> QED  BY <1>5, <1>6

\* A copy that arrives twice, or late after its own merge, changes neither the
\* text nor the version.
THEOREM MergeIdempotent ==
  ASSUME NEW c, NEW d, WellFormed(c), WellFormed(d), NEW gone \in BOOLEAN
  PROVE  Agree(merged(merged(c, wire(d), gone), wire(d), gone), merged(c, wire(d), gone))
<1> DEFINE x == merged(c, wire(d), gone)
           y == merged(x, wire(d), gone)
<1>1. WellFormed(x)
  BY MergeWellFormed
<1>2. /\ c \in StoredMessages /\ d \in StoredMessages /\ x \in StoredMessages
      /\ (~x.deleted => x.at >= x.edited) /\ (~d.deleted => d.at >= d.edited)
  BY <1>1 DEF WellFormed
<1>3. Parts(x, c, d, gone) /\ Parts(y, x, d, gone)
  BY <1>2, MergeParts
<1>4. /\ x.text \in Nat /\ x.at \in Nat /\ x.edited \in Nat /\ x.deleted \in BOOLEAN
      /\ d.text \in Nat /\ d.at \in Nat /\ d.edited \in Nat /\ d.deleted \in BOOLEAN
      /\ c.text \in Nat /\ c.at \in Nat /\ c.edited \in Nat /\ c.deleted \in BOOLEAN
      /\ contentClock(c) \in Nat /\ contentClock(d) \in Nat
  BY <1>2, CopyParts
<1> SUFFICES Agree(y, x)
  OBVIOUS
<1> HIDE DEF x, y
<1>5. y.deleted = x.deleted /\ y.edited = x.edited
  BY <1>3, <1>4 DEF Parts
<1>6. CASE x.deleted
  <2>1. y.text = x.text
    BY <1>3, <1>6 DEF Parts
  <2> QED  BY <1>5, <1>6, <2>1 DEF Agree, fingerprint
<1>7. CASE ~x.deleted
  <2>1. ~c.deleted /\ ~d.deleted /\ ~gone
    BY <1>3, <1>7 DEF Parts
  <2>2. contentClock(x) = x.at
    BY <1>2, <1>4, <1>7 DEF contentClock
  <2>3. ~Takes(x, d, gone)
    <3>1. CASE Takes(c, d, gone)
      <4>1. x.text = d.text /\ x.at = contentClock(d)
        BY <1>3, <2>1, <3>1 DEF Parts
      <4> QED  BY <1>4, <2>2, <4>1 DEF Takes, contentWins
    <3>2. CASE ~Takes(c, d, gone)
      <4>1. x.text = c.text /\ x.at = c.at
        BY <1>3, <2>1, <3>2 DEF Parts
      <4>2. x.edited >= c.edited
        BY <1>3, <1>4 DEF Parts
      <4>3. contentClock(c) = x.at
        BY <1>2, <1>4, <1>7, <4>1, <4>2 DEF contentClock
      <4> QED  BY <1>4, <1>7, <2>1, <2>2, <3>2, <4>1, <4>3 DEF Takes, contentWins
    <3> QED  BY <3>1, <3>2
  <2>4. y.text = x.text /\ y.at = x.at
    BY <1>3, <1>7, <2>1, <2>3 DEF Parts
  <2> QED  BY <1>5, <2>4 DEF Agree, fingerprint
<1> QED  BY <1>6, <1>7

-----------------------------------------------------------------------------
(* Types.                                                                  *)

Deleted(c) == c # None /\ c.deleted

\* A copy as device d may hold it: TypeOK, and its clocks are clocks of edits.
Proper(d, c) == /\ WellFormed(c) /\ (c.delivery = "theirs" <=> d \in Theirs)
                /\ c.at \in 0..MaxClock /\ c.edited \in 0..MaxClock

\* What toWireMessage makes of a copy.
ProperWire(w) == /\ w.at \in 0..MaxClock /\ w.edited \in 0..MaxClock
                 /\ (w.at = 0 => w.edited = 0) /\ (~w.deleted => w.at >= w.edited)
                 /\ (w.deleted => w.text = NoText)

\* What is stored is as proper as what is in memory, only the author's devices
\* store a queue, and the history is made of proper copies.
Sound == /\ \A d \in Devices, m \in Msgs :
              /\ copies[d][m] # None => Proper(d, copies[d][m])
              /\ disk[d].segment[m] # None => Proper(d, disk[d].segment[m])
         /\ \A b \in Theirs : disk[b].state = {}
         /\ \A i \in net : i.kind = "hist" => ProperWire(i.body.copy)

-----------------------------------------------------------------------------
(* What is on disk.                                                        *)

\* A document that does not wait to be written is stored as it is.
DiskCurrent ==
  \A d \in Devices, n \in Docs : n \notin pendingWrites[d] => disk[d][n] = docNow(d)[n]

\* Memory knows what the disk knows, and a tombstone is never behind a message
\* that shows, neither in memory nor on disk.
Remembered ==
  \A d \in Devices, m \in Msgs :
    /\ disk[d].segment[m] # None => copies[d][m] # None
    /\ Deleted(disk[d].segment[m]) => Deleted(copies[d][m])
    /\ m \in disk[d].head => m \in tombstones[d]
    /\ m \in tombstones[d] => ~shown(copies[d][m])
    /\ m \in tombstones[d] => ~shown(disk[d].segment[m])

\* An id is given once: nothing anywhere is about a message not sent yet.
OnlyUsed ==
  /\ \A d \in Devices : /\ \A m \in Msgs : copies[d][m] # None => m \in used
                        /\ tombstones[d] \subseteq used
                        /\ \A o \in outbox[d] : o.m \in used
                        /\ \A o \in disk[d].state : o.m \in used
  /\ \A i \in net : i.body.m \in used

\* The months of messages hold the message of o, deleted if o is its delete.
InSegment(segment, o) == segment[o.m] # None /\ (o.type = "delete" => segment[o.m].deleted)

\* A receipt that waits at b, for what is in memory and, as far as it does not
\* wait for that document any more, on disk.
Held(b, a) ==
  \/ InSegment(copies[b], a.id) /\ ("segment" \in a.needs \/ InSegment(disk[b].segment, a.id))
  \/ a.id.m \in tombstones[b] /\ ("head" \in a.needs \/ a.id.m \in disk[b].head)

ReceiptsHeld ==
  \A d \in Devices : \A a \in pendingAcks[d] :
    d \in Theirs /\ a.id.m \in used /\ (a.id.type # "edit" => Held(d, a))

\* ReceiptIsTrue is not inductive: a receipt leaves when documents were written,
\* and what they then hold is what the operation left in memory, since nothing
\* that was known is forgotten and every change marks its documents.
DiskInv == TypeOK /\ Sound /\ DiskCurrent /\ Remembered /\ OnlyUsed /\ ReceiptsHeld
                  /\ ReceiptIsTrue

-----------------------------------------------------------------------------
(* What the two people see, as long as the author's devices do not crash.  *)

\* Some device of the friend has o on disk.
Arrived(type, m) == \E b \in Theirs : Stored(disk[b], [type |-> type, m |-> m])

\* A delete of m was done somewhere: nothing else leaves one of these.
DeleteTrace(m) ==
  \/ \E d \in Devices : \/ Deleted(copies[d][m]) \/ m \in tombstones[d]
                        \/ \E o \in outbox[d] : o.type = "delete" /\ o.m = m
  \/ \E i \in net : /\ i.kind # "ack" /\ i.body.m = m
                    /\ IF i.kind = "hist" THEN i.body.copy.deleted ELSE i.body.type = "delete"

\* Then an own device holds it deleted, and the friend will know or knows.
DeletesGoOut ==
  \A m \in Msgs : DeleteTrace(m) =>
    /\ \E a \in Mine : Deleted(copies[a][m])
    /\ Arrived("delete", m) \/ \E a \in Mine : \E o \in outbox[a] : o.type = "delete" /\ o.m = m

\* The device that sent a message still has it, and knows if it arrived.
SenderKnows ==
  \A m \in used : \E a \in Mine :
    copies[a][m] # None /\ (copies[a][m].delivery = "delivered" => Arrived("msg", m))

FriendsInv == DiskInv /\ DeletesGoOut /\ SenderKnows /\ PendingIsQueued

-----------------------------------------------------------------------------
(* The operations on one copy.                                             *)

\* The fields of a proper copy.
LEMMA ProperParts ==
  ASSUME NEW d \in Devices, NEW c, Proper(d, c)
  PROVE  /\ c # None /\ c \in StoredMessages /\ c \in StoredMessages \cup {None}
         /\ c.text \in Texts \cup {NoText} /\ c.text \in Nat
         /\ c.at \in 0..MaxClock /\ c.edited \in 0..MaxClock /\ c.at \in Nat /\ c.edited \in Nat
         /\ c.deleted \in BOOLEAN /\ c.delivery \in Deliveries
         /\ contentClock(c) \in 0..MaxClock /\ contentClock(c) \in Nat
         /\ ~c.deleted => contentClock(c) >= c.edited
         /\ contentClock(c) = 0 => c.edited = 0
<1>1. c \in StoredMessages /\ c.at \in 0..MaxClock /\ c.edited \in 0..MaxClock
  BY DEF Proper, WellFormed
<1>2. c # None
  BY <1>1, DirectMessagesAssumption
<1>3. contentClock(c) \in 0..MaxClock /\ (contentClock(c) = 0 => c.edited = 0)
  BY <1>1 DEF contentClock
<1>4. c.text \in Texts \cup {NoText} /\ c.text \in Nat /\ c.at \in Nat /\ c.edited \in Nat
      /\ c.deleted \in BOOLEAN /\ c.delivery \in Deliveries
  BY <1>1, CopyParts
<1>5. ~c.deleted => c.at >= c.edited
  BY DEF Proper, WellFormed
<1>6. ~c.deleted => contentClock(c) >= c.edited
  BY <1>4, <1>5 DEF contentClock
<1>7. contentClock(c) \in Nat
  BY <1>4 DEF contentClock
<1>8. QED
  BY <1>1, <1>2, <1>3, <1>4, <1>6, <1>7

\* A copy with other contents, field by field.
LEMMA NewFields ==
  ASSUME NEW text \in Texts \cup {NoText}, NEW at \in 0..MaxClock, NEW mark \in 0..MaxClock,
         NEW deleted \in BOOLEAN, NEW delivery \in Deliveries, NEW c,
         c = [text |-> text, at |-> at, edited |-> mark, deleted |-> deleted,
              delivery |-> delivery]
  PROVE  /\ c \in StoredMessages
         /\ c.text = text /\ c.at = at /\ c.edited = mark /\ c.deleted = deleted
         /\ c.delivery = delivery
BY DirectMessagesAssumption DEF StoredMessages

\* markDeleted leaves a proper copy of the same delivery.
LEMMA MarkDeletedProper ==
  ASSUME NEW d \in Devices, NEW c, Proper(d, c)
  PROVE  /\ Proper(d, markDeleted(c)) /\ Deleted(markDeleted(c))
         /\ markDeleted(c).delivery = c.delivery
<1>. DEFINE x == markDeleted(c)
<1>1. c \in StoredMessages
  BY ProperParts
<1>2. /\ x \in StoredMessages /\ x.text = NoText /\ x.at = c.at /\ x.edited = c.edited
      /\ x.deleted = TRUE /\ x.delivery = c.delivery
  BY <1>1 DEF markDeleted, StoredMessages
<1>. HIDE DEF x
<1>3. x.deleted
  BY <1>2
<1>4. Proper(d, x)
  BY <1>2, <1>3 DEF Proper, WellFormed
<1>5. Proper(d, x) /\ Deleted(x) /\ x.delivery = c.delivery
  BY <1>2, <1>3, <1>4, ProperParts DEF Deleted
<1>6. QED
  BY <1>5 DEF x

\* Another delivery leaves the rest of a copy as it is.
LEMMA DeliveryProper ==
  ASSUME NEW d \in Devices, NEW c, Proper(d, c), NEW v \in Deliveries,
         v = "theirs" <=> d \in Theirs, NEW x, x = [c EXCEPT !.delivery = v]
  PROVE  Proper(d, x) /\ x.delivery = v /\ x.deleted = c.deleted
<1>1. c \in StoredMessages
  BY ProperParts
<1>2. /\ x \in StoredMessages /\ x.text = c.text /\ x.at = c.at /\ x.edited = c.edited
      /\ x.deleted = c.deleted /\ x.delivery = v
  BY <1>1 DEF StoredMessages
<1>3. QED
  BY <1>2 DEF Proper, WellFormed

\* An edit leaves a proper copy.
LEMMA EditedProper ==
  ASSUME NEW d \in Devices, NEW c, Proper(d, c), NEW text \in Texts \cup {NoText},
         NEW at \in 0..MaxClock, NEW x, x = edited(c, at, text)
  PROVE  Proper(d, x) /\ x.deleted = c.deleted /\ x.delivery = c.delivery
<1>1. CASE c.deleted \/ ~contentWins(at, text, c)
  BY <1>1 DEF edited
<1>2. CASE ~c.deleted /\ contentWins(at, text, c)
  <2>1. at >= c.edited
    <3>1. at \in Nat /\ contentClock(c) \in Nat /\ c.edited \in Nat /\ contentClock(c) >= c.edited
      BY <1>2, ProperParts, DirectMessagesAssumption
    <3>2. at >= contentClock(c)
      BY <1>2, <3>1 DEF contentWins
    <3>3. QED
      BY <3>1, <3>2
  <2>2. c \in StoredMessages /\ c.edited \in Nat /\ c.edited \in 0..MaxClock /\ at \in Nat
        /\ c.text \in Texts \cup {NoText}
    BY ProperParts, DirectMessagesAssumption
  <2>3. CASE text = c.text
    <3>1. x = [c EXCEPT !.at = at]
      BY <1>2, <2>3 DEF edited
    <3>2. /\ x \in StoredMessages /\ x.at = at /\ x.edited = c.edited
          /\ x.deleted = c.deleted /\ x.delivery = c.delivery
      BY <2>2, <3>1 DEF StoredMessages
    <3>3. QED
      BY <1>2, <2>1, <2>2, <3>2 DEF Proper, WellFormed
  <2>4. CASE text # c.text
    <3>1. x = [c EXCEPT !.at = at, !.text = text, !.edited = at]
      BY <1>2, <2>4 DEF edited
    <3>2. /\ x \in StoredMessages /\ x.at = at /\ x.edited = at
          /\ x.deleted = c.deleted /\ x.delivery = c.delivery
      <4>1. c.deleted \in BOOLEAN /\ c.delivery \in Deliveries
        BY ProperParts
      <4>2. c = [text |-> c.text, at |-> c.at, edited |-> c.edited, deleted |-> c.deleted,
                 delivery |-> c.delivery]
        BY <2>2 DEF StoredMessages
      <4>3. x = [text |-> text, at |-> at, edited |-> at, deleted |-> c.deleted,
                 delivery |-> c.delivery]
        BY <3>1, <4>2
      <4>4. QED
        BY <2>2, <4>1, <4>3 DEF StoredMessages
    <3>3. at >= at
      BY <2>2
    <3>4. QED
      BY <1>2, <3>2, <3>3 DEF Proper, WellFormed
  <2>5. QED
    BY <2>3, <2>4
<1>3. QED
  BY <1>1, <1>2, ProperParts

\* A copy that is made from what arrived is proper.
LEMMA StoredProper ==
  ASSUME NEW d \in Devices, NEW text \in Texts \cup {NoText}, NEW at \in 0..MaxClock,
         NEW mark \in 0..MaxClock, NEW deleted \in BOOLEAN,
         deleted \/ at >= mark, deleted => text = NoText, NEW x,
         x = [text |-> text, at |-> at, edited |-> mark, deleted |-> deleted,
              delivery |-> IF d \in Mine THEN "delivered" ELSE "theirs"]
  PROVE  /\ Proper(d, x) /\ x.deleted = deleted /\ x # None
         /\ d \in Mine => x.delivery = "delivered"
<1>1. "delivered" \in Deliveries /\ "theirs" \in Deliveries
  BY DEF Deliveries
<1>2. /\ x \in StoredMessages /\ x.text = text /\ x.at = at /\ x.edited = mark
      /\ x.deleted = deleted /\ x.delivery = (IF d \in Mine THEN "delivered" ELSE "theirs")
  BY <1>1, NewFields
<1>3. Proper(d, x)
  BY <1>2, DirectMessagesAssumption DEF Proper, WellFormed, Devices
<1>4. QED
  BY <1>2, <1>3, ProperParts

\* What is sent of a proper copy is proper.
LEMMA WireProper ==
  ASSUME NEW d \in Devices, NEW c, Proper(d, c)
  PROVE  wire(c) \in Wires /\ ProperWire(wire(c)) /\ wire(c).deleted = c.deleted
<1>1. /\ c.text \in Texts \cup {NoText} /\ contentClock(c) \in 0..MaxClock
      /\ contentClock(c) \in Nat /\ c.edited \in 0..MaxClock /\ c.edited \in Nat
      /\ c.deleted \in BOOLEAN /\ (contentClock(c) = 0 => c.edited = 0)
      /\ (~c.deleted => contentClock(c) >= c.edited)
  BY ProperParts
<1>2. c.deleted => c.text = NoText
  BY DEF Proper, WellFormed
<1>3. wire(c) = [text |-> c.text, at |-> contentClock(c), edited |-> c.edited,
                 deleted |-> c.deleted]
  BY DEF wire
<1>4. QED
  BY <1>1, <1>2, <1>3 DEF Wires, ProperWire

\* A merge leaves a proper copy, deleted if either is or its delete came before.
LEMMA MergedProper ==
  ASSUME NEW d \in Devices, NEW c, Proper(d, c), NEW w \in Wires, ProperWire(w),
         NEW gone \in BOOLEAN, NEW x, x = merged(c, w, gone)
  PROVE  /\ Proper(d, x) /\ x.delivery = c.delivery
         /\ x.deleted = (c.deleted \/ w.deleted \/ gone)
<1>. DEFINE e == [text |-> w.text, at |-> w.at, edited |-> w.edited, deleted |-> w.deleted,
                  delivery |-> "theirs"]
            t == mergedText(c, w, gone)
<1>1. /\ w.text \in Texts \cup {NoText} /\ w.at \in Nat /\ w.edited \in Nat
      /\ w.deleted \in BOOLEAN /\ w.at \in 0..MaxClock /\ w.edited \in 0..MaxClock
  BY DEF Wires, ProperWire
<1>2. w = [text |-> w.text, at |-> w.at, edited |-> w.edited, deleted |-> w.deleted]
  BY DEF Wires
<1>3. e \in StoredMessages
  BY <1>1 DEF StoredMessages, Deliveries
<1>4. contentClock(e) = w.at
  BY DEF contentClock, ProperWire
<1>5. wire(e) = w
  BY <1>2, <1>4 DEF wire
<1>6. WellFormed(e)
  BY <1>3 DEF WellFormed, ProperWire
<1>. HIDE DEF e
<1>7. WellFormed(c) /\ c \in StoredMessages
  BY DEF Proper, WellFormed
<1>8. WellFormed(x)
  BY <1>5, <1>6, <1>7, MergeWellFormed
<1>9. Parts(x, c, e, gone)
  BY <1>3, <1>5, <1>7, MergeParts
<1>10. e.deleted = w.deleted
  BY DEF e
<1>11. x.deleted = (c.deleted \/ w.deleted \/ gone)
  BY <1>9, <1>10 DEF Parts
<1>12. /\ c.at \in 0..MaxClock /\ c.edited \in 0..MaxClock /\ c.delivery \in Deliveries
       /\ (c.delivery = "theirs" <=> d \in Theirs)
  BY ProperParts DEF Proper
<1>13. x.edited = NewestMark(c, w) /\ x.at = t.at /\ x.delivery = t.delivery
       /\ t.at \in {c.at, w.at} /\ t.delivery = c.delivery
  <2>1. t = markDeleted(c) \/ t = [c EXCEPT !.text = w.text, !.at = w.at] \/ t = c
    BY DEF mergedText
  <2>2. /\ markDeleted(c) \in StoredMessages /\ markDeleted(c).at = c.at
        /\ markDeleted(c).delivery = c.delivery
    BY <1>7 DEF markDeleted, StoredMessages
  <2>3. \A y : y = [c EXCEPT !.text = w.text, !.at = w.at]
          => y \in StoredMessages /\ y.at = w.at /\ y.delivery = c.delivery
    BY <1>1, <1>7 DEF StoredMessages
  <2>4. t \in StoredMessages /\ t.at \in {c.at, w.at} /\ t.delivery = c.delivery
    BY <1>7, <2>1, <2>2, <2>3
  <2>. HIDE DEF t
  <2>5. x = [t EXCEPT !.edited = NewestMark(c, w)]
    BY DEF merged, t
  <2>6. x.edited = NewestMark(c, w) /\ x.at = t.at /\ x.delivery = t.delivery
    BY <2>4, <2>5 DEF StoredMessages
  <2>7. QED
    BY <2>4, <2>6
<1>14. NewestMark(c, w) \in {c.edited, w.edited}
  BY DEF NewestMark
<1>15. x.at \in 0..MaxClock /\ x.edited \in 0..MaxClock /\ x.delivery = c.delivery
  BY <1>1, <1>12, <1>13, <1>14
<1>16. QED
  BY <1>8, <1>11, <1>12, <1>15 DEF Proper

-----------------------------------------------------------------------------
(* What one event does to memory, to the queue and to what is on its way.  *)

\* Nothing known is forgotten, nothing tombstoned shows, what is new is proper
\* and about a message sent, and what changes waits to be written.
Change ==
  /\ copies' \in [Devices -> Known] /\ tombstones' \in [Devices -> SUBSET Msgs]
  /\ pendingWrites' \in [Devices -> SUBSET Docs]
  /\ \A d \in Devices :
       /\ pendingWrites[d] \subseteq pendingWrites'[d] /\ tombstones[d] \subseteq tombstones'[d]
       /\ tombstones'[d] \subseteq used'
       /\ "segment" \notin pendingWrites'[d] => copies'[d] = copies[d]
       /\ "head" \notin pendingWrites'[d] => tombstones'[d] = tombstones[d]
  /\ \A d \in Devices, m \in Msgs :
       /\ copies'[d][m] # None => Proper(d, copies'[d][m]) /\ m \in used'
       /\ copies[d][m] # None => copies'[d][m] # None
       /\ Deleted(copies[d][m]) => Deleted(copies'[d][m])
       /\ m \in tombstones'[d] => ~shown(copies'[d][m])
       /\ m \in tombstones'[d] => m \in tombstones[d] \/ copies[d][m] = None

Queue ==
  /\ outbox' \in [Devices -> SUBSET Ops] /\ \A b \in Theirs : outbox'[b] = {}
  /\ \A d \in Devices : /\ \A o \in outbox'[d] : o.m \in used'
                        /\ "state" \notin pendingWrites'[d] => outbox'[d] = outbox[d]

Mail == /\ net' \subseteq Items
        /\ \A i \in net' : /\ i.body.m \in used'
                           /\ i.kind = "hist" => ProperWire(i.body.copy)

\* One copy of one device, and perhaps the tombstone of that message.
LEMMA CopyStep ==
  ASSUME DiskInv, used \subseteq used', NEW d \in Devices, NEW m \in Msgs, m \in used',
         NEW new, new = None \/ Proper(d, new), copies' = setCopy(d, m, new),
         copies[d][m] # None => new # None, Deleted(copies[d][m]) => Deleted(new),
         NEW T \in SUBSET Msgs, tombstones' = [tombstones EXCEPT ![d] = T],
         tombstones[d] \subseteq T, T \subseteq tombstones[d] \cup {m}, m \in T => ~shown(new),
         T # tombstones[d] => copies[d][m] = None,
         NEW D \in SUBSET Docs, Dirty(d, D),
         new # copies[d][m] => "segment" \in D, T # tombstones[d] => "head" \in D
  PROVE  Change
<1>1. /\ copies \in [Devices -> Known] /\ tombstones \in [Devices -> SUBSET Msgs]
      /\ pendingWrites \in [Devices -> SUBSET Docs]
  BY DEF DiskInv, TypeOK
<1>2. \A e \in Devices, k \in Msgs :
        copies'[e][k] = IF e = d /\ k = m THEN new ELSE copies[e][k]
  BY <1>1 DEF setCopy, Known
<1>3. new \in StoredMessages \cup {None}
  BY ProperParts
<1>4. copies' \in [Devices -> Known]
  <2>1. [copies[d] EXCEPT ![m] = new] \in Known
    BY <1>1, <1>3 DEF Known
  <2>2. QED
    BY <1>1, <2>1 DEF setCopy
<1>5. \A e \in Devices : e # d => copies'[e] = copies[e]
  BY <1>1 DEF setCopy
<1>6. new = copies[d][m] => copies'[d] = copies[d]
  BY <1>1 DEF setCopy, Known
<1>7. \A e \in Devices : tombstones'[e] = IF e = d THEN T ELSE tombstones[e]
  BY <1>1
<1>8. \A e \in Devices :
        pendingWrites'[e] = IF e = d THEN pendingWrites[d] \cup D ELSE pendingWrites[e]
  BY <1>1 DEF Dirty
<1>9. tombstones' \in [Devices -> SUBSET Msgs] /\ pendingWrites' \in [Devices -> SUBSET Docs]
  BY <1>1 DEF Dirty
<1>10. ASSUME NEW e \in Devices
       PROVE  /\ pendingWrites[e] \subseteq pendingWrites'[e] /\ tombstones[e] \subseteq tombstones'[e]
              /\ tombstones'[e] \subseteq used'
              /\ "segment" \notin pendingWrites'[e] => copies'[e] = copies[e]
              /\ "head" \notin pendingWrites'[e] => tombstones'[e] = tombstones[e]
  <2>1. tombstones[e] \subseteq used
    BY DEF DiskInv, OnlyUsed
  <2>2. QED
    BY <1>5, <1>6, <1>7, <1>8, <2>1
<1>11. ASSUME NEW e \in Devices, NEW k \in Msgs
       PROVE  /\ copies'[e][k] # None => Proper(e, copies'[e][k]) /\ k \in used'
              /\ copies[e][k] # None => copies'[e][k] # None
              /\ Deleted(copies[e][k]) => Deleted(copies'[e][k])
              /\ k \in tombstones'[e] => ~shown(copies'[e][k])
              /\ k \in tombstones'[e] => k \in tombstones[e] \/ copies[e][k] = None
  <2>1. /\ copies[e][k] # None => Proper(e, copies[e][k]) /\ k \in used
        /\ k \in tombstones[e] => ~shown(copies[e][k])
    BY DEF DiskInv, Sound, OnlyUsed, Remembered
  <2>2. CASE e = d /\ k = m
    BY <1>2, <1>7, <2>2
  <2>3. CASE ~ (e = d /\ k = m)
    BY <1>2, <1>7, <2>1, <2>3
  <2>4. QED
    BY <2>2, <2>3
<1>12. QED
  BY <1>4, <1>9, <1>10, <1>11 DEF Change

\* No copy and no tombstone: only documents that wait to be written.
LEMMA NoCopyStep ==
  ASSUME DiskInv, used \subseteq used', UNCHANGED <<copies, tombstones>>,
         \/ UNCHANGED pendingWrites
         \/ \E d \in Devices, D \in SUBSET Docs : Dirty(d, D)
  PROVE  Change
<1>1. /\ copies \in [Devices -> Known] /\ tombstones \in [Devices -> SUBSET Msgs]
      /\ pendingWrites \in [Devices -> SUBSET Docs]
  BY DEF DiskInv, TypeOK
<1>2. /\ pendingWrites' \in [Devices -> SUBSET Docs]
      /\ \A d \in Devices : pendingWrites[d] \subseteq pendingWrites'[d]
  BY <1>1 DEF Dirty
<1>3. QED
  BY <1>1, <1>2 DEF Change, DiskInv, OnlyUsed, Sound, Remembered

\* One queue of the author.
LEMMA QueueStep ==
  ASSUME DiskInv, used \subseteq used', NEW d \in Mine, NEW O \in SUBSET Ops,
         outbox' = [outbox EXCEPT ![d] = O], \A o \in O : o \in outbox[d] \/ o.m \in used',
         \A e \in Devices : pendingWrites[e] \subseteq pendingWrites'[e],
         "state" \in pendingWrites'[d]
  PROVE  Queue
<1>1. outbox \in [Devices -> SUBSET Ops] /\ d \in Devices /\ d \notin Theirs
      /\ \A b \in Theirs : outbox[b] = {} /\ b \in Devices
  BY DirectMessagesAssumption DEF DiskInv, TypeOK, Devices
<1>2. \A e \in Devices : outbox'[e] = IF e = d THEN O ELSE outbox[e]
  BY <1>1
<1>3. \A e \in Devices : \A o \in outbox[e] : o.m \in used
  BY DEF DiskInv, OnlyUsed
<1>4. outbox' \in [Devices -> SUBSET Ops]
  BY <1>1
<1>5. QED
  BY <1>1, <1>2, <1>3, <1>4 DEF Queue

\* A step that leaves the queues.
LEMMA NoQueueStep ==
  ASSUME DiskInv, used \subseteq used', UNCHANGED outbox
  PROVE  Queue
BY DEF Queue, DiskInv, TypeOK, OnlyUsed

\* Items that are no receipts join those on their way.
LEMMA MailStep ==
  ASSUME DiskInv, used \subseteq used', UNCHANGED disk, NEW S, S \subseteq Items,
         net' \subseteq net \cup S,
         \A i \in S : /\ i.kind # "ack" /\ i.body.m \in used'
                      /\ i.kind = "hist" => ProperWire(i.body.copy)
  PROVE  Mail /\ ReceiptIsTrue'
<1>1. Mail
  BY DEF Mail, DiskInv, TypeOK, OnlyUsed, Sound
<1>2. ReceiptIsTrue'
  BY DEF ReceiptIsTrue, DiskInv
<1>3. QED
  BY <1>1, <1>2

\* A step that at most takes mail.
LEMMA LessMail ==
  ASSUME DiskInv, used \subseteq used', UNCHANGED disk, net' \subseteq net
  PROVE  Mail /\ ReceiptIsTrue'
BY DEF Mail, ReceiptIsTrue, DiskInv, TypeOK, OnlyUsed, Sound

\* A receipt that waits keeps what it waits for.
LEMMA HeldStays ==
  ASSUME DiskInv, Change, UNCHANGED disk, NEW d \in Devices, NEW a, a.id.m \in Msgs, Held(d, a)
  PROVE  Held(d, a)'
<1>1. copies[d][a.id.m] # None => copies'[d][a.id.m] # None
  BY DEF Change
<1>2. Deleted(copies[d][a.id.m]) => Deleted(copies'[d][a.id.m])
  BY DEF Change
<1>3. a.id.m \in tombstones[d] => a.id.m \in tombstones'[d]
  BY DEF Change
<1>4. QED
  BY <1>1, <1>2, <1>3 DEF Held, InSegment, Deleted

\* A step that leaves the receipts owed.
LEMMA AcksStay ==
  ASSUME DiskInv, Change, UNCHANGED <<disk, pendingAcks>>, used \subseteq used'
  PROVE  /\ pendingAcks' \in [Devices -> SUBSET [id : Ops, needs : SUBSET Docs]]
         /\ ReceiptsHeld'
<1>1. pendingAcks \in [Devices -> SUBSET [id : Ops, needs : SUBSET Docs]]
  BY DEF DiskInv, TypeOK
<1>2. \A d \in Devices : \A a \in pendingAcks[d] : a.id.m \in Msgs
  BY <1>1 DEF Ops
<1>3. ReceiptsHeld'
  BY <1>2, HeldStays DEF ReceiptsHeld, DiskInv
<1>4. QED
  BY <1>1, <1>3

\* The invariant after an event: what was on disk is current or waits.
LEMMA EventInv ==
  ASSUME DiskInv, Change, Queue, Mail, UNCHANGED <<disk, crashes>>, used' \subseteq Msgs,
         used \subseteq used',
         pendingAcks' \in [Devices -> SUBSET [id : Ops, needs : SUBSET Docs]],
         ReceiptsHeld', ReceiptIsTrue'
  PROVE  DiskInv'
<1>1. TypeOK'
  <2>1. \A d \in Devices, m \in Msgs : copies'[d][m] # None =>
          WellFormed(copies'[d][m]) /\ (copies'[d][m].delivery = "theirs" <=> d \in Theirs)
    BY DEF Change, Proper
  <2>2. /\ disk' \in [Devices -> [segment : Known, head : SUBSET Msgs, state : SUBSET Ops]]
        /\ crashes' \in 0..MaxCrashes
    BY DEF DiskInv, TypeOK
  <2>3. QED
    BY <2>1, <2>2 DEF TypeOK, Change, Queue, Mail
<1>2. Sound'
  <2>1. \A d \in Devices, m \in Msgs : copies'[d][m] # None => Proper(d, copies'[d][m])
    BY DEF Change
  <2>2. \A i \in net' : i.kind = "hist" => ProperWire(i.body.copy)
    BY DEF Mail
  <2>3. QED
    BY <2>1, <2>2 DEF Sound, DiskInv
<1>3. DiskCurrent'
  <2>. SUFFICES ASSUME NEW d \in Devices, NEW n \in Docs, n \notin pendingWrites'[d]
       PROVE  disk'[d][n] = docNow(d)'[n]
    BY DEF DiskCurrent
  <2>1. n \notin pendingWrites[d]
    BY DEF Change
  <2>2. disk[d][n] = docNow(d)[n]
    BY <2>1 DEF DiskInv, DiskCurrent
  <2>3. docNow(d)'[n] = docNow(d)[n]
    BY DEF Change, Queue, Docs, docNow
  <2>4. QED
    BY <2>2, <2>3
<1>4. Remembered'
  <2>. SUFFICES ASSUME NEW d \in Devices, NEW m \in Msgs
       PROVE  /\ disk'[d].segment[m] # None => copies'[d][m] # None
              /\ Deleted(disk'[d].segment[m]) => Deleted(copies'[d][m])
              /\ m \in disk'[d].head => m \in tombstones'[d]
              /\ m \in tombstones'[d] => ~shown(copies'[d][m])
              /\ m \in tombstones'[d] => ~shown(disk'[d].segment[m])
    BY DEF Remembered
  <2>1. /\ disk[d].segment[m] # None => copies[d][m] # None
        /\ Deleted(disk[d].segment[m]) => Deleted(copies[d][m])
        /\ m \in disk[d].head => m \in tombstones[d]
        /\ m \in tombstones[d] => ~shown(disk[d].segment[m])
    BY DEF DiskInv, Remembered
  <2>2. /\ copies[d][m] # None => copies'[d][m] # None
        /\ Deleted(copies[d][m]) => Deleted(copies'[d][m])
        /\ tombstones[d] \subseteq tombstones'[d]
        /\ m \in tombstones'[d] => ~shown(copies'[d][m])
        /\ m \in tombstones'[d] => m \in tombstones[d] \/ copies[d][m] = None
    BY DEF Change
  <2>3. QED
    BY <2>1, <2>2 DEF shown
<1>5. OnlyUsed'
  BY DEF OnlyUsed, Change, Queue, Mail, DiskInv
<1>6. QED
  BY <1>1, <1>2, <1>3, <1>4, <1>5 DEF DiskInv

\* A step that changes one copy and marks its document.
LEMMA CopyOnly ==
  ASSUME DiskInv, used \subseteq used', NEW d \in Devices, NEW m \in Msgs, m \in used',
         NEW new, Proper(d, new), copies' = setCopy(d, m, new), UNCHANGED tombstones,
         Deleted(copies[d][m]) => Deleted(new), m \in tombstones[d] => ~shown(new),
         NEW D \in SUBSET Docs, Dirty(d, D), new # copies[d][m] => "segment" \in D
  PROVE  Change
<1>1. tombstones \in [Devices -> SUBSET Msgs]
  BY DEF DiskInv, TypeOK
<1>2. tombstones[d] \in SUBSET Msgs /\ tombstones' = [tombstones EXCEPT ![d] = tombstones[d]]
  BY <1>1
<1>3. new # None
  BY ProperParts
<1>4. QED
  BY <1>2, <1>3, CopyStep

\* An operation and its fields.
LEMMA OpType ==
  ASSUME NEW type \in {"msg", "edit", "delete"}, NEW d \in Mine, NEW m \in Msgs,
         NEW text \in Texts \cup {NoText}, NEW at \in 0..MaxClock
  PROVE  /\ op(type, d, m, text, at) \in Ops
         /\ op(type, d, m, text, at).type = type /\ op(type, d, m, text, at).m = m
BY DEF op, Ops

\* The id of an operation has its kind and message.
LEMMA IdFields ==
  ASSUME NEW o \in Ops
  PROVE  idOf(o) \in Ops /\ idOf(o).type = o.type /\ idOf(o).m = o.m
<1>1. 0 \in 0..MaxClock /\ NoText \in Texts \cup {NoText}
  BY DirectMessagesAssumption
<1>2. QED
  BY <1>1 DEF idOf, Ops

\* What goes to the friend carries those operations.
LEMMA ToFriendItems ==
  ASSUME NEW O \in SUBSET Ops
  PROVE  /\ ToFriend(O) \subseteq Items
         /\ \A i \in ToFriend(O) : i.kind = "envelope" /\ i.body \in O
BY DEF ToFriend, Items

\* What goes to other own devices carries that operation.
LEMMA ToSelfItems ==
  ASSUME NEW d \in Mine, NEW o \in Ops
  PROVE  /\ ToSelf(d, o) \subseteq Items
         /\ \A i \in ToSelf(d, o) : i.kind = "self" /\ i.body = o
BY DEF ToSelf, Items

\* Receipts carry those ids.
LEMMA ReceiptItems ==
  ASSUME NEW I \in SUBSET Ops
  PROVE  /\ Receipts(I) \subseteq Items
         /\ \A i \in Receipts(I) : i.kind = "ack" /\ i.body \in I
BY DEF Receipts, Items

\* Operations of the author go to the friend and to the other own devices.
LEMMA SendStep ==
  ASSUME DiskInv, used \subseteq used', UNCHANGED disk, NEW O \in SUBSET Ops,
         NEW d \in Mine, NEW o \in Ops, o.m \in used', \A x \in O : x.m \in used',
         NEW Self \in {ToSelf(d, o), {}}, Relay({}, ToFriend(O) \cup Self)
  PROVE  Mail /\ ReceiptIsTrue'
<1>. DEFINE S == ToFriend(O) \cup Self
<1>1. /\ \A i \in ToFriend(O) : i.kind = "envelope" /\ i.body \in O
      /\ ToFriend(O) \subseteq Items
  BY ToFriendItems
<1>2. /\ \A i \in Self : i.kind = "self" /\ i.body = o
      /\ Self \subseteq Items
  BY ToSelfItems
<1>3. S \subseteq Items
  BY <1>1, <1>2
<1>4. \A i \in S : /\ i.kind # "ack" /\ i.body.m \in used'
                   /\ i.kind = "hist" => ProperWire(i.body.copy)
  BY <1>1, <1>2
<1>5. net' \subseteq net \cup S
  BY DEF Relay
<1>. HIDE DEF S
<1>6. QED
  BY <1>3, <1>4, <1>5, MailStep

\* What every operation of the author rests on.
LEMMA AuthorParts ==
  ASSUME DiskInv, NEW d \in Mine, NEW m \in Msgs
  PROVE  /\ d \in Devices /\ d \notin Theirs /\ outbox[d] \in SUBSET Ops
         /\ \A o \in outbox[d] : o.m \in used
         /\ copies[d][m] # None => Proper(d, copies[d][m]) /\ m \in used
         /\ m \in tombstones[d] => ~shown(copies[d][m]) /\ m \in used
         /\ used \subseteq Msgs /\ pendingWrites \in [Devices -> SUBSET Docs]
         /\ msgEntries(d, m) \in SUBSET Ops /\ \A o \in msgEntries(d, m) : o.m = m
<1>1. d \in Devices /\ d \notin Theirs
  BY DirectMessagesAssumption DEF Devices
<1>2. outbox[d] \in SUBSET Ops /\ used \subseteq Msgs /\ pendingWrites \in [Devices -> SUBSET Docs]
  BY <1>1 DEF DiskInv, TypeOK
<1>3. QED
  BY <1>1, <1>2 DEF DiskInv, Sound, OnlyUsed, Remembered, msgEntries

\* Documents that changed wait to be written, and none stops waiting.
LEMMA DirtyPending ==
  ASSUME DiskInv, NEW d \in Devices, NEW D \in SUBSET Docs, Dirty(d, D)
  PROVE  /\ pendingWrites'[d] = pendingWrites[d] \cup D
         /\ \A e \in Devices : pendingWrites[e] \subseteq pendingWrites'[e]
BY DEF Dirty, DiskInv, TypeOK

\* Steps that neither write nor owe a receipt.
LEMMA AckTypes ==
  ASSUME DiskInv, UNCHANGED <<disk, pendingAcks>>, Change, Queue, Mail, ReceiptIsTrue',
         UNCHANGED crashes, used' \subseteq Msgs, used \subseteq used'
  PROVE  Change /\ DiskInv'
BY AcksStay, EventInv

\* sendMessage gives a new id, so nothing anywhere is about it yet.
LEMMA SendMessage ==
  ASSUME DiskInv, NEW d \in Mine, NEW m \in Msgs, NEW text \in FirstTexts,
         sendMessage(d, m, text)
  PROVE  Change /\ DiskInv'
<1>. DEFINE o   == op("msg", d, m, text, 0)
            new == [text |-> text, at |-> 0, edited |-> 0, deleted |-> FALSE,
                    delivery |-> "pending"]
<1>1. /\ d \in Devices /\ d \notin Theirs /\ outbox[d] \in SUBSET Ops /\ used \subseteq Msgs
      /\ \A x \in outbox[d] : x.m \in used
  BY AuthorParts
<1>2. /\ m \notin used /\ used' = used \cup {m} /\ copies' = setCopy(d, m, new)
      /\ outbox' = [outbox EXCEPT ![d] = outbox[d] \cup {o}] /\ Dirty(d, Docs)
      /\ Relay({}, ToFriend({o}) \cup ToSelf(d, o))
      /\ UNCHANGED <<tombstones, pendingAcks, disk, crashes>>
  BY DEF sendMessage, set
<1>3. copies[d][m] = None /\ m \notin tombstones[d]
  BY <1>1, <1>2 DEF DiskInv, OnlyUsed
<1>4. text \in Texts \cup {NoText} /\ 0 \in 0..MaxClock /\ Docs \in SUBSET Docs
      /\ "state" \in Docs /\ "segment" \in Docs
  BY DirectMessagesAssumption DEF Docs
<1>5. o \in Ops /\ o.m = m
  BY <1>4, OpType
<1>6. Proper(d, new) /\ Deleted(None) = FALSE
  <2>1. new \in StoredMessages
    BY <1>4, DirectMessagesAssumption DEF StoredMessages, Deliveries
  <2>2. QED
    BY <1>1, <1>4, <2>1 DEF Proper, WellFormed, Deleted
<1>. HIDE DEF new, o
<1>7. Change
  BY <1>1, <1>2, <1>3, <1>4, <1>6, CopyOnly
<1>8. Queue
  <2>1. outbox[d] \cup {o} \in SUBSET Ops
    BY <1>1, <1>5
  <2>2. \A x \in outbox[d] \cup {o} : x \in outbox[d] \/ x.m \in used'
    BY <1>2, <1>5
  <2>3. /\ \A e \in Devices : pendingWrites[e] \subseteq pendingWrites'[e]
        /\ "state" \in pendingWrites'[d]
    BY <1>1, <1>2, <1>4, DirtyPending
  <2>4. QED
    BY <1>2, <2>1, <2>2, <2>3, QueueStep
<1>9. Mail /\ ReceiptIsTrue'
  <2>1. {o} \in SUBSET Ops /\ \A x \in {o} : x.m \in used'
    BY <1>2, <1>5
  <2>2. QED
    BY <1>2, <1>5, <2>1, SendStep
<1>10. QED
  BY <1>1, <1>2, <1>7, <1>8, <1>9, AckTypes

\* editMessage keeps what is deleted deleted.
LEMMA EditMessage ==
  ASSUME DiskInv, NEW d \in Mine, NEW m \in Msgs, NEW text \in Texts, NEW at \in 1..MaxClock,
         editMessage(d, m, text, at)
  PROVE  Change /\ DiskInv'
<1>. DEFINE o    == op("edit", d, m, text, at)
            c    == copies[d][m]
            new  == [c EXCEPT !.text = text, !.at = at, !.edited = at]
            copy == waiting(d, m, text, at)
            O    == (outbox[d] \ entriesOf(d, m, {"msg", "edit"})) \cup copy \cup {o}
<1>1. /\ d \in Devices /\ d \notin Theirs /\ outbox[d] \in SUBSET Ops /\ used \subseteq Msgs
      /\ \A x \in outbox[d] : x.m \in used
      /\ c # None => Proper(d, c) /\ m \in used
      /\ m \in tombstones[d] => ~shown(c)
      /\ msgEntries(d, m) \in SUBSET Ops /\ \A x \in msgEntries(d, m) : x.m = m
  BY AuthorParts
<1>2. /\ c # None /\ ~c.deleted /\ copies' = setCopy(d, m, new)
      /\ outbox' = [outbox EXCEPT ![d] = O] /\ Dirty(d, Docs)
      /\ Relay({}, ToFriend(copy \cup {o}) \cup ToSelf(d, o))
      /\ UNCHANGED <<used, tombstones, pendingAcks, disk, crashes>>
  BY DEF editMessage, set
<1>3. at \in 0..MaxClock /\ at \in Nat /\ text \in Texts \cup {NoText} /\ Docs \in SUBSET Docs
      /\ "state" \in Docs /\ "segment" \in Docs
  BY DirectMessagesAssumption DEF Docs
<1>4. o \in Ops /\ o.m = m
  BY <1>3, OpType
<1>5. Proper(d, new) /\ ~ Deleted(c) /\ m \notin tombstones[d]
  <2>1. c \in StoredMessages
    BY <1>1, <1>2, ProperParts
  <2>2. /\ new \in StoredMessages /\ new.at = at /\ new.edited = at
        /\ new.deleted = c.deleted /\ new.delivery = c.delivery
    BY <1>3, <2>1 DEF StoredMessages
  <2>. HIDE DEF new
  <2>3. at >= at
    BY <1>3
  <2>4. Proper(d, new)
    BY <1>1, <1>2, <1>3, <2>2, <2>3 DEF Proper, WellFormed
  <2>5. QED
    BY <1>1, <1>2, <2>4 DEF Deleted, shown
<1>6. copy \in SUBSET Ops /\ \A x \in copy : x.m = m
  <2>1. \A e \in msgEntries(d, m) : /\ [e EXCEPT !.text = text, !.at = at] \in Ops
                                    /\ [e EXCEPT !.text = text, !.at = at].m = m
    BY <1>1, <1>3 DEF Ops
  <2>2. QED
    BY <2>1 DEF waiting
<1>. HIDE DEF new, o, copy
<1>7. Change
  BY <1>1, <1>2, <1>3, <1>5, CopyOnly
<1>8. Queue
  <2>1. O \in SUBSET Ops
    BY <1>1, <1>4, <1>6
  <2>2. \A x \in O : x \in outbox[d] \/ x.m \in used'
    BY <1>1, <1>2, <1>4, <1>6
  <2>3. /\ \A e \in Devices : pendingWrites[e] \subseteq pendingWrites'[e]
        /\ "state" \in pendingWrites'[d]
    BY <1>1, <1>2, <1>3, DirtyPending
  <2>. HIDE DEF O
  <2>4. QED
    BY <1>2, <2>1, <2>2, <2>3, QueueStep
<1>9. Mail /\ ReceiptIsTrue'
  <2>1. copy \cup {o} \in SUBSET Ops /\ \A x \in copy \cup {o} : x.m \in used'
    BY <1>1, <1>2, <1>4, <1>6
  <2>2. o.m \in used'
    BY <1>1, <1>2, <1>4
  <2>3. QED
    BY <1>2, <1>4, <2>1, <2>2, SendStep
<1>10. QED
  BY <1>1, <1>2, <1>7, <1>8, <1>9, AckTypes

\* deleteMessage marks the copy and queues the delete.
LEMMA DeleteMessage ==
  ASSUME DiskInv, NEW d \in Mine, NEW m \in Msgs, deleteMessage(d, m)
  PROVE  Change /\ DiskInv'
<1>. DEFINE o   == op("delete", d, m, NoText, 0)
            c   == copies[d][m]
            new == markDeleted(c)
            O   == (outbox[d] \ entriesOf(d, m, {"msg", "edit", "delete"})) \cup {o}
<1>1. /\ d \in Devices /\ d \notin Theirs /\ outbox[d] \in SUBSET Ops /\ used \subseteq Msgs
      /\ \A x \in outbox[d] : x.m \in used
      /\ c # None => Proper(d, c) /\ m \in used
  BY AuthorParts
<1>2. /\ c # None /\ copies' = setCopy(d, m, new)
      /\ outbox' = [outbox EXCEPT ![d] = O] /\ Dirty(d, Docs)
      /\ Relay({}, ToFriend({o}) \cup ToSelf(d, o))
      /\ UNCHANGED <<used, tombstones, pendingAcks, disk, crashes>>
  BY DEF deleteMessage, set
<1>3. 0 \in 0..MaxClock /\ NoText \in Texts \cup {NoText} /\ Docs \in SUBSET Docs
      /\ "state" \in Docs /\ "segment" \in Docs
  BY DirectMessagesAssumption DEF Docs
<1>4. o \in Ops /\ o.m = m
  BY <1>3, OpType
<1>5. Proper(d, new) /\ Deleted(new) /\ ~ shown(new)
  BY <1>1, <1>2, MarkDeletedProper DEF Deleted, shown
<1>. HIDE DEF new, o
<1>7. Change
  BY <1>1, <1>2, <1>3, <1>5, CopyOnly
<1>8. Queue
  <2>1. O \in SUBSET Ops
    BY <1>1, <1>4
  <2>2. \A x \in O : x \in outbox[d] \/ x.m \in used'
    BY <1>1, <1>2, <1>4
  <2>3. /\ \A e \in Devices : pendingWrites[e] \subseteq pendingWrites'[e]
        /\ "state" \in pendingWrites'[d]
    BY <1>1, <1>2, <1>3, DirtyPending
  <2>. HIDE DEF O
  <2>4. QED
    BY <1>2, <2>1, <2>2, <2>3, QueueStep
<1>9. Mail /\ ReceiptIsTrue'
  <2>1. {o} \in SUBSET Ops /\ (\A x \in {o} : x.m \in used') /\ o.m \in used'
    BY <1>1, <1>2, <1>4
  <2>2. QED
    BY <1>2, <1>4, <2>1, SendStep
<1>10. QED
  BY <1>1, <1>2, <1>7, <1>8, <1>9, AckTypes

\* resendMessage queues again what had failed.
LEMMA ResendMessage ==
  ASSUME DiskInv, NEW d \in Mine, NEW m \in Msgs, resendMessage(d, m)
  PROVE  Change /\ DiskInv'
<1>. DEFINE c   == copies[d][m]
            o   == op("msg", d, m, c.text, c.at)
            new == [c EXCEPT !.delivery = "pending"]
<1>1. /\ d \in Devices /\ d \notin Theirs /\ outbox[d] \in SUBSET Ops /\ used \subseteq Msgs
      /\ \A x \in outbox[d] : x.m \in used
      /\ c # None => Proper(d, c) /\ m \in used
      /\ m \in tombstones[d] => ~shown(c)
  BY AuthorParts
<1>2. /\ c # None /\ ~c.deleted /\ copies' = setCopy(d, m, new)
      /\ outbox' = [outbox EXCEPT ![d] = outbox[d] \cup {o}] /\ Dirty(d, Docs)
      /\ Relay({}, ToFriend({o}) \cup {})
      /\ UNCHANGED <<used, tombstones, pendingAcks, disk, crashes>>
  BY DEF resendMessage, set
<1>3. Docs \in SUBSET Docs /\ "state" \in Docs /\ "segment" \in Docs
  BY DEF Docs
<1>4. o \in Ops /\ o.m = m
  <2>1. c.text \in Texts \cup {NoText} /\ c.at \in 0..MaxClock
    BY <1>1, <1>2, ProperParts
  <2>2. QED
    BY <2>1, OpType
<1>5. Proper(d, new) /\ ~ Deleted(c) /\ m \notin tombstones[d]
  <2>1. "pending" \in Deliveries /\ ("pending" = "theirs" <=> d \in Theirs)
    BY <1>1 DEF Deliveries
  <2>2. QED
    BY <1>1, <1>2, <2>1, DeliveryProper DEF Deleted, shown
<1>. HIDE DEF new, o
<1>7. Change
  BY <1>1, <1>2, <1>3, <1>5, CopyOnly
<1>8. Queue
  <2>1. outbox[d] \cup {o} \in SUBSET Ops
    BY <1>1, <1>4
  <2>2. \A x \in outbox[d] \cup {o} : x \in outbox[d] \/ x.m \in used'
    BY <1>1, <1>2, <1>4
  <2>3. /\ \A e \in Devices : pendingWrites[e] \subseteq pendingWrites'[e]
        /\ "state" \in pendingWrites'[d]
    BY <1>1, <1>2, <1>3, DirtyPending
  <2>4. QED
    BY <1>2, <2>1, <2>2, <2>3, QueueStep
<1>9. Mail /\ ReceiptIsTrue'
  <2>1. {o} \in SUBSET Ops /\ (\A x \in {o} : x.m \in used') /\ o.m \in used'
    BY <1>1, <1>2, <1>4
  <2>2. QED
    BY <1>2, <1>4, <2>1, SendStep
<1>10. QED
  BY <1>1, <1>2, <1>7, <1>8, <1>9, AckTypes

\* What expires leaves the queue and shows as failed.
LEMMA Expire ==
  ASSUME DiskInv, NEW d \in Mine, NEW m \in Msgs, expire(d, m)
  PROVE  Change /\ DiskInv'
<1>. DEFINE c     == copies[d][m]
            marks == c # None /\ c.delivery = "pending"
            new   == [c EXCEPT !.delivery = "failed"]
            O     == outbox[d] \ msgEntries(d, m)
            D     == IF marks THEN Docs ELSE {"state"}
<1>1. /\ d \in Devices /\ d \notin Theirs /\ outbox[d] \in SUBSET Ops /\ used \subseteq Msgs
      /\ \A x \in outbox[d] : x.m \in used
      /\ c # None => Proper(d, c) /\ m \in used
      /\ m \in tombstones[d] => ~shown(c)
  BY AuthorParts
<1>2. /\ copies' = IF marks THEN setCopy(d, m, new) ELSE copies
      /\ outbox' = [outbox EXCEPT ![d] = O] /\ Dirty(d, D)
      /\ UNCHANGED <<used, tombstones, pendingAcks, disk, net, crashes>>
  BY DEF expire, set
<1>3. D \in SUBSET Docs /\ "state" \in D /\ (marks => "segment" \in D)
  BY DEF Docs
<1>. HIDE DEF D
<1>4. Change
  <2>1. CASE marks
    <3>1. Proper(d, new) /\ new.deleted = c.deleted
      <4>1. "failed" \in Deliveries /\ ("failed" = "theirs" <=> d \in Theirs)
        BY <1>1 DEF Deliveries
      <4>2. QED
        BY <1>1, <2>1, <4>1, DeliveryProper
    <3>2. new # None
      BY <1>1, <3>1, ProperParts
    <3>. HIDE DEF new
    <3>3. (Deleted(c) => Deleted(new)) /\ (m \in tombstones[d] => ~shown(new))
      BY <1>1, <2>1, <3>1, <3>2 DEF Deleted, shown
    <3>4. QED
      BY <1>1, <1>2, <1>3, <2>1, <3>1, <3>3, CopyOnly
  <2>2. CASE ~marks
    BY <1>1, <1>2, <1>3, <2>2, NoCopyStep
  <2>3. QED
    BY <2>1, <2>2
<1>5. Queue
  <2>1. O \in SUBSET Ops /\ \A x \in O : x \in outbox[d] \/ x.m \in used'
    BY <1>1
  <2>2. /\ \A e \in Devices : pendingWrites[e] \subseteq pendingWrites'[e]
        /\ "state" \in pendingWrites'[d]
    BY <1>1, <1>2, <1>3, DirtyPending
  <2>. HIDE DEF O
  <2>3. QED
    BY <1>2, <2>1, <2>2, QueueStep
<1>6. Mail /\ ReceiptIsTrue'
  BY <1>2, LessMail
<1>7. QED
  BY <1>1, <1>2, <1>4, <1>5, <1>6, AckTypes

\* A round sends what is queued and changes nothing else.
LEMMA Outgoing ==
  ASSUME DiskInv, NEW d \in Mine, outgoing(d)
  PROVE  Change /\ DiskInv'
<1>1. /\ d \in Devices /\ outbox[d] \in SUBSET Ops /\ used \subseteq Msgs
      /\ \A x \in outbox[d] : x.m \in used
  BY DirectMessagesAssumption DEF Devices, DiskInv, TypeOK, OnlyUsed
<1>2. /\ Dirty(d, {"state"}) /\ Relay({}, ToFriend(outbox[d]))
      /\ UNCHANGED <<used, copies, tombstones, outbox, pendingAcks, disk, crashes>>
  BY DEF outgoing, memory
<1>3. {"state"} \in SUBSET Docs
  BY DEF Docs
<1>4. Change /\ Queue
  BY <1>1, <1>2, <1>3, NoCopyStep, NoQueueStep
<1>5. Mail /\ ReceiptIsTrue'
  <2>1. /\ ToFriend(outbox[d]) \subseteq Items
        /\ \A i \in ToFriend(outbox[d]) : i.kind = "envelope" /\ i.body \in outbox[d]
    BY <1>1, ToFriendItems
  <2>2. net' \subseteq net \cup ToFriend(outbox[d])
    BY <1>2 DEF Relay
  <2>3. \A i \in ToFriend(outbox[d]) : /\ i.kind # "ack" /\ i.body.m \in used'
                                       /\ i.kind = "hist" => ProperWire(i.body.copy)
    BY <1>1, <1>2, <2>1
  <2>4. QED
    BY <1>2, <2>1, <2>2, <2>3, MailStep
<1>6. QED
  BY <1>1, <1>2, <1>4, <1>5, AckTypes

\* Where the items of each kind go.
LEMMA ItemParts ==
  ASSUME DiskInv, NEW i \in net
  PROVE  /\ i.kind \in {"envelope", "self", "ack", "hist"} /\ i.to \in Devices
         /\ i.kind = "envelope" => i.to \in Theirs /\ i.body \in Ops
         /\ i.kind \in {"self", "ack"} => i.to \in Mine /\ i.body \in Ops
         /\ i.kind = "hist" => /\ i.body.m \in Msgs /\ i.body.copy \in Wires
                               /\ ProperWire(i.body.copy)
         /\ i.body.m \in used
<1>1. i \in Items /\ i.body.m \in used /\ (i.kind = "hist" => ProperWire(i.body.copy))
  BY DEF DiskInv, TypeOK, OnlyUsed, Sound
<1>2. CASE i \in [to : Theirs, kind : {"envelope"}, body : Ops]
  BY <1>1, <1>2 DEF Devices
<1>3. CASE i \in [to : Mine, kind : {"self", "ack"}, body : Ops]
  BY <1>1, <1>3 DEF Devices
<1>4. CASE i \in [to : Devices, kind : {"hist"}, body : [m : Msgs, copy : Wires]]
  BY <1>1, <1>4
<1>5. QED
  BY <1>1, <1>2, <1>3, <1>4 DEF Items

\* A receipt takes its operation out of the queue.
LEMMA Acknowledged ==
  ASSUME DiskInv, NEW i \in net, acknowledged(i.to, i)
  PROVE  Change /\ DiskInv'
<1>. DEFINE d     == i.to
            acked == {o \in outbox[d] : idOf(o) = i.body}
            done  == {o.m : o \in {x \in acked : x.type = "msg"}}
            marks == {m \in done : copies[d][m] # None /\ copies[d][m].delivery # "delivered"}
            After(m) == [copies[d][m] EXCEPT !.delivery = "delivered"]
            D     == IF marks # {} THEN Docs ELSE {"state"}
<1>1. /\ d \in Mine /\ d \in Devices /\ d \notin Theirs /\ i.body \in Ops
  BY ItemParts, DirectMessagesAssumption DEF acknowledged
<1>2. /\ outbox[d] \in SUBSET Ops /\ used \subseteq Msgs /\ \A x \in outbox[d] : x.m \in used
      /\ copies \in [Devices -> Known] /\ tombstones \in [Devices -> SUBSET Msgs]
      /\ pendingWrites \in [Devices -> SUBSET Docs]
  BY <1>1 DEF DiskInv, TypeOK, OnlyUsed
<1>3. /\ outbox' = [outbox EXCEPT ![d] = outbox[d] \ acked]
      /\ copies' = [copies EXCEPT ![d] = [m \in Msgs |->
           IF m \in marks THEN After(m) ELSE copies[d][m]]]
      /\ Dirty(d, D) /\ net' \subseteq net
      /\ UNCHANGED <<used, tombstones, pendingAcks, disk, crashes>>
  BY <1>2 DEF acknowledged, set
<1>4. D \in SUBSET Docs /\ "state" \in D /\ (marks # {} => "segment" \in D)
  BY DEF Docs
<1>5. ASSUME NEW e \in Devices, NEW m \in Msgs
      PROVE  /\ copies[e][m] # None => Proper(e, copies[e][m]) /\ m \in used
             /\ m \in tombstones[e] => ~shown(copies[e][m])
             /\ tombstones[e] \subseteq used
  BY DEF DiskInv, Sound, OnlyUsed, Remembered
<1>6. ASSUME NEW m \in marks, m \in Msgs
      PROVE  Proper(d, After(m)) /\ After(m).deleted = copies[d][m].deleted /\ After(m) # None
  <2>1. "delivered" \in Deliveries /\ ("delivered" = "theirs" <=> d \in Theirs)
    BY <1>1 DEF Deliveries
  <2>2. Proper(d, copies[d][m])
    BY <1>1, <1>5, <1>6
  <2>3. Proper(d, After(m)) /\ After(m).deleted = copies[d][m].deleted
    BY <1>1, <2>1, <2>2, DeliveryProper
  <2>. HIDE DEF After
  <2>4. QED
    BY <1>1, <2>3, ProperParts
<1>. HIDE DEF After, D, marks, acked, done
<1>7. \A e \in Devices, m \in Msgs :
        copies'[e][m] = IF e = d /\ m \in marks THEN After(m) ELSE copies[e][m]
  BY <1>1, <1>2, <1>3
<1>8. copies' \in [Devices -> Known]
  <2>1. \A m \in Msgs : m \in marks => After(m) \in StoredMessages
    BY <1>1, <1>6, ProperParts
  <2>2. [m \in Msgs |-> IF m \in marks THEN After(m) ELSE copies[d][m]] \in Known
    BY <1>1, <1>2, <2>1 DEF Known
  <2>3. QED
    BY <1>2, <1>3, <2>2
<1>9. ASSUME NEW e \in Devices
      PROVE  /\ pendingWrites[e] \subseteq pendingWrites'[e]
             /\ "segment" \notin pendingWrites'[e] => copies'[e] = copies[e]
  <2>1. e # d => copies'[e] = copies[e]
    BY <1>2, <1>3
  <2>2. marks = {} => copies'[d] = copies[d]
    BY <1>1, <1>2, <1>3 DEF Known
  <2>3. pendingWrites[e] \subseteq pendingWrites'[e] /\ pendingWrites'[d] = pendingWrites[d] \cup D
    BY <1>1, <1>3, <1>4, DirtyPending
  <2>4. QED
    BY <1>4, <2>1, <2>2, <2>3
<1>10. pendingWrites' \in [Devices -> SUBSET Docs]
  BY <1>2, <1>3, <1>4 DEF Dirty
<1>11. ASSUME NEW e \in Devices, NEW m \in Msgs
       PROVE  /\ copies'[e][m] # None => Proper(e, copies'[e][m]) /\ m \in used
              /\ copies[e][m] # None => copies'[e][m] # None
              /\ Deleted(copies[e][m]) => Deleted(copies'[e][m])
              /\ m \in tombstones[e] => ~shown(copies'[e][m])
  <2>1. CASE e = d /\ m \in marks
    <3>1. copies'[e][m] = After(m) /\ copies[e][m] # None
      BY <1>7, <2>1 DEF marks
    <3>2. Proper(d, After(m)) /\ After(m).deleted = copies[d][m].deleted /\ After(m) # None
      BY <1>6, <2>1
    <3>3. QED
      BY <1>5, <2>1, <3>1, <3>2 DEF Deleted, shown
  <2>2. CASE ~ (e = d /\ m \in marks)
    BY <1>5, <1>7, <2>2
  <2>3. QED
    BY <2>1, <2>2
<1>12. Change
  BY <1>2, <1>3, <1>5, <1>8, <1>9, <1>10, <1>11 DEF Change
<1>13. Queue
  <2>1. outbox[d] \ acked \in SUBSET Ops
        /\ \A x \in outbox[d] \ acked : x \in outbox[d] \/ x.m \in used'
    BY <1>2
  <2>2. /\ \A e \in Devices : pendingWrites[e] \subseteq pendingWrites'[e]
        /\ "state" \in pendingWrites'[d]
    BY <1>1, <1>3, <1>4, DirtyPending
  <2>3. QED
    BY <1>1, <1>3, <2>1, <2>2, QueueStep
<1>14. Mail /\ ReceiptIsTrue'
  BY <1>3, LessMail
<1>15. QED
  BY <1>2, <1>3, <1>12, <1>13, <1>14, AckTypes

-----------------------------------------------------------------------------
(* An operation reaches a device.                                          *)

\* After a message or a delete the device has it in memory, or knows that its
\* delete came first.
LEMMA ApplyOp ==
  ASSUME DiskInv, NEW d \in Devices, NEW o \in Ops, o.m \in used, used' = used,
         copies' = setCopy(d, o.m, CopyAfter(d, o)),
         tombstones' = set(tombstones, d, TombstonesAfter(d, o)), Dirty(d, DirtyAfter(d, o))
  PROVE  /\ Change
         /\ o.type # "edit" => InSegment(copies'[d], o) \/ o.m \in tombstones'[d]
         /\ DirtyAfter(d, o) \in SUBSET Docs
         /\ DirtyAfter(d, o) = {} => copies'[d] = copies[d] /\ tombstones'[d] = tombstones[d]
         /\ pendingWrites'[d] = pendingWrites[d] \cup DirtyAfter(d, o)
<1>. DEFINE m   == o.m
            c   == copies[d][m]
            new == CopyAfter(d, o)
            T   == TombstonesAfter(d, o)
            D   == DirtyAfter(d, o)
<1>1. /\ m \in Msgs /\ o.type \in {"msg", "edit", "delete"}
      /\ o.text \in Texts \cup {NoText} /\ o.at \in 0..MaxClock
  BY DEF Ops
<1>2. /\ copies \in [Devices -> Known] /\ tombstones \in [Devices -> SUBSET Msgs]
      /\ c # None => Proper(d, c)
      /\ m \in tombstones[d] => ~shown(c)
  BY <1>1 DEF DiskInv, TypeOK, Sound, Remembered
<1>3. copies' = setCopy(d, m, new) /\ tombstones' = [tombstones EXCEPT ![d] = T] /\ Dirty(d, D)
  BY DEF set
<1>4. \/ T = tombstones[d]
      \/ T = tombstones[d] \cup {m} /\ c = None /\ o.type = "delete"
  BY DEF TombstonesAfter
<1>5. /\ new = None \/ Proper(d, new)
      /\ c # None => new # None
      /\ Deleted(c) => Deleted(new)
      /\ m \in T => ~shown(new)
      /\ o.type = "msg" => new # None \/ m \in T
      /\ o.type = "delete" => Deleted(new) \/ m \in T
  <2>1. CASE o.type = "msg"
    <3>1. new = IF Accepts(d, m) THEN storedMessage(o.text, o.at, 0, FALSE, d \in Mine) ELSE c
      BY <2>1 DEF CopyAfter
    <3>2. T = tombstones[d]
      BY <1>4, <2>1
    <3>3. CASE Accepts(d, m)
      <4>1. PICK no \in BOOLEAN : no = FALSE
        OBVIOUS
      <4>2. 0 \in 0..MaxClock /\ (no \/ o.at >= 0) /\ (no => o.text = NoText)
        BY <1>1, <4>1, DirectMessagesAssumption
      <4>3. new = [text |-> o.text, at |-> o.at, edited |-> 0, deleted |-> no,
                   delivery |-> IF d \in Mine THEN "delivered" ELSE "theirs"]
        BY <3>1, <3>3, <4>1 DEF storedMessage
      <4>. HIDE DEF new
      <4>4. Proper(d, new) /\ new # None
        BY <1>1, <4>2, <4>3, StoredProper
      <4>5. c = None /\ m \notin T
        BY <3>2, <3>3 DEF Accepts
      <4>6. QED
        BY <2>1, <4>4, <4>5 DEF Deleted
    <3>4. CASE ~Accepts(d, m)
      BY <1>2, <2>1, <3>1, <3>2, <3>4 DEF Accepts
    <3>5. QED
      BY <3>3, <3>4
  <2>2. CASE o.type = "edit"
    <3>1. new = IF c = None THEN c ELSE edited(c, o.at, o.text)
      BY <2>2 DEF CopyAfter
    <3>2. T = tombstones[d]
      BY <1>4, <2>2
    <3>3. CASE c = None
      BY <1>2, <2>2, <3>1, <3>2, <3>3 DEF Deleted
    <3>4. CASE c # None
      <4>1. Proper(d, new) /\ new.deleted = c.deleted
        BY <1>1, <1>2, <3>1, <3>4, EditedProper
      <4>2. new # None
        BY <4>1, ProperParts
      <4>. HIDE DEF new
      <4>3. QED
        BY <1>2, <2>2, <3>2, <3>4, <4>1, <4>2 DEF Deleted, shown
    <3>5. QED
      BY <3>3, <3>4
  <2>3. CASE o.type = "delete"
    <3>1. new = IF c = None THEN c ELSE markDeleted(c)
      BY <2>3 DEF CopyAfter
    <3>2. CASE c = None
      BY <2>3, <3>1, <3>2 DEF Deleted, shown, TombstonesAfter
    <3>3. CASE c # None
      <4>1. Proper(d, new) /\ Deleted(new)
        BY <1>2, <3>1, <3>3, MarkDeletedProper
      <4>. HIDE DEF new
      <4>2. QED
        BY <2>3, <3>3, <4>1 DEF Deleted, shown
    <3>4. QED
      BY <3>2, <3>3
  <2>4. QED
    BY <1>1, <2>1, <2>2, <2>3
<1>6. /\ D \in SUBSET Docs /\ (new # c => "segment" \in D) /\ (T # tombstones[d] => "head" \in D)
      /\ (T # tombstones[d] => c = None)
      /\ (D = {} => new = c /\ T = tombstones[d])
  BY <1>4 DEF DirtyAfter, Docs
<1>7. T \in SUBSET Msgs /\ tombstones[d] \subseteq T /\ T \subseteq tombstones[d] \cup {m}
  BY <1>1, <1>2, <1>4
<1>. HIDE DEF new, T, D
<1>8. Change
  <2>1. used \subseteq used' /\ m \in used'
    OBVIOUS
  <2>2. QED
    BY <1>1, <1>2, <1>3, <1>5, <1>6, <1>7, <2>1, CopyStep
<1>9. copies'[d][m] = new /\ tombstones'[d] = T /\ copies'[d] = [copies[d] EXCEPT ![m] = new]
  <2>1. copies' = [copies EXCEPT ![d][m] = new] /\ tombstones' = [tombstones EXCEPT ![d] = T]
    BY <1>3 DEF setCopy
  <2>2. tombstones'[d] = T
    BY <1>2, <2>1
  <2>3. copies'[d] = [copies[d] EXCEPT ![m] = new]
    BY <1>2, <2>1
  <2>4. QED
    BY <1>1, <1>2, <2>2, <2>3 DEF Known
<1>10. o.type # "edit" => InSegment(copies'[d], o) \/ o.m \in tombstones'[d]
  BY <1>1, <1>5, <1>9 DEF InSegment, Deleted
<1>11. D = {} => copies'[d] = copies[d] /\ tombstones'[d] = tombstones[d]
  BY <1>1, <1>2, <1>6, <1>9 DEF Known
<1>12. pendingWrites'[d] = pendingWrites[d] \cup D
  BY <1>3, <1>6, DirtyPending
<1>13. QED
  BY <1>6, <1>8, <1>10, <1>11, <1>12 DEF D

\* What the documents hold is stored, if no tombstone is behind a shown message.
LEMMA OnDisk ==
  ASSUME NEW doc, NEW o, InSegment(doc.segment, o) \/ o.m \in doc.head,
         o.m \in doc.head => ~shown(doc.segment[o.m])
  PROVE  Stored(doc, o)
BY DEF InSegment, Stored, shown

\* A receipt names the operation by its type and its message.
LEMMA HeldById ==
  ASSUME NEW o \in Ops, NEW x, x.type = o.type, x.m = o.m, NEW segment
  PROVE  InSegment(segment, o) <=> InSegment(segment, x)
BY DEF InSegment

\* An operation of the friend owes a receipt for the documents it changed.
LEMMA IngestPeer ==
  ASSUME DiskInv, NEW i \in net, ingestPeer(i.to, i)
  PROVE  Change /\ DiskInv'
<1>. PICK d : d = i.to
  OBVIOUS
<1>. PICK o : o = i.body
  OBVIOUS
<1>. DEFINE needs == Needs(d, o)
<1>1. d \in Theirs /\ d \in Devices /\ o \in Ops /\ o.m \in used /\ o.m \in Msgs
      /\ used \subseteq Msgs
  BY ItemParts DEF ingestPeer, Ops, DiskInv, TypeOK
<1>2. idOf(o) \in Ops /\ idOf(o).type = o.type /\ idOf(o).m = o.m
  BY <1>1, IdFields
<1>3. /\ copies' = setCopy(d, o.m, CopyAfter(d, o))
      /\ tombstones' = set(tombstones, d, TombstonesAfter(d, o)) /\ Dirty(d, DirtyAfter(d, o))
      /\ UNCHANGED <<used, outbox, disk, crashes>>
  BY DEF ingestPeer, applyOp
<1>4. /\ Change /\ (o.type # "edit" => InSegment(copies'[d], o) \/ o.m \in tombstones'[d]) /\ pendingWrites'[d] = needs
      /\ needs \in SUBSET Docs
      /\ (DirtyAfter(d, o) = {} => copies'[d] = copies[d] /\ tombstones'[d] = tombstones[d])
  <2>1. /\ Change /\ (o.type # "edit" => InSegment(copies'[d], o) \/ o.m \in tombstones'[d])
        /\ DirtyAfter(d, o) \in SUBSET Docs
        /\ (DirtyAfter(d, o) = {} => copies'[d] = copies[d] /\ tombstones'[d] = tombstones[d])
        /\ pendingWrites'[d] = pendingWrites[d] \cup DirtyAfter(d, o)
    BY <1>1, <1>3, ApplyOp
  <2>2. pendingWrites[d] \in SUBSET Docs
    BY <1>1 DEF DiskInv, TypeOK
  <2>3. QED
    BY <2>1, <2>2 DEF Needs
<1>5. Queue
  BY <1>3, NoQueueStep
<1>6. \A n \in Docs : n \notin needs => disk[d][n] = docNow(d)[n] /\ n \notin pendingWrites[d]
  BY <1>1 DEF DiskInv, DiskCurrent, Needs
\* What the receipt does not wait for is in the documents.
<1>7. /\ "segment" \notin needs => copies'[d] = disk[d].segment
      /\ "head" \notin needs => tombstones'[d] = disk[d].head
  <2>1. /\ "segment" \notin needs => disk[d].segment = copies[d] /\ copies'[d] = copies[d]
        /\ "head" \notin needs => disk[d].head = tombstones[d] /\ tombstones'[d] = tombstones[d]
    BY <1>1, <1>4, <1>6 DEF Change, Docs, docNow
  <2>2. QED
    BY <2>1
<1>. HIDE DEF needs
<1>8. CASE needs = {}
  <2>1. net' = (net \ {i}) \cup Receipts({idOf(o)}) /\ UNCHANGED pendingAcks
    BY <1>8 DEF ingestPeer, Relay, needs
  <2>2. /\ Receipts({idOf(o)}) \subseteq Items
        /\ \A r \in Receipts({idOf(o)}) : r.kind = "ack" /\ r.body = idOf(o)
    <3>1. {idOf(o)} \in SUBSET Ops
      BY <1>2
    <3>2. QED
      BY <3>1, ReceiptItems
  <2>3. Mail
    BY <1>1, <1>2, <1>3, <2>1, <2>2 DEF Mail, DiskInv, TypeOK, OnlyUsed, Sound
  <2>4. o.type # "edit" => Stored(disk[d], idOf(o))
    <3>. SUFFICES ASSUME o.type # "edit"
         PROVE  Stored(disk[d], idOf(o))
      OBVIOUS
    <3>1. InSegment(copies'[d], o) \/ o.m \in tombstones'[d]
      BY <1>4
    <3>2. InSegment(disk[d].segment, o) \/ o.m \in disk[d].head
      BY <1>7, <1>8, <3>1
    <3>3. InSegment(disk[d].segment, idOf(o)) \/ idOf(o).m \in disk[d].head
      BY <1>1, <1>2, <3>2, HeldById
    <3>4. idOf(o).m \in disk[d].head => ~shown(disk[d].segment[idOf(o).m])
      BY <1>1, <1>2 DEF DiskInv, Remembered
    <3>5. QED
      BY <3>3, <3>4, OnDisk
  <2>5. ReceiptIsTrue'
    <3>. SUFFICES ASSUME NEW r \in net', r.kind = "ack", r.body.type # "edit"
         PROVE  \E b \in Theirs : Stored(disk'[b], r.body)
      BY DEF ReceiptIsTrue
    <3>1. CASE r \in net
      BY <1>3, <3>1 DEF DiskInv, ReceiptIsTrue
    <3>2. CASE r \in Receipts({idOf(o)})
      BY <1>1, <1>2, <1>3, <2>2, <2>4, <3>2
    <3>3. QED
      BY <2>1, <3>1, <3>2
  <2>6. QED
    BY <1>1, <1>3, <1>4, <1>5, <2>1, <2>3, <2>5, AckTypes
<1>9. CASE needs # {}
  <2>. PICK ack : ack = [id |-> idOf(o), needs |-> needs]
    OBVIOUS
  <2>1. pendingAcks' = [pendingAcks EXCEPT ![d] = pendingAcks[d] \cup {ack}] /\ net' \subseteq net
    BY <1>9 DEF ingestPeer, set, needs
  <2>2. Mail /\ ReceiptIsTrue'
    BY <1>3, <2>1, LessMail
  <2>3. ack \in [id : Ops, needs : SUBSET Docs] /\ ack.id = idOf(o) /\ ack.needs = needs
    BY <1>2, <1>4
  <2>4. pendingAcks \in [Devices -> SUBSET [id : Ops, needs : SUBSET Docs]]
    BY DEF DiskInv, TypeOK
  <2>5. pendingAcks' \in [Devices -> SUBSET [id : Ops, needs : SUBSET Docs]]
    BY <2>1, <2>3, <2>4
  <2>6. o.type # "edit" => Held(d, ack)'
    <3>. SUFFICES ASSUME o.type # "edit"
         PROVE  Held(d, ack)'
      OBVIOUS
    <3>1. InSegment(copies'[d], ack.id) \/ ack.id.m \in tombstones'[d]
      <4>1. InSegment(copies'[d], o) \/ o.m \in tombstones'[d]
        BY <1>4
      <4>2. ack.id.type = o.type /\ ack.id.m = o.m
        BY <1>2, <2>3
      <4>3. QED
        BY <1>1, <4>1, <4>2, HeldById
    <3>2. QED
      BY <1>3, <1>7, <2>3, <3>1 DEF Held, InSegment
  <2>7. ReceiptsHeld'
    <3>. SUFFICES ASSUME NEW e \in Devices, NEW a \in pendingAcks'[e]
         PROVE  e \in Theirs /\ a.id.m \in used' /\ (a.id.type # "edit" => Held(e, a)')
      BY DEF ReceiptsHeld
    <3>1. CASE a \in pendingAcks[e]
      <4>1. e \in Theirs /\ (a.id.type # "edit" => Held(e, a)) /\ a.id.m \in Msgs /\ a.id.m \in used
        BY <2>4, <3>1 DEF DiskInv, ReceiptsHeld, Ops
      <4>2. QED
        BY <1>3, <1>4, <4>1, HeldStays
    <3>2. CASE a \notin pendingAcks[e]
      <4>1. e = d /\ a = ack
        BY <2>1, <2>4, <3>2
      <4>2. QED
        BY <1>1, <1>2, <1>3, <2>3, <2>6, <4>1 DEF Held
    <3>3. QED
      BY <3>1, <3>2
  <2>8. QED
    BY <1>1, <1>3, <1>4, <1>5, <2>2, <2>5, <2>7, EventInv
<1>10. QED
  BY <1>8, <1>9

\* The copy from another own device owes none.
LEMMA IngestSelf ==
  ASSUME DiskInv, NEW i \in net, ingestSelf(i.to, i)
  PROVE  Change /\ DiskInv'
<1>. PICK d : d = i.to
  OBVIOUS
<1>. PICK o : o = i.body
  OBVIOUS
<1>1. d \in Devices /\ o \in Ops /\ o.m \in used /\ used \subseteq Msgs
  BY ItemParts DEF ingestSelf, DiskInv, TypeOK
<1>2. /\ copies' = setCopy(d, o.m, CopyAfter(d, o))
      /\ tombstones' = set(tombstones, d, TombstonesAfter(d, o)) /\ Dirty(d, DirtyAfter(d, o))
      /\ UNCHANGED <<used, outbox, pendingAcks, disk, crashes>> /\ net' \subseteq net
  BY DEF ingestSelf, applyOp
<1>3. Change
  BY <1>1, <1>2, ApplyOp
<1>4. Queue /\ Mail /\ ReceiptIsTrue'
  BY <1>2, NoQueueStep, LessMail
<1>5. QED
  BY <1>1, <1>2, <1>3, <1>4, AckTypes

-----------------------------------------------------------------------------
(* History.                                                                *)

\* History is made of the copies one has.
LEMMA HistoryFor ==
  ASSUME DiskInv, NEW d \in Devices, NEW e \in Devices, NEW m \in Msgs, historyFor(d, e, m)
  PROVE  Change /\ DiskInv'
<1>. DEFINE w == wire(copies[d][m])
            x == [to |-> e, kind |-> "hist", body |-> [m |-> m, copy |-> w]]
<1>1. Proper(d, copies[d][m]) /\ m \in used /\ used \subseteq Msgs
  BY DEF historyFor, DiskInv, Sound, OnlyUsed, TypeOK
<1>2. w \in Wires /\ ProperWire(w)
  BY <1>1, WireProper
<1>3. /\ net' = (net \ History(d)) \cup {x}
      /\ UNCHANGED <<used, copies, tombstones, outbox, pendingWrites, pendingAcks, disk, crashes>>
  BY DEF historyFor, Relay, memory
<1>. HIDE DEF w
<1>4. x \in Items /\ x.kind = "hist" /\ x.body.m = m /\ x.body.copy = w
  BY <1>2 DEF Items
<1>. HIDE DEF x
<1>5. Mail /\ ReceiptIsTrue'
  <2>. DEFINE S == {x}
  <2>1. S \subseteq Items /\ net' \subseteq net \cup S
    BY <1>3, <1>4
  <2>2. \A y \in S : /\ y.kind # "ack" /\ y.body.m \in used'
                     /\ y.kind = "hist" => ProperWire(y.body.copy)
    BY <1>1, <1>2, <1>3, <1>4
  <2>. HIDE DEF S
  <2>3. QED
    BY <1>3, <2>1, <2>2, MailStep
<1>6. Change /\ Queue
  BY <1>3, NoCopyStep, NoQueueStep
<1>7. QED
  BY <1>1, <1>3, <1>5, <1>6, AckTypes

\* The copy that a message of history leaves: proper, deleted if either is or
\* its delete came before, and its delivery is no news.
LEMMA HistoryCopy ==
  ASSUME DiskInv, NEW d \in Devices, NEW m \in Msgs, NEW w \in Wires, ProperWire(w), NEW new,
         new = IF copies[d][m] = None
                 THEN storedMessage(w.text, w.at, w.edited,
                                    w.deleted \/ m \in tombstones[d], d \in Mine)
                 ELSE merged(copies[d][m], w, m \in tombstones[d])
  PROVE  /\ Proper(d, new) /\ (Deleted(copies[d][m]) => Deleted(new))
         /\ m \in tombstones[d] => ~shown(new)
         /\ Deleted(new) => Deleted(copies[d][m]) \/ w.deleted \/ m \in tombstones[d]
         /\ copies[d][m] # None => new.delivery = copies[d][m].delivery
         /\ copies[d][m] = None /\ d \in Mine => new.delivery = "delivered"
<1>. DEFINE c    == copies[d][m]
            gone == m \in tombstones[d]
<1>1. c # None => Proper(d, c)
  BY DEF DiskInv, Sound
<1>2. /\ w.text \in Texts \cup {NoText} /\ w.deleted \in BOOLEAN
      /\ w.at \in 0..MaxClock /\ w.edited \in 0..MaxClock
      /\ (w.deleted => w.text = NoText) /\ (w.deleted \/ w.at >= w.edited)
      /\ 0 \in 0..MaxClock /\ NoText \in Texts \cup {NoText}
  BY DirectMessagesAssumption DEF Wires, ProperWire
<1>3. PICK g \in BOOLEAN : g <=> gone
  OBVIOUS
<1>4. CASE c = None
  <2>1. PICK del \in BOOLEAN : del = (w.deleted \/ g)
    BY <1>2
  <2>2. PICK t : t = IF del THEN NoText ELSE w.text
    OBVIOUS
  <2>3. PICK at : at = IF del THEN 0 ELSE w.at
    OBVIOUS
  <2>4. PICK mark \in 0..MaxClock : mark = w.edited
    BY <1>2
  <2>5. t \in Texts \cup {NoText} /\ at \in 0..MaxClock /\ (del => t = NoText)
        /\ (del \/ at >= mark)
    BY <1>2, <2>1, <2>2, <2>3, <2>4
  <2>6. new = [text |-> t, at |-> at, edited |-> mark, deleted |-> del,
               delivery |-> IF d \in Mine THEN "delivered" ELSE "theirs"]
    BY <1>3, <1>4, <2>1, <2>2, <2>3, <2>4 DEF storedMessage
  <2>7. Proper(d, new) /\ new.deleted = del /\ (d \in Mine => new.delivery = "delivered")
    BY <2>5, <2>6, StoredProper
  <2>8. QED
    BY <1>3, <1>4, <2>1, <2>7 DEF Deleted, shown
<1>5. CASE c # None
  <2>1. new = merged(c, w, g)
    BY <1>3, <1>5 DEF merged, mergedText
  <2>2. Proper(d, new) /\ new.deleted = (c.deleted \/ w.deleted \/ g)
        /\ new.delivery = c.delivery
    BY <1>1, <1>5, <2>1, MergedProper
  <2>3. new # None
    BY <2>2, ProperParts
  <2>4. QED
    BY <1>3, <1>5, <2>2, <2>3 DEF Deleted, shown
<1>6. QED
  BY <1>4, <1>5

\* A merge neither forgets a delete nor shows again what is deleted.
LEMMA MergeHistory ==
  ASSUME DiskInv, NEW i \in net, mergeHistory(i.to, i)
  PROVE  Change /\ DiskInv'
<1>. DEFINE d    == i.to
            m    == i.body.m
            w    == i.body.copy
            c    == copies[d][m]
<1>. PICK new : new = IF copies[d][m] = None
                        THEN storedMessage(w.text, w.at, w.edited,
                                           w.deleted \/ m \in tombstones[d], d \in Mine)
                        ELSE merged(copies[d][m], w, m \in tombstones[d])
  OBVIOUS
<1>. DEFINE D == IF new # c THEN Docs ELSE {}
<1>1. /\ d \in Devices /\ m \in Msgs /\ w \in Wires /\ ProperWire(w) /\ m \in used
      /\ used \subseteq Msgs
  BY ItemParts DEF mergeHistory, DiskInv, TypeOK
<1>2. /\ copies' = setCopy(d, m, new) /\ Dirty(d, D) /\ net' \subseteq net
      /\ UNCHANGED <<used, tombstones, outbox, pendingAcks, disk, crashes>>
  BY DEF mergeHistory
<1>3. Proper(d, new) /\ (Deleted(c) => Deleted(new)) /\ (m \in tombstones[d] => ~shown(new))
  BY <1>1, HistoryCopy
<1>4. D \in SUBSET Docs /\ (new # c => "segment" \in D)
  BY DEF Docs
<1>. HIDE DEF D
<1>5. Change
  BY <1>1, <1>2, <1>3, <1>4, CopyOnly
<1>6. Queue /\ Mail /\ ReceiptIsTrue'
  BY <1>2, NoQueueStep, LessMail
<1>7. QED
  BY <1>1, <1>2, <1>5, <1>6, AckTypes

-----------------------------------------------------------------------------
(* The documents.                                                          *)

\* Memory has what the disk has of a message or its delete.
LEMMA MemoryKnows ==
  ASSUME DiskInv, NEW d \in Devices, NEW o, o.m \in Msgs, Stored(disk[d], o)
  PROVE  /\ copies[d][o.m] # None \/ o.m \in tombstones[d]
         /\ o.type = "delete" => Deleted(copies[d][o.m]) \/ o.m \in tombstones[d]
BY DEF Stored, DiskInv, Remembered, Deleted, shown

\* Some documents of a device are written: what is on disk afterwards.
LEMMA DocsWritten ==
  ASSUME DiskInv, NEW d \in Devices, NEW D \in SUBSET Docs,
         disk' = set(disk, d, [n \in Docs |-> IF n \in D THEN docNow(d)[n] ELSE disk[d][n]])
  PROVE  /\ disk' \in [Devices -> [segment : Known, head : SUBSET Msgs, state : SUBSET Ops]]
         /\ \A e \in Devices : e # d => disk'[e] = disk[e]
         /\ disk'[d].segment = IF "segment" \in D THEN copies[d] ELSE disk[d].segment
         /\ disk'[d].head = IF "head" \in D THEN tombstones[d] ELSE disk[d].head
         /\ disk'[d].state = IF "state" \in D THEN outbox[d] ELSE disk[d].state
<1>. DEFINE doc == [n \in Docs |-> IF n \in D THEN docNow(d)[n] ELSE disk[d][n]]
<1>1. /\ disk \in [Devices -> [segment : Known, head : SUBSET Msgs, state : SUBSET Ops]]
      /\ copies[d] \in Known /\ tombstones[d] \in SUBSET Msgs /\ outbox[d] \in SUBSET Ops
  BY DEF DiskInv, TypeOK
<1>2. /\ docNow(d)["segment"] = copies[d] /\ docNow(d)["head"] = tombstones[d]
      /\ docNow(d)["state"] = outbox[d]
  BY DEF docNow
<1>3. doc = [segment |-> IF "segment" \in D THEN copies[d] ELSE disk[d].segment,
             head |-> IF "head" \in D THEN tombstones[d] ELSE disk[d].head,
             state |-> IF "state" \in D THEN outbox[d] ELSE disk[d].state]
  BY <1>2 DEF Docs
<1>4. disk[d].segment \in Known /\ disk[d].head \in SUBSET Msgs /\ disk[d].state \in SUBSET Ops
  BY <1>1
<1>. HIDE DEF doc
<1>5. disk' = [disk EXCEPT ![d] = doc]
  BY DEF set, doc
<1>6. doc \in [segment : Known, head : SUBSET Msgs, state : SUBSET Ops]
  BY <1>1, <1>3, <1>4
<1>7. disk'[d] = doc /\ \A e \in Devices : e # d => disk'[e] = disk[e]
  BY <1>1, <1>5
<1>8. disk' \in [Devices -> [segment : Known, head : SUBSET Msgs, state : SUBSET Ops]]
  BY <1>1, <1>5, <1>6
<1>9. QED
  BY <1>3, <1>7, <1>8

\* What is on disk stays there, as far as others rely on it.
StillStored ==
  \A d \in Devices, o \in [type : {"msg", "edit", "delete"}, m : Msgs] :
    Stored(disk[d], o) => Stored(disk'[d], o)

\* A document is written and the receipts that waited for it alone leave.
LEMMA WritePass ==
  ASSUME DiskInv, NEW d \in Devices, NEW D, writePass(d, D)
  PROVE  DiskInv' /\ StillStored
<1>. PICK left : left = {[a EXCEPT !.needs = @ \ D] : a \in pendingAcks[d]}
  OBVIOUS
<1>. PICK ready : ready = {a \in left : a.needs = {}}
  OBVIOUS
<1>1. /\ pendingWrites' = [pendingWrites EXCEPT ![d] = pendingWrites[d] \ D]
      /\ disk' = set(disk, d, [n \in Docs |-> IF n \in D THEN docNow(d)[n] ELSE disk[d][n]])
      /\ pendingAcks' = [pendingAcks EXCEPT ![d] = left \ ready]
      /\ net' = net \cup Receipts({a.id : a \in ready})
      /\ UNCHANGED <<used, copies, tombstones, outbox, crashes>>
      /\ D \subseteq pendingWrites[d]
  BY DEF writePass, set, Relay, memory
<1>2. /\ pendingWrites \in [Devices -> SUBSET Docs] /\ used \subseteq Msgs
      /\ pendingAcks \in [Devices -> SUBSET [id : Ops, needs : SUBSET Docs]]
      /\ D \in SUBSET Docs
  BY <1>1 DEF DiskInv, TypeOK
<1>3. /\ disk' \in [Devices -> [segment : Known, head : SUBSET Msgs, state : SUBSET Ops]]
      /\ \A e \in Devices : e # d => disk'[e] = disk[e]
      /\ disk'[d].segment = IF "segment" \in D THEN copies[d] ELSE disk[d].segment
      /\ disk'[d].head = IF "head" \in D THEN tombstones[d] ELSE disk[d].head
      /\ disk'[d].state = IF "state" \in D THEN outbox[d] ELSE disk[d].state
  BY <1>1, <1>2, DocsWritten
<1>4. \A a \in pendingAcks[d] : a.id \in Ops /\ a.needs \in SUBSET Docs
  BY <1>2
<1>5. ASSUME NEW a \in left
      PROVE  \E b \in pendingAcks[d] : /\ a.id = b.id /\ a.needs = b.needs \ D
                                       /\ a \in [id : Ops, needs : SUBSET Docs]
  BY <1>2
<1>6. Remembered'
  <2>. SUFFICES ASSUME NEW e \in Devices, NEW m \in Msgs
       PROVE  /\ disk'[e].segment[m] # None => copies'[e][m] # None
              /\ Deleted(disk'[e].segment[m]) => Deleted(copies'[e][m])
              /\ m \in disk'[e].head => m \in tombstones'[e]
              /\ m \in tombstones'[e] => ~shown(copies'[e][m])
              /\ m \in tombstones'[e] => ~shown(disk'[e].segment[m])
    BY DEF Remembered
  <2>1. /\ disk[e].segment[m] # None => copies[e][m] # None
        /\ Deleted(disk[e].segment[m]) => Deleted(copies[e][m])
        /\ m \in disk[e].head => m \in tombstones[e]
        /\ m \in tombstones[e] => ~shown(copies[e][m])
        /\ m \in tombstones[e] => ~shown(disk[e].segment[m])
    BY DEF DiskInv, Remembered
  <2>2. CASE e = d
    BY <1>1, <1>3, <2>1, <2>2
  <2>3. CASE e # d
    BY <1>1, <1>3, <2>1, <2>3
  <2>4. QED
    BY <2>2, <2>3
<1>7. StillStored
  <2>. SUFFICES ASSUME NEW e \in Devices, NEW o \in [type : {"msg", "edit", "delete"}, m : Msgs],
                       Stored(disk[e], o)
       PROVE  Stored(disk'[e], o)
    BY DEF StillStored
  <2>1. o.m \in Msgs
    OBVIOUS
  <2>2. CASE e = d
    <3>1. /\ copies[d][o.m] # None \/ o.m \in tombstones[d]
          /\ o.type = "delete" => Deleted(copies[d][o.m]) \/ o.m \in tombstones[d]
      BY <2>1, <2>2, MemoryKnows
    <3>2. /\ disk[d].segment[o.m] # None => copies[d][o.m] # None
          /\ o.m \in disk[d].head => o.m \in tombstones[d]
          /\ o.m \in tombstones[d] => ~shown(copies[d][o.m])
      BY <2>1 DEF DiskInv, Remembered
    <3>3. QED
      BY <1>3, <2>2, <3>1, <3>2 DEF Stored, Deleted, shown
  <2>3. CASE e # d
    BY <1>3, <2>3
  <2>4. QED
    BY <2>2, <2>3
\* A receipt that waits on, or leaves.
<1>8. ASSUME NEW a \in left
      PROVE  /\ d \in Theirs /\ a.id.m \in used
             /\ a.id.type # "edit" =>
                  \/ /\ InSegment(copies[d], a.id)
                     /\ "segment" \in a.needs \/ InSegment(disk'[d].segment, a.id)
                  \/ /\ a.id.m \in tombstones[d]
                     /\ "head" \in a.needs \/ a.id.m \in disk'[d].head
  <2>1. PICK b \in pendingAcks[d] : a.id = b.id /\ a.needs = b.needs \ D
    BY <1>5
  <2>2. d \in Theirs /\ b.id.m \in used /\ (b.id.type # "edit" => Held(d, b))
    BY DEF DiskInv, ReceiptsHeld
  <2>3. QED
    BY <1>3, <2>1, <2>2 DEF Held
<1>9. ReceiptsHeld'
  <2>. SUFFICES ASSUME NEW e \in Devices, NEW a \in pendingAcks'[e]
       PROVE  e \in Theirs /\ a.id.m \in used' /\ (a.id.type # "edit" => Held(e, a)')
    BY DEF ReceiptsHeld
  <2>1. CASE e = d
    <3>1. a \in left
      BY <1>1, <1>2, <2>1
    <3>2. QED
      BY <1>1, <1>8, <2>1, <3>1 DEF Held
  <2>2. CASE e # d
    <3>1. a \in pendingAcks[e]
      BY <1>1, <1>2, <2>2
    <3>2. e \in Theirs /\ a.id.m \in used /\ (a.id.type # "edit" => Held(e, a))
      BY <3>1 DEF DiskInv, ReceiptsHeld
    <3>3. QED
      BY <1>1, <1>3, <2>2, <3>2 DEF Held
  <2>3. QED
    BY <2>1, <2>2
<1>10. ASSUME NEW r \in Receipts({a.id : a \in ready})
       PROVE  /\ r \in Items /\ r.kind = "ack" /\ r.body.m \in used
              /\ r.body.type # "edit" => \E b \in Theirs : Stored(disk'[b], r.body)
  <2>1. {a.id : a \in ready} \in SUBSET Ops
    BY <1>5
  <2>2. r \in Items /\ r.kind = "ack" /\ r.body \in {a.id : a \in ready}
    BY <2>1, ReceiptItems
  <2>3. PICK a \in left : a.needs = {} /\ r.body = a.id
    BY <2>2
  <2>4. r.body.m \in Msgs
    BY <2>1, <2>2 DEF Ops
  <2>5. ASSUME r.body.type # "edit"
        PROVE  Stored(disk'[d], r.body)
    <3>1. InSegment(disk'[d].segment, r.body) \/ r.body.m \in disk'[d].head
      BY <1>8, <2>3, <2>5
    <3>2. r.body.m \in disk'[d].head => ~shown(disk'[d].segment[r.body.m])
      BY <1>6, <2>4 DEF Remembered
    <3>3. QED
      BY <3>1, <3>2, OnDisk
  <2>6. QED
    BY <1>8, <2>2, <2>3, <2>4, <2>5
<1>11. ReceiptIsTrue'
  <2>. SUFFICES ASSUME NEW r \in net', r.kind = "ack", r.body.type # "edit"
       PROVE  \E b \in Theirs : Stored(disk'[b], r.body)
    BY DEF ReceiptIsTrue
  <2>1. CASE r \in net
    <3>1. PICK b \in Theirs : Stored(disk[b], r.body)
      BY <2>1 DEF DiskInv, ReceiptIsTrue
    <3>2. r.body \in Ops
      BY <2>1, ItemParts
    <3>3. PICK o \in [type : {"msg", "edit", "delete"}, m : Msgs] :
            o.type = r.body.type /\ o.m = r.body.m
      <4>1. r.body.type \in {"msg", "edit", "delete"} /\ r.body.m \in Msgs
        BY <3>2 DEF Ops
      <4>2. [type |-> r.body.type, m |-> r.body.m] \in [type : {"msg", "edit", "delete"}, m : Msgs]
        BY <4>1
      <4>3. QED
        BY <4>2
    <3>4. b \in Devices
      BY DEF Devices
    <3>5. Stored(disk'[b], o)
      BY <1>7, <3>1, <3>3, <3>4 DEF StillStored, Stored
    <3>6. QED
      BY <3>3, <3>5 DEF Stored
  <2>2. CASE r \in Receipts({a.id : a \in ready})
    BY <1>10, <2>2
  <2>3. QED
    BY <1>1, <2>1, <2>2
<1>12. TypeOK'
  <2>1. /\ pendingWrites' \in [Devices -> SUBSET Docs] /\ net' \subseteq Items
        /\ pendingAcks' \in [Devices -> SUBSET [id : Ops, needs : SUBSET Docs]]
    <3>1. net \subseteq Items
      BY DEF DiskInv, TypeOK
    <3>2. left \ ready \in SUBSET [id : Ops, needs : SUBSET Docs]
      BY <1>5
    <3>3. QED
      BY <1>1, <1>2, <1>10, <3>1, <3>2
  <2>2. QED
    BY <1>1, <1>3, <2>1 DEF DiskInv, TypeOK
<1>13. Sound'
  <2>1. \A e \in Devices, m \in Msgs :
          disk'[e].segment[m] # None => Proper(e, disk'[e].segment[m])
    BY <1>3 DEF DiskInv, Sound
  <2>2. \A b \in Theirs : disk'[b].state = {}
    BY <1>3 DEF DiskInv, Sound, TypeOK, Devices
  <2>3. \A i \in net' : i.kind = "hist" => ProperWire(i.body.copy)
    BY <1>1, <1>10 DEF DiskInv, Sound
  <2>4. QED
    BY <1>1, <2>1, <2>2, <2>3 DEF DiskInv, Sound
<1>14. DiskCurrent'
  <2>. SUFFICES ASSUME NEW e \in Devices, NEW n \in Docs, n \notin pendingWrites'[e]
       PROVE  disk'[e][n] = docNow(e)'[n]
    BY DEF DiskCurrent
  <2>1. docNow(e)'[n] = docNow(e)[n]
    BY <1>1 DEF docNow
  <2>2. CASE e = d /\ n \in D
    BY <1>3, <2>1, <2>2 DEF Docs, docNow
  <2>3. CASE ~ (e = d /\ n \in D)
    <3>1. n \notin pendingWrites[e]
      BY <1>1, <1>2, <2>3
    <3>2. disk[e][n] = docNow(e)[n]
      BY <3>1 DEF DiskInv, DiskCurrent
    <3>3. disk'[e][n] = disk[e][n]
      BY <1>3, <2>3 DEF Docs
    <3>4. QED
      BY <2>1, <3>2, <3>3
  <2>4. QED
    BY <2>2, <2>3
<1>15. OnlyUsed'
  <2>1. \A e \in Devices : \A o \in disk'[e].state : o.m \in used
    BY <1>3 DEF DiskInv, OnlyUsed
  <2>2. \A i \in net' : i.body.m \in used
    BY <1>1, <1>10 DEF DiskInv, OnlyUsed
  <2>3. QED
    BY <1>1, <2>1, <2>2 DEF DiskInv, OnlyUsed
<1>16. QED
  BY <1>6, <1>7, <1>9, <1>11, <1>12, <1>13, <1>14, <1>15 DEF DiskInv

\* Only the documents are left, and memory starts again from them.
LEMMA Crash ==
  ASSUME DiskInv, NEW d \in Devices, crash(d)
  PROVE  DiskInv' /\ UNCHANGED disk
<1>1. /\ copies' = [copies EXCEPT ![d] = disk[d].segment]
      /\ tombstones' = [tombstones EXCEPT ![d] = disk[d].head]
      /\ outbox' = [outbox EXCEPT ![d] = disk[d].state]
      /\ pendingWrites' = [pendingWrites EXCEPT ![d] = {}]
      /\ pendingAcks' = [pendingAcks EXCEPT ![d] = {}]
      /\ net' \subseteq net /\ UNCHANGED <<used, disk>>
      /\ crashes > 0 /\ crashes' = crashes - 1
  BY DEF crash, set
<1>2. /\ copies \in [Devices -> Known] /\ tombstones \in [Devices -> SUBSET Msgs]
      /\ outbox \in [Devices -> SUBSET Ops] /\ pendingWrites \in [Devices -> SUBSET Docs]
      /\ pendingAcks \in [Devices -> SUBSET [id : Ops, needs : SUBSET Docs]]
      /\ disk \in [Devices -> [segment : Known, head : SUBSET Msgs, state : SUBSET Ops]]
      /\ crashes \in 0..MaxCrashes
  BY DEF DiskInv, TypeOK
<1>3. /\ copies'[d] = disk[d].segment /\ tombstones'[d] = disk[d].head
      /\ outbox'[d] = disk[d].state /\ pendingWrites'[d] = {} /\ pendingAcks'[d] = {}
  BY <1>1, <1>2
<1>4. \A e \in Devices : e # d =>
        /\ copies'[e] = copies[e] /\ tombstones'[e] = tombstones[e] /\ outbox'[e] = outbox[e]
        /\ pendingWrites'[e] = pendingWrites[e] /\ pendingAcks'[e] = pendingAcks[e]
  BY <1>1, <1>2
<1>5. Sound'
  <2>1. \A e \in Devices, m \in Msgs : copies'[e][m] # None => Proper(e, copies'[e][m])
    BY <1>3, <1>4 DEF DiskInv, Sound
  <2>2. QED
    BY <1>1, <2>1 DEF DiskInv, Sound
<1>6. TypeOK'
  <2>1. disk[d].segment \in Known /\ disk[d].head \in SUBSET Msgs /\ disk[d].state \in SUBSET Ops
    BY <1>2
  <2>2. /\ copies' \in [Devices -> Known] /\ tombstones' \in [Devices -> SUBSET Msgs]
        /\ outbox' \in [Devices -> SUBSET Ops] /\ pendingWrites' \in [Devices -> SUBSET Docs]
        /\ pendingAcks' \in [Devices -> SUBSET [id : Ops, needs : SUBSET Docs]]
    BY <1>1, <1>2, <2>1
  <2>3. \A b \in Theirs : outbox'[b] = {}
    BY <1>3, <1>4 DEF DiskInv, TypeOK, Sound, Devices
  <2>4. net' \subseteq Items /\ used' \subseteq Msgs
    BY <1>1 DEF DiskInv, TypeOK
  <2>5. crashes' \in 0..MaxCrashes
    BY <1>1, <1>2, DirectMessagesAssumption
  <2>6. \A e \in Devices, m \in Msgs : copies'[e][m] # None =>
          WellFormed(copies'[e][m]) /\ (copies'[e][m].delivery = "theirs" <=> e \in Theirs)
    BY <1>5 DEF Sound, Proper
  <2>7. QED
    BY <1>1, <1>2, <2>2, <2>3, <2>4, <2>5, <2>6 DEF TypeOK
<1>7. DiskCurrent'
  <2>. SUFFICES ASSUME NEW e \in Devices, NEW n \in Docs, n \notin pendingWrites'[e]
       PROVE  disk'[e][n] = docNow(e)'[n]
    BY DEF DiskCurrent
  <2>1. CASE e = d
    BY <1>1, <1>3, <2>1 DEF docNow, Docs
  <2>2. CASE e # d
    <3>1. n \notin pendingWrites[e] /\ docNow(e)' = docNow(e)
      BY <1>4, <2>2 DEF docNow
    <3>2. QED
      BY <1>1, <3>1 DEF DiskInv, DiskCurrent
  <2>3. QED
    BY <2>1, <2>2
<1>8. Remembered'
  <2>. SUFFICES ASSUME NEW e \in Devices, NEW m \in Msgs
       PROVE  /\ disk'[e].segment[m] # None => copies'[e][m] # None
              /\ Deleted(disk'[e].segment[m]) => Deleted(copies'[e][m])
              /\ m \in disk'[e].head => m \in tombstones'[e]
              /\ m \in tombstones'[e] => ~shown(copies'[e][m])
              /\ m \in tombstones'[e] => ~shown(disk'[e].segment[m])
    BY DEF Remembered
  <2>1. /\ disk[e].segment[m] # None => copies[e][m] # None
        /\ Deleted(disk[e].segment[m]) => Deleted(copies[e][m])
        /\ m \in disk[e].head => m \in tombstones[e]
        /\ m \in tombstones[e] => ~shown(copies[e][m])
        /\ m \in tombstones[e] => ~shown(disk[e].segment[m])
    BY DEF DiskInv, Remembered
  <2>2. CASE e = d
    BY <1>1, <1>3, <2>1, <2>2
  <2>3. CASE e # d
    BY <1>1, <1>4, <2>1, <2>3
  <2>4. QED
    BY <2>2, <2>3
<1>9. OnlyUsed'
  <2>1. ASSUME NEW e \in Devices
        PROVE  /\ \A m \in Msgs : copies'[e][m] # None => m \in used
               /\ tombstones'[e] \subseteq used
               /\ \A o \in outbox'[e] : o.m \in used
               /\ \A o \in disk[e].state : o.m \in used
    <3>1. /\ \A m \in Msgs : copies[e][m] # None => m \in used
          /\ tombstones[e] \subseteq used
          /\ \A o \in outbox[e] : o.m \in used
          /\ \A o \in disk[e].state : o.m \in used
      BY DEF DiskInv, OnlyUsed
    <3>2. CASE e = d
      <4>1. /\ \A m \in Msgs : disk[d].segment[m] # None => copies[d][m] # None
            /\ \A m \in Msgs : m \in disk[d].head => m \in tombstones[d]
        BY DEF DiskInv, Remembered
      <4>2. disk[d].head \subseteq Msgs
        BY <1>2
      <4>3. QED
        BY <1>3, <3>1, <3>2, <4>1, <4>2
    <3>3. CASE e # d
      BY <1>4, <3>1, <3>3
    <3>4. QED
      BY <3>2, <3>3
  <2>2. \A i \in net' : i.body.m \in used
    BY <1>1 DEF DiskInv, OnlyUsed
  <2>3. QED
    BY <1>1, <2>1, <2>2 DEF OnlyUsed
<1>10. ReceiptsHeld'
  <2>. SUFFICES ASSUME NEW e \in Devices, NEW a \in pendingAcks'[e]
       PROVE  e \in Theirs /\ a.id.m \in used' /\ (a.id.type # "edit" => Held(e, a)')
    BY DEF ReceiptsHeld
  <2>1. e # d
    BY <1>3
  <2>2. e \in Theirs /\ a.id.m \in used /\ (a.id.type # "edit" => Held(e, a))
    BY <1>4, <2>1 DEF DiskInv, ReceiptsHeld
  <2>3. QED
    BY <1>1, <1>4, <2>1, <2>2 DEF Held
<1>11. ReceiptIsTrue'
  BY <1>1 DEF DiskInv, ReceiptIsTrue
<1>12. QED
  BY <1>1, <1>5, <1>6, <1>7, <1>8, <1>9, <1>10, <1>11 DEF DiskInv

-----------------------------------------------------------------------------
(* What holds whatever is lost, late or written late, and whoever crashes. *)

\* It holds when nothing was sent.
LEMMA DiskInit == Init => DiskInv
<1>. SUFFICES ASSUME Init
     PROVE  DiskInv
  OBVIOUS
<1>1. NoCopies \in Known
  BY DEF NoCopies, Known
<1>2. TypeOK
  <2>1. \A d \in Devices, m \in Msgs : copies[d][m] = None
    BY DEF Init, NoCopies
  <2>2. /\ copies \in [Devices -> Known] /\ tombstones \in [Devices -> SUBSET Msgs]
        /\ outbox \in [Devices -> SUBSET Ops] /\ pendingWrites \in [Devices -> SUBSET Docs]
        /\ pendingAcks \in [Devices -> SUBSET [id : Ops, needs : SUBSET Docs]]
        /\ \A b \in Theirs : outbox[b] = {}
    BY <1>1 DEF Init, Devices
  <2>3. disk \in [Devices -> [segment : Known, head : SUBSET Msgs, state : SUBSET Ops]]
    BY <1>1 DEF Init
  <2>4. used \subseteq Msgs /\ net \subseteq Items /\ crashes \in 0..MaxCrashes
    BY DirectMessagesAssumption DEF Init
  <2>5. QED
    BY <2>1, <2>2, <2>3, <2>4 DEF TypeOK
<1>3. /\ \A d \in Devices : /\ disk[d].segment = NoCopies /\ disk[d].head = {}
                            /\ disk[d].state = {} /\ copies[d] = NoCopies /\ tombstones[d] = {}
                            /\ outbox[d] = {} /\ pendingAcks[d] = {} /\ pendingWrites[d] = {}
      /\ \A m \in Msgs : NoCopies[m] = None
      /\ net = {}
  BY DEF Init, NoCopies
<1>4. Sound
  BY <1>3 DEF Sound, Devices
<1>5. DiskCurrent
  <2>1. \A d \in Devices : docNow(d) = [segment |-> NoCopies, head |-> {}, state |-> {}]
    BY <1>3 DEF docNow
  <2>2. \A d \in Devices : disk[d] = [segment |-> NoCopies, head |-> {}, state |-> {}]
    BY DEF Init
  <2>3. QED
    BY <2>1, <2>2 DEF DiskCurrent
<1>6. Remembered /\ OnlyUsed /\ ReceiptsHeld /\ ReceiptIsTrue
  BY <1>3 DEF Remembered, OnlyUsed, ReceiptsHeld, ReceiptIsTrue, Deleted, shown
<1>7. QED
  BY <1>2, <1>4, <1>5, <1>6 DEF DiskInv

\* An event changes memory, unless a device crashes.
LEMMA EventStep ==
  ASSUME DiskInv, Event
  PROVE  DiskInv' /\ (Change \/ \E d \in Devices : crash(d))
<1>1. CASE \E d \in Mine, m \in Msgs :
             \/ \E text \in FirstTexts : sendMessage(d, m, text)
             \/ \E text \in Texts, at \in 1..MaxClock : editMessage(d, m, text, at)
             \/ deleteMessage(d, m) \/ resendMessage(d, m) \/ expire(d, m)
  BY <1>1, SendMessage, EditMessage, DeleteMessage, ResendMessage, Expire
<1>2. CASE \E d \in Mine : outgoing(d)
  BY <1>2, Outgoing
<1>3. CASE \E i \in net : acknowledged(i.to, i)
  BY <1>3, Acknowledged
<1>4. CASE \E i \in net : ingestPeer(i.to, i)
  BY <1>4, IngestPeer
<1>5. CASE \E i \in net : ingestSelf(i.to, i)
  BY <1>5, IngestSelf
<1>6. CASE \E i \in net : mergeHistory(i.to, i)
  BY <1>6, MergeHistory
<1>7. CASE \E d \in Devices, e \in Devices, m \in Msgs : historyFor(d, e, m)
  BY <1>7, HistoryFor
<1>8. CASE \E d \in Devices : crash(d)
  BY <1>8, Crash
<1>9. QED
  BY <1>1, <1>2, <1>3, <1>4, <1>5, <1>6, <1>7, <1>8 DEF Event

\* A write leaves memory alone.
LEMMA WriteStep ==
  ASSUME DiskInv,
         \/ \E d \in Slow, name \in Docs : writePass(d, {name})
         \/ \E d \in Devices \ Slow : writePass(d, pendingWrites[d])
  PROVE  DiskInv' /\ StillStored /\ UNCHANGED <<used, copies, tombstones, outbox, crashes>>
<1>1. Slow \subseteq Devices
  BY DirectMessagesAssumption
<1>2. PICK d \in Devices : \E D : writePass(d, D)
  BY <1>1
<1>3. DiskInv' /\ StillStored
  BY <1>2, WritePass
<1>4. UNCHANGED <<used, copies, tombstones, outbox, crashes>>
  BY <1>2 DEF writePass, memory
<1>5. QED
  BY <1>3, <1>4

\* Every step keeps it.
LEMMA DiskStep == DiskInv /\ [Next]_vars => DiskInv'
<1>. SUFFICES ASSUME DiskInv, [Next]_vars
     PROVE  DiskInv'
  OBVIOUS
<1>1. CASE Event
  BY <1>1, EventStep
<1>2. CASE \/ \E d \in Slow, name \in Docs : writePass(d, {name})
           \/ \E d \in Devices \ Slow : writePass(d, pendingWrites[d])
  BY <1>2, WriteStep
<1>3. CASE UNCHANGED vars
  BY <1>3 DEF vars, memory, DiskInv, TypeOK, Sound, DiskCurrent, docNow, Remembered, OnlyUsed,
              ReceiptsHeld, Held, ReceiptIsTrue
<1>4. QED
  BY <1>1, <1>2, <1>3 DEF Next

\* So it always holds.
LEMMA DiskInvHolds == Spec => []DiskInv
BY DiskInit, DiskStep, PTL DEF Spec

\* The state is well typed: what a device holds or stores is a proper copy,
\* only the author's devices queue, and receipts wait for documents.
THEOREM DirectMessagesTypes == Spec => []TypeOK
<1>1. DiskInv => TypeOK
  BY DEF DiskInv
<1>2. QED
  BY <1>1, DiskInvHolds, PTL

\* A receipt on its way for a message or a delete means that a device of the
\* friend has it on disk: ackWhenStored waits for the documents that hold it.
THEOREM ReceiptsAreTrue == Spec => []ReceiptIsTrue
<1>1. DiskInv => ReceiptIsTrue
  BY DEF DiskInv
<1>2. QED
  BY <1>1, DiskInvHolds, PTL

\* Once a device has a delete on disk, no late message, edit or history and no
\* crash shows the message there again.
THEOREM DeletesAreFinal == Spec => DeleteIsFinal
<1>1. ASSUME DiskInv, [Next]_vars
      PROVE  [\A d \in Devices, m \in Msgs :
                Stored(disk[d], [type |-> "delete", m |-> m]) => ~shown(copies'[d][m])]_vars
  <2>. SUFFICES ASSUME NEW d \in Devices, NEW m \in Msgs,
                       Stored(disk[d], [type |-> "delete", m |-> m]), Next
       PROVE  ~shown(copies'[d][m])
    BY <1>1
  <2>1. Deleted(copies[d][m]) \/ m \in tombstones[d]
    <3>. DEFINE o == [type |-> "delete", m |-> m]
    <3>1. o.m = m /\ o.type = "delete"
      OBVIOUS
    <3>. HIDE DEF o
    <3>2. Stored(disk[d], o)
      BY DEF o
    <3>3. QED
      BY <1>1, <3>1, <3>2, MemoryKnows
  <2>2. ~shown(copies[d][m])
    BY <1>1, <2>1 DEF DiskInv, Remembered, Deleted, shown
  <2>3. CASE Change
    BY <2>1, <2>3 DEF Change, Deleted, shown
  <2>4. CASE \E e \in Devices : crash(e)
    <3>1. PICK e \in Devices : crash(e)
      BY <2>4
    <3>2. copies'[d] = IF d = e THEN disk[d].segment ELSE copies[d]
      BY <1>1, <3>1 DEF crash, set, DiskInv, TypeOK
    <3>3. ~shown(disk[d].segment[m])
      BY DEF Stored
    <3>4. QED
      BY <2>2, <3>2, <3>3
  <2>5. CASE UNCHANGED copies
    BY <2>2, <2>5
  <2>6. CASE Event
    BY <1>1, <2>3, <2>4, <2>6, EventStep
  <2>7. CASE \/ \E e \in Slow, name \in Docs : writePass(e, {name})
             \/ \E e \in Devices \ Slow : writePass(e, pendingWrites[e])
    BY <1>1, <2>5, <2>7, WriteStep
  <2>8. QED
    BY <2>6, <2>7 DEF Next
<1>2. QED
  BY <1>1, DiskInvHolds, PTL DEF Spec, DeleteIsFinal

-----------------------------------------------------------------------------
(* What the two people see, as long as the author's devices do not crash:  *)
(* what each step does to the author's queue and to the traces of deletes. *)

DeleteWaits(O, m) == \E o \in O : o.type = "delete" /\ o.m = m
DeleteOf(i, m) == /\ i.kind # "ack" /\ i.body.m = m
                  /\ IF i.kind = "hist" THEN i.body.copy.deleted ELSE i.body.type = "delete"

\* Own devices forget neither a message nor a delete.
OwnKept ==
  \A a \in Mine, m \in Msgs : /\ copies[a][m] # None => copies'[a][m] # None
                              /\ Deleted(copies[a][m]) => Deleted(copies'[a][m])

\* Nothing shows as delivered that did not arrive.
TruthKept ==
  \A a \in Mine, m \in Msgs :
    copies[a][m] # None /\ copies'[a][m].delivery = "delivered" =>
      copies[a][m].delivery = "delivered" \/ Arrived("msg", m)

\* No delete leaves a queue before it arrived.
QueueKept ==
  \A a \in Mine, m \in Msgs : DeleteWaits(outbox[a], m) =>
    DeleteWaits(outbox'[a], m) \/ Arrived("delete", m)

\* What is new has not been delivered.
NewPending ==
  \A m \in used' \ used : \E a \in Mine :
    copies'[a][m] # None /\ copies'[a][m].delivery # "delivered"

\* No trace of a delete of m appears.
TraceKept(m) ==
  /\ \A d \in Devices :
       Deleted(copies'[d][m]) \/ m \in tombstones'[d] \/ DeleteWaits(outbox'[d], m) =>
         DeleteTrace(m)
  /\ \A i \in net' : DeleteOf(i, m) => DeleteTrace(m)

\* Or an own device deleted m and will tell.
DeletedHere(m) == \E a \in Mine : Deleted(copies'[a][m]) /\ DeleteWaits(outbox'[a], m)

StillPending ==
  \A a \in Mine, m \in Msgs :
    shown(copies'[a][m]) /\ copies'[a][m].delivery = "pending" =>
      \E o \in outbox'[a] : o.type = "msg" /\ o.m = m

\* What a step has to keep for the invariant of both people.
LEMMA FriendsStep ==
  ASSUME FriendsInv, DiskInv', StillStored, OwnKept, TruthKept, QueueKept, NewPending,
         \A m \in Msgs : TraceKept(m) \/ DeletedHere(m), StillPending
  PROVE  FriendsInv'
<1>1. ASSUME NEW type \in {"msg", "delete"}, NEW m \in Msgs, Arrived(type, m)
      PROVE  \E b \in Theirs : Stored(disk'[b], [type |-> type, m |-> m])
  <2>1. PICK b \in Theirs : Stored(disk[b], [type |-> type, m |-> m])
    BY <1>1 DEF Arrived
  <2>2. b \in Devices /\ [type |-> type, m |-> m] \in [type : {"msg", "edit", "delete"}, m : Msgs]
    BY DEF Devices
  <2>3. QED
    BY <2>1, <2>2 DEF StillStored
<1>2. DeletesGoOut'
  <2>. SUFFICES ASSUME NEW m \in Msgs, DeleteTrace(m)'
       PROVE  /\ \E a \in Mine : Deleted(copies'[a][m])
              /\ \/ \E b \in Theirs : Stored(disk'[b], [type |-> "delete", m |-> m])
                 \/ \E a \in Mine : DeleteWaits(outbox'[a], m)
    BY DEF DeletesGoOut, Arrived, DeleteWaits
  <2>1. CASE DeletedHere(m)
    BY <2>1 DEF DeletedHere
  <2>2. CASE TraceKept(m)
    <3>1. DeleteTrace(m)
      BY <2>2 DEF TraceKept, DeleteTrace, DeleteWaits, DeleteOf
    <3>2. /\ \E a \in Mine : Deleted(copies[a][m])
          /\ Arrived("delete", m) \/ \E a \in Mine : DeleteWaits(outbox[a], m)
      BY <3>1 DEF FriendsInv, DeletesGoOut, DeleteWaits
    <3>3. \E a \in Mine : Deleted(copies'[a][m])
      BY <3>2 DEF OwnKept
    <3>4. CASE Arrived("delete", m)
      BY <1>1, <3>3, <3>4
    <3>5. CASE \E a \in Mine : DeleteWaits(outbox[a], m)
      BY <1>1, <3>3, <3>5 DEF QueueKept
    <3>6. QED
      BY <3>2, <3>4, <3>5
  <2>3. QED
    BY <2>1, <2>2
<1>3. SenderKnows'
  <2>. SUFFICES ASSUME NEW m \in used'
       PROVE  \E a \in Mine : /\ copies'[a][m] # None
                              /\ copies'[a][m].delivery = "delivered" =>
                                   \E b \in Theirs : Stored(disk'[b], [type |-> "msg", m |-> m])
    BY DEF SenderKnows, Arrived
  <2>1. m \in Msgs
    BY DEF DiskInv, TypeOK
  <2>2. CASE m \in used
    <3>1. PICK a \in Mine : /\ copies[a][m] # None
                            /\ copies[a][m].delivery = "delivered" => Arrived("msg", m)
      BY <2>2 DEF FriendsInv, SenderKnows
    <3>2. copies'[a][m] # None /\ (copies'[a][m].delivery = "delivered" => Arrived("msg", m))
      BY <2>1, <3>1 DEF OwnKept, TruthKept
    <3>3. QED
      BY <1>1, <2>1, <3>2
  <2>3. CASE m \notin used
    BY <2>3 DEF NewPending
  <2>4. QED
    BY <2>2, <2>3
<1>4. PendingIsQueued'
  BY DEF StillPending, PendingIsQueued, msgEntries
<1>5. QED
  BY <1>2, <1>3, <1>4 DEF FriendsInv

\* A step that gives no own device a copy that waits, and leaves its queue.
OwnQuiet ==
  \A a \in Mine : /\ outbox'[a] = outbox[a]
                  /\ \A m \in Msgs : copies'[a][m] # None =>
                       IF copies[a][m] = None THEN copies'[a][m].delivery = "delivered"
                       ELSE copies'[a][m].delivery = copies[a][m].delivery

\* A step that changes nothing the author's devices show or queue.
LEMMA QuietStep ==
  ASSUME FriendsInv, DiskInv', StillStored, OwnKept, OwnQuiet, UNCHANGED used,
         \A m \in Msgs : TraceKept(m)
  PROVE  FriendsInv'
<1>1. QueueKept /\ NewPending /\ TruthKept
  BY DEF QueueKept, NewPending, TruthKept, OwnQuiet, OwnKept
<1>2. StillPending
  <2>. SUFFICES ASSUME NEW a \in Mine, NEW m \in Msgs,
                       shown(copies'[a][m]), copies'[a][m].delivery = "pending"
       PROVE  \E o \in outbox'[a] : o.type = "msg" /\ o.m = m
    BY DEF StillPending
  <2>1. copies'[a][m] # None /\ ~Deleted(copies'[a][m])
    BY DEF shown, Deleted
  <2>2. copies[a][m] # None /\ copies[a][m].delivery = "pending"
    BY <2>1 DEF OwnQuiet
  <2>3. shown(copies[a][m])
    BY <2>1, <2>2 DEF OwnKept, Deleted, shown
  <2>4. msgEntries(a, m) # {}
    BY <2>2, <2>3 DEF FriendsInv, PendingIsQueued
  <2>5. QED
    BY <2>4 DEF msgEntries, OwnQuiet
<1>3. QED
  BY <1>1, <1>2, FriendsStep

\* Where there is a trace.
LEMMA Traces ==
  ASSUME NEW m
  PROVE  /\ \A d \in Devices : /\ Deleted(copies[d][m]) => DeleteTrace(m)
                               /\ m \in tombstones[d] => DeleteTrace(m)
                               /\ DeleteWaits(outbox[d], m) => DeleteTrace(m)
         /\ \A i \in net : DeleteOf(i, m) => DeleteTrace(m)
BY DEF DeleteTrace, DeleteWaits, DeleteOf

\* A step that does not write keeps what is stored and known.
LEMMA KeptByChange ==
  ASSUME Change, UNCHANGED disk
  PROVE  OwnKept /\ StillStored
BY DEF Change, OwnKept, StillStored, Devices

\* What an operation that reaches a device changes besides.
LEMMA ApplyEffects ==
  ASSUME DiskInv, NEW d \in Devices, NEW o \in Ops,
         copies' = setCopy(d, o.m, CopyAfter(d, o)),
         tombstones' = set(tombstones, d, TombstonesAfter(d, o))
  PROVE  /\ \A e \in Devices, m \in Msgs :
              /\ Deleted(copies'[e][m]) =>
                   Deleted(copies[e][m]) \/ (o.type = "delete" /\ m = o.m)
              /\ m \in tombstones'[e] => m \in tombstones[e] \/ (o.type = "delete" /\ m = o.m)
         /\ \A e \in Devices : e # d => copies'[e] = copies[e]
         /\ d \in Mine => \A m \in Msgs : copies'[d][m] # None =>
              IF copies[d][m] = None THEN copies'[d][m].delivery = "delivered"
              ELSE copies'[d][m].delivery = copies[d][m].delivery
<1>. PICK c : c = copies[d][o.m]
  OBVIOUS
<1>. PICK new : new = CopyAfter(d, o)
  OBVIOUS
<1>1. /\ copies \in [Devices -> Known] /\ tombstones \in [Devices -> SUBSET Msgs] /\ o.m \in Msgs
      /\ o.type \in {"msg", "edit", "delete"}
      /\ o.text \in Texts \cup {NoText} /\ o.at \in 0..MaxClock
  BY DEF DiskInv, TypeOK, Ops
<1>2. c # None => Proper(d, c)
  BY <1>1 DEF DiskInv, Sound
<1>3. /\ Deleted(new) => Deleted(c) \/ o.type = "delete"
      /\ new # None /\ d \in Mine =>
           IF c = None THEN new.delivery = "delivered" ELSE new.delivery = c.delivery
  <2>1. CASE o.type = "msg" /\ Accepts(d, o.m)
    <3>1. new = storedMessage(o.text, o.at, 0, FALSE, d \in Mine) /\ c = None
      BY <2>1 DEF CopyAfter, Accepts
    <3>2. new = [text |-> o.text, at |-> o.at, edited |-> 0, deleted |-> FALSE,
                 delivery |-> IF d \in Mine THEN "delivered" ELSE "theirs"]
      BY <3>1 DEF storedMessage
    <3>3. ~new.deleted /\ (d \in Mine => new.delivery = "delivered")
      BY <3>2
    <3>4. c = None
      BY <3>1
    <3>5. QED
      BY <3>3, <3>4 DEF Deleted
  <2>2. CASE o.type = "msg" /\ ~Accepts(d, o.m)
    BY <2>2 DEF CopyAfter
  <2>3. CASE o.type = "edit" /\ c # None
    <3>1. new = edited(c, o.at, o.text)
      BY <2>3 DEF CopyAfter
    <3>2. new.deleted = c.deleted /\ new.delivery = c.delivery
      BY <1>1, <1>2, <2>3, <3>1, EditedProper
    <3>3. QED
      BY <2>3, <3>2 DEF Deleted
  <2>4. CASE o.type = "delete" /\ c # None
    <3>1. new = markDeleted(c)
      BY <2>4 DEF CopyAfter
    <3>2. new.delivery = c.delivery
      BY <1>2, <2>4, <3>1, MarkDeletedProper
    <3>3. QED
      BY <2>4, <3>2
  <2>5. CASE o.type # "msg" /\ c = None
    <3>1. new = c
      BY <1>1, <2>5 DEF CopyAfter
    <3>2. QED
      BY <2>5, <3>1
  <2>6. QED
    BY <1>1, <2>1, <2>2, <2>3, <2>4, <2>5
<1>4. /\ \A e \in Devices : e # d => copies'[e] = copies[e]
      /\ \A m \in Msgs : copies'[d][m] = IF m = o.m THEN new ELSE copies[d][m]
  <2>1. copies' = [copies EXCEPT ![d][o.m] = new]
    BY DEF setCopy
  <2>2. QED
    BY <1>1, <2>1 DEF Known
<1>5. \A e \in Devices, m \in Msgs :
        m \in tombstones'[e] => m \in tombstones[e] \/ (o.type = "delete" /\ m = o.m)
  <2>1. tombstones' = [tombstones EXCEPT ![d] = TombstonesAfter(d, o)]
    BY DEF set
  <2>2. \A m : m \in TombstonesAfter(d, o) =>
          m \in tombstones[d] \/ (o.type = "delete" /\ m = o.m)
    BY DEF TombstonesAfter
  <2>3. QED
    BY <1>1, <2>1, <2>2
<1>6. \A e \in Devices, m \in Msgs :
        Deleted(copies'[e][m]) => Deleted(copies[e][m]) \/ (o.type = "delete" /\ m = o.m)
  BY <1>3, <1>4
<1>7. d \in Mine => \A m \in Msgs : copies'[d][m] # None =>
        IF copies[d][m] = None THEN copies'[d][m].delivery = "delivered"
        ELSE copies'[d][m].delivery = copies[d][m].delivery
  BY <1>3, <1>4
<1>8. QED
  BY <1>4, <1>5, <1>6, <1>7

\* A friend's operation, and one from another own device.
LEMMA FriendsIngest ==
  ASSUME FriendsInv, NEW i \in net, ingestPeer(i.to, i) \/ ingestSelf(i.to, i), DiskInv', Change
  PROVE  FriendsInv'
<1>. PICK d : d = i.to
  OBVIOUS
<1>. PICK o : o = i.body
  OBVIOUS
<1>1. DiskInv
  BY DEF FriendsInv
<1>2. d \in Devices /\ o \in Ops /\ i.kind \in {"envelope", "self"}
  BY <1>1, ItemParts DEF ingestPeer, ingestSelf
<1>3. /\ copies' = setCopy(d, o.m, CopyAfter(d, o))
      /\ tombstones' = set(tombstones, d, TombstonesAfter(d, o))
      /\ UNCHANGED <<used, outbox, disk, crashes>>
  BY DEF ingestPeer, ingestSelf, applyOp
<1>4. \A r \in net' : r \in net \/ r.kind = "ack"
  <2>1. {idOf(o)} \in SUBSET Ops
    BY <1>2, IdFields
  <2>2. \A r \in Receipts({idOf(o)}) : r.kind = "ack"
    BY <2>1, ReceiptItems
  <2>3. net' \subseteq net \cup Receipts({idOf(o)})
    BY DEF ingestPeer, ingestSelf, Relay
  <2>4. QED
    BY <2>2, <2>3
<1>5. /\ \A e \in Devices, m \in Msgs :
           /\ Deleted(copies'[e][m]) => Deleted(copies[e][m]) \/ (o.type = "delete" /\ m = o.m)
           /\ m \in tombstones'[e] => m \in tombstones[e] \/ (o.type = "delete" /\ m = o.m)
      /\ \A e \in Devices : e # d => copies'[e] = copies[e]
      /\ d \in Mine => \A m \in Msgs : copies'[d][m] # None =>
           IF copies[d][m] = None THEN copies'[d][m].delivery = "delivered"
           ELSE copies'[d][m].delivery = copies[d][m].delivery
  BY <1>1, <1>2, <1>3, ApplyEffects
<1>6. OwnKept /\ StillStored
  BY <1>3, KeptByChange
<1>7. OwnQuiet
  <2>. SUFFICES ASSUME NEW a \in Mine
       PROVE  /\ outbox'[a] = outbox[a]
              /\ \A m \in Msgs : copies'[a][m] # None =>
                   IF copies[a][m] = None THEN copies'[a][m].delivery = "delivered"
                   ELSE copies'[a][m].delivery = copies[a][m].delivery
    BY DEF OwnQuiet
  <2>1. CASE a = d
    BY <1>3, <1>5, <2>1
  <2>2. CASE a # d
    <3>1. copies'[a] = copies[a]
      BY <1>5, <2>2 DEF Devices
    <3>2. QED
      BY <1>3, <3>1
  <2>3. QED
    BY <2>1, <2>2
<1>8. ASSUME NEW m \in Msgs
      PROVE  TraceKept(m)
  <2>1. o.type = "delete" /\ m = o.m => DeleteTrace(m)
    <3>1. o.type = "delete" /\ m = o.m => DeleteOf(i, m)
      BY <1>2 DEF DeleteOf
    <3>2. QED
      BY <3>1, Traces
  <2>2. \A e \in Devices : /\ Deleted(copies'[e][m]) => DeleteTrace(m)
                           /\ m \in tombstones'[e] => DeleteTrace(m)
                           /\ DeleteWaits(outbox'[e], m) => DeleteTrace(m)
    BY <1>3, <1>5, <2>1, Traces
  <2>3. \A r \in net' : DeleteOf(r, m) => DeleteTrace(m)
    <3>1. \A r \in net' : DeleteOf(r, m) => r \in net
      BY <1>4 DEF DeleteOf
    <3>2. QED
      BY <3>1, Traces
  <2>4. QED
    BY <2>2, <2>3 DEF TraceKept
<1>9. QED
  BY <1>3, <1>6, <1>7, <1>8, QuietStep

\* A merge brings a delete only from where there was one.
LEMMA FriendsMerge ==
  ASSUME FriendsInv, NEW i \in net, mergeHistory(i.to, i), DiskInv', Change
  PROVE  FriendsInv'
<1>. DEFINE d == i.to
            m == i.body.m
            w == i.body.copy
<1>. PICK new : new = IF copies[d][m] = None
                        THEN storedMessage(w.text, w.at, w.edited,
                                           w.deleted \/ m \in tombstones[d], d \in Mine)
                        ELSE merged(copies[d][m], w, m \in tombstones[d])
  OBVIOUS
<1>1. DiskInv
  BY DEF FriendsInv
<1>2. /\ d \in Devices /\ m \in Msgs /\ w \in Wires /\ ProperWire(w) /\ i.kind = "hist"
      /\ copies \in [Devices -> Known]
  BY <1>1, ItemParts DEF mergeHistory, DiskInv, TypeOK
<1>3. /\ copies' = setCopy(d, m, new) /\ net' \subseteq net
      /\ UNCHANGED <<used, tombstones, outbox, disk>>
  BY DEF mergeHistory
<1>4. /\ Deleted(new) => Deleted(copies[d][m]) \/ w.deleted \/ m \in tombstones[d]
      /\ copies[d][m] # None => new.delivery = copies[d][m].delivery
      /\ copies[d][m] = None /\ d \in Mine => new.delivery = "delivered"
  BY <1>1, <1>2, HistoryCopy
<1>5. \A e \in Devices, k \in Msgs :
        copies'[e][k] = IF e = d /\ k = m THEN new ELSE copies[e][k]
  BY <1>2, <1>3 DEF setCopy, Known
<1>6. Deleted(new) => DeleteTrace(m)
  <2>1. w.deleted => DeleteOf(i, m)
    BY <1>2 DEF DeleteOf
  <2>2. QED
    BY <1>2, <1>4, <2>1, Traces
<1>7. OwnKept /\ StillStored
  BY <1>3, KeptByChange
<1>8. OwnQuiet
  <2>. SUFFICES ASSUME NEW a \in Mine, NEW k \in Msgs, copies'[a][k] # None
       PROVE  IF copies[a][k] = None THEN copies'[a][k].delivery = "delivered"
              ELSE copies'[a][k].delivery = copies[a][k].delivery
    BY <1>3 DEF OwnQuiet
  <2>1. a \in Devices
    BY DEF Devices
  <2>2. CASE a = d /\ k = m
    BY <1>4, <1>5, <2>1, <2>2
  <2>3. CASE ~ (a = d /\ k = m)
    BY <1>5, <2>1, <2>3
  <2>4. QED
    BY <2>2, <2>3
<1>9. ASSUME NEW k \in Msgs
      PROVE  TraceKept(k)
  <2>1. \A e \in Devices : Deleted(copies'[e][k]) => DeleteTrace(k)
    BY <1>5, <1>6, Traces
  <2>2. QED
    BY <1>3, <2>1, Traces DEF TraceKept
<1>10. QED
  BY <1>3, <1>7, <1>8, <1>9, QuietStep

\* Steps that leave the memory of the author's devices alone.
LEMMA FriendsUnmoved ==
  ASSUME FriendsInv, DiskInv', StillStored, UNCHANGED used,
         \A a \in Mine : copies'[a] = copies[a] /\ outbox'[a] = outbox[a],
         \A m \in Msgs : TraceKept(m)
  PROVE  FriendsInv'
<1>1. OwnKept /\ OwnQuiet
  BY DEF OwnKept, OwnQuiet
<1>2. QED
  BY <1>1, QuietStep

\* History that is sent has a delete only where the sender has it.
LEMMA FriendsHistory ==
  ASSUME FriendsInv, NEW d \in Devices, NEW e \in Devices, NEW m \in Msgs, historyFor(d, e, m),
         DiskInv', Change
  PROVE  FriendsInv'
<1>. PICK x : x = [to |-> e, kind |-> "hist", body |-> [m |-> m, copy |-> wire(copies[d][m])]]
  OBVIOUS
<1>1. /\ copies[d][m] # None /\ net' \subseteq net \cup {x}
      /\ UNCHANGED <<used, copies, tombstones, outbox, disk>>
  BY DEF historyFor, Relay, memory
<1>2. x.kind = "hist" /\ x.body.m = m /\ x.body.copy.deleted = copies[d][m].deleted
  BY DEF wire
<1>3. StillStored
  BY <1>1, KeptByChange
<1>4. ASSUME NEW k \in Msgs
      PROVE  TraceKept(k)
  <2>1. DeleteOf(x, k) => DeleteTrace(k)
    BY <1>1, <1>2, Traces DEF DeleteOf, Deleted
  <2>2. QED
    BY <1>1, <2>1, Traces DEF TraceKept
<1>5. QED
  BY <1>1, <1>3, <1>4, FriendsUnmoved

\* What a round sends was queued.
LEMMA FriendsOutgoing ==
  ASSUME FriendsInv, NEW d \in Mine, outgoing(d), DiskInv', Change
  PROVE  FriendsInv'
<1>1. /\ net' = net \cup ToFriend(outbox[d])
      /\ UNCHANGED <<used, copies, tombstones, outbox, disk>>
  BY DEF outgoing, Relay, memory
<1>2. /\ outbox[d] \in SUBSET Ops /\ d \in Devices
  BY DEF FriendsInv, DiskInv, TypeOK, Devices
<1>3. \A i \in ToFriend(outbox[d]) : i.kind = "envelope" /\ i.body \in outbox[d]
  BY <1>2, ToFriendItems
<1>4. StillStored
  BY <1>1, KeptByChange
<1>5. ASSUME NEW k \in Msgs
      PROVE  TraceKept(k)
  <2>1. \A i \in ToFriend(outbox[d]) : DeleteOf(i, k) => DeleteWaits(outbox[d], k)
    BY <1>3 DEF DeleteOf, DeleteWaits
  <2>2. QED
    BY <1>1, <1>2, <2>1, Traces DEF TraceKept
<1>6. QED
  BY <1>1, <1>4, <1>5, FriendsUnmoved

\* A receipt that leaves changes nothing at the author yet.
LEMMA FriendsWrite ==
  ASSUME FriendsInv, NEW d \in Devices, NEW D, writePass(d, D), DiskInv', StillStored
  PROVE  FriendsInv'
<1>. PICK I : I = {a.id : a \in {b \in {[a EXCEPT !.needs = @ \ D] : a \in pendingAcks[d]} :
                                   b.needs = {}}}
  OBVIOUS
<1>1. /\ net' = net \cup Receipts(I) /\ UNCHANGED <<used, copies, tombstones, outbox>>
  BY DEF writePass, Relay, memory
<1>2. \A i \in Receipts(I) : i.kind = "ack"
  BY DEF Receipts
<1>3. ASSUME NEW k \in Msgs
      PROVE  TraceKept(k)
  <2>1. \A i \in net' : DeleteOf(i, k) => i \in net
    BY <1>1, <1>2 DEF DeleteOf
  <2>2. QED
    BY <1>1, <2>1, Traces DEF TraceKept
<1>4. QED
  BY <1>1, <1>3, FriendsUnmoved

\* A crash of the friend loses nothing that was stored.
LEMMA FriendsCrash ==
  ASSUME FriendsInv, NEW d \in Theirs, crash(d), DiskInv', UNCHANGED disk
  PROVE  FriendsInv'
<1>1. /\ copies' = [copies EXCEPT ![d] = disk[d].segment]
      /\ tombstones' = [tombstones EXCEPT ![d] = disk[d].head]
      /\ outbox' = [outbox EXCEPT ![d] = disk[d].state] /\ net' \subseteq net /\ used' = used
  BY DEF crash, set
<1>2. /\ copies \in [Devices -> Known] /\ tombstones \in [Devices -> SUBSET Msgs]
      /\ outbox \in [Devices -> SUBSET Ops] /\ d \in Devices /\ d \notin Mine
      /\ disk[d].state = {} /\ disk[d].head \subseteq Msgs
      /\ \A m \in Msgs : /\ Deleted(disk[d].segment[m]) => Deleted(copies[d][m])
                         /\ m \in disk[d].head => m \in tombstones[d]
  BY DirectMessagesAssumption DEF FriendsInv, DiskInv, TypeOK, Sound, Remembered, Devices
<1>3. StillStored
  BY DEF StillStored
<1>4. \A a \in Mine : copies'[a] = copies[a] /\ outbox'[a] = outbox[a]
  BY <1>1, <1>2 DEF Devices
<1>5. ASSUME NEW k \in Msgs
      PROVE  TraceKept(k)
  <2>1. ASSUME NEW e \in Devices
        PROVE  /\ Deleted(copies'[e][k]) => Deleted(copies[e][k])
               /\ k \in tombstones'[e] => k \in tombstones[e]
               /\ DeleteWaits(outbox'[e], k) => DeleteWaits(outbox[e], k)
    <3>1. CASE e = d
      BY <1>1, <1>2, <3>1 DEF DeleteWaits
    <3>2. CASE e # d
      BY <1>1, <1>2, <3>2
    <3>3. QED
      BY <3>1, <3>2
  <2>2. QED
    BY <1>1, <2>1, Traces DEF TraceKept
<1>6. QED
  BY <1>1, <1>3, <1>4, <1>5, FriendsUnmoved

-----------------------------------------------------------------------------
(* The operations of the author.                                           *)

\* What is sent names the messages of these operations only.
LEMMA SentTrace ==
  ASSUME NEW d \in Mine, NEW O \in SUBSET Ops, NEW o \in Ops, NEW Self \in {ToSelf(d, o), {}},
         net' = (net \ {}) \cup (ToFriend(O) \cup Self), NEW m,
         \A x \in O \cup {o} : ~ (x.type = "delete" /\ x.m = m)
  PROVE  \A i \in net' : DeleteOf(i, m) => DeleteTrace(m)
<1>1. \A i \in ToFriend(O) : i.kind = "envelope" /\ i.body \in O
  BY ToFriendItems
<1>2. \A i \in Self : i.kind = "self" /\ i.body = o
  BY ToSelfItems
<1>3. \A i \in net' : DeleteOf(i, m) => i \in net
  BY <1>1, <1>2 DEF DeleteOf
<1>4. QED
  BY <1>3, Traces

\* Copy and queue of one own device; other copies stay as they are.
LEMMA OwnStep ==
  ASSUME FriendsInv, NEW d \in Mine, NEW m \in Msgs, NEW new, copies' = setCopy(d, m, new),
         NEW O, outbox' = set(outbox, d, O)
  PROVE  /\ \A a \in Devices, k \in Msgs :
              copies'[a][k] = IF a = d /\ k = m THEN new ELSE copies[a][k]
         /\ \A a \in Devices : outbox'[a] = IF a = d THEN O ELSE outbox[a]
         /\ d \in Devices /\ \A a \in Mine : a \in Devices
<1>1. copies \in [Devices -> Known] /\ outbox \in [Devices -> SUBSET Ops]
      /\ d \in Devices /\ \A a \in Mine : a \in Devices
  BY DEF FriendsInv, DiskInv, TypeOK, Devices
<1>2. copies' = [copies EXCEPT ![d][m] = new] /\ outbox' = [outbox EXCEPT ![d] = O]
  BY DEF setCopy, set
<1>3. \A a \in Devices : outbox'[a] = IF a = d THEN O ELSE outbox[a]
  BY <1>1, <1>2
<1>4. \A a \in Devices, k \in Msgs :
        copies'[a][k] = IF a = d /\ k = m THEN new ELSE copies[a][k]
  BY <1>1, <1>2 DEF Known
<1>5. QED
  BY <1>1, <1>3, <1>4

\* A new message is queued as it shows.
LEMMA FriendsSend ==
  ASSUME FriendsInv, NEW d \in Mine, NEW m \in Msgs, NEW text \in FirstTexts,
         sendMessage(d, m, text), DiskInv', Change
  PROVE  FriendsInv'
<1>o. PICK o : o = op("msg", d, m, text, 0)
  OBVIOUS
<1>new. PICK new : new = [text |-> text, at |-> 0, edited |-> 0, deleted |-> FALSE,
                       delivery |-> "pending"]
  OBVIOUS
<1>O. PICK O : O = outbox[d] \cup {o}
  OBVIOUS
<1>1. /\ m \notin used /\ used' = used \cup {m} /\ copies' = setCopy(d, m, new)
      /\ outbox' = set(outbox, d, O)
      /\ net' = (net \ {}) \cup (ToFriend({o}) \cup ToSelf(d, o))
      /\ UNCHANGED <<tombstones, disk>>
  BY <1>o, <1>new, <1>O DEF sendMessage, Relay
<1>2. o \in Ops /\ o.type = "msg" /\ o.m = m
  <2>1. text \in Texts \cup {NoText} /\ 0 \in 0..MaxClock
    BY DirectMessagesAssumption
  <2>2. QED
    BY <1>o, <2>1, OpType
<1>3. ~new.deleted /\ new.delivery = "pending" /\ new # None
  <2>1. new.delivery = "pending" /\ ~new.deleted
    BY <1>new
  <2>2. new \in StoredMessages
    BY <1>new, DirectMessagesAssumption DEF StoredMessages, Deliveries
  <2>3. QED
    BY <2>1, <2>2, DirectMessagesAssumption
<1>4. /\ \A a \in Devices, k \in Msgs :
           copies'[a][k] = IF a = d /\ k = m THEN new ELSE copies[a][k]
      /\ \A a \in Devices : outbox'[a] = IF a = d THEN O ELSE outbox[a]
      /\ d \in Devices /\ \A a \in Mine : a \in Devices
  BY <1>1, OwnStep
<1>5. copies[d][m] = None
  BY <1>1, <1>4 DEF FriendsInv, DiskInv, OnlyUsed
<1>6. OwnKept /\ StillStored
  BY <1>1, KeptByChange
<1>7. TruthKept
  BY <1>4, <1>5 DEF TruthKept
<1>8. QueueKept
  BY <1>O, <1>4 DEF QueueKept, DeleteWaits
<1>9. NewPending
  BY <1>1, <1>3, <1>4 DEF NewPending
<1>10. ASSUME NEW k \in Msgs
       PROVE  TraceKept(k)
  <2>1. \A i \in net' : DeleteOf(i, k) => DeleteTrace(k)
    <3>1. {o} \in SUBSET Ops /\ \A x \in {o} \cup {o} : ~ (x.type = "delete" /\ x.m = k)
      BY <1>2
    <3>2. QED
      BY <1>1, <1>2, <3>1, SentTrace
  <2>2. \A e \in Devices : /\ Deleted(copies'[e][k]) => DeleteTrace(k)
                           /\ k \in tombstones'[e] => DeleteTrace(k)
                           /\ DeleteWaits(outbox'[e], k) => DeleteTrace(k)
    <3>1. \A e \in Devices : /\ Deleted(copies'[e][k]) => Deleted(copies[e][k])
                             /\ DeleteWaits(outbox'[e], k) => DeleteWaits(outbox[e], k)
      BY <1>O, <1>2, <1>3, <1>4 DEF Deleted, DeleteWaits
    <3>2. QED
      BY <1>1, <3>1, Traces
  <2>3. QED
    BY <2>1, <2>2 DEF TraceKept
<1>11. StillPending
  BY <1>O, <1>2, <1>4 DEF StillPending, FriendsInv, PendingIsQueued, msgEntries
<1>12. QED
  BY <1>6, <1>7, <1>8, <1>9, <1>10, <1>11, FriendsStep

\* An edit of a waiting message queues it anew, with its new text.
LEMMA FriendsEdit ==
  ASSUME FriendsInv, NEW d \in Mine, NEW m \in Msgs, NEW text \in Texts, NEW at \in 1..MaxClock,
         editMessage(d, m, text, at), DiskInv', Change
  PROVE  FriendsInv'
<1>o. PICK o : o = op("edit", d, m, text, at)
  OBVIOUS
<1>c. PICK c : c = copies[d][m]
  OBVIOUS
<1>new. PICK new : new = [c EXCEPT !.text = text, !.at = at, !.edited = at]
  OBVIOUS
<1>copy. PICK copy : copy = waiting(d, m, text, at)
  OBVIOUS
<1>O. PICK O : O = (outbox[d] \ entriesOf(d, m, {"msg", "edit"})) \cup copy \cup {o}
  OBVIOUS
<1>1. /\ c # None /\ ~c.deleted /\ copies' = setCopy(d, m, new)
      /\ outbox' = set(outbox, d, O)
      /\ net' = (net \ {}) \cup (ToFriend(copy \cup {o}) \cup ToSelf(d, o))
      /\ UNCHANGED <<used, tombstones, disk>>
  BY <1>o, <1>c, <1>new, <1>copy, <1>O DEF editMessage, Relay
<1>2. o \in Ops /\ o.type = "edit" /\ o.m = m /\ at \in 0..MaxClock /\ text \in Texts \cup {NoText}
  <2>1. at \in 0..MaxClock /\ text \in Texts \cup {NoText}
    BY DirectMessagesAssumption
  <2>2. QED
    BY <1>o, <2>1, OpType
<1>3. DiskInv /\ outbox[d] \in SUBSET Ops
  BY DEF FriendsInv, DiskInv, TypeOK, Devices
<1>4. c \in StoredMessages
  BY <1>c, <1>1, <1>3, ProperParts DEF DiskInv, Sound, Devices
<1>5. new.deleted = c.deleted /\ new.delivery = c.delivery
  BY <1>new, <1>4 DEF StoredMessages
<1>6. /\ \A a \in Devices, k \in Msgs :
           copies'[a][k] = IF a = d /\ k = m THEN new ELSE copies[a][k]
      /\ \A a \in Devices : outbox'[a] = IF a = d THEN O ELSE outbox[a]
      /\ d \in Devices /\ \A a \in Mine : a \in Devices
  BY <1>1, OwnStep
<1>7. /\ \A x \in copy : x \in Ops /\ x.type = "msg" /\ x.m = m
      /\ msgEntries(d, m) # {} => copy # {}
  <2>1. \A e \in msgEntries(d, m) : /\ [e EXCEPT !.text = text, !.at = at] \in Ops
                                    /\ [e EXCEPT !.text = text, !.at = at].type = "msg"
                                    /\ [e EXCEPT !.text = text, !.at = at].m = m
    BY <1>2, <1>3 DEF Ops, msgEntries
  <2>2. QED
    BY <1>copy, <2>1 DEF waiting
<1>8. OwnKept /\ StillStored
  BY <1>1, KeptByChange
<1>9. TruthKept /\ NewPending
  BY <1>c, <1>1, <1>5, <1>6 DEF TruthKept, NewPending
<1>10. QueueKept
  <2>1. \A x \in outbox[d] : x.type = "delete" => x \in O
    BY <1>O DEF entriesOf
  <2>2. QED
    BY <1>O, <1>6, <2>1 DEF QueueKept, DeleteWaits
<1>11. ASSUME NEW k \in Msgs
       PROVE  TraceKept(k)
  <2>1. \A i \in net' : DeleteOf(i, k) => DeleteTrace(k)
    <3>. DEFINE P == copy \cup {o}
    <3>1. P \in SUBSET Ops /\ \A x \in P \cup {o} : ~ (x.type = "delete" /\ x.m = k)
      BY <1>2, <1>7
    <3>2. net' = (net \ {}) \cup (ToFriend(P) \cup ToSelf(d, o))
      BY <1>1
    <3>. HIDE DEF P
    <3>3. QED
      BY <1>2, <3>1, <3>2, SentTrace
  <2>2. \A e \in Devices : /\ Deleted(copies'[e][k]) => DeleteTrace(k)
                           /\ k \in tombstones'[e] => DeleteTrace(k)
                           /\ DeleteWaits(outbox'[e], k) => DeleteTrace(k)
    <3>1. \A e \in Devices : Deleted(copies'[e][k]) => Deleted(copies[e][k])
      BY <1>1, <1>5, <1>6 DEF Deleted
    <3>2. \A e \in Devices : DeleteWaits(outbox'[e], k) => DeleteWaits(outbox[e], k)
      BY <1>O, <1>2, <1>6, <1>7 DEF DeleteWaits
    <3>3. QED
      BY <1>1, <3>1, <3>2, Traces
  <2>3. QED
    BY <2>1, <2>2 DEF TraceKept
<1>12. StillPending
  <2>. SUFFICES ASSUME NEW a \in Mine, NEW k \in Msgs,
                       shown(copies'[a][k]), copies'[a][k].delivery = "pending"
       PROVE  \E x \in outbox'[a] : x.type = "msg" /\ x.m = k
    BY DEF StillPending
  <2>1. msgEntries(a, k) # {}
    <3>1. shown(copies[a][k]) /\ copies[a][k].delivery = "pending"
      BY <1>c, <1>1, <1>5, <1>6 DEF shown
    <3>2. QED
      BY <3>1 DEF FriendsInv, PendingIsQueued
  <2>2. CASE a = d /\ k = m
    BY <1>O, <1>6, <1>7, <2>1, <2>2
  <2>3. CASE ~ (a = d /\ k = m)
    <3>1. PICK x \in outbox[a] : x.type = "msg" /\ x.m = k
      BY <2>1 DEF msgEntries
    <3>2. x \in outbox'[a]
      BY <1>O, <1>6, <2>3, <3>1 DEF entriesOf
    <3>3. QED
      BY <3>1, <3>2
  <2>4. QED
    BY <2>2, <2>3
<1>13. QED
  BY <1>8, <1>9, <1>10, <1>11, <1>12, FriendsStep

\* A delete is queued on the device where it is done.
LEMMA FriendsDelete ==
  ASSUME FriendsInv, NEW d \in Mine, NEW m \in Msgs, deleteMessage(d, m), DiskInv', Change
  PROVE  FriendsInv'
<1>o. PICK o : o = op("delete", d, m, NoText, 0)
  OBVIOUS
<1>c. PICK c : c = copies[d][m]
  OBVIOUS
<1>new. PICK new : new = markDeleted(c)
  OBVIOUS
<1>O. PICK O : O = (outbox[d] \ entriesOf(d, m, {"msg", "edit", "delete"})) \cup {o}
  OBVIOUS
<1>1. /\ c # None /\ copies' = setCopy(d, m, new)
      /\ outbox' = set(outbox, d, O)
      /\ net' = (net \ {}) \cup (ToFriend({o}) \cup ToSelf(d, o))
      /\ UNCHANGED <<used, tombstones, disk>>
  BY <1>o, <1>c, <1>new, <1>O DEF deleteMessage, Relay
<1>2. o \in Ops /\ o.type = "delete" /\ o.m = m
  <2>1. 0 \in 0..MaxClock /\ NoText \in Texts \cup {NoText}
    BY DirectMessagesAssumption
  <2>2. QED
    BY <1>o, <2>1, OpType
<1>3. Deleted(new) /\ new.delivery = c.delivery
  <2>1. Proper(d, c)
    BY <1>c, <1>1 DEF FriendsInv, DiskInv, Sound, Devices
  <2>2. QED
    BY <1>new, <2>1, MarkDeletedProper DEF Devices
<1>4. /\ \A a \in Devices, k \in Msgs :
           copies'[a][k] = IF a = d /\ k = m THEN new ELSE copies[a][k]
      /\ \A a \in Devices : outbox'[a] = IF a = d THEN O ELSE outbox[a]
      /\ d \in Devices /\ \A a \in Mine : a \in Devices
  BY <1>1, OwnStep
<1>5. OwnKept /\ StillStored
  BY <1>1, KeptByChange
<1>6. TruthKept /\ NewPending
  BY <1>c, <1>1, <1>3, <1>4 DEF TruthKept, NewPending
<1>7. QueueKept
  <2>. SUFFICES ASSUME NEW a \in Mine, NEW k \in Msgs, DeleteWaits(outbox[a], k)
       PROVE  DeleteWaits(outbox'[a], k)
    BY DEF QueueKept
  <2>1. CASE a = d /\ k = m
    BY <1>O, <1>2, <1>4, <2>1 DEF DeleteWaits
  <2>2. CASE ~ (a = d /\ k = m)
    <3>1. PICK x \in outbox[a] : x.type = "delete" /\ x.m = k
      BY DEF DeleteWaits
    <3>2. x \in outbox'[a]
      BY <1>O, <1>4, <2>2, <3>1 DEF entriesOf
    <3>3. QED
      BY <3>1, <3>2 DEF DeleteWaits
  <2>3. QED
    BY <2>1, <2>2
<1>8. ASSUME NEW k \in Msgs
      PROVE  TraceKept(k) \/ DeletedHere(k)
  <2>1. CASE k = m
    <3>1. Deleted(copies'[d][m]) /\ DeleteWaits(outbox'[d], m)
      BY <1>O, <1>2, <1>3, <1>4 DEF DeleteWaits
    <3>2. QED
      BY <2>1, <3>1 DEF DeletedHere
  <2>2. CASE k # m
    <3>1. \A i \in net' : DeleteOf(i, k) => DeleteTrace(k)
      <4>1. {o} \in SUBSET Ops /\ \A x \in {o} \cup {o} : ~ (x.type = "delete" /\ x.m = k)
        BY <1>2, <2>2
      <4>2. QED
        BY <1>1, <1>2, <4>1, SentTrace
    <3>2. \A e \in Devices : /\ Deleted(copies'[e][k]) => Deleted(copies[e][k])
                             /\ DeleteWaits(outbox'[e], k) => DeleteWaits(outbox[e], k)
      BY <1>O, <1>2, <1>4, <2>2 DEF DeleteWaits
    <3>3. QED
      BY <1>1, <3>1, <3>2, Traces DEF TraceKept
  <2>3. QED
    BY <2>1, <2>2
<1>9. StillPending
  <2>. SUFFICES ASSUME NEW a \in Mine, NEW k \in Msgs,
                       shown(copies'[a][k]), copies'[a][k].delivery = "pending"
       PROVE  \E x \in outbox'[a] : x.type = "msg" /\ x.m = k
    BY DEF StillPending
  <2>1. ~ (a = d /\ k = m)
    BY <1>3, <1>4 DEF shown, Deleted
  <2>2. msgEntries(a, k) # {}
    BY <1>4, <2>1 DEF FriendsInv, PendingIsQueued
  <2>3. PICK x \in outbox[a] : x.type = "msg" /\ x.m = k
    BY <2>2 DEF msgEntries
  <2>4. x \in outbox'[a]
    BY <1>O, <1>4, <2>1, <2>3 DEF entriesOf
  <2>5. QED
    BY <2>3, <2>4
<1>10. QED
  BY <1>5, <1>6, <1>7, <1>8, <1>9, FriendsStep

\* What is sent again is queued again.
LEMMA FriendsResend ==
  ASSUME FriendsInv, NEW d \in Mine, NEW m \in Msgs, resendMessage(d, m), DiskInv', Change
  PROVE  FriendsInv'
<1>c. PICK c : c = copies[d][m]
  OBVIOUS
<1>o. PICK o : o = op("msg", d, m, c.text, c.at)
  OBVIOUS
<1>new. PICK new : new = [c EXCEPT !.delivery = "pending"]
  OBVIOUS
<1>O. PICK O : O = outbox[d] \cup {o}
  OBVIOUS
<1>1. /\ c # None /\ ~c.deleted /\ copies' = setCopy(d, m, new)
      /\ outbox' = set(outbox, d, O) /\ net' = (net \ {}) \cup (ToFriend({o}) \cup {})
      /\ UNCHANGED <<used, tombstones, disk>>
  BY <1>c, <1>o, <1>new, <1>O DEF resendMessage, Relay
<1>2. c \in StoredMessages /\ c.text \in Texts \cup {NoText} /\ c.at \in 0..MaxClock
  BY <1>c, <1>1, ProperParts DEF FriendsInv, DiskInv, Sound, Devices
<1>3. o \in Ops /\ o.type = "msg" /\ o.m = m
  BY <1>o, <1>2, OpType
<1>4. new.deleted = c.deleted /\ new.delivery = "pending"
  BY <1>new, <1>2 DEF StoredMessages
<1>5. /\ \A a \in Devices, k \in Msgs :
           copies'[a][k] = IF a = d /\ k = m THEN new ELSE copies[a][k]
      /\ \A a \in Devices : outbox'[a] = IF a = d THEN O ELSE outbox[a]
      /\ d \in Devices /\ \A a \in Mine : a \in Devices
  BY <1>1, OwnStep
<1>6. OwnKept /\ StillStored
  BY <1>1, KeptByChange
<1>7. TruthKept /\ NewPending
  BY <1>c, <1>1, <1>4, <1>5 DEF TruthKept, NewPending
<1>8. QueueKept
  BY <1>O, <1>5 DEF QueueKept, DeleteWaits
<1>9. ASSUME NEW k \in Msgs
      PROVE  TraceKept(k)
  <2>1. \A i \in net' : DeleteOf(i, k) => DeleteTrace(k)
    <3>1. {o} \in SUBSET Ops /\ \A x \in {o} \cup {o} : ~ (x.type = "delete" /\ x.m = k)
      BY <1>3
    <3>2. QED
      BY <1>1, <1>3, <3>1, SentTrace
  <2>2. \A e \in Devices : Deleted(copies'[e][k]) => Deleted(copies[e][k])
    BY <1>c, <1>1, <1>4, <1>5 DEF Deleted
  <2>3. \A e \in Devices : DeleteWaits(outbox'[e], k) => DeleteWaits(outbox[e], k)
    BY <1>O, <1>3, <1>5 DEF DeleteWaits
  <2>4. QED
    BY <1>1, <2>1, <2>2, <2>3, Traces DEF TraceKept
<1>10. StillPending
  BY <1>O, <1>3, <1>5 DEF StillPending, FriendsInv, PendingIsQueued, msgEntries
<1>11. QED
  BY <1>6, <1>7, <1>8, <1>9, <1>10, FriendsStep

\* An entry that expires is marked on its message.
LEMMA FriendsExpire ==
  ASSUME FriendsInv, NEW d \in Mine, NEW m \in Msgs, expire(d, m), DiskInv', Change
  PROVE  FriendsInv'
<1>c. PICK c : c = copies[d][m]
  OBVIOUS
<1>marks. PICK marks \in BOOLEAN : marks <=> c # None /\ c.delivery = "pending"
  OBVIOUS
<1>new. PICK new : new = IF marks THEN [c EXCEPT !.delivery = "failed"] ELSE c
  OBVIOUS
<1>O. PICK O : O = outbox[d] \ msgEntries(d, m)
  OBVIOUS
<1>1. /\ copies' = IF marks THEN setCopy(d, m, [c EXCEPT !.delivery = "failed"]) ELSE copies
      /\ outbox' = set(outbox, d, O) /\ UNCHANGED <<used, tombstones, net, disk>>
  BY <1>c, <1>marks, <1>O DEF expire
<1>2. copies' = setCopy(d, m, new)
  <2>1. copies \in [Devices -> Known] /\ d \in Devices
    BY DEF FriendsInv, DiskInv, TypeOK, Devices
  <2>2. CASE marks
    BY <1>new, <1>1, <2>2
  <2>3. CASE ~marks
    <3>1. copies' = copies /\ new = copies[d][m]
      BY <1>c, <1>new, <1>1, <2>3
    <3>2. [copies EXCEPT ![d][m] = new] = copies
      BY <2>1, <3>1 DEF Known
    <3>3. QED
      BY <3>1, <3>2 DEF setCopy
  <2>4. QED
    BY <2>2, <2>3
<1>3. /\ c # None => c \in StoredMessages
      /\ new # None /\ c # None => new.deleted = c.deleted
      /\ c = None => new = None
      /\ new # None => new.delivery # "pending" /\ new.delivery \in {c.delivery, "failed"}
  <2>1. c # None => c \in StoredMessages
    BY <1>c, ProperParts DEF FriendsInv, DiskInv, Sound, Devices
  <2>2. CASE marks
    <3>1. new.deleted = c.deleted /\ new.delivery = "failed" /\ c # None
      BY <1>marks, <1>new, <2>1, <2>2 DEF StoredMessages
    <3>2. QED
      BY <2>1, <3>1
  <2>3. CASE ~marks
    BY <1>marks, <1>new, <2>1, <2>3
  <2>4. QED
    BY <2>2, <2>3
<1>4. /\ \A a \in Devices, k \in Msgs :
           copies'[a][k] = IF a = d /\ k = m THEN new ELSE copies[a][k]
      /\ \A a \in Devices : outbox'[a] = IF a = d THEN O ELSE outbox[a]
      /\ d \in Devices /\ \A a \in Mine : a \in Devices
  BY <1>1, <1>2, OwnStep
<1>5. OwnKept /\ StillStored
  BY <1>1, KeptByChange
<1>6. TruthKept
  <2>. SUFFICES ASSUME NEW a \in Mine, NEW k \in Msgs, copies[a][k] # None,
                       copies'[a][k].delivery = "delivered"
       PROVE  copies[a][k].delivery = "delivered"
    BY DEF TruthKept
  <2>1. CASE a = d /\ k = m
    <3>1. new # None
      BY <1>4, <1>5, <2>1 DEF OwnKept
    <3>2. QED
      BY <1>c, <1>3, <1>4, <2>1, <3>1
  <2>2. CASE ~ (a = d /\ k = m)
    BY <1>4, <2>2
  <2>3. QED
    BY <2>1, <2>2
<1>7. NewPending
  BY <1>1 DEF NewPending
<1>8. QueueKept
  <2>1. \A x \in outbox[d] : x.type = "delete" => x \in O
    BY <1>O DEF msgEntries
  <2>2. QED
    BY <1>4, <2>1 DEF QueueKept, DeleteWaits
<1>9. ASSUME NEW k \in Msgs
      PROVE  TraceKept(k)
  <2>1. \A e \in Devices : Deleted(copies'[e][k]) => Deleted(copies[e][k])
    BY <1>c, <1>3, <1>4 DEF Deleted
  <2>2. \A e \in Devices : DeleteWaits(outbox'[e], k) => DeleteWaits(outbox[e], k)
    BY <1>O, <1>4 DEF DeleteWaits
  <2>3. QED
    BY <1>1, <2>1, <2>2, Traces DEF TraceKept
<1>10. StillPending
  <2>. SUFFICES ASSUME NEW a \in Mine, NEW k \in Msgs,
                       shown(copies'[a][k]), copies'[a][k].delivery = "pending"
       PROVE  \E x \in outbox'[a] : x.type = "msg" /\ x.m = k
    BY DEF StillPending
  <2>1. ~ (a = d /\ k = m)
    BY <1>3, <1>4 DEF shown
  <2>2. msgEntries(a, k) # {}
    BY <1>4, <2>1 DEF FriendsInv, PendingIsQueued
  <2>3. PICK x \in outbox[a] : x.type = "msg" /\ x.m = k
    BY <2>2 DEF msgEntries
  <2>4. x \in outbox'[a]
    BY <1>O, <1>4, <2>1, <2>3 DEF msgEntries
  <2>5. QED
    BY <2>3, <2>4
<1>11. QED
  BY <1>5, <1>6, <1>7, <1>8, <1>9, <1>10, FriendsStep

\* What leaves the queue has arrived, as its receipt says.
LEMMA FriendsAcknowledged ==
  ASSUME FriendsInv, NEW i \in net, acknowledged(i.to, i), DiskInv', Change
  PROVE  FriendsInv'
<1>d. PICK d : d = i.to
  OBVIOUS
<1>acked. PICK acked : acked = {o \in outbox[d] : idOf(o) = i.body}
  OBVIOUS
<1>marks. PICK marks : marks = {m \in {o.m : o \in {x \in acked : x.type = "msg"}} :
                                  copies[d][m] # None /\ copies[d][m].delivery # "delivered"}
  OBVIOUS
<1>1. DiskInv
  BY DEF FriendsInv
<1>2. /\ d \in Mine /\ d \in Devices /\ i.body \in Ops /\ i.kind = "ack"
      /\ outbox \in [Devices -> SUBSET Ops] /\ copies \in [Devices -> Known]
  BY <1>d, <1>1, ItemParts DEF acknowledged, DiskInv, TypeOK
<1>3. /\ outbox' = [outbox EXCEPT ![d] = outbox[d] \ acked]
      /\ copies' = [copies EXCEPT ![d] = [m \in Msgs |->
           IF m \in marks THEN [copies[d][m] EXCEPT !.delivery = "delivered"]
           ELSE copies[d][m]]]
      /\ net' \subseteq net /\ UNCHANGED <<used, tombstones, disk>>
  BY <1>d, <1>acked, <1>marks, <1>2 DEF acknowledged, set
<1>4. /\ \A e \in Devices, m \in Msgs :
           copies'[e][m] = IF e = d /\ m \in marks
                             THEN [copies[d][m] EXCEPT !.delivery = "delivered"]
                             ELSE copies[e][m]
      /\ \A e \in Devices : outbox'[e] = IF e = d THEN outbox[d] \ acked ELSE outbox[e]
  BY <1>2, <1>3
<1>5. ASSUME NEW m \in Msgs, m \in marks
      PROVE  /\ copies[d][m] # None /\ copies'[d][m].delivery = "delivered"
             /\ copies'[d][m].deleted = copies[d][m].deleted
  <2>1. copies[d][m] # None
    BY <1>marks, <1>5
  <2>2. copies[d][m] \in StoredMessages
    BY <1>1, <1>2, <2>1, ProperParts DEF DiskInv, Sound
  <2>3. copies'[d][m] = [copies[d][m] EXCEPT !.delivery = "delivered"]
    BY <1>2, <1>4, <1>5
  <2>4. QED
    BY <2>1, <2>2, <2>3 DEF StoredMessages
\* The receipt is true.
<1>6. ASSUME NEW o \in acked, o.type \in {"msg", "delete"}
      PROVE  Arrived(o.type, o.m)
  <2>1. o \in Ops /\ idOf(o) = i.body
    BY <1>acked, <1>2
  <2>2. i.body.type = o.type /\ i.body.m = o.m
    BY <2>1, IdFields
  <2>3. PICK b \in Theirs : Stored(disk[b], i.body)
    BY <1>1, <1>2, <1>6, <2>2 DEF DiskInv, ReceiptIsTrue
  <2>4. PICK t : t = o.type
    OBVIOUS
  <2>5. PICK k : k = o.m
    OBVIOUS
  <2>6. Stored(disk[b], [type |-> t, m |-> k])
    BY <2>2, <2>3, <2>4, <2>5 DEF Stored
  <2>7. Arrived(t, k)
    BY <2>6 DEF Arrived
  <2>8. QED
    BY <2>4, <2>5, <2>7
<1>7. OwnKept /\ StillStored
  BY <1>3, KeptByChange
<1>8. TruthKept
  <2>. SUFFICES ASSUME NEW a \in Mine, NEW m \in Msgs, copies[a][m] # None,
                       copies'[a][m].delivery = "delivered"
       PROVE  copies[a][m].delivery = "delivered" \/ Arrived("msg", m)
    BY DEF TruthKept
  <2>1. a \in Devices
    BY DEF Devices
  <2>2. CASE a = d /\ m \in marks
    <3>1. PICK x \in acked : x.type = "msg" /\ x.m = m
      BY <1>marks, <2>2
    <3>2. QED
      BY <1>6, <3>1
  <2>3. CASE ~ (a = d /\ m \in marks)
    BY <1>4, <2>1, <2>3
  <2>4. QED
    BY <2>2, <2>3
<1>9. NewPending
  BY <1>3 DEF NewPending
<1>10. QueueKept
  <2>. SUFFICES ASSUME NEW a \in Mine, NEW m \in Msgs, NEW x \in outbox[a],
                       x.type = "delete", x.m = m
       PROVE  DeleteWaits(outbox'[a], m) \/ Arrived("delete", m)
    BY DEF QueueKept, DeleteWaits
  <2>1. a \in Devices
    BY DEF Devices
  <2>2. CASE a = d /\ x \in acked
    BY <1>6, <2>2
  <2>3. CASE ~ (a = d /\ x \in acked)
    BY <1>4, <2>1, <2>3 DEF DeleteWaits
  <2>4. QED
    BY <2>2, <2>3
<1>11. ASSUME NEW k \in Msgs
       PROVE  TraceKept(k)
  <2>1. \A e \in Devices : Deleted(copies'[e][k]) => Deleted(copies[e][k])
    <3>. SUFFICES ASSUME NEW e \in Devices, Deleted(copies'[e][k])
         PROVE  Deleted(copies[e][k])
      OBVIOUS
    <3>1. CASE e = d /\ k \in marks
      BY <1>5, <3>1 DEF Deleted
    <3>2. CASE ~ (e = d /\ k \in marks)
      BY <1>4, <3>2
    <3>3. QED
      BY <3>1, <3>2
  <2>2. \A e \in Devices : DeleteWaits(outbox'[e], k) => DeleteWaits(outbox[e], k)
    BY <1>4 DEF DeleteWaits
  <2>3. QED
    BY <1>3, <2>1, <2>2, Traces DEF TraceKept
<1>12. StillPending
  <2>. SUFFICES ASSUME NEW a \in Mine, NEW k \in Msgs,
                       shown(copies'[a][k]), copies'[a][k].delivery = "pending"
       PROVE  \E x \in outbox'[a] : x.type = "msg" /\ x.m = k
    BY DEF StillPending
  <2>0. a \in Devices
    BY DEF Devices
  <2>1. ~ (a = d /\ k \in marks)
    BY <1>5
  <2>2. copies'[a][k] = copies[a][k]
    BY <1>4, <2>0, <2>1
  <2>3. PICK x \in outbox[a] : x.type = "msg" /\ x.m = k
    BY <2>2 DEF FriendsInv, PendingIsQueued, msgEntries
  <2>4. ~ (a = d /\ x \in acked)
    BY <1>marks, <2>1, <2>2, <2>3 DEF shown
  <2>5. x \in outbox'[a]
    BY <1>4, <2>0, <2>4
  <2>6. QED
    BY <2>3, <2>5
<1>13. QED
  BY <1>7, <1>8, <1>9, <1>10, <1>11, <1>12, FriendsStep

-----------------------------------------------------------------------------
(* What the two people see.                                                *)

\* It holds when nothing was sent.
LEMMA FriendsInit == Init => FriendsInv
<1>. SUFFICES ASSUME Init
     PROVE  FriendsInv
  OBVIOUS
<1>1. /\ \A d \in Devices : /\ \A m \in Msgs : copies[d][m] = None
                            /\ tombstones[d] = {} /\ outbox[d] = {}
      /\ net = {} /\ used = {}
  BY DEF Init, NoCopies
<1>2. DeletesGoOut
  BY <1>1 DEF DeletesGoOut, DeleteTrace, Deleted
<1>3. SenderKnows
  BY <1>1 DEF SenderKnows
<1>4. PendingIsQueued
  BY <1>1 DEF PendingIsQueued, shown, Devices
<1>5. QED
  BY <1>2, <1>3, <1>4, DiskInit DEF FriendsInv

\* Every step keeps it.
LEMMA FriendsNext ==
  ASSUME Crashing \cap Mine = {}
  PROVE  FriendsInv /\ [Next]_vars => FriendsInv'
<1>. SUFFICES ASSUME FriendsInv, [Next]_vars
     PROVE  FriendsInv'
  OBVIOUS
<1>1. DiskInv
  BY DEF FriendsInv
<1>2. CASE Event
  <2>1. CASE \E d \in Mine, m \in Msgs, text \in FirstTexts : sendMessage(d, m, text)
    BY <1>1, <2>1, SendMessage, FriendsSend
  <2>2. CASE \E d \in Mine, m \in Msgs, text \in Texts, at \in 1..MaxClock :
               editMessage(d, m, text, at)
    BY <1>1, <2>2, EditMessage, FriendsEdit
  <2>3. CASE \E d \in Mine, m \in Msgs : deleteMessage(d, m)
    BY <1>1, <2>3, DeleteMessage, FriendsDelete
  <2>4. CASE \E d \in Mine, m \in Msgs : resendMessage(d, m)
    BY <1>1, <2>4, ResendMessage, FriendsResend
  <2>5. CASE \E d \in Mine, m \in Msgs : expire(d, m)
    BY <1>1, <2>5, Expire, FriendsExpire
  <2>6. CASE \E d \in Mine : outgoing(d)
    BY <1>1, <2>6, Outgoing, FriendsOutgoing
  <2>7. CASE \E i \in net : acknowledged(i.to, i)
    BY <1>1, <2>7, Acknowledged, FriendsAcknowledged
  <2>8. CASE \E i \in net : ingestPeer(i.to, i)
    BY <1>1, <2>8, IngestPeer, FriendsIngest
  <2>9. CASE \E i \in net : ingestSelf(i.to, i)
    BY <1>1, <2>9, IngestSelf, FriendsIngest
  <2>10. CASE \E i \in net : mergeHistory(i.to, i)
    BY <1>1, <2>10, MergeHistory, FriendsMerge
  <2>11. CASE \E d \in Devices, e \in Devices, m \in Msgs : historyFor(d, e, m)
    BY <1>1, <2>11, HistoryFor, FriendsHistory
  <2>12. CASE \E d \in Devices : crash(d)
    <3>1. PICK d \in Devices : crash(d)
      BY <2>12
    <3>2. d \in Theirs
      BY <3>1 DEF crash, Devices
    <3>3. QED
      BY <1>1, <3>1, <3>2, Crash, FriendsCrash
  <2>13. QED
    BY <1>2, <2>1, <2>2, <2>3, <2>4, <2>5, <2>6, <2>7, <2>8, <2>9, <2>10, <2>11, <2>12 DEF Event
<1>3. CASE \/ \E d \in Slow, name \in Docs : writePass(d, {name})
           \/ \E d \in Devices \ Slow : writePass(d, pendingWrites[d])
  <2>1. PICK d \in Devices : \E D : writePass(d, D)
    BY <1>3, DirectMessagesAssumption
  <2>2. DiskInv' /\ StillStored
    BY <1>1, <2>1, WritePass
  <2>3. QED
    BY <2>1, <2>2, FriendsWrite
<1>4. CASE UNCHANGED vars
  <2>1. DiskInv'
    BY <1>1, DiskStep
  <2>2. QED
    BY <1>4, <2>1 DEF vars, memory, FriendsInv, DeletesGoOut, DeleteTrace, Arrived, SenderKnows,
                      PendingIsQueued, msgEntries
<1>5. QED
  BY <1>2, <1>3, <1>4 DEF Next

\* So it always holds.
LEMMA FriendsInvHolds ==
  ASSUME Crashing \cap Mine = {}
  PROVE  Spec => []FriendsInv
BY FriendsInit, FriendsNext, PTL DEF Spec

\* A message that shows as waiting is in the queue of its device, as long as
\* the author's devices do not crash: what takes an entry away marks its
\* message as delivered or failed, and what replaces it keeps one.
THEOREM WaitingIsQueued ==
  ASSUME Crashing \cap Mine = {}
  PROVE  Spec => []PendingIsQueued
<1>1. FriendsInv => PendingIsQueued
  BY DEF FriendsInv
<1>2. QED
  BY <1>1, FriendsInvHolds, PTL

\* A version says whether a message is deleted, and no copy has none.
LEMMA VersionTells ==
  ASSUME DiskInv, NEW d \in Devices, NEW e \in Devices, NEW m \in Msgs,
         version(d, m) = version(e, m)
  PROVE  /\ copies[d][m] # None <=> copies[e][m] # None
         /\ Deleted(copies[d][m]) <=> Deleted(copies[e][m])
<1>1. ASSUME NEW c, c \in StoredMessages
      PROVE  fingerprint(c) \in BOOLEAN \X Nat \X Nat /\ fingerprint(c)[1] = c.deleted
  BY <1>1 DEF StoredMessages, fingerprint
<1>2. \A f \in {d, e} : copies[f][m] # None => copies[f][m] \in StoredMessages
  BY ProperParts DEF DiskInv, Sound
<1>3. \A f \in {d, e} : /\ copies[f][m] = None => version(f, m) = None
                        /\ copies[f][m] # None => /\ version(f, m) # None
                                                  /\ version(f, m)[1] = copies[f][m].deleted
  BY <1>1, <1>2, DirectMessagesAssumption DEF version
<1>4. QED
  BY <1>3 DEF Deleted

\* Devices of one person that are settled hold the same messages, deleted alike.
LEMMA SettledAgree ==
  ASSUME DiskInv, Settled, NEW M \in {Mine, Theirs}, NEW d \in M, NEW e \in M, NEW m \in Msgs
  PROVE  /\ copies[d][m] # None <=> copies[e][m] # None
         /\ Deleted(copies[d][m]) <=> Deleted(copies[e][m])
<1>1. d \in Devices /\ e \in Devices
  BY DEF Devices
<1>2. CASE d = e
  BY <1>2
<1>3. CASE d # e
  <2>1. e \in mates(d)
    BY <1>3, DirectMessagesAssumption DEF mates
  <2>2. version(d, m) = version(e, m)
    BY <1>1, <2>1 DEF Settled
  <2>3. QED
    BY <1>1, <2>2, VersionTells
<1>4. QED
  BY <1>2, <1>3

\* Once all is settled, friends see the messages that were sent and were not
\* deleted, and only those, as long as the author's devices do not crash: the
\* device that sent a message knows that it arrived, every delete has arrived,
\* and no device of the friend lost either.
THEOREM FriendsAgree ==
  ASSUME Crashing \cap Mine = {}
  PROVE  Spec => []FriendsSeeTheSame
<1>1. ASSUME FriendsInv, Settled, NEW a \in Mine, NEW b \in Theirs, NEW m \in Msgs,
             copies[a][m] # None
      PROVE  shown(copies[a][m]) <=> shown(copies[b][m])
  <2>1. /\ DiskInv /\ DeletesGoOut /\ SenderKnows /\ PendingIsQueued
        /\ Mine \subseteq Devices /\ Theirs \subseteq Devices
    BY <1>1 DEF FriendsInv, Devices
  <2>2. \A d \in Devices : outbox[d] = {}
    BY <1>1 DEF Settled
  <2>3. ASSUME DeleteTrace(m)
        PROVE  ~shown(copies[a][m]) /\ ~shown(copies[b][m])
    <3>1. PICK e \in Mine : Deleted(copies[e][m])
      BY <2>1, <2>3 DEF DeletesGoOut
    <3>2. Deleted(copies[a][m])
      BY <1>1, <2>1, <3>1, SettledAgree
    <3>3. PICK f \in Theirs : Stored(disk[f], [type |-> "delete", m |-> m])
      BY <2>1, <2>2, <2>3 DEF DeletesGoOut, Arrived
    <3>o. PICK o : o = [type |-> "delete", m |-> m]
      OBVIOUS
    <3>4. Stored(disk[f], o) /\ o.m = m /\ o.type = "delete"
      BY <3>o, <3>3
    <3>5. Deleted(copies[f][m]) \/ m \in tombstones[f]
      BY <2>1, <3>4, MemoryKnows
    <3>6. ~shown(copies[f][m])
      BY <2>1, <3>5 DEF DiskInv, Remembered, shown, Deleted
    <3>7. copies[f][m] = None \/ Deleted(copies[f][m])
      BY <3>6 DEF shown, Deleted
    <3>8. copies[b][m] = None \/ Deleted(copies[b][m])
      BY <1>1, <2>1, <3>7, SettledAgree
    <3>9. QED
      BY <3>2, <3>8 DEF shown, Deleted
  <2>4. ASSUME ~DeleteTrace(m)
        PROVE  shown(copies[a][m]) /\ shown(copies[b][m])
    <3>1. /\ \A d \in Devices : ~Deleted(copies[d][m]) /\ m \notin tombstones[d]
      BY <2>4, Traces
    <3>2. m \in used
      BY <1>1, <2>1 DEF DiskInv, OnlyUsed
    <3>3. PICK e \in Mine : /\ copies[e][m] # None
                            /\ copies[e][m].delivery = "delivered" => Arrived("msg", m)
      BY <2>1, <3>2 DEF SenderKnows
    <3>4. copies[e][m].delivery = "delivered"
      <4>1. /\ copies[e][m].delivery \in Deliveries /\ copies[e][m].delivery # "theirs"
        BY <2>1, <3>3, ProperParts, DirectMessagesAssumption DEF DiskInv, Sound, Proper
      <4>2. copies[e][m].delivery # "failed"
        BY <1>1, <2>1, <3>3 DEF Settled
      <4>3. copies[e][m].delivery # "pending"
        <5>1. msgEntries(e, m) = {}
          BY <2>1, <2>2 DEF msgEntries
        <5>2. shown(copies[e][m])
          BY <2>1, <3>1, <3>3 DEF shown, Deleted
        <5>3. QED
          BY <2>1, <5>1, <5>2 DEF PendingIsQueued
      <4>4. QED
        BY <4>1, <4>2, <4>3 DEF Deliveries
    <3>5. PICK f \in Theirs : Stored(disk[f], [type |-> "msg", m |-> m])
      BY <3>3, <3>4 DEF Arrived
    <3>o. PICK o : o = [type |-> "msg", m |-> m]
      OBVIOUS
    <3>6. Stored(disk[f], o) /\ o.m = m
      BY <3>o, <3>5
    <3>7. copies[f][m] # None \/ m \in tombstones[f]
      BY <2>1, <3>6, MemoryKnows
    <3>8. copies[f][m] # None
      BY <2>1, <3>1, <3>7
    <3>9. copies[b][m] # None
      BY <1>1, <2>1, <3>8, SettledAgree
    <3>10. QED
      BY <1>1, <2>1, <3>1, <3>9 DEF shown, Deleted
  <2>5. QED
    BY <2>3, <2>4
<1>2. FriendsInv => FriendsSeeTheSame
  BY <1>1 DEF FriendsSeeTheSame
<1>3. QED
  BY <1>2, FriendsInvHolds, PTL
-----------------------------------------------------------------------------
(* One version, one text, as long as one device edits and does not crash.  *)

Clocks == 0..MaxClock
Contents == Texts \cup {NoText}

\* What a copy, an operation or an item says of a message: a text and its clock.
Says(c, at, text) == c # None /\ ~c.deleted /\ c.at = at /\ c.text = text
Puts(o, m, at, text) == o.type # "delete" /\ o.m = m /\ o.at = at /\ o.text = text
Brings(i, m, at, text) ==
  \/ i.kind \in {"envelope", "self"} /\ Puts(i.body, m, at, text)
  \/ /\ i.kind = "hist" /\ i.body.m = m /\ ~i.body.copy.deleted
     /\ i.body.copy.at = at /\ i.body.copy.text = text

\* Something, in memory, on disk or on its way, says that.
Told(m, at, text) ==
  \/ \E d \in Devices : \/ Says(copies[d][m], at, text)
                        \/ Says(disk[d].segment[m], at, text)
                        \/ \E o \in outbox[d] \cup disk[d].state : Puts(o, m, at, text)
  \/ \E i \in net : Brings(i, m, at, text)

\* A clock belongs to one text.
OneText ==
  \A m \in Msgs, at \in Clocks : \A t, u \in Contents : Told(m, at, t) /\ Told(m, at, u) => t = u

\* What device E shows is the latest that anything says, and nothing is edited
\* that it does not have.
Leads(E) ==
  \A m \in Msgs, at \in Clocks, t \in Contents : Told(m, at, t) =>
    /\ copies[E][m] = None => at = 0
    /\ shown(copies[E][m]) => at <= copies[E][m].at

\* VersionTellsText speaks of the copies in memory only.  It is kept because a
\* new text gets a clock that nothing has: the one device that edits is ahead
\* of all that is stored or on its way.
TextsInv(E) == DiskInv /\ OneText /\ Leads(E)

\* What a step that leaves the documents says after it was said before, but for
\* a text that is new.
Retold(m, at, t, fresh) ==
  /\ \A d \in Devices : Says(copies'[d][m], at, t) => Told(m, at, t) \/ fresh
  /\ \A d \in Devices : \A o \in outbox'[d] : Puts(o, m, at, t) => Told(m, at, t) \/ fresh
  /\ \A i \in net' : Brings(i, m, at, t) => Told(m, at, t) \/ fresh

\* The copies of a device are only replaced by newer ones.
Climbs(E) == \A m \in Msgs : /\ copies[E][m] # None => copies'[E][m] # None
                             /\ copies[E][m] # None /\ shown(copies'[E][m]) =>
                                  shown(copies[E][m]) /\ copies[E][m].at <= copies'[E][m].at

\* What each place says is told.
LEMMA Telling ==
  ASSUME NEW m, NEW at, NEW t
  PROVE  /\ \A d \in Devices : /\ Says(copies[d][m], at, t) => Told(m, at, t)
                               /\ Says(disk[d].segment[m], at, t) => Told(m, at, t)
                               /\ \A o \in outbox[d] : Puts(o, m, at, t) => Told(m, at, t)
                               /\ \A o \in disk[d].state : Puts(o, m, at, t) => Told(m, at, t)
         /\ \A i \in net : Brings(i, m, at, t) => Told(m, at, t)
BY DEF Told

\* A step whose documents stay adds what Retold allows.
LEMMA Retelling ==
  ASSUME UNCHANGED disk, NEW m, NEW at, NEW t, NEW fresh \in BOOLEAN, Retold(m, at, t, fresh),
         Told(m, at, t)'
  PROVE  Told(m, at, t) \/ fresh
<1>1. CASE \E d \in Devices : Says(copies'[d][m], at, t)
  BY <1>1 DEF Retold
<1>2. CASE \E d \in Devices : Says(disk'[d].segment[m], at, t)
  BY <1>2, Telling
<1>3. CASE \E d \in Devices : \E o \in outbox'[d] : Puts(o, m, at, t)
  BY <1>3 DEF Retold
<1>4. CASE \E d \in Devices : \E o \in disk'[d].state : Puts(o, m, at, t)
  BY <1>4, Telling
<1>5. CASE \E i \in net' : Brings(i, m, at, t)
  BY <1>5 DEF Retold
<1>6. QED
  BY <1>1, <1>2, <1>3, <1>4, <1>5 DEF Told, Says, Puts, Brings

\* A step that says nothing new.
LEMMA QuietTexts ==
  ASSUME NEW E \in Mine, TextsInv(E), DiskInv', Climbs(E),
         \A m \in Msgs, at \in Clocks, t \in Contents : Told(m, at, t)' => Told(m, at, t)
  PROVE  TextsInv(E)'
<1>1. OneText'
  BY DEF TextsInv, OneText
<1>2. ASSUME NEW m \in Msgs, NEW at \in Clocks, NEW t \in Contents, Told(m, at, t)
      PROVE  /\ copies'[E][m] = None => at = 0
             /\ shown(copies'[E][m]) => at <= copies'[E][m].at
  <2>1. /\ copies[E][m] = None => at = 0
        /\ shown(copies[E][m]) => at <= copies[E][m].at
    BY <1>2 DEF TextsInv, Leads
  <2>2. at \in Nat /\ E \in Devices
    BY DirectMessagesAssumption DEF Clocks, Devices
  <2>3. /\ copies[E][m] # None => Proper(E, copies[E][m])
        /\ copies'[E][m] # None => Proper(E, copies'[E][m])
    BY <2>2 DEF TextsInv, DiskInv, Sound
  <2>4. /\ copies[E][m] # None => copies[E][m].at \in Nat
        /\ copies'[E][m] # None => copies'[E][m].at \in Nat
    BY <2>2, <2>3, ProperParts
  <2>5. /\ copies[E][m] # None => copies'[E][m] # None
        /\ copies[E][m] # None /\ shown(copies'[E][m]) =>
             shown(copies[E][m]) /\ copies[E][m].at <= copies'[E][m].at
    BY DEF Climbs
  <2>6. shown(copies'[E][m]) => copies'[E][m] # None
    BY DEF shown
  <2>7. QED
    BY <2>1, <2>2, <2>4, <2>5, <2>6
<1>3. Leads(E)'
  BY <1>2 DEF Leads
<1>4. QED
  BY <1>1, <1>3 DEF TextsInv

\* A step that gives one message a text with a clock that nothing had, and
\* leaves the device that edits with it, or without a message that is new.
LEMMA NewText ==
  ASSUME NEW E \in Mine, TextsInv(E), DiskInv', Climbs(E),
         NEW k \in Msgs, NEW a \in Clocks, NEW x \in Contents,
         \A m \in Msgs, at \in Clocks, t \in Contents :
           Told(m, at, t)' => Told(m, at, t) \/ (m = k /\ at = a /\ t = x),
         \A at \in Clocks, t \in Contents : Told(k, at, t) => at < a,
         copies'[E][k] = None => a = 0,
         shown(copies'[E][k]) => copies'[E][k].at = a
  PROVE  TextsInv(E)'
<1>0. a \in Nat /\ \A at \in Clocks : at \in Nat
  BY DirectMessagesAssumption DEF Clocks
<1>1. ASSUME NEW m \in Msgs, NEW at \in Clocks, NEW t \in Contents, NEW u \in Contents,
             Told(m, at, t)', Told(m, at, u)'
      PROVE  t = u
  <2>1. CASE m = k /\ at = a
    <3>1. ~Told(m, at, t) /\ ~Told(m, at, u)
      BY <1>0, <2>1
    <3>2. QED
      BY <1>1, <3>1
  <2>2. CASE ~ (m = k /\ at = a)
    BY <1>1, <2>2 DEF TextsInv, OneText
  <2>3. QED
    BY <2>1, <2>2
<1>2. OneText'
  BY <1>1 DEF OneText
<1>3. ASSUME NEW m \in Msgs, NEW at \in Clocks, NEW t \in Contents, Told(m, at, t)'
      PROVE  /\ copies'[E][m] = None => at = 0
             /\ shown(copies'[E][m]) => at <= copies'[E][m].at
  <2>1. CASE m = k /\ at = a
    BY <1>0, <2>1
  <2>2. CASE ~ (m = k /\ at = a)
    <3>0. Told(m, at, t)
      BY <1>3, <2>2
    <3>1. /\ copies[E][m] = None => at = 0
          /\ shown(copies[E][m]) => at <= copies[E][m].at
      BY <3>0 DEF TextsInv, Leads
    <3>2. at \in Nat /\ E \in Devices
      BY <1>0 DEF Devices
    <3>3. /\ copies[E][m] # None => Proper(E, copies[E][m])
          /\ copies'[E][m] # None => Proper(E, copies'[E][m])
      BY <3>2 DEF TextsInv, DiskInv, Sound
    <3>4. /\ copies[E][m] # None => copies[E][m].at \in Nat
          /\ copies'[E][m] # None => copies'[E][m].at \in Nat
      BY <3>2, <3>3, ProperParts
    <3>5. /\ copies[E][m] # None => copies'[E][m] # None
          /\ copies[E][m] # None /\ shown(copies'[E][m]) =>
               shown(copies[E][m]) /\ copies[E][m].at <= copies'[E][m].at
      BY DEF Climbs
    <3>6. shown(copies'[E][m]) => copies'[E][m] # None
      BY DEF shown
    <3>7. QED
      BY <3>1, <3>2, <3>4, <3>5, <3>6
  <2>3. QED
    BY <2>1, <2>2
<1>4. Leads(E)'
  BY <1>3 DEF Leads
<1>5. QED
  BY <1>2, <1>4 DEF TextsInv

\* What one copy that is replaced leaves.
LEMMA OneCopy ==
  ASSUME DiskInv, NEW d \in Devices, NEW m \in Msgs, NEW new, copies' = setCopy(d, m, new)
  PROVE  \A e \in Devices, k \in Msgs :
           copies'[e][k] = IF e = d /\ k = m THEN new ELSE copies[e][k]
<1>1. copies \in [Devices -> Known]
  BY DEF DiskInv, TypeOK
<1>2. QED
  BY <1>1 DEF setCopy, Known

\* Is new a newer form of the copy c?
Newer(c, new) == c # None => new # None /\ (shown(new) => shown(c) /\ c.at <= new.at)

\* A step that puts a newer form in the place of one copy.
LEMMA OneNewer ==
  ASSUME DiskInv, NEW d \in Devices, NEW m \in Msgs, NEW new, copies' = setCopy(d, m, new),
         Newer(copies[d][m], new), NEW E \in Mine
  PROVE  Climbs(E)
<1>1. E \in Devices
  BY DEF Devices
<1>2. ASSUME NEW k \in Msgs, copies[E][k] # None
      PROVE  copies[E][k].at <= copies[E][k].at
  <2>1. Proper(E, copies[E][k])
    BY <1>1, <1>2 DEF DiskInv, Sound
  <2>2. copies[E][k].at \in Nat
    BY <1>1, <2>1, ProperParts
  <2>3. QED
    BY <2>2
<1>3. QED
  BY <1>1, <1>2, OneCopy DEF Climbs, Newer

\* An operation that is applied says only what it brought.
LEMMA ApplyTexts ==
  ASSUME DiskInv, NEW d \in Devices, NEW o \in Ops, NEW new, new = CopyAfter(d, o)
  PROVE  /\ Newer(copies[d][o.m], new)
         /\ \A at, t : Says(new, at, t) => Says(copies[d][o.m], at, t) \/ Puts(o, o.m, at, t)
<1>. PICK c : c = copies[d][o.m]
  OBVIOUS
<1>1. /\ o.m \in Msgs /\ o.type \in {"msg", "edit", "delete"}
      /\ o.text \in Texts \cup {NoText} /\ o.at \in 0..MaxClock /\ o.at \in Nat
  BY DirectMessagesAssumption DEF Ops
<1>2. c # None => Proper(d, c)
  BY <1>1 DEF DiskInv, Sound
<1>3. c # None => /\ c \in StoredMessages /\ c.at \in Nat /\ c.at <= c.at
                  /\ c.edited \in Nat /\ c.text \in Texts \cup {NoText}
                  /\ c.deleted \in BOOLEAN /\ c.delivery \in Deliveries
  BY <1>2, ProperParts
<1>4. CASE new = c
  BY <1>3, <1>4 DEF Newer
<1>5. CASE o.type = "msg" /\ Accepts(d, o.m)
  <2>1. new = [text |-> o.text, at |-> o.at, edited |-> 0, deleted |-> FALSE,
               delivery |-> IF d \in Mine THEN "delivered" ELSE "theirs"]
    BY <1>5 DEF CopyAfter, storedMessage
  <2>2. new.text = o.text /\ new.at = o.at /\ c = None
    BY <1>5, <2>1 DEF Accepts
  <2>3. QED
    BY <1>5, <2>2 DEF Newer, Says, Puts
<1>6. CASE o.type = "edit" /\ c # None /\ new # c
  <2>1. /\ new = edited(c, o.at, o.text) /\ ~c.deleted /\ contentWins(o.at, o.text, c)
    BY <1>6 DEF CopyAfter, edited
  <2>2. o.at >= c.at
    BY <1>1, <1>2, <1>3, <1>6, <2>1 DEF contentWins, contentClock, Proper, WellFormed
  <2>3. /\ new \in StoredMessages /\ new.at = o.at /\ new.text = o.text
    <3>1. CASE o.text = c.text
      <4>1. new = [c EXCEPT !.at = o.at]
        BY <2>1, <3>1 DEF edited
      <4>2. QED
        BY <1>1, <1>3, <1>6, <3>1, <4>1 DEF StoredMessages
    <3>2. CASE o.text # c.text
      <4>1. new = [c EXCEPT !.at = o.at, !.text = o.text, !.edited = o.at]
        BY <2>1, <3>2 DEF edited
      <4>2. c = [text |-> c.text, at |-> c.at, edited |-> c.edited, deleted |-> c.deleted,
                 delivery |-> c.delivery]
        BY <1>3, <1>6 DEF StoredMessages
      <4>3. new = [text |-> o.text, at |-> o.at, edited |-> o.at, deleted |-> c.deleted,
                   delivery |-> c.delivery]
        BY <4>1, <4>2
      <4>4. QED
        BY <1>1, <1>3, <1>6, <4>3 DEF StoredMessages
    <3>3. QED
      BY <3>1, <3>2
  <2>4. new # None /\ shown(c)
    BY <1>6, <2>1, <2>3, DirectMessagesAssumption DEF shown
  <2>5. QED
    BY <1>1, <1>3, <1>6, <2>2, <2>3, <2>4 DEF Newer, Says, Puts
<1>7. CASE o.type = "delete" /\ c # None
  <2>1. Proper(d, new) /\ Deleted(new)
    BY <1>2, <1>7, MarkDeletedProper DEF CopyAfter
  <2>2. QED
    BY <2>1 DEF Newer, Says, Deleted, shown
<1>8. QED
  BY <1>1, <1>4, <1>5, <1>6, <1>7 DEF CopyAfter

\* A merge says only what one of the two copies said.
LEMMA HistoryTexts ==
  ASSUME DiskInv, NEW d \in Devices, NEW m \in Msgs, NEW w \in Wires, ProperWire(w), NEW new,
         new = IF copies[d][m] = None
                 THEN storedMessage(w.text, w.at, w.edited,
                                    w.deleted \/ m \in tombstones[d], d \in Mine)
                 ELSE merged(copies[d][m], w, m \in tombstones[d])
  PROVE  /\ Newer(copies[d][m], new)
         /\ \A at, t : Says(new, at, t) =>
              Says(copies[d][m], at, t) \/ (~w.deleted /\ w.at = at /\ w.text = t)
<1>. PICK c : c = copies[d][m]
  OBVIOUS
<1>1. /\ w.text \in Texts \cup {NoText} /\ w.at \in Nat /\ w.edited \in Nat
      /\ w.deleted \in BOOLEAN
  BY DEF Wires
<1>2. CASE c = None
  <2>1. new.deleted = (w.deleted \/ m \in tombstones[d])
        /\ (~new.deleted => new.text = w.text /\ new.at = w.at)
    BY <1>2 DEF storedMessage
  <2>2. QED
    BY <1>2, <2>1 DEF Newer, Says
<1>3. CASE c # None
  <2>. DEFINE t == mergedText(c, w, m \in tombstones[d])
              mark == NewestMark(c, w)
  <2>1. /\ Proper(d, c) /\ new = [t EXCEPT !.edited = mark]
    BY <1>3 DEF merged, DiskInv, Sound
  <2>2. /\ c \in StoredMessages /\ c.at \in Nat /\ c.edited \in Nat
        /\ contentClock(c) \in Nat /\ (~c.deleted => contentClock(c) = c.at)
    BY <2>1, ProperParts DEF contentClock, Proper, WellFormed
  <2>3. CASE (w.deleted \/ m \in tombstones[d]) /\ ~c.deleted
    <3>1. t = markDeleted(c)
      BY <2>3 DEF mergedText
    <3>2. t \in StoredMessages /\ t.deleted
      BY <2>1, <3>1, MarkDeletedProper, ProperParts DEF Deleted
    <3>. HIDE DEF t, mark
    <3>3. mark \in Nat
      BY <1>1, <2>2 DEF mark, NewestMark
    <3>4. new \in StoredMessages /\ new.deleted
      BY <2>1, <3>2, <3>3 DEF StoredMessages
    <3>5. new # None
      BY <3>4, DirectMessagesAssumption
    <3>6. QED
      BY <3>4, <3>5 DEF Newer, Says, shown
  <2>4. CASE /\ ~c.deleted /\ ~(w.deleted \/ m \in tombstones[d])
             /\ w.at # 0 /\ contentWins(w.at, w.text, c)
    <3>1. t = [c EXCEPT !.text = w.text, !.at = w.at]
      BY <2>4 DEF mergedText
    <3>2. /\ t \in StoredMessages /\ t.text = w.text /\ t.at = w.at
      BY <1>1, <2>2, <3>1 DEF StoredMessages
    <3>. HIDE DEF t, mark
    <3>3. mark \in Nat
      BY <1>1, <2>2 DEF mark, NewestMark
    <3>4. new \in StoredMessages /\ new.text = w.text /\ new.at = w.at
      BY <2>1, <3>2, <3>3 DEF StoredMessages
    <3>5. new # None /\ shown(c)
      BY <1>3, <2>4, <3>4, DirectMessagesAssumption DEF shown
    <3>6. c.at <= w.at
      BY <1>1, <2>2, <2>4 DEF contentWins
    <3>7. QED
      BY <2>4, <3>4, <3>5, <3>6 DEF Newer, Says
  <2>5. CASE /\ ~ ((w.deleted \/ m \in tombstones[d]) /\ ~c.deleted)
             /\ ~ (/\ ~c.deleted /\ ~(w.deleted \/ m \in tombstones[d])
                   /\ w.at # 0 /\ contentWins(w.at, w.text, c))
    <3>1. t = c
      BY <2>5 DEF mergedText
    <3>. HIDE DEF t, mark
    <3>2. mark \in Nat
      BY <1>1, <2>2 DEF mark, NewestMark
    <3>3. new \in StoredMessages /\ new.text = c.text /\ new.at = c.at /\ new.deleted = c.deleted
      BY <2>1, <2>2, <3>1, <3>2 DEF StoredMessages
    <3>4. new # None /\ c.at <= c.at
      BY <2>2, <3>3, DirectMessagesAssumption
    <3>5. QED
      BY <1>3, <3>3, <3>4 DEF Newer, Says, shown
  <2>6. QED
    BY <2>3, <2>4, <2>5
<1>4. QED
  BY <1>2, <1>3

\* Copies that differ in their delivery only.
Alike(c, x) ==
  \/ c = None /\ x = None
  \/ c # None /\ x # None /\ x.text = c.text /\ x.at = c.at /\ x.deleted = c.deleted

\* Another delivery says nothing else.
LEMMA DeliveryAlike ==
  ASSUME NEW d \in Devices, NEW c, Proper(d, c), NEW v \in Deliveries, NEW x,
         x = [c EXCEPT !.delivery = v]
  PROVE  Alike(c, x)
<1>1. c \in StoredMessages /\ c # None
  BY ProperParts
<1>2. x \in StoredMessages /\ x.text = c.text /\ x.at = c.at /\ x.deleted = c.deleted
  BY <1>1 DEF StoredMessages
<1>3. QED
  BY <1>1, <1>2, DirectMessagesAssumption DEF Alike

\* A step after which every copy says what it said.
LEMMA AlikeStep ==
  ASSUME DiskInv, NEW E \in Mine,
         \A e \in Devices, k \in Msgs :
           copies'[e][k] = copies[e][k] \/ Alike(copies[e][k], copies'[e][k])
  PROVE  /\ Climbs(E)
         /\ \A e \in Devices, k \in Msgs : \A at, t :
              Says(copies'[e][k], at, t) => Says(copies[e][k], at, t)
<1>1. E \in Devices
  BY DEF Devices
<1>2. ASSUME NEW k \in Msgs, copies[E][k] # None
      PROVE  copies[E][k].at <= copies[E][k].at
  <2>1. Proper(E, copies[E][k])
    BY <1>1, <1>2 DEF DiskInv, Sound
  <2>2. copies[E][k].at \in Nat
    BY <1>1, <2>1, ProperParts
  <2>3. QED
    BY <2>2
<1>3. Climbs(E)
  BY <1>1, <1>2 DEF Climbs, Alike, shown
<1>4. QED
  BY <1>3 DEF Says, Alike

\* What is sent says what its operations say, and a receipt says nothing.
LEMMA MailTexts ==
  ASSUME NEW m, NEW at, NEW t
  PROVE  /\ \A O : \A i \in ToFriend(O) : Brings(i, m, at, t) => \E o \in O : Puts(o, m, at, t)
         /\ \A d, o : \A i \in ToSelf(d, o) : Brings(i, m, at, t) => Puts(o, m, at, t)
         /\ \A I : \A i \in Receipts(I) : ~Brings(i, m, at, t)
BY DEF Brings, ToFriend, ToSelf, Receipts

\* One queue that is replaced.
LEMMA OneQueue ==
  ASSUME DiskInv, NEW d \in Devices, NEW O, outbox' = set(outbox, d, O)
  PROVE  \A e \in Devices : outbox'[e] = IF e = d THEN O ELSE outbox[e]
BY DEF set, DiskInv, TypeOK

\* A step of the engine that says nothing new.
LEMMA QuietEvent ==
  ASSUME NEW E \in Mine, TextsInv(E), DiskInv', UNCHANGED disk, Climbs(E),
         \A m \in Msgs, at \in Clocks, t \in Contents : Retold(m, at, t, FALSE)
  PROVE  TextsInv(E)'
<1>1. \A m \in Msgs, at \in Clocks, t \in Contents : Told(m, at, t)' => Told(m, at, t)
  <2>. SUFFICES ASSUME NEW m \in Msgs, NEW at \in Clocks, NEW t \in Contents, Told(m, at, t)'
       PROVE  Told(m, at, t)
    OBVIOUS
  <2>1. PICK no \in BOOLEAN : no = FALSE
    OBVIOUS
  <2>2. Retold(m, at, t, no)
    BY <2>1
  <2>3. Told(m, at, t) \/ no
    BY <2>2, Retelling
  <2>4. QED
    BY <2>1, <2>3
<1>2. QED
  BY <1>1, QuietTexts

\* Nothing speaks of a message that was not sent.
LEMMA Untold ==
  ASSUME DiskInv, NEW m \in Msgs, m \notin used, NEW at, NEW t
  PROVE  ~Told(m, at, t)
<1>1. \A d \in Devices : /\ copies[d][m] = None /\ disk[d].segment[m] = None
                         /\ \A o \in outbox[d] \cup disk[d].state : o.m # m
  BY DEF DiskInv, OnlyUsed, Remembered
<1>2. \A i \in net : i.body.m # m
  BY DEF DiskInv, OnlyUsed
<1>3. QED
  BY <1>1, <1>2 DEF Told, Says, Puts, Brings

\* sendMessage: nothing said anything of the message before.
LEMMA TextsSend ==
  ASSUME NEW E \in Mine, TextsInv(E), DiskInv',
         NEW d \in Mine, NEW m \in Msgs, NEW text \in FirstTexts, sendMessage(d, m, text)
  PROVE  TextsInv(E)'
<1>. DEFINE o   == op("msg", d, m, text, 0)
            new == [text |-> text, at |-> 0, edited |-> 0, deleted |-> FALSE,
                    delivery |-> "pending"]
<1>1. /\ m \notin used /\ copies' = setCopy(d, m, new)
      /\ outbox' = set(outbox, d, outbox[d] \cup {o})
      /\ net' = net \cup (ToFriend({o}) \cup ToSelf(d, o)) /\ UNCHANGED disk
  BY DEF sendMessage, Relay
<1>2. /\ DiskInv /\ d \in Devices /\ E \in Devices /\ text \in Contents /\ 0 \in Clocks
  BY DirectMessagesAssumption DEF TextsInv, Devices, Contents, Clocks
<1>3. \A e \in Devices : copies[e][m] = None
  BY <1>1, <1>2 DEF DiskInv, OnlyUsed
<1>4. new.at = 0 /\ \A at, t : Says(new, at, t) => at = 0 /\ t = text
  BY DEF Says
<1>5. \A k, at, t : Puts(o, k, at, t) => k = m /\ at = 0 /\ t = text
  BY DEF Puts, op
<1>. HIDE DEF new, o
<1>6. \A e \in Devices, k \in Msgs :
        copies'[e][k] = IF e = d /\ k = m THEN new ELSE copies[e][k]
  BY <1>1, <1>2, OneCopy
<1>7. \A e \in Devices : outbox'[e] = IF e = d THEN outbox[d] \cup {o} ELSE outbox[e]
  BY <1>1, <1>2, OneQueue
<1>8. Climbs(E)
  <2>1. Newer(copies[d][m], new)
    BY <1>2, <1>3 DEF Newer
  <2>2. QED
    BY <1>1, <1>2, <2>1, OneNewer
<1>9. ASSUME NEW k \in Msgs, NEW at \in Clocks, NEW t \in Contents, Told(k, at, t)'
      PROVE  Told(k, at, t) \/ (k = m /\ at = 0 /\ t = text)
  <2>1. PICK fresh \in BOOLEAN : fresh <=> (k = m /\ at = 0 /\ t = text)
    OBVIOUS
  <2>2. ASSUME NEW e \in Devices, Says(copies'[e][k], at, t)
        PROVE  Told(k, at, t) \/ fresh
    BY <1>4, <1>6, <2>1, <2>2, Telling
  <2>3. ASSUME NEW e \in Devices, NEW x \in outbox'[e], Puts(x, k, at, t)
        PROVE  Told(k, at, t) \/ fresh
    BY <1>5, <1>7, <2>1, <2>3, Telling
  <2>4. ASSUME NEW i \in net', Brings(i, k, at, t)
        PROVE  Told(k, at, t) \/ fresh
    <3>1. CASE i \in net
      BY <2>4, <3>1, Telling
    <3>2. CASE i \in ToFriend({o}) \cup ToSelf(d, o)
      <4>1. Puts(o, k, at, t)
        BY <2>4, <3>2, MailTexts
      <4>2. QED
        BY <1>5, <2>1, <4>1
    <3>3. QED
      BY <1>1, <3>1, <3>2
  <2>5. Retold(k, at, t, fresh)
    BY <2>2, <2>3, <2>4 DEF Retold
  <2>6. QED
    BY <1>1, <1>9, <2>1, <2>5, Retelling
<1>10. \A at \in Clocks, t \in Contents : Told(m, at, t) => at < 0
  BY <1>1, <1>2, Untold
<1>11. shown(copies'[E][m]) => copies'[E][m].at = 0
  BY <1>2, <1>3, <1>4, <1>6 DEF shown
<1>12. QED
  BY <1>2, <1>8, <1>9, <1>10, <1>11, NewText

\* editMessage: what has a clock is behind the copy that is edited.
LEMMA TextsEdit ==
  ASSUME NEW E \in Mine, TextsInv(E), DiskInv',
         NEW m \in Msgs, NEW text \in Texts, NEW a \in 1..MaxClock, editMessage(E, m, text, a)
  PROVE  TextsInv(E)'
<1>. PICK c : c = copies[E][m]
  OBVIOUS
<1>. DEFINE o    == op("edit", E, m, text, a)
            new  == [c EXCEPT !.text = text, !.at = a, !.edited = a]
            copy == waiting(E, m, text, a)
            O    == (outbox[E] \ entriesOf(E, m, {"msg", "edit"})) \cup copy \cup {o}
<1>1. /\ c # None /\ ~c.deleted /\ a > contentClock(c) /\ copies' = setCopy(E, m, new)
      /\ outbox' = set(outbox, E, O)
      /\ net' = net \cup (ToFriend(copy \cup {o}) \cup ToSelf(E, o)) /\ UNCHANGED disk
  BY DEF editMessage, Relay
<1>2. /\ DiskInv /\ E \in Devices /\ text \in Contents /\ a \in Clocks /\ a \in Nat
      /\ text \in Texts \cup {NoText} /\ outbox[E] \in SUBSET Ops
  BY DirectMessagesAssumption DEF TextsInv, Devices, Contents, Clocks, DiskInv, TypeOK
<1>3. /\ c \in StoredMessages /\ c.at \in Nat /\ contentClock(c) = c.at
  BY <1>1, <1>2, ProperParts DEF DiskInv, Sound, Proper, WellFormed, contentClock
<1>4. new \in StoredMessages /\ new.at = a /\ new.text = text
  BY <1>2, <1>3 DEF StoredMessages
<1>5. \A k, at, t : Puts(o, k, at, t) => k = m /\ at = a /\ t = text
  BY DEF Puts, op
<1>6. \A x \in copy : \A k, at, t : Puts(x, k, at, t) => k = m /\ at = a /\ t = text
  <2>. SUFFICES ASSUME NEW x \in copy, NEW k, NEW at, NEW t, Puts(x, k, at, t)
       PROVE  k = m /\ at = a /\ t = text
    OBVIOUS
  <2>1. PICK y \in msgEntries(E, m) : x = [y EXCEPT !.text = text, !.at = a]
    BY DEF waiting
  <2>2. y \in Ops /\ y.m = m
    BY <1>2, <2>1 DEF msgEntries
  <2>3. x.m = m /\ x.at = a /\ x.text = text
    BY <2>1, <2>2 DEF Ops
  <2>4. QED
    BY <2>3 DEF Puts
<1>7. O \subseteq outbox[E] \cup copy \cup {o}
  OBVIOUS
<1>. HIDE DEF new, o, copy, O
<1>8. \A e \in Devices, k \in Msgs :
        copies'[e][k] = IF e = E /\ k = m THEN new ELSE copies[e][k]
  BY <1>1, <1>2, OneCopy
<1>9. \A e \in Devices : outbox'[e] = IF e = E THEN O ELSE outbox[e]
  BY <1>1, <1>2, OneQueue
<1>10. Climbs(E)
  <2>1. new # None /\ shown(c) /\ c.at <= a
    BY <1>1, <1>2, <1>3, <1>4, DirectMessagesAssumption DEF shown
  <2>2. Newer(copies[E][m], new)
    BY <1>4, <2>1 DEF Newer
  <2>3. QED
    BY <1>1, <1>2, <2>2, OneNewer
<1>11. ASSUME NEW k \in Msgs, NEW at \in Clocks, NEW t \in Contents, Told(k, at, t)'
       PROVE  Told(k, at, t) \/ (k = m /\ at = a /\ t = text)
  <2>1. PICK fresh \in BOOLEAN : fresh <=> (k = m /\ at = a /\ t = text)
    OBVIOUS
  <2>2. ASSUME NEW e \in Devices, Says(copies'[e][k], at, t)
        PROVE  Told(k, at, t) \/ fresh
    <3>1. CASE e = E /\ k = m
      <4>1. new.at = at /\ new.text = t
        BY <1>8, <2>2, <3>1 DEF Says
      <4>2. QED
        BY <1>4, <2>1, <3>1, <4>1
    <3>2. CASE ~ (e = E /\ k = m)
      BY <1>8, <2>2, <3>2, Telling
    <3>3. QED
      BY <3>1, <3>2
  <2>3. ASSUME NEW e \in Devices, NEW x \in outbox'[e], Puts(x, k, at, t)
        PROVE  Told(k, at, t) \/ fresh
    <3>1. x \in outbox[e] \/ x \in copy \/ x = o
      BY <1>7, <1>9
    <3>2. QED
      BY <1>5, <1>6, <2>1, <2>3, <3>1, Telling
  <2>4. ASSUME NEW i \in net', Brings(i, k, at, t)
        PROVE  Told(k, at, t) \/ fresh
    <3>1. CASE i \in net
      BY <2>4, <3>1, Telling
    <3>2. CASE i \in ToFriend(copy \cup {o}) \cup ToSelf(E, o)
      <4>1. \E x \in copy \cup {o} : Puts(x, k, at, t)
        BY <2>4, <3>2, MailTexts
      <4>2. QED
        BY <1>5, <1>6, <2>1, <4>1
    <3>3. QED
      BY <1>1, <3>1, <3>2
  <2>5. Retold(k, at, t, fresh)
    BY <2>2, <2>3, <2>4 DEF Retold
  <2>6. QED
    BY <1>1, <1>11, <2>1, <2>5, Retelling
<1>12. ASSUME NEW at \in Clocks, NEW t \in Contents, Told(m, at, t)
       PROVE  at < a
  <2>1. at <= c.at
    BY <1>1, <1>12 DEF TextsInv, Leads, shown
  <2>2. at \in Nat
    BY DirectMessagesAssumption DEF Clocks
  <2>3. QED
    BY <1>1, <1>2, <1>3, <2>1, <2>2
<1>13. copies'[E][m] # None /\ copies'[E][m].at = a
  BY <1>2, <1>4, <1>8, DirectMessagesAssumption
<1>14. QED
  BY <1>2, <1>10, <1>11, <1>12, <1>13, NewText

\* deleteMessage: a deleted copy says nothing, and neither does the delete.
LEMMA TextsDelete ==
  ASSUME NEW E \in Mine, TextsInv(E), DiskInv',
         NEW d \in Mine, NEW m \in Msgs, deleteMessage(d, m)
  PROVE  TextsInv(E)'
<1>. PICK c : c = copies[d][m]
  OBVIOUS
<1>. PICK new : new = markDeleted(c)
  OBVIOUS
<1>. DEFINE o == op("delete", d, m, NoText, 0)
<1>1. /\ c # None /\ copies' = setCopy(d, m, new) /\ UNCHANGED disk
      /\ outbox' = set(outbox, d,
           (outbox[d] \ entriesOf(d, m, {"msg", "edit", "delete"})) \cup {o})
      /\ net' = net \cup (ToFriend({o}) \cup ToSelf(d, o))
  BY DEF deleteMessage, Relay
<1>2. DiskInv /\ d \in Devices
  BY DEF TextsInv, Devices
<1>3. Proper(d, new) /\ Deleted(new)
  BY <1>1, <1>2, MarkDeletedProper DEF DiskInv, Sound
<1>4. \A k, at, t : ~Puts(o, k, at, t)
  BY DEF Puts, op
<1>. HIDE DEF o
<1>5. \A e \in Devices, k \in Msgs :
        copies'[e][k] = IF e = d /\ k = m THEN new ELSE copies[e][k]
  BY <1>1, <1>2, OneCopy
<1>6. \A e \in Devices : \A x \in outbox'[e] : x \in outbox[e] \/ x = o
  BY <1>1, <1>2, OneQueue
<1>7. Climbs(E)
  <2>1. Newer(copies[d][m], new)
    BY <1>3 DEF Newer, Deleted, shown
  <2>2. QED
    BY <1>1, <1>2, <2>1, OneNewer
<1>8. ASSUME NEW k \in Msgs, NEW at \in Clocks, NEW t \in Contents
      PROVE  Retold(k, at, t, FALSE)
  <2>1. ~Says(new, at, t)
    BY <1>3 DEF Says, Deleted
  <2>2. \A e \in Devices : Says(copies'[e][k], at, t) => Told(k, at, t)
    BY <1>5, <2>1, Telling
  <2>3. \A e \in Devices : \A x \in outbox'[e] : Puts(x, k, at, t) => Told(k, at, t)
    BY <1>4, <1>6, Telling
  <2>4. \A i \in net' : Brings(i, k, at, t) => Told(k, at, t)
    <3>. SUFFICES ASSUME NEW i \in net', Brings(i, k, at, t)
         PROVE  Told(k, at, t)
      OBVIOUS
    <3>1. i \notin ToFriend({o}) \cup ToSelf(d, o)
      BY <1>4, MailTexts
    <3>2. QED
      BY <1>1, <3>1, Telling
  <2>5. QED
    BY <2>2, <2>3, <2>4 DEF Retold
<1>9. QED
  BY <1>1, <1>7, <1>8, QuietEvent

\* resendMessage queues what the copy says.
LEMMA TextsResend ==
  ASSUME NEW E \in Mine, TextsInv(E), DiskInv',
         NEW d \in Mine, NEW m \in Msgs, resendMessage(d, m)
  PROVE  TextsInv(E)'
<1>. PICK c : c = copies[d][m]
  OBVIOUS
<1>. DEFINE o   == op("msg", d, m, c.text, c.at)
            new == [c EXCEPT !.delivery = "pending"]
<1>1. /\ c # None /\ ~c.deleted /\ copies' = setCopy(d, m, new) /\ UNCHANGED disk
      /\ outbox' = set(outbox, d, outbox[d] \cup {o})
      /\ net' = net \cup ToFriend({o})
  BY DEF resendMessage, Relay
<1>2. DiskInv /\ d \in Devices
  BY DEF TextsInv, Devices
<1>3. Alike(c, new)
  BY <1>1, <1>2, DeliveryAlike DEF DiskInv, Sound, Deliveries
<1>4. \A k, at, t : Puts(o, k, at, t) => k = m /\ Says(c, at, t)
  BY <1>1 DEF Puts, op, Says
<1>. HIDE DEF new, o
<1>5. \A e \in Devices, k \in Msgs :
        copies'[e][k] = IF e = d /\ k = m THEN new ELSE copies[e][k]
  BY <1>1, <1>2, OneCopy
<1>6. \A e \in Devices : \A x \in outbox'[e] : x \in outbox[e] \/ x = o
  BY <1>1, <1>2, OneQueue
<1>7. /\ Climbs(E)
      /\ \A e \in Devices, k \in Msgs : \A at, t :
           Says(copies'[e][k], at, t) => Says(copies[e][k], at, t)
  BY <1>2, <1>3, <1>5, AlikeStep
<1>8. ASSUME NEW k \in Msgs, NEW at \in Clocks, NEW t \in Contents
      PROVE  Retold(k, at, t, FALSE)
  <2>1. Puts(o, k, at, t) => Told(k, at, t)
    BY <1>2, <1>4, Telling
  <2>2. \A e \in Devices : Says(copies'[e][k], at, t) => Told(k, at, t)
    BY <1>7, Telling
  <2>3. \A e \in Devices : \A x \in outbox'[e] : Puts(x, k, at, t) => Told(k, at, t)
    BY <1>6, <2>1, Telling
  <2>4. \A i \in net' : Brings(i, k, at, t) => Told(k, at, t)
    <3>. SUFFICES ASSUME NEW i \in net', Brings(i, k, at, t)
         PROVE  Told(k, at, t)
      OBVIOUS
    <3>1. CASE i \in net
      BY <3>1, Telling
    <3>2. CASE i \in ToFriend({o})
      BY <2>1, <3>2, MailTexts
    <3>3. QED
      BY <1>1, <3>1, <3>2
  <2>5. QED
    BY <2>2, <2>3, <2>4 DEF Retold
<1>9. QED
  BY <1>1, <1>7, <1>8, QuietEvent

\* A step that only takes away, in the queues and on the way, or changes how
\* copies show that they were delivered.
LEMMA TextsLess ==
  ASSUME NEW E \in Mine, TextsInv(E), DiskInv', UNCHANGED disk,
         \A e \in Devices, k \in Msgs :
           copies'[e][k] = copies[e][k] \/ Alike(copies[e][k], copies'[e][k]),
         \A e \in Devices : outbox'[e] \subseteq outbox[e],
         \A k \in Msgs, at \in Clocks, t \in Contents : \A i \in net' :
           Brings(i, k, at, t) => Told(k, at, t)
  PROVE  TextsInv(E)'
<1>1. DiskInv
  BY DEF TextsInv
<1>2. /\ Climbs(E)
      /\ \A e \in Devices, k \in Msgs : \A at, t :
           Says(copies'[e][k], at, t) => Says(copies[e][k], at, t)
  BY <1>1, AlikeStep
<1>3. \A k \in Msgs, at \in Clocks, t \in Contents : Retold(k, at, t, FALSE)
  BY <1>2, Telling DEF Retold
<1>4. QED
  BY <1>2, <1>3, QuietEvent

\* A message that waited too long leaves the queue.
LEMMA TextsExpire ==
  ASSUME NEW E \in Mine, TextsInv(E), DiskInv', NEW d \in Mine, NEW m \in Msgs, expire(d, m)
  PROVE  TextsInv(E)'
<1>. PICK c : c = copies[d][m]
  OBVIOUS
<1>. DEFINE new == [c EXCEPT !.delivery = "failed"]
<1>1. /\ outbox' = set(outbox, d, outbox[d] \ msgEntries(d, m)) /\ UNCHANGED <<disk, net>>
      /\ copies' = copies \/ (c # None /\ copies' = setCopy(d, m, new))
  BY DEF expire
<1>2. DiskInv /\ d \in Devices
  BY DEF TextsInv, Devices
<1>3. c # None => Alike(c, new)
  BY <1>2, DeliveryAlike DEF DiskInv, Sound, Deliveries
<1>. HIDE DEF new
<1>4. \A e \in Devices, k \in Msgs :
        copies'[e][k] = copies[e][k] \/ Alike(copies[e][k], copies'[e][k])
  BY <1>1, <1>2, <1>3, OneCopy
<1>5. \A e \in Devices : outbox'[e] \subseteq outbox[e]
  BY <1>1, <1>2, OneQueue
<1>6. \A k \in Msgs, at \in Clocks, t \in Contents : \A i \in net' :
        Brings(i, k, at, t) => Told(k, at, t)
  BY <1>1, Telling
<1>7. QED
  BY <1>1, <1>4, <1>5, <1>6, TextsLess

\* A receipt takes its operation out of the queue.
LEMMA TextsAcknowledged ==
  ASSUME NEW E \in Mine, TextsInv(E), DiskInv', NEW i \in net, acknowledged(i.to, i)
  PROVE  TextsInv(E)'
<1>. PICK d : d = i.to
  OBVIOUS
<1>. DEFINE acked == {o \in outbox[d] : idOf(o) = i.body}
            done  == {o.m : o \in {x \in acked : x.type = "msg"}}
            marks == {m \in done : copies[d][m] # None /\ copies[d][m].delivery # "delivered"}
<1>1. DiskInv /\ d \in Devices
  BY ItemParts DEF TextsInv
<1>2. /\ outbox' = set(outbox, d, outbox[d] \ acked) /\ net' = net \ {i} /\ UNCHANGED disk
      /\ copies' = [copies EXCEPT ![d] = [m \in Msgs |->
           IF m \in marks THEN [copies[d][m] EXCEPT !.delivery = "delivered"]
           ELSE copies[d][m]]]
  BY DEF acknowledged
<1>3. \A m \in marks : copies[d][m] # None
  OBVIOUS
<1>. HIDE DEF marks
<1>4. ASSUME NEW e \in Devices, NEW k \in Msgs
      PROVE  copies'[e][k] = copies[e][k] \/ Alike(copies[e][k], copies'[e][k])
  <2>1. copies \in [Devices -> Known]
    BY <1>1 DEF DiskInv, TypeOK
  <2>2. CASE e = d /\ k \in marks
    <3>1. copies'[e][k] = [copies[e][k] EXCEPT !.delivery = "delivered"]
      BY <1>2, <2>1, <2>2
    <3>2. Proper(e, copies[e][k])
      BY <1>1, <1>3, <2>2 DEF DiskInv, Sound
    <3>3. QED
      BY <3>1, <3>2, DeliveryAlike DEF Deliveries
  <2>3. CASE ~ (e = d /\ k \in marks)
    BY <1>2, <2>1, <2>3
  <2>4. QED
    BY <2>2, <2>3
<1>5. \A e \in Devices : outbox'[e] \subseteq outbox[e]
  BY <1>1, <1>2, OneQueue
<1>6. \A k \in Msgs, at \in Clocks, t \in Contents : \A j \in net' :
        Brings(j, k, at, t) => Told(k, at, t)
  BY <1>2, Telling
<1>7. QED
  BY <1>2, <1>4, <1>5, <1>6, TextsLess

\* outgoing sends what is queued.
LEMMA TextsOutgoing ==
  ASSUME NEW E \in Mine, TextsInv(E), DiskInv', NEW d \in Mine, outgoing(d)
  PROVE  TextsInv(E)'
<1>1. net' = net \cup ToFriend(outbox[d]) /\ UNCHANGED <<disk, copies, outbox>> /\ d \in Devices
  BY DEF outgoing, Relay, memory, Devices
<1>2. ASSUME NEW k \in Msgs, NEW at \in Clocks, NEW t \in Contents, NEW i \in net',
             Brings(i, k, at, t)
      PROVE  Told(k, at, t)
  <2>1. CASE i \in net
    BY <1>2, <2>1, Telling
  <2>2. CASE i \in ToFriend(outbox[d])
    BY <1>1, <1>2, <2>2, MailTexts, Telling
  <2>3. QED
    BY <1>1, <2>1, <2>2
<1>3. QED
  BY <1>1, <1>2, TextsLess

\* historyFor sends what the copy says.
LEMMA TextsHistory ==
  ASSUME NEW E \in Mine, TextsInv(E), DiskInv',
         NEW d \in Devices, NEW e \in Devices, NEW m \in Msgs, historyFor(d, e, m)
  PROVE  TextsInv(E)'
<1>. PICK c : c = copies[d][m]
  OBVIOUS
<1>. PICK j : j = [to |-> e, kind |-> "hist", body |-> [m |-> m, copy |-> wire(c)]]
  OBVIOUS
<1>1. c # None /\ net' = (net \ History(d)) \cup {j} /\ UNCHANGED <<disk, copies, outbox>>
  BY DEF historyFor, Relay, memory
<1>2. Proper(d, c)
  BY <1>1 DEF TextsInv, DiskInv, Sound
<1>3. c.at \in Nat /\ c.edited \in Nat /\ (~c.deleted => c.at >= c.edited)
  BY <1>2, ProperParts DEF Proper, WellFormed
<1>4. ~c.deleted => contentClock(c) = c.at
  BY <1>3 DEF contentClock
<1>5. wire(c).text = c.text /\ wire(c).at = contentClock(c) /\ wire(c).deleted = c.deleted
  BY DEF wire
<1>6. ASSUME NEW k \in Msgs, NEW at \in Clocks, NEW t \in Contents, NEW i \in net',
             Brings(i, k, at, t)
      PROVE  Told(k, at, t)
  <2>1. CASE i \in net
    BY <1>6, <2>1, Telling
  <2>2. CASE i = j
    <3>1. k = m /\ ~wire(c).deleted /\ wire(c).at = at /\ wire(c).text = t
      BY <1>6, <2>2 DEF Brings
    <3>2. Says(c, at, t)
      BY <1>1, <1>4, <1>5, <3>1 DEF Says
    <3>3. QED
      BY <3>1, <3>2, Telling
  <2>3. QED
    BY <1>1, <2>1, <2>2
<1>7. QED
  BY <1>1, <1>6, TextsLess

\* An operation that reaches a device.
LEMMA TextsIngest ==
  ASSUME NEW E \in Mine, TextsInv(E), DiskInv',
         NEW i \in net, ingestPeer(i.to, i) \/ ingestSelf(i.to, i)
  PROVE  TextsInv(E)'
<1>. PICK d : d = i.to
  OBVIOUS
<1>. PICK o : o = i.body
  OBVIOUS
<1>. PICK new : new = CopyAfter(d, o)
  OBVIOUS
<1>1. DiskInv /\ d \in Devices /\ i.kind \in {"envelope", "self"} /\ o \in Ops /\ o.m \in Msgs
  BY ItemParts DEF TextsInv, ingestPeer, ingestSelf, Ops
<1>2. copies' = setCopy(d, o.m, new) /\ UNCHANGED <<outbox, disk>>
  BY DEF ingestPeer, ingestSelf, applyOp
<1>3. \E I : net' \subseteq net \cup Receipts(I)
  <2>1. CASE net' = net \ {i}
    BY <2>1
  <2>2. CASE net' = (net \ {i}) \cup Receipts({idOf(o)})
    BY <2>2
  <2>3. QED
    BY <2>1, <2>2 DEF ingestPeer, ingestSelf, Relay
<1>4. /\ Newer(copies[d][o.m], new)
      /\ \A at, t : Says(new, at, t) => Says(copies[d][o.m], at, t) \/ Puts(o, o.m, at, t)
  BY <1>1, ApplyTexts
<1>5. \A e \in Devices, k \in Msgs :
        copies'[e][k] = IF e = d /\ k = o.m THEN new ELSE copies[e][k]
  BY <1>1, <1>2, OneCopy
<1>6. Climbs(E)
  BY <1>1, <1>2, <1>4, OneNewer
<1>7. ASSUME NEW k \in Msgs, NEW at \in Clocks, NEW t \in Contents
      PROVE  Retold(k, at, t, FALSE)
  <2>1. Puts(o, o.m, at, t) => Told(o.m, at, t)
    BY <1>1, Telling DEF Brings
  <2>2. Says(new, at, t) => Told(o.m, at, t)
    BY <1>1, <1>4, <2>1, Telling
  <2>3. \A e \in Devices : Says(copies'[e][k], at, t) => Told(k, at, t)
    BY <1>5, <2>2, Telling
  <2>4. \A j \in net' : Brings(j, k, at, t) => Told(k, at, t)
    BY <1>3, MailTexts, Telling
  <2>5. QED
    BY <1>2, <2>3, <2>4, Telling DEF Retold
<1>8. QED
  BY <1>2, <1>6, <1>7, QuietEvent

\* History that reaches a device.
LEMMA TextsMerge ==
  ASSUME NEW E \in Mine, TextsInv(E), DiskInv', NEW i \in net, mergeHistory(i.to, i)
  PROVE  TextsInv(E)'
<1>. PICK d : d = i.to
  OBVIOUS
<1>. PICK m : m = i.body.m
  OBVIOUS
<1>. PICK w : w = i.body.copy
  OBVIOUS
<1>0. PICK new : new = IF copies[d][m] = None
                         THEN storedMessage(w.text, w.at, w.edited,
                                            w.deleted \/ m \in tombstones[d], d \in Mine)
                         ELSE merged(copies[d][m], w, m \in tombstones[d])
  OBVIOUS
<1>1. /\ DiskInv /\ d \in Devices /\ m \in Msgs /\ w \in Wires /\ ProperWire(w)
      /\ i.kind = "hist"
  BY ItemParts DEF TextsInv, mergeHistory
<1>2. /\ copies' = setCopy(d, m, new) /\ net' \subseteq net /\ UNCHANGED <<outbox, disk>>
  BY <1>0 DEF mergeHistory
<1>3. /\ Newer(copies[d][m], new)
      /\ \A at, t : Says(new, at, t) =>
           Says(copies[d][m], at, t) \/ (~w.deleted /\ w.at = at /\ w.text = t)
  BY <1>0, <1>1, HistoryTexts
<1>4. \A e \in Devices, k \in Msgs :
        copies'[e][k] = IF e = d /\ k = m THEN new ELSE copies[e][k]
  BY <1>1, <1>2, OneCopy
<1>5. Climbs(E)
  BY <1>1, <1>2, <1>3, OneNewer
<1>6. ASSUME NEW k \in Msgs, NEW at \in Clocks, NEW t \in Contents
      PROVE  Retold(k, at, t, FALSE)
  <2>1. ~w.deleted /\ w.at = at /\ w.text = t => Told(m, at, t)
    BY <1>1, Telling DEF Brings
  <2>2. Says(new, at, t) => Told(m, at, t)
    BY <1>1, <1>3, <2>1, Telling
  <2>3. \A e \in Devices : Says(copies'[e][k], at, t) => Told(k, at, t)
    BY <1>4, <2>2, Telling
  <2>4. QED
    BY <1>2, <2>3, Telling DEF Retold
<1>7. QED
  BY <1>2, <1>5, <1>6, QuietEvent

\* A device that starts again says what it had stored.
LEMMA TextsCrash ==
  ASSUME NEW E \in Mine, TextsInv(E), DiskInv', NEW d \in Devices, d # E, crash(d)
  PROVE  TextsInv(E)'
<1>1. /\ copies' = [copies EXCEPT ![d] = disk[d].segment]
      /\ outbox' = [outbox EXCEPT ![d] = disk[d].state] /\ net' \subseteq net /\ disk' = disk
  BY DEF crash, set
<1>2. /\ DiskInv /\ copies \in [Devices -> Known] /\ outbox \in [Devices -> SUBSET Ops]
      /\ E \in Devices
  BY DEF TextsInv, DiskInv, TypeOK, Devices
<1>3. /\ \A e \in Devices : copies'[e] = IF e = d THEN disk[d].segment ELSE copies[e]
      /\ \A e \in Devices : outbox'[e] = IF e = d THEN disk[d].state ELSE outbox[e]
  BY <1>1, <1>2
<1>4. Climbs(E)
  <2>1. ASSUME NEW k \in Msgs, copies[E][k] # None
        PROVE  copies[E][k].at <= copies[E][k].at
    <3>1. Proper(E, copies[E][k])
      BY <1>2, <2>1 DEF DiskInv, Sound
    <3>2. copies[E][k].at \in Nat
      BY <1>2, <3>1, ProperParts
    <3>3. QED
      BY <3>2
  <2>2. copies'[E] = copies[E]
    BY <1>2, <1>3
  <2>3. QED
    BY <2>1, <2>2 DEF Climbs
<1>5. \A k \in Msgs, at \in Clocks, t \in Contents : Retold(k, at, t, FALSE)
  BY <1>1, <1>3, Telling DEF Retold
<1>6. QED
  BY <1>1, <1>4, <1>5, QuietEvent

\* What is written says what memory says.
LEMMA TextsWrite ==
  ASSUME NEW E \in Mine, TextsInv(E), DiskInv', NEW d \in Devices, NEW D, writePass(d, D)
  PROVE  TextsInv(E)'
<1>. PICK I : I = {a.id : a \in {b \in {[a EXCEPT !.needs = @ \ D] : a \in pendingAcks[d]} :
                                   b.needs = {}}}
  OBVIOUS
<1>1. /\ disk' = set(disk, d, [n \in Docs |-> IF n \in D THEN docNow(d)[n] ELSE disk[d][n]])
      /\ net' = net \cup Receipts(I) /\ UNCHANGED <<copies, outbox>>
  BY DEF writePass, Relay, memory
<1>2. /\ DiskInv /\ D \in SUBSET Docs
  BY DEF TextsInv, DiskInv, TypeOK, writePass
<1>3. /\ \A e \in Devices : e # d => disk'[e] = disk[e]
      /\ disk'[d].segment = IF "segment" \in D THEN copies[d] ELSE disk[d].segment
      /\ disk'[d].state = IF "state" \in D THEN outbox[d] ELSE disk[d].state
  BY <1>1, <1>2, DocsWritten
<1>4. Climbs(E)
  BY <1>1, <1>2, AlikeStep
<1>5. ASSUME NEW k \in Msgs, NEW at \in Clocks, NEW t \in Contents, Told(k, at, t)'
      PROVE  Told(k, at, t)
  <2>1. CASE \E e \in Devices : Says(copies'[e][k], at, t)
    BY <1>1, <2>1, Telling
  <2>2. CASE \E e \in Devices : Says(disk'[e].segment[k], at, t)
    BY <1>3, <2>2, Telling
  <2>3. CASE \E e \in Devices : \E o \in outbox'[e] : Puts(o, k, at, t)
    BY <1>1, <2>3, Telling
  <2>4. CASE \E e \in Devices : \E o \in disk'[e].state : Puts(o, k, at, t)
    BY <1>3, <2>4, Telling
  <2>5. CASE \E i \in net' : Brings(i, k, at, t)
    BY <1>1, <2>5, MailTexts, Telling
  <2>6. QED
    BY <1>5, <2>1, <2>2, <2>3, <2>4, <2>5 DEF Told, Says, Puts, Brings
<1>6. QED
  BY <1>4, <1>5, QuietTexts

\* Nothing is told at the start.
LEMMA TextsInit == ASSUME NEW E \in Mine PROVE Init => TextsInv(E)
<1>. SUFFICES ASSUME Init
     PROVE  TextsInv(E)
  OBVIOUS
<1>1. DiskInv
  BY DiskInit
<1>2. \A m \in Msgs : m \notin used
  BY DEF Init
<1>3. QED
  BY <1>1, <1>2, Untold DEF TextsInv, OneText, Leads

\* Every step keeps it, if only E edits and E does not crash.
LEMMA TextsNext ==
  ASSUME NEW E \in Mine, E \notin Crashing, \A d \in Mine \ {E} : "edit" \notin Can[d]
  PROVE  TextsInv(E) /\ [Next]_vars => TextsInv(E)'
<1>. SUFFICES ASSUME TextsInv(E), [Next]_vars
     PROVE  TextsInv(E)'
  OBVIOUS
<1>1. DiskInv /\ DiskInv'
  BY DiskStep DEF TextsInv
<1>2. CASE Event
  <2>1. CASE \E d \in Mine, m \in Msgs, text \in FirstTexts : sendMessage(d, m, text)
    BY <1>1, <2>1, TextsSend
  <2>2. CASE \E d \in Mine, m \in Msgs, text \in Texts, at \in 1..MaxClock :
               editMessage(d, m, text, at)
    <3>1. PICK d \in Mine, m \in Msgs, text \in Texts, at \in 1..MaxClock :
            editMessage(d, m, text, at)
      BY <2>2
    <3>2. d = E
      BY <3>1 DEF editMessage
    <3>3. QED
      BY <1>1, <3>1, <3>2, TextsEdit
  <2>3. CASE \E d \in Mine, m \in Msgs : deleteMessage(d, m)
    BY <1>1, <2>3, TextsDelete
  <2>4. CASE \E d \in Mine, m \in Msgs : resendMessage(d, m)
    BY <1>1, <2>4, TextsResend
  <2>5. CASE \E d \in Mine, m \in Msgs : expire(d, m)
    BY <1>1, <2>5, TextsExpire
  <2>6. CASE \E d \in Mine : outgoing(d)
    BY <1>1, <2>6, TextsOutgoing
  <2>7. CASE \E i \in net : acknowledged(i.to, i)
    BY <1>1, <2>7, TextsAcknowledged
  <2>8. CASE \E i \in net : ingestPeer(i.to, i) \/ ingestSelf(i.to, i)
    BY <1>1, <2>8, TextsIngest
  <2>9. CASE \E i \in net : mergeHistory(i.to, i)
    BY <1>1, <2>9, TextsMerge
  <2>10. CASE \E d \in Devices, e \in Devices, m \in Msgs : historyFor(d, e, m)
    BY <1>1, <2>10, TextsHistory
  <2>11. CASE \E d \in Devices : crash(d)
    <3>1. PICK d \in Devices : crash(d)
      BY <2>11
    <3>2. d # E
      BY <3>1 DEF crash
    <3>3. QED
      BY <1>1, <3>1, <3>2, TextsCrash
  <2>12. QED
    BY <1>2, <2>1, <2>2, <2>3, <2>4, <2>5, <2>6, <2>7, <2>8, <2>9, <2>10, <2>11 DEF Event
<1>3. CASE \/ \E d \in Slow, name \in Docs : writePass(d, {name})
           \/ \E d \in Devices \ Slow : writePass(d, pendingWrites[d])
  <2>1. PICK d \in Devices : \E D : writePass(d, D)
    BY <1>3, DirectMessagesAssumption
  <2>2. QED
    BY <1>1, <2>1, TextsWrite
<1>4. CASE UNCHANGED vars
  BY <1>1, <1>4 DEF vars, memory, TextsInv, OneText, Leads, Told
<1>5. QED
  BY <1>2, <1>3, <1>4 DEF Next

\* Two copies with one version, neither deleted, have one clock.
LEMMA VersionClock ==
  ASSUME DiskInv, NEW d \in Devices, NEW e \in Devices, NEW m \in Msgs,
         copies[d][m] # None, copies[e][m] # None,
         ~copies[d][m].deleted, ~copies[e][m].deleted, version(d, m) = version(e, m)
  PROVE  copies[d][m].at = copies[e][m].at
<1>1. \A f \in {d, e} :
        /\ copies[f][m].at \in Nat /\ copies[f][m].edited \in Nat
        /\ copies[f][m].at >= copies[f][m].edited
  BY ProperParts DEF DiskInv, Sound, Proper, WellFormed
<1>2. \A f \in {d, e} :
        version(f, m) = <<copies[f][m].deleted, copies[f][m].edited,
                          IF copies[f][m].at # copies[f][m].edited THEN copies[f][m].at ELSE 0>>
  BY DEF version, fingerprint
<1>3. /\ copies[d][m].edited = copies[e][m].edited
      /\ (IF copies[d][m].at # copies[d][m].edited THEN copies[d][m].at ELSE 0)
           = (IF copies[e][m].at # copies[e][m].edited THEN copies[e][m].at ELSE 0)
  BY <1>2
<1>4. QED
  BY <1>1, <1>3

\* Own devices that hold one version of a message show one text, as long as one
\* of them edits and that one does not crash: an edit always gets a clock that
\* nothing that is stored, queued or on its way has, so a clock tells the text.
THEOREM VersionsTellText ==
  ASSUME NEW E \in Mine, E \notin Crashing, \A d \in Mine \ {E} : "edit" \notin Can[d]
  PROVE  Spec => []VersionTellsText
<1>1. TextsInv(E) => VersionTellsText
  <2>. SUFFICES ASSUME TextsInv(E), NEW d \in Devices, NEW m \in Msgs, NEW e \in mates(d),
                       copies[d][m] # None, version(d, m) = version(e, m)
       PROVE  copies[d][m].text = copies[e][m].text
    BY DEF VersionTellsText
  <2>. PICK c : c = copies[d][m]
    OBVIOUS
  <2>. PICK f : f = copies[e][m]
    OBVIOUS
  <2>1. DiskInv /\ e \in Devices
    BY DEF TextsInv, mates, Devices
  <2>2. f # None /\ (Deleted(c) <=> Deleted(f))
    BY <2>1, VersionTells
  <2>3. Proper(d, c) /\ Proper(e, f)
    BY <2>1, <2>2 DEF DiskInv, Sound
  <2>4. CASE c.deleted
    BY <2>2, <2>3, <2>4 DEF Deleted, Proper, WellFormed
  <2>5. CASE ~c.deleted
    <3>1. ~f.deleted
      BY <2>2, <2>5 DEF Deleted
    <3>2. c.at = f.at
      BY <2>1, <2>2, <2>5, <3>1, VersionClock
    <3>3. /\ c.at \in Clocks /\ c.text \in Contents /\ f.text \in Contents
      BY <2>1, <2>3, ProperParts DEF Clocks, Contents
    <3>4. Told(m, c.at, c.text) /\ Told(m, c.at, f.text)
      BY <2>1, <2>2, <2>5, <3>1, <3>2, Telling DEF Says
    <3>5. QED
      BY <3>3, <3>4 DEF TextsInv, OneText
  <2>6. QED
    BY <2>4, <2>5
<1>2. Init => TextsInv(E)
  BY TextsInit
<1>3. TextsInv(E) /\ [Next]_vars => TextsInv(E)'
  BY TextsNext
<1>4. QED
  BY <1>1, <1>2, <1>3, PTL DEF Spec
=============================================================================
