-------------------------- MODULE DirectMessages ---------------------------
(***************************************************************************)
(* Direct messages from one person to a friend, each with several devices: *)
(* the operations of dmConversations.ts, the outbox and its receipts       *)
(* (dmOutbox.ts), the documents each device keeps (dmPersistence.ts,       *)
(* dmHistory.ts) and the history that own devices exchange                 *)
(* (dmDeviceSync.ts).  The engine is synchronous: one action is one call   *)
(* into it, with what it hands to the transport.                           *)
(*                                                                         *)
(* Servers store nothing.  What is sent reaches the devices that listen:   *)
(* each item any of them, at any time and in any order, since two people   *)
(* may share several servers.                                              *)
(***************************************************************************)
EXTENDS DmMessages, FiniteSets

CONSTANTS
  Mine,         \* the devices of the author
  Theirs,       \* the devices of the friend
  Msgs,         \* message ids
  Can,          \* bound: which of Doings each device of the author does
  FirstTexts,   \* bound: the texts a message is first sent with
  MaxClock,     \* bound: the latest clock of an edit
  Slow,         \* bound: the devices on which anything happens before a document is written
  Crashing,     \* bound: the devices that may stop without warning
  MaxCrashes,   \* bound: how often they do
  MayExpire     \* bound: does a message wait 30 days?

Devices == Mine \cup Theirs
Doings == {"send", "edit", "delete"}

ASSUME DirectMessagesAssumption ==
  /\ Mine \cap Theirs = {} /\ Slow \subseteq Devices /\ Crashing \subseteq Slow
  /\ Can \in [Mine -> SUBSET Doings] /\ FirstTexts \subseteq Texts
  /\ MaxClock \in Nat /\ MaxCrashes \in Nat /\ MayExpire \in BOOLEAN
  /\ None \notin StoredMessages /\ None \notin BOOLEAN \X Nat \X Nat    \* nor a version

VARIABLES
  used,           \* the ids given to messages so far
  copies,         \* the messages each device holds in memory
  tombstones,     \* deletes that came before their message
  outbox,         \* what waits for a receipt
  pendingWrites,  \* documents that changed and are not written yet
  pendingAcks,    \* receipts that wait for documents to be written
  disk,           \* the documents as they are stored
  net,            \* items on their way to a device
  crashes         \* how many crashes are left

memory == <<copies, tombstones, outbox>>
vars == <<used, memory, pendingWrites, pendingAcks, disk, net, crashes>>

\* A month of messages, index.mkdm with the tombstones, state.mkdm with the outbox.
Docs == {"segment", "head", "state"}

Ops == [type : {"msg", "edit", "delete"}, from : Mine, m : Msgs,
        text : Texts \cup {NoText}, at : 0..MaxClock]
op(type, d, m, text, at) == [type |-> type, from |-> d, m |-> m, text |-> text, at |-> at]

\* The id of an operation: a message keeps its own through edits and resends.
idOf(o) == [o EXCEPT !.text = NoText, !.at = IF o.type = "msg" THEN 0 ELSE @]

NoCopies == [m \in Msgs |-> None]

Init ==
  /\ used = {}
  /\ copies = [d \in Devices |-> NoCopies]
  /\ tombstones = [d \in Devices |-> {}]
  /\ outbox = [d \in Devices |-> {}]
  /\ pendingWrites = [d \in Devices |-> {}]
  /\ pendingAcks = [d \in Devices |-> {}]
  /\ disk = [d \in Devices |-> [segment |-> NoCopies, head |-> {}, state |-> {}]]
  /\ net = {}
  /\ crashes = MaxCrashes

-----------------------------------------------------------------------------
(* What a device sends, and what reaches somebody.                         *)

ToFriend(O) == {[to |-> b, kind |-> "envelope", body |-> o] : b \in Theirs, o \in O}
ToSelf(d, o) == {[to |-> a, kind |-> "self", body |-> o] : a \in Mine \ {d}}
Receipts(I) == {[to |-> a, kind |-> "ack", body |-> i] : a \in Mine, i \in I}

\* Nothing ever has to arrive: what is lost stays on its way.
Relay(gone, sent) == net' = (net \ gone) \cup sent

set(f, d, v) == [f EXCEPT ![d] = v]
setCopy(d, m, c) == [copies EXCEPT ![d][m] = c]
Dirty(d, D) == pendingWrites' = [pendingWrites EXCEPT ![d] = @ \cup D]

msgEntries(d, m) == {o \in outbox[d] : o.type = "msg" /\ o.m = m}
entriesOf(d, m, types) == {o \in outbox[d] : o.type \in types /\ o.m = m}

-----------------------------------------------------------------------------
(* The author.                                                             *)

\* Queued, sent at once, and written later.
sendMessage(d, m, text) ==
  LET o == op("msg", d, m, text, 0)
  IN  /\ "send" \in Can[d] /\ m \notin used
      /\ used' = used \cup {m}
      /\ copies' = setCopy(d, m, [text |-> text, at |-> 0, edited |-> 0, deleted |-> FALSE,
                                  delivery |-> "pending"])
      /\ outbox' = set(outbox, d, outbox[d] \cup {o})
      /\ Dirty(d, Docs)
      /\ Relay({}, ToFriend({o}) \cup ToSelf(d, o))
      /\ UNCHANGED <<tombstones, pendingAcks, disk, crashes>>

\* A queued copy that an edit replaces.
NoneWaits(d, m, text, at) == {}

\* A copy of the message that still waits carries the new text and its clock.
waiting(d, m, text, at) == {[e EXCEPT !.text = text, !.at = at] : e \in msgEntries(d, m)}

\* Older edits are dropped, and the edit goes out whatever the receipts say.
editMessage(d, m, text, at) ==
  LET c == copies[d][m]
      o == op("edit", d, m, text, at)
      copy == waiting(d, m, text, at)
  IN  /\ "edit" \in Can[d] /\ c # None /\ ~c.deleted /\ text # c.text /\ at > contentClock(c)
      /\ copies' = setCopy(d, m, [c EXCEPT !.text = text, !.at = at, !.edited = at])
      /\ outbox' = set(outbox, d,
           (outbox[d] \ entriesOf(d, m, {"msg", "edit"})) \cup copy \cup {o})
      /\ Dirty(d, Docs)
      /\ Relay({}, ToFriend(copy \cup {o}) \cup ToSelf(d, o))
      /\ UNCHANGED <<used, tombstones, pendingAcks, disk, crashes>>

\* What is queued for the message is dropped, and the delete always goes out.
deleteMessage(d, m) ==
  LET c == copies[d][m]
      o == op("delete", d, m, NoText, 0)
  IN  /\ "delete" \in Can[d] /\ c # None /\ ~c.deleted
      /\ copies' = setCopy(d, m, markDeleted(c))
      /\ outbox' = set(outbox, d, (outbox[d] \ entriesOf(d, m, {"msg", "edit", "delete"})) \cup {o})
      /\ Dirty(d, Docs)
      /\ Relay({}, ToFriend({o}) \cup ToSelf(d, o))
      /\ UNCHANGED <<used, tombstones, pendingAcks, disk, crashes>>

\* A message that was not delivered is queued again, as it is now.
resendMessage(d, m) ==
  LET c == copies[d][m]
      o == op("msg", d, m, c.text, c.at)
  IN  /\ c # None /\ ~c.deleted /\ c.delivery = "failed"
      /\ copies' = setCopy(d, m, [c EXCEPT !.delivery = "pending"])
      /\ outbox' = set(outbox, d, outbox[d] \cup {o})
      /\ Dirty(d, Docs)
      /\ Relay({}, ToFriend({o}))
      /\ UNCHANGED <<used, tombstones, pendingAcks, disk, crashes>>

\* A message that waited too long shows as not delivered.
expire(d, m) ==
  LET old == msgEntries(d, m)
      c   == copies[d][m]
      marks == c # None /\ c.delivery = "pending"
  IN  /\ MayExpire /\ old # {}
      /\ outbox' = set(outbox, d, outbox[d] \ old)
      /\ copies' = IF marks THEN setCopy(d, m, [c EXCEPT !.delivery = "failed"]) ELSE copies
      /\ Dirty(d, IF marks THEN Docs ELSE {"state"})
      /\ UNCHANGED <<used, tombstones, pendingAcks, disk, net, crashes>>

\* The next round, or a device of the friend that says it listens: what waits
\* is sent again, with the time it was.
outgoing(d) ==
  /\ outbox[d] # {}
  /\ Dirty(d, {"state"})
  /\ Relay({}, ToFriend(outbox[d]))
  /\ UNCHANGED <<used, memory, pendingAcks, disk, crashes>>

\* A receipt: its entry leaves the outbox and the message shows as delivered.
acknowledged(d, i) ==
  LET acked == {o \in outbox[d] : idOf(o) = i.body}
      done  == {o.m : o \in {x \in acked : x.type = "msg"}}
      marks == {m \in done : copies[d][m] # None /\ copies[d][m].delivery # "delivered"}
  IN  /\ i \in net /\ i.to = d /\ i.kind = "ack"
      /\ outbox' = set(outbox, d, outbox[d] \ acked)
      /\ copies' = [copies EXCEPT ![d] = [m \in Msgs |->
           IF m \in marks THEN [@[m] EXCEPT !.delivery = "delivered"] ELSE @[m]]]
      /\ Dirty(d, IF marks # {} THEN Docs ELSE {"state"})
      /\ net' = net \ {i}
      /\ UNCHANGED <<used, tombstones, pendingAcks, disk, crashes>>

-----------------------------------------------------------------------------
(* applyOp: an operation reaches a device of the friend, or another own    *)
(* device.                                                                 *)

EvenDeleted(d, m) == copies[d][m] = None
Accepts(d, m) == copies[d][m] = None /\ m \notin tombstones[d]

CopyAfter(d, o) ==
  LET c == copies[d][o.m]
  IN  CASE o.type = "msg" -> IF Accepts(d, o.m)
             THEN storedMessage(o.text, o.at, 0, FALSE, d \in Mine) ELSE c
        [] o.type = "edit" -> IF c = None THEN c ELSE edited(c, o.at, o.text)
        [] o.type = "delete" -> IF c = None THEN c ELSE markDeleted(c)

\* A delete ahead of its message is remembered.
Forgotten(d, o) == tombstones[d]
TombstonesAfter(d, o) ==
  IF o.type = "delete" /\ copies[d][o.m] = None THEN tombstones[d] \cup {o.m} ELSE tombstones[d]

DirtyAfter(d, o) ==
  IF CopyAfter(d, o) # copies[d][o.m] THEN Docs
  ELSE IF TombstonesAfter(d, o) # tombstones[d] THEN {"head"} ELSE {}

applyOp(d, o) ==
  /\ copies' = setCopy(d, o.m, CopyAfter(d, o))
  /\ tombstones' = set(tombstones, d, TombstonesAfter(d, o))
  /\ Dirty(d, DirtyAfter(d, o))

\* ackWhenStored: the receipt waits for what is not written when the operation
\* has been applied.
AtOnce(d, o) == {}
Needs(d, o) == pendingWrites[d] \cup DirtyAfter(d, o)

ingestPeer(d, i) ==
  LET o == i.body
      needs == Needs(d, o)
      ack == [id |-> idOf(o), needs |-> needs]
  IN  /\ i \in net /\ i.to = d /\ i.kind = "envelope"
      /\ applyOp(d, o)
      /\ IF needs = {} THEN Relay({i}, Receipts({idOf(o)})) /\ UNCHANGED pendingAcks
         ELSE /\ pendingAcks' = set(pendingAcks, d, pendingAcks[d] \cup {ack})
              /\ net' = net \ {i}
      /\ UNCHANGED <<used, outbox, disk, crashes>>

ingestSelf(d, i) ==
  /\ i \in net /\ i.to = d /\ i.kind = "self"
  /\ applyOp(d, i.body)
  /\ net' = net \ {i}
  /\ UNCHANGED <<used, outbox, pendingAcks, disk, crashes>>

-----------------------------------------------------------------------------
(* History between the devices of one person.                              *)

mates(d) == (IF d \in Mine THEN Mine ELSE Theirs) \ {d}
\* Bound: one message of history is on its way between them, an older one is lost.
History(d) == {i \in net : i.kind = "hist" /\ i.to \in mates(d) \cup {d}}

version(d, m) == IF copies[d][m] = None THEN None ELSE fingerprint(copies[d][m])

\* The digest of device e said that it lacks this message, or had another
\* version when it was sent: the message goes as it is here.
historyFor(d, e, m) ==
  LET c == copies[d][m]
  IN  /\ e \in mates(d) /\ c # None
      /\ Relay(History(d), {[to |-> e, kind |-> "hist", body |-> [m |-> m, copy |-> wire(c)]]})
      /\ UNCHANGED <<used, memory, pendingWrites, pendingAcks, disk, crashes>>

\* A message this device lacks is taken, deleted if its delete came before.
mergeHistory(d, i) ==
  LET m == i.body.m
      w == i.body.copy
      gone == m \in tombstones[d]
      c == copies[d][m]
      new == IF c = None
               THEN storedMessage(w.text, w.at, w.edited, w.deleted \/ gone, d \in Mine)
               ELSE merged(c, w, gone)
  IN  /\ i \in net /\ i.to = d /\ i.kind = "hist"
      /\ copies' = setCopy(d, m, new)
      /\ Dirty(d, IF new # c THEN Docs ELSE {})
      /\ net' = net \ {i}
      /\ UNCHANGED <<used, tombstones, outbox, pendingAcks, disk, crashes>>

-----------------------------------------------------------------------------
(* The documents.  A write that fails stays pending, which is no step.     *)

docNow(d) == [segment |-> copies[d], head |-> tombstones[d], state |-> outbox[d]]

\* The documents of D are written, and the receipts that waited for them leave.
writePass(d, D) ==
  LET left  == {[a EXCEPT !.needs = @ \ D] : a \in pendingAcks[d]}
      ready == {a \in left : a.needs = {}}
      now   == docNow(d)
  IN  /\ D # {} /\ D \subseteq pendingWrites[d]
      /\ pendingWrites' = set(pendingWrites, d, pendingWrites[d] \ D)
      /\ disk' = set(disk, d, [n \in Docs |-> IF n \in D THEN now[n] ELSE disk[d][n]])
      /\ pendingAcks' = set(pendingAcks, d, left \ ready)
      /\ Relay({}, Receipts({a.id : a \in ready}))
      /\ UNCHANGED <<used, memory, crashes>>

\* The app stops and starts again with what was written.
crash(d) ==
  /\ d \in Crashing /\ crashes > 0
  /\ crashes' = crashes - 1
  /\ copies' = set(copies, d, disk[d].segment)
  /\ tombstones' = set(tombstones, d, disk[d].head)
  /\ outbox' = set(outbox, d, disk[d].state)
  /\ pendingWrites' = set(pendingWrites, d, {})
  /\ pendingAcks' = set(pendingAcks, d, {})
  /\ net' = {i \in net : i.to # d}
  /\ UNCHANGED <<used, disk>>

\* A device that is not slow writes its documents before the next event.
Written == \A d \in Devices \ Slow : pendingWrites[d] = {}

Event ==
  \/ \E d \in Mine :
       \/ \E m \in Msgs : \/ \E text \in FirstTexts : sendMessage(d, m, text)
                          \/ \E text \in Texts, at \in 1..MaxClock : editMessage(d, m, text, at)
                          \/ deleteMessage(d, m) \/ resendMessage(d, m) \/ expire(d, m)
       \/ outgoing(d)
  \/ \E i \in net : \/ acknowledged(i.to, i) \/ ingestPeer(i.to, i) \/ ingestSelf(i.to, i)
                    \/ mergeHistory(i.to, i)
  \/ \E d \in Devices : \/ \E e \in Devices, m \in Msgs : historyFor(d, e, m)
                        \/ crash(d)

Next == \/ Written /\ Event
        \/ \E d \in Slow, name \in Docs : writePass(d, {name})
        \/ \E d \in Devices \ Slow : writePass(d, pendingWrites[d])

Spec == Init /\ [][Next]_vars

-----------------------------------------------------------------------------
(* Correctness.                                                            *)

Known == [Msgs -> StoredMessages \cup {None}]
Wires == [text : Texts \cup {NoText}, at : Nat, edited : Nat, deleted : BOOLEAN]
Items == [to : Theirs, kind : {"envelope"}, body : Ops]
         \cup [to : Mine, kind : {"self", "ack"}, body : Ops]
         \cup [to : Devices, kind : {"hist"}, body : [m : Msgs, copy : Wires]]

\* Besides the types: no text is stamped before its "edited" mark, a deleted
\* message says nothing, and only the author's devices queue and show delivery.
TypeOK ==
  /\ used \subseteq Msgs
  /\ copies \in [Devices -> Known] /\ tombstones \in [Devices -> SUBSET Msgs]
  /\ outbox \in [Devices -> SUBSET Ops] /\ \A b \in Theirs : outbox[b] = {}
  /\ pendingWrites \in [Devices -> SUBSET Docs]
  /\ pendingAcks \in [Devices -> SUBSET [id : Ops, needs : SUBSET Docs]]
  /\ disk \in [Devices -> [segment : Known, head : SUBSET Msgs, state : SUBSET Ops]]
  /\ net \subseteq Items
  /\ crashes \in 0..MaxCrashes
  /\ \A d \in Devices, m \in Msgs : copies[d][m] # None =>
       WellFormed(copies[d][m]) /\ (copies[d][m].delivery = "theirs" <=> d \in Theirs)

\* What the history rests on: own devices that hold the same version of a
\* message show the same text, as nothing would bring one to the other.
VersionTellsText ==
  \A d \in Devices, m \in Msgs : \A e \in mates(d) :
    copies[d][m] # None /\ version(d, m) = version(e, m) => copies[d][m].text = copies[e][m].text

shown(c) == c # None /\ ~c.deleted

\* What a message or its delete leaves in the documents of a device.
Stored(doc, o) ==
  LET known == doc.segment[o.m] # None \/ o.m \in doc.head
  IN  known /\ (o.type = "delete" => ~shown(doc.segment[o.m]))

\* "A crash right after acking can no longer lose a message the sender already
\* dropped": whatever crashes and failed writes there are, a receipt on its way
\* for a message or a delete means that a device of the friend has it on disk.
ReceiptIsTrue ==
  \A i \in net : i.kind = "ack" /\ i.body.type # "edit" =>
    \E b \in Theirs : Stored(disk[b], i.body)

\* A message that shows as waiting is waiting: as long as its device does not
\* crash, it is in the outbox, from where it is delivered or expires.
PendingIsQueued ==
  \A a \in Mine, m \in Msgs :
    shown(copies[a][m]) /\ copies[a][m].delivery = "pending" => msgEntries(a, m) # {}

\* "A delete is final": once a device has it on disk, no late message, edit,
\* history or crash shows the message there again.
DeleteIsFinal ==
  [][\A d \in Devices, m \in Msgs :
       Stored(disk[d], [type |-> "delete", m |-> m]) => ~shown(copies'[d][m])]_vars

\* What has not arrived is lost, nothing waits, the devices of each
\* person agree on the version they have, and no message has failed.
Settled ==
  /\ \A d \in Devices : outbox[d] = {} /\ pendingAcks[d] = {}
  /\ \A d \in Devices, m \in Msgs :
       /\ \A e \in mates(d) : version(d, m) = version(e, m)
       /\ copies[d][m] # None => copies[d][m].delivery # "failed"

\* Once all is settled, friends see the messages that were sent and were not
\* deleted, and only those, whatever was lost, repeated or late.
FriendsSeeTheSame ==
  Settled => \A a \in Mine, b \in Theirs, m \in Msgs :
               copies[a][m] # None => (shown(copies[a][m]) <=> shown(copies[b][m]))

\* "Every device ends with the same conversation whatever order the operations
\* reach it in": its texts.  It does not hold: an edit that overtakes its
\* message is acknowledged and lost.
SameTexts ==
  Settled => \A d, e \in Devices, m \in Msgs :
               shown(copies[d][m]) /\ shown(copies[e][m]) => copies[d][m].text = copies[e][m].text
=============================================================================
