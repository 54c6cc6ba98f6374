----------------------------- MODULE DmMessages -----------------------------
(***************************************************************************)
(* One message of a direct conversation as a device holds it, and how an   *)
(* operation or the copy of another device changes it: dmModel.ts,         *)
(* dmWire.ts and dmConversations.ts.  Reactions and files are left out.    *)
(***************************************************************************)
EXTENDS Naturals

CONSTANTS
  Texts,     \* what a message may say, in the order of the strings
  None       \* no such message

ASSUME TextsAssumption == Texts \subseteq Nat \ {0}

NoText == 0             \* ''
Deliveries == {"pending", "failed", "delivered", "theirs"}    \* "theirs" is null

\* `at` is contentAt and `edited` is editedAt, 0 when absent.
StoredMessages == [text : Texts \cup {NoText}, at : Nat, edited : Nat,
                   deleted : BOOLEAN, delivery : Deliveries]

\* A text without a clock of its own has the clock of the last edit.
contentClock(c) == IF c.at # 0 THEN c.at ELSE c.edited

contentWins(at, text, c) == at > contentClock(c) \/ (at = contentClock(c) /\ text > c.text)

markDeleted(c) == [c EXCEPT !.deleted = TRUE, !.text = NoText]

\* The operation 'edit' on the copy of its message.  A newer clock counts even
\* when the text is the same; the "edited" mark does not.
edited(c, at, text) ==
  IF c.deleted \/ ~contentWins(at, text, c) THEN c
  ELSE IF text = c.text THEN [c EXCEPT !.at = at]
  ELSE [c EXCEPT !.at = at, !.text = text, !.edited = at]

\* storedMessage: a message this device did not have, from a friend or from
\* another own device.
storedMessage(text, at, mark, deleted, mine) ==
  [text |-> IF deleted THEN NoText ELSE text, at |-> IF deleted THEN 0 ELSE at,
   edited |-> mark, deleted |-> deleted,
   delivery |-> IF mine THEN "delivered" ELSE "theirs"]

\* toWireMessage: the copy as it goes to another own device, which takes the
\* clock of the last edit for that of a text that names none.
wire(c) == [text |-> c.text, at |-> contentClock(c), edited |-> c.edited, deleted |-> c.deleted]

NewestMark(c, w) == IF w.edited > c.edited THEN w.edited ELSE c.edited

\* mergeHistory, on a message both have: c here, w there.  `gone` says that a
\* delete reached this device before.
mergedText(c, w, gone) ==
  LET deleted == w.deleted \/ gone
  IN  IF deleted /\ ~c.deleted THEN markDeleted(c)
      ELSE IF ~c.deleted /\ ~deleted /\ w.at # 0 /\ contentWins(w.at, w.text, c)
        THEN [c EXCEPT !.text = w.text, !.at = w.at]
      ELSE c

\* The "edited" mark taken before the texts are compared.
MarkFirst(c, w, gone) == mergedText([c EXCEPT !.edited = NewestMark(c, w)], w, gone)

merged(c, w, gone) == [mergedText(c, w, gone) EXCEPT !.edited = NewestMark(c, w)]

\* messageFingerprint: what decides whether two devices hold the same version.
fingerprint(c) == <<c.deleted, c.edited, IF ~c.deleted /\ c.at # c.edited THEN c.at ELSE 0>>

\* What every copy keeps: the clock of a text is never behind its "edited"
\* mark, and a deleted message says nothing.
WellFormed(c) == /\ c \in StoredMessages
                 /\ ~c.deleted => c.at >= c.edited
                 /\ c.deleted => c.text = NoText
=============================================================================
