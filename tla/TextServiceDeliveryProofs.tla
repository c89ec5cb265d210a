---------------------- MODULE TextServiceDeliveryProofs ----------------------
(***************************************************************************)
(* Two proofs about keys that waited.  The first is that TextService       *)
(* implements KeyDelivery, for a host whose edits take their text and      *)
(* their caret together; the second, that such a key takes effect only     *)
(* where and as it was typed, for every host.                              *)
(*                                                                         *)
(* A step of the text service settles a number of keys in front of those   *)
(* that wait: none, the head of the loop, or all of them.  The lemmas of   *)
(* the first part turn such a step into one of KeyDelivery; those of the   *)
(* second say which keys the results of each call name; the third goes     *)
(* through the actions.                                                    *)
(***************************************************************************)
EXTENDS TextServiceProofs, SequenceTheorems

(* The keys that Waiting shows, and what it shows of a sequence of keys. *)
WaitingKeys ==
  IF replay.on THEN replay.todo
  ELSE IF tip.target = "held" THEN tip.queue.keys ELSE <<>>
Entry == [id : Nat, field : Context]
View(keys) == [i \in DOMAIN keys |-> [id |-> keys[i].id, field |-> keys[i].field]]

(* The numbers of the first n of the keys, and whether they were typed into c. *)
IdsTo(keys, n) == [i \in 1 .. n |-> keys[i].id]
TypedInto(keys, n, c) == n \in 0 .. Len(keys) /\ \A i \in 1 .. n : keys[i].field = c

------------------------------------------------------------------------------
(***************************************************************************)
(* From the keys of the text service to the steps of KeyDelivery.          *)
(***************************************************************************)
(* No keys have no numbers, and a queue has as many numbers as keys. *)
LEMMA IdsOfEnds ==
  ASSUME NEW keys \in Seq(Key)
  PROVE  IdsTo(keys, 0) = <<>> /\ IdsTo(keys, Len(keys)) = IdsOf(keys)
  BY DEF IdsTo, IdsOf

(* The number of the head. *)
LEMMA IdsOfHead ==
  ASSUME NEW keys \in Seq(Key), keys # <<>>
  PROVE  IdsTo(keys, 1) = <<Head(keys).id>>
  BY DEF IdsTo

(* The numbers of keys are numbers. *)
LEMMA IdsToTyped ==
  ASSUME NEW keys \in Seq(Key), NEW n \in 0 .. Len(keys)
  PROVE  IdsTo(keys, n) \in Seq(Nat)
<1>1. \A i \in 1 .. n : keys[i] \in Key
  OBVIOUS
<1>2. \A i \in 1 .. n : keys[i].id \in Nat
  BY <1>1 DEF Key
<1> QED
  BY <1>2 DEF IdsTo

(* The numbers of a queue that got one key more. *)
LEMMA IdsOfAppend ==
  ASSUME NEW keys \in Seq(Key), NEW key \in Key
  PROVE  IdsOf(Append(keys, key)) = Append(IdsOf(keys), key.id)
<1> DEFINE more == Append(keys, key)
           s == IdsTo(more, Len(more))
           t == Append(IdsTo(keys, Len(keys)), key.id)
<1>1. /\ more \in Seq(Key) /\ Len(more) = Len(keys) + 1 /\ Len(keys) \in Nat
      /\ \A i \in 1 .. Len(keys) : more[i] = keys[i]
      /\ more[Len(keys) + 1] = key
  BY AppendProperties
<1> HIDE DEF more
<1>2. /\ s \in Seq(Nat) /\ Len(s) = Len(keys) + 1
      /\ \A i \in 1 .. Len(keys) + 1 : s[i] = more[i].id
  <2>1. Len(more) \in 0 .. Len(more)
    BY <1>1
  <2>2. s \in Seq(Nat)
    BY <1>1, <2>1, IdsToTyped
  <2> QED
    BY <1>1, <2>2 DEF IdsTo
<1>3. /\ IdsTo(keys, Len(keys)) \in Seq(Nat) /\ Len(IdsTo(keys, Len(keys))) = Len(keys)
      /\ \A i \in 1 .. Len(keys) : IdsTo(keys, Len(keys))[i] = keys[i].id
  <2>1. Len(keys) \in 0 .. Len(keys)
    BY <1>1
  <2>2. IdsTo(keys, Len(keys)) \in Seq(Nat)
    BY <2>1, IdsToTyped
  <2> QED
    BY <1>1, <2>2 DEF IdsTo
<1>4. /\ t \in Seq(Nat) /\ Len(t) = Len(keys) + 1
      /\ \A i \in 1 .. Len(keys) : t[i] = keys[i].id
      /\ t[Len(keys) + 1] = key.id
  <2>1. key.id \in Nat
    BY DEF Key
  <2> QED
    BY <1>3, <2>1, AppendProperties
<1> HIDE DEF s, t
<1>5. ASSUME NEW i \in 1 .. Len(keys) + 1
      PROVE  s[i] = t[i]
  <2>1. CASE i \in 1 .. Len(keys)
    BY <1>1, <1>2, <1>4, <2>1
  <2>2. CASE i = Len(keys) + 1
    BY <1>1, <1>2, <1>4, <2>2
  <2> QED
    BY <1>1, <2>1, <2>2
<1>6. s = t
  BY <1>2, <1>4, <1>5, SeqEqual
<1> QED
  BY <1>1, <1>6, IdsOfEnds DEF more, s, t

(* What Waiting shows, entry by entry. *)
LEMMA ViewTyped ==
  ASSUME NEW keys \in Seq(Key)
  PROVE  /\ View(keys) \in Seq(Entry)
         /\ Len(View(keys)) = Len(keys)
         /\ \A i \in 1 .. Len(keys) :
              /\ View(keys)[i] = [id |-> keys[i].id, field |-> keys[i].field]
              /\ View(keys)[i].id = keys[i].id
              /\ View(keys)[i].field = keys[i].field
<1>1. DOMAIN keys = 1 .. Len(keys) /\ Len(keys) \in Nat
  OBVIOUS
<1>2. \A i \in 1 .. Len(keys) : keys[i] \in Key
  OBVIOUS
<1>3. \A i \in 1 .. Len(keys) : [id |-> keys[i].id, field |-> keys[i].field] \in Entry
  BY <1>2 DEF Key, Entry
<1> QED
  BY <1>1, <1>3 DEF View

LEMMA ViewOfNone == View(<<>>) = <<>>
  BY DEF View

LEMMA ViewOfAppend ==
  ASSUME NEW keys \in Seq(Key), NEW key \in Key
  PROVE  View(Append(keys, key)) = Append(View(keys), [id |-> key.id, field |-> key.field])
<1> DEFINE more == Append(keys, key)
           entry == [id |-> key.id, field |-> key.field]
           t == Append(View(keys), entry)
<1>1. /\ more \in Seq(Key) /\ Len(more) = Len(keys) + 1 /\ Len(keys) \in Nat
      /\ \A i \in 1 .. Len(keys) : more[i] = keys[i]
      /\ more[Len(keys) + 1] = key
  BY AppendProperties
<1> HIDE DEF more
<1>2. entry \in Entry
  BY DEF Key, Entry
<1>3. /\ t \in Seq(Entry) /\ Len(t) = Len(keys) + 1
      /\ \A i \in 1 .. Len(keys) : t[i] = View(keys)[i]
      /\ t[Len(keys) + 1] = entry
  BY <1>2, ViewTyped, AppendProperties
<1> HIDE DEF t
<1>4. View(more) \in Seq(Entry) /\ Len(View(more)) = Len(keys) + 1
  BY <1>1, ViewTyped
<1>5. ASSUME NEW i \in 1 .. Len(keys) + 1
      PROVE  View(more)[i] = t[i]
  <2>1. View(more)[i] = [id |-> more[i].id, field |-> more[i].field]
    BY <1>1, ViewTyped
  <2>2. CASE i <= Len(keys)
    BY <1>1, <1>3, <2>1, <2>2, ViewTyped
  <2>3. CASE i = Len(keys) + 1
    BY <1>1, <1>3, <2>1, <2>3
  <2> QED
    BY <1>1, <2>2, <2>3
<1>6. View(more) = t
  BY <1>3, <1>4, <1>5, SeqEqual
<1> QED
  BY <1>6 DEF more, t

LEMMA ViewOfTail ==
  ASSUME NEW keys \in Seq(Key), keys # <<>>
  PROVE  View(Tail(keys)) = SubSeq(View(keys), 2, Len(keys))
<1> DEFINE rest == Tail(keys)
           t == SubSeq(View(keys), 2, Len(keys))
<1>1. /\ rest \in Seq(Key) /\ Len(rest) = Len(keys) - 1 /\ Len(keys) \in Nat \ {0}
      /\ \A i \in 1 .. Len(rest) : rest[i] = keys[i + 1]
  BY HeadTailProperties
<1> HIDE DEF rest
<1>2. /\ View(keys) \in Seq(Entry) /\ Len(View(keys)) = Len(keys)
      /\ \A i \in 2 .. Len(keys) : View(keys)[i] \in Entry
  BY ViewTyped
<1>3. /\ t \in Seq(Entry)
      /\ Len(t) = Len(keys) - 1
      /\ \A i \in 1 .. Len(keys) - 1 : t[i] = View(keys)[i + 1]
  <2>1. 2 \in Int /\ Len(keys) \in Int
    BY <1>1
  <2>2. /\ t \in Seq(Entry)
        /\ Len(t) = IF 2 <= Len(keys) THEN Len(keys) - 2 + 1 ELSE 0
        /\ \A i \in 1 .. Len(keys) - 2 + 1 : t[i] = View(keys)[2 + i - 1]
    BY <1>2, <2>1, SubSeqProperties
  <2> HIDE DEF t
  <2> QED
    BY <1>1, <2>2
<1> HIDE DEF t
<1>4. View(rest) \in Seq(Entry) /\ Len(View(rest)) = Len(keys) - 1
  BY <1>1, ViewTyped
<1>5. ASSUME NEW i \in 1 .. Len(keys) - 1
      PROVE  View(rest)[i] = t[i]
  <2>1. View(rest)[i] = [id |-> rest[i].id, field |-> rest[i].field]
    BY <1>1, ViewTyped
  <2>2. View(keys)[i + 1] = [id |-> keys[i + 1].id, field |-> keys[i + 1].field]
    BY <1>1, ViewTyped
  <2> QED
    BY <1>1, <1>3, <2>1, <2>2
<1>6. View(rest) = t
  BY <1>3, <1>4, <1>5, SeqEqual
<1> QED
  BY <1>6 DEF rest, t

(* The first keys, as KeyDelivery sees them. *)
LEMMA FirstAre ==
  ASSUME WaitingKeys \in Seq(Key), NEW c, NEW n, TypedInto(WaitingKeys, n, c)
  PROVE  /\ Promise!FirstIds(n) = IdsTo(WaitingKeys, n)
         /\ n \in 0 .. Len(Waiting)
         /\ \A i \in 1 .. n : Waiting[i].field = c
         /\ Len(Waiting) = Len(WaitingKeys)
<1>1. Waiting = View(WaitingKeys)
  BY DEF Waiting, WaitingKeys, View
<1>2. n \in 0 .. Len(WaitingKeys) /\ \A i \in 1 .. n : WaitingKeys[i].field = c
  BY DEF TypedInto
<1>3. \A i \in 1 .. n : Waiting[i].id = WaitingKeys[i].id /\ Waiting[i].field = WaitingKeys[i].field
  <2>1. \A i \in 1 .. n : i \in 1 .. Len(WaitingKeys)
    BY <1>2
  <2>2. \A i \in 1 .. Len(WaitingKeys) : /\ View(WaitingKeys)[i].id = WaitingKeys[i].id
                                         /\ View(WaitingKeys)[i].field = WaitingKeys[i].field
    BY ViewTyped
  <2> QED
    BY <1>1, <2>1, <2>2
<1>4. Promise!FirstIds(n) = IdsTo(WaitingKeys, n)
  BY <1>3 DEF Promise!FirstIds, IdsTo
<1> QED
  BY <1>1, <1>2, <1>3, <1>4, ViewTyped

(* A step in which nothing that waits changes. *)
LEMMA StaysPut ==
  ASSUME WaitingKeys' = WaitingKeys, UNCHANGED <<text, typed>>
  PROVE  UNCHANGED Promise!vars
<1>1. Waiting = View(WaitingKeys) /\ Waiting' = View(WaitingKeys')
  BY DEF Waiting, WaitingKeys, View
<1> QED
  BY <1>1 DEF Promise!vars

(* No key takes effect. *)
LEMMA TookNone ==
  ASSUME text \in [Context -> Seq(Nat)], NEW c \in Context
  PROVE  (UNCHANGED text) <=> Took(c, <<>>)
<1>1. text[c] \o <<>> = text[c]
  BY ConcatEmptySeq
<1> QED
  BY <1>1 DEF Took

(* Nobody waits any longer: the first n keys took effect, the others are lost. *)
LEMMA AllSettle ==
  ASSUME WaitingKeys \in Seq(Key), NEW c \in Context, NEW n, TypedInto(WaitingKeys, n, c),
         Took(c, IdsTo(WaitingKeys, n)), typed' = typed, WaitingKeys' = <<>>
  PROVE  Promise!Next
<1> DEFINE m == Len(Waiting)
<1>1. /\ Promise!FirstIds(n) = IdsTo(WaitingKeys, n)
      /\ n \in 0 .. m /\ m \in Nat
      /\ \A i \in 1 .. n : Waiting[i].field = c
  BY FirstAre
<1>2. Waiting' = <<>>
  BY ViewOfNone DEF Waiting, WaitingKeys, View
<1>3. Promise!Behind(m) = <<>>
  BY <1>1, SubSeqEmpty DEF Promise!Behind
<1>4. Promise!Wait(c, n, m)
  BY <1>1, <1>2, <1>3 DEF Promise!Wait, Promise!Settles, Took
<1>5. m \in n .. m
  BY <1>1
<1> QED
  BY <1>1, <1>4, <1>5 DEF Promise!Next

(* The head is gone, with effect or without. *)
LEMMA HeadSettles ==
  ASSUME WaitingKeys \in Seq(Key), WaitingKeys # <<>>, NEW c \in Context, NEW n \in {0, 1},
         TypedInto(WaitingKeys, n, c), Took(c, IdsTo(WaitingKeys, n)), typed' = typed,
         WaitingKeys' = Tail(WaitingKeys)
  PROVE  Promise!Next
<1>1. /\ Promise!FirstIds(n) = IdsTo(WaitingKeys, n)
      /\ n \in 0 .. Len(Waiting)
      /\ \A i \in 1 .. n : Waiting[i].field = c
      /\ Len(Waiting) = Len(WaitingKeys)
  BY FirstAre
<1>2. Len(WaitingKeys) \in Nat \ {0}
  OBVIOUS
<1>3. Waiting = View(WaitingKeys) /\ Waiting' = View(WaitingKeys')
  BY DEF Waiting, WaitingKeys, View
<1>4. Waiting' = Promise!Behind(1)
  BY <1>1, <1>3, ViewOfTail DEF Promise!Behind
<1>5. Promise!Wait(c, n, 1)
  BY <1>1, <1>2, <1>4 DEF Promise!Wait, Promise!Settles, Took
<1>6. 1 \in n .. Len(Waiting)
  BY <1>1, <1>2
<1> QED
  BY <1>1, <1>5, <1>6 DEF Promise!Next

(* A key is typed and nobody waits any longer: the first n keys took       *)
(* effect, and the new key behind them or not.                             *)
LEMMA TypedSettles ==
  ASSUME WaitingKeys \in Seq(Key), NEW c \in Context, NEW n, TypedInto(WaitingKeys, n, c),
         \/ Took(c, IdsTo(WaitingKeys, n))
         \/ Took(c, Append(IdsTo(WaitingKeys, n), typed + 1)),
         typed < MaxKeys, typed' = typed + 1, WaitingKeys' = <<>>
  PROVE  Promise!Next
<1> DEFINE m == Len(Waiting)
<1>1. /\ Promise!FirstIds(n) = IdsTo(WaitingKeys, n)
      /\ n \in 0 .. m /\ m \in Nat
      /\ \A i \in 1 .. n : Waiting[i].field = c
  BY FirstAre
<1>2. Waiting' = <<>>
  BY ViewOfNone DEF Waiting, WaitingKeys, View
<1>3. Promise!Behind(m) = <<>>
  BY <1>1, SubSeqEmpty DEF Promise!Behind
<1>4. Promise!Typed /\ Promise!Settles(c, n, m)
  BY <1>1 DEF Promise!Typed, Promise!Settles
<1>5. CASE Took(c, IdsTo(WaitingKeys, n))
  <2>1. Promise!Lose(c, n, m)
    BY <1>1, <1>2, <1>3, <1>4, <1>5 DEF Promise!Lose, Took
  <2>2. m \in n .. m
    BY <1>1
  <2> QED
    BY <1>1, <2>1, <2>2 DEF Promise!Next
<1>6. CASE Took(c, Append(IdsTo(WaitingKeys, n), typed + 1))
  <2>1. Promise!TakeEffect(c, n)
    BY <1>1, <1>2, <1>4, <1>6 DEF Promise!TakeEffect, Took
  <2> QED
    BY <1>1, <2>1 DEF Promise!Next
<1> QED
  BY <1>5, <1>6

(* A key is typed and waits, behind the others or in their place. *)
LEMMA TypedWaits ==
  ASSUME WaitingKeys \in Seq(Key), NEW c \in Context, NEW key \in Key,
         key.id = typed + 1, key.field = c,
         WaitingKeys' = Append(WaitingKeys, key) \/ WaitingKeys' = <<key>>,
         text \in [Context -> Seq(Nat)], UNCHANGED text, typed < MaxKeys, typed' = typed + 1
  PROVE  Promise!Next
<1> DEFINE entry == [id |-> typed', field |-> c]
<1>1. TypedInto(WaitingKeys, 0, c)
  BY DEF TypedInto
<1>2. /\ Promise!FirstIds(0) = <<>>
      /\ Len(Waiting) \in Nat
      /\ \A i \in 1 .. 0 : Waiting[i].field = c
  BY <1>1, FirstAre, IdsOfEnds
<1>3. Waiting = View(WaitingKeys) /\ Waiting' = View(WaitingKeys')
  BY DEF Waiting, WaitingKeys, View
<1>4. Waiting \in Seq(Entry)
  BY <1>3, ViewTyped
<1>5. PICK m \in {0, Len(Waiting)} : Waiting' = Append(Promise!Behind(m), entry)
  <2>1. CASE WaitingKeys' = Append(WaitingKeys, key)
    <3>1. Promise!Behind(0) = Waiting
      BY <1>4, SubSeqFull DEF Promise!Behind
    <3>2. Waiting' = Append(Waiting, entry)
      BY <1>3, <2>1, ViewOfAppend
    <3> QED
      BY <3>1, <3>2
  <2>2. CASE WaitingKeys' = <<key>>
    <3>1. Promise!Behind(Len(Waiting)) = <<>>
      BY <1>2, SubSeqEmpty DEF Promise!Behind
    <3>2. <<>> \in Seq(Key) /\ <<key>> = Append(<<>>, key)
      OBVIOUS
    <3>3. View(<<key>>) = Append(<<>>, [id |-> key.id, field |-> key.field])
      BY <3>2, ViewOfAppend, ViewOfNone
    <3> QED
      BY <1>3, <2>2, <3>1, <3>3
  <2> QED
    BY <2>1, <2>2
<1>6. Promise!Typed /\ Promise!Settles(c, 0, m)
  BY <1>2 DEF Promise!Typed, Promise!Settles
<1>7. text' = [text EXCEPT ![c] = @ \o Promise!FirstIds(0)]
  BY <1>2, TookNone DEF Took
<1>8. Promise!Queue(c, 0, m)
  BY <1>5, <1>6, <1>7 DEF Promise!Queue
<1>9. 0 \in 0 .. Len(Waiting) /\ m \in 0 .. Len(Waiting)
  BY <1>2
<1> QED
  BY <1>8, <1>9 DEF Promise!Next

------------------------------------------------------------------------------
(***************************************************************************)
(* The keys that the results of a call name: all of its keys or none, and, *)
(* if the host takes the caret with the text, none if the call failed or   *)
(* did not eat the key.                                                    *)
(***************************************************************************)
Takes(S, ids) ==
  \A r \in S : /\ r.ids \in {<<>>, ids}
               /\ ~CaretMayFail /\ (r.failed \/ ~r.eaten) => r.ids = <<>>
               /\ ~(r.failed /\ r.eaten)

(* ApplyCompositionEdit inserts the text of its keys or does nothing. *)
LEMMA EditTakes ==
  ASSUME NEW t, NEW c, NEW ids
  PROVE  Takes(ApplyCompositionEdit(t, c, ids), ids)
<1> SUFFICES ASSUME NEW r \in ApplyCompositionEdit(t, c, ids)
             PROVE  /\ r.ids \in {<<>>, ids}
                    /\ ~CaretMayFail /\ (r.failed \/ ~r.eaten) => r.ids = <<>>
                    /\ ~(r.failed /\ r.eaten)
  BY Zenon DEF Takes
<1>1. \E u :
        \/ r = Result(u, FALSE, TRUE, <<>>)
        \/ CaretMayFail /\ r = Result(u, FALSE, TRUE, ids)
        \/ r = Result(u, TRUE, FALSE, ids)
  BY Zenon DEF ApplyCompositionEdit
<1>2. PICK u : \/ r = Result(u, FALSE, TRUE, <<>>)
               \/ CaretMayFail /\ r = Result(u, FALSE, TRUE, ids)
               \/ r = Result(u, TRUE, FALSE, ids)
  BY <1>1
<1> QED
  BY <1>2 DEF Result

(* ApplyKeyResponse: the key takes effect if the answer is consumed and    *)
(* its edit succeeds.                                                      *)
LEMMA ConsumedTakes ==
  ASSUME NEW t, NEW c, NEW kind, NEW ids, NEW preedit
  PROVE  Takes(Consumed(t, c, kind, ids, preedit), ids)
<1> DEFINE committed == IF kind = "space" /\ ~preedit THEN ids ELSE <<>>
           edited == ApplyCompositionEdit(t, c, committed)
<1>1. Takes(edited, committed)
  BY EditTakes
<1> HIDE DEF edited
<1> SUFFICES ASSUME NEW r \in edited
             PROVE  Takes({IF r.failed THEN Result(AbandonSession(r.tip), FALSE, FALSE, r.ids)
                           ELSE Result([r.tip EXCEPT !.composing = preedit], TRUE, FALSE, ids)},
                          ids)
  BY DEF Consumed, Takes, edited
<1>2. r.ids \in {<<>>, committed} /\ (~CaretMayFail /\ r.failed => r.ids = <<>>)
  BY <1>1 DEF Takes
<1>3. CASE r.failed
  BY <1>2, <1>3 DEF Takes, Result
<1>4. CASE ~r.failed
  BY <1>4 DEF Takes, Result
<1> QED
  BY <1>3, <1>4

LEMMA KeyResponseTakes ==
  ASSUME NEW t, NEW c, NEW kind, NEW ids
  PROVE  Takes(ApplyKeyResponse(t, c, kind, ids), ids)
<1>1. \A preedit : Takes(Consumed(t, c, kind, ids, preedit), ids)
  BY ConsumedTakes
<1>2. \A u : Takes({Result(u, FALSE, FALSE, <<>>)}, ids)
  BY DEF Takes, Result
<1> SUFFICES ASSUME NEW answer \in Answers(t)
             PROVE  Takes(CASE answer = "consumed" ->
                         UNION {Consumed(t, c, kind, ids, preedit) : preedit \in PreeditAfter(kind)}
                    [] answer = "declined" -> {Result(t, FALSE, FALSE, <<>>)}
                    [] OTHER -> {Result(AbandonSession(t), FALSE, FALSE, <<>>)}, ids)
  BY Zenon DEF ApplyKeyResponse, Takes
<1>3. CASE answer = "consumed"
  BY <1>1, <1>3, Zenon DEF Takes
<1>4. CASE answer = "declined"
  BY <1>2, <1>4
<1>5. CASE answer # "consumed" /\ answer # "declined"
  BY <1>2, <1>5
<1> QED
  BY <1>3, <1>4, <1>5

(* Punctuation: the selection it makes first names no key. *)
LEMMA PunctuateTakes ==
  ASSUME NEW t, NEW c, NEW id
  PROVE  Takes(Punctuate(t, c, id), <<id>>)
<1> DEFINE first == SelectBeforeMark(t, c)
<1>1. Takes(first, <<>>)
  BY KeyResponseTakes DEF SelectBeforeMark
<1> HIDE DEF first
<1>2. ASSUME NEW r \in first
      PROVE  Takes(IF r.eaten THEN CommitText(r.tip, c, <<id>>) ELSE {r}, <<id>>)
  <2>1. Takes(CommitText(r.tip, c, <<id>>), <<id>>)
    BY EditTakes DEF CommitText
  <2>2. Takes({r}, <<id>>)
    BY <1>1 DEF Takes
  <2> QED
    BY <2>1, <2>2
<1>3. CASE t.composing
  BY <1>2, <1>3, Zenon DEF Punctuate, Takes, first
<1>4. CASE ~t.composing
  BY <1>4, EditTakes DEF Punctuate, CommitText
<1> QED
  BY <1>3, <1>4

(* ProcessKeyDown for every kind of key. *)
LEMMA ProcessTakes ==
  ASSUME NEW t, NEW c, NEW key \in Key
  PROVE  Takes(ProcessKeyDown(t, c, key), <<key.id>>)
<1> DEFINE u == [t EXCEPT !.composing = FALSE]
           ids == <<key.id>>
<1> HIDE DEF u
<1>1. Takes(Punctuate(t, c, key.id), ids)
  BY PunctuateTakes
<1> HIDE DEF ids
<1>2. Takes({Result(t, TRUE, FALSE, ids)}, ids)
  BY DEF Takes, Result
<1>3. Takes(CommitText(u, c, ids), ids)
  BY EditTakes DEF CommitText
<1>4. Takes({Result(t, FALSE, FALSE, <<>>)}, ids)
  BY DEF Takes, Result
<1>5. Takes(ApplyKeyResponse(t, c, key.kind, ids), ids)
  BY KeyResponseTakes
<1> QED
  BY <1>1, <1>2, <1>3, <1>4, <1>5 DEF ProcessKeyDown, u, ids

(* The text of a queue is inserted whole. *)
LEMMA CommitFallbackTakes ==
  ASSUME NEW t, NEW c, NEW keys
  PROVE  Takes(CommitFallback(t, c, keys), IdsOf(keys))
<1>1. Takes(CommitText(t, c, IdsOf(keys)), IdsOf(keys))
  BY EditTakes DEF CommitText
<1>2. Takes({Result(t, FALSE, FALSE, <<>>)}, IdsOf(keys))
  BY DEF Takes, Result
<1> QED
  BY <1>1, <1>2 DEF CommitFallback

(* FallbackStartupKeys inserts a queue only where its keys were captured. *)
LEMMA FallbackTakes ==
  ASSUME NEW t, Good(t), NEW c \in Context, NEW gen,
         scope \in [Context -> Privacy], NEW r \in FallbackStartupKeys(t, c, gen)
  PROVE  /\ r.ids \in {<<>>, IdsOf(t.queue.keys)}
         /\ r.ids # <<>> => TargetHolds(t, c)
<1> DEFINE open == [t EXCEPT !.scheduled = FALSE]
           a == AllowKeyInContext(open, c)
           k == CancelStartupReplay(a)
<1>1. Good(open) /\ open.queue = t.queue
  BY OpenGood DEF Good, Tip
<1>2. r \in IF gen # t.queue.gen THEN {Result(t, FALSE, FALSE, <<>>)}
            ELSE IF ~TargetHolds(t, c) THEN {Result(CancelStartupReplay(open), FALSE, FALSE, <<>>)}
            ELSE IF ~Allowed(c) \/ a.queue.gen # gen THEN {Result(a, FALSE, FALSE, <<>>)}
            ELSE CommitFallback(k, c, a.queue.keys)
  BY DEF FallbackStartupKeys
<1> HIDE DEF open
<1>3. Moved(open, a) /\ Good(a)
  BY <1>1, AllowGood, AllowMoves
<1> HIDE DEF a
<1>4. a.queue.gen = t.queue.gen => a.queue = t.queue
  BY <1>1, <1>3, GenIsNat DEF Moved, Kept, Marked, Dropped
<1> HIDE DEF k
<1>5. CASE gen = t.queue.gen /\ TargetHolds(t, c) /\ a.queue.gen = gen
             /\ r \in CommitFallback(k, c, a.queue.keys)
  BY <1>4, <1>5, CommitFallbackTakes DEF Takes
<1>6. CASE r.ids = <<>>
  BY <1>6
<1> QED
  BY <1>2, <1>5, <1>6 DEF Result

(* The keys of a queue with a field were typed into that field. *)
Fielded(t) ==
  t.context # NoContext => \A i \in 1 .. Len(t.queue.keys) : t.queue.keys[i].field = t.context

(* No call of the text service moves keys from field to field. *)
LEMMA MovedFields ==
  ASSUME NEW t, NEW u, Moved(t, u), Fielded(t)
  PROVE  Fielded(u)
  BY DEF Moved, Kept, Marked, Dropped, Fielded

(* The two records show the same keys waiting for the same place. *)
Same(t, u) == u.queue = t.queue /\ u.target = t.target /\ u.context = t.context

(* ScheduleStartupReplay with its fallback keeps the keys, or drops or     *)
(* inserts all of them.                                                    *)
LEMMA ScheduleOrFallbackTakes ==
  ASSUME NEW t, Good(t), NEW c \in Context, NEW gen,
         scope \in [Context -> Privacy], NEW r \in ScheduleOrFallback(t, c, gen)
  PROVE  \/ Same(t, r.tip) /\ r.ids = <<>>
         \/ /\ r.tip.queue.keys = <<>>
            /\ r.ids \in {<<>>, IdsOf(t.queue.keys)}
            /\ r.ids # <<>> => TargetHolds(t, c)
<1>1. CASE r = Result(ScheduleStartupReplay(t), TRUE, FALSE, <<>>)
  <2>1. Same(t, ScheduleStartupReplay(t))
    BY DEF Same, ScheduleStartupReplay, Good, Tip
  <2> QED
    BY <1>1, <2>1 DEF Result
<1>2. CASE r \in FallbackStartupKeys(t, c, gen)
  <2>1. CASE gen # t.queue.gen
    BY <1>2, <2>1 DEF FallbackStartupKeys, Result, Same
  <2>2. CASE gen = t.queue.gen
    BY <1>2, <2>2, FallbackDrops, FallbackTakes DEF Dropped
  <2> QED
    BY <2>1, <2>2
<1> QED
  BY <1>1, <1>2 DEF ScheduleOrFallback

(* QueueStartupKey: the key waits behind the queue, or the queue is gone   *)
(* and the key did not overtake it.                                        *)
LEMMA QueueTakes ==
  ASSUME NEW t, Good(t), NEW c \in Context, NEW key \in Key,
         scope \in [Context -> Privacy], NEW r \in QueueStartupKey(t, c, key)
  PROVE  /\ ~r.failed
         /\ \/ /\ r.ids = <<>> /\ r.eaten
               /\ r.tip.queue.keys = Append(t.queue.keys, key)
               /\ r.tip.context = c
               /\ r.tip.target = IF t.queue.keys = <<>> THEN "held" ELSE t.target
               /\ t.queue.keys = <<>> \/ t.context = c
            \/ /\ r.tip.queue.keys = <<>>
               /\ r.ids \in {<<>>, IdsOf(t.queue.keys)}
               /\ r.ids # <<>> => TargetHolds(t, c)
            \/ /\ r.tip.queue.keys = <<>> /\ r.eaten
               /\ r.ids = Append(IdsOf(t.queue.keys), key.id)
               /\ t.queue.keys = <<>> \/ TargetHolds(t, c)
<1> DEFINE first == t.queue.keys = <<>>
           w == [t EXCEPT !.context = c, !.clock = "running", !.target = "held"]
           u == IF first THEN w ELSE t
           pushed == [u EXCEPT !.queue = Push(@, key)]
<1>1. Good(u) /\ u.queue = t.queue
        /\ (first => u.context = c /\ u.target = "held") /\ (~first => u = t)
  <2>1. Good(w) /\ w.queue = t.queue /\ w.context = c /\ w.target = "held"
    BY CaptureGood DEF Good, Tip
  <2> HIDE DEF w
  <2> QED
    BY <2>1
<1>2. r \in (IF first THEN {Result(CancelStartupReplay(u), FALSE, FALSE, <<>>)} ELSE {}) \cup
            (IF u.context # c THEN {Result(CancelStartupReplay(u), TRUE, FALSE, <<>>)}
             ELSE IF IsFull(u.queue)
             THEN {Result(q.tip, q.failed, FALSE, q.ids) :
                     q \in FallbackStartupKeys(u, c, u.queue.gen)}
             ELSE {Result(q.tip, TRUE, FALSE, q.ids) :
                     q \in ScheduleOrFallback(pushed, c, pushed.queue.gen)})
  BY Zenon DEF QueueStartupKey
<1> HIDE DEF u, pushed
<1>3. t.queue.keys \in Seq(Key) /\ IdsOf(<<>>) = <<>>
  BY DEF Good, Tip, Queue, IdsOf
<1>4. CASE r \in {Result(CancelStartupReplay(u), FALSE, FALSE, <<>>),
                  Result(CancelStartupReplay(u), TRUE, FALSE, <<>>)}
  BY <1>1, <1>4, CancelGood DEF Result
<1>5. CASE \E q \in FallbackStartupKeys(u, c, u.queue.gen) :
             r = Result(q.tip, q.failed, FALSE, q.ids)
  <2>1. PICK q \in FallbackStartupKeys(u, c, u.queue.gen) :
          r = Result(q.tip, q.failed, FALSE, q.ids)
    BY <1>5
  <2>2. q.tip.queue.keys = <<>>
    BY <1>1, FallbackDrops DEF Dropped
  <2>3. q.ids \in {<<>>, IdsOf(t.queue.keys)} /\ (q.ids # <<>> => TargetHolds(u, c))
    BY <1>1, FallbackTakes
  <2>4. q.ids # <<>> => TargetHolds(t, c)
    BY <1>1, <1>3, <2>3
  <2> QED
    BY <2>1, <2>2, <2>3, <2>4 DEF Result
<1>6. CASE u.context = c /\ ~IsFull(u.queue)
             /\ \E q \in ScheduleOrFallback(pushed, c, pushed.queue.gen) :
                  r = Result(q.tip, TRUE, FALSE, q.ids)
  <2>1. PICK q \in ScheduleOrFallback(pushed, c, pushed.queue.gen) :
          r = Result(q.tip, TRUE, FALSE, q.ids)
    BY <1>6
  <2>2. Good(pushed)
    BY <1>1, <1>6, PushGood DEF pushed
  <2>3. /\ pushed.queue = Push(u.queue, key)
        /\ pushed.context = c
        /\ pushed.target = u.target
    BY <1>1, <1>6 DEF pushed, Good, Tip
  <2>4. pushed.queue.keys = Append(t.queue.keys, key)
    BY <1>1, <2>3 DEF Push, Good, Tip, Queue
  <2>5. IdsOf(pushed.queue.keys) = Append(IdsOf(t.queue.keys), key.id)
    BY <1>3, <2>4, IdsOfAppend
  <2>6. TargetHolds(pushed, c) => first \/ TargetHolds(t, c)
    BY <1>1, <1>6, <2>3 DEF TargetHolds
  <2>7. \/ Same(pushed, q.tip) /\ q.ids = <<>>
        \/ /\ q.tip.queue.keys = <<>>
           /\ q.ids \in {<<>>, IdsOf(pushed.queue.keys)}
           /\ q.ids # <<>> => TargetHolds(pushed, c)
    BY <2>2, ScheduleOrFallbackTakes
  <2>8. r.ids = q.ids /\ r.tip = q.tip /\ r.eaten /\ ~r.failed
    BY <2>1 DEF Result
  <2>9. CASE Same(pushed, q.tip) /\ q.ids = <<>>
    BY <1>1, <1>6, <2>3, <2>4, <2>8, <2>9 DEF Same
  <2>10. CASE /\ q.tip.queue.keys = <<>>
              /\ q.ids \in {<<>>, IdsOf(pushed.queue.keys)}
              /\ q.ids # <<>> => TargetHolds(pushed, c)
    BY <2>5, <2>6, <2>8, <2>10
  <2> QED
    BY <2>7, <2>9, <2>10
<1> QED
  BY <1>2, <1>4, <1>5, <1>6

------------------------------------------------------------------------------
(***************************************************************************)
(* The inductive invariant: besides QueueInv, which says that no key is in *)
(* the queue while the loop runs, the loop's keys fit the queue they may   *)
(* be put back into and belong to the field of the loop.                   *)
(***************************************************************************)
FieldInv ==
  /\ Fielded(tip)
  /\ replay.on => /\ Len(replay.todo) <= Capacity
                  /\ \A i \in 1 .. Len(replay.todo) : replay.todo[i].field = replay.context
                  /\ tip.context \in {replay.context, NoContext}

DeliveryIInv == QueueIInv /\ FieldInv

(* The step is one of KeyDelivery. *)
Delivers == Promise!Next \/ UNCHANGED Promise!vars

(* The initial states. *)
LEMMA InitDelivery == Init => DeliveryIInv /\ Promise!Init
<1> SUFFICES ASSUME Init PROVE DeliveryIInv /\ Promise!Init
  OBVIOUS
<1>1. tip.queue.keys = <<>> /\ tip.target = "none" /\ ~replay.on
  BY DEF Init, NewQueue, Idle
<1>2. Waiting = <<>>
  BY <1>1 DEF Waiting
<1>3. Promise!Init
  BY <1>2 DEF Init, Promise!Init
<1> QED
  BY <1>1, <1>3, InitQueueInv DEF DeliveryIInv, FieldInv, Fielded

(* What the invariant says of the types. *)
LEMMA DeliveryTypes ==
  ASSUME DeliveryIInv
  PROVE  /\ Good(tip) /\ Fielded(tip)
         /\ WaitingKeys \in Seq(Key)
         /\ focus \in Context /\ scope \in [Context -> Privacy]
         /\ text \in [Context -> Seq(Nat)]
         /\ IInv /\ QueueIInv
         /\ replay.on => tip.queue.keys = <<>>
<1>1. tip.queue.keys \in Seq(Key) /\ replay.todo \in Seq(Key) /\ <<>> \in Seq(Key)
  BY DEF DeliveryIInv, QueueIInv, IInv, World, Good, Tip, Queue, Replay
<1>2. WaitingKeys \in Seq(Key)
  BY <1>1 DEF WaitingKeys
<1> QED
  BY <1>2 DEF DeliveryIInv, QueueIInv, QueueInv, InReplay, FieldInv, IInv, World

(* All keys are lost, or none is touched. *)
LEMMA NoneSettle ==
  ASSUME DeliveryIInv, UNCHANGED <<text, typed>>,
         WaitingKeys' = <<>> \/ WaitingKeys' = WaitingKeys
  PROVE  Delivers
<1>1. CASE WaitingKeys' = <<>>
  <2>1. TypedInto(WaitingKeys, 0, focus) /\ IdsTo(WaitingKeys, 0) = <<>>
    BY DeliveryTypes, IdsOfEnds DEF TypedInto
  <2>2. Took(focus, <<>>)
    BY DeliveryTypes, TookNone
  <2> QED
    BY <1>1, <2>1, <2>2, DeliveryTypes, AllSettle DEF Delivers
<1>2. CASE WaitingKeys' = WaitingKeys
  BY <1>2, StaysPut DEF Delivers
<1> QED
  BY <1>1, <1>2

(* The keys of a queue that is inserted are those that wait. *)
LEMMA QueueSettles ==
  ASSUME DeliveryIInv, ~replay.on, NEW c \in Context, NEW ids,
         ids \in {<<>>, IdsOf(tip.queue.keys)},
         tip.queue.keys = <<>> \/ ids = <<>> \/ TargetHolds(tip, c)
  PROVE  \E n : TypedInto(WaitingKeys, n, c) /\ ids = IdsTo(WaitingKeys, n)
<1>1. Good(tip) /\ Fielded(tip) /\ WaitingKeys \in Seq(Key)
  BY DeliveryTypes
<1>2. tip.queue.keys \in Seq(Key)
  BY <1>1 DEF Good, Tip, Queue
<1>3. CASE ids = <<>>
  <2>1. TypedInto(WaitingKeys, 0, c) /\ IdsTo(WaitingKeys, 0) = <<>>
    BY <1>1, IdsOfEnds DEF TypedInto
  <2> QED
    BY <1>3, <2>1
<1>4. CASE ids # <<>>
  <2>1. tip.queue.keys # <<>>
    BY <1>4 DEF IdsOf
  <2>2. TargetHolds(tip, c) /\ ids = IdsOf(tip.queue.keys)
    BY <1>4, <2>1
  <2>3. WaitingKeys = tip.queue.keys
    BY <2>2 DEF WaitingKeys, TargetHolds
  <2>4. tip.context = c /\ c # NoContext
    BY <2>2, TextServiceAssumption DEF TargetHolds
  <2>5. TypedInto(WaitingKeys, Len(WaitingKeys), c)
    BY <1>1, <1>2, <2>3, <2>4 DEF TypedInto, Fielded
  <2>6. ids = IdsTo(WaitingKeys, Len(WaitingKeys))
    BY <1>2, <2>2, <2>3, IdsOfEnds
  <2> QED
    BY <2>5, <2>6
<1> QED
  BY <1>3, <1>4

------------------------------------------------------------------------------
(***************************************************************************)
(* The actions.                                                            *)
(***************************************************************************)
(* A key the user types while nobody waits for it to be queued. *)
LEMMA TypedAndGone ==
  ASSUME DeliveryIInv, Typing, WaitingKeys' = <<>>,
         Took(focus, <<>>) \/ Took(focus, <<typed + 1>>)
  PROVE  Delivers
<1>1. TypedInto(WaitingKeys, 0, focus) /\ IdsTo(WaitingKeys, 0) = <<>>
  BY DeliveryTypes, IdsOfEnds DEF TypedInto
<1>2. Append(<<>>, typed + 1) = <<typed + 1>>
  OBVIOUS
<1> QED
  BY <1>1, <1>2, DeliveryTypes, TypedSettles DEF Delivers, Typing

(* The key of a QueueStartupKey behind the keys of t, which are those of tip or none. *)
LEMMA QueueDelivers ==
  ASSUME ~CaretMayFail, DeliveryIInv, Typing, NEW kind \in Kind,
         NEW t, Good(t), Fielded(t), Same(tip, t) \/ t.queue.keys = <<>>,
         NEW r \in QueueStartupKey(t, focus, TypedKey(kind)), KeyEdit(r, typed + 1)
  PROVE  Delivers /\ Fielded(tip')
<1> DEFINE key == TypedKey(kind)
           c == focus
<1>1. /\ key \in Key /\ key.id = typed + 1 /\ key.field = c /\ c \in Context
      /\ ~replay.on /\ ~replay'.on
      /\ typed < MaxKeys /\ typed' = typed + 1
      /\ c # NoContext
  BY DeliveryTypes, TypedKeyIsKey, TextServiceAssumption DEF TypedKey, Typing
<1>2. /\ ~r.failed
      /\ \/ /\ r.ids = <<>> /\ r.eaten
            /\ r.tip.queue.keys = Append(t.queue.keys, key)
            /\ r.tip.context = c
            /\ r.tip.target = IF t.queue.keys = <<>> THEN "held" ELSE t.target
            /\ t.queue.keys = <<>> \/ t.context = c
         \/ /\ r.tip.queue.keys = <<>>
            /\ r.ids \in {<<>>, IdsOf(t.queue.keys)}
            /\ r.ids # <<>> => TargetHolds(t, c)
         \/ /\ r.tip.queue.keys = <<>> /\ r.eaten
            /\ r.ids = Append(IdsOf(t.queue.keys), key.id)
            /\ t.queue.keys = <<>> \/ TargetHolds(t, c)
  BY <1>1, DeliveryTypes, QueueTakes
<1> HIDE DEF key
<1>3. tip' = r.tip /\ Took(c, IF ~r.eaten THEN Append(r.ids, typed + 1) ELSE r.ids)
  BY <1>2 DEF KeyEdit
<1>4. /\ WaitingKeys' = IF r.tip.target = "held" THEN r.tip.queue.keys ELSE <<>>
      /\ WaitingKeys = IF tip.target = "held" THEN tip.queue.keys ELSE <<>>
      /\ WaitingKeys \in Seq(Key) /\ text \in [Context -> Seq(Nat)]
  BY <1>1, <1>3, DeliveryTypes DEF WaitingKeys
<1>5. t.queue.keys \in Seq(Key) /\ IdsOf(<<>>) = <<>>
  BY DEF Good, Tip, Queue, IdsOf
<1>6. TargetHolds(t, c) /\ t.queue.keys # <<>> => TargetHolds(tip, c)
  BY DEF Same, TargetHolds
<1>7. ASSUME NEW ids, ids \in {<<>>, IdsOf(t.queue.keys)},
             t.queue.keys = <<>> \/ ids = <<>> \/ TargetHolds(t, c)
      PROVE  \E n : TypedInto(WaitingKeys, n, c) /\ ids = IdsTo(WaitingKeys, n)
  <2>1. CASE t.queue.keys = <<>> \/ ids = <<>>
    <3>1. ids = <<>>
      BY <1>5, <1>7, <2>1
    <3> QED
      BY <1>1, <3>1, QueueSettles
  <2>2. CASE t.queue.keys # <<>> /\ TargetHolds(t, c)
    BY <1>1, <1>6, <1>7, <2>2, QueueSettles DEF Same
  <2> QED
    BY <1>7, <2>1, <2>2
<1>8. CASE /\ r.ids = <<>> /\ r.eaten
           /\ r.tip.queue.keys = Append(t.queue.keys, key)
           /\ r.tip.context = c
           /\ r.tip.target = IF t.queue.keys = <<>> THEN "held" ELSE t.target
           /\ t.queue.keys = <<>> \/ t.context = c
  <2>1. Took(c, <<>>) /\ UNCHANGED text
    BY <1>1, <1>3, <1>4, <1>8, TookNone
  <2>2. Fielded(tip')
    <3>1. \A i \in 1 .. Len(t.queue.keys) : t.queue.keys[i].field = c
      BY <1>1, <1>5, <1>8 DEF Fielded
    <3>2. /\ Len(r.tip.queue.keys) = Len(t.queue.keys) + 1
          /\ r.tip.queue.keys[Len(t.queue.keys) + 1] = key
          /\ \A i \in 1 .. Len(t.queue.keys) : r.tip.queue.keys[i] = t.queue.keys[i]
      BY <1>1, <1>5, <1>8, AppendProperties
    <3>3. \A i \in 1 .. Len(t.queue.keys) + 1 :
            i \in 1 .. Len(t.queue.keys) \/ i = Len(t.queue.keys) + 1
      BY <1>5
    <3>4. \A i \in 1 .. Len(r.tip.queue.keys) : r.tip.queue.keys[i].field = c
      BY <1>1, <3>1, <3>2, <3>3
    <3> QED
      BY <1>3, <1>8, <3>4 DEF Fielded
  <2>3. CASE t.queue.keys = <<>>
    <3>1. WaitingKeys' = <<key>>
      BY <1>4, <1>8, <2>3
    <3> QED
      BY <1>1, <1>4, <2>1, <2>2, <3>1, TypedWaits DEF Delivers
  <2>4. CASE t.queue.keys # <<>>
    <3>1. Same(tip, t)
      BY <2>4
    <3>2. CASE tip.target = "held"
      <4>1. WaitingKeys' = Append(WaitingKeys, key)
        BY <1>4, <1>8, <2>4, <3>1, <3>2 DEF Same
      <4> QED
        BY <1>1, <1>4, <2>1, <2>2, <4>1, TypedWaits DEF Delivers
    <3>3. CASE tip.target # "held"
      <4>1. WaitingKeys' = <<>>
        BY <1>4, <1>8, <2>4, <3>1, <3>3 DEF Same
      <4> QED
        BY <2>1, <2>2, <4>1, TypedAndGone
    <3> QED
      BY <3>2, <3>3
  <2> QED
    BY <2>3, <2>4
<1>9. ASSUME r.tip.queue.keys = <<>>
      PROVE  WaitingKeys' = <<>> /\ Fielded(tip')
  BY <1>3, <1>4, <1>9 DEF Fielded
<1>10. CASE /\ r.tip.queue.keys = <<>>
            /\ r.ids \in {<<>>, IdsOf(t.queue.keys)}
            /\ r.ids # <<>> => TargetHolds(t, c)
  <2>1. PICK n : TypedInto(WaitingKeys, n, c) /\ r.ids = IdsTo(WaitingKeys, n)
    BY <1>7, <1>10
  <2>2. Promise!Next
    BY <1>1, <1>3, <1>4, <1>9, <1>10, <2>1, TypedSettles
  <2> QED
    BY <1>9, <1>10, <2>2 DEF Delivers
<1>11. CASE /\ r.tip.queue.keys = <<>> /\ r.eaten
            /\ r.ids = Append(IdsOf(t.queue.keys), key.id)
            /\ t.queue.keys = <<>> \/ TargetHolds(t, c)
  <2>1. PICK n : TypedInto(WaitingKeys, n, c) /\ IdsOf(t.queue.keys) = IdsTo(WaitingKeys, n)
    BY <1>7, <1>11
  <2>2. Took(c, Append(IdsTo(WaitingKeys, n), typed + 1))
    BY <1>1, <1>3, <1>11, <2>1
  <2>3. Promise!Next
    BY <1>1, <1>4, <1>9, <1>11, <2>1, <2>2, TypedSettles
  <2> QED
    BY <1>9, <1>11, <2>3 DEF Delivers
<1> QED
  BY <1>2, <1>8, <1>10, <1>11

(* OnTestKeyDown, OnKeyDown and HandleKeyDown. *)
LEMMA KeyDelivers ==
  ASSUME ~CaretMayFail, DeliveryIInv, IInv', NEW kind \in Kind,
         HostKey(kind) \/ KeyDenied(kind) \/ KeyBypassed(kind) \/ CancelKey(kind)
           \/ KeyBehindQueue(kind) \/ KeyToEngine(kind)
  PROVE  Delivers /\ FieldInv'
<1> DEFINE a == AllowKeyInContext(tip, focus)
<1>1. /\ Good(tip) /\ Fielded(tip) /\ focus \in Context /\ scope \in [Context -> Privacy]
      /\ Good(tip') /\ IInv /\ text \in [Context -> Seq(Nat)]
  BY DeliveryTypes DEF IInv
<1>2. Typing
  BY DEF HostKey, KeyDenied, KeyBypassed, CancelKey, KeyBehindQueue, KeyToEngine, KeyAllowed
<1>3. ~replay.on /\ ~replay'.on
  BY <1>2 DEF Typing
<1>4. Fielded(tip') => FieldInv'
  BY <1>3 DEF FieldInv, Fielded
<1>5. tip'.queue.keys = <<>> => WaitingKeys' = <<>> /\ Fielded(tip')
  BY <1>3 DEF WaitingKeys, Fielded
<1>6. Good(a) /\ Moved(tip, a) /\ Fielded(a)
  BY <1>1, AllowGood, AllowMoves, MovedFields
<1> HIDE DEF a
<1>7. CASE HostKey(kind)
  <2>1. /\ tip'.queue = tip.queue
        /\ tip'.context = tip.context
        /\ tip'.target # "held"
    BY <1>1, <1>7 DEF HostKey, Good, Tip
  <2>2. WaitingKeys' = <<>>
    BY <1>3, <2>1 DEF WaitingKeys
  <2>3. Fielded(tip')
    BY <1>1, <2>1 DEF Fielded
  <2>4. Took(focus, <<typed + 1>>)
    BY <1>7 DEF HostKey
  <2> QED
    BY <1>2, <1>4, <2>2, <2>3, <2>4, TypedAndGone
<1>8. CASE KeyDenied(kind)
  <2>1. tip'.queue.keys = <<>> /\ Took(focus, <<typed + 1>>)
    BY <1>1, <1>8, AbandonDrops DEF KeyDenied, Dropped
  <2> QED
    BY <1>2, <1>4, <1>5, <2>1, TypedAndGone
<1>9. CASE CancelKey(kind)
  <2>1. tip'.queue.keys = <<>> /\ UNCHANGED text
    BY <1>6, <1>9, CancelGood DEF CancelKey, a
  <2>2. Took(focus, <<>>)
    BY <1>1, <2>1, TookNone
  <2> QED
    BY <1>2, <1>4, <1>5, <2>1, <2>2, TypedAndGone
<1>10. CASE KeyBehindQueue(kind)
  <2>1. PICK r \in QueueStartupKey(a, focus, TypedKey(kind)) : KeyEdit(r, typed + 1)
    BY <1>10 DEF KeyBehindQueue, a
  <2>2. a.queue.keys # <<>>
    BY <1>10 DEF KeyBehindQueue, a
  <2>3. Same(tip, a)
    BY <1>6, <2>2 DEF Moved, Kept, Marked, Dropped, Same
  <2>4. Delivers /\ Fielded(tip')
    BY <1>2, <1>6, <2>1, <2>3, QueueDelivers
  <2> QED
    BY <1>4, <2>4
<1>11. CASE KeyToEngine(kind)
  <2>1. PICK s \in SessionForKey(a, kind) :
          \E r \in IF s.ok THEN ProcessKeyDown(s.tip, focus, TypedKey(kind))
                   ELSE QueueStartupKey(s.tip, focus, TypedKey(kind)) :
            KeyEdit(r, typed + 1)
    BY <1>11 DEF KeyToEngine, a
  <2>2. a.keyContext # NoContext
    BY <1>1, <1>11, AllowGood, TextServiceAssumption
    DEF KeyToEngine, KeyAllowed, Entered, a
  <2>3. Good(s.tip) /\ Kept(a, s.tip)
    BY <1>6, <2>2, SessionForKeyGood, EnsureKeeps, StaysMoved DEF SessionForKey
  <2>4. s.tip.queue.keys = <<>>
    BY <1>11, <2>3 DEF KeyToEngine, Kept, Marked, a
  <2>5. TypedKey(kind) \in Key
    BY <1>1, TypedKeyIsKey
  <2>6. CASE \E r \in ProcessKeyDown(s.tip, focus, TypedKey(kind)) : KeyEdit(r, typed + 1)
    <3>1. PICK r \in ProcessKeyDown(s.tip, focus, TypedKey(kind)) : KeyEdit(r, typed + 1)
      BY <2>6
    <3>2. Good(r.tip) /\ Moved(s.tip, r.tip)
      BY <2>3, <2>5, ProcessGood, ProcessMoves DEF GoodResults, MovedResults
    <3>3. r.tip.queue.keys = <<>>
      BY <2>4, <3>2 DEF Moved, Kept, Marked, Dropped
    <3>4. tip'.queue.keys = <<>>
      BY <3>1, <3>2, <3>3, AbandonDrops DEF KeyEdit, Dropped
    <3>5. TypedKey(kind).id = typed + 1
      BY DEF TypedKey
    <3>6. /\ r.ids \in {<<>>, <<typed + 1>>}
          /\ r.failed \/ ~r.eaten => r.ids = <<>>
      BY <2>5, <3>5, ProcessTakes DEF Takes
    <3>7. Append(<<>>, typed + 1) = <<typed + 1>>
      OBVIOUS
    <3>8. Took(focus, <<>>) \/ Took(focus, <<typed + 1>>)
      BY <3>1, <3>6, <3>7 DEF KeyEdit
    <3> QED
      BY <1>2, <1>4, <1>5, <3>4, <3>8, TypedAndGone
  <2>7. CASE \E r \in QueueStartupKey(s.tip, focus, TypedKey(kind)) : KeyEdit(r, typed + 1)
    <3>1. Fielded(s.tip)
      BY <2>4 DEF Fielded
    <3>2. Delivers /\ Fielded(tip')
      BY <1>2, <2>3, <2>4, <2>7, <3>1, QueueDelivers
    <3> QED
      BY <1>4, <3>2
  <2> QED
    BY <2>1, <2>6, <2>7
<1>12. CASE KeyBypassed(kind)
  <2>1. /\ tip' = a /\ Took(focus, <<typed + 1>>)
        /\ tip.chinese
        /\ ~a.chinese \/ a.queue.keys = <<>>
    BY <1>12 DEF KeyBypassed, ShouldHandleKey, a
  <2>2. a.queue.keys = <<>>
    BY <1>6, <2>1 DEF Moved, Kept, Marked, Dropped
  <2> QED
    BY <1>2, <1>4, <1>5, <2>1, <2>2, TypedAndGone
<1> QED
  BY <1>7, <1>8, <1>9, <1>10, <1>11, <1>12

(* A step outside the loop, with nothing typed and no text inserted, that  *)
(* keeps the queue as it is or drops it.                                   *)
LEMMA RestDelivers ==
  ASSUME DeliveryIInv, ~replay.on, UNCHANGED <<replay, text, typed>>,
         Same(tip, tip') \/ tip'.queue.keys = <<>>
  PROVE  Delivers /\ FieldInv'
<1>1. Fielded(tip') => FieldInv'
  BY DEF FieldInv, Fielded
<1>2. Fielded(tip)
  BY DeliveryTypes
<1>3. WaitingKeys' = <<>> \/ WaitingKeys' = WaitingKeys
  BY DEF WaitingKeys, Same
<1>4. Fielded(tip')
  BY <1>2 DEF Fielded, Same
<1> QED
  BY <1>1, <1>3, <1>4, NoneSettle

(* OnStartupTimer on each of its ways out. *)
LEMMA TimerDelivers ==
  ASSUME DeliveryIInv, TimerCancels \/ TimerFallsBack \/ TimerReplays
  PROVE  Delivers /\ FieldInv'
<1>1. Good(tip)
  BY DeliveryTypes
<1>2. OnTimer
  BY DEF TimerCancels, TimerFallsBack, TimerReplays
<1>3. ~replay.on /\ UNCHANGED <<replay, text, typed>>
  BY <1>2 DEF OnTimer
<1>4. CASE TimerCancels
  BY <1>1, <1>3, <1>4, CancelGood, RestDelivers DEF TimerCancels
<1>5. CASE TimerFallsBack
  <2> DEFINE u == [tip EXCEPT !.launched = FALSE]
  <2>1. /\ u \in Tip /\ Same(tip, u)
        /\ u.session = tip.session
        /\ u.restricted = tip.restricted
        /\ u.home = tip.home
        /\ u.keyContext = tip.keyContext
        /\ u.keyPrivacy = tip.keyPrivacy
    BY <1>1 DEF Good, Tip, Same
  <2>2. RequestStartupEdit(u, TRUE)
    BY <1>5 DEF TimerFallsBack
  <2> HIDE DEF u
  <2>3. Good(u)
    BY <1>1, <2>1, SameSession DEF Good, Same
  <2>4. CASE tip' = [u EXCEPT !.timer = FALSE, !.scheduled = TRUE]
    <3>1. Same(u, tip')
      BY <2>1, <2>4 DEF Tip, Same
    <3>2. Same(tip, tip')
      BY <2>1, <3>1 DEF Same
    <3> QED
      BY <1>3, <3>2, RestDelivers
  <2>5. CASE tip' = CancelStartupReplay(u)
    BY <1>3, <2>3, <2>5, CancelGood, RestDelivers
  <2> QED
    BY <2>2, <2>4, <2>5 DEF RequestStartupEdit
<1>6. CASE TimerReplays
  <2>1. RequestStartupEdit(tip, FALSE)
    BY <1>6 DEF TimerReplays
  <2>2. CASE tip' = [tip EXCEPT !.timer = FALSE, !.scheduled = TRUE]
    <3>1. Same(tip, tip')
      BY <1>1, <2>2 DEF Good, Tip, Same
    <3> QED
      BY <1>3, <3>1, RestDelivers
  <2>3. CASE tip' = CancelStartupReplay(tip)
    BY <1>1, <1>3, <2>3, CancelGood, RestDelivers
  <2> QED
    BY <2>1, <2>2, <2>3 DEF RequestStartupEdit
<1> QED
  BY <1>4, <1>5, <1>6

(* The edits TSF grants. *)
LEMMA GrantDelivers ==
  ASSUME ~CaretMayFail, DeliveryIInv, IInv', NEW e \in edits,
         GrantFallback(e) \/ ReplayRefused(e) \/ ReplayWaits(e) \/ ReplayStarts(e)
  PROVE  Delivers /\ FieldInv'
<1> DEFINE open == [tip EXCEPT !.scheduled = FALSE]
           a == Opened(e)
<1>1. /\ Good(tip) /\ Fielded(tip) /\ WaitingKeys \in Seq(Key)
      /\ scope \in [Context -> Privacy] /\ text \in [Context -> Seq(Nat)]
  BY DeliveryTypes
<1>2. e.context \in Context /\ e.context # NoContext
  BY DeliveryTypes, TextServiceAssumption DEF IInv, World, Edit
<1>3. ~replay.on /\ typed' = typed
  BY DEF GrantFallback, ReplayRefused, ReplayWaits, ReplayStarts, Granting
<1>4. Good(open) /\ Same(tip, open) /\ a = AllowKeyInContext(open, e.context)
  BY <1>1, OpenGood DEF Opened, Good, Tip, Same
<1> HIDE DEF open
<1>5. Good(a) /\ Moved(open, a) /\ (~Allowed(e.context) => Dropped(open, a))
  BY <1>2, <1>1, <1>4, AllowGood, AllowMoves
<1>6. Allowed(e.context) => a.keyContext # NoContext
  BY <1>1, <1>2, <1>4, AllowGood DEF Entered
<1>7. Same(open, a) => Same(tip, a)
  BY <1>4 DEF Same
<1>8. a.queue.gen = tip.queue.gen => Same(tip, a)
  BY <1>4, <1>5, <1>7, GenIsNat DEF Moved, Kept, Marked, Dropped, Same
<1> HIDE DEF a
<1>9. ASSUME NEW t, NEW r, Same(tip, t), tip' = r.tip, Took(e.context, r.ids), UNCHANGED replay,
             \/ Same(t, r.tip) /\ r.ids = <<>>
             \/ /\ r.tip.queue.keys = <<>>
                /\ r.ids \in {<<>>, IdsOf(t.queue.keys)}
                /\ r.ids # <<>> => TargetHolds(t, e.context)
      PROVE  Delivers /\ FieldInv'
  <2>1. CASE Same(t, r.tip) /\ r.ids = <<>>
    <3>1. Same(tip, tip') /\ UNCHANGED text
      BY <1>1, <1>2, <1>9, <2>1, TookNone DEF Same
    <3> QED
      BY <1>3, <1>9, <3>1, RestDelivers
  <2>2. CASE /\ r.tip.queue.keys = <<>>
             /\ r.ids \in {<<>>, IdsOf(t.queue.keys)}
             /\ r.ids # <<>> => TargetHolds(t, e.context)
    <3>1. WaitingKeys' = <<>> /\ FieldInv'
      BY <1>3, <1>9, <2>2 DEF WaitingKeys, FieldInv, Fielded
    <3>2. r.ids \in {<<>>, IdsOf(tip.queue.keys)}
            /\ (r.ids = <<>> \/ TargetHolds(tip, e.context))
      BY <1>9, <2>2 DEF Same, TargetHolds
    <3>3. PICK n : TypedInto(WaitingKeys, n, e.context) /\ r.ids = IdsTo(WaitingKeys, n)
      BY <1>2, <1>3, <3>2, QueueSettles
    <3> QED
      BY <1>1, <1>2, <1>3, <1>9, <3>1, <3>3, AllSettle DEF Delivers
  <2> QED
    BY <1>9, <2>1, <2>2
<1>10. CASE GrantFallback(e)
  <2>1. PICK r \in FallbackStartupKeys(tip, e.context, e.gen) :
          tip' = r.tip /\ Took(e.context, r.ids)
    BY <1>10 DEF GrantFallback
  <2>2. UNCHANGED replay /\ Same(tip, tip)
    BY <1>10 DEF GrantFallback, Same
  <2>3. CASE e.gen = tip.queue.gen
    <3>1. r.tip.queue.keys = <<>>
      <4>1. Dropped(tip, r.tip)
        BY <1>1, <1>2, <2>3, FallbackDrops
      <4> QED
        BY <4>1 DEF Dropped
    <3>2. /\ r.ids \in {<<>>, IdsOf(tip.queue.keys)}
          /\ r.ids # <<>> => TargetHolds(tip, e.context)
      BY <1>1, <1>2, <2>1, FallbackTakes
    <3> QED
      BY <1>9, <2>1, <2>2, <3>1, <3>2
  <2>4. CASE e.gen # tip.queue.gen
    <3>1. Same(tip, r.tip) /\ r.ids = <<>>
      BY <2>1, <2>4 DEF FallbackStartupKeys, Result, Same
    <3> QED
      BY <1>9, <2>1, <2>2, <3>1
  <2> QED
    BY <2>3, <2>4
<1>11. CASE ReplayRefused(e)
  <2>1. UNCHANGED <<replay, text, typed>>
    BY <1>3, <1>11 DEF ReplayRefused
  <2>2. tip' = IF e.gen # tip.queue.gen THEN tip
               ELSE IF TargetHolds(tip, e.context) THEN a ELSE CancelStartupReplay(tip)
    BY <1>11 DEF ReplayRefused, a
  <2>3. Same(open, a) \/ a.queue.keys = <<>>
    BY <1>5 DEF Moved, Kept, Marked, Dropped, Same
  <2>4. Same(tip, tip') \/ tip'.queue.keys = <<>>
    BY <1>1, <1>7, <2>2, <2>3, CancelGood DEF Same
  <2> QED
    BY <1>3, <2>1, <2>4, RestDelivers
<1>12. ASSUME e.gen = tip.queue.gen, GateHolds(e), NEW s \in EnsureSession(a)
       PROVE  Good(s.tip) /\ Same(tip, s.tip)
  <2>1. Same(tip, a) /\ a.keyContext # NoContext
    BY <1>6, <1>8, <1>12 DEF GateHolds, a
  <2>2. Good(s.tip) /\ Kept(a, s.tip)
    BY <1>5, <1>12, <2>1, EnsureGood, EnsureKeeps
  <2> QED
    BY <2>1, <2>2 DEF Same, Kept, Marked
<1>13. CASE ReplayWaits(e)
  <2>1. PICK s \in EnsureSession(a) :
          \E r \in ScheduleOrFallback(s.tip, e.context, e.gen) :
            tip' = r.tip /\ Took(e.context, r.ids)
    BY <1>13 DEF ReplayWaits, a
  <2>2. Good(s.tip) /\ Same(tip, s.tip) /\ UNCHANGED replay
    BY <1>12, <1>13, <2>1 DEF ReplayWaits
  <2>3. PICK r \in ScheduleOrFallback(s.tip, e.context, e.gen) :
          tip' = r.tip /\ Took(e.context, r.ids)
    BY <2>1
  <2>4. \/ Same(s.tip, r.tip) /\ r.ids = <<>>
        \/ /\ r.tip.queue.keys = <<>>
           /\ r.ids \in {<<>>, IdsOf(s.tip.queue.keys)}
           /\ r.ids # <<>> => TargetHolds(s.tip, e.context)
    BY <1>1, <1>2, <2>2, ScheduleOrFallbackTakes
  <2> QED
    BY <1>9, <2>2, <2>3, <2>4
<1>14. CASE ReplayStarts(e)
  <2>1. PICK s \in EnsureSession(a) :
          /\ tip' = [s.tip EXCEPT !.queue = Taken(@)]
          /\ replay' = [on |-> TRUE, step |-> "key", gen |-> e.gen, context |-> e.context,
                        todo |-> s.tip.queue.keys, left |-> Batch]
    BY <1>14 DEF ReplayStarts, a
  <2>2. Good(s.tip) /\ Same(tip, s.tip) /\ TargetHolds(tip, e.context) /\ UNCHANGED text
    BY <1>12, <1>14, <2>1 DEF ReplayStarts, GateHolds
  <2>3. /\ replay'.on /\ replay'.todo = tip.queue.keys /\ replay'.context = e.context
        /\ tip.target = "held" /\ tip.context = e.context
    BY <2>1, <2>2 DEF Same, TargetHolds
  <2>4. WaitingKeys' = WaitingKeys
    BY <1>3, <2>3 DEF WaitingKeys
  <2>5. tip'.queue.keys = <<>> /\ tip'.context = e.context
    BY <2>1, <2>2, <2>3 DEF Good, Tip, Queue, Taken, Same
  <2>6. /\ Len(tip.queue.keys) <= Capacity
        /\ \A i \in 1 .. Len(tip.queue.keys) : tip.queue.keys[i].field = e.context
    BY <1>1, <1>2, <2>3 DEF Good, Fielded
  <2>7. FieldInv'
    BY <2>3, <2>5, <2>6 DEF FieldInv, Fielded
  <2> QED
    BY <1>3, <2>2, <2>4, <2>7, NoneSettle
<1> QED
  BY <1>10, <1>11, <1>13, <1>14

(* A step that ends the loop: the first n of its keys took effect, and the *)
(* others are lost.                                                        *)
LEMMA LoopLeaves ==
  ASSUME DeliveryIInv, replay.on, ~replay'.on, typed' = typed, tip'.queue.keys = <<>>,
         NEW n, TypedInto(replay.todo, n, replay.context),
         Took(replay.context, IdsTo(replay.todo, n))
  PROVE  Delivers /\ FieldInv'
<1>1. replay.context \in Context
  BY DEF DeliveryIInv, QueueIInv, IInv, World
<1>2. WaitingKeys = replay.todo /\ WaitingKeys' = <<>>
  BY DEF WaitingKeys
<1>3. Promise!Next
  BY <1>1, <1>2, DeliveryTypes, AllSettle
<1> QED
  BY <1>3 DEF Delivers, FieldInv, Fielded

(* A step of the loop that took its head, with effect or without. *)
LEMMA LoopAdvances ==
  ASSUME DeliveryIInv, replay.on, replay.todo # <<>>, replay' = Advance, typed' = typed,
         Moved(tip, tip'), NEW n \in {0, 1}, Took(replay.context, IdsTo(replay.todo, n))
  PROVE  Delivers /\ FieldInv'
<1> DEFINE todo == replay.todo
           rest == Tail(todo)
<1>1. /\ replay.context \in Context /\ replay \in Replay /\ tip.queue.keys = <<>>
      /\ todo \in Seq(Key) /\ Len(todo) <= Capacity
      /\ \A i \in 1 .. Len(todo) : todo[i].field = replay.context
      /\ tip.context \in {replay.context, NoContext}
  BY DeliveryTypes DEF DeliveryIInv, QueueIInv, IInv, World, FieldInv, Replay
<1>2. replay'.on /\ replay'.todo = rest /\ replay'.context = replay.context
  BY <1>1 DEF Advance, Replay
<1>3. tip'.queue.keys = <<>> /\ tip'.context \in {replay.context, NoContext}
  BY <1>1 DEF Moved, Kept, Marked, Dropped
<1>4. /\ rest \in Seq(Key) /\ Len(rest) = Len(todo) - 1 /\ Len(todo) \in Nat \ {0}
      /\ \A i \in 1 .. Len(rest) : rest[i] = todo[i + 1]
  BY <1>1, HeadTailProperties
<1> HIDE DEF rest
<1>5. Len(rest) <= Capacity
  BY <1>1, <1>4, CapacityAssumption
<1>6. \A i \in 1 .. Len(rest) : rest[i].field = replay.context
  BY <1>1, <1>4
<1>7. FieldInv'
  BY <1>2, <1>3, <1>5, <1>6 DEF FieldInv, Fielded
<1>8. WaitingKeys = todo /\ WaitingKeys' = rest
  BY <1>2 DEF WaitingKeys
<1>9. TypedInto(todo, n, replay.context)
  BY <1>1, <1>4 DEF TypedInto
<1>10. Promise!Next
  BY <1>1, <1>8, <1>9, HeadSettles DEF rest
<1> QED
  BY <1>7, <1>10 DEF Delivers

(* A step of the loop that goes on with the same keys. *)
LEMMA LoopStays ==
  ASSUME DeliveryIInv, replay.on, NEW step, replay' = At(step), typed' = typed,
         Moved(tip, tip'), Took(replay.context, <<>>)
  PROVE  Delivers /\ FieldInv'
<1>1. /\ replay.context \in Context /\ replay \in Replay /\ tip.queue.keys = <<>>
      /\ tip.context \in {replay.context, NoContext}
  BY DeliveryTypes DEF DeliveryIInv, QueueIInv, IInv, World, FieldInv, Replay
<1>2. /\ replay'.on /\ replay'.todo = replay.todo /\ replay'.context = replay.context
      /\ WaitingKeys' = WaitingKeys
  BY <1>1 DEF At, Replay, WaitingKeys
<1>3. tip'.queue.keys = <<>> /\ tip'.context \in {replay.context, NoContext}
  BY <1>1 DEF Moved, Kept, Marked, Dropped
<1>4. FieldInv'
  BY <1>2, <1>3 DEF DeliveryIInv, FieldInv, Fielded
<1>5. UNCHANGED text
  BY <1>1, DeliveryTypes, TookNone
<1> QED
  BY <1>2, <1>4, <1>5, NoneSettle

(* What the steps of the loop know of its keys. *)
LEMMA LoopHas ==
  ASSUME DeliveryIInv, Looping, replay.todo # <<>>
  PROVE  LET todo == replay.todo
             c == replay.context
             id == Head(todo).id
         IN  /\ replay.on /\ todo \in Seq(Key) /\ Head(todo) \in Key /\ c \in Context
             /\ typed' = typed /\ tip.queue.keys = <<>> /\ text \in [Context -> Seq(Nat)]
             /\ IdsTo(todo, 0) = <<>> /\ IdsTo(todo, 1) = <<id>>
             /\ IdsTo(todo, Len(todo)) = IdsOf(todo) /\ IdsOf(<<Head(todo)>>) = <<id>>
             /\ TypedInto(todo, 0, c) /\ TypedInto(todo, 1, c) /\ TypedInto(todo, Len(todo), c)
             /\ <<id>> \in Seq(Nat) /\ IdsOf(todo) \in Seq(Nat)
<1> DEFINE todo == replay.todo
           key == Head(todo)
           c == replay.context
<1>1. /\ replay.on /\ todo # <<>> /\ todo \in Seq(Key) /\ key \in Key /\ c \in Context
      /\ typed' = typed /\ tip.queue.keys = <<>> /\ text \in [Context -> Seq(Nat)]
      /\ \A i \in 1 .. Len(todo) : todo[i].field = c
  BY DeliveryTypes
  DEF Looping, DeliveryIInv, QueueIInv, IInv, World, FieldInv, Replay
<1>2. IdsTo(todo, 1) = <<key.id>>
  BY <1>1, IdsOfHead
<1>3. IdsTo(todo, 0) = <<>> /\ IdsTo(todo, Len(todo)) = IdsOf(todo)
  BY <1>1, IdsOfEnds
<1>4. Len(todo) \in Nat \ {0}
  BY <1>1
<1> HIDE DEF key, c, todo
<1>5. <<key>> \in Seq(Key) /\ Len(<<key>>) = 1 /\ <<key>> # <<>> /\ Head(<<key>>) = key
  BY <1>1
<1>6. IdsOf(<<key>>) = <<key.id>>
  BY <1>5, IdsOfEnds, IdsOfHead
<1>7. TypedInto(todo, 0, c) /\ TypedInto(todo, 1, c) /\ TypedInto(todo, Len(todo), c)
  BY <1>1, <1>4 DEF TypedInto
<1>8. key.id \in Nat
  BY <1>1 DEF Key
<1>9. <<key.id>> \in Seq(Nat)
  BY <1>8
<1>10. IdsOf(todo) \in Seq(Nat)
  BY <1>1, <1>3, <1>4, IdsToTyped
<1> QED
  BY <1>1, <1>2, <1>3, <1>6, <1>7, <1>9, <1>10 DEF key, c, todo

(* The head of the loop takes effect or not, and the loop ends, goes on     *)
(* behind it, or, if it did not, with the same keys.                       *)
LEMMA HeadDelivers ==
  ASSUME DeliveryIInv, Looping, replay.todo # <<>>, Moved(tip, tip'),
         NEW ids, ids \in {<<>>, <<Head(replay.todo).id>>}, Took(replay.context, ids),
         \/ replay' = Idle \/ replay' = Advance
         \/ ids = <<>> /\ \E step : replay' = At(step)
  PROVE  Delivers /\ FieldInv'
<1>1. /\ replay.on /\ typed' = typed
      /\ TypedInto(replay.todo, 0, replay.context) /\ TypedInto(replay.todo, 1, replay.context)
  BY LoopHas
<1>2. PICK n \in {0, 1} : ids = IdsTo(replay.todo, n)
  BY LoopHas
<1>3. tip'.queue.keys = <<>>
  BY LoopHas DEF Moved, Kept, Marked, Dropped
<1>4. CASE replay' = Idle
  <2>1. ~replay'.on /\ TypedInto(replay.todo, n, replay.context)
    BY <1>1, <1>4 DEF Idle
  <2> QED
    BY <1>1, <1>2, <1>3, <2>1, LoopLeaves
<1>5. CASE replay' = Advance
  BY <1>1, <1>2, <1>5, LoopAdvances
<1>6. CASE ids = <<>> /\ \E step : replay' = At(step)
  BY <1>1, <1>6, LoopStays
<1> QED
  BY <1>4, <1>5, <1>6

(* A key of the loop takes effect itself, or as text, or not yet. *)
LEMMA KeyOfLoopDelivers ==
  ASSUME ~CaretMayFail, DeliveryIInv, IInv', ReplayKey
  PROVE  Delivers /\ FieldInv'
<1> DEFINE key == Head(replay.todo)
           c == replay.context
<1>1. Looping /\ replay.todo # <<>> /\ key \in Key /\ IdsOf(<<key>>) = <<key.id>>
        /\ <<key.id>> \in Seq(Nat)
  BY LoopHas DEF ReplayKey, InLoop
<1>2. Moved(tip, tip')
  BY CallsMove DEF DeliveryIInv, QueueIInv
<1> HIDE DEF key
<1>3. PICK r \in FirstCall(key) :
        \/ /\ r.failed \/ r.eaten
           /\ Took(c, r.ids)
           /\ replay' = CASE r.failed -> At("tail")
                          [] ~r.failed /\ MarkFollows(key) -> At("mark")
                          [] OTHER -> Advance
        \/ /\ ~r.failed /\ ~r.eaten
           /\ \E f \in CommitFallback(r.tip, c, <<key>>) :
                /\ Took(c, r.ids \o f.ids)
                /\ replay' = IF f.failed THEN Idle ELSE Advance
  BY Zenon DEF ReplayKey, key, c
<1>4. CASE MarkFollows(key)
  <2>1. r \in SelectBeforeMark(tip, c)
    BY <1>3, <1>4 DEF FirstCall, c
  <2>2. r.ids = <<>>
    BY <2>1, KeyResponseTakes DEF SelectBeforeMark, Takes
  <2>3. CASE r.failed \/ r.eaten
    <3>1. Took(c, <<>>) /\ replay' \in {At("tail"), At("mark")}
      BY <1>3, <1>4, <2>2, <2>3
    <3> QED
      BY <1>1, <1>2, <3>1, HeadDelivers DEF c, key
  <2>4. CASE ~r.failed /\ ~r.eaten
    <3>1. PICK f \in CommitFallback(r.tip, c, <<key>>) :
            Took(c, r.ids \o f.ids) /\ replay' = IF f.failed THEN Idle ELSE Advance
      BY <1>3, <2>4
    <3>2. f.ids \in {<<>>, <<key.id>>}
      BY <1>1, CommitFallbackTakes DEF Takes
    <3>3. f.ids \in Seq(Nat)
      BY <1>1, <3>2, EmptyIds
    <3>4. Took(c, f.ids)
      BY <2>2, <3>1, <3>3, ConcatEmptySeq
    <3> QED
      BY <1>1, <1>2, <3>1, <3>2, <3>4, HeadDelivers DEF c, key
  <2> QED
    BY <2>3, <2>4
<1>5. CASE ~MarkFollows(key)
  <2>1. r \in ProcessKeyDown(tip, c, key)
    BY <1>3, <1>5 DEF FirstCall, c
  <2>2. /\ r.ids \in {<<>>, <<key.id>>}
        /\ r.failed \/ ~r.eaten => r.ids = <<>>
        /\ ~(r.failed /\ r.eaten)
    BY <1>1, <2>1, ProcessTakes DEF Takes
  <2>3. CASE r.failed
    <3>1. Took(c, <<>>) /\ replay' = At("tail")
      BY <1>3, <2>2, <2>3
    <3> QED
      BY <1>1, <1>2, <3>1, HeadDelivers DEF c, key
  <2>4. CASE ~r.failed /\ r.eaten
    <3>1. Took(c, r.ids) /\ replay' = Advance
      BY <1>3, <1>5, <2>4
    <3> QED
      BY <1>1, <1>2, <2>2, <3>1, HeadDelivers DEF c, key
  <2>5. CASE ~r.failed /\ ~r.eaten
    <3>1. PICK f \in CommitFallback(r.tip, c, <<key>>) :
            Took(c, r.ids \o f.ids) /\ replay' = IF f.failed THEN Idle ELSE Advance
      BY <1>3, <2>5
    <3>2. f.ids \in {<<>>, <<key.id>>}
      BY <1>1, CommitFallbackTakes DEF Takes
    <3>3. f.ids \in Seq(Nat)
      BY <1>1, <3>2, EmptyIds
    <3>4. Took(c, f.ids)
      BY <2>2, <2>5, <3>1, <3>3, ConcatEmptySeq
    <3> QED
      BY <1>1, <1>2, <3>1, <3>2, <3>4, HeadDelivers DEF c, key
  <2> QED
    BY <2>3, <2>4, <2>5
<1> QED
  BY <1>4, <1>5

(* The mark behind a selection, and the rest of the keys as text. *)
LEMMA RestOfKeyDelivers ==
  ASSUME ~CaretMayFail, DeliveryIInv, IInv', ReplayMark \/ ReplayTail
  PROVE  Delivers /\ FieldInv'
<1> DEFINE todo == replay.todo
           c == replay.context
           id == Head(todo).id
<1>1. Looping /\ todo # <<>>
  BY DEF ReplayMark, ReplayTail, Looping, DeliveryIInv, QueueIInv, IInv, World
<1>2. Moved(tip, tip')
  BY CallsMove DEF DeliveryIInv, QueueIInv
<1>3. CASE ReplayMark
  <2>1. PICK r \in CommitText(tip, c, <<id>>) :
          Took(c, r.ids) /\ replay' = IF r.failed THEN At("tail") ELSE Advance
    BY <1>3 DEF ReplayMark
  <2>2. r.ids \in {<<>>, <<id>>} /\ (r.failed => r.ids = <<>>)
    BY EditTakes DEF CommitText, Takes
  <2> QED
    BY <1>1, <1>2, <2>1, <2>2, HeadDelivers
<1>4. CASE ReplayTail
  <2>1. PICK r \in TailAsText(tip, c) : Took(c, r.ids)
    BY <1>4 DEF ReplayTail
  <2>2. ~replay'.on
    BY <1>4 DEF ReplayTail, Idle
  <2>3. r.ids \in {<<>>, IdsOf(todo)}
    <3>1. CASE r \in CommitFallback(AllowKeyInContext(tip, c), c, todo)
      BY <3>1, CommitFallbackTakes DEF Takes
    <3>2. CASE r.ids = <<>>
      BY <3>2
    <3> QED
      BY <3>1, <3>2 DEF TailAsText, Result
  <2>4. PICK n \in {0, Len(todo)} : r.ids = IdsTo(todo, n)
    BY <1>1, <2>3, LoopHas
  <2>5. TypedInto(todo, n, c) /\ replay.on /\ typed' = typed
    BY <1>1, LoopHas
  <2>6. tip'.queue.keys = <<>>
    BY <1>1, <1>2, LoopHas DEF Moved, Kept, Marked, Dropped
  <2> QED
    BY <2>1, <2>2, <2>4, <2>5, <2>6, LoopLeaves
<1> QED
  BY <1>3, <1>4

(* What does not fit behind an empty queue is nothing. *)
LEMMA PushAllOfFit ==
  ASSUME NEW q \in Queue, q.keys = <<>>, NEW keys \in Seq(Key), Len(keys) <= Capacity
  PROVE  PushAll(q, keys).keys = keys
<1>1. q.keys \o keys = keys
  BY ConcatEmptySeq
<1> QED
  BY <1>1 DEF PushAll, Queue

(* ReplayStartupKeys behind Take. *)
LEMMA LoopDelivers ==
  ASSUME ~CaretMayFail, DeliveryIInv, IInv',
         ReplayStops \/ ReplayKey \/ ReplayMark \/ ReplayTail \/ ReplayEnds
  PROVE  Delivers /\ FieldInv'
<1> DEFINE todo == replay.todo
           c == replay.context
           w == [Requeued EXCEPT !.target = "held"]
<1>1. Looping
  BY DEF ReplayStops, ReplayKey, ReplayMark, ReplayTail, ReplayEnds
<1>2. /\ replay.on /\ typed' = typed /\ tip.queue.keys = <<>> /\ WaitingKeys = todo
      /\ todo \in Seq(Key) /\ Len(todo) <= Capacity /\ c \in Context
      /\ \A i \in 1 .. Len(todo) : todo[i].field = c
      /\ tip.context \in {c, NoContext}
      /\ text \in [Context -> Seq(Nat)] /\ scope \in [Context -> Privacy]
      /\ Good(tip) /\ IInv
  BY <1>1, DeliveryTypes
  DEF Looping, WaitingKeys, DeliveryIInv, QueueIInv, IInv, World, FieldInv, Replay
<1>3. ~Idle.on /\ (replay' = Idle => ~replay'.on)
  BY DEF Idle
<1>4. TypedInto(todo, 0, c) /\ IdsTo(todo, 0) = <<>>
        /\ TypedInto(todo, Len(todo), c) /\ IdsTo(todo, Len(todo)) = IdsOf(todo)
  BY <1>2, IdsOfEnds DEF TypedInto
<1> HIDE DEF todo, c
<1>5. CASE ReplayStops
  <2>1. tip' = tip /\ UNCHANGED text /\ replay' = Idle
    BY <1>5 DEF ReplayStops
  <2>2. Took(c, <<>>)
    BY <1>2, <2>1, TookNone
  <2> QED
    BY <1>2, <1>3, <1>4, <2>1, <2>2, LoopLeaves DEF todo, c
<1>6. CASE ReplayKey \/ ReplayMark \/ ReplayTail
  BY <1>6, KeyOfLoopDelivers, RestOfKeyDelivers
<1>7. CASE ReplayEnds
  <2>1. /\ replay' = Idle
        /\ IF Requeued.queue.keys = <<>>
           THEN /\ tip' = [Requeued EXCEPT !.context = NoContext, !.target = "none",
                                           !.clock = "off"]
                /\ UNCHANGED text
           ELSE \E r \in {Result(CancelStartupReplay(Requeued), TRUE, FALSE, <<>>)} \cup
                         ScheduleOrFallback(w, c, replay.gen) :
                  tip' = r.tip /\ Took(c, r.ids)
    BY <1>7 DEF ReplayEnds, c
  <2>2. /\ Good(Requeued)
        /\ Requeued.queue.keys = todo
        /\ Requeued.context = tip.context
    <3>1. Requeued.queue = PushAll(tip.queue, todo)
      BY <1>2, RequeuedIs DEF todo
    <3>2. tip.queue \in Queue
      BY <1>2 DEF Good, Tip
    <3> QED
      BY <1>2, <3>1, <3>2, RequeuedIs, PushAllOfFit
  <2>3. CASE todo = <<>>
    <3>1. tip'.queue = Requeued.queue /\ UNCHANGED text
      BY <2>1, <2>2, <2>3 DEF Good, Tip
    <3>2. Took(c, <<>>) /\ tip'.queue.keys = <<>>
      BY <1>2, <2>2, <2>3, <3>1, TookNone
    <3> QED
      BY <1>2, <1>3, <1>4, <2>1, <3>2, LoopLeaves DEF todo, c
  <2>4. CASE todo # <<>>
    <3>1. PICK r \in {Result(CancelStartupReplay(Requeued), TRUE, FALSE, <<>>)} \cup
                     ScheduleOrFallback(w, c, replay.gen) :
            tip' = r.tip /\ Took(c, r.ids)
      BY <2>1, <2>2, <2>4
    <3>2. /\ w \in Tip
          /\ w.queue = Requeued.queue
          /\ w.context = Requeued.context
          /\ w.target = "held"
          /\ w.session = Requeued.session
          /\ w.restricted = Requeued.restricted
          /\ w.home = Requeued.home
          /\ w.keyContext = Requeued.keyContext
          /\ w.keyPrivacy = Requeued.keyPrivacy
      BY <2>2 DEF Good, Tip
    <3> HIDE DEF w
    <3>3. Good(w)
      BY <2>2, <3>2, SameSession DEF Good
    <3>4. CASE r = Result(CancelStartupReplay(Requeued), TRUE, FALSE, <<>>)
      <4>1. tip'.queue.keys = <<>> /\ Took(c, <<>>)
        BY <2>2, <3>1, <3>4, CancelGood DEF Result
      <4> QED
        BY <1>2, <1>3, <1>4, <2>1, <4>1, LoopLeaves DEF todo, c
    <3>5. CASE r \in ScheduleOrFallback(w, c, replay.gen)
      <4>1. \/ Same(w, r.tip) /\ r.ids = <<>>
            \/ r.tip.queue.keys = <<>> /\ r.ids \in {<<>>, IdsOf(w.queue.keys)}
        BY <1>2, <3>3, <3>5, ScheduleOrFallbackTakes
      <4>2. CASE r.tip.queue.keys = <<>> /\ r.ids \in {<<>>, IdsOf(w.queue.keys)}
        <5>1. PICK n \in {0, Len(todo)} : r.ids = IdsTo(todo, n)
          BY <1>4, <2>2, <3>2, <4>2
        <5>2. TypedInto(todo, n, c)
          BY <1>4
        <5> QED
          BY <1>2, <1>3, <2>1, <3>1, <4>2, <5>1, <5>2, LoopLeaves DEF todo, c
      <4>3. CASE Same(w, r.tip) /\ r.ids = <<>>
        <5>1. /\ tip'.target = "held" /\ tip'.queue.keys = todo
              /\ tip'.context \in {c, NoContext}
          BY <1>2, <2>2, <3>1, <3>2, <4>3 DEF Same
        <5>2. WaitingKeys' = WaitingKeys
          BY <1>2, <1>3, <2>1, <5>1 DEF WaitingKeys
        <5>3. FieldInv'
          BY <1>2, <1>3, <2>1, <5>1 DEF FieldInv, Fielded
        <5>4. UNCHANGED text
          BY <1>2, <3>1, <4>3, TookNone
        <5> QED
          BY <1>2, <5>2, <5>3, <5>4, NoneSettle
      <4> QED
        BY <4>1, <4>2, <4>3
    <3> QED
      BY <3>4, <3>5
  <2> QED
    BY <2>3, <2>4
<1> QED
  BY <1>5, <1>6, <1>7

(* A step that may also happen between two steps of the loop. *)
LEMMA AsideDelivers ==
  ASSUME DeliveryIInv, Same(tip, tip'), UNCHANGED <<replay, text, typed>>
  PROVE  Delivers /\ FieldInv'
<1>1. WaitingKeys' = WaitingKeys
  BY DEF WaitingKeys, Same
<1>2. FieldInv'
  BY DEF DeliveryIInv, FieldInv, Fielded, Same
<1> QED
  BY <1>1, <1>2, NoneSettle

(* The host, the user and the broker process besides typing, and time. *)
LEMMA HostDelivers ==
  ASSUME DeliveryIInv,
         \/ \E c \in Context : \/ HostFocuses(c)
                               \/ \E privacy \in Privacy : HostRescopes(c, privacy)
         \/ HostMovesCaret \/ LoseFocus \/ ModePublished \/ ToggleInputMode
         \/ BrokerReady \/ BrokerExits \/ ClockExpires
  PROVE  Delivers /\ FieldInv'
<1>1. Good(tip) /\ Fielded(tip) /\ IInv
  BY DeliveryTypes
<1>2. CASE \E c \in Context : \/ HostFocuses(c)
                              \/ \E privacy \in Privacy : HostRescopes(c, privacy)
  BY <1>2, AsideDelivers DEF HostFocuses, HostRescopes, OfHost, Same
<1>3. CASE HostMovesCaret
  <2>1. tip'.queue = tip.queue /\ tip'.context = tip.context /\ tip'.target = "moved"
    BY <1>1, <1>3 DEF HostMovesCaret, Good, Tip
  <2>2. ~replay.on /\ UNCHANGED <<replay, text, typed>>
    BY <1>3 DEF HostMovesCaret, OnHost, OfHost
  <2>3. WaitingKeys' = <<>> /\ FieldInv'
    BY <1>1, <2>1, <2>2 DEF WaitingKeys, FieldInv, Fielded
  <2> QED
    BY <2>2, <2>3, NoneSettle
<1>4. CASE LoseFocus \/ ModePublished \/ ToggleInputMode
  <2>1. ~replay.on /\ UNCHANGED <<replay, text, typed>>
    BY <1>4 DEF LoseFocus, ModePublished, ToggleInputMode, OnHost, OfHost
  <2>2. tip'.queue.keys = <<>>
    BY <1>1, <1>4, HostDrops DEF Dropped
  <2> QED
    BY <2>1, <2>2, RestDelivers
<1>5. CASE BrokerReady
  BY <1>5, AsideDelivers DEF BrokerReady, Same
<1>6. CASE BrokerExits \/ ClockExpires
  <2>1. Same(tip, tip') /\ UNCHANGED <<replay, text, typed>>
    BY <1>1, <1>6 DEF BrokerExits, ClockExpires, Same, Good, Tip
  <2> QED
    BY <2>1, AsideDelivers
<1> QED
  BY <1>2, <1>3, <1>4, <1>5, <1>6

(* Every step of Next, and every stutter. *)
LEMMA StepDelivers ==
  ASSUME ~CaretMayFail, DeliveryIInv, [Next]_vars
  PROVE  DeliveryIInv' /\ Delivers
<1>1. QueueIInv' /\ IInv'
  BY StepQueueInv DEF DeliveryIInv, QueueIInv
<1>2. FieldInv' => DeliveryIInv'
  BY <1>1 DEF DeliveryIInv
<1>3. CASE \E kind \in Kind : HostKey(kind) \/ KeyDenied(kind) \/ KeyBypassed(kind)
                              \/ CancelKey(kind) \/ KeyBehindQueue(kind) \/ KeyToEngine(kind)
  BY <1>1, <1>2, <1>3, KeyDelivers
<1>4. CASE TimerCancels \/ TimerFallsBack \/ TimerReplays
  BY <1>2, <1>4, TimerDelivers
<1>5. CASE \E e \in edits : GrantFallback(e) \/ ReplayRefused(e)
                           \/ ReplayWaits(e) \/ ReplayStarts(e)
  BY <1>1, <1>2, <1>5, GrantDelivers
<1>6. CASE ReplayStops \/ ReplayKey \/ ReplayMark \/ ReplayTail \/ ReplayEnds
  BY <1>1, <1>2, <1>6, LoopDelivers
<1>7. CASE \/ \E c \in Context : \/ HostFocuses(c)
                               \/ \E privacy \in Privacy : HostRescopes(c, privacy)
           \/ HostMovesCaret \/ LoseFocus \/ ModePublished \/ ToggleInputMode
           \/ BrokerReady \/ BrokerExits \/ ClockExpires
  BY <1>2, <1>7, HostDelivers
<1>8. CASE UNCHANGED vars
  BY <1>2, <1>8, AsideDelivers DEF vars, Same
<1> QED
  BY <1>3, <1>4, <1>5, <1>6, <1>7, <1>8, Zenon DEF Next

(* The text service implements KeyDelivery, for every number of fields,    *)
(* keys and events: keys that wait take effect only in the field they were *)
(* typed into, each at most once and in the order in which they were       *)
(* typed, and no key overtakes one that still waits (QueueStartupKey,      *)
(* ReplayStartupKeys, FallbackStartupKeys).  The host must not take the    *)
(* text of an edit and then refuse its caret: RequestKeyEdit would give it *)
(* the key a second time.                                                  *)
THEOREM ImplementsKeyDelivery == ASSUME ~CaretMayFail PROVE Spec => DeliveryKept
<1>1. Init => DeliveryIInv /\ Promise!Init
  BY InitDelivery
<1>2. DeliveryIInv /\ [Next]_vars => DeliveryIInv' /\ [Promise!Next]_(Promise!vars)
  BY StepDelivers DEF Delivers
<1> QED
  BY <1>1, <1>2, PTL DEF Spec, DeliveryKept, Promise!Spec

------------------------------------------------------------------------------
(***************************************************************************)
(* What KeyDelivery means for the text of a field.  Every key that waits   *)
(* is younger than all that took effect and older than those behind it, so *)
(* the numbers in a field only rise.                                       *)
(***************************************************************************)
(* Keys p wait and took effect in the order of t; k was typed last. *)
Risen(p, t, k) ==
  /\ p \in Seq(Entry) /\ t \in [Context -> Seq(Nat)] /\ k \in Nat
  /\ \A i, j \in 1 .. Len(p) : i < j => p[i].id < p[j].id
  /\ \A i \in 1 .. Len(p) : p[i].id <= k
  /\ \A c \in Context : \A i \in 1 .. Len(t[c]) :
       t[c][i] <= k /\ \A j \in 1 .. Len(p) : t[c][i] < p[j].id
  /\ \A c \in Context : \A i, j \in 1 .. Len(t[c]) : i < j => t[c][i] < t[c][j]
  /\ \A c, d \in Context : \A i \in 1 .. Len(t[c]) : \A j \in 1 .. Len(t[d]) :
       t[c][i] = t[d][j] => c = d

(* The first n of them take effect in c and the first m are gone. *)
LEMMA SettlingRises ==
  ASSUME NEW p, NEW t, NEW k, Risen(p, t, k), NEW c \in Context,
         NEW m \in 0 .. Len(p), NEW n \in 0 .. m
  PROVE  Risen(SubSeq(p, m + 1, Len(p)), [t EXCEPT ![c] = @ \o [i \in 1 .. n |-> p[i].id]], k)
<1> DEFINE q == SubSeq(p, m + 1, Len(p))
           ids == [i \in 1 .. n |-> p[i].id]
           s == t[c] \o ids
           u == [t EXCEPT ![c] = s]
<1>1. /\ p \in Seq(Entry) /\ Len(p) \in Nat /\ t \in [Context -> Seq(Nat)] /\ k \in Nat
      /\ t[c] \in Seq(Nat) /\ Len(t[c]) \in Nat /\ m \in Nat /\ n \in Nat /\ n <= m /\ m <= Len(p)
  BY DEF Risen
<1>2. \A i \in 1 .. Len(p) : p[i].id \in Nat
  <2>1. \A i \in 1 .. Len(p) : p[i] \in Entry
    BY <1>1
  <2> QED
    BY <2>1 DEF Entry
<1>3. /\ q \in Seq(Entry) /\ Len(q) = Len(p) - m
      /\ \A i \in 1 .. Len(q) : i + m \in 1 .. Len(p) /\ q[i] = p[i + m]
  BY <1>1
<1>4. ids \in Seq(Nat) /\ Len(ids) = n /\ \A i \in 1 .. n : ids[i] = p[i].id /\ i \in 1 .. Len(p)
  BY <1>1, <1>2
<1> HIDE DEF q, ids
<1>5. /\ s \in Seq(Nat) /\ Len(s) = Len(t[c]) + n
      /\ \A i \in 1 .. Len(t[c]) : s[i] = t[c][i]
      /\ \A i \in 1 .. n : s[Len(t[c]) + i] = ids[i]
  <2>1. /\ s \in Seq(Nat) /\ Len(s) = Len(t[c]) + Len(ids)
        /\ \A i \in 1 .. Len(t[c]) + Len(ids) :
             s[i] = IF i <= Len(t[c]) THEN t[c][i] ELSE ids[i - Len(t[c])]
    BY <1>1, <1>4, ConcatProperties
  <2> HIDE DEF s
  <2>2. ASSUME NEW i \in 1 .. n PROVE s[Len(t[c]) + i] = ids[i]
    <3>1. /\ Len(t[c]) + i \in 1 .. Len(t[c]) + Len(ids)
          /\ ~(Len(t[c]) + i <= Len(t[c])) /\ (Len(t[c]) + i) - Len(t[c]) = i
      BY <1>1, <1>4
    <3> QED
      BY <2>1, <3>1
  <2>3. \A i \in 1 .. Len(t[c]) : i \in 1 .. Len(t[c]) + Len(ids) /\ i <= Len(t[c])
    BY <1>1, <1>4
  <2> QED
    BY <1>4, <2>1, <2>2, <2>3
<1> HIDE DEF s
<1>6. \A i \in 1 .. Len(s) :
        \/ i \in 1 .. Len(t[c]) /\ s[i] = t[c][i]
        \/ i \notin 1 .. Len(t[c]) /\ \E l \in 1 .. n : i = Len(t[c]) + l /\ s[i] = p[l].id
  <2> SUFFICES ASSUME NEW i \in 1 .. Len(s), i \notin 1 .. Len(t[c])
               PROVE  \E l \in 1 .. n : i = Len(t[c]) + l /\ s[i] = p[l].id
    BY <1>5
  <2>1. i - Len(t[c]) \in 1 .. n /\ i = Len(t[c]) + (i - Len(t[c]))
    BY <1>1, <1>5
  <2> QED
    BY <1>4, <1>5, <2>1
<1>7. u \in [Context -> Seq(Nat)] /\ u[c] = s /\ \A d \in Context : d # c => u[d] = t[d]
  BY <1>1, <1>5
<1> HIDE DEF u
<1>8. \A i, j \in 1 .. Len(q) : i < j => q[i].id < q[j].id
  <2> SUFFICES ASSUME NEW i \in 1 .. Len(q), NEW j \in 1 .. Len(q), i < j
               PROVE  q[i].id < q[j].id
    OBVIOUS
  <2>1. i + m \in 1 .. Len(p) /\ j + m \in 1 .. Len(p) /\ i + m < j + m
    BY <1>1, <1>3
  <2>2. p[i + m].id < p[j + m].id
    BY <2>1 DEF Risen
  <2> QED
    BY <1>3, <2>2
<1>9. \A i \in 1 .. Len(q) : q[i].id <= k
  BY <1>3 DEF Risen
<1>10. \A d \in Context : \A i \in 1 .. Len(u[d]) :
         u[d][i] <= k /\ \A j \in 1 .. Len(q) : u[d][i] < q[j].id
  <2> SUFFICES ASSUME NEW d \in Context, NEW i \in 1 .. Len(u[d])
               PROVE  u[d][i] <= k /\ \A j \in 1 .. Len(q) : u[d][i] < q[j].id
    OBVIOUS
  <2>1. CASE \E e \in Context : \E l \in 1 .. Len(t[e]) : u[d][i] = t[e][l]
    <3>1. PICK e \in Context : \E l \in 1 .. Len(t[e]) : u[d][i] = t[e][l]
      BY <2>1
    <3>2. PICK l \in 1 .. Len(t[e]) : u[d][i] = t[e][l]
      BY <3>1
    <3>3. t[e][l] <= k /\ \A j \in 1 .. Len(p) : t[e][l] < p[j].id
      BY DEF Risen
    <3> QED
      BY <1>3, <3>2, <3>3
  <2>2. CASE d # c
    BY <1>7, <2>1, <2>2
  <2>3. CASE d = c
    <3>1. CASE i \in 1 .. Len(t[c])
      BY <1>6, <1>7, <2>1, <2>3, <3>1
    <3>2. CASE i \notin 1 .. Len(t[c])
      <4>1. PICK l \in 1 .. n : u[d][i] = p[l].id
        BY <1>6, <1>7, <2>3, <3>2
      <4>2. l \in 1 .. Len(p) /\ p[l].id <= k
        BY <1>4 DEF Risen
      <4>3. ASSUME NEW j \in 1 .. Len(q) PROVE p[l].id < q[j].id
        <5>1. j + m \in 1 .. Len(p) /\ l < j + m /\ q[j] = p[j + m]
          BY <1>1, <1>3
        <5>2. p[l].id < p[j + m].id
          BY <4>2, <5>1 DEF Risen
        <5> QED
          BY <5>1, <5>2
      <4> QED
        BY <4>1, <4>2, <4>3
    <3> QED
      BY <3>1, <3>2
  <2> QED
    BY <2>2, <2>3
<1>11. \A d \in Context : \A i, j \in 1 .. Len(u[d]) : i < j => u[d][i] < u[d][j]
  <2> SUFFICES ASSUME NEW d \in Context, NEW i \in 1 .. Len(u[d]), NEW j \in 1 .. Len(u[d]), i < j
               PROVE  u[d][i] < u[d][j]
    OBVIOUS
  <2>1. CASE d # c
    BY <1>7, <2>1 DEF Risen
  <2>2. CASE d = c
    <3>1. i \in 1 .. Len(s) /\ j \in 1 .. Len(s) /\ u[d] = s
      BY <1>7, <2>2
    <3>2. CASE i \in 1 .. Len(t[c]) /\ j \in 1 .. Len(t[c])
      <4>1. t[c][i] < t[c][j]
        BY <3>2 DEF Risen
      <4> QED
        BY <1>5, <3>1, <3>2, <4>1
    <3>3. CASE i \in 1 .. Len(t[c]) /\ j \notin 1 .. Len(t[c])
      <4>1. PICK l \in 1 .. n : s[j] = p[l].id
        BY <1>6, <3>1, <3>3
      <4>2. t[c][i] < p[l].id
        BY <1>4, <3>3 DEF Risen
      <4> QED
        BY <1>5, <3>1, <3>3, <4>1, <4>2
    <3>4. CASE i \notin 1 .. Len(t[c])
      <4>1. j \notin 1 .. Len(t[c])
        BY <1>1, <3>1, <3>4
      <4>2. PICK l \in 1 .. n : i = Len(t[c]) + l /\ s[i] = p[l].id
        BY <1>6, <3>1, <3>4
      <4>3. PICK o \in 1 .. n : j = Len(t[c]) + o /\ s[j] = p[o].id
        BY <1>6, <3>1, <4>1
      <4>4. l < o /\ l \in 1 .. Len(p) /\ o \in 1 .. Len(p)
        BY <1>1, <1>4, <4>2, <4>3
      <4>5. p[l].id < p[o].id
        BY <4>4 DEF Risen
      <4> QED
        BY <3>1, <4>2, <4>3, <4>5
    <3> QED
      BY <3>2, <3>3, <3>4
  <2> QED
    BY <2>1, <2>2
<1>12. \A d, e \in Context : \A i \in 1 .. Len(u[d]) : \A j \in 1 .. Len(u[e]) :
         u[d][i] = u[e][j] => d = e
  <2>1. ASSUME NEW d \in Context, d # c, NEW i \in 1 .. Len(s), NEW j \in 1 .. Len(t[d])
        PROVE  s[i] # t[d][j]
    <3>1. CASE i \in 1 .. Len(t[c])
      <4>1. s[i] = t[c][i]
        BY <1>5, <3>1
      <4>2. t[c][i] # t[d][j]
        BY <2>1, <3>1 DEF Risen
      <4> QED
        BY <4>1, <4>2
    <3>2. CASE i \notin 1 .. Len(t[c])
      <4>1. PICK l \in 1 .. n : s[i] = p[l].id
        BY <1>6, <3>2
      <4>2. t[d][j] < p[l].id
        BY <1>4 DEF Risen
      <4>3. t[d][j] \in Nat /\ p[l].id \in Nat
        BY <1>1, <1>2, <1>4
      <4> QED
        BY <4>1, <4>2, <4>3
    <3> QED
      BY <3>1, <3>2
  <2>2. \A d, e \in Context : \A i \in 1 .. Len(t[d]) : \A j \in 1 .. Len(t[e]) :
          t[d][i] = t[e][j] => d = e
    BY DEF Risen
  <2> SUFFICES ASSUME NEW d \in Context, NEW e \in Context, d # e,
                      NEW i \in 1 .. Len(u[d]), NEW j \in 1 .. Len(u[e])
               PROVE  u[d][i] # u[e][j]
    OBVIOUS
  <2>3. CASE d = c
    BY <1>7, <2>1, <2>3
  <2>4. CASE e = c
    BY <1>7, <2>1, <2>4
  <2>5. CASE d # c /\ e # c
    BY <1>7, <2>2, <2>5
  <2> QED
    BY <2>3, <2>4, <2>5
<1>13. Risen(q, u, k)
  BY <1>1, <1>3, <1>7, <1>8, <1>9, <1>10, <1>11, <1>12 DEF Risen
<1> QED
  BY <1>13 DEF q, u, s, ids

(* A key that is typed waits behind the others, takes effect if there are none, or is lost. *)
LEMMA TypingRises ==
  ASSUME NEW p, NEW t, NEW k, Risen(p, t, k), NEW c \in Context
  PROVE  /\ Risen(p, t, k + 1)
         /\ Risen(Append(p, [id |-> k + 1, field |-> c]), t, k + 1)
         /\ p = <<>> => Risen(p, [t EXCEPT ![c] = Append(@, k + 1)], k + 1)
<1> DEFINE entry == [id |-> k + 1, field |-> c]
           q == Append(p, entry)
           s == Append(t[c], k + 1)
           u == [t EXCEPT ![c] = s]
<1>1. /\ p \in Seq(Entry) /\ Len(p) \in Nat /\ t \in [Context -> Seq(Nat)] /\ k \in Nat
      /\ t[c] \in Seq(Nat) /\ Len(t[c]) \in Nat
      /\ \A d \in Context : t[d] \in Seq(Nat)
  BY DEF Risen
<1>2. \A i \in 1 .. Len(p) : p[i].id \in Nat
  <2>1. \A i \in 1 .. Len(p) : p[i] \in Entry
    BY <1>1
  <2> QED
    BY <2>1 DEF Entry
<1>3. \A d \in Context : \A i \in 1 .. Len(t[d]) : t[d][i] \in Nat /\ t[d][i] <= k
  BY <1>1 DEF Risen
<1>4. Risen(p, t, k + 1)
  <2>1. \A i \in 1 .. Len(p) : p[i].id <= k + 1
    BY <1>1, <1>2 DEF Risen
  <2>2. \A d \in Context : \A i \in 1 .. Len(t[d]) : t[d][i] <= k + 1
    BY <1>1, <1>3
  <2> QED
    BY <1>1, <2>1, <2>2 DEF Risen
<1>5. Risen(q, t, k + 1)
  <2>1. entry \in Entry /\ entry.id = k + 1
    BY <1>1 DEF Entry
  <2> HIDE DEF entry
  <2>2. /\ q \in Seq(Entry) /\ Len(q) = Len(p) + 1
        /\ \A i \in 1 .. Len(p) : q[i] = p[i]
        /\ q[Len(p) + 1] = entry
    BY <1>1, <2>1
  <2> HIDE DEF q
  <2>3. \A i \in 1 .. Len(q) : i \in 1 .. Len(p) \/ i = Len(p) + 1
    BY <1>1, <2>2
  <2>4. \A i \in 1 .. Len(q) : q[i].id <= k + 1
    <3>1. \A i \in 1 .. Len(p) : q[i].id <= k + 1
      <4>1. \A i \in 1 .. Len(p) : p[i].id <= k + 1
        BY <1>4 DEF Risen
      <4> QED
        BY <2>2, <4>1
    <3>2. q[Len(p) + 1].id = k + 1 /\ k + 1 <= k + 1
      BY <1>1, <2>1, <2>2
    <3> QED
      BY <2>3, <3>1, <3>2
  <2>5. ASSUME NEW i \in 1 .. Len(q), NEW j \in 1 .. Len(q), i < j
        PROVE  q[i].id < q[j].id
    <3>1. i \in 1 .. Len(p)
      BY <1>1, <2>2, <2>5
    <3>2. p[i].id <= k
      BY <3>1 DEF Risen
    <3>3. CASE j = Len(p) + 1
      BY <1>1, <1>2, <2>1, <2>2, <3>1, <3>2, <3>3
    <3>4. CASE j \in 1 .. Len(p)
      BY <2>2, <2>5, <3>1, <3>4 DEF Risen
    <3> QED
      BY <2>3, <3>3, <3>4
  <2>6. ASSUME NEW d \in Context, NEW i \in 1 .. Len(t[d]), NEW j \in 1 .. Len(q)
        PROVE  t[d][i] < q[j].id
    <3>1. CASE j = Len(p) + 1
      BY <1>1, <1>3, <2>1, <2>2, <3>1
    <3>2. CASE j \in 1 .. Len(p)
      BY <2>2, <3>2 DEF Risen
    <3> QED
      BY <2>3, <3>1, <3>2
  <2> QED
    BY <1>4, <2>2, <2>4, <2>5, <2>6 DEF Risen
<1>6. ASSUME p = <<>> PROVE Risen(p, u, k + 1)
  <2>1. /\ s \in Seq(Nat) /\ Len(s) = Len(t[c]) + 1
        /\ \A i \in 1 .. Len(t[c]) : s[i] = t[c][i]
        /\ s[Len(t[c]) + 1] = k + 1
    BY <1>1
  <2> HIDE DEF s
  <2>2. \A i \in 1 .. Len(s) : i \in 1 .. Len(t[c]) \/ i = Len(t[c]) + 1
    BY <1>1, <2>1
  <2>3. u \in [Context -> Seq(Nat)] /\ u[c] = s /\ \A d \in Context : d # c => u[d] = t[d]
    BY <1>1, <2>1
  <2> HIDE DEF u
  <2>4. Len(p) = 0
    BY <1>6
  <2>5. \A d \in Context : \A i \in 1 .. Len(u[d]) : u[d][i] <= k + 1
    <3>1. \A d \in Context : \A i \in 1 .. Len(t[d]) : t[d][i] <= k + 1
      BY <1>1, <1>3
    <3>2. k + 1 <= k + 1 /\ k + 1 \in Nat
      BY <1>1
    <3>3. \A i \in 1 .. Len(s) : s[i] <= k + 1
      BY <2>1, <2>2, <3>1, <3>2
    <3> QED
      BY <2>3, <3>1, <3>3
  <2>6. ASSUME NEW d \in Context, NEW i \in 1 .. Len(u[d]), NEW j \in 1 .. Len(u[d]), i < j
        PROVE  u[d][i] < u[d][j]
    <3>1. CASE d # c
      BY <2>3, <2>6, <3>1 DEF Risen
    <3>2. CASE d = c
      <4>1. i \in 1 .. Len(s) /\ j \in 1 .. Len(s) /\ u[d] = s
        BY <2>3, <3>2
      <4>2. i \in 1 .. Len(t[c])
        BY <1>1, <2>1, <2>6, <4>1
      <4>3. i \in 1 .. Len(t[c]) /\ s[i] <= k /\ s[i] \in Nat
        BY <1>3, <2>1, <4>2
      <4>4. CASE j = Len(t[c]) + 1
        BY <1>1, <2>1, <2>3, <3>2, <4>3, <4>4
      <4>5. CASE j \in 1 .. Len(t[c])
        BY <2>1, <2>3, <2>6, <3>2, <4>3, <4>5 DEF Risen
      <4> QED
        BY <2>2, <2>3, <3>2, <4>4, <4>5
    <3> QED
      BY <3>1, <3>2
  <2>7. ASSUME NEW d \in Context, d # c, NEW i \in 1 .. Len(s), NEW j \in 1 .. Len(t[d])
        PROVE  s[i] # t[d][j]
    <3>1. CASE i \in 1 .. Len(t[c])
      BY <2>1, <2>7, <3>1 DEF Risen
    <3>2. CASE i = Len(t[c]) + 1
      BY <1>1, <1>3, <2>1, <3>2
    <3> QED
      BY <2>2, <3>1, <3>2
  <2>8. ASSUME NEW d \in Context, NEW e \in Context, d # e,
               NEW i \in 1 .. Len(u[d]), NEW j \in 1 .. Len(u[e])
        PROVE  u[d][i] # u[e][j]
    <3>1. CASE d = c
      BY <2>3, <2>7, <2>8, <3>1
    <3>2. CASE e = c
      BY <2>3, <2>7, <2>8, <3>2
    <3>3. CASE d # c /\ e # c
      BY <2>3, <2>8, <3>3 DEF Risen
    <3> QED
      BY <3>1, <3>2, <3>3
  <2>9. \A i \in 1 .. Len(p) : FALSE
    BY <2>4
  <2> QED
    BY <1>1, <2>3, <2>5, <2>6, <2>8, <2>9 DEF Risen
<1> QED
  BY <1>4, <1>5, <1>6

(* A key at the end of what is at the end. *)
LEMMA AppendOfConcat ==
  ASSUME NEW s \in Seq(Nat), NEW t \in Seq(Nat), NEW e \in Nat
  PROVE  Append(s \o t, e) = s \o Append(t, e)
<1> DEFINE a == Append(s \o t, e)
           b == s \o Append(t, e)
<1>1. s \o t \in Seq(Nat) /\ Append(t, e) \in Seq(Nat) /\ Len(s) \in Nat /\ Len(t) \in Nat
  BY ConcatProperties, AppendProperties
<1>2. /\ Len(s \o t) = Len(s) + Len(t) /\ Len(Append(t, e)) = Len(t) + 1
      /\ \A i \in 1 .. Len(s) + Len(t) : (s \o t)[i] = IF i <= Len(s) THEN s[i] ELSE t[i - Len(s)]
      /\ \A i \in 1 .. Len(t) : Append(t, e)[i] = t[i]
      /\ Append(t, e)[Len(t) + 1] = e
  BY ConcatProperties, AppendProperties
<1>3. /\ a \in Seq(Nat) /\ Len(a) = Len(s) + Len(t) + 1
      /\ \A i \in 1 .. Len(s) + Len(t) : a[i] = (s \o t)[i]
      /\ a[Len(s) + Len(t) + 1] = e
  BY <1>1, <1>2, AppendProperties
<1>4. /\ b \in Seq(Nat) /\ Len(b) = Len(s) + Len(t) + 1
      /\ \A i \in 1 .. Len(s) + Len(t) + 1 :
           b[i] = IF i <= Len(s) THEN s[i] ELSE Append(t, e)[i - Len(s)]
  <2> DEFINE u == Append(t, e)
  <2>1. u \in Seq(Nat) /\ Len(u) = Len(t) + 1
    BY <1>1, <1>2
  <2> HIDE DEF u
  <2>2. /\ s \o u \in Seq(Nat) /\ Len(s \o u) = Len(s) + Len(u)
        /\ \A i \in 1 .. Len(s) + Len(u) :
             (s \o u)[i] = IF i <= Len(s) THEN s[i] ELSE u[i - Len(s)]
    BY <2>1, ConcatProperties
  <2>3. Len(s) + Len(u) = Len(s) + Len(t) + 1
    BY <1>1, <2>1
  <2> QED
    BY <2>2, <2>3 DEF u
<1> HIDE DEF a, b
<1>5. ASSUME NEW i \in 1 .. Len(a) PROVE a[i] = b[i]
  <2>1. CASE i = Len(s) + Len(t) + 1
    <3>1. ~(i <= Len(s)) /\ i - Len(s) = Len(t) + 1
      BY <1>1, <2>1
    <3> QED
      BY <1>2, <1>3, <1>4, <2>1, <3>1
  <2>2. CASE i <= Len(s)
    <3>1. i \in 1 .. Len(s) + Len(t)
      BY <1>1, <1>3, <2>2
    <3> QED
      BY <1>2, <1>3, <1>4, <2>2, <3>1
  <2>3. CASE ~(i <= Len(s)) /\ i # Len(s) + Len(t) + 1
    <3>1. i \in Nat /\ 1 <= i /\ i <= Len(s) + Len(t) + 1
      BY <1>1, <1>3
    <3>2. i <= Len(s) + Len(t) /\ 1 <= i - Len(s) /\ i - Len(s) <= Len(t) /\ i - Len(s) \in Int
      BY <1>1, <2>3, <3>1
    <3>3. i \in 1 .. Len(s) + Len(t) /\ i - Len(s) \in 1 .. Len(t)
      BY <1>1, <3>1, <3>2
    <3> QED
      BY <1>2, <1>3, <1>4, <2>3, <3>3
  <2> QED
    BY <2>1, <2>2, <2>3
<1>6. a = b
  BY <1>3, <1>4, <1>5, SeqEqual
<1> QED
  BY <1>6 DEF a, b

(* What waits, what took effect and what was typed, in the state of the text service. *)
KeysRise == Risen(Waiting, text, typed)

LEMMA RisenAtFirst == ASSUME Promise!Init PROVE KeysRise
<1>1. Waiting = <<>> /\ text = [c \in Context |-> <<>>] /\ typed = 0
  BY DEF Promise!Init
<1>2. \A c \in Context : text[c] = <<>> /\ Len(text[c]) = 0
  BY <1>1
<1>3. Waiting \in Seq(Entry) /\ Len(Waiting) = 0 /\ text \in [Context -> Seq(Nat)] /\ typed \in Nat
  BY <1>1
<1>4. \A i \in 1 .. 0 : FALSE
  OBVIOUS
<1> QED
  BY <1>2, <1>3, <1>4 DEF KeysRise, Risen

(* Keys that settle, then the key that is typed, if one is. *)
LEMMA StepRises == ASSUME KeysRise, [Promise!Next]_(Promise!vars) PROVE KeysRise'
<1> DEFINE p == Waiting
           rest(m) == SubSeq(p, m + 1, Len(p))
           ids(n) == [i \in 1 .. n |-> p[i].id]
           more(c, n) == [text EXCEPT ![c] = @ \o ids(n)]
<1>1. /\ Risen(p, text, typed) /\ p \in Seq(Entry) /\ Len(p) \in Nat
      /\ text \in [Context -> Seq(Nat)] /\ typed \in Nat
  BY DEF KeysRise, Risen
<1>2. CASE UNCHANGED Promise!vars
  BY <1>1, <1>2 DEF Promise!vars, KeysRise
<1>3. CASE Promise!Next
  <2>1. PICK c \in Context : \E n \in 0 .. Len(p) :
          \/ Promise!TakeEffect(c, n)
          \/ \E m \in n .. Len(p) :
               Promise!Wait(c, n, m) \/ Promise!Queue(c, n, m) \/ Promise!Lose(c, n, m)
    BY <1>3 DEF Promise!Next
  <2>2. PICK n \in 0 .. Len(p) :
          \/ Promise!TakeEffect(c, n)
          \/ \E m \in n .. Len(p) :
               Promise!Wait(c, n, m) \/ Promise!Queue(c, n, m) \/ Promise!Lose(c, n, m)
    BY <2>1
  <2>3. ASSUME NEW m \in n .. Len(p)
        PROVE  Risen(rest(m), more(c, n), typed)
    <3>1. m \in 0 .. Len(p) /\ n \in 0 .. m
      BY <1>1
    <3> QED
      BY <1>1, <3>1, SettlingRises
  <2>4. CASE Promise!TakeEffect(c, n)
    <3>1. /\ Waiting' = <<>> /\ typed' = typed + 1
          /\ text' = [text EXCEPT ![c] = @ \o Append(ids(n), typed + 1)]
      BY <2>4 DEF Promise!TakeEffect, Promise!Typed, Promise!FirstIds
    <3>2. Len(p) \in n .. Len(p) /\ rest(Len(p)) = <<>>
      BY <1>1, SubSeqEmpty
    <3>3. Risen(<<>>, more(c, n), typed)
      BY <2>3, <3>2
    <3>4. Risen(<<>>, [more(c, n) EXCEPT ![c] = Append(@, typed + 1)], typed + 1)
      BY <3>3, TypingRises
    <3>5. more(c, n)[c] = text[c] \o ids(n)
      BY <1>1
    <3>6. Append(text[c] \o ids(n), typed + 1) = text[c] \o Append(ids(n), typed + 1)
      <4>1. text[c] \in Seq(Nat) /\ ids(n) \in Seq(Nat)
        <5>1. \A i \in 1 .. n : i \in 1 .. Len(p) /\ p[i] \in Entry
          BY <1>1
        <5>2. \A i \in 1 .. n : p[i].id \in Nat
          BY <5>1 DEF Entry
        <5> QED
          BY <1>1, <5>2
      <4> HIDE DEF ids
      <4>2. typed + 1 \in Nat
        BY <1>1
      <4> QED
        BY <4>1, <4>2, AppendOfConcat
    <3>7. [more(c, n) EXCEPT ![c] = Append(@, typed + 1)]
            = [text EXCEPT ![c] = @ \o Append(ids(n), typed + 1)]
      BY <1>1, <3>6
    <3> QED
      BY <3>1, <3>4, <3>7 DEF KeysRise
  <2>5. ASSUME NEW m \in n .. Len(p), Promise!Wait(c, n, m) PROVE KeysRise'
    BY <2>3, <2>5 DEF Promise!Wait, Promise!Behind, Promise!FirstIds, KeysRise
  <2>6. ASSUME NEW m \in n .. Len(p), Promise!Queue(c, n, m) PROVE KeysRise'
    <3>1. /\ Waiting' = Append(rest(m), [id |-> typed + 1, field |-> c])
          /\ text' = more(c, n) /\ typed' = typed + 1
      BY <2>6 DEF Promise!Queue, Promise!Typed, Promise!Behind, Promise!FirstIds
    <3>2. Risen(rest(m), more(c, n), typed)
      BY <2>3
    <3> HIDE DEF rest, more
    <3> QED
      BY <3>1, <3>2, TypingRises DEF KeysRise
  <2>7. ASSUME NEW m \in n .. Len(p), Promise!Lose(c, n, m) PROVE KeysRise'
    <3>1. Waiting' = rest(m) /\ text' = more(c, n) /\ typed' = typed + 1
      BY <2>7 DEF Promise!Lose, Promise!Typed, Promise!Behind, Promise!FirstIds
    <3>2. Risen(rest(m), more(c, n), typed)
      BY <2>3
    <3> HIDE DEF rest, more
    <3> QED
      BY <3>1, <3>2, TypingRises DEF KeysRise
  <2> QED
    BY <2>2, <2>4, <2>5, <2>6, <2>7
<1> QED
  BY <1>2, <1>3

(* KeysRise holds in every state of such a host. *)
LEMMA KeysRiseAlways == ASSUME ~CaretMayFail PROVE Spec => []KeysRise
<1>1. Promise!Init => KeysRise
  BY RisenAtFirst
<1>2. KeysRise /\ [Promise!Next]_(Promise!vars) => KeysRise'
  BY StepRises
<1>3. Spec => Promise!Spec
  BY ImplementsKeyDelivery DEF DeliveryKept
<1> QED
  BY <1>1, <1>2, <1>3, PTL DEF Promise!Spec

(* No key takes effect twice, in one field or in two, and none overtakes   *)
(* another: the keys of a field are there once, in the order in which they *)
(* were typed, whatever was queued, taken, put back, turned into text or   *)
(* retried (ReplayStartupKeys, FallbackStartupKeys), unless the host takes *)
(* the text of an edit and refuses its caret.                              *)
THEOREM OnceInOrderAlways == ASSUME ~CaretMayFail PROVE Spec => []OnceInOrder
<1>1. KeysRise => OnceInOrder
  <2> SUFFICES ASSUME KeysRise PROVE OnceInOrder
    OBVIOUS
  <2>1. \A c \in Context : text[c] \in Seq(Nat) /\ DOMAIN text[c] = 1 .. Len(text[c])
    BY DEF KeysRise, Risen
  <2> QED
    BY <2>1 DEF KeysRise, Risen, OnceInOrder, Promise!InOrder, Promise!Increasing
<1> QED
  BY <1>1, KeysRiseAlways, PTL

(* A key of the loop takes effect once, in a host that takes the text of   *)
(* an edit and its caret together; without that it is not so, and          *)
(* TextServiceDrainedKeys shows the key that takes effect twice.           *)
THEOREM DrainedOnceUnlessCaretFails ==
  ASSUME ~CaretMayFail PROVE Spec => DrainedKeysTakeEffectOnce
<1>1. KeysRise' => [\A i \in DOMAIN replay.todo : \A c \in Context :
                      \A m, n \in DOMAIN text'[c] :
                        text'[c][m] = replay.todo[i].id /\ text'[c][n] = replay.todo[i].id
                          => m = n]_vars
  <2> SUFFICES ASSUME KeysRise', NEW c \in Context,
                      NEW m \in DOMAIN text'[c], NEW n \in DOMAIN text'[c],
                      text'[c][m] = text'[c][n]
               PROVE  m = n
    OBVIOUS
  <2>1. text'[c] \in Seq(Nat) /\ m \in 1 .. Len(text'[c]) /\ n \in 1 .. Len(text'[c])
    BY DEF KeysRise, Risen
  <2>2. /\ m < n => text'[c][m] < text'[c][n]
        /\ n < m => text'[c][n] < text'[c][m]
    BY <2>1 DEF KeysRise, Risen
  <2>3. text'[c][m] \in Nat /\ m \in Nat /\ n \in Nat
    BY <2>1
  <2> QED
    BY <2>2, <2>3
<1> QED
  BY <1>1, KeysRiseAlways, PTL DEF DrainedKeysTakeEffectOnce

------------------------------------------------------------------------------
(***************************************************************************)
(* Proof that a key that waited takes effect only where it was typed       *)
(* (TextService!ReplayStaysInField), and that no key is begun once the mode *)
(* is not Chinese (TextService!ReplayStartsInChineseMode), for every host, *)
(* also one that takes the text of an edit and refuses its caret.          *)
(*                                                                         *)
(* The keys that wait remember nothing of where they were typed.  What     *)
(* they may rely on is the record: while keys wait for a field, the        *)
(* service is in that field, in the privacy and in the mode under which    *)
(* every one of them was typed.  A call that would change any of these     *)
(* gives the queue up first, or raises the generation under the loop.      *)
(***************************************************************************)

(* The keys of a queue with a field were typed as the record is now. *)
QueueBound(t) ==
  t.queue.keys # <<>> /\ t.context # NoContext =>
    /\ t.chinese
    /\ t.keyContext = t.context
    /\ \A i \in 1 .. Len(t.queue.keys) : /\ t.queue.keys[i].field = t.context
                                         /\ t.queue.keys[i].privacy = t.keyPrivacy

(* So were the keys of the loop while its generation is the current one;   *)
(* after that the service is still in their field and privacy, or in none. *)
Current == replay.gen = tip.queue.gen /\ replay.todo # <<>>
Within(t) ==
  /\ t.keyContext \in {replay.context, NoContext}
  /\ t.keyContext = replay.context =>
       \A i \in 1 .. Len(replay.todo) : replay.todo[i].privacy = t.keyPrivacy
LoopBound ==
  /\ Len(replay.todo) <= Capacity
  /\ \A i \in 1 .. Len(replay.todo) : replay.todo[i].field = replay.context
  /\ tip.context \in {replay.context, NoContext}
  /\ replay.gen <= tip.queue.gen
  /\ replay.todo # <<>> => Within(tip)
  /\ Current => tip.chinese /\ tip.keyContext = replay.context

(* No two of the keys have the same number, and none has one above n. *)
Numbered(keys, n) ==
  /\ \A i \in 1 .. Len(keys) : keys[i].id <= n
  /\ \A i, j \in 1 .. Len(keys) : keys[i].id = keys[j].id => i = j

Bound(t, n) == QueueBound(t) /\ Numbered(t.queue.keys, n)

OriginInv ==
  /\ Bound(tip, typed)
  /\ IF replay.on THEN LoopBound ELSE replay.todo = <<>>
  /\ Numbered(replay.todo, typed)

OriginIInv == QueueIInv /\ OriginInv

(* A call that leaves alone what QueueBound speaks of. *)
Alike(t, u) ==
  /\ u.queue = t.queue
  /\ u.context = t.context
  /\ u.chinese = t.chinese
  /\ u.keyContext = t.keyContext
  /\ u.keyPrivacy = t.keyPrivacy

------------------------------------------------------------------------------
(***************************************************************************)
(* The keys that a step lets take effect.                                  *)
(***************************************************************************)
(* What the two properties ask of a key that takes effect in c. *)
Entitled(key, c) ==
  /\ replay.step = "key" => tip.chinese
  /\ key.field = c
  /\ key.privacy = scope[c] \/ Regated(c) \/ TurnsPage(key)
Effects == EffectInField /\ (replay.step = "key" => EffectInChineseMode)

(* The properties, in these words. *)
LEMMA EntitledEffects ==
  ASSUME \A i \in DOMAIN PendingKeys : \A c \in Context :
           TakesEffect(PendingKeys[i], c) => Entitled(PendingKeys[i], c)
  PROVE  Effects
  BY DEF Effects, EffectInField, EffectInChineseMode, Entitled

(* Only keys whose numbers the step inserts take effect, and only there. *)
LEMMA EffectOf ==
  ASSUME text \in [Context -> Seq(Nat)], NEW d \in Context, NEW ids \in Seq(Nat),
         Took(d, ids), NEW key, NEW c \in Context, TakesEffect(key, c)
  PROVE  c = d /\ \E j \in 1 .. Len(ids) : ids[j] = key.id
<1> DEFINE more == text[d] \o ids
<1>1. /\ text[d] \in Seq(Nat) /\ Len(text[d]) \in Nat /\ Len(ids) \in Nat
      /\ more \in Seq(Nat) /\ Len(more) = Len(text[d]) + Len(ids)
      /\ \A i \in 1 .. Len(more) : more[i] = IF i <= Len(text[d]) THEN text[d][i]
                                             ELSE ids[i - Len(text[d])]
  BY ConcatProperties
<1>2. text' = [text EXCEPT ![d] = more]
  BY DEF Took
<1> HIDE DEF more
<1>3. PICK i \in DOMAIN text'[c] \ DOMAIN text[c] : text'[c][i] = key.id
  BY DEF TakesEffect
<1>4. c = d
  BY <1>2, <1>3
<1>5. text'[d] = more
  BY <1>2
<1>6. i \in 1 .. Len(more) /\ ~(i \in 1 .. Len(text[d])) /\ more[i] = key.id
  BY <1>1, <1>3, <1>4, <1>5
<1>7. i - Len(text[d]) \in 1 .. Len(ids) /\ ids[i - Len(text[d])] = key.id
  BY <1>1, <1>6
<1> QED
  BY <1>4, <1>7

(* A step that inserts nothing. *)
LEMMA NoEffects ==
  ASSUME UNCHANGED text
  PROVE  Effects
  BY EntitledEffects DEF TakesEffect

(* A step whose keys are all entitled, whichever of them it inserts. *)
LEMMA AllEntitled ==
  ASSUME text \in [Context -> Seq(Nat)], NEW d \in Context, NEW ids \in Seq(Nat),
         Took(d, ids), \A i \in DOMAIN PendingKeys : Entitled(PendingKeys[i], d)
  PROVE  Effects
  BY EffectOf, EntitledEffects

(* A step that inserts the number of no key that waits. *)
LEMMA NewEffects ==
  ASSUME text \in [Context -> Seq(Nat)], NEW d \in Context, NEW ids \in Seq(Nat),
         Took(d, ids),
         \A i \in DOMAIN PendingKeys : \A j \in 1 .. Len(ids) : ids[j] # PendingKeys[i].id
  PROVE  Effects
  BY EffectOf, EntitledEffects

(* The keys that wait are those of the queue, or those of the loop. *)
LEMMA PendingAre ==
  ASSUME OriginIInv
  PROVE  /\ ~replay.on => PendingKeys = tip.queue.keys
         /\ replay.on => PendingKeys = replay.todo /\ tip.queue.keys = <<>>
         /\ tip.queue.keys \in Seq(Key) /\ replay.todo \in Seq(Key)
<1>1. tip.queue.keys \in Seq(Key) /\ replay.todo \in Seq(Key)
  BY DEF OriginIInv, QueueIInv, IInv, World, Good, Tip, Queue, Replay
<1>2. ~replay.on => replay.todo = <<>>
  BY DEF OriginIInv, OriginInv
<1>3. replay.on => tip.queue.keys = <<>>
  BY DEF OriginIInv, QueueIInv, QueueInv, InReplay
<1> QED
  BY <1>1, <1>2, <1>3, ConcatEmptySeq DEF PendingKeys

(* What the invariant says of the types. *)
LEMMA OriginTypes ==
  ASSUME OriginIInv
  PROVE  /\ Good(tip) /\ QueueBound(tip) /\ QueueIInv /\ IInv
         /\ focus \in Context /\ scope \in [Context -> Privacy]
         /\ text \in [Context -> Seq(Nat)] /\ typed \in Nat
         /\ replay \in Replay /\ Bound(tip, typed)
         /\ replay.on => replay.context \in Context /\ LoopBound
  BY DEF OriginIInv, OriginInv, Bound, QueueIInv, IInv, World

(* The typed key is none of those that wait, however often it is inserted. *)
LEMMA NumberEffects ==
  ASSUME OriginIInv, ~replay.on, NEW d \in Context, NEW ids \in Seq(Nat),
         \A j \in 1 .. Len(ids) : ids[j] = typed + 1, Took(d, ids)
  PROVE  Effects
<1>1. typed \in Nat /\ text \in [Context -> Seq(Nat)]
  BY OriginTypes
<1>2. \A i \in 1 .. Len(tip.queue.keys) : tip.queue.keys[i].id <= typed
  BY DEF OriginIInv, OriginInv, Bound, Numbered
<1>3. \A i \in DOMAIN PendingKeys : PendingKeys[i].id <= typed /\ PendingKeys[i].id \in Nat
  <2>1. PendingKeys = tip.queue.keys /\ tip.queue.keys \in Seq(Key)
    BY PendingAre
  <2>2. \A i \in 1 .. Len(tip.queue.keys) : tip.queue.keys[i].id \in Nat
    <3>1. \A i \in 1 .. Len(tip.queue.keys) : tip.queue.keys[i] \in Key
      BY <2>1
    <3> QED
      BY <3>1 DEF Key
  <2>3. DOMAIN PendingKeys = 1 .. Len(tip.queue.keys)
    BY <2>1
  <2>4. ASSUME NEW i \in 1 .. Len(tip.queue.keys)
        PROVE  PendingKeys[i].id <= typed /\ PendingKeys[i].id \in Nat
    <3>1. tip.queue.keys[i].id <= typed /\ tip.queue.keys[i].id \in Nat
      BY <1>2, <2>2
    <3> QED
      BY <2>1, <3>1
  <2> QED
    BY <2>3, <2>4
<1>4. \A i \in DOMAIN PendingKeys : \A j \in 1 .. Len(ids) : ids[j] # PendingKeys[i].id
  BY <1>1, <1>3
<1> QED
  BY <1>1, <1>4, NewEffects

LEMMA TypedEffects ==
  ASSUME OriginIInv, ~replay.on, NEW d \in Context, NEW ids \in {<<>>, <<typed + 1>>},
         Took(d, ids)
  PROVE  Effects
<1>1. typed + 1 \in Nat
  BY OriginTypes
<1>2. ids \in Seq(Nat) /\ \A j \in 1 .. Len(ids) : ids[j] = typed + 1
  <2>1. CASE ids = <<>>
    BY <2>1
  <2>2. CASE ids = <<typed + 1>>
    BY <1>1, <2>2
  <2> QED
    BY <2>1, <2>2
<1> QED
  BY <1>2, NumberEffects

(* The queue may be inserted into c. *)
Entitles(t, c) ==
  /\ t.chinese
  /\ \A i \in 1 .. Len(t.queue.keys) : /\ t.queue.keys[i].field = c
                                       /\ t.queue.keys[i].privacy = scope[c]

(* A step that inserts the queue, or none of its keys. *)
LEMMA QueueEffects ==
  ASSUME OriginIInv, ~replay.on, NEW d \in Context, NEW ids \in Seq(Nat), Took(d, ids),
         ids \in {<<>>, <<typed + 1>>} \/ Entitles(tip, d)
  PROVE  Effects
<1>1. CASE ids \in {<<>>, <<typed + 1>>}
  BY <1>1, TypedEffects
<1>2. CASE Entitles(tip, d)
  <2>1. \A i \in DOMAIN PendingKeys : Entitled(PendingKeys[i], d)
    BY <1>2, PendingAre DEF Entitles, Entitled
  <2> QED
    BY <2>1, OriginTypes, AllEntitled
<1> QED
  BY <1>1, <1>2

------------------------------------------------------------------------------
(***************************************************************************)
(* The gate behind the edits: what a call may insert, and what it leaves.  *)
(***************************************************************************)
(* The call that turned t into u stayed in its field and privacy or left.  *)
Confined(t, u) ==
  \/ u.keyContext = NoContext
  \/ u.keyContext = t.keyContext /\ u.keyPrivacy = t.keyPrivacy

(* An edit in c would have to be refused. *)
Shut(t, c) == t.keyContext # c \/ t.keyPrivacy # scope[c]

(* The results of a call that does not open the gate: behind a shut gate   *)
(* they name no key, and those that failed have no session left.           *)
Behind(t, c, r) ==
  /\ Confined(t, r.tip)
  /\ Shut(t, c) => r.ids = <<>> /\ (r.failed => r.tip.session = "none")
Gated(t, c, S) == \A r \in S : Behind(t, c, r)

(* A gate that is shut stays shut. *)
LEMMA StaysShut ==
  ASSUME NEW t, NEW u, NEW c \in Context, Confined(t, u)
  PROVE  /\ Shut(t, c) => Shut(u, c)
         /\ \A v : Confined(u, v) => Confined(t, v)
  BY TextServiceAssumption DEF Confined, Shut

(* A single result that names no key. *)
LEMMA ResultGated ==
  ASSUME NEW t, NEW u, NEW c, Confined(t, u), NEW eaten
  PROVE  Gated(t, c, {Result(u, eaten, FALSE, <<>>)})
  BY DEF Gated, Behind, Result

(* SynchronizeInputMode changes the mode, not the field. *)
LEMMA SynchronizeConfined ==
  ASSUME NEW t, Good(t)
  PROVE  Confined(t, SynchronizeInputMode(t))
<1> DEFINE k == CancelStartupReplay(t)
<1>1. Good(k) /\ k.keyContext = t.keyContext /\ k.keyPrivacy = t.keyPrivacy
  BY CancelGood
<1>2. SynchronizeInputMode(t) = [k EXCEPT !.chinese = ~@, !.composing = FALSE]
  BY DEF SynchronizeInputMode
<1> HIDE DEF k
<1> QED
  BY <1>1, <1>2 DEF Good, Tip, Confined

(* ApplyCompositionEdit refuses behind a shut gate, and then it always fails. *)
LEMMA EditGated ==
  ASSUME NEW t, Good(t), NEW c \in Context, NEW ids
  PROVE  /\ Gated(t, c, ApplyCompositionEdit(t, c, ids))
         /\ Shut(t, c) => \A r \in ApplyCompositionEdit(t, c, ids) : r.failed /\ ~r.eaten
<1>1. CASE Shut(t, c)
  <2>1. ApplyCompositionEdit(t, c, ids) = {Result(AbandonSession(t), FALSE, TRUE, <<>>)}
    BY <1>1 DEF ApplyCompositionEdit, Shut
  <2> QED
    BY <2>1, AbandonGood DEF Gated, Behind, Confined, Result
<1>2. CASE ~Shut(t, c)
  <2> SUFFICES ASSUME NEW r \in ApplyCompositionEdit(t, c, ids)
               PROVE  Confined(t, r.tip)
    BY <1>2 DEF Gated, Behind
  <2>1. PICK u \in {t, AbandonSession(t), SynchronizeInputMode(t)} : \E i \in {<<>>, ids} :
          r = Result(u, FALSE, TRUE, i) \/ r = Result(u, TRUE, FALSE, i)
    BY Zenon DEF ApplyCompositionEdit, Reentered
  <2>2. r.tip = u
    BY <2>1 DEF Result
  <2>3. Confined(t, t) /\ Confined(t, AbandonSession(t))
    BY AbandonGood DEF Confined
  <2> QED
    BY <2>2, <2>3, SynchronizeConfined
<1> QED
  BY <1>1, <1>2

(* ApplyKeyResponse for a consumed answer. *)
LEMMA ConsumedGated ==
  ASSUME NEW t, Good(t), NEW c \in Context, NEW kind, NEW ids \in Seq(Nat),
         NEW preedit \in BOOLEAN
  PROVE  Gated(t, c, Consumed(t, c, kind, ids, preedit))
<1> DEFINE committed == IF kind = "space" /\ ~preedit THEN ids ELSE <<>>
           edited == ApplyCompositionEdit(t, c, committed)
<1>1. committed \in Seq(Nat)
  BY EmptyIds
<1>2. /\ GoodResults(edited) /\ Gated(t, c, edited)
      /\ Shut(t, c) => \A r \in edited : r.failed /\ ~r.eaten
  BY <1>1, EditGood, EditGated
<1> HIDE DEF edited, committed
<1> SUFFICES ASSUME NEW r \in edited
             PROVE  Gated(t, c, {IF r.failed
                                 THEN Result(AbandonSession(r.tip), FALSE, FALSE, r.ids)
                                 ELSE Result([r.tip EXCEPT !.composing = preedit],
                                             TRUE, FALSE, ids)})
  BY DEF Consumed, Gated, edited, committed
<1>3. Good(r.tip) /\ Behind(t, c, r) /\ (Shut(t, c) => r.failed)
  BY <1>2 DEF GoodResults, Gated
<1>4. CASE r.failed
  BY <1>3, <1>4, AbandonGood DEF Gated, Behind, Confined, Result
<1>5. CASE ~r.failed
  <2> DEFINE u == [r.tip EXCEPT !.composing = preedit]
  <2>1. u.keyContext = r.tip.keyContext /\ u.keyPrivacy = r.tip.keyPrivacy
    BY <1>3 DEF Good, Tip
  <2> HIDE DEF u
  <2>2. Confined(t, u) /\ ~Shut(t, c)
    BY <1>3, <1>5, <2>1 DEF Behind, Confined
  <2> QED
    BY <1>5, <2>2 DEF Gated, Behind, Result, u
<1> QED
  BY <1>4, <1>5

(* ApplyKeyResponse for every answer. *)
LEMMA KeyResponseGated ==
  ASSUME NEW t, Good(t), NEW c \in Context, NEW kind, NEW ids \in Seq(Nat)
  PROVE  Gated(t, c, ApplyKeyResponse(t, c, kind, ids))
<1>1. \A preedit \in PreeditAfter(kind) : Gated(t, c, Consumed(t, c, kind, ids, preedit))
  BY ConsumedGated DEF PreeditAfter
<1>2. Gated(t, c, {Result(t, FALSE, FALSE, <<>>)})
  BY ResultGated DEF Confined
<1>3. Gated(t, c, {Result(AbandonSession(t), FALSE, FALSE, <<>>)})
  BY ResultGated, AbandonGood DEF Confined
<1> SUFFICES ASSUME NEW answer \in Answers(t)
             PROVE  Gated(t, c, CASE answer = "consumed" ->
                         UNION {Consumed(t, c, kind, ids, preedit) : preedit \in PreeditAfter(kind)}
                    [] answer = "declined" -> {Result(t, FALSE, FALSE, <<>>)}
                    [] OTHER -> {Result(AbandonSession(t), FALSE, FALSE, <<>>)})
  BY Zenon DEF ApplyKeyResponse, Gated
<1>4. CASE answer = "consumed"
  BY <1>1, <1>4, Zenon DEF Gated
<1>5. CASE answer = "declined"
  BY <1>2, <1>5
<1>6. CASE answer # "consumed" /\ answer # "declined"
  BY <1>3, <1>6
<1> QED
  BY <1>4, <1>5, <1>6

(* Punctuation meets the gate twice. *)
LEMMA PunctuateGated ==
  ASSUME NEW t, Good(t), NEW c \in Context, NEW id \in Nat
  PROVE  Gated(t, c, Punctuate(t, c, id))
<1> DEFINE first == SelectBeforeMark(t, c)
<1>1. GoodResults(first) /\ Gated(t, c, first)
  BY KeyResponseGood, KeyResponseGated, EmptyIds DEF SelectBeforeMark
<1> HIDE DEF first
<1>2. ASSUME NEW r \in first
      PROVE  Gated(t, c, CommitText(r.tip, c, <<id>>))
  <2>1. Good(r.tip) /\ Confined(t, r.tip)
    BY <1>1 DEF GoodResults, Gated, Behind
  <2>2. Gated(r.tip, c, CommitText(r.tip, c, <<id>>))
    BY <2>1, EditGated DEF CommitText
  <2> QED
    BY <2>1, <2>2, StaysShut DEF Gated, Behind
<1>3. \A r \in first : Gated(t, c, IF r.eaten THEN CommitText(r.tip, c, <<id>>) ELSE {r})
  BY <1>1, <1>2 DEF Gated
<1>4. CASE t.composing
  BY <1>3, <1>4, Zenon DEF Punctuate, Gated, first
<1>5. CASE ~t.composing
  BY <1>5, EditGated DEF Punctuate, CommitText
<1> QED
  BY <1>4, <1>5

(* ProcessKeyDown for every kind of key: only the key that turns a page of *)
(* the candidate window meets no gate.                                     *)
LEMMA ProcessGated ==
  ASSUME NEW t, Good(t), NEW c \in Context, NEW key \in Key
  PROVE  \/ Gated(t, c, ProcessKeyDown(t, c, key))
         \/ /\ key.kind = "page" /\ t.composing
            /\ ProcessKeyDown(t, c, key) = {Result(t, TRUE, FALSE, <<key.id>>)}
<1> DEFINE u == [t EXCEPT !.composing = FALSE]
<1>1. key.id \in Nat /\ <<key.id>> \in Seq(Nat)
  BY DEF Key
<1>2. u \in Tip /\ u.queue = t.queue
  BY DEF Good, Tip
<1>3. /\ u.session = t.session
      /\ u.restricted = t.restricted
      /\ u.home = t.home
      /\ u.keyContext = t.keyContext
      /\ u.keyPrivacy = t.keyPrivacy
  BY DEF Good, Tip
<1>4. Good(u) /\ Confined(t, u)
  BY <1>2, <1>3, SameSession DEF Good, Confined
<1> HIDE DEF u
<1>5. Gated(t, c, Punctuate(t, c, key.id))
  BY <1>1, PunctuateGated
<1>6. Gated(t, c, CommitText(u, c, <<key.id>>))
  <2>1. Gated(u, c, CommitText(u, c, <<key.id>>))
    BY <1>4, EditGated DEF CommitText
  <2> QED
    BY <1>4, <2>1, StaysShut DEF Gated, Behind
<1>7. Gated(t, c, {Result(t, FALSE, FALSE, <<>>)})
  BY ResultGated DEF Confined
<1>8. Gated(t, c, ApplyKeyResponse(t, c, key.kind, <<key.id>>))
  BY <1>1, KeyResponseGated
<1> DEFINE process == ProcessKeyDown(t, c, key)
           turned == {Result(t, TRUE, FALSE, <<key.id>>)}
<1>9. \/ process = Punctuate(t, c, key.id)
      \/ key.kind = "page" /\ t.composing /\ process = turned
      \/ process = CommitText(u, c, <<key.id>>)
      \/ process = {Result(t, FALSE, FALSE, <<>>)}
      \/ process = ApplyKeyResponse(t, c, key.kind, <<key.id>>)
  <2> DEFINE A == Punctuate(t, c, key.id)
             C == CommitText(u, c, <<key.id>>)
             D == {Result(t, FALSE, FALSE, <<>>)}
             E == ApplyKeyResponse(t, c, key.kind, <<key.id>>)
  <2>1. process = CASE IsMark(t, key.kind) -> A
                    [] key.kind = "page" /\ t.composing -> turned
                    [] key.kind = "enter" /\ t.composing -> C
                    [] key.kind = "enter" /\ ~t.composing -> D
                    [] OTHER -> E
    BY DEF ProcessKeyDown, u
  <2> HIDE DEF process, turned, A, C, D, E
  <2>2. \/ process = A \/ (key.kind = "page" /\ t.composing /\ process = turned)
        \/ process = C \/ process = D \/ process = E
    BY <2>1
  <2> QED
    BY <2>2 DEF A, C, D, E
<1> HIDE DEF process, turned
<1>10. Gated(t, c, process) \/ (key.kind = "page" /\ t.composing /\ process = turned)
  BY <1>5, <1>6, <1>7, <1>8, <1>9
<1> QED
  BY <1>10 DEF process, turned

(* The text of AppendStartupFallbackKey. *)
LEMMA CommitFallbackGated ==
  ASSUME NEW t, Good(t), NEW c \in Context, NEW keys
  PROVE  Gated(t, c, CommitFallback(t, c, keys))
<1>1. Gated(t, c, CommitText(t, c, IdsOf(keys)))
  BY EditGated DEF CommitText
<1>2. Gated(t, c, {Result(t, FALSE, FALSE, <<>>)})
  BY ResultGated DEF Confined
<1> QED
  BY <1>1, <1>2 DEF CommitFallback

(* Neither the gate nor an edit makes a session. *)
LEMMA AllowSession ==
  ASSUME NEW t, Good(t), t.session = "none", NEW c
  PROVE  AllowKeyInContext(t, c).session = "none"
<1> DEFINE changed == t.keyContext # NoContext /\ t.keyContext # c
           kept == IF ShouldResetInputSession(t.keyPrivacy, scope[c], changed)
                   THEN AbandonSession(t) ELSE t
           a == [kept EXCEPT !.keyContext = c, !.keyPrivacy = scope[c]]
<1>1. Good(kept) /\ kept.session = "none" /\ AbandonSession(t).session = "none"
  BY AbandonGood
<1>2. AllowKeyInContext(t, c) = IF Allowed(c) THEN a ELSE AbandonSession(t)
  BY DEF AllowKeyInContext
<1> HIDE DEF kept
<1>3. a.session = "none"
  BY <1>1 DEF Good, Tip
<1> QED
  BY <1>1, <1>2, <1>3

LEMMA CommitFallbackSession ==
  ASSUME NEW t, Good(t), t.session = "none", NEW c, NEW keys,
         NEW r \in CommitFallback(t, c, keys)
  PROVE  r.tip.session = "none"
<1> DEFINE k == CancelStartupReplay(t)
<1>1. \E u \in {t, AbandonSession(t), SynchronizeInputMode(t)} : \E i \in {<<>>, IdsOf(keys)} :
        r = Result(u, FALSE, TRUE, i) \/ r = Result(u, TRUE, FALSE, i)
          \/ r = Result(u, FALSE, FALSE, i)
  BY Zenon DEF CommitFallback, CommitText, ApplyCompositionEdit, Reentered
<1>2. PICK u \in {t, AbandonSession(t), SynchronizeInputMode(t)} : r.tip = u
  BY <1>1 DEF Result
<1>3. Good(k) /\ k.session = "none"
  BY CancelGood
<1>4. SynchronizeInputMode(t) = [k EXCEPT !.chinese = ~@, !.composing = FALSE]
  BY DEF SynchronizeInputMode
<1> HIDE DEF k
<1>5. SynchronizeInputMode(t).session = "none"
  BY <1>3, <1>4 DEF Good, Tip
<1> QED
  BY <1>2, <1>5, AbandonGood

------------------------------------------------------------------------------
(***************************************************************************)
(* The calls around the queue: what they bind, and what they insert.       *)
(***************************************************************************)
(* Calls that leave the field and the mode alone, keep the queue or drop it. *)
LEMMA BoundStays ==
  ASSUME NEW t, NEW u, NEW n, Bound(t, n), Alike(t, u) \/ Moved(t, u)
  PROVE  Bound(u, n)
<1>1. CASE Alike(t, u)
  BY <1>1 DEF Alike, Bound, QueueBound
<1>2. CASE Kept(t, u)
  BY <1>2 DEF Kept, Marked, Bound, QueueBound
<1>3. CASE Dropped(t, u)
  BY <1>3 DEF Dropped, Bound, QueueBound, Numbered
<1> QED
  BY <1>1, <1>2, <1>3 DEF Moved

(* Later keys have higher numbers. *)
LEMMA BoundGrows ==
  ASSUME NEW t, Good(t), NEW n \in Nat, Bound(t, n)
  PROVE  Bound(t, n + 1)
<1>1. t.queue.keys \in Seq(Key)
  BY DEF Good, Tip, Queue
<1>2. \A i \in 1 .. Len(t.queue.keys) : t.queue.keys[i] \in Key
  BY <1>1
<1>3. \A i \in 1 .. Len(t.queue.keys) : t.queue.keys[i].id \in Nat
  BY <1>2 DEF Key
<1> QED
  BY <1>3 DEF Bound, Numbered

(* A queue in its field, behind a gate that has just been passed. *)
LEMMA BoundEntitles ==
  ASSUME NEW t, NEW c \in Context, QueueBound(t), t.queue.keys # <<>>, t.context = c,
         t.keyPrivacy = scope[c]
  PROVE  Entitles(t, c)
  BY TextServiceAssumption DEF QueueBound, Entitles

(* FallbackStartupKeys passes the gate before it inserts the queue. *)
LEMMA FallbackEntitled ==
  ASSUME NEW t, Good(t), QueueBound(t), NEW c \in Context, NEW gen,
         scope \in [Context -> Privacy], NEW r \in FallbackStartupKeys(t, c, gen),
         r.ids # <<>>
  PROVE  Entitles(t, c)
<1> DEFINE open == [t EXCEPT !.scheduled = FALSE]
           a == AllowKeyInContext(open, c)
           k == CancelStartupReplay(a)
<1>1. Good(open) /\ Alike(t, open)
  BY OpenGood DEF Good, Tip, Alike
<1>2. r \in IF gen # t.queue.gen THEN {Result(t, FALSE, FALSE, <<>>)}
            ELSE IF ~TargetHolds(t, c) THEN {Result(CancelStartupReplay(open), FALSE, FALSE, <<>>)}
            ELSE IF ~Allowed(c) \/ a.queue.gen # gen THEN {Result(a, FALSE, FALSE, <<>>)}
            ELSE CommitFallback(k, c, a.queue.keys)
  BY DEF FallbackStartupKeys
<1> HIDE DEF open
<1>3. Moved(open, a) /\ (Allowed(c) => Entered(a, c))
  BY <1>1, AllowGood, AllowMoves
<1> HIDE DEF a, k
<1>4. TargetHolds(t, c) /\ Allowed(c) /\ gen = t.queue.gen /\ a.queue.gen = gen
  BY <1>2 DEF Result
<1>5. Kept(open, a)
  BY <1>1, <1>3, <1>4, GenIsNat DEF Moved, Dropped, Alike
<1>6. t.queue.keys # <<>>
  BY FallbackTakes DEF IdsOf
<1>7. t.keyContext = c /\ c # NoContext /\ t.context = c
  BY <1>4, <1>6, TextServiceAssumption DEF QueueBound, TargetHolds
<1>8. t.keyPrivacy = scope[c]
  BY <1>1, <1>3, <1>4, <1>5, <1>7 DEF Kept, Alike, Entered
<1> QED
  BY <1>6, <1>7, <1>8, BoundEntitles

(* ScheduleStartupReplay with the fallback of its callers. *)
LEMMA ScheduleOrFallbackBinds ==
  ASSUME NEW t, Good(t), NEW n, Bound(t, n), NEW c \in Context, NEW gen,
         scope \in [Context -> Privacy], NEW r \in ScheduleOrFallback(t, c, gen)
  PROVE  /\ Bound(r.tip, n)
         /\ r.ids = <<>> \/ Entitles(t, c)
<1>1. CASE r = Result(ScheduleStartupReplay(t), TRUE, FALSE, <<>>)
  <2>1. Alike(t, ScheduleStartupReplay(t))
    BY DEF Alike, ScheduleStartupReplay, Good, Tip
  <2> QED
    BY <1>1, <2>1, BoundStays DEF Result
<1>2. CASE r \in FallbackStartupKeys(t, c, gen)
  <2>1. Moved(t, r.tip)
    BY <1>2, FallbackDrops, StaysMoved DEF Moved
  <2>2. QueueBound(t)
    BY DEF Bound
  <2> QED
    BY <1>2, <2>1, <2>2, BoundStays, FallbackEntitled
<1> QED
  BY <1>1, <1>2 DEF ScheduleOrFallback

(* A key with a new number. *)
LEMMA NumberedAppend ==
  ASSUME NEW keys \in Seq(Key), NEW key \in Key, NEW n \in Nat, Numbered(keys, n),
         key.id = n + 1
  PROVE  Numbered(Append(keys, key), n + 1)
<1> DEFINE more == Append(keys, key)
           m == Len(keys)
<1>1. /\ Len(more) = m + 1 /\ m \in Nat
      /\ more[m + 1] = key
      /\ \A i \in 1 .. m : more[i] = keys[i]
  BY AppendProperties
<1> HIDE DEF more
<1>2. \A i \in 1 .. m : keys[i] \in Key
  OBVIOUS
<1>3. \A i \in 1 .. m : more[i].id \in Nat /\ more[i].id <= n
  BY <1>1, <1>2 DEF Key, Numbered
<1>4. \A i, j \in 1 .. m : more[i].id = more[j].id => i = j
  BY <1>1 DEF Numbered
<1>5. more[m + 1].id = n + 1
  BY <1>1
<1> HIDE DEF m
<1>6. \A i \in 1 .. m + 1 : i \in 1 .. m \/ i = m + 1
  BY <1>1
<1>7. \A i \in 1 .. m + 1 : more[i].id <= n + 1
  BY <1>3, <1>5, <1>6
<1>8. \A i \in 1 .. m : more[i].id # n + 1
  BY <1>3
<1>9. \A i, j \in 1 .. m + 1 : more[i].id = more[j].id => i = j
  BY <1>4, <1>5, <1>6, <1>8
<1> QED
  BY <1>1, <1>7, <1>9 DEF Numbered, more

(* QueueStartupKey behind the gate: the key is bound with the others, and  *)
(* it does not drag keys along that are not entitled.                      *)
LEMMA QueueBinds ==
  ASSUME NEW t, Good(t), NEW n \in Nat, Bound(t, n), NEW c \in Context, NEW key \in Key,
         scope \in [Context -> Privacy], t.chinese, t.keyContext = c, t.keyPrivacy = scope[c],
         key.id = n + 1, key.field = c, key.privacy = scope[c],
         NEW r \in QueueStartupKey(t, c, key)
  PROVE  /\ Good(r.tip) /\ Bound(r.tip, n + 1)
         /\ ~r.failed
         /\ \/ r.ids = <<>>
            \/ r.eaten /\ r.ids = <<key.id>>
            \/ Entitles(t, c)
<1> DEFINE first == t.queue.keys = <<>>
           w == [t EXCEPT !.context = c, !.clock = "running", !.target = "held"]
           u == IF first THEN w ELSE t
           pushed == [u EXCEPT !.queue = Push(@, key)]
<1>1. /\ Good(u) /\ Bound(u, n) /\ u.queue = t.queue
      /\ u.chinese /\ u.keyContext = c /\ u.keyPrivacy = scope[c]
  <2>1. /\ Good(w) /\ w.queue = t.queue
        /\ w.chinese = t.chinese
        /\ w.keyContext = t.keyContext
        /\ w.keyPrivacy = t.keyPrivacy
    BY CaptureGood DEF Good, Tip
  <2> HIDE DEF w
  <2>2. first => Bound(w, n)
    BY <2>1 DEF Bound, QueueBound
  <2> QED
    BY <2>1, <2>2
<1>2. r \in (IF first THEN {Result(CancelStartupReplay(u), FALSE, FALSE, <<>>)} ELSE {}) \cup
            (IF u.context # c THEN {Result(CancelStartupReplay(u), TRUE, FALSE, <<>>)}
             ELSE IF IsFull(u.queue)
             THEN {Result(q.tip, q.failed, FALSE, q.ids) :
                     q \in FallbackStartupKeys(u, c, u.queue.gen)}
             ELSE {Result(q.tip, TRUE, FALSE, q.ids) :
                     q \in ScheduleOrFallback(pushed, c, pushed.queue.gen)})
  BY Zenon DEF QueueStartupKey
<1>3. Good(r.tip)
  BY QueueGood DEF GoodResults
<1> HIDE DEF u
<1>4. Dropped(u, r.tip) => Bound(r.tip, n + 1)
  BY <1>1, BoundGrows, BoundStays DEF Moved
<1>5. ASSUME r.tip = CancelStartupReplay(u)
      PROVE  Bound(r.tip, n + 1)
  BY <1>1, <1>4, <1>5, CancelDrops
<1>6. ASSUME \E q \in FallbackStartupKeys(u, c, u.queue.gen) : r.tip = q.tip
      PROVE  Bound(r.tip, n + 1)
  BY <1>1, <1>4, <1>6, FallbackDrops
<1>7. ASSUME u.context = c, ~IsFull(u.queue),
             \E q \in ScheduleOrFallback(pushed, c, pushed.queue.gen) : r.tip = q.tip
      PROVE  Bound(r.tip, n + 1)
  <2>1. Good(pushed)
    BY <1>1, <1>7, PushGood
  <2>2. /\ pushed.queue = Push(u.queue, key)
        /\ pushed.context = c
        /\ pushed.chinese
        /\ pushed.keyContext = c
        /\ pushed.keyPrivacy = scope[c]
    BY <1>1, <1>7 DEF Good, Tip
  <2>3. /\ u.queue.keys \in Seq(Key)
        /\ pushed.queue.keys = Append(u.queue.keys, key)
    BY <1>1, <2>2 DEF Push, Good, Tip, Queue
  <2> HIDE DEF pushed
  <2>4. /\ Len(pushed.queue.keys) = Len(u.queue.keys) + 1 /\ Len(u.queue.keys) \in Nat
        /\ pushed.queue.keys[Len(u.queue.keys) + 1] = key
        /\ \A i \in 1 .. Len(u.queue.keys) : pushed.queue.keys[i] = u.queue.keys[i]
    BY <2>3, AppendProperties
  <2>5. \A i \in 1 .. Len(u.queue.keys) + 1 :
          i \in 1 .. Len(u.queue.keys) \/ i = Len(u.queue.keys) + 1
    BY <2>4
  <2>6. QueueBound(pushed)
    <3>1. \A i \in 1 .. Len(u.queue.keys) : /\ u.queue.keys[i].field = c
                                            /\ u.queue.keys[i].privacy = scope[c]
      <4>1. CASE u.queue.keys = <<>>
        BY <4>1
      <4>2. CASE u.queue.keys # <<>>
        BY <1>1, <1>7, <4>2, TextServiceAssumption DEF Bound, QueueBound
      <4> QED
        BY <4>1, <4>2
    <3>2. \A i \in 1 .. Len(pushed.queue.keys) : /\ pushed.queue.keys[i].field = c
                                                 /\ pushed.queue.keys[i].privacy = scope[c]
      BY <2>4, <2>5, <3>1
    <3> QED
      BY <2>2, <3>2 DEF QueueBound
  <2>7. Numbered(pushed.queue.keys, n + 1)
    BY <1>1, <2>3, NumberedAppend DEF Bound
  <2> QED
    BY <1>7, <2>1, <2>6, <2>7, ScheduleOrFallbackBinds DEF Bound
<1> HIDE DEF pushed
<1>8. Bound(r.tip, n + 1)
  BY <1>2, <1>5, <1>6, <1>7 DEF Result
<1>9. TargetHolds(t, c) /\ t.queue.keys # <<>> => Entitles(t, c)
  BY BoundEntitles DEF TargetHolds, Bound
<1>10. IdsOf(<<>>) = <<>> /\ Append(<<>>, key.id) = <<key.id>>
  BY DEF IdsOf
<1>11. /\ ~r.failed
       /\ \/ r.ids = <<>>
          \/ /\ r.ids = IdsOf(t.queue.keys)
             /\ TargetHolds(t, c)
          \/ /\ r.eaten /\ r.ids = Append(IdsOf(t.queue.keys), key.id)
             /\ t.queue.keys = <<>> \/ TargetHolds(t, c)
  BY QueueTakes
<1> QED
  BY <1>3, <1>8, <1>9, <1>10, <1>11

------------------------------------------------------------------------------
(***************************************************************************)
(* The actions.                                                            *)
(***************************************************************************)
(* At the start no key waits. *)
LEMMA InitOrigin == Init => OriginIInv
<1> SUFFICES ASSUME Init PROVE OriginIInv
  OBVIOUS
<1>1. tip.queue.keys = <<>> /\ ~replay.on /\ replay.todo = <<>>
  BY DEF Init, NewQueue, Idle
<1>2. Numbered(<<>>, typed)
  BY DEF Numbered
<1> QED
  BY <1>1, <1>2, InitQueueInv DEF OriginIInv, OriginInv, Bound, QueueBound

(* A step outside the loop needs only this of the record it leaves. *)
LEMMA RestOrigin ==
  ASSUME OriginIInv, ~replay'.on, replay'.todo = <<>>, Bound(tip', typed')
  PROVE  OriginInv'
<1>1. Numbered(<<>>, typed')
  BY DEF Numbered
<1> QED
  BY <1>1 DEF OriginInv, Bound, QueueBound, Numbered

(* A step outside the loop that inserts nothing and types nothing. *)
LEMMA QuietOrigin ==
  ASSUME OriginIInv, ~replay.on, UNCHANGED <<replay, text, typed>>,
         Alike(tip, tip') \/ Moved(tip, tip')
  PROVE  Effects /\ OriginInv'
<1>1. Bound(tip', typed')
  BY OriginTypes, BoundStays
<1>2. ~replay'.on /\ replay'.todo = <<>>
  BY DEF OriginIInv, OriginInv
<1> QED
  BY <1>1, <1>2, NoEffects, RestOrigin

(* OnTestKeyDown, OnKeyDown and HandleKeyDown. *)
LEMMA KeyOrigin ==
  ASSUME OriginIInv, NEW kind \in Kind,
         HostKey(kind) \/ KeyDenied(kind) \/ KeyBypassed(kind) \/ CancelKey(kind)
           \/ KeyBehindQueue(kind) \/ KeyToEngine(kind)
  PROVE  Effects /\ OriginInv'
<1> DEFINE a == AllowKeyInContext(tip, focus)
           key == TypedKey(kind)
<1>1. /\ Good(tip) /\ Bound(tip, typed) /\ IInv /\ typed \in Nat
      /\ focus \in Context /\ scope \in [Context -> Privacy]
      /\ text \in [Context -> Seq(Nat)]
  BY OriginTypes
<1>2. Typing
  BY DEF HostKey, KeyDenied, KeyBypassed, CancelKey, KeyBehindQueue, KeyToEngine, KeyAllowed
<1>3. /\ ~replay.on /\ ~replay'.on /\ replay'.todo = <<>> /\ typed' = typed + 1
  BY <1>2 DEF Typing, OriginIInv, OriginInv
<1>4. Bound(tip', typed + 1) => OriginInv'
  BY <1>3, RestOrigin
<1>5. /\ key \in Key /\ key.id = typed + 1 /\ key.field = focus
      /\ key.privacy = scope[focus]
  BY <1>1, TypedKeyIsKey DEF TypedKey
<1>6. Good(a) /\ Moved(tip, a) /\ (Allowed(focus) => Entered(a, focus))
  BY <1>1, AllowGood, AllowMoves
<1>7. Bound(a, typed)
  BY <1>1, <1>6, BoundStays
<1> HIDE DEF a, key
<1>8. ASSUME NEW t, Good(t), Bound(t, typed), t.chinese, Entered(t, focus),
             Entitles(t, focus) => Entitles(tip, focus) \/ t.queue.keys = <<>>,
             NEW r \in QueueStartupKey(t, focus, key), KeyEdit(r, typed + 1)
      PROVE  Effects /\ OriginInv'
  <2>1. /\ Good(r.tip) /\ Bound(r.tip, typed + 1)
        /\ ~r.failed
        /\ \/ r.ids = <<>>
           \/ r.eaten /\ r.ids = <<key.id>>
           \/ Entitles(t, focus)
    BY <1>1, <1>5, <1>8, QueueBinds DEF Entered
  <2> DEFINE ids == IF ~r.eaten THEN Append(r.ids, typed + 1) ELSE r.ids
  <2>2. tip' = r.tip /\ Took(focus, ids)
    BY <1>8, <2>1 DEF KeyEdit
  <2>3. ids \in Seq(Nat)
    <3>1. r.ids \in Seq(Nat) /\ typed + 1 \in Nat
      BY <1>1, <1>5, <1>8, QueueGood DEF GoodResults
    <3> QED
      BY <3>1
  <2>4. ids \in {<<>>, <<typed + 1>>} \/ Entitles(tip, focus)
    <3>1. Append(<<>>, typed + 1) = <<typed + 1>> /\ IdsOf(<<>>) = <<>>
      BY DEF IdsOf
    <3>2. CASE Entitles(tip, focus)
      BY <3>2
    <3>3. CASE ~Entitles(t, focus)
      BY <1>5, <2>1, <3>1, <3>3
    <3>4. CASE t.queue.keys = <<>>
      <4>1. r.ids = <<>> \/ (r.eaten /\ r.ids = <<typed + 1>>)
        BY <1>1, <1>5, <1>8, <3>1, <3>4, QueueTakes
      <4> QED
        BY <3>1, <4>1
    <3> QED
      BY <1>8, <3>2, <3>3, <3>4
  <2> QED
    BY <1>1, <1>3, <1>4, <2>1, <2>2, <2>3, <2>4, QueueEffects
<1>9. ASSUME Took(focus, <<>>) \/ Took(focus, <<typed + 1>>)
      PROVE  Effects
  BY <1>1, <1>3, <1>9, TypedEffects
<1>10. ASSUME Dropped(tip, tip')
       PROVE  OriginInv'
  BY <1>1, <1>4, <1>10, BoundGrows, BoundStays DEF Moved
<1>11. CASE HostKey(kind)
  <2>1. Alike(tip, tip')
    BY <1>1, <1>11 DEF HostKey, Good, Tip, Alike
  <2>2. Bound(tip', typed + 1)
    BY <1>1, <2>1, BoundGrows, BoundStays
  <2>3. Took(focus, <<typed + 1>>)
    BY <1>11 DEF HostKey
  <2> QED
    BY <1>4, <1>9, <2>2, <2>3
<1>12. CASE KeyDenied(kind)
  <2>1. Dropped(tip, tip') /\ Took(focus, <<typed + 1>>)
    BY <1>1, <1>12, AbandonDrops DEF KeyDenied
  <2> QED
    BY <1>9, <1>10, <2>1
<1>13. CASE CancelKey(kind)
  <2>1. tip' = CancelStartupReplay(a) /\ UNCHANGED text
    BY <1>13 DEF CancelKey, a
  <2>2. tip'.queue.keys = <<>>
    BY <1>6, <2>1, CancelGood
  <2>3. Bound(tip', typed + 1)
    BY <2>2 DEF Bound, QueueBound, Numbered
  <2> QED
    BY <1>4, <2>1, <2>3, NoEffects
<1>14. CASE KeyBehindQueue(kind)
  <2>1. PICK r \in QueueStartupKey(a, focus, key) : KeyEdit(r, typed + 1)
    BY <1>14 DEF KeyBehindQueue, a, key
  <2>2. Allowed(focus) /\ a.queue.keys # <<>> /\ a.chinese
    BY <1>14 DEF KeyBehindQueue, KeyAllowed, ShouldHandleKey, a
  <2>3. a.queue = tip.queue /\ a.chinese = tip.chinese
    BY <1>6, <2>2 DEF Moved, Kept, Marked, Dropped
  <2>4. Entitles(a, focus) => Entitles(tip, focus)
    BY <2>3 DEF Entitles
  <2> QED
    BY <1>6, <1>7, <1>8, <2>1, <2>2, <2>4
<1>15. CASE KeyToEngine(kind)
  <2>1. PICK s \in SessionForKey(a, kind) :
          \E r \in IF s.ok THEN ProcessKeyDown(s.tip, focus, key)
                   ELSE QueueStartupKey(s.tip, focus, key) :
            KeyEdit(r, typed + 1)
    BY <1>15 DEF KeyToEngine, a, key
  <2>2. Allowed(focus) /\ a.queue.keys = <<>> /\ a.chinese
    BY <1>15 DEF KeyToEngine, KeyAllowed, ShouldHandleKey, a
  <2>3. Entered(a, focus) /\ a.keyContext # NoContext
    BY <1>1, <1>6, <2>2, TextServiceAssumption DEF Entered
  <2>4. Good(s.tip) /\ Kept(a, s.tip)
    BY <1>6, <2>3, SessionForKeyGood, EnsureKeeps, StaysMoved DEF SessionForKey
  <2>5. s.tip.queue.keys = <<>> /\ s.tip.chinese /\ Entered(s.tip, focus)
    BY <2>2, <2>3, <2>4 DEF Kept, Marked, Entered
  <2>6. CASE \E r \in ProcessKeyDown(s.tip, focus, key) : KeyEdit(r, typed + 1)
    <3>1. PICK r \in ProcessKeyDown(s.tip, focus, key) : KeyEdit(r, typed + 1)
      BY <2>6
    <3>2. Good(r.tip) /\ Moved(s.tip, r.tip)
      BY <1>5, <2>4, <3>1, ProcessGood, ProcessMoves DEF GoodResults, MovedResults
    <3>3. r.tip.queue.keys = <<>>
      BY <2>5, <3>2 DEF Moved, Kept, Marked, Dropped
    <3>4. tip'.queue.keys = <<>>
      BY <3>1, <3>2, <3>3, AbandonDrops DEF KeyEdit, Dropped
    <3>5. Bound(tip', typed + 1)
      BY <3>4 DEF Bound, QueueBound, Numbered
    <3>6. r.ids \in {<<>>, <<typed + 1>>}
      BY <1>5, <3>1, ProcessTakes DEF Takes
    <3> DEFINE ids == IF r.failed \/ ~r.eaten THEN Append(r.ids, typed + 1) ELSE r.ids
    <3>7. Took(focus, ids)
      BY <3>1 DEF KeyEdit
    <3>8. typed + 1 \in Nat
      BY <1>1
    <3>9. ids \in Seq(Nat) /\ \A j \in 1 .. Len(ids) : ids[j] = typed + 1
      <4> DEFINE more == Append(r.ids, typed + 1)
      <4>1. r.ids \in Seq(Nat) /\ \A j \in 1 .. Len(r.ids) : r.ids[j] = typed + 1
        <5>1. CASE r.ids = <<>>
          BY <5>1
        <5>2. CASE r.ids = <<typed + 1>>
          BY <3>8, <5>2
        <5> QED
          BY <3>6, <5>1, <5>2
      <4>2. /\ more \in Seq(Nat) /\ Len(more) = Len(r.ids) + 1 /\ Len(r.ids) \in Nat
            /\ \A j \in 1 .. Len(r.ids) : more[j] = r.ids[j]
            /\ more[Len(r.ids) + 1] = typed + 1
        BY <3>8, <4>1, AppendProperties
      <4> HIDE DEF more
      <4>3. \A j \in 1 .. Len(more) : more[j] = typed + 1
        BY <4>1, <4>2
      <4>4. ids = more \/ ids = r.ids
        BY DEF more
      <4> HIDE DEF ids
      <4> QED
        BY <4>1, <4>2, <4>3, <4>4
    <3> HIDE DEF ids
    <3>10. Effects
      BY <1>1, <1>3, <3>7, <3>9, NumberEffects
    <3> QED
      BY <1>4, <3>5, <3>10
  <2>7. CASE \E r \in QueueStartupKey(s.tip, focus, key) : KeyEdit(r, typed + 1)
    <3>1. Bound(s.tip, typed)
      BY <1>7, <2>4, BoundStays DEF Moved
    <3> QED
      BY <1>8, <2>4, <2>5, <2>7, <3>1
  <2> QED
    BY <2>1, <2>6, <2>7
<1>16. CASE KeyBypassed(kind)
  <2>1. /\ tip' = a /\ Took(focus, <<typed + 1>>)
        /\ tip.chinese
        /\ ~a.chinese \/ a.queue.keys = <<>>
    BY <1>16 DEF KeyBypassed, ShouldHandleKey, a
  <2>2. a.queue.keys = <<>>
    BY <1>6, <2>1 DEF Moved, Kept, Marked, Dropped
  <2>3. Bound(tip', typed + 1)
    BY <2>1, <2>2 DEF Bound, QueueBound, Numbered
  <2> QED
    BY <1>4, <1>9, <2>1, <2>3
<1> QED
  BY <1>11, <1>12, <1>13, <1>14, <1>15, <1>16

(* A step, in the loop or outside, that leaves the keys and the record alone. *)
LEMMA AlikeOrigin ==
  ASSUME OriginIInv, UNCHANGED <<replay, text, typed>>, Alike(tip, tip')
  PROVE  Effects /\ OriginInv'
<1>1. Bound(tip', typed)
  BY OriginTypes, BoundStays
<1>2. LoopBound => LoopBound'
  BY DEF LoopBound, Current, Within, Alike
<1>3. OriginInv'
  BY <1>1, <1>2 DEF OriginIInv, OriginInv, Bound, QueueBound, Numbered
<1> QED
  BY <1>3, NoEffects

(* OnStartupTimer, and the passing of time. *)
LEMMA TimerOrigin ==
  ASSUME OriginIInv, TimerCancels \/ TimerFallsBack \/ TimerReplays \/ ClockExpires
  PROVE  Effects /\ OriginInv'
<1>1. Good(tip)
  BY OriginTypes
<1>2. OnTimer => ~replay.on /\ UNCHANGED <<replay, text, typed>>
  BY DEF OnTimer
<1>3. ASSUME NEW u, Good(u), Alike(tip, u), NEW fallback, RequestStartupEdit(u, fallback)
      PROVE  Alike(tip, tip') \/ Moved(tip, tip')
  <2>1. CASE tip' = [u EXCEPT !.timer = FALSE, !.scheduled = TRUE]
    BY <1>3, <2>1 DEF Good, Tip, Alike
  <2>2. CASE tip' = CancelStartupReplay(u)
    <3>1. Dropped(u, tip')
      BY <1>3, <2>2, CancelDrops
    <3> QED
      BY <1>3, <3>1 DEF Alike, Dropped, Moved
  <2> QED
    BY <1>3, <2>1, <2>2 DEF RequestStartupEdit
<1>4. CASE TimerCancels
  <2>1. Dropped(tip, tip')
    BY <1>1, <1>4, CancelDrops DEF TimerCancels
  <2> QED
    BY <1>2, <1>4, <2>1, QuietOrigin DEF TimerCancels, Moved
<1>5. CASE TimerFallsBack
  <2> DEFINE u == [tip EXCEPT !.launched = FALSE]
  <2>1. /\ u \in Tip /\ Alike(tip, u)
        /\ u.session = tip.session
        /\ u.restricted = tip.restricted
        /\ u.home = tip.home
    BY <1>1 DEF Good, Tip, Alike
  <2>2. RequestStartupEdit(u, TRUE)
    BY <1>5 DEF TimerFallsBack
  <2> HIDE DEF u
  <2>3. Good(u)
    BY <1>1, <2>1, SameSession DEF Good, Alike
  <2> QED
    BY <1>2, <1>3, <1>5, <2>1, <2>2, <2>3, QuietOrigin DEF TimerFallsBack
<1>6. CASE TimerReplays
  <2>1. Alike(tip, tip)
    BY DEF Alike
  <2> QED
    BY <1>1, <1>2, <1>3, <1>6, <2>1, QuietOrigin DEF TimerReplays
<1>7. CASE ClockExpires
  BY <1>1, <1>7, AlikeOrigin DEF ClockExpires, Good, Tip, Alike
<1> QED
  BY <1>4, <1>5, <1>6, <1>7

(* The host, the published mode, the mode key and the broker process. *)
LEMMA HostOrigin ==
  ASSUME OriginIInv,
         \/ \E c \in Context : \/ HostFocuses(c)
                              \/ \E privacy \in Privacy : HostRescopes(c, privacy)
         \/ HostMovesCaret \/ LoseFocus \/ ModePublished \/ ToggleInputMode
         \/ BrokerReady \/ BrokerExits
  PROVE  Effects /\ OriginInv'
<1>1. Good(tip) /\ IInv
  BY OriginTypes
<1>2. CASE \E c \in Context : \/ HostFocuses(c)
                            \/ \E privacy \in Privacy : HostRescopes(c, privacy)
  BY <1>2, AlikeOrigin DEF HostFocuses, HostRescopes, OfHost, Alike
<1>3. CASE HostMovesCaret
  BY <1>1, <1>3, AlikeOrigin DEF HostMovesCaret, OnHost, OfHost, Alike, Good, Tip
<1>4. CASE LoseFocus \/ ModePublished \/ ToggleInputMode
  <2>1. Moved(tip, tip')
    BY <1>1, <1>4, HostDrops DEF Moved
  <2>2. OnHost /\ UNCHANGED text
    BY <1>4 DEF LoseFocus, ModePublished, ToggleInputMode
  <2> QED
    BY <2>1, <2>2, QuietOrigin DEF OnHost, OfHost
<1>5. CASE BrokerReady
  BY <1>5, AlikeOrigin DEF BrokerReady, Alike
<1>6. CASE BrokerExits
  BY <1>1, <1>6, AlikeOrigin DEF BrokerExits, Alike, Good, Tip
<1> QED
  BY <1>2, <1>3, <1>4, <1>5, <1>6

(* The edits TSF grants. *)
LEMMA GrantOrigin ==
  ASSUME OriginIInv, NEW e \in edits,
         GrantFallback(e) \/ ReplayRefused(e) \/ ReplayWaits(e) \/ ReplayStarts(e)
  PROVE  Effects /\ OriginInv'
<1> DEFINE open == [tip EXCEPT !.scheduled = FALSE]
           a == Opened(e)
           c == e.context
<1>1. /\ Good(tip) /\ Bound(tip, typed) /\ QueueBound(tip) /\ scope \in [Context -> Privacy]
      /\ text \in [Context -> Seq(Nat)]
  BY OriginTypes
<1>2. c \in Context /\ c # NoContext /\ e.gen \in Nat
  BY OriginTypes, TextServiceAssumption DEF IInv, World, Edit
<1>3. ~replay.on /\ replay.todo = <<>> /\ typed' = typed
  BY DEF GrantFallback, ReplayRefused, ReplayWaits, ReplayStarts, Granting,
         OriginIInv, OriginInv
<1>4. UNCHANGED replay /\ Bound(tip', typed) => OriginInv'
  BY <1>3, RestOrigin
<1>5. Good(open) /\ Alike(tip, open) /\ a = AllowKeyInContext(open, c)
  BY <1>1, OpenGood DEF Opened, Good, Tip, Alike
<1> HIDE DEF open
<1>6. Good(a) /\ Moved(open, a) /\ (Allowed(c) => Entered(a, c))
  BY <1>1, <1>2, <1>5, AllowGood, AllowMoves
<1>7. Bound(a, typed)
  BY <1>1, <1>5, <1>6, BoundStays
<1> HIDE DEF a
<1>8. CASE GrantFallback(e)
  <2>1. PICK r \in FallbackStartupKeys(tip, c, e.gen) : tip' = r.tip /\ Took(c, r.ids)
    BY <1>8 DEF GrantFallback
  <2>2. Moved(tip, r.tip)
    BY <1>1, <1>2, FallbackDrops, StaysMoved DEF Moved
  <2>3. Bound(tip', typed) /\ UNCHANGED replay
    BY <1>1, <1>8, <2>1, <2>2, BoundStays DEF GrantFallback
  <2>4. r.ids \in Seq(Nat)
    BY <1>1, <1>2, FallbackGood DEF GoodResults
  <2>5. r.ids = <<>> \/ Entitles(tip, c)
    BY <1>1, <1>2, FallbackEntitled
  <2> HIDE DEF c
  <2> QED
    BY <1>2, <1>3, <1>4, <2>1, <2>3, <2>4, <2>5, QueueEffects
<1>9. CASE ReplayRefused(e)
  <2>1. tip' = IF e.gen # tip.queue.gen THEN tip
               ELSE IF TargetHolds(tip, c) THEN a ELSE CancelStartupReplay(tip)
    BY <1>9 DEF ReplayRefused, a
  <2>2. Bound(CancelStartupReplay(tip), typed)
    BY <1>1, CancelDrops, BoundStays DEF Moved
  <2>3. Bound(tip', typed)
    BY <1>1, <1>7, <2>1, <2>2
  <2> QED
    BY <1>4, <1>9, <2>3, NoEffects DEF ReplayRefused
<1>10. ASSUME e.gen = tip.queue.gen, GateHolds(e), NEW s \in EnsureSession(a)
       PROVE  /\ Good(s.tip) /\ Bound(s.tip, typed)
              /\ s.tip.queue = tip.queue /\ s.tip.context = c /\ s.tip.chinese = tip.chinese
  <2>1. TargetHolds(tip, c) /\ Allowed(c) /\ a.queue.gen = tip.queue.gen
    BY <1>10 DEF GateHolds, a
  <2>2. Kept(open, a)
    BY <1>1, <1>5, <1>6, <2>1, GenIsNat DEF Moved, Dropped, Alike
  <2>3. a.keyContext # NoContext
    BY <1>2, <1>6, <2>1 DEF Entered
  <2>4. Good(s.tip) /\ Kept(a, s.tip)
    BY <1>6, <1>10, <2>3, EnsureGood, EnsureKeeps
  <2>5. Bound(s.tip, typed)
    BY <1>7, <2>4, BoundStays DEF Moved
  <2> QED
    BY <1>5, <2>1, <2>2, <2>4, <2>5 DEF Kept, Marked, Alike, TargetHolds
<1>11. CASE ReplayWaits(e)
  <2>1. PICK s \in EnsureSession(a) :
          \E r \in ScheduleOrFallback(s.tip, c, e.gen) : tip' = r.tip /\ Took(c, r.ids)
    BY <1>11 DEF ReplayWaits, a
  <2>2. /\ Good(s.tip) /\ Bound(s.tip, typed)
        /\ s.tip.queue = tip.queue /\ s.tip.chinese = tip.chinese
        /\ UNCHANGED replay
    BY <1>10, <1>11 DEF ReplayWaits
  <2>3. PICK r \in ScheduleOrFallback(s.tip, c, e.gen) : tip' = r.tip /\ Took(c, r.ids)
    BY <2>1
  <2>4. /\ Bound(r.tip, typed)
        /\ r.ids = <<>> \/ Entitles(s.tip, c)
    BY <1>1, <1>2, <2>2, ScheduleOrFallbackBinds
  <2>5. r.ids \in Seq(Nat)
    BY <1>1, <1>2, <2>2, ScheduleOrFallbackGood DEF GoodResults
  <2>6. Entitles(s.tip, c) => Entitles(tip, c)
    BY <2>2 DEF Entitles
  <2> HIDE DEF c
  <2> QED
    BY <1>2, <1>3, <1>4, <2>2, <2>3, <2>4, <2>5, <2>6, QueueEffects
<1>12. CASE ReplayStarts(e)
  <2>1. PICK s \in EnsureSession(a) :
          /\ tip' = [s.tip EXCEPT !.queue = Taken(@)]
          /\ replay' = [on |-> TRUE, step |-> "key", gen |-> e.gen, context |-> c,
                        todo |-> s.tip.queue.keys, left |-> Batch]
    BY <1>12 DEF ReplayStarts, a
  <2>2. /\ Good(s.tip) /\ Bound(s.tip, typed)
        /\ s.tip.queue = tip.queue /\ s.tip.context = c
        /\ e.gen = tip.queue.gen /\ UNCHANGED text
    BY <1>10, <1>12 DEF ReplayStarts
  <2>3. /\ replay'.on /\ replay'.gen = e.gen /\ replay'.context = c
        /\ replay'.todo = s.tip.queue.keys
    BY <2>1
  <2>4. /\ tip'.queue = Taken(s.tip.queue)
        /\ tip'.context = c
        /\ tip'.chinese = s.tip.chinese
        /\ tip'.keyContext = s.tip.keyContext
        /\ tip'.keyPrivacy = s.tip.keyPrivacy
    BY <2>1, <2>2 DEF Good, Tip
  <2>5. tip'.queue.keys = <<>> /\ tip'.queue.gen = e.gen
    BY <2>2, <2>4 DEF Good, Tip, Queue, Taken
  <2> HIDE DEF c
  <2>6. s.tip.queue.keys # <<>> =>
          /\ s.tip.chinese /\ s.tip.keyContext = c
          /\ \A i \in 1 .. Len(s.tip.queue.keys) : /\ s.tip.queue.keys[i].field = c
                                                   /\ s.tip.queue.keys[i].privacy = s.tip.keyPrivacy
    BY <1>2, <2>2 DEF Bound, QueueBound
  <2>7. /\ Len(s.tip.queue.keys) <= Capacity
        /\ \A i \in 1 .. Len(s.tip.queue.keys) : s.tip.queue.keys[i].field = c
    <3>1. CASE s.tip.queue.keys = <<>>
      BY <2>2, <3>1 DEF Good
    <3>2. CASE s.tip.queue.keys # <<>>
      BY <2>2, <2>6, <3>2 DEF Good
    <3> QED
      BY <3>1, <3>2
  <2>8. LoopBound'
    BY <1>2, <2>3, <2>4, <2>5, <2>6, <2>7 DEF LoopBound, Current, Within
  <2>9. Bound(tip', typed')
    BY <2>5 DEF Bound, QueueBound, Numbered
  <2>10. Numbered(replay'.todo, typed')
    BY <1>3, <2>2, <2>3 DEF Bound
  <2>11. OriginInv'
    BY <2>3, <2>8, <2>9, <2>10 DEF OriginInv, Bound, QueueBound, Numbered
  <2> QED
    BY <2>2, <2>11, NoEffects
<1> QED
  BY <1>8, <1>9, <1>11, <1>12

(* What a step of the loop starts from. *)
LEMMA LoopOrigin ==
  ASSUME OriginIInv, Looping
  PROVE  /\ replay.on /\ typed' = typed
         /\ PendingKeys = replay.todo /\ tip.queue.keys = <<>>
         /\ replay.todo \in Seq(Key) /\ replay.context \in Context
         /\ LoopBound /\ Numbered(replay.todo, typed)
         /\ replay.gen = tip.queue.gen \/ tip.context = NoContext
<1>1. replay.on /\ typed' = typed
  BY DEF Looping
<1>2. replay.gen = tip.queue.gen \/ tip.context = NoContext
  BY <1>1 DEF OriginIInv, QueueIInv, QueueInv, InReplay
<1> QED
  BY <1>1, <1>2, PendingAre, OriginTypes DEF OriginIInv, OriginInv

(* A step that ends the loop. *)
LEMMA IdleOrigin ==
  ASSUME OriginIInv, replay' = Idle, Bound(tip', typed')
  PROVE  OriginInv'
<1>1. ~Idle.on /\ Idle.todo = <<>>
  BY DEF Idle
<1> QED
  BY <1>1, RestOrigin

(* A step of the loop that goes on, with its keys or behind the head. *)
LEMMA LoopGoesOn ==
  ASSUME OriginIInv, IInv', Looping, replay.todo # <<>>,
         Moved(tip, tip'), Confined(tip, tip'),
         replay' = Advance \/ \E step : replay' = At(step)
  PROVE  OriginInv'
<1> DEFINE todo == replay.todo
           more == replay'.todo
           c == replay.context
<1>1. /\ replay.on /\ typed' = typed /\ tip.queue.keys = <<>>
      /\ todo \in Seq(Key) /\ c \in Context
      /\ LoopBound /\ Numbered(todo, typed)
  BY LoopOrigin
<1>2. /\ Good(tip) /\ Bound(tip, typed) /\ IInv /\ replay \in Replay
  BY OriginTypes
<1>3. /\ replay'.on /\ replay'.context = c /\ replay'.gen = replay.gen
      /\ more = Tail(todo) \/ more = todo
  BY <1>1, <1>2 DEF Advance, At, Replay
<1>4. /\ Len(todo) \in Nat \ {0}
      /\ Len(Tail(todo)) = Len(todo) - 1
      /\ \A i \in 1 .. Len(todo) - 1 : Tail(todo)[i] = todo[i + 1]
  BY <1>1, HeadTailProperties
<1> HIDE DEF todo, more, c
<1>5. PICK k \in {0, 1} : /\ Len(more) = Len(todo) - k
                          /\ \A i \in 1 .. Len(todo) - k : more[i] = todo[i + k]
  <2>1. CASE more = Tail(todo)
    BY <1>4, <2>1
  <2>2. CASE more = todo
    <3>1. Len(more) = Len(todo) - 0 /\ \A i \in 1 .. Len(todo) - 0 : more[i] = todo[i + 0]
      BY <1>4, <2>2
    <3> QED
      BY <3>1
  <2> QED
    BY <1>3, <2>1, <2>2
<1>6. \A i \in 1 .. Len(more) : i + k \in 1 .. Len(todo) /\ more[i] = todo[i + k]
  BY <1>4, <1>5
<1>7. Numbered(more, typed)
  <2>1. \A i \in 1 .. Len(more) : more[i].id <= typed
    BY <1>1, <1>6 DEF Numbered
  <2>2. ASSUME NEW i \in 1 .. Len(more), NEW j \in 1 .. Len(more), more[i].id = more[j].id
        PROVE  i = j
    <3>1. i + k = j + k
      BY <1>1, <1>6, <2>2 DEF Numbered
    <3> QED
      BY <1>4, <1>5, <3>1
  <2> QED
    BY <2>1, <2>2 DEF Numbered
<1>8. /\ Len(todo) <= Capacity
      /\ \A i \in 1 .. Len(todo) : todo[i].field = c
      /\ tip.context \in {c, NoContext}
      /\ replay.gen <= tip.queue.gen
      /\ tip.keyContext \in {c, NoContext}
      /\ tip.keyContext = c => \A i \in 1 .. Len(todo) : todo[i].privacy = tip.keyPrivacy
  BY <1>1 DEF LoopBound, Within, todo, c
<1>9. tip.queue.gen \in Nat /\ tip'.queue.gen \in Nat /\ replay.gen \in Nat
  BY <1>2, GenIsNat DEF IInv, Replay
<1>10. replay.gen <= tip'.queue.gen /\ tip'.context \in {c, NoContext}
  BY <1>8, <1>9 DEF Moved, Kept, Marked, Dropped
<1>11. /\ tip'.keyContext \in {c, NoContext}
       /\ tip'.keyContext = c => \A i \in 1 .. Len(more) : more[i].privacy = tip'.keyPrivacy
  <2>1. c # NoContext
    BY <1>1, TextServiceAssumption
  <2> QED
    BY <1>6, <1>8, <2>1 DEF Confined
<1>12. ASSUME replay.gen = tip'.queue.gen
       PROVE  tip'.chinese /\ tip'.keyContext = c
  <2>1. Kept(tip, tip')
    BY <1>8, <1>9, <1>12 DEF Moved, Dropped
  <2>2. Current
    BY <1>12, <2>1 DEF Kept, Marked, Current
  <2>3. tip.chinese /\ tip.keyContext = c
    BY <1>1, <2>2 DEF LoopBound, c
  <2> QED
    BY <1>1, <2>1, <2>3, TextServiceAssumption DEF Kept
<1>13. Len(more) <= Capacity /\ \A i \in 1 .. Len(more) : more[i].field = c
  BY <1>4, <1>5, <1>6, <1>8, CapacityAssumption
<1>14. LoopBound'
  BY <1>3, <1>10, <1>11, <1>12, <1>13 DEF LoopBound, Current, Within, more
<1>15. Bound(tip', typed)
  BY <1>2, BoundStays
<1> QED
  BY <1>1, <1>3, <1>7, <1>14, <1>15 DEF OriginInv, Bound, QueueBound, Numbered, more

(* A key of the loop goes to the engine, and as text to the host if the    *)
(* engine did not take it.                                                 *)
LEMMA ReplayKeyEffects ==
  ASSUME OriginIInv, ReplayKey
  PROVE  Effects /\ Confined(tip, tip')
<1> DEFINE todo == replay.todo
           key == Head(todo)
           c == replay.context
<1>1. /\ Good(tip) /\ scope \in [Context -> Privacy] /\ text \in [Context -> Seq(Nat)]
      /\ c \in Context /\ todo \in Seq(Key) /\ todo # <<>> /\ key \in Key
      /\ PendingKeys = todo /\ LoopBound /\ Numbered(todo, typed)
      /\ replay.on /\ replay.step = "key"
  BY OriginTypes, LoopOrigin DEF ReplayKey, InLoop
<1>2. /\ tip.chinese /\ tip.keyContext = c
      /\ \A i \in 1 .. Len(todo) : /\ todo[i].field = c
                                   /\ todo[i].privacy = tip.keyPrivacy
  BY <1>1 DEF ReplayKey, InLoop, Outdated, LoopBound, Current, Within
<1>3. <<key>> \in Seq(Key) /\ key = todo[1] /\ 1 \in 1 .. Len(todo)
  BY <1>1
<1> HIDE DEF key
<1>4. PICK r \in FirstCall(key) :
        \/ (r.failed \/ r.eaten) /\ tip' = r.tip /\ Took(c, r.ids)
        \/ /\ ~r.failed /\ ~r.eaten
           /\ \E f \in CommitFallback(r.tip, c, <<key>>) :
                tip' = f.tip /\ Took(c, r.ids \o f.ids)
  BY Zenon DEF ReplayKey, key, c
<1> HIDE DEF c, todo
<1>5. DOMAIN todo = 1 .. Len(todo)
  BY <1>1
<1>6. GoodResults(FirstCall(key))
  <2>1. GoodResults(SelectBeforeMark(tip, c))
    BY <1>1, KeyResponseGood, EmptyIds DEF SelectBeforeMark
  <2>2. GoodResults(ProcessKeyDown(tip, c, key))
    BY <1>1, ProcessGood
  <2> QED
    BY <2>1, <2>2 DEF FirstCall, c
<1>7. \/ Gated(tip, c, FirstCall(key))
      \/ /\ key.kind = "page" /\ tip.composing
         /\ FirstCall(key) = {Result(tip, TRUE, FALSE, <<key.id>>)}
  <2>1. Gated(tip, c, SelectBeforeMark(tip, c))
    BY <1>1, KeyResponseGated, EmptyIds DEF SelectBeforeMark
  <2>2. \/ Gated(tip, c, ProcessKeyDown(tip, c, key))
        \/ /\ key.kind = "page" /\ tip.composing
           /\ ProcessKeyDown(tip, c, key) = {Result(tip, TRUE, FALSE, <<key.id>>)}
    BY <1>1, ProcessGated
  <2>3. CASE MarkFollows(key)
    BY <2>1, <2>3 DEF FirstCall, c
  <2>4. CASE ~MarkFollows(key)
    BY <2>2, <2>4 DEF FirstCall, c
  <2> QED
    BY <2>3, <2>4
<1>8. Good(r.tip) /\ r.ids \in Seq(Nat)
  BY <1>4, <1>6 DEF GoodResults
<1>9. CASE Gated(tip, c, FirstCall(key))
  <2>1. Confined(tip, r.tip) /\ (Shut(tip, c) => r.ids = <<>>)
    BY <1>4, <1>9 DEF Gated, Behind
  <2>2. ASSUME NEW ids \in Seq(Nat), Took(c, ids), Shut(tip, c) => ids = <<>>
        PROVE  Effects
    <3>1. CASE Shut(tip, c)
      BY <1>1, <2>2, <3>1, TookNone, NoEffects
    <3>2. CASE ~Shut(tip, c)
      <4>1. \A i \in DOMAIN PendingKeys : Entitled(PendingKeys[i], c)
        BY <1>1, <1>2, <1>5, <3>2 DEF Entitled, Shut
      <4> QED
        BY <1>1, <2>2, <4>1, AllEntitled
    <3> QED
      BY <3>1, <3>2
  <2>3. CASE (r.failed \/ r.eaten) /\ tip' = r.tip /\ Took(c, r.ids)
    BY <1>8, <2>1, <2>2, <2>3
  <2>4. CASE \E f \in CommitFallback(r.tip, c, <<key>>) :
               tip' = f.tip /\ Took(c, r.ids \o f.ids)
    <3>1. PICK f \in CommitFallback(r.tip, c, <<key>>) :
            tip' = f.tip /\ Took(c, r.ids \o f.ids)
      BY <2>4
    <3>2. f.ids \in Seq(Nat)
      BY <1>3, <1>8, CommitFallbackGood DEF GoodResults
    <3>3. Confined(r.tip, f.tip) /\ (Shut(r.tip, c) => f.ids = <<>>)
      BY <1>1, <1>8, CommitFallbackGated DEF Gated, Behind
    <3>4. Confined(tip, tip') /\ (Shut(tip, c) => Shut(r.tip, c))
      BY <1>1, <2>1, <3>1, <3>3, StaysShut
    <3> DEFINE ids == r.ids \o f.ids
    <3>5. ids \in Seq(Nat)
      BY <1>8, <3>2
    <3>6. Shut(tip, c) => ids = <<>>
      BY <2>1, <3>2, <3>3, <3>4, ConcatEmptySeq
    <3>7. Took(c, ids)
      BY <3>1
    <3> HIDE DEF ids
    <3> QED
      BY <2>2, <3>4, <3>5, <3>6, <3>7
  <2> QED
    BY <1>4, <2>3, <2>4
<1>10. CASE /\ key.kind = "page" /\ tip.composing
            /\ FirstCall(key) = {Result(tip, TRUE, FALSE, <<key.id>>)}
  <2>1. r.eaten /\ ~r.failed /\ r.ids = <<key.id>> /\ r.tip = tip
    BY <1>4, <1>10 DEF Result
  <2>2. tip' = tip /\ Took(c, r.ids)
    BY <1>4, <2>1
  <2>3. ASSUME NEW i \in DOMAIN PendingKeys, NEW d \in Context, TakesEffect(PendingKeys[i], d)
        PROVE  Entitled(PendingKeys[i], d)
    <3>1. d = c /\ \E j \in 1 .. Len(r.ids) : r.ids[j] = PendingKeys[i].id
      <4> DEFINE ids == r.ids
                 one == PendingKeys[i]
      <4>1. ids \in Seq(Nat) /\ Took(c, ids) /\ TakesEffect(one, d)
        BY <1>8, <2>2, <2>3
      <4>2. text \in [Context -> Seq(Nat)] /\ c \in Context
        BY <1>1
      <4> HIDE DEF ids, one
      <4>3. d = c /\ \E j \in 1 .. Len(ids) : ids[j] = one.id
        BY <4>1, <4>2, EffectOf
      <4> QED
        BY <4>3 DEF ids, one
    <3>2. \A j \in 1 .. Len(r.ids) : r.ids[j] = key.id
      BY <2>1
    <3>3. i \in 1 .. Len(todo) /\ todo[i].id = todo[1].id
      BY <1>1, <1>3, <1>5, <3>1, <3>2
    <3>4. i = 1
      BY <1>1, <1>3, <3>3 DEF Numbered
    <3> QED
      BY <1>1, <1>2, <1>3, <1>10, <3>1, <3>4 DEF Entitled, TurnsPage
  <2> QED
    BY <2>2, <2>3, EntitledEffects DEF Confined
<1> QED
  BY <1>7, <1>9, <1>10

(* The mark behind a selection meets the gate of its own edit. *)
LEMMA ReplayMarkEffects ==
  ASSUME OriginIInv, ReplayMark
  PROVE  Effects /\ Confined(tip, tip')
<1> DEFINE todo == replay.todo
           c == replay.context
           ids == <<Head(todo).id>>
<1>1. /\ Good(tip) /\ text \in [Context -> Seq(Nat)] /\ IInv
      /\ c \in Context /\ todo \in Seq(Key) /\ PendingKeys = todo /\ LoopBound
      /\ replay.step = "mark"
  BY OriginTypes, LoopOrigin DEF ReplayMark
<1>2. todo # <<>>
  BY <1>1 DEF IInv, World
<1>3. ids \in Seq(Nat)
  <2>1. Head(todo) \in Key
    BY <1>1, <1>2
  <2>2. Head(todo).id \in Nat
    BY <2>1 DEF Key
  <2> QED
    BY <2>2
<1>4. PICK r \in CommitText(tip, c, ids) : tip' = r.tip /\ Took(c, r.ids)
  BY DEF ReplayMark
<1> HIDE DEF ids
<1>5. /\ Confined(tip, r.tip)
      /\ Shut(tip, c) => r.ids = <<>>
      /\ r.ids \in {<<>>, ids}
  BY <1>1, <1>4, EditGated, EditTakes DEF CommitText, Gated, Behind, Takes
<1>6. r.ids \in Seq(Nat)
  BY <1>3, <1>5, EmptyIds
<1>7. CASE Shut(tip, c)
  BY <1>1, <1>4, <1>5, <1>7, TookNone, NoEffects
<1>8. CASE ~Shut(tip, c)
  <2>1. \A i \in 1 .. Len(todo) : Entitled(todo[i], c)
    BY <1>1, <1>2, <1>8 DEF LoopBound, Within, Entitled, Shut
  <2>2. \A i \in DOMAIN PendingKeys : Entitled(PendingKeys[i], c)
    BY <1>1, <2>1
  <2> HIDE DEF c, todo
  <2> QED
    BY <1>1, <1>4, <1>5, <1>6, <2>2, AllEntitled
<1> QED
  BY <1>4, <1>5, <1>7, <1>8

(* The keys of the loop become text behind the gate: under the privacy     *)
(* they were typed under, or with no session left.                         *)
LEMMA ReplayTailEffects == ASSUME OriginIInv, ReplayTail PROVE Effects
<1> DEFINE todo == replay.todo
           c == replay.context
           a == AllowKeyInContext(tip, c)
<1>1. /\ Good(tip) /\ text \in [Context -> Seq(Nat)] /\ IInv
      /\ scope \in [Context -> Privacy]
      /\ c \in Context /\ todo \in Seq(Key) /\ PendingKeys = todo /\ LoopBound
      /\ replay.step = "tail"
  BY OriginTypes, LoopOrigin DEF ReplayTail
<1>2. todo # <<>>
  BY <1>1 DEF IInv, World
<1>3. PICK r \in TailAsText(tip, c) : tip' = r.tip /\ Took(c, r.ids)
  BY DEF ReplayTail
<1>4. Good(a)
  BY <1>1, AllowGood
<1>5. CASE r.ids = <<>>
  BY <1>1, <1>3, <1>5, TookNone, NoEffects
<1>6. CASE r.ids # <<>>
  <2>1. Allowed(c) /\ r \in CommitFallback(a, c, todo)
    BY <1>6 DEF TailAsText, Result
  <2>2. r.ids \in Seq(Nat)
    <3> HIDE DEF a
    <3> QED
      BY <1>1, <1>4, <2>1, CommitFallbackGood DEF GoodResults
  <2>3. CASE tip.keyContext = c /\ tip.keyPrivacy = scope[c]
    <3>1. \A i \in 1 .. Len(todo) : Entitled(todo[i], c)
      BY <1>1, <1>2, <2>3 DEF LoopBound, Within, Entitled
    <3> HIDE DEF c, todo
    <3> QED
      BY <1>1, <1>3, <2>2, <3>1, AllEntitled
  <2>4. CASE ~(tip.keyContext = c /\ tip.keyPrivacy = scope[c])
    <3>1. a.session = "none"
      <4>1. CASE tip.keyContext = NoContext
        <5>1. tip.session = "none"
          BY <1>1, <4>1 DEF Good, SessionMatches
        <5> QED
          BY <1>1, <5>1, AllowSession
      <4>2. CASE tip.keyContext = c
        <5> DEFINE k == AbandonSession(tip)
        <5>1. tip.keyPrivacy # "blocked" /\ c # NoContext
          BY <1>1, <4>2, TextServiceAssumption DEF Good, SessionMatches
        <5>2. Good(k) /\ k.session = "none"
          BY <1>1, AbandonGood
        <5>3. a = [k EXCEPT !.keyContext = c, !.keyPrivacy = scope[c]]
          BY <2>1, <2>4, <4>2, <5>1 DEF AllowKeyInContext, ShouldResetInputSession
        <5> HIDE DEF k, a
        <5> QED
          BY <5>2, <5>3 DEF Good, Tip
      <4> QED
        BY <1>1, <1>2, <4>1, <4>2 DEF LoopBound, Within
    <3> HIDE DEF a
    <3>2. r.tip.session = "none"
      BY <1>4, <2>1, <3>1, CommitFallbackSession
    <3>3. Regated(c)
      BY <1>3, <2>1, <3>2 DEF Regated
    <3>4. \A i \in 1 .. Len(todo) : Entitled(todo[i], c)
      BY <1>1, <3>3 DEF LoopBound, Entitled
    <3> HIDE DEF c, todo
    <3> QED
      BY <1>1, <1>3, <2>2, <3>4, AllEntitled
  <2> QED
    BY <2>3, <2>4
<1> QED
  BY <1>5, <1>6

(* The loop, step by step. *)
LEMMA LoopStepOrigin ==
  ASSUME OriginIInv, IInv',
         ReplayStops \/ ReplayKey \/ ReplayMark \/ ReplayTail \/ ReplayEnds
  PROVE  Effects /\ OriginInv'
<1> DEFINE todo == replay.todo
           c == replay.context
<1>1. Looping
  BY DEF ReplayStops, ReplayKey, ReplayMark, ReplayTail, ReplayEnds
<1>2. /\ replay.on /\ typed' = typed
      /\ PendingKeys = todo /\ tip.queue.keys = <<>>
      /\ todo \in Seq(Key) /\ c \in Context
      /\ LoopBound /\ Numbered(todo, typed)
      /\ replay.gen = tip.queue.gen \/ tip.context = NoContext
  BY <1>1, LoopOrigin
<1>3. /\ Good(tip) /\ Bound(tip, typed) /\ QueueIInv /\ IInv /\ replay \in Replay
      /\ scope \in [Context -> Privacy] /\ text \in [Context -> Seq(Nat)]
  BY OriginTypes
<1>4. CASE ReplayStops
  BY <1>2, <1>3, <1>4, IdleOrigin, NoEffects DEF ReplayStops
<1>5. CASE ReplayKey \/ ReplayMark \/ ReplayTail
  <2>1. Moved(tip, tip')
    BY <1>3, <1>5, CallsMove
  <2>2. Bound(tip', typed')
    BY <1>2, <1>3, <2>1, BoundStays
  <2>3. Effects
    BY <1>5, ReplayKeyEffects, ReplayMarkEffects, ReplayTailEffects
  <2>4. CASE replay' = Idle
    BY <2>2, <2>3, <2>4, IdleOrigin
  <2>5. CASE replay' # Idle
    <3>1. /\ ReplayKey \/ ReplayMark
          /\ replay' = Advance \/ \E step : replay' = At(step)
      BY <1>5, <2>5 DEF ReplayKey, ReplayMark, ReplayTail
    <3>2. Confined(tip, tip')
      BY <3>1, ReplayKeyEffects, ReplayMarkEffects
    <3>3. todo # <<>>
      BY <1>3, <3>1 DEF ReplayKey, ReplayMark, InLoop, IInv, World
    <3> QED
      BY <1>1, <2>1, <2>3, <3>1, <3>2, <3>3, LoopGoesOn
  <2> QED
    BY <2>4, <2>5
<1>6. CASE ReplayEnds
  <2> DEFINE w == [Requeued EXCEPT !.target = "held"]
             u == [Requeued EXCEPT !.context = NoContext, !.target = "none", !.clock = "off"]
  <2>1. /\ replay' = Idle
        /\ IF Requeued.queue.keys = <<>>
           THEN tip' = u /\ UNCHANGED text
           ELSE \E r \in {Result(CancelStartupReplay(Requeued), TRUE, FALSE, <<>>)} \cup
                         ScheduleOrFallback(w, c, replay.gen) :
                  tip' = r.tip /\ Took(c, r.ids)
    BY <1>6 DEF ReplayEnds
  <2>2. /\ Good(Requeued) /\ Requeued.queue.gen = tip.queue.gen
        /\ Requeued.queue.keys = todo
        /\ Requeued.context = tip.context
    <3>1. Requeued.queue = PushAll(tip.queue, todo)
      BY <1>3, RequeuedIs
    <3>2. tip.queue \in Queue /\ Len(todo) <= Capacity
      BY <1>2, <1>3 DEF Good, Tip, LoopBound
    <3> HIDE DEF todo
    <3> QED
      BY <1>2, <1>3, <3>1, <3>2, RequeuedIs, PushAllOfFit
  <2>3. /\ Requeued.chinese = tip.chinese
        /\ Requeued.keyContext = tip.keyContext
        /\ Requeued.keyPrivacy = tip.keyPrivacy
    BY <1>3 DEF Requeued, Good, Tip
  <2> HIDE DEF todo, c
  <2>4. Bound(Requeued, typed)
    <3>1. CASE todo # <<>> /\ tip.context # NoContext
      <4>1. Current
        BY <1>2, <3>1 DEF Current, todo
      <4>2. /\ tip.chinese /\ tip.keyContext = c /\ tip.context = c
            /\ \A i \in 1 .. Len(todo) : /\ todo[i].field = c
                                         /\ todo[i].privacy = tip.keyPrivacy
        BY <1>2, <3>1, <4>1 DEF LoopBound, Within, todo, c
      <4> QED
        BY <1>2, <2>2, <2>3, <4>2 DEF Bound, QueueBound
    <3>2. CASE todo = <<>> \/ tip.context = NoContext
      BY <1>2, <2>2, <3>2 DEF Bound, QueueBound
    <3> QED
      BY <3>1, <3>2
  <2>5. Bound(tip', typed) => OriginInv'
    BY <1>2, <2>1, IdleOrigin
  <2>6. CASE Requeued.queue.keys = <<>>
    <3>1. tip' = u /\ UNCHANGED text
      BY <2>1, <2>6
    <3>2. tip'.queue.keys = <<>>
      BY <2>2, <2>6, <3>1 DEF Good, Tip
    <3> HIDE DEF u
    <3>3. Bound(tip', typed)
      BY <3>2 DEF Bound, QueueBound, Numbered
    <3> QED
      BY <2>5, <3>1, <3>3, NoEffects
  <2>7. CASE Requeued.queue.keys # <<>>
    <3>1. PICK r \in {Result(CancelStartupReplay(Requeued), TRUE, FALSE, <<>>)} \cup
                     ScheduleOrFallback(w, c, replay.gen) :
            tip' = r.tip /\ Took(c, r.ids)
      BY <2>1, <2>7
    <3>2. CASE r = Result(CancelStartupReplay(Requeued), TRUE, FALSE, <<>>)
      <4>1. tip' = CancelStartupReplay(Requeued) /\ Took(c, <<>>)
        BY <3>1, <3>2 DEF Result
      <4>2. Bound(tip', typed)
        BY <2>2, <2>4, <4>1, CancelDrops, BoundStays DEF Moved
      <4>3. UNCHANGED text
        BY <1>2, <1>3, <4>1, TookNone DEF c
      <4> QED
        BY <2>5, <4>2, <4>3, NoEffects
    <3>3. CASE r \in ScheduleOrFallback(w, c, replay.gen)
      <4>1. /\ w \in Tip /\ Alike(Requeued, w)
            /\ w.session = Requeued.session
            /\ w.restricted = Requeued.restricted
            /\ w.home = Requeued.home
        BY <2>2 DEF Good, Tip, Alike
      <4> HIDE DEF w
      <4>2. Good(w)
        BY <2>2, <4>1, SameSession DEF Good, Alike
      <4>3. Bound(w, typed)
        BY <2>4, <4>1, BoundStays
      <4>4. c \in Context
        BY <1>2 DEF c
      <4>5. Bound(r.tip, typed) /\ (r.ids = <<>> \/ Entitles(w, c))
        BY <1>3, <3>3, <4>2, <4>3, <4>4, ScheduleOrFallbackBinds
      <4>6. r.ids \in Seq(Nat)
        BY <1>3, <3>3, <4>2, <4>4, ScheduleOrFallbackGood DEF GoodResults
      <4>7. Effects
        <5>1. CASE r.ids = <<>>
          <6>1. UNCHANGED text
            BY <1>3, <3>1, <4>4, <5>1, TookNone
          <6> QED
            BY <6>1, NoEffects
        <5>2. CASE Entitles(w, c)
          <6>1. w.queue.keys = todo /\ w.chinese = tip.chinese
            BY <2>2, <2>3, <4>1 DEF Alike
          <6>2. \A i \in 1 .. Len(todo) : Entitled(todo[i], c)
            BY <5>2, <6>1 DEF Entitles, Entitled
          <6>3. \A i \in DOMAIN PendingKeys : Entitled(PendingKeys[i], c)
            BY <1>2, <6>2 DEF todo
          <6> QED
            BY <1>3, <3>1, <4>4, <4>6, <6>3, AllEntitled
        <5> QED
          BY <4>5, <5>1, <5>2
      <4> QED
        BY <2>5, <3>1, <4>5, <4>7
    <3> QED
      BY <3>1, <3>2, <3>3
  <2> QED
    BY <2>6, <2>7
<1> QED
  BY <1>4, <1>5, <1>6

(* Every step of Next, and every stutter. *)
LEMMA StepOrigin ==
  ASSUME OriginIInv, [Next]_vars
  PROVE  OriginIInv' /\ (Effects \/ UNCHANGED vars)
<1>1. QueueIInv' /\ IInv'
  BY StepQueueInv DEF OriginIInv, QueueIInv
<1>2. OriginInv' => OriginIInv'
  BY <1>1 DEF OriginIInv
<1>3. CASE \E kind \in Kind : HostKey(kind) \/ KeyDenied(kind) \/ KeyBypassed(kind)
                              \/ CancelKey(kind) \/ KeyBehindQueue(kind) \/ KeyToEngine(kind)
  BY <1>2, <1>3, KeyOrigin
<1>4. CASE TimerCancels \/ TimerFallsBack \/ TimerReplays \/ ClockExpires
  BY <1>2, <1>4, TimerOrigin
<1>5. CASE \E e \in edits : GrantFallback(e) \/ ReplayRefused(e)
                           \/ ReplayWaits(e) \/ ReplayStarts(e)
  BY <1>2, <1>5, GrantOrigin
<1>6. CASE ReplayStops \/ ReplayKey \/ ReplayMark \/ ReplayTail \/ ReplayEnds
  BY <1>1, <1>2, <1>6, LoopStepOrigin
<1>7. CASE \/ \E c \in Context : \/ HostFocuses(c)
                               \/ \E privacy \in Privacy : HostRescopes(c, privacy)
           \/ HostMovesCaret \/ LoseFocus \/ ModePublished \/ ToggleInputMode
           \/ BrokerReady \/ BrokerExits
  BY <1>2, <1>7, HostOrigin
<1>8. CASE UNCHANGED vars
  BY <1>2, <1>8, AlikeOrigin DEF vars, Alike
<1> QED
  BY <1>3, <1>4, <1>5, <1>6, <1>7, <1>8, Zenon DEF Next

(* A key that waited takes effect only in the field it was typed into, and *)
(* only under the privacy it was typed under or, as text behind the gate,  *)
(* with no session left; a page key that meets a composition touches no    *)
(* field (ReplayStartupKeys, FallbackStartupKeys, AllowKeyInContext).      *)
(* This holds for every number of fields, keys and events, whatever the    *)
(* host does with its focus, its scopes and its edits.                     *)
THEOREM ReplayStaysInFieldAlways == Spec => ReplayStaysInField
<1>1. Init => OriginIInv
  BY InitOrigin
<1>2. OriginIInv /\ [Next]_vars => OriginIInv' /\ [EffectInField]_vars
  BY StepOrigin DEF Effects
<1> QED
  BY <1>1, <1>2, PTL DEF Spec, ReplayStaysInField

(* No key that waited is begun after the mode was switched to direct       *)
(* input, by the user or by another component, before the edit or inside   *)
(* one (ToggleInputMode, SynchronizeInputMode, ReplayStartupKeys): only    *)
(* what the loop had begun by then is finished.  This holds for every      *)
(* number of fields, keys and events.                                      *)
THEOREM ReplayStartsInChineseModeAlways == Spec => ReplayStartsInChineseMode
<1>1. Init => OriginIInv
  BY InitOrigin
<1>2. OriginIInv /\ [Next]_vars =>
        OriginIInv' /\ [replay.step = "key" => EffectInChineseMode]_vars
  BY StepOrigin DEF Effects
<1> QED
  BY <1>1, <1>2, PTL DEF Spec, ReplayStartsInChineseMode
=============================================================================
