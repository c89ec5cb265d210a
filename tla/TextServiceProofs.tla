-------------------------- MODULE TextServiceProofs --------------------------
(***************************************************************************)
(* Proofs about TextService: the state is well typed, the session a key    *)
(* goes to always matches the field that has the key, and keys never sit   *)
(* in the startup queue unattended.                                        *)
(*                                                                         *)
(* A handler is a chain of calls on the record tip, so the inductive       *)
(* invariant is mostly a fact about that record, Good, and each call has a *)
(* lemma that says it preserves Good, or that all of its results have it.  *)
(***************************************************************************)
EXTENDS TextService, TLAPS

USE DEF Privacy

Good(t) ==
  /\ t \in Tip
  /\ Len(t.queue.keys) <= Capacity
  /\ SessionMatches(t)

GoodResults(S) == \A r \in S : Good(r.tip) /\ r.ids \in Seq(Nat)

(* The field c has passed the privacy gate. *)
Entered(t, c) == t.keyContext = c /\ t.keyPrivacy = scope[c] /\ scope[c] # "blocked"

------------------------------------------------------------------------------
(* What Good asks of a record, for a call that leaves the session and the  *)
(* field alone.                                                            *)
LEMMA SameSession ==
  ASSUME NEW t, Good(t), NEW u \in Tip, Len(u.queue.keys) <= Capacity,
         u.session = t.session, u.restricted = t.restricted, u.home = t.home,
         u.keyContext = t.keyContext, u.keyPrivacy = t.keyPrivacy
  PROVE  Good(u)
  BY DEF Good, SessionMatches

(* CancelStartupReplay empties the queue and touches no session. *)
LEMMA CancelGood ==
  ASSUME NEW t, Good(t)
  PROVE  /\ Good(CancelStartupReplay(t))
         /\ CancelStartupReplay(t).queue.keys = <<>>
         /\ CancelStartupReplay(t).session = t.session
         /\ CancelStartupReplay(t).restricted = t.restricted
         /\ CancelStartupReplay(t).home = t.home
         /\ CancelStartupReplay(t).keyContext = t.keyContext
         /\ CancelStartupReplay(t).keyPrivacy = t.keyPrivacy
<1> DEFINE u == CancelStartupReplay(t)
<1>1. Cancelled(t.queue) \in Queue /\ Cancelled(t.queue).keys = <<>>
  BY DEF Good, Tip, Queue, Cancelled
<1>2. Len(<<>>) <= Capacity
  BY CapacityAssumption
<1>3. u \in Tip
  BY <1>1 DEF Good, Tip, CancelStartupReplay
<1>4. /\ u.queue = Cancelled(t.queue)
      /\ u.session = t.session
      /\ u.restricted = t.restricted
      /\ u.home = t.home
      /\ u.keyContext = t.keyContext
      /\ u.keyPrivacy = t.keyPrivacy
  BY DEF Good, Tip, CancelStartupReplay
<1> QED
  BY <1>1, <1>2, <1>3, <1>4, SameSession

(* AbandonSession leaves no session and no field. *)
LEMMA AbandonGood ==
  ASSUME NEW t, Good(t)
  PROVE  /\ Good(AbandonSession(t))
         /\ AbandonSession(t).session = "none"
         /\ AbandonSession(t).keyContext = NoContext
  BY CancelGood DEF Good, Tip, AbandonSession, SessionMatches

(* A record with another mode and no composition has the type of one. *)
LEMMA ModeTip ==
  ASSUME NEW t \in Tip, NEW mode \in BOOLEAN
  PROVE  [t EXCEPT !.chinese = mode, !.composing = FALSE] \in Tip
  BY DEF Tip

(* SynchronizeInputMode changes the mode alone. *)
LEMMA SynchronizeGood ==
  ASSUME NEW t, Good(t)
  PROVE  Good(SynchronizeInputMode(t))
<1> DEFINE k == CancelStartupReplay(t)
           u == [k EXCEPT !.chinese = ~@, !.composing = FALSE]
<1>1. Good(k)
  BY CancelGood
<1>2. SynchronizeInputMode(t) = u
  BY DEF SynchronizeInputMode
<1> HIDE DEF k
<1>3. u \in Tip
  <2>1. k \in Tip /\ (~k.chinese) \in BOOLEAN
    BY <1>1 DEF Good
  <2> QED
    BY <2>1, ModeTip, Zenon
<1>4. /\ u.queue = k.queue
      /\ u.session = k.session
      /\ u.restricted = k.restricted
      /\ u.home = k.home
      /\ u.keyContext = k.keyContext
      /\ u.keyPrivacy = k.keyPrivacy
  BY <1>1 DEF Good, Tip
<1> HIDE DEF u
<1> QED
  BY <1>1, <1>2, <1>3, <1>4, SameSession DEF Good

(* The gate lets a field pass only with a session that matches it. *)
LEMMA AllowGood ==
  ASSUME NEW t, Good(t), NEW c \in Context, scope \in [Context -> Privacy]
  PROVE  /\ Good(AllowKeyInContext(t, c))
         /\ Allowed(c) => Entered(AllowKeyInContext(t, c), c)
<1> DEFINE changed == t.keyContext # NoContext /\ t.keyContext # c
           reset == ShouldResetInputSession(t.keyPrivacy, scope[c], changed)
           kept == IF reset THEN AbandonSession(t) ELSE t
<1>1. Good(kept)
  BY AbandonGood
<1>2. kept.session # "none" => kept.keyContext = c /\ kept.keyPrivacy = scope[c]
  BY AbandonGood DEF ShouldResetInputSession, Good, SessionMatches
<1>3. CASE Allowed(c)
  <2>1. AllowKeyInContext(t, c) = [kept EXCEPT !.keyContext = c, !.keyPrivacy = scope[c]]
    BY <1>3 DEF AllowKeyInContext
  <2> HIDE DEF kept
  <2> DEFINE u == [kept EXCEPT !.keyContext = c, !.keyPrivacy = scope[c]]
  <2>2. u \in Tip
    BY <1>1 DEF Good, Tip
  <2>3. /\ u.queue = kept.queue
        /\ u.session = kept.session
        /\ u.restricted = kept.restricted
        /\ u.home = kept.home
        /\ u.keyContext = c
        /\ u.keyPrivacy = scope[c]
    BY <1>1 DEF Good, Tip
  <2> HIDE DEF u
  <2>4. SessionMatches(u)
    BY <1>1, <1>2, <1>3, <2>3, TextServiceAssumption DEF Good, SessionMatches, Allowed
  <2> QED
    BY <1>1, <1>3, <2>1, <2>2, <2>3, <2>4 DEF Good, Entered, Allowed, u
<1>4. CASE ~Allowed(c)
  BY <1>4, AbandonGood DEF AllowKeyInContext
<1> QED
  BY <1>3, <1>4

------------------------------------------------------------------------------
(***************************************************************************)
(* The calls with several outcomes.                                        *)
(***************************************************************************)
(* A result whose record is good and whose keys are numbers has the right type. *)
LEMMA ResultGood ==
  ASSUME NEW t, Good(t), NEW eaten, NEW failed, NEW ids \in Seq(Nat)
  PROVE  GoodResults({Result(t, eaten, failed, ids)})
  BY DEF GoodResults, Result

(* No keys at all is a sequence of keys. *)
LEMMA EmptyIds == <<>> \in Seq(Nat)
  OBVIOUS

(* ApplyCompositionEdit: whatever the host does with the edit, and however *)
(* its text store calls back.                                              *)
LEMMA EditGood ==
  ASSUME NEW t, Good(t), NEW c, NEW ids \in Seq(Nat)
  PROVE  GoodResults(ApplyCompositionEdit(t, c, ids))
<1> SUFFICES ASSUME NEW r \in ApplyCompositionEdit(t, c, ids)
             PROVE  Good(r.tip) /\ r.ids \in Seq(Nat)
  BY DEF GoodResults
<1>1. \E u \in Reentered(t) : \E i \in {<<>>, ids} :
        r = Result(u, FALSE, TRUE, i) \/ r = Result(u, TRUE, FALSE, i)
  <2>1. AbandonSession(t) \in Reentered(t)
    BY DEF Reentered
  <2> QED
    BY <2>1, Zenon DEF ApplyCompositionEdit
<1>2. PICK u \in Reentered(t) : \E i \in {<<>>, ids} :
        r = Result(u, FALSE, TRUE, i) \/ r = Result(u, TRUE, FALSE, i)
  BY <1>1
<1>3. PICK i \in {<<>>, ids} : r = Result(u, FALSE, TRUE, i) \/ r = Result(u, TRUE, FALSE, i)
  BY <1>2
<1>4. r.tip = u /\ r.ids = i
  BY <1>3 DEF Result
<1>5. Good(u)
  BY AbandonGood, SynchronizeGood DEF Reentered
<1> QED
  BY <1>4, <1>5, EmptyIds

(* ApplyKeyResponse for a consumed answer. *)
LEMMA ConsumedGood ==
  ASSUME NEW t, Good(t), NEW c, NEW kind, NEW ids \in Seq(Nat), NEW preedit \in BOOLEAN
  PROVE  GoodResults(Consumed(t, c, kind, ids, preedit))
<1> DEFINE committed == IF kind = "space" /\ ~preedit THEN ids ELSE <<>>
           edited == ApplyCompositionEdit(t, c, committed)
<1>1. committed \in Seq(Nat)
  BY EmptyIds
<1>2. GoodResults(edited)
  BY <1>1, EditGood
<1> HIDE DEF edited
<1> SUFFICES ASSUME NEW r \in edited
             PROVE  GoodResults({IF r.failed THEN Result(AbandonSession(r.tip), FALSE, FALSE, r.ids)
                                 ELSE Result([r.tip EXCEPT !.composing = preedit], TRUE, FALSE, ids)})
  BY DEF Consumed, GoodResults, edited
<1>3. Good(r.tip) /\ r.ids \in Seq(Nat)
  BY <1>2 DEF GoodResults
<1> DEFINE u == [r.tip EXCEPT !.composing = preedit]
<1>4. u \in Tip
  BY <1>3 DEF Good, Tip
<1>5. /\ u.queue = r.tip.queue
      /\ u.session = r.tip.session
      /\ u.restricted = r.tip.restricted
      /\ u.home = r.tip.home
      /\ u.keyContext = r.tip.keyContext
      /\ u.keyPrivacy = r.tip.keyPrivacy
  BY <1>3 DEF Good, Tip
<1>6. Good(u)
  BY <1>3, <1>4, <1>5, SameSession DEF Good
<1> QED
  BY <1>3, <1>6, AbandonGood DEF GoodResults, Result

(* ApplyKeyResponse for every answer. *)
LEMMA KeyResponseGood ==
  ASSUME NEW t, Good(t), NEW c, NEW kind, NEW ids \in Seq(Nat)
  PROVE  GoodResults(ApplyKeyResponse(t, c, kind, ids))
<1>1. \A preedit \in PreeditAfter(kind) : GoodResults(Consumed(t, c, kind, ids, preedit))
  BY ConsumedGood DEF PreeditAfter
<1>2. GoodResults({Result(t, FALSE, FALSE, <<>>)})
  BY ResultGood, EmptyIds
<1>3. GoodResults({Result(AbandonSession(t), FALSE, FALSE, <<>>)})
  BY ResultGood, AbandonGood, EmptyIds
<1> SUFFICES ASSUME NEW answer \in Answers(t)
             PROVE  GoodResults(CASE answer = "consumed" ->
                         UNION {Consumed(t, c, kind, ids, preedit) : preedit \in PreeditAfter(kind)}
                    [] answer = "declined" -> {Result(t, FALSE, FALSE, <<>>)}
                    [] OTHER -> {Result(AbandonSession(t), FALSE, FALSE, <<>>)})
  BY Zenon DEF ApplyKeyResponse, GoodResults
<1>4. CASE answer = "consumed"
  BY <1>1, <1>4, Zenon DEF GoodResults
<1>5. CASE answer = "declined"
  BY <1>2, <1>5
<1>6. CASE answer # "consumed" /\ answer # "declined"
  BY <1>3, <1>6
<1> QED
  BY <1>4, <1>5, <1>6

(* Punctuation, behind the selection it makes first. *)
LEMMA PunctuateGood ==
  ASSUME NEW t, Good(t), NEW c, NEW id \in Nat
  PROVE  GoodResults(Punctuate(t, c, id))
<1> DEFINE first == SelectBeforeMark(t, c)
<1>1. GoodResults(first)
  BY KeyResponseGood, EmptyIds DEF SelectBeforeMark
<1> HIDE DEF first
<1>2. GoodResults(CommitText(t, c, <<id>>)) /\ \A r \in first : GoodResults(CommitText(r.tip, c, <<id>>))
  <2>1. <<id>> \in Seq(Nat)
    OBVIOUS
  <2> QED
    BY <1>1, <2>1, EditGood DEF CommitText, GoodResults
<1>3. \A r \in first : GoodResults(IF r.eaten THEN CommitText(r.tip, c, <<id>>) ELSE {r})
  BY <1>1, <1>2 DEF GoodResults
<1>4. CASE t.composing
  BY <1>3, <1>4, Zenon DEF Punctuate, GoodResults, first
<1>5. CASE ~t.composing
  BY <1>2, <1>5, Zenon DEF Punctuate
<1> QED
  BY <1>4, <1>5

(* ProcessKeyDown for every kind of key. *)
LEMMA ProcessGood ==
  ASSUME NEW t, Good(t), NEW c, NEW key \in Key
  PROVE  GoodResults(ProcessKeyDown(t, c, key))
<1> DEFINE u == [t EXCEPT !.composing = FALSE]
<1>1. key.id \in Nat /\ <<key.id>> \in Seq(Nat)
  BY DEF Key
<1>2. u \in Tip
  BY DEF Good, Tip
<1>3. /\ u.queue = t.queue
      /\ u.session = t.session
      /\ u.restricted = t.restricted
      /\ u.home = t.home
      /\ u.keyContext = t.keyContext
      /\ u.keyPrivacy = t.keyPrivacy
  BY DEF Good, Tip
<1>4. Good(u)
  BY <1>2, <1>3, SameSession DEF Good
<1> HIDE DEF u
<1>5. GoodResults(Punctuate(t, c, key.id))
  BY <1>1, PunctuateGood
<1>6. GoodResults({Result(t, TRUE, FALSE, <<key.id>>)})
  BY <1>1, ResultGood
<1>7. GoodResults(CommitText(u, c, <<key.id>>))
  BY <1>1, <1>4, EditGood DEF CommitText
<1>8. GoodResults({Result(t, FALSE, FALSE, <<>>)})
  BY ResultGood, EmptyIds
<1>9. GoodResults(ApplyKeyResponse(t, c, key.kind, <<key.id>>))
  BY <1>1, KeyResponseGood
<1> QED
  BY <1>5, <1>6, <1>7, <1>8, <1>9 DEF ProcessKeyDown, u

(* The text of AppendStartupFallbackKey, inserted or empty. *)
LEMMA CommitFallbackGood ==
  ASSUME NEW t, Good(t), NEW c, NEW keys \in Seq(Key)
  PROVE  GoodResults(CommitFallback(t, c, keys))
<1>1. IdsOf(keys) \in Seq(Nat)
  <2>1. DOMAIN keys = 1 .. Len(keys) /\ Len(keys) \in Nat
    OBVIOUS
  <2>2. \A i \in DOMAIN keys : keys[i] \in Key
    OBVIOUS
  <2>3. \A i \in DOMAIN keys : keys[i].id \in Nat
    BY <2>2 DEF Key
  <2> QED
    BY <2>1, <2>3 DEF IdsOf
<1>2. GoodResults(CommitText(t, c, IdsOf(keys)))
  BY <1>1, EditGood DEF CommitText
<1>3. GoodResults({Result(t, FALSE, FALSE, <<>>)})
  BY ResultGood, EmptyIds
<1> QED
  BY <1>2, <1>3 DEF CommitFallback

------------------------------------------------------------------------------
(***************************************************************************)
(* The calls around the queue.                                             *)
(***************************************************************************)
(* The gate behind a cleared startup_replay_scheduled. *)
LEMMA OpenGood ==
  ASSUME NEW t, Good(t)
  PROVE  Good([t EXCEPT !.scheduled = FALSE])
<1> DEFINE u == [t EXCEPT !.scheduled = FALSE]
<1>1. u \in Tip
  BY DEF Good, Tip
<1>2. /\ u.queue = t.queue
      /\ u.session = t.session
      /\ u.restricted = t.restricted
      /\ u.home = t.home
      /\ u.keyContext = t.keyContext
      /\ u.keyPrivacy = t.keyPrivacy
  BY DEF Good, Tip
<1> QED
  BY <1>1, <1>2, SameSession DEF Good

(* FallbackStartupKeys on each of its ways out. *)
LEMMA FallbackGood ==
  ASSUME NEW t, Good(t), NEW c \in Context, NEW gen, scope \in [Context -> Privacy]
  PROVE  GoodResults(FallbackStartupKeys(t, c, gen))
<1> DEFINE open == [t EXCEPT !.scheduled = FALSE]
           a == AllowKeyInContext(open, c)
<1>1. Good(open)
  BY OpenGood
<1> HIDE DEF open
<1>2. Good(a)
  BY <1>1, AllowGood
<1> HIDE DEF a
<1>3. GoodResults({Result(t, FALSE, FALSE, <<>>)})
  BY ResultGood, EmptyIds
<1>4. GoodResults({Result(CancelStartupReplay(open), FALSE, FALSE, <<>>)})
  BY <1>1, CancelGood, ResultGood, EmptyIds
<1>5. GoodResults({Result(a, FALSE, FALSE, <<>>)})
  BY <1>2, ResultGood, EmptyIds
<1>6. GoodResults(CommitFallback(CancelStartupReplay(a), c, a.queue.keys))
  <2>1. a.queue.keys \in Seq(Key)
    BY <1>2 DEF Good, Tip, Queue
  <2> QED
    BY <1>2, <2>1, CancelGood, CommitFallbackGood
<1> QED
  BY <1>3, <1>4, <1>5, <1>6 DEF FallbackStartupKeys, open, a

(* ScheduleStartupReplay sets a timer and touches no key. *)
LEMMA ScheduleGood ==
  ASSUME NEW t, Good(t)
  PROVE  Good(ScheduleStartupReplay(t))
<1> DEFINE u == [t EXCEPT !.timer = TRUE, !.clock = IF @ = "off" THEN "running" ELSE @]
<1>1. u \in Tip
  BY DEF Good, Tip
<1>2. /\ u.queue = t.queue
      /\ u.session = t.session
      /\ u.restricted = t.restricted
      /\ u.home = t.home
      /\ u.keyContext = t.keyContext
      /\ u.keyPrivacy = t.keyPrivacy
  BY DEF Good, Tip
<1>3. Good(u)
  BY <1>1, <1>2, SameSession DEF Good
<1> QED
  BY <1>3 DEF ScheduleStartupReplay

(* ScheduleStartupReplay with the fallback for a timer that fails. *)
LEMMA ScheduleOrFallbackGood ==
  ASSUME NEW t, Good(t), NEW c \in Context, NEW gen, scope \in [Context -> Privacy]
  PROVE  GoodResults(ScheduleOrFallback(t, c, gen))
<1>1. GoodResults({Result(ScheduleStartupReplay(t), TRUE, FALSE, <<>>)})
  BY ScheduleGood, ResultGood, EmptyIds
<1>2. GoodResults(FallbackStartupKeys(t, c, gen))
  BY FallbackGood
<1> QED
  BY <1>1, <1>2 DEF ScheduleOrFallback, GoodResults

(* The first key captures its target. *)
LEMMA CaptureGood ==
  ASSUME NEW t, Good(t), NEW c \in Context
  PROVE  Good([t EXCEPT !.context = c, !.clock = "running", !.target = "held"])
<1> DEFINE u == [t EXCEPT !.context = c, !.clock = "running", !.target = "held"]
<1>1. u \in Tip
  BY DEF Good, Tip
<1>2. /\ u.queue = t.queue
      /\ u.session = t.session
      /\ u.restricted = t.restricted
      /\ u.home = t.home
      /\ u.keyContext = t.keyContext
      /\ u.keyPrivacy = t.keyPrivacy
  BY DEF Good, Tip
<1> QED
  BY <1>1, <1>2, SameSession DEF Good

(* A key goes into a queue that has room for it. *)
LEMMA PushGood ==
  ASSUME NEW t, Good(t), ~IsFull(t.queue), NEW key \in Key
  PROVE  Good([t EXCEPT !.queue = Push(@, key)])
<1> DEFINE u == [t EXCEPT !.queue = Push(@, key)]
<1>1. /\ t \in Tip
      /\ t.queue \in Queue
      /\ t.queue.keys \in Seq(Key)
  BY DEF Good, Tip, Queue
<1>2. /\ Append(t.queue.keys, key) \in Seq(Key)
      /\ Len(Append(t.queue.keys, key)) = Len(t.queue.keys) + 1
      /\ Len(t.queue.keys) \in Nat
  BY <1>1
<1>3. Len(t.queue.keys) + 1 <= Capacity
  BY <1>2, CapacityAssumption DEF IsFull
<1>4. Push(t.queue, key) \in Queue /\ Push(t.queue, key).keys = Append(t.queue.keys, key)
  BY <1>1, <1>2 DEF Push, Queue
<1>5. u \in Tip
  BY <1>1, <1>4 DEF Tip
<1>6. /\ u.queue = Push(t.queue, key)
      /\ u.session = t.session
      /\ u.restricted = t.restricted
      /\ u.home = t.home
      /\ u.keyContext = t.keyContext
      /\ u.keyPrivacy = t.keyPrivacy
  BY <1>1 DEF Tip
<1>7. Len(u.queue.keys) <= Capacity
  BY <1>2, <1>3, <1>4, <1>6
<1> HIDE DEF u
<1>8. Good(u)
  BY <1>5, <1>6, <1>7, SameSession
<1> QED
  BY <1>8 DEF u

(* QueueStartupKey on each of its ways out. *)
LEMMA QueueGood ==
  ASSUME NEW t, Good(t), NEW c \in Context, NEW key \in Key, scope \in [Context -> Privacy]
  PROVE  GoodResults(QueueStartupKey(t, c, key))
<1> DEFINE first == t.queue.keys = <<>>
           u == IF first
                THEN [t EXCEPT !.context = c, !.clock = "running", !.target = "held"] ELSE t
           pushed == [u EXCEPT !.queue = Push(@, key)]
<1>1. Good(u)
  BY CaptureGood
<1> HIDE DEF u
<1>2. ASSUME ~IsFull(u.queue)
      PROVE  Good(pushed)
  BY <1>1, <1>2, PushGood
<1> HIDE DEF pushed
<1>3. /\ GoodResults({Result(CancelStartupReplay(u), FALSE, FALSE, <<>>)})
      /\ GoodResults({Result(CancelStartupReplay(u), TRUE, FALSE, <<>>)})
  BY <1>1, CancelGood, ResultGood, EmptyIds
<1>4. GoodResults({Result(r.tip, r.failed, FALSE, r.ids) :
                     r \in FallbackStartupKeys(u, c, u.queue.gen)})
  BY <1>1, FallbackGood DEF GoodResults, Result
<1>5. ASSUME ~IsFull(u.queue)
      PROVE  GoodResults({Result(r.tip, TRUE, FALSE, r.ids) :
                            r \in ScheduleOrFallback(pushed, c, pushed.queue.gen)})
  BY <1>2, <1>5, ScheduleOrFallbackGood DEF GoodResults, Result
<1> DEFINE rest ==
      IF u.context # c THEN {Result(CancelStartupReplay(u), TRUE, FALSE, <<>>)}
      ELSE IF IsFull(u.queue)
      THEN {Result(r.tip, r.failed, FALSE, r.ids) : r \in FallbackStartupKeys(u, c, u.queue.gen)}
      ELSE {Result(r.tip, TRUE, FALSE, r.ids) :
              r \in ScheduleOrFallback(pushed, c, pushed.queue.gen)}
<1>6. GoodResults(rest)
  BY <1>3, <1>4, <1>5
<1>7. QueueStartupKey(t, c, key) =
        (IF first THEN {Result(CancelStartupReplay(u), FALSE, FALSE, <<>>)} ELSE {}) \cup rest
  BY Zenon DEF QueueStartupKey, u, pushed
<1> HIDE DEF rest
<1> QED
  BY <1>3, <1>6, <1>7 DEF GoodResults

(* EnsureSession creates a session for the field that has the key. *)
LEMMA EnsureGood ==
  ASSUME NEW t, Good(t), t.keyContext # NoContext, NEW s \in EnsureSession(t)
  PROVE  Good(s.tip)
<1>1. CASE t.session # "none"
  BY <1>1 DEF EnsureSession
<1>2. CASE t.session = "none"
  <2> DEFINE after(b) == [t EXCEPT !.launched = @ \/ b]
             made(b) == [after(b) EXCEPT !.session = "live", !.composing = FALSE,
                                         !.home = t.keyContext,
                                         !.restricted = (t.keyPrivacy = "restricted")]
             launch == IF t.launched THEN {FALSE} ELSE BOOLEAN
  <2>1. EnsureSession(t) =
          {[tip |-> after(b), ok |-> FALSE, spawned |-> b] : b \in launch} \cup
          {[tip |-> made(b), ok |-> TRUE, spawned |-> b] : b \in {b \in launch : broker = "ready"}}
    BY <1>2, Zenon DEF EnsureSession
  <2>2. PICK b \in BOOLEAN : s.tip = after(b) \/ s.tip = made(b)
    <3>1. launch \subseteq BOOLEAN
      OBVIOUS
    <3> HIDE DEF after, made, launch
    <3>2. \E b \in launch : \/ s = [tip |-> after(b), ok |-> FALSE, spawned |-> b]
                           \/ s = [tip |-> made(b), ok |-> TRUE, spawned |-> b]
      BY <2>1, Zenon
    <3> QED
      BY <3>1, <3>2
  <2>3. /\ after(b) \in Tip
        /\ after(b).queue = t.queue
        /\ after(b).session = t.session
        /\ after(b).restricted = t.restricted
        /\ after(b).home = t.home
        /\ after(b).keyContext = t.keyContext
        /\ after(b).keyPrivacy = t.keyPrivacy
    BY DEF Good, Tip
  <2>4. Good(after(b))
    BY <2>3, SameSession DEF Good
  <2> HIDE DEF after
  <2>5. /\ made(b) \in Tip
        /\ made(b).queue = t.queue
        /\ made(b).keyContext = t.keyContext
        /\ made(b).keyPrivacy = t.keyPrivacy
        /\ made(b).restricted = (t.keyPrivacy = "restricted")
        /\ made(b).home = t.keyContext
    BY <2>3 DEF Tip
  <2> HIDE DEF made
  <2>6. Good(made(b))
    BY <2>5 DEF Good, SessionMatches
  <2> QED
    BY <2>2, <2>4, <2>6
<1> QED
  BY <1>1, <1>2

(* The session of a key behind an empty queue. *)
LEMMA SessionForKeyGood ==
  ASSUME NEW t, Good(t), t.keyContext # NoContext, NEW kind, NEW s \in SessionForKey(t, kind)
  PROVE  Good(s.tip)
  BY EnsureGood DEF SessionForKey

------------------------------------------------------------------------------
(***************************************************************************)
(* The inductive invariant: both properties together.  The session matches *)
(* the field only in a well-typed state, and the bound of the queue, part  *)
(* of the types, needs no more.                                            *)
(***************************************************************************)
World ==
  /\ replay \in Replay
  /\ edits \subseteq Edit
  /\ broker \in {"down", "starting", "ready"}
  /\ focus \in Context
  /\ scope \in [Context -> Privacy]
  /\ typed \in Nat /\ events \in Nat
  /\ text \in [Context -> Seq(Nat)]
  /\ replay.on => replay.context \in Context
  /\ replay.step # "key" => replay.todo # <<>> /\ replay.left > 0
IInv == Good(tip) /\ World

(* The two invariants the theorems state are parts of IInv. *)
LEMMA InvariantParts == IInv => TypeOK /\ SessionMatchesField
  BY DEF IInv, World, Good, TypeOK, SessionMatchesField

(* The initial states. *)
LEMMA InitInv == ASSUME Init PROVE IInv
<1>1. /\ NewQueue \in Queue
      /\ NewQueue.keys = <<>>
      /\ Len(<<>>) <= Capacity
  BY CapacityAssumption DEF NewQueue, Queue
<1>2. Good(tip)
  <2>1. tip \in Tip
    BY <1>1 DEF Init, Tip
  <2>2. tip.queue = NewQueue /\ tip.session = "none" /\ tip.keyContext = NoContext
        /\ tip.keyPrivacy = "blocked"
    BY DEF Init
  <2> QED
    BY <1>1, <2>1, <2>2 DEF Good, SessionMatches
<1>3. Idle \in Replay /\ ~Idle.on /\ Idle.step = "key"
  BY DEF Idle, Replay
<1>4. \E c \in Context : focus = c
  BY DEF Init
<1>5. scope \in [Context -> Privacy]
  BY DEF Init
<1>6. text \in [Context -> Seq(Nat)]
  BY EmptyIds DEF Init
<1> QED
  BY <1>2, <1>3, <1>4, <1>5, <1>6 DEF Init, IInv, World

(* Keys that take effect in a field keep its text a sequence of keys. *)
LEMMA TookTyped ==
  ASSUME text \in [Context -> Seq(Nat)], NEW c \in Context, NEW ids \in Seq(Nat), Took(c, ids)
  PROVE  text' \in [Context -> Seq(Nat)]
<1>1. text[c] \o ids \in Seq(Nat)
  OBVIOUS
<1> QED
  BY <1>1 DEF Took

(* What a key of the host leaves: the results of its edit. *)
LEMMA KeyEditInv ==
  ASSUME IInv, NEW r, Good(r.tip), r.ids \in Seq(Nat), KeyEdit(r, typed + 1)
  PROVE  Good(tip') /\ text' \in [Context -> Seq(Nat)]
<1>1. Good(tip')
  BY AbandonGood DEF KeyEdit
<1>2. (IF r.failed \/ ~r.eaten THEN Append(r.ids, typed + 1) ELSE r.ids) \in Seq(Nat)
  BY DEF IInv, World
<1> QED
  BY <1>1, <1>2, TookTyped DEF KeyEdit, IInv, World

(* The key the user types has a type. *)
LEMMA TypedKeyIsKey == ASSUME IInv, NEW kind \in Kind PROVE TypedKey(kind) \in Key
  BY DEF TypedKey, Key, IInv, World

(* OnTestKeyDown, OnKeyDown and HandleKeyDown. *)
LEMMA KeyInv ==
  ASSUME IInv, NEW kind \in Kind,
         HostKey(kind) \/ KeyDenied(kind) \/ KeyBypassed(kind) \/ CancelKey(kind)
           \/ KeyBehindQueue(kind) \/ KeyToEngine(kind)
  PROVE  IInv'
<1> USE DEF IInv
<1> DEFINE a == AllowKeyInContext(tip, focus)
<1>1. Typing /\ text' \in [Context -> Seq(Nat)] /\ broker' \in {"down", "starting", "ready"}
        => World'
  BY DEF Typing, World
<1>2. typed + 1 \in Nat /\ <<typed + 1>> \in Seq(Nat) /\ focus \in Context
  BY DEF World
<1>3. Good(a) /\ (Allowed(focus) => Entered(a, focus))
  BY AllowGood DEF World
<1>4. Allowed(focus) => a.keyContext # NoContext
  BY <1>2, <1>3, TextServiceAssumption DEF Entered
<1> HIDE DEF a
<1>5. CASE HostKey(kind)
  <2> DEFINE u == [tip EXCEPT !.target = IF @ = "held" THEN "moved" ELSE @]
  <2>1. /\ u \in Tip
        /\ u.queue = tip.queue
        /\ u.session = tip.session
        /\ u.restricted = tip.restricted
        /\ u.home = tip.home
        /\ u.keyContext = tip.keyContext
        /\ u.keyPrivacy = tip.keyPrivacy
    BY DEF Good, Tip
  <2>2. Good(u)
    BY <2>1, SameSession DEF Good
  <2>3. text' \in [Context -> Seq(Nat)]
    BY <1>2, <1>5, TookTyped DEF HostKey, World
  <2> QED
    BY <1>1, <1>5, <2>2, <2>3 DEF HostKey, World
<1>6. CASE KeyDenied(kind)
  <2>1. text' \in [Context -> Seq(Nat)]
    BY <1>2, <1>6, TookTyped DEF KeyDenied, World
  <2> QED
    BY <1>1, <1>6, <2>1, AbandonGood DEF KeyDenied, World
<1>7. CASE CancelKey(kind)
  BY <1>1, <1>3, <1>7, CancelGood DEF CancelKey, KeyAllowed, World, a
<1>10. CASE KeyBypassed(kind)
  <2>1. text' \in [Context -> Seq(Nat)]
    BY <1>2, <1>10, TookTyped DEF KeyBypassed, World
  <2> QED
    BY <1>1, <1>3, <1>10, <2>1 DEF KeyBypassed, World, a
<1>8. CASE KeyBehindQueue(kind)
  <2>1. PICK r \in QueueStartupKey(a, focus, TypedKey(kind)) : KeyEdit(r, typed + 1)
    BY <1>8 DEF KeyBehindQueue, a
  <2>2. Good(r.tip) /\ r.ids \in Seq(Nat)
    BY <1>2, <1>3, TypedKeyIsKey, QueueGood DEF GoodResults, World
  <2> QED
    BY <1>1, <1>8, <2>1, <2>2, KeyEditInv DEF KeyBehindQueue, KeyAllowed, World
<1>9. CASE KeyToEngine(kind)
  <2>1. PICK s \in SessionForKey(a, kind) :
          /\ broker' = BrokerAfter(s.spawned)
          /\ \E r \in IF s.ok THEN ProcessKeyDown(s.tip, focus, TypedKey(kind))
                      ELSE QueueStartupKey(s.tip, focus, TypedKey(kind)) :
               KeyEdit(r, typed + 1)
    BY <1>9 DEF KeyToEngine, a
  <2>2. Good(s.tip)
    BY <1>3, <1>4, <1>9, SessionForKeyGood DEF KeyToEngine, KeyAllowed
  <2>3. PICK r \in IF s.ok THEN ProcessKeyDown(s.tip, focus, TypedKey(kind))
                 ELSE QueueStartupKey(s.tip, focus, TypedKey(kind)) :
          KeyEdit(r, typed + 1)
    BY <2>1
  <2>4. Good(r.tip) /\ r.ids \in Seq(Nat)
    <3>1. GoodResults(ProcessKeyDown(s.tip, focus, TypedKey(kind)))
      BY <2>2, TypedKeyIsKey, ProcessGood
    <3>2. GoodResults(QueueStartupKey(s.tip, focus, TypedKey(kind)))
      BY <1>2, <2>2, TypedKeyIsKey, QueueGood DEF World
    <3> QED
      BY <2>3, <3>1, <3>2 DEF GoodResults
  <2>5. broker' \in {"down", "starting", "ready"}
    BY <2>1 DEF BrokerAfter, World
  <2> QED
    BY <1>1, <1>9, <2>3, <2>4, <2>5, KeyEditInv DEF KeyToEngine, KeyAllowed
<1> QED
  BY <1>5, <1>6, <1>7, <1>8, <1>9, <1>10

(* OnStartupTimer and RequestStartupEdit. *)
LEMMA RequestInv ==
  ASSUME NEW t, Good(t), t.context \in Context, edits \subseteq Edit,
         NEW fallback \in BOOLEAN, RequestStartupEdit(t, fallback)
  PROVE  Good(tip') /\ edits' \subseteq Edit
<1>1. CASE /\ tip' = [t EXCEPT !.timer = FALSE, !.scheduled = TRUE]
           /\ edits' = edits \cup {[gen |-> t.queue.gen, context |-> t.context,
                                   fallback |-> fallback]}
  <2>1. /\ tip' \in Tip
        /\ tip'.queue = t.queue
        /\ tip'.session = t.session
        /\ tip'.restricted = t.restricted
        /\ tip'.home = t.home
        /\ tip'.keyContext = t.keyContext
        /\ tip'.keyPrivacy = t.keyPrivacy
    BY <1>1 DEF Good, Tip
  <2>2. t.queue.gen \in Nat
    BY DEF Good, Tip, Queue
  <2>3. Good(tip')
    BY <2>1, SameSession DEF Good
  <2>4. [gen |-> t.queue.gen, context |-> t.context, fallback |-> fallback] \in Edit
    BY <2>2 DEF Edit
  <2> QED
    BY <1>1, <2>3, <2>4
<1>2. CASE tip' = CancelStartupReplay(t) /\ UNCHANGED edits
  BY <1>2, CancelGood
<1> QED
  BY <1>1, <1>2 DEF RequestStartupEdit

(* OnStartupTimer on each of its ways out. *)
LEMMA TimerInv ==
  ASSUME IInv, TimerCancels \/ TimerFallsBack \/ TimerReplays \/ ClockExpires
  PROVE  IInv'
<1> USE DEF IInv
<1>1. ~TimerTargetLost => tip.context \in Context
  BY DEF TimerTargetLost, World
<1>2. OnTimer /\ edits' \subseteq Edit => World'
  BY DEF OnTimer, World
<1>3. CASE TimerCancels
  BY <1>2, <1>3, CancelGood DEF TimerCancels, World
<1>4. CASE TimerFallsBack
  <2> DEFINE u == [tip EXCEPT !.launched = FALSE]
  <2>1. /\ u \in Tip
        /\ u.queue = tip.queue
        /\ u.context = tip.context
        /\ u.session = tip.session
        /\ u.restricted = tip.restricted
        /\ u.home = tip.home
        /\ u.keyContext = tip.keyContext
        /\ u.keyPrivacy = tip.keyPrivacy
    BY DEF Good, Tip
  <2>2. Good(u)
    BY <2>1, SameSession DEF Good
  <2>3. u.context \in Context /\ RequestStartupEdit(u, TRUE)
    BY <1>1, <1>4, <2>1 DEF TimerFallsBack
  <2> HIDE DEF u
  <2>4. Good(tip') /\ edits' \subseteq Edit
    BY <2>2, <2>3, RequestInv DEF World
  <2> QED
    BY <1>2, <1>4, <2>4 DEF TimerFallsBack
<1>5. CASE TimerReplays
  <2>1. Good(tip') /\ edits' \subseteq Edit
    BY <1>1, <1>5, RequestInv DEF World, TimerReplays
  <2> QED
    BY <1>2, <1>5, <2>1 DEF TimerReplays
<1>6. CASE ClockExpires
  <2>1. /\ tip' \in Tip
        /\ tip'.queue = tip.queue
        /\ tip'.session = tip.session
        /\ tip'.restricted = tip.restricted
        /\ tip'.home = tip.home
        /\ tip'.keyContext = tip.keyContext
        /\ tip'.keyPrivacy = tip.keyPrivacy
    BY <1>6 DEF ClockExpires, Good, Tip
  <2>2. Good(tip')
    BY <2>1, SameSession DEF Good
  <2> QED
    BY <1>6, <2>2 DEF ClockExpires, World
<1> QED
  BY <1>3, <1>4, <1>5, <1>6

(* The edits TSF grants. *)
LEMMA GrantInv ==
  ASSUME IInv, NEW e \in edits,
         GrantFallback(e) \/ ReplayRefused(e) \/ ReplayWaits(e) \/ ReplayStarts(e)
  PROVE  IInv'
<1> USE DEF IInv
<1> DEFINE a == Opened(e)
<1>1. e.context \in Context /\ e.gen \in Nat
  BY DEF World, Edit
<1>2. Good(a) /\ (Allowed(e.context) => Entered(a, e.context))
  BY <1>1, OpenGood, AllowGood DEF Opened, World
<1>3. GateHolds(e) => a.keyContext # NoContext
  BY <1>1, <1>2, TextServiceAssumption DEF GateHolds, Entered
<1>4. Granting(e) /\ replay' \in Replay /\ (replay'.on => replay'.context \in Context)
        /\ (replay'.step = "key" \/ UNCHANGED replay) /\ broker' \in {"down", "starting", "ready"}
        /\ text' \in [Context -> Seq(Nat)] => World'
  BY DEF Granting, World
<1>5. \A spawned : BrokerAfter(spawned) \in {"down", "starting", "ready"}
  BY DEF BrokerAfter, World
<1> HIDE DEF a
<1>6. CASE GrantFallback(e)
  <2>1. PICK r \in FallbackStartupKeys(tip, e.context, e.gen) :
          tip' = r.tip /\ Took(e.context, r.ids)
    BY <1>6 DEF GrantFallback
  <2>2. Good(r.tip) /\ r.ids \in Seq(Nat)
    BY <1>1, FallbackGood DEF GoodResults, World
  <2>3. text' \in [Context -> Seq(Nat)]
    BY <1>1, <2>1, <2>2, TookTyped DEF World
  <2> QED
    BY <1>4, <1>6, <2>1, <2>2, <2>3 DEF GrantFallback, World
<1>7. CASE ReplayRefused(e)
  <2>1. Good(tip')
    BY <1>2, <1>7, CancelGood DEF ReplayRefused, a
  <2> QED
    BY <1>4, <1>7, <2>1 DEF ReplayRefused, World
<1>8. CASE ReplayWaits(e)
  <2>1. PICK s \in EnsureSession(a) :
          /\ broker' = BrokerAfter(s.spawned)
          /\ \E r \in ScheduleOrFallback(s.tip, e.context, e.gen) :
               tip' = r.tip /\ Took(e.context, r.ids)
    BY <1>8 DEF ReplayWaits, a
  <2>2. Good(s.tip)
    BY <1>2, <1>3, <1>8, EnsureGood DEF ReplayWaits
  <2>3. PICK r \in ScheduleOrFallback(s.tip, e.context, e.gen) :
          tip' = r.tip /\ Took(e.context, r.ids)
    BY <2>1
  <2>4. Good(r.tip) /\ r.ids \in Seq(Nat)
    BY <1>1, <2>2, ScheduleOrFallbackGood DEF GoodResults, World
  <2>5. text' \in [Context -> Seq(Nat)]
    BY <1>1, <2>3, <2>4, TookTyped DEF World
  <2> QED
    BY <1>4, <1>5, <1>8, <2>1, <2>3, <2>4, <2>5 DEF ReplayWaits, World
<1>9. CASE ReplayStarts(e)
  <2>1. PICK s \in EnsureSession(a) :
          /\ broker' = BrokerAfter(s.spawned)
          /\ tip' = [s.tip EXCEPT !.queue = Taken(@)]
          /\ replay' = [on |-> TRUE, step |-> "key", gen |-> e.gen, context |-> e.context,
                        todo |-> s.tip.queue.keys, left |-> Batch]
    BY <1>9 DEF ReplayStarts, a
  <2>2. Good(s.tip)
    BY <1>2, <1>3, <1>9, EnsureGood DEF ReplayStarts
  <2>3. s.tip.queue \in Queue /\ s.tip.queue.keys \in Seq(Key)
    BY <2>2 DEF Good, Tip, Queue
  <2>4. /\ Taken(s.tip.queue) \in Queue
        /\ Len(Taken(s.tip.queue).keys) <= Capacity
    <3>1. <<>> \in Seq(Key) /\ Len(<<>>) <= Capacity
      BY CapacityAssumption
    <3> QED
      BY <2>3, <3>1 DEF Taken, Queue
  <2>5. /\ tip' \in Tip
        /\ tip'.queue = Taken(s.tip.queue)
        /\ tip'.session = s.tip.session
        /\ tip'.restricted = s.tip.restricted
        /\ tip'.home = s.tip.home
        /\ tip'.keyContext = s.tip.keyContext
        /\ tip'.keyPrivacy = s.tip.keyPrivacy
    BY <2>1, <2>2, <2>4 DEF Good, Tip
  <2>6. Good(tip')
    BY <2>2, <2>4, <2>5, SameSession
  <2>7. replay' \in Replay /\ replay'.context \in Context /\ replay'.step = "key"
    BY <1>1, <2>1, <2>3, TextServiceAssumption DEF Replay
  <2> QED
    BY <1>4, <1>5, <1>9, <2>1, <2>6, <2>7 DEF ReplayStarts, World
<1> QED
  BY <1>6, <1>7, <1>8, <1>9

(* PushAll fills the queue up to its bound. *)
LEMMA PushAllTyped ==
  ASSUME NEW q \in Queue, NEW keys \in Seq(Key)
  PROVE  PushAll(q, keys) \in Queue /\ Len(PushAll(q, keys).keys) <= Capacity
<1> DEFINE all == q.keys \o keys
           kept == IF Len(all) <= Capacity THEN all ELSE SubSeq(all, 1, Capacity)
<1>1. all \in Seq(Key) /\ Len(all) \in Nat
  BY DEF Queue
<1> HIDE DEF all
<1>2. kept \in Seq(Key) /\ Len(kept) <= Capacity
  <2>1. CASE Len(all) <= Capacity
    BY <1>1, <2>1
  <2>2. CASE ~(Len(all) <= Capacity)
    <3>1. Capacity \in Nat /\ Capacity <= Len(all)
      BY <1>1, <2>2, CapacityAssumption
    <3>2. SubSeq(all, 1, Capacity) \in Seq(Key) /\ Len(SubSeq(all, 1, Capacity)) = Capacity
      BY <1>1, <3>1, SMTT(30)
    <3> QED
      BY <2>2, <3>1, <3>2
  <2> QED
    BY <2>1, <2>2
<1>3. PushAll(q, keys) = [q EXCEPT !.keys = kept]
  BY DEF PushAll, all
<1> HIDE DEF kept
<1> QED
  BY <1>2, <1>3 DEF Queue

(* ReplayStartupKeys behind Take. *)
LEMMA LoopInv ==
  ASSUME IInv, ReplayStops \/ ReplayKey \/ ReplayMark \/ ReplayTail \/ ReplayEnds
  PROVE  IInv'
<1> USE DEF IInv
<1> DEFINE Loop(q) == /\ q \in Replay
                      /\ q.on => q.context \in Context
                      /\ q.step # "key" => q.todo # <<>> /\ q.left > 0
<1>1. Looping /\ Loop(replay') /\ text' \in [Context -> Seq(Nat)] => World'
  BY DEF Looping, World
<1>2. Loop(Idle)
  BY DEF Idle, Replay
<1>3. replay.todo \in Seq(Key) /\ replay \in Replay
  BY DEF World, Replay
<1>10. Looping => replay.context \in Context
  BY DEF Looping, World
<1>11. InLoop /\ Looping => Loop(Advance) /\ \A s \in {"mark", "tail"} : Loop(At(s))
  <2> SUFFICES ASSUME InLoop, Looping
               PROVE  Loop(Advance) /\ \A s \in {"mark", "tail"} : Loop(At(s))
    OBVIOUS
  <2>1. Tail(replay.todo) \in Seq(Key) /\ replay.left - 1 \in Nat
    BY <1>3 DEF InLoop, Replay
  <2>2. Loop(Advance)
    BY <1>3, <1>10, <2>1 DEF Advance, Replay
  <2>3. \A s \in {"mark", "tail"} : Loop(At(s))
    BY <1>3, <1>10 DEF At, Replay, InLoop
  <2> QED
    BY <2>2, <2>3
<1> HIDE DEF Loop
<1>4. CASE ReplayStops
  BY <1>1, <1>2, <1>4 DEF ReplayStops, World
<1>5. CASE ReplayKey
  <2> DEFINE key == Head(replay.todo)
             c == replay.context
  <2>1. key \in Key
    BY <1>3, <1>5 DEF ReplayKey, InLoop
  <2>2. PICK r \in FirstCall(key) :
          \/ /\ r.failed \/ r.eaten
             /\ tip' = r.tip
             /\ Took(c, r.ids)
             /\ replay' = CASE r.failed -> At("tail")
                            [] ~r.failed /\ MarkFollows(key) -> At("mark")
                            [] OTHER -> Advance
          \/ /\ ~r.failed /\ ~r.eaten
             /\ \E f \in CommitFallback(r.tip, c, <<key>>) :
                  /\ tip' = f.tip
                  /\ Took(c, r.ids \o f.ids)
                  /\ replay' = IF f.failed THEN Idle ELSE Advance
    BY <1>5 DEF ReplayKey
  <2>3. Looping /\ InLoop /\ c \in Context
    BY <1>5, <1>10 DEF ReplayKey
  <2> HIDE DEF key, c
  <2>4. Good(r.tip) /\ r.ids \in Seq(Nat)
    BY <2>1, ProcessGood, KeyResponseGood, EmptyIds DEF GoodResults, FirstCall, SelectBeforeMark
  <2>5. CASE /\ tip' = r.tip
             /\ Took(c, r.ids)
             /\ replay' = CASE r.failed -> At("tail")
                            [] ~r.failed /\ MarkFollows(key) -> At("mark")
                            [] OTHER -> Advance
    <3>1. text' \in [Context -> Seq(Nat)]
      BY <2>3, <2>4, <2>5, TookTyped DEF World
    <3>2. Loop(replay')
      BY <1>11, <2>3, <2>5
    <3> QED
      BY <1>1, <2>3, <2>4, <2>5, <3>1, <3>2
  <2>6. CASE \E f \in CommitFallback(r.tip, c, <<key>>) :
               /\ tip' = f.tip
               /\ Took(c, r.ids \o f.ids)
               /\ replay' = IF f.failed THEN Idle ELSE Advance
    <3>1. PICK f \in CommitFallback(r.tip, c, <<key>>) :
            /\ tip' = f.tip
            /\ Took(c, r.ids \o f.ids)
            /\ replay' = IF f.failed THEN Idle ELSE Advance
      BY <2>6
    <3>2. <<key>> \in Seq(Key)
      BY <2>1
    <3>3. Good(f.tip) /\ f.ids \in Seq(Nat)
      BY <2>4, <3>2, CommitFallbackGood DEF GoodResults
    <3>4. r.ids \o f.ids \in Seq(Nat)
      BY <2>4, <3>3
    <3>5. text' \in [Context -> Seq(Nat)]
      BY <2>3, <3>1, <3>4, TookTyped DEF World
    <3>6. Loop(replay')
      BY <1>2, <1>11, <2>3, <3>1
    <3> QED
      BY <1>1, <2>3, <3>1, <3>3, <3>5, <3>6
  <2> QED
    BY <2>2, <2>5, <2>6
<1>7. CASE ReplayMark
  <2>1. PICK r \in CommitText(tip, replay.context, <<Head(replay.todo).id>>) :
          /\ tip' = r.tip
          /\ Took(replay.context, r.ids)
          /\ replay' = IF r.failed THEN At("tail") ELSE Advance
    BY <1>7 DEF ReplayMark
  <2>2. Looping /\ InLoop /\ replay.context \in Context
    BY <1>7, <1>10 DEF ReplayMark, World, InLoop
  <2>3. <<Head(replay.todo).id>> \in Seq(Nat)
    <3>1. Head(replay.todo) \in Key
      BY <1>3, <2>2 DEF InLoop
    <3> QED
      BY <3>1 DEF Key
  <2>4. Good(r.tip) /\ r.ids \in Seq(Nat)
    BY <2>3, EditGood DEF CommitText, GoodResults
  <2>5. text' \in [Context -> Seq(Nat)]
    BY <2>1, <2>2, <2>4, TookTyped DEF World
  <2>6. Loop(replay')
    BY <1>11, <2>1, <2>2
  <2> QED
    BY <1>1, <2>1, <2>2, <2>4, <2>5, <2>6
<1>8. CASE ReplayTail
  <2>1. PICK r \in TailAsText(tip, replay.context) :
          tip' = r.tip /\ Took(replay.context, r.ids)
    BY <1>8 DEF ReplayTail
  <2>2. Looping /\ replay.context \in Context /\ replay' = Idle
    BY <1>8, <1>10 DEF ReplayTail
  <2>3. GoodResults(TailAsText(tip, replay.context))
    BY <1>3, <2>2, AbandonGood, AllowGood, ResultGood, EmptyIds, CommitFallbackGood
    DEF TailAsText, World
  <2>4. Good(r.tip) /\ r.ids \in Seq(Nat)
    BY <2>1, <2>3 DEF GoodResults
  <2>5. text' \in [Context -> Seq(Nat)]
    BY <2>1, <2>2, <2>4, TookTyped DEF World
  <2> QED
    BY <1>1, <1>2, <2>1, <2>2, <2>4, <2>5
<1>6. CASE ReplayEnds
  <2>1. Good(Requeued) /\ replay.context \in Context
    <3>1. tip.queue \in Queue /\ tip \in Tip
      BY DEF Good, Tip
    <3>2. PushAll(tip.queue, replay.todo) \in Queue
          /\ Len(PushAll(tip.queue, replay.todo).keys) <= Capacity
      BY <1>3, <3>1, PushAllTyped
    <3>3. /\ Requeued \in Tip
          /\ Requeued.queue = PushAll(tip.queue, replay.todo)
          /\ Requeued.session = tip.session
          /\ Requeued.restricted = tip.restricted
          /\ Requeued.home = tip.home
          /\ Requeued.keyContext = tip.keyContext
          /\ Requeued.keyPrivacy = tip.keyPrivacy
      BY <3>1, <3>2 DEF Requeued, Tip
    <3>4. Good(Requeued)
      BY <3>2, <3>3, SameSession
    <3> QED
      BY <1>6, <3>4 DEF ReplayEnds, Looping, World
  <2> DEFINE u == [Requeued EXCEPT !.context = NoContext, !.target = "none", !.clock = "off"]
             w == [Requeued EXCEPT !.target = "held"]
  <2>2. Good(u) /\ Good(w)
    <3> HIDE DEF IInv
    <3>1. /\ u \in Tip
          /\ u.queue = Requeued.queue
          /\ u.session = Requeued.session
          /\ u.restricted = Requeued.restricted
          /\ u.home = Requeued.home
          /\ u.keyContext = Requeued.keyContext
          /\ u.keyPrivacy = Requeued.keyPrivacy
      BY <2>1 DEF Good, Tip
    <3>2. /\ w \in Tip
          /\ w.queue = Requeued.queue
          /\ w.session = Requeued.session
          /\ w.restricted = Requeued.restricted
          /\ w.home = Requeued.home
          /\ w.keyContext = Requeued.keyContext
          /\ w.keyPrivacy = Requeued.keyPrivacy
      BY <2>1 DEF Good, Tip
    <3>3. Len(Requeued.queue.keys) <= Capacity
      BY <2>1 DEF Good
    <3> HIDE DEF u, w
    <3> QED
      BY <2>1, <3>1, <3>2, <3>3, SameSession
  <2> HIDE DEF u, w
  <2>3. CASE tip' = u /\ UNCHANGED text
    BY <1>1, <1>2, <1>6, <2>2, <2>3 DEF ReplayEnds, World
  <2>4. CASE \E r \in {Result(CancelStartupReplay(Requeued), TRUE, FALSE, <<>>)} \cup
                     ScheduleOrFallback(w, replay.context, replay.gen) :
               tip' = r.tip /\ Took(replay.context, r.ids)
    <3>1. PICK r \in {Result(CancelStartupReplay(Requeued), TRUE, FALSE, <<>>)} \cup
                    ScheduleOrFallback(w, replay.context, replay.gen) :
            tip' = r.tip /\ Took(replay.context, r.ids)
      BY <2>4
    <3>2. GoodResults({Result(CancelStartupReplay(Requeued), TRUE, FALSE, <<>>)})
      BY <2>1, CancelGood, ResultGood, EmptyIds
    <3>3. GoodResults(ScheduleOrFallback(w, replay.context, replay.gen))
      BY <2>1, <2>2, ScheduleOrFallbackGood DEF World
    <3>4. Good(r.tip) /\ r.ids \in Seq(Nat)
      BY <3>2, <3>3 DEF GoodResults
    <3>5. text' \in [Context -> Seq(Nat)]
      BY <2>1, <3>1, <3>4, TookTyped DEF World
    <3> QED
      BY <1>1, <1>2, <1>6, <3>1, <3>4, <3>5 DEF ReplayEnds
  <2> QED
    BY <1>6, <2>3, <2>4 DEF ReplayEnds, u, w
<1> QED
  BY <1>4, <1>5, <1>6, <1>7, <1>8

(* The host, the published mode, the mode key and the broker process. *)
LEMMA HostInv ==
  ASSUME IInv,
         \/ \E c \in Context : \/ HostFocuses(c)
                              \/ \E privacy \in Privacy : HostRescopes(c, privacy)
         \/ HostMovesCaret \/ LoseFocus \/ ModePublished \/ ToggleInputMode
         \/ BrokerReady \/ BrokerExits
  PROVE  IInv'
<1> USE DEF IInv
<1>1. CASE \E c \in Context : \/ HostFocuses(c)
                            \/ \E privacy \in Privacy : HostRescopes(c, privacy)
  <2>1. CASE \E c \in Context : HostFocuses(c)
    BY <2>1 DEF HostFocuses, OfHost, Happens, World
  <2>2. CASE \E c \in Context : \E privacy \in Privacy : HostRescopes(c, privacy)
    BY <2>2 DEF HostRescopes, OfHost, Happens, World
  <2> QED
    BY <1>1, <2>1, <2>2
<1>2. OnHost /\ UNCHANGED <<focus, scope, text>> => World'
  BY DEF OnHost, OfHost, Happens, World
<1>3. CASE HostMovesCaret
  <2>1. /\ tip' \in Tip
        /\ tip'.queue = tip.queue
        /\ tip'.session = tip.session
        /\ tip'.restricted = tip.restricted
        /\ tip'.home = tip.home
        /\ tip'.keyContext = tip.keyContext
        /\ tip'.keyPrivacy = tip.keyPrivacy
    BY <1>3 DEF HostMovesCaret, Good, Tip
  <2>2. Good(tip')
    BY <2>1, SameSession DEF Good
  <2> QED
    BY <1>2, <1>3, <2>2 DEF HostMovesCaret
<1>4. CASE LoseFocus
  BY <1>2, <1>4, AbandonGood DEF LoseFocus
<1>5. CASE ModePublished
  BY <1>2, <1>5, SynchronizeGood DEF ModePublished
<1>6. CASE ToggleInputMode
  <2> DEFINE a == AllowKeyInContext(tip, focus)
             t == CancelStartupReplay(a)
             u == [t EXCEPT !.composing = FALSE]
             results == IF t.chinese /\ t.composing THEN CommitText(u, focus, <<>>)
                        ELSE {Result(t, TRUE, FALSE, <<>>)}
  <2>1. Good(t)
    BY AllowGood, CancelGood DEF World
  <2>2. PICK r \in results : tip' = IF r.failed THEN AbandonSession(r.tip)
                                ELSE [r.tip EXCEPT !.composing = FALSE, !.chinese = ~@]
    BY <1>6, Zenon DEF ToggleInputMode
  <2> HIDE DEF t
  <2>3. Good(u)
    <3>1. /\ u \in Tip
          /\ u.queue = t.queue
          /\ u.session = t.session
          /\ u.restricted = t.restricted
          /\ u.home = t.home
          /\ u.keyContext = t.keyContext
          /\ u.keyPrivacy = t.keyPrivacy
      BY <2>1 DEF Good, Tip
    <3> QED
      BY <2>1, <3>1, SameSession DEF Good
  <2> HIDE DEF u
  <2>4. Good(r.tip)
    BY <2>1, <2>3, EditGood, ResultGood, EmptyIds DEF CommitText, GoodResults
  <2>5. Good([r.tip EXCEPT !.composing = FALSE, !.chinese = ~@])
    <3> DEFINE w == [r.tip EXCEPT !.composing = FALSE, !.chinese = ~@]
    <3>4. r.tip \in Tip /\ (~r.tip.chinese) \in BOOLEAN
      BY <2>4 DEF Good
    <3>5. w \in Tip
      <4>1. w = [r.tip EXCEPT !.chinese = ~@, !.composing = FALSE]
        BY <3>4 DEF Tip
      <4> QED
        BY <3>4, <4>1, ModeTip, Zenon
    <3>1. /\ w \in Tip
          /\ w.queue = r.tip.queue
          /\ w.session = r.tip.session
          /\ w.restricted = r.tip.restricted
          /\ w.home = r.tip.home
          /\ w.keyContext = r.tip.keyContext
          /\ w.keyPrivacy = r.tip.keyPrivacy
      BY <3>4, <3>5 DEF Tip
    <3>2. Len(w.queue.keys) <= Capacity
      BY <2>4, <3>1 DEF Good
    <3> HIDE DEF w
    <3>3. Good(w)
      BY <2>4, <3>1, <3>2, SameSession
    <3> QED
      BY <3>3 DEF w
  <2>6. Good(tip')
    BY <2>2, <2>4, <2>5, AbandonGood
  <2> QED
    BY <1>2, <1>6, <2>6 DEF ToggleInputMode
<1>7. CASE BrokerReady
  BY <1>7 DEF BrokerReady, World
<1>8. CASE BrokerExits
  <2>1. /\ tip' \in Tip
        /\ tip'.queue = tip.queue
        /\ tip'.session # "none" => tip.session # "none"
        /\ tip'.restricted = tip.restricted
        /\ tip'.home = tip.home
        /\ tip'.keyContext = tip.keyContext
        /\ tip'.keyPrivacy = tip.keyPrivacy
    BY <1>8 DEF BrokerExits, Good, Tip
  <2>2. Good(tip')
    BY <2>1 DEF Good, SessionMatches
  <2> QED
    BY <1>8, <2>2 DEF BrokerExits, Happens, World
<1> QED
  BY <1>1, <1>3, <1>4, <1>5, <1>6, <1>7, <1>8

(* Every step of Next, and every stutter. *)
LEMMA StepInv == ASSUME IInv, [Next]_vars PROVE IInv'
<1>1. CASE \E kind \in Kind : HostKey(kind) \/ KeyDenied(kind) \/ KeyBypassed(kind) \/ CancelKey(kind)
                              \/ KeyBehindQueue(kind) \/ KeyToEngine(kind)
  BY <1>1, KeyInv
<1>2. CASE TimerCancels \/ TimerFallsBack \/ TimerReplays \/ ClockExpires
  BY <1>2, TimerInv
<1>3. CASE \E e \in edits : GrantFallback(e) \/ ReplayRefused(e)
                           \/ ReplayWaits(e) \/ ReplayStarts(e)
  BY <1>3, GrantInv
<1>4. CASE ReplayStops \/ ReplayKey \/ ReplayMark \/ ReplayTail \/ ReplayEnds
  BY <1>4, LoopInv
<1>5. CASE \/ \E c \in Context : \/ HostFocuses(c)
                               \/ \E privacy \in Privacy : HostRescopes(c, privacy)
           \/ HostMovesCaret \/ LoseFocus \/ ModePublished \/ ToggleInputMode
           \/ BrokerReady \/ BrokerExits
  BY <1>5, HostInv
<1>6. CASE UNCHANGED vars
  BY <1>6 DEF vars, IInv, World
<1> QED
  BY <1>1, <1>2, <1>3, <1>4, <1>5, <1>6, Zenon DEF Next

(* Hence the invariant holds in every behaviour. *)
LEMMA SpecInv == Spec => []IInv
<1>1. Init => IInv
  BY InitInv
<1>2. IInv /\ [Next]_vars => IInv'
  BY StepInv
<1> QED
  BY <1>1, <1>2, PTL DEF Spec

(* The state is well typed and the startup queue never grows beyond        *)
(* kMaximumKeys, for every number of fields, keys and events.              *)
THEOREM TypeCorrect == Spec => []TypeOK
  BY SpecInv, InvariantParts, PTL

(* A session is only ever used for the field it was created for: whatever  *)
(* the host, the broker and the user do, and in whatever order, there is   *)
(* no session without a field that passed the privacy gate, and a session  *)
(* is restricted exactly if that field is.                                 *)
THEOREM SessionMatchesFieldAlways == Spec => []SessionMatchesField
  BY SpecInv, InvariantParts, PTL

------------------------------------------------------------------------------
(***************************************************************************)
(* Proof that keys never sit in the startup queue unattended               *)
(* (TextService!QueueIsServed).                                            *)
(*                                                                         *)
(* The argument is about generations.  A call of the text service either   *)
(* keeps the queue and all that attends it, or drops the queue and raises  *)
(* the generation, which outdates every edit requested so far; only a few  *)
(* calls do anything else, and each of them starts the timer.              *)
(***************************************************************************)

(* The call that turned t into u left the queue and its attendance alone;  *)
(* it also left the caret where the keys have captured it, the mode, and   *)
(* the field the service is in.                                            *)
Marked(t, u) ==
  /\ u.queue = t.queue
  /\ u.context = t.context
  /\ u.timer = t.timer
  /\ u.scheduled = t.scheduled

Kept(t, u) ==
  /\ Marked(t, u)
  /\ u.target = t.target
  /\ u.chinese = t.chinese
  /\ t.keyContext # NoContext => u.keyContext = t.keyContext /\ u.keyPrivacy = t.keyPrivacy

(* The call that turned t into u gave the queue up. *)
Dropped(t, u) ==
  /\ u.queue.gen > t.queue.gen
  /\ u.queue.keys = <<>>
  /\ u.context = NoContext
  /\ ~u.timer
  /\ ~u.scheduled

Moved(t, u) == Kept(t, u) \/ Dropped(t, u)
MovedResults(t, S) == \A r \in S : Moved(t, r.tip)

(* startup_replay_scheduled says whether the edit for the queue, the only  *)
(* edit that names its generation, is among the edits E, and with that     *)
(* edit requested the timer is off.                                        *)
NoneAhead(t, E) == \A e \in E : e.gen <= t.queue.gen
Served(t, E) ==
  /\ NoneAhead(t, E)
  /\ \A e \in E : e.gen = t.queue.gen => t.scheduled /\ e.context = t.context
  /\ t.scheduled => \E e \in E : e.gen = t.queue.gen
  /\ \A e, f \in E : e.gen = t.queue.gen /\ f.gen = t.queue.gen => e = f
  /\ t.scheduled => ~t.timer /\ t.queue.keys # <<>>

(* Keys with a field have the timer or the edit. *)
Attended(t) ==
  t.queue.keys # <<>> /\ t.context # NoContext => t.timer \/ t.scheduled

(* The loop took every key, and its generation is outdated only with the   *)
(* field of the queue forgotten: keys put back then belong to no field.    *)
InReplay ==
  /\ tip.queue.keys = <<>>
  /\ replay.gen = tip.queue.gen \/ tip.context = NoContext

QueueInv ==
  /\ Served(tip, edits)
  /\ IF replay.on THEN InReplay ELSE Attended(tip)

------------------------------------------------------------------------------
(* The generation of a typed record is a number. *)
LEMMA GenIsNat == ASSUME NEW t, Good(t) PROVE t.queue.gen \in Nat
  BY DEF Good, Tip, Queue

(* Calls in a row move the record as one call does. *)
LEMMA MovedOn ==
  ASSUME NEW t, NEW u, NEW v, Good(t), Good(u), Good(v), Moved(t, u), Moved(u, v)
  PROVE  /\ Moved(t, v)
         /\ Dropped(t, u) \/ Dropped(u, v) => Dropped(t, v)
  BY GenIsNat DEF Moved, Kept, Marked, Dropped

(* A record keeps its queue with itself. *)
LEMMA StaysMoved == ASSUME NEW t PROVE Kept(t, t) /\ Moved(t, t)
  BY DEF Moved, Kept, Marked

(* Behind a dropped queue no edit is live and no key waits. *)
LEMMA DroppedServes ==
  ASSUME NEW t, NEW u, Good(t), Good(u), NEW E \in SUBSET Edit,
         NoneAhead(t, E), Dropped(t, u)
  PROVE  Served(u, E) /\ Attended(u)
<1>1. t.queue.gen \in Nat /\ u.queue.gen \in Nat
  BY GenIsNat
<1>2. \A e \in E : e.gen < u.queue.gen /\ e.gen \in Nat
  BY <1>1 DEF Dropped, NoneAhead, Edit
<1>3. \A e \in E : e.gen # u.queue.gen /\ e.gen <= u.queue.gen
  BY <1>1, <1>2
<1> QED
  BY <1>3 DEF Served, Attended, Dropped, NoneAhead

(* A caret that moves away changes nothing about that. *)
LEMMA MarkServes ==
  ASSUME NEW t, NEW u, NEW E, Marked(t, u)
  PROVE  /\ Served(t, E) => Served(u, E)
         /\ Attended(t) => Attended(u)
  BY DEF Marked, Served, Attended, NoneAhead

(* A call that keeps or drops the queue keeps it served. *)
LEMMA MovedServes ==
  ASSUME NEW t, NEW u, Good(t), Good(u), NEW E \in SUBSET Edit, Served(t, E), Moved(t, u)
  PROVE  Served(u, E) /\ (Attended(t) => Attended(u))
<1>1. CASE Kept(t, u)
  BY <1>1 DEF Kept, Marked, Served, Attended, NoneAhead
<1>2. CASE Dropped(t, u)
  BY <1>2, DroppedServes DEF Served
<1> QED
  BY <1>1, <1>2 DEF Moved

------------------------------------------------------------------------------
(***************************************************************************)
(* The calls of the text service, as moves.                                *)
(***************************************************************************)
(* CancelStartupReplay raises the generation. *)
LEMMA CancelDrops == ASSUME NEW t, Good(t) PROVE Dropped(t, CancelStartupReplay(t))
<1>1. t.queue.gen \in Nat
  BY GenIsNat
<1>2. Cancelled(t.queue).gen = t.queue.gen + 1 /\ Cancelled(t.queue).keys = <<>>
  BY DEF Cancelled
<1>3. /\ CancelStartupReplay(t).queue = Cancelled(t.queue)
      /\ CancelStartupReplay(t).context = NoContext
      /\ CancelStartupReplay(t).timer = FALSE
      /\ CancelStartupReplay(t).scheduled = FALSE
  BY DEF Good, Tip, CancelStartupReplay
<1> QED
  BY <1>1, <1>2, <1>3 DEF Dropped

(* AbandonSession cancels the queue along with the session. *)
LEMMA AbandonDrops == ASSUME NEW t, Good(t) PROVE Dropped(t, AbandonSession(t))
<1> DEFINE k == CancelStartupReplay(t)
<1>1. Good(k) /\ Dropped(t, k)
  BY CancelGood, CancelDrops
<1>2. AbandonSession(t) = [k EXCEPT !.session = "none", !.restricted = FALSE,
                             !.home = NoContext, !.keyContext = NoContext,
                             !.keyPrivacy = "blocked", !.composing = FALSE, !.launched = FALSE]
  BY DEF AbandonSession
<1> HIDE DEF k
<1>3. Marked(k, AbandonSession(t))
  BY <1>1, <1>2 DEF Good, Tip, Marked
<1> QED
  BY <1>1, <1>3 DEF Marked, Dropped

(* SynchronizeInputMode cancels the queue before it changes the mode. *)
LEMMA SynchronizeDrops == ASSUME NEW t, Good(t) PROVE Dropped(t, SynchronizeInputMode(t))
<1> DEFINE k == CancelStartupReplay(t)
<1>1. Good(k) /\ Dropped(t, k)
  BY CancelGood, CancelDrops
<1>2. SynchronizeInputMode(t) = [k EXCEPT !.chinese = ~@, !.composing = FALSE]
  BY DEF SynchronizeInputMode
<1> HIDE DEF k
<1>3. Marked(k, SynchronizeInputMode(t))
  BY <1>1, <1>2 DEF Good, Tip, Marked
<1> QED
  BY <1>1, <1>3 DEF Marked, Dropped

(* The gate keeps the queue, or drops it with the session; at a blocked    *)
(* field it always drops it.                                               *)
LEMMA AllowMoves ==
  ASSUME NEW t, Good(t), NEW c \in Context
  PROVE  /\ Moved(t, AllowKeyInContext(t, c))
         /\ ~Allowed(c) => Dropped(t, AllowKeyInContext(t, c))
<1> DEFINE changed == t.keyContext # NoContext /\ t.keyContext # c
           resets == ShouldResetInputSession(t.keyPrivacy, scope[c], changed)
           kept == IF resets THEN AbandonSession(t) ELSE t
           a == [kept EXCEPT !.keyContext = c, !.keyPrivacy = scope[c]]
<1>1. Good(kept) /\ (resets => Dropped(t, kept)) /\ (~resets => kept = t)
  BY AbandonGood, AbandonDrops
<1>2. AllowKeyInContext(t, c) = IF Allowed(c) THEN a ELSE AbandonSession(t)
  BY DEF AllowKeyInContext
<1>3. t.keyContext # NoContext /\ ~resets => t.keyContext = c /\ t.keyPrivacy = scope[c]
  BY DEF Good, SessionMatches, ShouldResetInputSession
<1> HIDE DEF kept, resets
<1>4. /\ Marked(kept, a) /\ a.target = kept.target /\ a.chinese = kept.chinese
      /\ a.keyContext = c /\ a.keyPrivacy = scope[c]
  BY <1>1 DEF Good, Tip, Marked
<1> HIDE DEF a
<1>5. Moved(t, a)
  BY <1>1, <1>3, <1>4 DEF Moved, Kept, Marked, Dropped
<1> QED
  BY <1>2, <1>5, AbandonDrops DEF Moved

(* A single result. *)
LEMMA ResultMoves ==
  ASSUME NEW t, NEW u, Moved(t, u), NEW eaten, NEW failed, NEW ids
  PROVE  MovedResults(t, {Result(u, eaten, failed, ids)})
  BY DEF MovedResults, Result

(* ApplyCompositionEdit: the callbacks of the host's text store drop the queue. *)
LEMMA EditMoves ==
  ASSUME NEW t, Good(t), NEW c, NEW ids
  PROVE  MovedResults(t, ApplyCompositionEdit(t, c, ids))
<1> SUFFICES ASSUME NEW r \in ApplyCompositionEdit(t, c, ids)
             PROVE  Moved(t, r.tip)
  BY DEF MovedResults
<1>0. AbandonSession(t) \in Reentered(t)
  BY DEF Reentered
<1>1. PICK u \in Reentered(t) : \E i \in {<<>>, ids} :
        r = Result(u, FALSE, TRUE, i) \/ r = Result(u, TRUE, FALSE, i)
  BY <1>0, Zenon DEF ApplyCompositionEdit
<1>2. r.tip = u
  BY <1>1 DEF Result
<1>3. Moved(t, u)
  BY AbandonDrops, SynchronizeDrops, StaysMoved DEF Moved, Reentered
<1> QED
  BY <1>2, <1>3

(* ApplyKeyResponse for a consumed answer. *)
LEMMA ConsumedMoves ==
  ASSUME NEW t, Good(t), NEW c, NEW kind, NEW ids \in Seq(Nat), NEW preedit \in BOOLEAN
  PROVE  MovedResults(t, Consumed(t, c, kind, ids, preedit))
<1> DEFINE committed == IF kind = "space" /\ ~preedit THEN ids ELSE <<>>
           edited == ApplyCompositionEdit(t, c, committed)
<1>1. committed \in Seq(Nat)
  BY EmptyIds
<1>2. GoodResults(edited) /\ MovedResults(t, edited)
  BY <1>1, EditGood, EditMoves
<1> HIDE DEF edited
<1> SUFFICES ASSUME NEW r \in edited
             PROVE  MovedResults(t, {IF r.failed
                                     THEN Result(AbandonSession(r.tip), FALSE, FALSE, r.ids)
                                     ELSE Result([r.tip EXCEPT !.composing = preedit],
                                                 TRUE, FALSE, ids)})
  BY DEF Consumed, MovedResults, edited
<1>3. Good(r.tip) /\ Moved(t, r.tip)
  BY <1>2 DEF GoodResults, MovedResults
<1> DEFINE u == [r.tip EXCEPT !.composing = preedit]
<1>4. Kept(r.tip, u)
  BY <1>3 DEF Good, Tip, Kept, Marked
<1> HIDE DEF u
<1>5. Moved(t, u)
  BY <1>3, <1>4 DEF Moved, Kept, Marked, Dropped
<1>6. Moved(t, AbandonSession(r.tip))
  BY <1>3, AbandonGood, AbandonDrops, MovedOn DEF Moved
<1> QED
  BY <1>5, <1>6 DEF MovedResults, Result, u

(* ApplyKeyResponse for every answer. *)
LEMMA KeyResponseMoves ==
  ASSUME NEW t, Good(t), NEW c, NEW kind, NEW ids \in Seq(Nat)
  PROVE  MovedResults(t, ApplyKeyResponse(t, c, kind, ids))
<1>1. \A preedit \in PreeditAfter(kind) : MovedResults(t, Consumed(t, c, kind, ids, preedit))
  BY ConsumedMoves DEF PreeditAfter
<1>2. MovedResults(t, {Result(t, FALSE, FALSE, <<>>)})
  BY ResultMoves, StaysMoved
<1>3. MovedResults(t, {Result(AbandonSession(t), FALSE, FALSE, <<>>)})
  BY ResultMoves, AbandonDrops DEF Moved
<1> SUFFICES ASSUME NEW answer \in Answers(t)
             PROVE  MovedResults(t, CASE answer = "consumed" ->
                         UNION {Consumed(t, c, kind, ids, preedit) : preedit \in PreeditAfter(kind)}
                    [] answer = "declined" -> {Result(t, FALSE, FALSE, <<>>)}
                    [] OTHER -> {Result(AbandonSession(t), FALSE, FALSE, <<>>)})
  BY Zenon DEF ApplyKeyResponse, MovedResults
<1>4. CASE answer = "consumed"
  BY <1>1, <1>4, Zenon DEF MovedResults
<1>5. CASE answer = "declined"
  BY <1>2, <1>5
<1>6. CASE answer # "consumed" /\ answer # "declined"
  BY <1>3, <1>6
<1> QED
  BY <1>4, <1>5, <1>6

(* Punctuation, behind the selection it makes first. *)
LEMMA PunctuateMoves ==
  ASSUME NEW t, Good(t), NEW c, NEW id \in Nat
  PROVE  MovedResults(t, Punctuate(t, c, id))
<1> DEFINE first == SelectBeforeMark(t, c)
<1>1. GoodResults(first) /\ MovedResults(t, first)
  BY KeyResponseGood, KeyResponseMoves, EmptyIds DEF SelectBeforeMark
<1> HIDE DEF first
<1>2. ASSUME NEW r \in first
      PROVE  MovedResults(t, CommitText(r.tip, c, <<id>>))
  <2>1. Good(r.tip) /\ Moved(t, r.tip) /\ <<id>> \in Seq(Nat)
    BY <1>1 DEF GoodResults, MovedResults
  <2>2. /\ GoodResults(CommitText(r.tip, c, <<id>>))
        /\ MovedResults(r.tip, CommitText(r.tip, c, <<id>>))
    BY <2>1, EditGood, EditMoves DEF CommitText
  <2> QED
    BY <2>1, <2>2, MovedOn DEF GoodResults, MovedResults
<1>3. \A r \in first : MovedResults(t, IF r.eaten THEN CommitText(r.tip, c, <<id>>) ELSE {r})
  BY <1>1, <1>2 DEF MovedResults
<1>4. MovedResults(t, CommitText(t, c, <<id>>))
  BY EditMoves DEF CommitText
<1>5. CASE t.composing
  BY <1>3, <1>5, Zenon DEF Punctuate, MovedResults, first
<1>6. CASE ~t.composing
  BY <1>4, <1>6, Zenon DEF Punctuate
<1> QED
  BY <1>5, <1>6

(* ProcessKeyDown for every kind of key: the engine has no part in the queue. *)
LEMMA ProcessMoves ==
  ASSUME NEW t, Good(t), NEW c, NEW key \in Key
  PROVE  MovedResults(t, ProcessKeyDown(t, c, key))
<1> DEFINE u == [t EXCEPT !.composing = FALSE]
<1>1. key.id \in Nat /\ <<key.id>> \in Seq(Nat)
  BY DEF Key
<1>2. u \in Tip /\ Kept(t, u)
  BY DEF Good, Tip, Kept, Marked
<1>3. /\ u.session = t.session
      /\ u.restricted = t.restricted
      /\ u.home = t.home
      /\ u.keyContext = t.keyContext
      /\ u.keyPrivacy = t.keyPrivacy
  BY DEF Good, Tip
<1>4. Good(u)
  BY <1>2, <1>3, SameSession DEF Good, Kept, Marked
<1> HIDE DEF u
<1>5. MovedResults(t, Punctuate(t, c, key.id))
  BY <1>1, PunctuateMoves
<1>6. MovedResults(t, {Result(t, TRUE, FALSE, <<key.id>>)})
  BY ResultMoves, StaysMoved
<1>7. MovedResults(t, CommitText(u, c, <<key.id>>))
  <2>1. MovedResults(u, CommitText(u, c, <<key.id>>))
    BY <1>4, EditMoves DEF CommitText
  <2> QED
    BY <1>2, <2>1 DEF MovedResults, Moved, Kept, Marked, Dropped
<1>8. MovedResults(t, {Result(t, FALSE, FALSE, <<>>)})
  BY ResultMoves, StaysMoved
<1>9. MovedResults(t, ApplyKeyResponse(t, c, key.kind, <<key.id>>))
  BY <1>1, KeyResponseMoves
<1> QED
  BY <1>5, <1>6, <1>7, <1>8, <1>9 DEF ProcessKeyDown, u

(* The text of AppendStartupFallbackKey, inserted or empty. *)
LEMMA CommitFallbackMoves ==
  ASSUME NEW t, Good(t), NEW c, NEW keys
  PROVE  MovedResults(t, CommitFallback(t, c, keys))
<1>1. MovedResults(t, CommitText(t, c, IdsOf(keys)))
  BY EditMoves DEF CommitText
<1>2. MovedResults(t, {Result(t, FALSE, FALSE, <<>>)})
  BY ResultMoves, StaysMoved
<1> QED
  BY <1>1, <1>2 DEF CommitFallback

------------------------------------------------------------------------------
(***************************************************************************)
(* The calls around the queue.                                             *)
(***************************************************************************)
(* FallbackStartupKeys does nothing for an outdated generation and drops   *)
(* the queue for the current one, on each of its ways out.                 *)
LEMMA FallbackDrops ==
  ASSUME NEW t, Good(t), NEW c \in Context, NEW gen, scope \in [Context -> Privacy],
         NEW r \in FallbackStartupKeys(t, c, gen)
  PROVE  IF gen = t.queue.gen THEN Dropped(t, r.tip) ELSE r.tip = t
<1> DEFINE open == [t EXCEPT !.scheduled = FALSE]
           a == AllowKeyInContext(open, c)
           k == CancelStartupReplay(a)
<1>1. CASE gen # t.queue.gen
  BY <1>1 DEF FallbackStartupKeys, Result
<1>2. CASE gen = t.queue.gen
  <2>1. Good(open) /\ open.queue = t.queue
    BY OpenGood DEF Good, Tip
  <2>2. r \in IF ~TargetHolds(t, c) THEN {Result(CancelStartupReplay(open), FALSE, FALSE, <<>>)}
              ELSE IF ~Allowed(c) \/ a.queue.gen # gen THEN {Result(a, FALSE, FALSE, <<>>)}
              ELSE CommitFallback(k, c, a.queue.keys)
    BY <1>2 DEF FallbackStartupKeys
  <2> HIDE DEF open
  <2>3. Good(a) /\ Moved(open, a) /\ (~Allowed(c) => Dropped(open, a))
    BY <2>1, AllowGood, AllowMoves
  <2>4. ~Allowed(c) \/ a.queue.gen # gen => Dropped(open, a)
    BY <1>2, <2>1, <2>3 DEF Moved, Kept, Marked
  <2> HIDE DEF a
  <2>5. Good(k) /\ Dropped(open, k)
    BY <2>1, <2>3, CancelGood, CancelDrops, MovedOn DEF Moved
  <2>6. a.queue.keys \in Seq(Key)
    BY <2>3 DEF Good, Tip, Queue
  <2> HIDE DEF k
  <2>7. \A q \in CommitFallback(k, c, a.queue.keys) : Dropped(open, q.tip)
    BY <2>1, <2>5, <2>6, CommitFallbackGood, CommitFallbackMoves, MovedOn
    DEF GoodResults, MovedResults, Moved
  <2>8. Dropped(open, CancelStartupReplay(open))
    BY <2>1, CancelDrops
  <2>9. Dropped(open, r.tip)
    BY <2>2, <2>4, <2>7, <2>8 DEF Result
  <2> QED
    BY <1>2, <2>1, <2>9 DEF Dropped
<1> QED
  BY <1>1, <1>2

(* ScheduleStartupReplay leaves no keys without the timer or the edit. *)
LEMMA ScheduleServes ==
  ASSUME NEW t, Good(t), NEW E, Served(t, E)
  PROVE  Served(ScheduleStartupReplay(t), E) /\ Attended(ScheduleStartupReplay(t))
<1> DEFINE u == [t EXCEPT !.timer = TRUE, !.clock = IF @ = "off" THEN "running" ELSE @]
<1>1. /\ u.queue = t.queue
      /\ u.context = t.context
      /\ u.timer = TRUE
      /\ u.scheduled = t.scheduled
  BY DEF Good, Tip
<1>2. ScheduleStartupReplay(t) = IF NeedsTimer(t) THEN u ELSE t
  BY DEF ScheduleStartupReplay
<1> HIDE DEF u
<1>3. CASE NeedsTimer(t)
  BY <1>1, <1>2, <1>3 DEF Served, NoneAhead, Attended, NeedsTimer
<1>4. CASE ~NeedsTimer(t)
  BY <1>2, <1>4 DEF Attended, NeedsTimer
<1> QED
  BY <1>3, <1>4

(* ScheduleStartupReplay with the fallback of its callers: they name the   *)
(* current generation, or the keys have no field any more.                 *)
LEMMA ScheduleOrFallbackServes ==
  ASSUME NEW t, Good(t), NEW E \in SUBSET Edit, Served(t, E), NEW c \in Context, NEW gen,
         gen = t.queue.gen \/ t.context = NoContext, scope \in [Context -> Privacy],
         NEW r \in ScheduleOrFallback(t, c, gen)
  PROVE  Served(r.tip, E) /\ Attended(r.tip)
<1>1. Good(r.tip)
  BY ScheduleOrFallbackGood DEF GoodResults
<1>2. CASE r.tip = ScheduleStartupReplay(t)
  BY <1>2, ScheduleServes
<1>3. CASE r \in FallbackStartupKeys(t, c, gen)
  <2>1. Dropped(t, r.tip) \/ (r.tip = t /\ t.context = NoContext)
    BY <1>3, FallbackDrops
  <2>2. CASE Dropped(t, r.tip)
    BY <1>1, <2>2, DroppedServes DEF Served
  <2>3. CASE r.tip = t /\ t.context = NoContext
    BY <2>3 DEF Attended
  <2> QED
    BY <2>1, <2>2, <2>3
<1> QED
  BY <1>2, <1>3 DEF ScheduleOrFallback, Result

(* QueueStartupKey: the first key finds no edit requested, and no key is   *)
(* pushed without a timer or an edit behind it.                            *)
LEMMA QueueServes ==
  ASSUME NEW t, Good(t), NEW E \in SUBSET Edit, Served(t, E), NEW c \in Context,
         NEW key \in Key, scope \in [Context -> Privacy], NEW r \in QueueStartupKey(t, c, key)
  PROVE  Served(r.tip, E) /\ Attended(r.tip)
<1> DEFINE first == t.queue.keys = <<>>
           w == [t EXCEPT !.context = c, !.clock = "running", !.target = "held"]
           u == IF first THEN w ELSE t
           pushed == [u EXCEPT !.queue = Push(@, key)]
<1>1. Good(r.tip)
  BY QueueGood DEF GoodResults
<1>2. Good(u) /\ Served(u, E)
  <2>1. Good(w)
    BY CaptureGood
  <2>2. w.queue = t.queue /\ w.timer = t.timer /\ w.scheduled = t.scheduled
    BY DEF Good, Tip
  <2> HIDE DEF w
  <2>3. first => Served(w, E)
    BY <2>2 DEF Served, NoneAhead
  <2> QED
    BY <2>1, <2>3
<1>3. r \in (IF first THEN {Result(CancelStartupReplay(u), FALSE, FALSE, <<>>)} ELSE {}) \cup
            (IF u.context # c THEN {Result(CancelStartupReplay(u), TRUE, FALSE, <<>>)}
             ELSE IF IsFull(u.queue)
             THEN {Result(q.tip, q.failed, FALSE, q.ids) :
                     q \in FallbackStartupKeys(u, c, u.queue.gen)}
             ELSE {Result(q.tip, TRUE, FALSE, q.ids) :
                     q \in ScheduleOrFallback(pushed, c, pushed.queue.gen)})
  BY Zenon DEF QueueStartupKey
<1> HIDE DEF u
<1>4. CASE r.tip = CancelStartupReplay(u)
  BY <1>1, <1>2, <1>4, CancelDrops, DroppedServes DEF Served
<1>5. CASE \E q \in FallbackStartupKeys(u, c, u.queue.gen) : r.tip = q.tip
  BY <1>1, <1>2, <1>5, FallbackDrops, DroppedServes DEF Served
<1>6. CASE ~IsFull(u.queue) /\ \E q \in ScheduleOrFallback(pushed, c, pushed.queue.gen) :
                                r.tip = q.tip
  <2>1. Good(pushed)
    BY <1>2, <1>6, PushGood
  <2>2. /\ pushed.queue = Push(u.queue, key)
        /\ pushed.context = u.context
        /\ pushed.timer = u.timer
        /\ pushed.scheduled = u.scheduled
    BY <1>2 DEF Good, Tip
  <2>3. pushed.queue.gen = u.queue.gen /\ pushed.queue.keys = Append(u.queue.keys, key)
    BY <1>2, <2>2 DEF Push, Good, Tip, Queue
  <2>4. pushed.queue.keys # <<>>
    BY <1>2, <2>3 DEF Good, Tip, Queue
  <2> HIDE DEF pushed
  <2>5. Served(pushed, E)
    BY <1>2, <2>2, <2>3, <2>4 DEF Served, NoneAhead
  <2> QED
    BY <1>6, <2>1, <2>5, ScheduleOrFallbackServes
<1> HIDE DEF pushed
<1>7. \/ r.tip = CancelStartupReplay(u)
      \/ \E q \in FallbackStartupKeys(u, c, u.queue.gen) : r.tip = q.tip
      \/ ~IsFull(u.queue) /\ \E q \in ScheduleOrFallback(pushed, c, pushed.queue.gen) :
                              r.tip = q.tip
  BY <1>3 DEF Result
<1> QED
  BY <1>4, <1>5, <1>6, <1>7

(* EnsureSession has no part in the queue. *)
LEMMA EnsureKeeps ==
  ASSUME NEW t, Good(t), NEW s \in EnsureSession(t)
  PROVE  Kept(t, s.tip)
<1>1. CASE t.session # "none"
  BY <1>1 DEF EnsureSession, Kept, Marked
<1>2. CASE t.session = "none"
  <2> DEFINE after(b) == [t EXCEPT !.launched = @ \/ b]
             made(b) == [after(b) EXCEPT !.session = "live", !.composing = FALSE,
                                         !.home = t.keyContext,
                                         !.restricted = (t.keyPrivacy = "restricted")]
             launch == IF t.launched THEN {FALSE} ELSE BOOLEAN
  <2>1. EnsureSession(t) =
          {[tip |-> after(b), ok |-> FALSE, spawned |-> b] : b \in launch} \cup
          {[tip |-> made(b), ok |-> TRUE, spawned |-> b] : b \in {b \in launch : broker = "ready"}}
    BY <1>2, Zenon DEF EnsureSession
  <2>2. PICK b \in BOOLEAN : s.tip = after(b) \/ s.tip = made(b)
    <3>1. launch \subseteq BOOLEAN
      OBVIOUS
    <3> HIDE DEF after, made, launch
    <3>2. \E b \in launch : \/ s = [tip |-> after(b), ok |-> FALSE, spawned |-> b]
                           \/ s = [tip |-> made(b), ok |-> TRUE, spawned |-> b]
      BY <2>1, Zenon
    <3> QED
      BY <3>1, <3>2
  <2>3. after(b) \in Tip /\ Kept(t, after(b))
    BY DEF Good, Tip, Kept, Marked
  <2> HIDE DEF after
  <2>4. Kept(after(b), made(b))
    BY <2>3 DEF Tip, Kept, Marked
  <2> HIDE DEF made
  <2> QED
    BY <2>2, <2>3, <2>4 DEF Kept, Marked
<1> QED
  BY <1>1, <1>2

------------------------------------------------------------------------------
(***************************************************************************)
(* The inductive invariant: QueueInv, which speaks of typed records only.  *)
(***************************************************************************)
QueueIInv == IInv /\ QueueInv

(* The property is the part of QueueInv that a reader cares for. *)
LEMMA QueueInvServes == QueueIInv => QueueIsServed
<1> SUFFICES ASSUME QueueIInv PROVE QueueIsServed
  OBVIOUS
<1>1. tip.timer \in BOOLEAN /\ tip.scheduled \in BOOLEAN
  BY DEF QueueIInv, IInv, Good, Tip
<1>2. ~replay.on /\ tip.queue.keys # <<>> /\ tip.context # NoContext =>
        tip.timer # tip.scheduled
  BY <1>1 DEF QueueIInv, QueueInv, Served, Attended
<1>3. tip.scheduled => \E e \in edits : Live(e) /\ e.context = tip.context
  BY DEF QueueIInv, QueueInv, Served, Live
<1>4. \A e, f \in edits : Live(e) /\ Live(f) => e = f
  BY DEF QueueIInv, QueueInv, Served, Live
<1> QED
  BY <1>2, <1>3, <1>4 DEF QueueIsServed

(* At the start there is no queue, no edit and no loop. *)
LEMMA InitQueueInv == Init => QueueIInv
<1> SUFFICES ASSUME Init PROVE QueueIInv
  OBVIOUS
<1>1. tip.queue.keys = <<>> /\ ~tip.scheduled /\ edits = {} /\ ~replay.on
  BY DEF Init, NewQueue, Idle
<1> QED
  BY <1>1, InitInv DEF QueueIInv, QueueInv, Served, NoneAhead, Attended

(* A step outside the loop, with the edits it leaves, needs only this of the record. *)
LEMMA StepServes ==
  ASSUME ~replay.on, UNCHANGED <<replay, edits>>, Served(tip', edits), Attended(tip')
  PROVE  QueueInv'
  BY DEF QueueInv, Served, NoneAhead, Attended

(* The keys of the host. *)
LEMMA KeyQueueInv ==
  ASSUME QueueIInv, IInv', NEW kind \in Kind,
         HostKey(kind) \/ KeyDenied(kind) \/ KeyBypassed(kind) \/ CancelKey(kind)
           \/ KeyBehindQueue(kind) \/ KeyToEngine(kind)
  PROVE  QueueInv'
<1> DEFINE a == AllowKeyInContext(tip, focus)
<1>1. Good(tip) /\ Good(tip') /\ edits \in SUBSET Edit /\ scope \in [Context -> Privacy]
        /\ focus \in Context
  BY DEF QueueIInv, IInv, World
<1>2. Typing
  BY DEF HostKey, KeyDenied, KeyBypassed, CancelKey, KeyBehindQueue, KeyToEngine, KeyAllowed
<1>3. ~replay.on /\ UNCHANGED <<replay, edits>>
  BY <1>2 DEF Typing
<1>4. Served(tip, edits) /\ Attended(tip)
  BY <1>3 DEF QueueIInv, QueueInv
<1>5. Good(a) /\ Served(a, edits) /\ Attended(a)
  BY <1>1, <1>4, AllowGood, AllowMoves, MovedServes
<1>6. \A u : Good(u) /\ Served(u, edits) /\ Attended(u) =>
               Served(AbandonSession(u), edits) /\ Attended(AbandonSession(u))
  BY <1>1, AbandonGood, AbandonDrops, DroppedServes DEF Served
<1> HIDE DEF a
<1>7. ASSUME NEW r, Good(r.tip), Served(r.tip, edits), Attended(r.tip), KeyEdit(r, typed + 1)
      PROVE  Served(tip', edits) /\ Attended(tip')
  BY <1>6, <1>7 DEF KeyEdit
<1>8. CASE HostKey(kind)
  <2>1. Marked(tip, tip')
    BY <1>1, <1>8 DEF HostKey, Good, Tip, Marked
  <2>2. Served(tip', edits) /\ Attended(tip')
    BY <1>4, <2>1, MarkServes
  <2> QED
    BY <1>3, <2>2, StepServes
<1>9. CASE KeyDenied(kind)
  <2>1. Served(tip', edits) /\ Attended(tip')
    BY <1>1, <1>4, <1>6, <1>9 DEF KeyDenied
  <2> QED
    BY <1>3, <2>1, StepServes
<1>10. CASE CancelKey(kind)
  <2>1. tip' = CancelStartupReplay(a)
    BY <1>10 DEF CancelKey, a
  <2>2. Served(tip', edits) /\ Attended(tip')
    BY <1>1, <1>5, <2>1, CancelDrops, DroppedServes DEF Served
  <2> QED
    BY <1>3, <2>2, StepServes
<1>13. CASE KeyBypassed(kind)
  <2>1. tip' = a
    BY <1>13 DEF KeyBypassed, a
  <2> QED
    BY <1>3, <1>5, <2>1, StepServes
<1>11. CASE KeyBehindQueue(kind)
  <2>1. PICK r \in QueueStartupKey(a, focus, TypedKey(kind)) : KeyEdit(r, typed + 1)
    BY <1>11 DEF KeyBehindQueue, a
  <2>2. Good(r.tip) /\ Served(r.tip, edits) /\ Attended(r.tip)
    BY <1>1, <1>5, TypedKeyIsKey, QueueGood, QueueServes DEF GoodResults, QueueIInv
  <2> QED
    BY <1>3, <1>7, <2>1, <2>2, StepServes
<1>12. CASE KeyToEngine(kind)
  <2>1. PICK s \in SessionForKey(a, kind) :
          \E r \in IF s.ok THEN ProcessKeyDown(s.tip, focus, TypedKey(kind))
                   ELSE QueueStartupKey(s.tip, focus, TypedKey(kind)) :
            KeyEdit(r, typed + 1)
    BY <1>12 DEF KeyToEngine, a
  <2>2. a.keyContext # NoContext
    BY <1>1, <1>12, AllowGood, TextServiceAssumption
    DEF KeyToEngine, KeyAllowed, Entered, a
  <2>3. Good(s.tip) /\ Kept(a, s.tip)
    BY <1>5, <2>2, SessionForKeyGood, EnsureKeeps, StaysMoved DEF SessionForKey
  <2>4. Served(s.tip, edits) /\ Attended(s.tip)
    BY <1>1, <1>5, <2>3, MovedServes DEF Moved
  <2>5. PICK r \in IF s.ok THEN ProcessKeyDown(s.tip, focus, TypedKey(kind))
                 ELSE QueueStartupKey(s.tip, focus, TypedKey(kind)) :
          KeyEdit(r, typed + 1)
    BY <2>1
  <2>6. TypedKey(kind) \in Key
    BY TypedKeyIsKey DEF QueueIInv
  <2>7. CASE r \in ProcessKeyDown(s.tip, focus, TypedKey(kind))
    <3>1. Good(r.tip) /\ Moved(s.tip, r.tip)
      BY <2>3, <2>6, <2>7, ProcessGood, ProcessMoves DEF GoodResults, MovedResults
    <3>2. Served(r.tip, edits) /\ Attended(r.tip)
      BY <1>1, <2>3, <2>4, <3>1, MovedServes
    <3> QED
      BY <1>3, <1>7, <2>5, <3>1, <3>2, StepServes
  <2>8. CASE r \in QueueStartupKey(s.tip, focus, TypedKey(kind))
    <3>1. Good(r.tip) /\ Served(r.tip, edits) /\ Attended(r.tip)
      BY <1>1, <2>3, <2>4, <2>6, <2>8, QueueGood, QueueServes DEF GoodResults
    <3> QED
      BY <1>3, <1>7, <2>5, <3>1, StepServes
  <2> QED
    BY <2>5, <2>7, <2>8
<1> QED
  BY <1>8, <1>9, <1>10, <1>11, <1>12, <1>13

(* RequestStartupEdit: the timer gives way to the one edit of its generation. *)
LEMMA RequestServes ==
  ASSUME NEW t, Good(t), edits \in SUBSET Edit, Served(t, edits), t.timer,
         t.queue.keys # <<>>, NEW fallback, RequestStartupEdit(t, fallback), Good(tip')
  PROVE  Served(tip', edits') /\ Attended(tip')
<1> DEFINE e == [gen |-> t.queue.gen, context |-> t.context, fallback |-> fallback]
<1>1. CASE tip' = [t EXCEPT !.timer = FALSE, !.scheduled = TRUE] /\ edits' = edits \cup {e}
  <2>1. /\ tip'.queue = t.queue
        /\ tip'.context = t.context
        /\ tip'.timer = FALSE
        /\ tip'.scheduled = TRUE
    BY <1>1 DEF Good, Tip
  <2>2. e.gen = t.queue.gen /\ e.context = t.context
    OBVIOUS
  <2>3. t.queue.gen <= t.queue.gen
    BY GenIsNat
  <2>4. \A f \in edits : f.gen # t.queue.gen
    BY DEF Served
  <2> HIDE DEF e
  <2> QED
    BY <1>1, <2>1, <2>2, <2>3, <2>4 DEF Served, NoneAhead, Attended
<1>2. CASE tip' = CancelStartupReplay(t) /\ UNCHANGED edits
  BY <1>2, CancelDrops, DroppedServes DEF Served
<1> QED
  BY <1>1, <1>2 DEF RequestStartupEdit

(* OnStartupTimer on each of its ways out. *)
LEMMA TimerQueueInv ==
  ASSUME QueueIInv, IInv', TimerCancels \/ TimerFallsBack \/ TimerReplays \/ ClockExpires
  PROVE  QueueInv'
<1>1. Good(tip) /\ Good(tip') /\ edits \in SUBSET Edit /\ Served(tip, edits)
  BY DEF QueueIInv, QueueInv, IInv, World
<1>2. OnTimer => ~replay.on /\ tip.timer /\ UNCHANGED replay
  BY DEF OnTimer
<1>3. ~replay.on /\ UNCHANGED replay /\ Served(tip', edits') /\ Attended(tip') => QueueInv'
  BY DEF QueueInv, Served, NoneAhead, Attended
<1>4. ~TimerTargetLost => tip.queue.keys # <<>>
  BY DEF TimerTargetLost
<1>5. CASE TimerCancels
  BY <1>1, <1>2, <1>3, <1>5, CancelDrops, DroppedServes DEF TimerCancels, Served
<1>6. CASE TimerFallsBack
  <2> DEFINE u == [tip EXCEPT !.launched = FALSE]
  <2>1. u \in Tip /\ Kept(tip, u)
    BY <1>1 DEF Good, Tip, Kept, Marked
  <2>2. /\ u.session = tip.session
        /\ u.restricted = tip.restricted
        /\ u.home = tip.home
        /\ u.keyContext = tip.keyContext
        /\ u.keyPrivacy = tip.keyPrivacy
    BY <1>1 DEF Good, Tip
  <2> HIDE DEF u
  <2>3. Good(u)
    BY <1>1, <2>1, <2>2, SameSession DEF Good, Kept, Marked
  <2>4. Served(u, edits) /\ u.timer /\ u.queue.keys # <<>>
    BY <1>1, <1>2, <1>4, <1>6, <2>1, <2>3, MovedServes DEF TimerFallsBack, Moved, Kept, Marked
  <2>5. RequestStartupEdit(u, TRUE)
    BY <1>6 DEF TimerFallsBack, u
  <2> QED
    BY <1>1, <1>2, <1>3, <1>6, <2>3, <2>4, <2>5, RequestServes DEF TimerFallsBack
<1>7. CASE TimerReplays
  BY <1>1, <1>2, <1>3, <1>4, <1>7, RequestServes DEF TimerReplays
<1>8. CASE ClockExpires
  <2>1. Kept(tip, tip') /\ UNCHANGED <<replay, edits>>
    BY <1>1, <1>8 DEF ClockExpires, Good, Tip, Kept, Marked
  <2> QED
    BY <2>1 DEF QueueIInv, QueueInv, Served, NoneAhead, Attended, InReplay, Kept, Marked
<1> QED
  BY <1>5, <1>6, <1>7, <1>8

(* The edits TSF grants: a granted edit of the current generation leaves   *)
(* no other behind, and an outdated one changes nothing.                   *)
LEMMA GrantQueueInv ==
  ASSUME QueueIInv, IInv', NEW e \in edits,
         GrantFallback(e) \/ ReplayRefused(e) \/ ReplayWaits(e) \/ ReplayStarts(e)
  PROVE  QueueInv'
<1> DEFINE open == [tip EXCEPT !.scheduled = FALSE]
           a == Opened(e)
<1>1. /\ Good(tip) /\ Good(tip') /\ edits \in SUBSET Edit /\ edits' \in SUBSET Edit
      /\ Served(tip, edits) /\ scope \in [Context -> Privacy] /\ e.context \in Context
  BY DEF QueueIInv, QueueInv, IInv, World, Edit
<1>2. edits' = edits \ {e} /\ ~replay.on
  BY DEF GrantFallback, ReplayRefused, ReplayWaits, ReplayStarts, Granting
<1>3. Attended(tip) /\ NoneAhead(tip, edits')
  BY <1>1, <1>2 DEF QueueIInv, QueueInv, Served, NoneAhead
<1>4. ~replay'.on /\ Served(tip', edits') /\ Attended(tip') => QueueInv'
  BY DEF QueueInv, Served, NoneAhead, Attended
<1>5. Dropped(tip, tip') => Served(tip', edits') /\ Attended(tip')
  BY <1>1, <1>3, DroppedServes
<1>6. /\ Good(open)
      /\ open.queue = tip.queue
      /\ open.scheduled = FALSE
      /\ a = AllowKeyInContext(open, e.context)
  BY <1>1, OpenGood DEF Opened, Good, Tip
<1> HIDE DEF open
<1>7. Good(a) /\ Moved(open, a) /\ (~Allowed(e.context) => Dropped(open, a))
  BY <1>1, <1>6, AllowGood, AllowMoves
<1>8. Allowed(e.context) => a.keyContext # NoContext
  BY <1>1, <1>6, AllowGood, TextServiceAssumption DEF Entered
<1> HIDE DEF a
<1>9. CASE e.gen # tip.queue.gen
  <2>1. tip' = tip /\ UNCHANGED replay
    <3>1. GrantFallback(e) => tip' = tip /\ UNCHANGED replay
      BY <1>1, <1>9, FallbackDrops DEF GrantFallback
    <3> QED
      BY <1>9, <3>1 DEF ReplayRefused, ReplayWaits, ReplayStarts
  <2>2. Served(tip, edits')
    BY <1>1, <1>2, <1>9 DEF Served, NoneAhead
  <2> QED
    BY <1>2, <1>3, <1>4, <2>1, <2>2
<1>10. CASE e.gen = tip.queue.gen
  <2>1. Served(open, edits')
    BY <1>1, <1>2, <1>3, <1>6, <1>10 DEF Served, NoneAhead
  <2>2. Dropped(open, tip') => Dropped(tip, tip')
    BY <1>6 DEF Dropped
  <2>3. CASE GrantFallback(e)
    <3>1. Dropped(tip, tip') /\ UNCHANGED replay
      BY <1>1, <1>10, <2>3, FallbackDrops DEF GrantFallback
    <3> QED
      BY <1>2, <1>4, <1>5, <3>1
  <2>4. CASE ReplayRefused(e)
    <3>1. ASSUME TargetHolds(tip, e.context)
          PROVE  Dropped(open, tip')
      <4>1. tip' = a /\ ~GateHolds(e)
        BY <1>10, <2>4, <3>1 DEF ReplayRefused, a
      <4>2. ~Allowed(e.context) \/ a.queue.gen # open.queue.gen
        BY <1>6, <1>10, <3>1, <4>1 DEF GateHolds, a
      <4>3. Dropped(open, a)
        BY <1>7, <4>2 DEF Moved, Kept, Marked
      <4> QED
        BY <4>1, <4>3
    <3>2. ASSUME ~TargetHolds(tip, e.context)
          PROVE  Dropped(open, tip')
      <4>1. tip' = CancelStartupReplay(tip)
        BY <1>10, <2>4, <3>2 DEF ReplayRefused
      <4> QED
        BY <1>1, <1>6, <4>1, CancelDrops DEF Dropped
    <3>3. Dropped(open, tip') /\ UNCHANGED replay
      BY <2>4, <3>1, <3>2 DEF ReplayRefused
    <3> QED
      BY <1>2, <1>4, <1>5, <2>2, <3>3
  <2>5. ASSUME GateHolds(e), NEW s \in EnsureSession(a)
        PROVE  Good(s.tip) /\ Served(s.tip, edits') /\ s.tip.queue.gen = e.gen
                 /\ s.tip.scheduled = FALSE
    <3>1. a.keyContext # NoContext /\ a.queue.gen = open.queue.gen
      BY <1>6, <1>8, <1>10, <2>5 DEF GateHolds, a
    <3>2. Kept(open, a)
      BY <1>6, <1>7, <3>1, GenIsNat DEF Moved, Dropped
    <3>3. Good(s.tip) /\ Kept(a, s.tip)
      BY <1>7, <2>5, <3>1, EnsureGood, EnsureKeeps
    <3>4. Kept(open, s.tip)
      BY <3>2, <3>3 DEF Kept, Marked
    <3>5. Served(s.tip, edits')
      BY <1>1, <1>6, <2>1, <3>3, <3>4, MovedServes DEF Moved
    <3> QED
      BY <1>6, <1>10, <3>3, <3>4, <3>5 DEF Kept, Marked
  <2>6. CASE ReplayWaits(e)
    <3>1. PICK s \in EnsureSession(a) :
            \E r \in ScheduleOrFallback(s.tip, e.context, e.gen) : tip' = r.tip
      BY <2>6 DEF ReplayWaits, a
    <3>2. GateHolds(e) /\ UNCHANGED replay
      BY <2>6 DEF ReplayWaits
    <3>3. Good(s.tip) /\ Served(s.tip, edits') /\ s.tip.queue.gen = e.gen
      BY <2>5, <3>1, <3>2
    <3>4. PICK r \in ScheduleOrFallback(s.tip, e.context, e.gen) : tip' = r.tip
      BY <3>1
    <3>5. Served(tip', edits') /\ Attended(tip')
      BY <1>1, <3>3, <3>4, ScheduleOrFallbackServes
    <3> QED
      BY <1>2, <1>4, <3>2, <3>5
  <2>7. CASE ReplayStarts(e)
    <3>1. PICK s \in EnsureSession(a) :
            /\ tip' = [s.tip EXCEPT !.queue = Taken(@)]
            /\ replay' = [on |-> TRUE, step |-> "key", gen |-> e.gen, context |-> e.context,
                          todo |-> s.tip.queue.keys, left |-> Batch]
      BY <2>7 DEF ReplayStarts, a
    <3>2. Good(s.tip) /\ Served(s.tip, edits') /\ s.tip.queue.gen = e.gen
            /\ s.tip.scheduled = FALSE
      BY <2>5, <2>7, <3>1 DEF ReplayStarts
    <3>3. /\ tip'.queue = Taken(s.tip.queue)
          /\ tip'.context = s.tip.context
          /\ tip'.scheduled = FALSE
      BY <3>1, <3>2 DEF Good, Tip
    <3>4. tip'.queue.gen = s.tip.queue.gen /\ tip'.queue.keys = <<>>
      BY <3>2, <3>3 DEF Taken, Good, Tip, Queue
    <3>5. Served(tip', edits')
      BY <3>2, <3>3, <3>4 DEF Served, NoneAhead
    <3>6. replay'.on /\ replay'.gen = tip'.queue.gen
      BY <3>1, <3>2, <3>4
    <3> QED
      BY <3>4, <3>5, <3>6 DEF QueueInv, InReplay, Served, NoneAhead
  <2> QED
    BY <2>3, <2>4, <2>6, <2>7
<1> QED
  BY <1>9, <1>10

(* The calls of the loop: the engine and the host they call have no part in the queue. *)
LEMMA CallsMove ==
  ASSUME QueueIInv, IInv', ReplayKey \/ ReplayMark \/ ReplayTail
  PROVE  Moved(tip, tip')
<1>0. /\ Good(tip) /\ Good(tip') /\ replay \in Replay /\ scope \in [Context -> Privacy]
      /\ replay.on /\ replay.context \in Context
      /\ replay.step # "key" => replay.todo # <<>>
  BY DEF QueueIInv, IInv, World, ReplayKey, ReplayMark, ReplayTail, Looping
<1> DEFINE key == Head(replay.todo)
           c == replay.context
<1>1. replay.todo \in Seq(Key) /\ (replay.todo # <<>> => key \in Key)
  BY <1>0 DEF Replay
<1>2. CASE ReplayKey
  <2>1. key \in Key
    BY <1>1, <1>2 DEF ReplayKey, InLoop
  <2>2. PICK r \in FirstCall(key) :
          tip' = r.tip \/ \E f \in CommitFallback(r.tip, c, <<key>>) : tip' = f.tip
    BY <1>2 DEF ReplayKey
  <2> HIDE DEF key, c
  <2>3. Good(r.tip) /\ Moved(tip, r.tip)
    <3>1. CASE r \in ProcessKeyDown(tip, replay.context, key)
      BY <1>0, <2>1, <3>1, ProcessGood, ProcessMoves DEF GoodResults, MovedResults
    <3>2. CASE r \in SelectBeforeMark(tip, replay.context)
      BY <1>0, <3>2, KeyResponseGood, KeyResponseMoves, EmptyIds
      DEF GoodResults, MovedResults, SelectBeforeMark
    <3> QED
      BY <2>2, <3>1, <3>2 DEF FirstCall
  <2>4. CASE \E f \in CommitFallback(r.tip, c, <<key>>) : tip' = f.tip
    <3>1. Moved(r.tip, tip')
      BY <2>3, <2>4, CommitFallbackMoves DEF MovedResults
    <3> QED
      BY <1>0, <2>3, <3>1, MovedOn
  <2> QED
    BY <2>2, <2>3, <2>4
<1>3. CASE ReplayMark
  <2>1. PICK r \in CommitText(tip, c, <<key.id>>) : tip' = r.tip
    BY <1>3 DEF ReplayMark
  <2> QED
    BY <1>0, <2>1, EditMoves DEF CommitText, MovedResults
<1>4. CASE ReplayTail
  <2>1. PICK r \in TailAsText(tip, c) : tip' = r.tip
    BY <1>4 DEF ReplayTail
  <2>2. MovedResults(tip, {Result(tip, FALSE, FALSE, <<>>)})
    BY ResultMoves, StaysMoved
  <2>3. MovedResults(tip, {Result(AbandonSession(tip), FALSE, FALSE, <<>>)})
    BY <1>0, ResultMoves, AbandonDrops DEF Moved
  <2> DEFINE a == AllowKeyInContext(tip, c)
  <2>4. Good(a) /\ Moved(tip, a)
    BY <1>0, AllowGood, AllowMoves
  <2> HIDE DEF a, c
  <2>5. /\ GoodResults(CommitFallback(a, c, replay.todo))
        /\ MovedResults(a, CommitFallback(a, c, replay.todo))
    BY <1>1, <2>4, CommitFallbackGood, CommitFallbackMoves
  <2>6. MovedResults(tip, CommitFallback(a, c, replay.todo))
    BY <1>0, <2>4, <2>5, MovedOn DEF GoodResults, MovedResults
  <2>7. MovedResults(tip, TailAsText(tip, c))
    BY <2>2, <2>3, <2>6 DEF TailAsText, a
  <2> QED
    BY <2>1, <2>7 DEF MovedResults
<1> QED
  BY <1>2, <1>3, <1>4

(* The record with the rest of the keys back in its queue. *)
LEMMA RequeuedIs ==
  ASSUME IInv
  PROVE  /\ Good(Requeued)
         /\ Requeued.queue = PushAll(tip.queue, replay.todo)
         /\ Requeued.queue.gen = tip.queue.gen
         /\ Requeued.context = tip.context
         /\ Requeued.timer = tip.timer
         /\ Requeued.scheduled = tip.scheduled
         /\ Requeued.target = tip.target
<1>0. Good(tip) /\ replay \in Replay
  BY DEF IInv, World
<1>1. PushAll(tip.queue, replay.todo) \in Queue
        /\ Len(PushAll(tip.queue, replay.todo).keys) <= Capacity
        /\ PushAll(tip.queue, replay.todo).gen = tip.queue.gen
  <2>1. replay.todo \in Seq(Key) /\ tip.queue \in Queue
    BY <1>0 DEF Replay, Good, Tip
  <2> QED
    BY <2>1, PushAllTyped DEF PushAll, Queue
<1>2. /\ Requeued \in Tip
      /\ Requeued.queue = PushAll(tip.queue, replay.todo)
      /\ Requeued.context = tip.context
      /\ Requeued.timer = tip.timer
      /\ Requeued.scheduled = tip.scheduled
      /\ Requeued.target = tip.target
      /\ Requeued.session = tip.session
      /\ Requeued.restricted = tip.restricted
      /\ Requeued.home = tip.home
      /\ Requeued.keyContext = tip.keyContext
      /\ Requeued.keyPrivacy = tip.keyPrivacy
  BY <1>0, <1>1 DEF Requeued, Good, Tip
<1>3. Good(Requeued)
  BY <1>0, <1>1, <1>2, SameSession
<1> QED
  BY <1>1, <1>2, <1>3

(* The loop: whatever a key does, the queue stays empty until the rest is  *)
(* put back, and the rest is put back together with a timer.               *)
LEMMA LoopQueueInv ==
  ASSUME QueueIInv, IInv',
         ReplayStops \/ ReplayKey \/ ReplayMark \/ ReplayTail \/ ReplayEnds
  PROVE  QueueInv'
<1>1. /\ Good(tip) /\ Good(tip') /\ edits \in SUBSET Edit /\ Served(tip, edits)
      /\ replay \in Replay /\ scope \in [Context -> Privacy]
      /\ replay.on => replay.context \in Context
  BY DEF QueueIInv, QueueInv, IInv, World
<1>2. Looping
  BY DEF ReplayStops, ReplayKey, ReplayMark, ReplayTail, ReplayEnds
<1>3. /\ replay.on /\ edits' = edits
      /\ tip.queue.keys = <<>>
      /\ replay.gen = tip.queue.gen \/ tip.context = NoContext
  BY <1>2 DEF Looping, QueueIInv, QueueInv, InReplay
<1>4. ~tip.scheduled
  BY <1>1, <1>3 DEF Served
<1>5. ~Idle.on
  BY DEF Idle
<1>6. replay' = Idle /\ Served(tip', edits) /\ Attended(tip') => QueueInv'
  BY <1>3, <1>5 DEF QueueInv, Served, NoneAhead, Attended
<1>7. CASE ReplayStops
  <2>1. tip' = tip /\ replay' = Idle
    BY <1>7 DEF ReplayStops
  <2> QED
    BY <1>1, <1>3, <1>6, <2>1 DEF Attended
<1>8. CASE ReplayKey \/ ReplayMark \/ ReplayTail
  <2>1. Moved(tip, tip')
    BY <1>8, CallsMove
  <2>0. replay' = Idle \/ (replay'.on /\ replay'.gen = replay.gen)
    <3>1. \/ replay' = Idle \/ replay' = Advance \/ \E s \in {"mark", "tail"} : replay' = At(s)
      BY <1>8, Zenon DEF ReplayKey, ReplayMark, ReplayTail
    <3> QED
      BY <1>1, <1>3, <3>1 DEF Advance, At, Replay
  <2>2. Served(tip', edits)
    BY <1>1, <2>1, MovedServes
  <2>3. tip'.queue.keys = <<>> /\ (replay.gen = tip'.queue.gen \/ tip'.context = NoContext)
    BY <1>3, <2>1 DEF Moved, Kept, Marked, Dropped
  <2>4. CASE replay' = Idle
    BY <1>6, <2>2, <2>3, <2>4 DEF Attended
  <2>5. CASE replay'.on /\ replay'.gen = replay.gen
    BY <1>3, <2>2, <2>3, <2>5 DEF QueueInv, InReplay, Served, NoneAhead
  <2> QED
    BY <2>0, <2>4, <2>5
<1>9. CASE ReplayEnds
  <2> DEFINE w == [Requeued EXCEPT !.target = "held"]
             u == [Requeued EXCEPT !.context = NoContext, !.target = "none", !.clock = "off"]
  <2>1. IInv
    BY DEF QueueIInv
  <2>2. Good(Requeued) /\ Requeued.queue.gen = tip.queue.gen
          /\ Requeued.context = tip.context
          /\ Requeued.timer = tip.timer
          /\ Requeued.scheduled = tip.scheduled
    BY <2>1, RequeuedIs
  <2>4. Served(Requeued, edits)
    BY <1>1, <1>4, <2>2 DEF Served, NoneAhead
  <2>5. replay' = Idle /\ (IF Requeued.queue.keys = <<>> THEN tip' = u
         ELSE \E r \in {Result(CancelStartupReplay(Requeued), TRUE, FALSE, <<>>)} \cup
                       ScheduleOrFallback(w, replay.context, replay.gen) : tip' = r.tip)
    BY <1>9 DEF ReplayEnds
  <2>6. CASE Requeued.queue.keys = <<>>
    <3>1. /\ tip'.queue = Requeued.queue
          /\ tip'.timer = Requeued.timer
          /\ tip'.scheduled = Requeued.scheduled
      BY <2>2, <2>5, <2>6 DEF Good, Tip
    <3>2. Served(tip', edits) /\ Attended(tip')
      BY <1>4, <2>2, <2>4, <2>6, <3>1 DEF Served, NoneAhead, Attended
    <3> QED
      BY <1>6, <2>5, <3>2
  <2>7. CASE tip' = CancelStartupReplay(Requeued)
    BY <1>1, <1>6, <2>2, <2>4, <2>5, <2>7, CancelDrops, DroppedServes DEF Served
  <2>8. CASE \E r \in ScheduleOrFallback(w, replay.context, replay.gen) : tip' = r.tip
    <3>1. /\ w \in Tip /\ Marked(Requeued, w)
          /\ w.session = Requeued.session
          /\ w.restricted = Requeued.restricted
          /\ w.home = Requeued.home
          /\ w.keyContext = Requeued.keyContext
          /\ w.keyPrivacy = Requeued.keyPrivacy
      BY <2>2 DEF Good, Tip, Marked
    <3> HIDE DEF w
    <3>2. Good(w)
      BY <2>2, <3>1, SameSession DEF Good, Marked
    <3>3. Served(w, edits)
      BY <2>4, <3>1, MarkServes
    <3>4. replay.gen = w.queue.gen \/ w.context = NoContext
      BY <1>3, <2>2, <3>1 DEF Marked
    <3>5. PICK r \in ScheduleOrFallback(w, replay.context, replay.gen) : tip' = r.tip
      BY <2>8 DEF w
    <3>6. Served(tip', edits) /\ Attended(tip')
      BY <1>1, <1>3, <3>2, <3>3, <3>4, <3>5, ScheduleOrFallbackServes
    <3> QED
      BY <1>6, <2>5, <3>6
  <2> HIDE DEF u, w
  <2>9. \/ Requeued.queue.keys = <<>>
        \/ tip' = CancelStartupReplay(Requeued)
        \/ \E r \in ScheduleOrFallback(w, replay.context, replay.gen) : tip' = r.tip
    BY <2>5 DEF Result
  <2> QED
    BY <2>6, <2>7, <2>8, <2>9
<1> QED
  BY <1>7, <1>8, <1>9

(* Losing the focus and changing the mode drop the queue. *)
LEMMA HostDrops ==
  ASSUME IInv, LoseFocus \/ ModePublished \/ ToggleInputMode
  PROVE  Dropped(tip, tip')
<1>1. Good(tip) /\ focus \in Context /\ scope \in [Context -> Privacy]
  BY DEF IInv, World
<1>2. CASE LoseFocus
  BY <1>1, <1>2, AbandonDrops DEF LoseFocus
<1>3. CASE ModePublished
  BY <1>1, <1>3, SynchronizeDrops DEF ModePublished
<1>4. CASE ToggleInputMode
  <2> DEFINE a == AllowKeyInContext(tip, focus)
             t == CancelStartupReplay(a)
             u == [t EXCEPT !.composing = FALSE]
             results == IF t.chinese /\ t.composing THEN CommitText(u, focus, <<>>)
                        ELSE {Result(t, TRUE, FALSE, <<>>)}
  <2>1. Good(a) /\ Moved(tip, a)
    BY <1>1, AllowGood, AllowMoves
  <2>2. Good(t) /\ Dropped(tip, t)
    BY <1>1, <2>1, CancelGood, CancelDrops, MovedOn DEF Moved
  <2>3. \E r \in results : tip' = IF r.failed THEN AbandonSession(r.tip)
                                ELSE [r.tip EXCEPT !.composing = FALSE, !.chinese = ~@]
    BY <1>4, Zenon DEF ToggleInputMode
  <2>4. PICK r \in results : tip' = IF r.failed THEN AbandonSession(r.tip)
                                ELSE [r.tip EXCEPT !.composing = FALSE, !.chinese = ~@]
    BY <2>3
  <2> HIDE DEF t
  <2>5. Good(u) /\ Kept(t, u)
    <3>1. /\ u \in Tip
          /\ Kept(t, u)
          /\ u.session = t.session
          /\ u.restricted = t.restricted
          /\ u.home = t.home
          /\ u.keyContext = t.keyContext
          /\ u.keyPrivacy = t.keyPrivacy
      BY <2>2 DEF Good, Tip, Kept, Marked
    <3> QED
      BY <2>2, <3>1, SameSession DEF Good, Kept, Marked
  <2> HIDE DEF u
  <2>6. Good(r.tip) /\ Moved(t, r.tip)
    <3>1. CASE r \in CommitText(u, focus, <<>>)
      <4>1. Good(r.tip) /\ Moved(u, r.tip)
        BY <2>5, <3>1, EditGood, EditMoves, EmptyIds DEF CommitText, GoodResults, MovedResults
      <4> QED
        BY <2>5, <4>1 DEF Moved, Kept, Marked, Dropped
    <3>2. CASE r \in {Result(t, TRUE, FALSE, <<>>)}
      BY <2>2, <3>2, StaysMoved DEF Result
    <3> QED
      BY <3>1, <3>2
  <2>7. Dropped(tip, r.tip)
    BY <1>1, <2>2, <2>6, MovedOn DEF Moved
  <2>8. Dropped(tip, AbandonSession(r.tip))
    BY <1>1, <2>6, <2>7, AbandonGood, AbandonDrops, MovedOn DEF Moved
  <2>9. Marked(r.tip, [r.tip EXCEPT !.composing = FALSE, !.chinese = ~@])
    BY <2>6 DEF Good, Tip, Marked
  <2>10. Dropped(tip, tip')
    BY <2>4, <2>7, <2>8, <2>9 DEF Marked, Dropped
  <2> QED
    BY <2>10
<1> QED
  BY <1>2, <1>3, <1>4

(* The host, the published mode, the mode key and the broker process. *)
LEMMA HostQueueInv ==
  ASSUME QueueIInv, IInv',
         \/ \E c \in Context : \/ HostFocuses(c)
                              \/ \E privacy \in Privacy : HostRescopes(c, privacy)
         \/ HostMovesCaret \/ LoseFocus \/ ModePublished \/ ToggleInputMode
         \/ BrokerReady \/ BrokerExits
  PROVE  QueueInv'
<1>1. /\ Good(tip) /\ Good(tip') /\ edits \in SUBSET Edit /\ Served(tip, edits)
      /\ scope \in [Context -> Privacy] /\ focus \in Context
  BY DEF QueueIInv, QueueInv, IInv, World
<1>2. Marked(tip, tip') /\ UNCHANGED <<replay, edits>> => QueueInv'
  BY DEF QueueIInv, QueueInv, Served, NoneAhead, Attended, InReplay, Marked
<1>3. OnHost /\ Dropped(tip, tip') => QueueInv'
  BY <1>1, DroppedServes, StepServes DEF OnHost, OfHost, Served
<1>4. CASE \E c \in Context : \/ HostFocuses(c)
                            \/ \E privacy \in Privacy : HostRescopes(c, privacy)
  BY <1>2, <1>4 DEF HostFocuses, HostRescopes, OfHost, Marked
<1>5. CASE HostMovesCaret
  BY <1>1, <1>2, <1>5 DEF HostMovesCaret, OnHost, OfHost, Marked, Good, Tip
<1>6. CASE LoseFocus \/ ModePublished \/ ToggleInputMode
  BY <1>3, <1>6, HostDrops DEF QueueIInv, LoseFocus, ModePublished, ToggleInputMode
<1>7. CASE BrokerReady
  BY <1>2, <1>7 DEF BrokerReady, Marked
<1>8. CASE BrokerExits
  BY <1>1, <1>2, <1>8 DEF BrokerExits, Marked, Good, Tip
<1> QED
  BY <1>4, <1>5, <1>6, <1>7, <1>8

(* Every step of Next, and every stutter. *)
LEMMA StepQueueInv == ASSUME QueueIInv, [Next]_vars PROVE QueueIInv'
<1>1. IInv'
  BY StepInv DEF QueueIInv
<1>2. CASE \E kind \in Kind : HostKey(kind) \/ KeyDenied(kind) \/ KeyBypassed(kind) \/ CancelKey(kind)
                              \/ KeyBehindQueue(kind) \/ KeyToEngine(kind)
  BY <1>1, <1>2, KeyQueueInv DEF QueueIInv
<1>3. CASE TimerCancels \/ TimerFallsBack \/ TimerReplays \/ ClockExpires
  BY <1>1, <1>3, TimerQueueInv DEF QueueIInv
<1>4. CASE \E e \in edits : GrantFallback(e) \/ ReplayRefused(e)
                           \/ ReplayWaits(e) \/ ReplayStarts(e)
  BY <1>1, <1>4, GrantQueueInv DEF QueueIInv
<1>5. CASE ReplayStops \/ ReplayKey \/ ReplayMark \/ ReplayTail \/ ReplayEnds
  BY <1>1, <1>5, LoopQueueInv DEF QueueIInv
<1>6. CASE \/ \E c \in Context : \/ HostFocuses(c)
                               \/ \E privacy \in Privacy : HostRescopes(c, privacy)
           \/ HostMovesCaret \/ LoseFocus \/ ModePublished \/ ToggleInputMode
           \/ BrokerReady \/ BrokerExits
  BY <1>1, <1>6, HostQueueInv DEF QueueIInv
<1>7. CASE UNCHANGED vars
  BY <1>1, <1>7 DEF vars, QueueIInv, QueueInv, Served, NoneAhead, Attended, InReplay
<1> QED
  BY <1>2, <1>3, <1>4, <1>5, <1>6, <1>7, Zenon DEF Next

(* Keys never wait unattended: outside the loop, whatever the host, the    *)
(* user and the broker do and in whatever order, keys that wait for a      *)
(* field have the timer or one edit that can still be granted, never both  *)
(* and never two (ScheduleStartupReplay, RequestStartupEdit,               *)
(* CancelStartupReplay), for every number of fields, keys and events.      *)
THEOREM QueueIsServedAlways == Spec => []QueueIsServed
<1>1. Init => QueueIInv
  BY InitQueueInv
<1>2. QueueIInv /\ [Next]_vars => QueueIInv'
  BY StepQueueInv
<1>3. QueueIInv => QueueIsServed
  BY QueueInvServes
<1> QED
  BY <1>1, <1>2, <1>3, PTL DEF Spec
==============================================================================
