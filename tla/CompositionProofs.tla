-------------------------- MODULE CompositionProofs --------------------------
(***************************************************************************)
(* Proofs about Composition: every property its run checks, for any        *)
(* candidates, limits and schemas, and any number of keys, events and lost *)
(* calls.                                                                  *)
(*                                                                         *)
(* The handlers call each other and may end in several ways, so what they  *)
(* keep is said of records s = [tip, engine, window, past] and of sets of  *)
(* them.  A record is good if the engine of its session is sound, the text *)
(* service's snapshot is the engine's (unless a lost call or a setting is  *)
(* on record), the window mirrors the text service, and they agree on the  *)
(* size of a page.  It is fine if, besides, no key the service was asked   *)
(* about came after a switch key that is armed.                            *)
(***************************************************************************)
EXTENDS Composition, RimeEngineProofs

-----------------------------------------------------------------------------
(* What holds of the records the handlers pass on.                         *)
TipType == [session : {"none", "live", "stale"}, privacy : Privacy, chinese : BOOLEAN,
            snapshot : Snapshot, offset : Nat, settings : Preferences,
            switchDown : BOOLEAN, switchUsed : BOOLEAN]
WindowType == [on : BOOLEAN, snapshot : Snapshot, offset : Nat, size : Sizes]
PastType == [stale : BOOLEAN, old : BOOLEAN, resized : BOOLEAN, since : Nat, clean : BOOLEAN,
             orphans : Nat, lost : 0 .. MaxLost,
             events : 0 .. MaxEvents, typed : 0 .. MaxSteps]

Typed(s) ==
  /\ DOMAIN s = {"tip", "engine", "window", "past"}
  /\ s.tip \in TipType /\ s.engine \in Engine \cup {NoEngine}
  /\ s.window \in WindowType /\ s.past \in PastType

Live(s) == s.tip.session = "live"

(* What holds even between two calls of a handler. *)
Base(s) ==
  /\ Typed(s)
  /\ Live(s) <=> s.engine # NoEngine
  /\ Live(s) => Sound(s.engine)
  /\ s.past.orphans <= s.past.lost
  /\ Readable(s.tip.snapshot) /\ Readable(s.window.snapshot)
  /\ ~s.tip.snapshot.preedit => s.tip.snapshot = EmptySnapshot
  /\ s.tip.session = "none" => ~s.tip.snapshot.preedit
  /\ s.past.stale => s.tip.snapshot.preedit

(* What the text service knows of its engine. *)
Minded(s) ==
  /\ s.past.old => Input(s.engine)
  /\ s.tip.snapshot.preedit => Input(s.engine)
  /\ Input(s.engine) => s.tip.snapshot.preedit \/ s.past.old
  /\ ~s.past.old => s.engine.letters <= s.past.since
Informed(s) ==
  ~s.past.resized /\ ~s.past.stale /\ s.tip.snapshot.preedit =>
    s.tip.snapshot = SnapshotOf(s.engine)
Belief(s) == Live(s) => Minded(s) /\ Informed(s)

(* The window shows what the text service has. *)
Mirrors(s) ==
  /\ s.window.snapshot = s.tip.snapshot /\ s.window.offset = s.tip.offset
  /\ s.window.size = s.tip.settings.pageSize
  /\ s.tip.offset = Slice(Len(s.tip.snapshot.candidates), s.tip.settings.pageSize,
                          s.tip.snapshot.highlighted).offset
Windowed(s) ==
  s.window.on => s.tip.snapshot.preedit /\ (~s.past.stale => Mirrors(s))

Agrees(s) ==
  Live(s) /\ ~s.past.resized /\ s.engine.kind = "rime" =>
    s.engine.pageSize = s.tip.settings.pageSize

Good(s) == Base(s) /\ Belief(s) /\ Windowed(s) /\ Agrees(s)

(* What no call of the composition changes. *)
Same(s, u) ==
  /\ u.tip.chinese = s.tip.chinese
  /\ u.tip.switchDown = s.tip.switchDown /\ u.tip.switchUsed = s.tip.switchUsed
  /\ u.past.clean = s.past.clean

LEMMA Lawful ==
  /\ Sizes \subseteq 1 .. MaxPageSize /\ Sizes # {} /\ Rows \in 1 .. MaxWindow
  /\ MaxLost \in Nat /\ MaxEvents \in Nat /\ MaxSteps \in Nat
  /\ Runtimes \subseteq {"rime", "stub"} /\ Schemas \subseteq Schema
  BY CompositionAssumption

LEMMA TypedParts ==
  ASSUME NEW s, Typed(s)
  PROVE  /\ s.tip \in TipType /\ s.window \in WindowType /\ s.past \in PastType
         /\ s.tip.session \in {"none", "live", "stale"} /\ s.tip.privacy \in Privacy
         /\ s.tip.chinese \in BOOLEAN /\ s.tip.snapshot \in Snapshot /\ s.tip.offset \in Nat
         /\ s.tip.settings \in Preferences
         /\ s.tip.switchDown \in BOOLEAN /\ s.tip.switchUsed \in BOOLEAN
         /\ s.past.lost \in 0 .. MaxLost /\ s.past.orphans \in Nat /\ s.past.since \in Nat
         /\ s.past.events \in 0 .. MaxEvents /\ s.past.typed \in 0 .. MaxSteps
         /\ s.past.stale \in BOOLEAN /\ s.past.old \in BOOLEAN /\ s.past.resized \in BOOLEAN
         /\ s.past.clean \in BOOLEAN
         /\ s.tip.snapshot.preedit \in BOOLEAN
         /\ s.window.on \in BOOLEAN /\ s.window.snapshot \in Snapshot /\ s.window.offset \in Nat
         /\ s.window.size \in Sizes
<1>1. s.tip \in TipType /\ s.window \in WindowType /\ s.past \in PastType
  BY DEF Typed
<1>2. /\ s.tip.session \in {"none", "live", "stale"} /\ s.tip.privacy \in Privacy
      /\ s.tip.chinese \in BOOLEAN /\ s.tip.snapshot \in Snapshot /\ s.tip.offset \in Nat
      /\ s.tip.settings \in Preferences
      /\ s.tip.switchDown \in BOOLEAN /\ s.tip.switchUsed \in BOOLEAN
  BY <1>1 DEF TipType
<1>3. /\ s.past.lost \in 0 .. MaxLost /\ s.past.orphans \in Nat /\ s.past.since \in Nat
      /\ s.past.events \in 0 .. MaxEvents /\ s.past.typed \in 0 .. MaxSteps
      /\ s.past.stale \in BOOLEAN /\ s.past.old \in BOOLEAN /\ s.past.resized \in BOOLEAN
      /\ s.past.clean \in BOOLEAN
  BY <1>1 DEF PastType
<1>4. s.tip.snapshot.preedit \in BOOLEAN
  BY <1>2 DEF Snapshot
<1>5. /\ s.window.on \in BOOLEAN /\ s.window.snapshot \in Snapshot /\ s.window.offset \in Nat
      /\ s.window.size \in Sizes
  BY <1>1 DEF WindowType
<1> QED
  BY <1>1, <1>2, <1>3, <1>4, <1>5

LEMMA NoEngineIs == NoEngine \notin Engine
<1>1. NoEngine.kind = "none"
  BY DEF NoEngine
<1>2. \A e \in Engine : e.kind # "none"
  BY DEF Engine
<1> QED
  BY <1>1, <1>2

(* Without a session and a window nothing is believed. *)
LEMMA IdleGood ==
  ASSUME NEW s, Base(s), s.tip.session = "none", ~s.window.on
  PROVE  Good(s)
  BY DEF Good, Belief, Windowed, Agrees, Live

LEMMA HideIs ==
  ASSUME NEW s, Typed(s)
  PROVE  /\ Typed(Hide(s)) /\ Hide(s).tip = s.tip /\ Hide(s).engine = s.engine
         /\ Hide(s).past = s.past /\ Hide(s).window.on = FALSE
         /\ Hide(s).window.snapshot = s.window.snapshot
<1> DEFINE u == Hide(s)
<1>1. /\ DOMAIN u = DOMAIN s /\ u.tip = s.tip /\ u.engine = s.engine /\ u.past = s.past
      /\ u.window = [s.window EXCEPT !.on = FALSE]
  BY DEF Typed, Hide
<1> HIDE DEF u
<1>2. s.window \in WindowType
  BY DEF Typed
<1>3. u.window \in WindowType /\ u.window.on = FALSE /\ u.window.snapshot = s.window.snapshot
  BY <1>1, <1>2 DEF WindowType
<1>4. Typed(u)
  BY <1>1, <1>3 DEF Typed
<1> QED
  BY <1>1, <1>3, <1>4 DEF u

LEMMA HideKeeps ==
  ASSUME NEW s
  PROVE  /\ Typed(s) => Same(s, Hide(s))
         /\ Base(s) => Base(Hide(s))
         /\ Good(s) => Good(Hide(s))
<1> DEFINE u == Hide(s)
<1>1. ASSUME Typed(s)
      PROVE  /\ Typed(u) /\ u.tip = s.tip /\ u.engine = s.engine /\ u.past = s.past
             /\ u.window.on = FALSE /\ u.window.snapshot = s.window.snapshot
  BY <1>1, HideIs
<1> HIDE DEF u
<1>2. Typed(s) => Same(s, u)
  BY <1>1 DEF Same
<1>3. ASSUME Base(s) PROVE Base(u)
  <2>1. Typed(s)
    BY <1>3 DEF Base
  <2> QED
    BY <1>1, <1>3, <2>1 DEF Base, Live
<1>4. ASSUME Good(s) PROVE Good(u)
  <2>1. Typed(s) /\ Base(s)
    BY <1>4 DEF Good, Base
  <2>2. Base(u)
    BY <1>3, <2>1
  <2>3. Belief(u) /\ Agrees(u)
    BY <1>1, <1>4, <2>1 DEF Good, Belief, Minded, Informed, Agrees, Live
  <2>4. Windowed(u)
    <3>1. ~u.window.on
      BY <1>1, <2>1
    <3> QED
      BY <3>1 DEF Windowed
  <2> QED
    BY <2>2, <2>3, <2>4 DEF Good
<1> QED
  BY <1>2, <1>3, <1>4 DEF u

(* AbandonSession. *)
LEMMA ForgottenIs ==
  ASSUME NEW s, Base(s)
  PROVE  LET u == Forgotten(s)
         IN  /\ Base(u) /\ u.tip.session = "none" /\ ~u.window.on /\ Same(s, u)
             /\ u.past.lost = s.past.lost /\ u.past.orphans = s.past.orphans
             /\ u.tip.privacy = "blocked"
<1> DEFINE u == Forgotten(s)
<1>1. Typed(s) /\ s.past.orphans <= s.past.lost /\ Readable(s.window.snapshot)
  BY DEF Base
<1>2. DOMAIN u = DOMAIN s /\ u.engine = NoEngine /\ u.window = [s.window EXCEPT !.on = FALSE]
  BY <1>1 DEF Typed, Forgotten, Hide
<1>3. u.tip = [s.tip EXCEPT !.session = "none", !.privacy = "blocked",
                            !.snapshot = EmptySnapshot, !.offset = 0]
  BY <1>1 DEF Typed, Forgotten, Hide
<1>4. u.past = [s.past EXCEPT !.stale = FALSE, !.old = FALSE, !.resized = FALSE, !.since = 0]
  BY <1>1 DEF Typed, Forgotten, Hide
<1> HIDE DEF u
<1>5. EmptySnapshot \in Snapshot /\ "blocked" \in Privacy
  BY EmptyIs DEF Privacy
<1>6. s.tip \in TipType /\ s.window \in WindowType /\ s.past \in PastType
  BY <1>1 DEF Typed
<1>7. /\ u.tip \in TipType /\ u.tip.session = "none" /\ u.tip.privacy = "blocked"
      /\ u.tip.snapshot = EmptySnapshot /\ u.tip.chinese = s.tip.chinese
      /\ u.tip.switchDown = s.tip.switchDown /\ u.tip.switchUsed = s.tip.switchUsed
  <2> DEFINE t == s.tip
  <2>1. t \in TipType
    BY <1>6
  <2>2. u.tip = [t EXCEPT !.session = "none", !.privacy = "blocked",
                          !.snapshot = EmptySnapshot, !.offset = 0]
    BY <1>3
  <2> HIDE DEF t
  <2>3. u.tip \in TipType
    <3> DEFINE e == EmptySnapshot
               b == "blocked"
    <3>1. e \in Snapshot /\ b \in Privacy
      BY <1>5
    <3> HIDE DEF e, b
    <3>2. [t EXCEPT !.session = "none", !.privacy = b, !.snapshot = e, !.offset = 0] \in TipType
      BY <2>1, <3>1 DEF TipType
    <3> QED
      BY <2>2, <3>2 DEF e, b
  <2>4. /\ u.tip.session = "none" /\ u.tip.privacy = "blocked"
        /\ u.tip.snapshot = EmptySnapshot /\ u.tip.chinese = t.chinese
        /\ u.tip.switchDown = t.switchDown /\ u.tip.switchUsed = t.switchUsed
    BY <2>1, <2>2 DEF TipType
  <2> QED
    BY <2>3, <2>4 DEF t
<1>8. u.window \in WindowType /\ u.window.on = FALSE /\ u.window.snapshot = s.window.snapshot
  BY <1>2, <1>6 DEF WindowType
<1>9. /\ u.past \in PastType /\ u.past.lost = s.past.lost /\ u.past.orphans = s.past.orphans
      /\ u.past.clean = s.past.clean
      /\ u.past.stale = FALSE
  <2> DEFINE p == s.past
  <2>1. p \in PastType /\ 0 \in Nat
    BY <1>6
  <2>2. u.past = [p EXCEPT !.stale = FALSE, !.old = FALSE, !.resized = FALSE, !.since = 0]
    BY <1>4
  <2> HIDE DEF p
  <2>3. u.past \in PastType
    BY <2>1, <2>2 DEF PastType
  <2>4. /\ u.past.lost = p.lost /\ u.past.orphans = p.orphans
        /\ u.past.clean = p.clean
        /\ u.past.stale = FALSE
    BY <2>1, <2>2 DEF PastType
  <2> QED
    BY <2>3, <2>4 DEF p
<1>10. Typed(u)
  BY <1>1, <1>2, <1>7, <1>8, <1>9 DEF Typed
<1>11. ~u.window.on /\ ~u.past.stale /\ ~u.tip.snapshot.preedit
  BY <1>7, <1>8, <1>9, EmptyIs
<1>12. Base(u)
  BY <1>1, <1>2, <1>7, <1>8, <1>9, <1>10, <1>11, EmptyIs DEF Base, Live
<1>13. Same(s, u)
  BY <1>7, <1>9 DEF Same
<1> QED
  BY <1>7, <1>9, <1>11, <1>12, <1>13 DEF u

LEMMA LosingIs ==
  ASSUME NEW s, Base(s), MayLose(s)
  PROVE  LET u == Losing(s)
         IN  /\ Base(u) /\ u.tip = s.tip /\ u.engine = s.engine /\ u.window = s.window
             /\ Same(s, u) /\ u.past.lost = s.past.lost + 1 /\ u.past.lost > s.past.lost
             /\ u.past = [s.past EXCEPT !.lost = s.past.lost + 1]
<1> DEFINE u == Losing(s)
           n == s.past.lost + 1
<1>1. Typed(s)
  BY DEF Base
<1>2. /\ DOMAIN u = DOMAIN s /\ u.tip = s.tip /\ u.engine = s.engine /\ u.window = s.window
      /\ u.past = [s.past EXCEPT !.lost = n]
  BY <1>1 DEF Typed, Losing
<1> HIDE DEF u
<1>3. s.past.lost \in 0 .. MaxLost /\ s.past.orphans \in Nat
  BY <1>1, TypedParts
<1>4. n \in 0 .. MaxLost /\ n > s.past.lost
  BY <1>3, Lawful DEF MayLose
<1>5. s.past \in PastType
  BY <1>1 DEF Typed
<1>9. n = s.past.lost + 1
  OBVIOUS
<1> HIDE DEF n
<1>6. /\ u.past \in PastType /\ u.past.lost = n /\ u.past.orphans = s.past.orphans
      /\ u.past.clean = s.past.clean
      /\ u.past.stale = s.past.stale
  BY <1>2, <1>4, <1>5 DEF PastType
<1>7. Typed(u)
  BY <1>1, <1>2, <1>6 DEF Typed
<1>8. u.past.orphans <= u.past.lost
  BY <1>3, <1>4, <1>6, Lawful DEF Base
<1>10. Base(u)
  BY <1>2, <1>6, <1>7, <1>8 DEF Base, Live
<1> QED
  BY <1>2, <1>4, <1>6, <1>9, <1>10 DEF Same, u

LEMMA OrphanIs ==
  ASSUME NEW s, Base(s), MayLose(s)
  PROVE  LET u == Losing([s EXCEPT !.past.orphans = @ + 1])
         IN  /\ Base(u) /\ u.tip = s.tip /\ u.engine = s.engine /\ u.window = s.window
             /\ Same(s, u)
             /\ u.past = [s.past EXCEPT !.orphans = s.past.orphans + 1, !.lost = s.past.lost + 1]
<1> DEFINE u == Losing([s EXCEPT !.past.orphans = @ + 1])
           n == s.past.lost + 1
           k == s.past.orphans + 1
           p == s.past
<1>1. Typed(s)
  BY DEF Base
<1>2. /\ DOMAIN u = DOMAIN s /\ u.tip = s.tip /\ u.engine = s.engine /\ u.window = s.window
      /\ u.past = [p EXCEPT !.orphans = k, !.lost = n]
  BY <1>1 DEF Typed, Losing, PastType
<1> HIDE DEF u
<1>3. p.lost \in 0 .. MaxLost /\ p.orphans \in Nat /\ p \in PastType
  BY <1>1, TypedParts
<1>4. n \in 0 .. MaxLost /\ k \in Nat /\ k <= n
  BY <1>3, Lawful DEF MayLose, Base
<1>9. n = s.past.lost + 1 /\ k = s.past.orphans + 1
  OBVIOUS
<1> HIDE DEF n, k, p
<1>5. u.past \in PastType
  BY <1>2, <1>3, <1>4 DEF PastType
<1>6. /\ u.past.lost = n /\ u.past.orphans = k
      /\ u.past.clean = p.clean /\ u.past.stale = p.stale
  BY <1>2, <1>3 DEF PastType
<1>7. Typed(u)
  BY <1>1, <1>2, <1>5 DEF Typed
<1>8. Base(u)
  BY <1>2, <1>4, <1>6, <1>7 DEF Base, Live, p
<1> QED
  BY <1>2, <1>6, <1>8, <1>9 DEF Same, u, p

LEMMA AbandonIs ==
  ASSUME NEW s, Base(s), NEW u \in AbandonSession(s)
  PROVE  Good(u) /\ Same(s, u) /\ u.tip.session = "none" /\ u.tip.privacy = "blocked"
<1> DEFINE f == Forgotten(s)
           g == Losing(f)
           h == Losing([f EXCEPT !.past.orphans = @ + 1])
<1>1. /\ Base(f) /\ f.tip.session = "none" /\ ~f.window.on /\ Same(s, f)
      /\ f.past.lost = s.past.lost /\ f.tip.privacy = "blocked"
  BY ForgottenIs
<1>2. u = f \/ (MayLose(s) /\ (u = g \/ u = h))
  BY DEF AbandonSession
<1> HIDE DEF f
<1>3. MayLose(s) => MayLose(f)
  BY <1>1 DEF MayLose
<1>4. CASE u = f
  BY <1>1, <1>4, IdleGood
<1>5. CASE MayLose(s) /\ u = g
  <2>1. Base(g) /\ g.tip = f.tip /\ g.window = f.window /\ Same(f, g)
    BY <1>1, <1>3, <1>5, LosingIs
  <2> HIDE DEF g
  <2>2. Good(g)
    BY <1>1, <2>1, IdleGood
  <2>3. Same(s, g)
    BY <1>1, <2>1 DEF Same
  <2> QED
    BY <1>1, <1>5, <2>1, <2>2, <2>3
<1>6. CASE MayLose(s) /\ u = h
  <2>1. Base(h) /\ h.tip = f.tip /\ h.window = f.window /\ Same(f, h)
    BY <1>1, <1>3, <1>6, OrphanIs
  <2> HIDE DEF h
  <2>2. Good(h)
    BY <1>1, <2>1, IdleGood
  <2>3. Same(s, h)
    BY <1>1, <2>1 DEF Same
  <2> QED
    BY <1>1, <1>6, <2>1, <2>2, <2>3
<1> QED
  BY <1>2, <1>4, <1>5, <1>6

-----------------------------------------------------------------------------
(* Exchanges.                                                              *)

(* The engine was asked. *)
Reached(s, command, value, u) ==
  /\ u.engine = Handle(s.engine, command, value).engine
  /\ u.past.old = (s.past.old /\ Input(u.engine))

(* What no exchange changes. *)
Kept(s, u) ==
  /\ u.tip = s.tip /\ u.window = s.window /\ Same(s, u)
  /\ u.past.stale = s.past.stale /\ u.past.resized = s.past.resized
  /\ u.past.since = s.past.since /\ u.past.events = s.past.events

Answered(s, command, value, o) ==
  /\ o.answer.status = "ok" =>
       /\ Live(s) /\ o.s.past.lost = s.past.lost /\ Reached(s, command, value, o.s)
       /\ o.answer.consumed = Handle(s.engine, command, value).consumed
       /\ o.answer.snapshot = SnapshotOf(o.s.engine)
  /\ o.answer.status # "ok" =>
       \/ o.s = s /\ ~Live(s)
       \/ /\ Live(s) /\ o.s.past.lost > s.past.lost
          /\ \/ Reached(s, command, value, o.s)
             \/ o.s.engine = s.engine /\ o.s.past.old = s.past.old

LEMMA PutEngine ==
  ASSUME NEW s, Base(s), Live(s), NEW e, Sound(e), NEW p \in BOOLEAN
  PROVE  LET u == [s EXCEPT !.engine = e, !.past.old = @ /\ p]
         IN  /\ Base(u) /\ Kept(s, u) /\ u.engine = e /\ u.past.old = (s.past.old /\ p)
             /\ u.past.lost = s.past.lost
<1> DEFINE u == [s EXCEPT !.engine = e, !.past.old = @ /\ p]
           b == s.past.old /\ p
           q == s.past
<1>1. Typed(s) /\ e \in Engine
  BY SoundIs DEF Base
<1>2. /\ DOMAIN u = DOMAIN s /\ u.tip = s.tip /\ u.engine = e /\ u.window = s.window
      /\ u.past = [q EXCEPT !.old = b]
  BY <1>1 DEF Typed, PastType
<1>3. b \in BOOLEAN /\ q \in PastType
  BY <1>1, TypedParts
<1>4. (s.past.old /\ p) = b
  OBVIOUS
<1> HIDE DEF u, b, q
<1>5. u.past \in PastType
  BY <1>2, <1>3 DEF PastType
<1>6. /\ u.past.lost = q.lost /\ u.past.orphans = q.orphans /\ u.past.old = b
      /\ u.past.clean = q.clean /\ u.past.stale = q.stale
      /\ u.past.resized = q.resized /\ u.past.since = q.since /\ u.past.events = q.events
  BY <1>2, <1>3 DEF PastType
<1>7. Typed(u)
  BY <1>1, <1>2, <1>5 DEF Typed
<1>8. e # NoEngine
  BY <1>1, NoEngineIs
<1>9. Base(u)
  BY <1>2, <1>6, <1>7, <1>8 DEF Base, Live, q
<1>10. Kept(s, u)
  BY <1>2, <1>6 DEF Kept, Same, q
<1> QED
  BY <1>2, <1>4, <1>6, <1>9, <1>10 DEF u, q

LEMMA ExchangeIs ==
  ASSUME NEW s, Base(s), NEW command, NEW value, Fitting(command, value),
         NEW o \in Exchange(s, command, value)
  PROVE  Base(o.s) /\ Kept(s, o.s) /\ Answered(s, command, value, o)
<1>1. CASE ~Live(s)
  <2>1. o = Outcome(s, NotFound)
    BY <1>1 DEF Exchange, Live
  <2>2. o.s = s /\ o.answer.status = "notFound"
    BY <2>1 DEF Outcome, NotFound
  <2>3. o.answer.status # "ok"
    BY <2>2
  <2> QED
    BY <1>1, <2>2, <2>3 DEF Kept, Same, Answered
<1>2. CASE Live(s)
  <2> DEFINE a == Handle(s.engine, command, value)
             e == a.engine
             p == SnapshotOf(e).preedit
             u == [s EXCEPT !.engine = e, !.past.old = @ /\ p]
             answer == [status |-> "ok", consumed |-> a.consumed, commit |-> a.commit,
                        snapshot |-> SnapshotOf(e)]
  <2>1. Sound(s.engine)
    BY <1>2 DEF Base
  <2>2. Sound(e)
    <3>1. Served(s.engine, command, a)
      BY <2>1, HandleServed
    <3> QED
      BY <3>1 DEF Served
  <2>3. p = Input(e) /\ p \in BOOLEAN
    <3>1. Readable(SnapshotOf(e)) /\ SnapshotOf(e).preedit = Input(e)
      BY <2>2, SnapshotIs DEF Sound
    <3> QED
      BY <3>1 DEF Readable, Snapshot
  <2>4. Exchange(s, command, value) = Outcomes(s, u, answer)
    BY <1>2 DEF Exchange, Asked, Replied, Live
  <2>5. answer.status = "ok" /\ answer.consumed = a.consumed /\ answer.snapshot = SnapshotOf(e)
    OBVIOUS
  <2>10. a = Handle(s.engine, command, value) /\ e = a.engine
    OBVIOUS
  <2> HIDE DEF answer, u, p, e, a
  <2>6. /\ Base(u) /\ Kept(s, u) /\ u.engine = e /\ u.past.old = (s.past.old /\ p)
        /\ u.past.lost = s.past.lost
    BY <1>2, <2>2, <2>3, PutEngine, ZenonT(60) DEF u
  <2>7. Reached(s, command, value, u)
    BY <2>3, <2>6, <2>10 DEF Reached
  <2>8. \/ o = Outcome(u, answer)
        \/ MayLose(s) /\ (o = Outcome(Losing(u), Lost) \/ o = Outcome(Losing(s), Lost))
    BY <2>4 DEF Outcomes
  <2>9. CASE o = Outcome(u, answer)
    <3>1. o.s = u /\ o.answer = answer
      BY <2>9 DEF Outcome
    <3>2. Answered(s, command, value, o)
      BY <1>2, <2>5, <2>6, <2>7, <2>10, <3>1 DEF Answered
    <3> QED
      BY <2>6, <3>1, <3>2
  <2>11. CASE MayLose(s) /\ o = Outcome(Losing(u), Lost)
    <3> DEFINE w == Losing(u)
    <3>1. o.s = w /\ o.answer.status = "lost"
      BY <2>11 DEF Outcome, Lost
    <3>2. MayLose(u)
      BY <2>6, <2>11 DEF MayLose
    <3>3. /\ Base(w) /\ w.tip = u.tip /\ w.engine = u.engine /\ w.window = u.window
          /\ Same(u, w) /\ w.past.lost > u.past.lost
          /\ w.past = [u.past EXCEPT !.lost = u.past.lost + 1]
      BY <2>6, <3>2, LosingIs
    <3> HIDE DEF w
    <3>4. u.past \in PastType
      BY <2>6, TypedParts DEF Base
    <3>5. /\ w.past.stale = u.past.stale /\ w.past.resized = u.past.resized
          /\ w.past.since = u.past.since /\ w.past.events = u.past.events
          /\ w.past.old = u.past.old
      BY <3>3, <3>4 DEF PastType
    <3>6. Kept(s, w)
      BY <2>6, <3>3, <3>5 DEF Kept, Same
    <3>7. Reached(s, command, value, w)
      BY <2>7, <3>3, <3>5 DEF Reached
    <3>8. w.past.lost > s.past.lost /\ o.answer.status # "ok"
      BY <2>6, <3>1, <3>3
    <3>9. Answered(s, command, value, o)
      BY <1>2, <3>1, <3>7, <3>8 DEF Answered
    <3> QED
      BY <3>1, <3>3, <3>6, <3>9
  <2>12. CASE MayLose(s) /\ o = Outcome(Losing(s), Lost)
    <3> DEFINE w == Losing(s)
    <3>1. o.s = w /\ o.answer.status = "lost"
      BY <2>12 DEF Outcome, Lost
    <3>3. /\ Base(w) /\ w.tip = s.tip /\ w.engine = s.engine /\ w.window = s.window
          /\ Same(s, w) /\ w.past.lost > s.past.lost
          /\ w.past = [s.past EXCEPT !.lost = s.past.lost + 1]
      BY <2>12, LosingIs
    <3> HIDE DEF w
    <3>4. s.past \in PastType
      BY TypedParts DEF Base
    <3>5. /\ w.past.stale = s.past.stale /\ w.past.resized = s.past.resized
          /\ w.past.since = s.past.since /\ w.past.events = s.past.events
          /\ w.past.old = s.past.old
      BY <3>3, <3>4 DEF PastType
    <3>6. Kept(s, w)
      BY <3>3, <3>5 DEF Kept
    <3>8. o.answer.status # "ok"
      BY <3>1
    <3>9. Answered(s, command, value, o)
      BY <1>2, <3>1, <3>3, <3>5, <3>8 DEF Answered
    <3> QED
      BY <3>1, <3>3, <3>6, <3>9
  <2> QED
    BY <2>8, <2>9, <2>11, <2>12
<1> QED
  BY <1>1, <1>2

-----------------------------------------------------------------------------
(* Options.                                                                *)

(* What the text service has is known to be out of date, or is nothing. *)
Aside(s) == s.past.stale \/ ~s.tip.snapshot.preedit

(* The engine changed no more than an option or a page changes it. *)
Alike(s, u) ==
  Live(s) => /\ Input(u.engine) <=> Input(s.engine)
             /\ u.engine.letters <= s.engine.letters
             /\ u.past.old <=> s.past.old
             /\ u.engine.kind = s.engine.kind

LEMMA AlikeIs ==
  ASSUME NEW s, Base(s), Belief(s), NEW command \in Options \cup PageKeys, NEW value,
         Fitting(command, value), NEW o \in Exchange(s, command, value)
  PROVE  Alike(s, o.s)
<1> DEFINE v == o.s
           a == Handle(s.engine, command, value)
<1>1. Base(v) /\ Kept(s, v) /\ Answered(s, command, value, o)
  BY ExchangeIs
<1> SUFFICES ASSUME Live(s) PROVE Alike(s, v)
  BY DEF Alike
<1>2. Sound(s.engine)
  BY DEF Base
<1>3. Reached(s, command, value, v) \/ (v.engine = s.engine /\ v.past.old = s.past.old)
  BY <1>1 DEF Answered
<1>4. CASE v.engine = s.engine /\ v.past.old = s.past.old
  <2>1. s.engine.letters <= s.engine.letters
    BY <1>2, SoundIs
  <2> QED
    BY <1>4, <2>1 DEF Alike
<1>5. CASE Reached(s, command, value, v)
  <2>1. Served(s.engine, command, a)
    BY <1>2, HandleServed
  <2>2. command # "letter"
    BY DEF Options, PageKeys
  <2>3. v.engine = a.engine /\ v.past.old = (s.past.old /\ Input(v.engine))
    BY <1>5 DEF Reached
  <2> HIDE DEF v, a
  <2>4. (Input(v.engine) <=> Input(s.engine)) /\ v.engine.kind = s.engine.kind
    BY <2>1, <2>3 DEF Served
  <2>5. v.engine.letters <= s.engine.letters
    <3>1. v.engine.letters <= s.engine.letters + 0
      BY <2>1, <2>2, <2>3 DEF Served
    <3>2. v.engine.letters \in Nat /\ s.engine.letters \in Nat
      BY <1>2, <2>1, <2>3, SoundIs DEF Served
    <3> QED
      BY <3>1, <3>2
  <2>6. s.past.old => Input(s.engine)
    BY DEF Belief, Minded
  <2>7. v.past.old <=> s.past.old
    BY <2>3, <2>4, <2>6
  <2>8. Alike(s, v)
    BY <2>4, <2>5, <2>7 DEF Alike
  <2> QED
    BY <2>8 DEF v
<1> QED
  BY <1>3, <1>4, <1>5

(* Such a change is not against what the text service knows. *)
LEMMA AlikeMinded ==
  ASSUME NEW s, Base(s), Belief(s), NEW u, Base(u), Alike(s, u), u.tip.session = s.tip.session,
         u.tip.snapshot = s.tip.snapshot, u.past.since = s.past.since, Live(u)
  PROVE  Minded(u)
<1>1. Live(s)
  BY DEF Live
<1>2. Minded(s)
  BY <1>1 DEF Belief
<1>3. ~u.past.old => u.engine.letters <= u.past.since
  <2>1. /\ s.engine.letters \in Nat /\ u.engine.letters \in Nat /\ s.past.since \in Nat
    BY <1>1, SoundIs, TypedParts DEF Base
  <2> SUFFICES ASSUME ~u.past.old PROVE u.engine.letters <= u.past.since
    OBVIOUS
  <2>2. s.engine.letters <= s.past.since /\ u.engine.letters <= s.engine.letters
    BY <1>1, <1>2 DEF Alike, Minded
  <2> QED
    BY <2>1, <2>2
<1> QED
  BY <1>1, <1>2, <1>3 DEF Alike, Minded

Configures(s, u) ==
  /\ Base(u) /\ Belief(u) /\ Windowed(u) /\ Aside(u) /\ Same(s, u)
  /\ u.tip = s.tip

LEMMA ResizedIs ==
  ASSUME NEW s, Base(s), NEW b \in BOOLEAN
  PROVE  LET u == [s EXCEPT !.past.resized = b]
         IN  /\ Base(u) /\ u.tip = s.tip /\ u.engine = s.engine /\ u.window = s.window
             /\ Same(s, u) /\ u.past.resized = b /\ u.past.stale = s.past.stale
             /\ u.past.old = s.past.old /\ u.past.since = s.past.since
<1> DEFINE u == [s EXCEPT !.past.resized = b]
           p == s.past
<1>1. Typed(s)
  BY DEF Base
<1>2. /\ DOMAIN u = DOMAIN s /\ u.tip = s.tip /\ u.engine = s.engine /\ u.window = s.window
      /\ u.past = [p EXCEPT !.resized = b]
  BY <1>1 DEF Typed
<1>3. p \in PastType
  BY <1>1, TypedParts
<1> HIDE DEF u, p
<1>4. u.past \in PastType
  BY <1>2, <1>3 DEF PastType
<1>5. /\ u.past.resized = b /\ u.past.stale = p.stale /\ u.past.old = p.old
      /\ u.past.since = p.since /\ u.past.lost = p.lost /\ u.past.orphans = p.orphans
      /\ u.past.clean = p.clean
  BY <1>2, <1>3 DEF PastType
<1>6. Typed(u)
  BY <1>1, <1>2, <1>4 DEF Typed
<1>7. Base(u)
  BY <1>2, <1>5, <1>6 DEF Base, Live, p
<1>8. Same(s, u)
  BY <1>2, <1>5 DEF Same, p
<1> QED
  BY <1>2, <1>5, <1>7, <1>8 DEF u, p

LEMMA ConfiguredIs ==
  ASSUME NEW s, Base(s), Belief(s), Windowed(s), Aside(s), NEW option \in Options, NEW value,
         Fitting(option, value), NEW u \in Configured(s, option, value)
  PROVE  /\ Configures(s, u)
         /\ Agrees(s) /\ option # "pageSize" => Agrees(u)
         /\ option = "pageSize" /\ value = s.tip.settings.pageSize => Agrees(u)
<1>1. PICK o \in Exchange(s, option, value) :
        u = [o.s EXCEPT !.past.resized = @ \/ o.s.past.lost > s.past.lost]
  BY DEF Configured, Sent
<1> DEFINE v == o.s
           b == v.past.resized \/ v.past.lost > s.past.lost
           a == Handle(s.engine, option, value)
<1>2. Base(v) /\ Kept(s, v) /\ Answered(s, option, value, o)
  BY ExchangeIs
<1>3. Alike(s, v)
  BY AlikeIs
<1>10. b = (v.past.resized \/ v.past.lost > s.past.lost)
  OBVIOUS
<1>11. Typed(v)
  BY <1>2 DEF Base
<1> HIDE DEF v
<1>4. b \in BOOLEAN
  OBVIOUS
<1>5. u = [v EXCEPT !.past.resized = b]
  BY <1>1, <1>11 DEF v, Typed, PastType
<1> HIDE DEF b
<1>6. /\ Base(u) /\ u.tip = v.tip /\ u.engine = v.engine /\ u.window = v.window
      /\ Same(v, u) /\ u.past.resized = b /\ u.past.stale = v.past.stale
      /\ u.past.old = v.past.old /\ u.past.since = v.past.since
  BY <1>2, <1>4, <1>5, ResizedIs
<1>7. /\ u.tip = s.tip /\ u.window = s.window /\ u.past.stale = s.past.stale
      /\ u.past.since = s.past.since /\ Same(s, u)
  BY <1>2, <1>6 DEF Kept, Same
<1>8. Aside(u)
  BY <1>7 DEF Aside
<1>9. Alike(s, u)
  BY <1>3, <1>6 DEF Alike
<1>12. Belief(u)
  <2>1. Live(u) => Minded(u)
    BY <1>6, <1>7, <1>9, AlikeMinded
  <2>2. Informed(u)
    BY <1>8 DEF Aside, Informed
  <2> QED
    BY <2>1, <2>2 DEF Belief
<1>13. Windowed(u)
  BY <1>7 DEF Windowed, Mirrors
<1>14. Configures(s, u)
  BY <1>6, <1>7, <1>8, <1>12, <1>13 DEF Configures
<1>15. ASSUME Live(u), ~u.past.resized, u.engine.kind = "rime",
              \/ Agrees(s) /\ option # "pageSize"
              \/ option = "pageSize" /\ value = s.tip.settings.pageSize
       PROVE  u.engine.pageSize = u.tip.settings.pageSize
  <2>1. Live(s)
    BY <1>7, <1>15 DEF Live
  <2>2. ~v.past.resized /\ ~(v.past.lost > s.past.lost)
    BY <1>6, <1>10, <1>15
  <2>3. ~s.past.resized /\ o.answer.status = "ok" /\ Reached(s, option, value, v)
    BY <1>2, <2>1, <2>2 DEF Kept, Answered, v
  <2>4. Sound(s.engine)
    BY <2>1 DEF Base
  <2>5. s.engine.kind = "rime"
    BY <1>9, <1>15, <2>1 DEF Alike
  <2>6. v.engine = a.engine
    BY <2>3 DEF Reached
  <2>7. /\ Served(s.engine, option, a)
        /\ option = "pageSize" => a.engine.pageSize = value
    BY <2>4, <2>5, HandleServed
  <2> HIDE DEF a
  <2>8. CASE option = "pageSize" /\ value = s.tip.settings.pageSize
    BY <1>6, <1>7, <2>6, <2>7, <2>8
  <2>9. CASE Agrees(s) /\ option # "pageSize"
    <3>1. a.engine.pageSize = s.engine.pageSize
      BY <2>7, <2>9 DEF Served
    <3>2. s.engine.pageSize = s.tip.settings.pageSize
      BY <2>1, <2>3, <2>5, <2>9 DEF Agrees
    <3> QED
      BY <1>6, <1>7, <2>6, <3>1, <3>2
  <2> QED
    BY <1>15, <2>8, <2>9
<1>16. /\ Agrees(s) /\ option # "pageSize" => Agrees(u)
       /\ option = "pageSize" /\ value = s.tip.settings.pageSize => Agrees(u)
  BY <1>15 DEF Agrees
<1> QED
  BY <1>14, <1>16

(* Options of a set, one after the other. *)
LEMMA OptionFits ==
  ASSUME NEW s, Base(s), NEW option \in Options
  PROVE  Fitting(option, s.tip.settings[option])
<1> DEFINE p == s.tip.settings
<1>1. p \in Preferences
  BY TypedParts DEF Base
<1> HIDE DEF p
<1>2. /\ p.pageSize \in Sizes /\ p.window \in {1, Rows} /\ p.chineseOnly \in BOOLEAN
  BY <1>1 DEF Preferences
<1>5. p.pageSize \in 1 .. MaxPageSize
  BY <1>2, Lawful
<1>6. 1 \in 1 .. MaxWindow /\ Rows \in 1 .. MaxWindow
  BY Lawful, RimeEngineAssumption
<1>7. p.window \in 1 .. MaxWindow
  BY <1>2, <1>6
<1>3. p.pageSize \in 1 .. MaxPageSize /\ p.window \in 1 .. MaxWindow
  BY <1>5, <1>7
<1>4. Fitting(option, p[option])
  <2>1. CASE option = "pageSize"
    BY <1>3, <2>1 DEF Fitting, Commands, Options
  <2>2. CASE option = "window"
    BY <1>3, <2>2 DEF Fitting, Commands, Options
  <2>3. CASE option = "chineseOnly"
    BY <1>2, <2>3 DEF Fitting, Commands, Options
  <2>4. CASE option = "traditional"
    BY <2>4 DEF Fitting, Commands, Options
  <2> QED
    BY <2>1, <2>2, <2>3, <2>4 DEF Options
<1> QED
  BY <1>4 DEF p

(* All of a set have heard of the options so far. *)
Ready(s) == Base(s) /\ Belief(s) /\ Windowed(s) /\ Aside(s)

From(s, t) == Ready(t) /\ Same(s, t) /\ t.tip = s.tip
AllAgree(S) == \A t \in S : Agrees(t)

LEMMA OptionedIs ==
  ASSUME NEW s, NEW S, \A t \in S : From(s, t),
         NEW option \in Options, NEW chosen, NEW u \in Optioned(S, option, chosen)
  PROVE  /\ From(s, u)
         /\ AllAgree(S) => Agrees(u)
         /\ option = "pageSize" /\ option \in chosen => Agrees(u)
<1>1. CASE option \in chosen
  <2>1. PICK t \in S : u \in Configured(t, option, t.tip.settings[option])
    BY <1>1 DEF Optioned
  <2>2. Ready(t) /\ Same(s, t) /\ t.tip = s.tip
    BY <2>1 DEF From
  <2> DEFINE x == t.tip.settings[option]
  <2>3. Fitting(option, x)
    BY <2>2, OptionFits DEF Ready
  <2>8. option = "pageSize" => x = t.tip.settings.pageSize
    OBVIOUS
  <2>9. u \in Configured(t, option, x)
    BY <2>1
  <2> HIDE DEF x
  <2>4. /\ Configures(t, u)
        /\ Agrees(t) /\ option # "pageSize" => Agrees(u)
        /\ option = "pageSize" /\ x = t.tip.settings.pageSize => Agrees(u)
    BY <2>2, <2>3, <2>9, ConfiguredIs DEF Ready
  <2>5. Ready(u) /\ u.tip = s.tip
    BY <2>2, <2>4 DEF Configures, Ready
  <2>6. Same(s, u)
    BY <2>2, <2>4 DEF Configures, Same
  <2>7. option = "pageSize" => Agrees(u)
    BY <2>4, <2>8
  <2> QED
    BY <2>1, <2>4, <2>5, <2>6, <2>7 DEF AllAgree, From
<1>2. CASE option \notin chosen
  <2>1. u \in S
    BY <1>2 DEF Optioned
  <2> QED
    BY <1>2, <2>1 DEF AllAgree
<1> QED
  BY <1>1, <1>2

LEMMA WithOptionsIs ==
  ASSUME NEW s, Ready(s), NEW chosen, "pageSize" \in chosen \/ Agrees(s),
         NEW u \in WithOptions(s, chosen)
  PROVE  Good(u) /\ Same(s, u) /\ u.tip = s.tip
<1> DEFINE O == {s}
           A == Optioned(O, "traditional", chosen)
           B == Optioned(A, "pageSize", chosen)
           C == Optioned(B, "window", chosen)
           D == Optioned(C, "chineseOnly", chosen)
<1>1. /\ "traditional" \in Options /\ "pageSize" \in Options /\ "window" \in Options
      /\ "chineseOnly" \in Options
  BY DEF Options
<1>2. u \in D
  BY DEF WithOptions
<1>3. \A t \in O : From(s, t)
  BY DEF Same, From
<1>8. AllAgree(O) <=> Agrees(s)
  BY DEF AllAgree
<1> HIDE DEF A, O
<1>4. \A t \in A : From(s, t) /\ (Agrees(s) => Agrees(t))
  <2> SUFFICES ASSUME NEW t \in A PROVE From(s, t) /\ (Agrees(s) => Agrees(t))
    OBVIOUS
  <2>2. t \in Optioned(O, "traditional", chosen)
    BY DEF A
  <2> QED
    BY <1>1, <1>3, <1>8, <2>2, OptionedIs
<1>9. Agrees(s) => AllAgree(A)
  BY <1>4 DEF AllAgree
<1> HIDE DEF B
<1>5. \A t \in B : From(s, t) /\ Agrees(t)
  <2> SUFFICES ASSUME NEW t \in B PROVE From(s, t) /\ Agrees(t)
    OBVIOUS
  <2>2. t \in Optioned(A, "pageSize", chosen)
    BY DEF B
  <2> QED
    BY <1>1, <1>4, <1>9, <2>2, OptionedIs
<1>10. AllAgree(B)
  BY <1>5 DEF AllAgree
<1> HIDE DEF C
<1>6. \A t \in C : From(s, t) /\ Agrees(t)
  <2> SUFFICES ASSUME NEW t \in C PROVE From(s, t) /\ Agrees(t)
    OBVIOUS
  <2>2. t \in Optioned(B, "window", chosen)
    BY DEF C
  <2> QED
    BY <1>1, <1>5, <1>10, <2>2, OptionedIs
<1>11. AllAgree(C)
  BY <1>6 DEF AllAgree
<1>7. From(s, u) /\ Agrees(u)
  <2>1. u \in Optioned(C, "chineseOnly", chosen)
    BY <1>2
  <2> QED
    BY <1>1, <1>6, <1>11, <2>1, OptionedIs
<1> QED
  BY <1>7 DEF Ready, Good, From

-----------------------------------------------------------------------------
(* Sessions.                                                               *)
LEMMA EnginesAre ==
  ASSUME NEW restricted, NEW e \in Engines(restricted)
  PROVE  e \in Engine /\ Sound(e) /\ ~Input(e) /\ e.letters = 0
<1> DEFINE some == CHOOSE x \in Schema : TRUE
<1>1. [full |-> "commit", reopens |-> FALSE, ends |-> "text"] \in Schema
  BY DEF Schema
<1>2. some \in Schema
  BY <1>1
<1>3. \A x \in (IF "rime" \in Runtimes THEN Schemas ELSE {}) : x \in Schema
  BY Lawful
<1>6. \/ \E x \in (IF "rime" \in Runtimes THEN Schemas ELSE {}) : e = NewEngine("rime", x)
      \/ e = NewEngine("stub", some)
  BY DEF Engines
<1> HIDE DEF some
<1>4. \E kind \in {"rime", "stub"}, schema \in Schema : e = NewEngine(kind, schema)
  BY <1>2, <1>3, <1>6
<1>5. PICK kind \in {"rime", "stub"}, schema \in Schema : e = NewEngine(kind, schema)
  BY <1>4
<1> QED
  BY <1>5, NewEngineIs

LEMMA CreatedIs ==
  ASSUME NEW s, Good(s), s.tip.session = "none", NEW u \in Created(s)
  PROVE  Ready(u) /\ Same(s, u) /\ Live(u)
<1>1. PICK e \in Engines(s.tip.privacy = "restricted") :
        u = [s EXCEPT !.tip.session = "live", !.tip.snapshot = EmptySnapshot, !.engine = e,
                      !.past.stale = FALSE, !.past.old = FALSE, !.past.since = 0]
  BY DEF Created
<1>2. Typed(s) /\ Base(s) /\ Windowed(s)
  BY DEF Good, Base
<1>3. e \in Engine /\ Sound(e) /\ ~Input(e) /\ e.letters = 0
  BY EnginesAre
<1> DEFINE t == s.tip
           q == s.past
           none == EmptySnapshot
           live == "live"
<1>4. /\ DOMAIN u = DOMAIN s /\ u.engine = e /\ u.window = s.window
      /\ u.tip = [t EXCEPT !.session = live, !.snapshot = none]
      /\ u.past = [q EXCEPT !.stale = FALSE, !.old = FALSE, !.since = 0]
  BY <1>1, <1>2 DEF Typed
<1>5. t \in TipType /\ q \in PastType /\ s.window \in WindowType /\ 0 \in Nat
  BY <1>2, TypedParts
<1>6. none \in Snapshot /\ none.preedit = FALSE /\ Readable(none) /\ none = EmptySnapshot
  BY EmptyIs
<1>12. live \in {"none", "live", "stale"} /\ live = "live"
  OBVIOUS
<1> HIDE DEF t, q, none, live
<1>7. u.tip \in TipType
  BY <1>4, <1>5, <1>6, <1>12 DEF TipType
<1>8. /\ u.tip.session = live /\ u.tip.snapshot = none /\ u.tip.chinese = t.chinese
      /\ u.tip.switchDown = t.switchDown /\ u.tip.switchUsed = t.switchUsed
  BY <1>4, <1>5 DEF TipType
<1>9. u.past \in PastType
  BY <1>4, <1>5 DEF PastType
<1>10. /\ u.past.stale = FALSE /\ u.past.old = FALSE /\ u.past.since = 0
       /\ u.past.lost = q.lost /\ u.past.orphans = q.orphans
       /\ u.past.clean = q.clean
  BY <1>4, <1>5 DEF PastType
<1>11. Typed(u)
  BY <1>2, <1>3, <1>4, <1>5, <1>7, <1>9 DEF Typed
<1>13. e # NoEngine
  BY <1>3, NoEngineIs
<1>14. Base(u)
  BY <1>2, <1>3, <1>4, <1>6, <1>8, <1>10, <1>11, <1>12, <1>13 DEF Base, Live, q
<1>15. Belief(u)
  <2>1. 0 <= 0
    OBVIOUS
  <2> QED
    BY <1>3, <1>4, <1>6, <1>8, <1>10, <2>1 DEF Belief, Minded, Informed
<1>16. ~s.window.on
  BY <1>2 DEF Windowed, Base
<1>17. Windowed(u) /\ Aside(u)
  BY <1>4, <1>6, <1>8, <1>16 DEF Windowed, Aside
<1>18. Same(s, u)
  BY <1>8, <1>10 DEF Same, t, q
<1> QED
  BY <1>8, <1>12, <1>14, <1>15, <1>17, <1>18 DEF Ready, Live

LEMMA EnsureSessionIs ==
  ASSUME NEW s, Good(s), NEW u \in EnsureSession(s)
  PROVE  Good(u) /\ Same(s, u)
<1>1. CASE s.tip.session # "none"
  BY <1>1 DEF EnsureSession, Same
<1>2. CASE s.tip.session = "none"
  <2>1. \/ \E c \in Created(s) : u \in WithOptions(c, Options)
        \/ u = s
        \/ MayLose(s) /\ (u = Losing(s) \/ u = Losing([s EXCEPT !.past.orphans = @ + 1]))
    BY <1>2 DEF EnsureSession, Then
  <2>2. CASE \E c \in Created(s) : u \in WithOptions(c, Options)
    <3>1. PICK c \in Created(s) : u \in WithOptions(c, Options)
      BY <2>2
    <3>2. Ready(c) /\ Same(s, c)
      BY <1>2, CreatedIs
    <3>3. "pageSize" \in Options
      BY DEF Options
    <3> DEFINE chosen == Options
    <3>6. "pageSize" \in chosen /\ u \in WithOptions(c, chosen)
      BY <3>1, <3>3
    <3> HIDE DEF chosen
    <3>4. Good(u) /\ Same(c, u)
      BY <3>2, <3>6, WithOptionsIs
    <3>5. Same(s, u)
      BY <3>2, <3>4 DEF Same
    <3> QED
      BY <3>4, <3>5
  <2>3. CASE u = s
    BY <2>3 DEF Same
  <2>4. Base(s) /\ ~s.window.on
    BY <1>2 DEF Good, Windowed, Base
  <2>5. CASE MayLose(s) /\ u = Losing(s)
    <3>1. Base(u) /\ u.tip = s.tip /\ u.window = s.window /\ Same(s, u)
      BY <2>4, <2>5, LosingIs
    <3> QED
      BY <1>2, <2>4, <3>1, IdleGood
  <2>6. CASE MayLose(s) /\ u = Losing([s EXCEPT !.past.orphans = @ + 1])
    <3>1. Base(u) /\ u.tip = s.tip /\ u.window = s.window /\ Same(s, u)
      BY <2>4, <2>6, OrphanIs
    <3> QED
      BY <1>2, <2>4, <3>1, IdleGood
  <2> QED
    BY <2>1, <2>2, <2>3, <2>5, <2>6
<1> QED
  BY <1>1, <1>2

-----------------------------------------------------------------------------
(* Settings.                                                               *)
Told(s, settings) ==
  [s EXCEPT !.tip.settings = settings, !.tip.offset = 0,
            !.past.stale = @ \/ s.tip.snapshot.preedit]

LEMMA ToldIs ==
  ASSUME NEW s, Good(s), NEW settings \in Preferences
  PROVE  LET u == Told(s, settings)
         IN  /\ Ready(u) /\ Same(s, u) /\ u.tip.session = s.tip.session
             /\ settings.pageSize = s.tip.settings.pageSize => Agrees(u)
<1> DEFINE u == Told(s, settings)
           t == s.tip
           q == s.past
           b == q.stale \/ t.snapshot.preedit
<1>1. Typed(s) /\ Base(s) /\ Belief(s) /\ Windowed(s) /\ Agrees(s)
  BY DEF Good, Base
<1>2. /\ DOMAIN u = DOMAIN s /\ u.engine = s.engine /\ u.window = s.window
      /\ u.tip = [t EXCEPT !.settings = settings, !.offset = 0]
      /\ u.past = [q EXCEPT !.stale = b]
  BY <1>1 DEF Typed, Told, TipType, PastType
<1>3. /\ t \in TipType /\ q \in PastType /\ 0 \in Nat /\ b \in BOOLEAN
      /\ q.stale \in BOOLEAN /\ t.snapshot.preedit \in BOOLEAN
  BY <1>1, TypedParts
<1>4. b <=> (s.past.stale \/ s.tip.snapshot.preedit)
  OBVIOUS
<1> HIDE DEF u, t, q, b
<1>5. u.tip \in TipType /\ u.past \in PastType
  BY <1>2, <1>3 DEF TipType, PastType
<1>6. /\ u.tip.session = t.session /\ u.tip.snapshot = t.snapshot /\ u.tip.chinese = t.chinese
      /\ u.tip.switchDown = t.switchDown /\ u.tip.switchUsed = t.switchUsed
      /\ u.tip.settings = settings
  BY <1>2, <1>3 DEF TipType
<1>7. /\ u.past.stale = b /\ u.past.old = q.old /\ u.past.since = q.since
      /\ u.past.lost = q.lost /\ u.past.orphans = q.orphans
      /\ u.past.clean = q.clean
      /\ u.past.resized = q.resized
  BY <1>2, <1>3 DEF PastType
<1>8. Typed(u)
  BY <1>1, <1>2, <1>5 DEF Typed
<1>9. s.past.stale => s.tip.snapshot.preedit
  BY <1>1 DEF Base
<1>10. Base(u)
  BY <1>1, <1>2, <1>4, <1>6, <1>7, <1>8, <1>9 DEF Base, Live, t, q
<1>11. Live(u) <=> Live(s)
  BY <1>6 DEF Live, t
<1>12. Informed(u)
  BY <1>4, <1>6, <1>7 DEF Informed, t
<1>13. Minded(s) => Minded(u)
  BY <1>2, <1>6, <1>7 DEF Minded, t, q
<1>14. Belief(u)
  BY <1>1, <1>11, <1>12, <1>13 DEF Belief
<1>15. Windowed(u)
  <2>1. u.window.on => s.tip.snapshot.preedit
    BY <1>1, <1>2 DEF Windowed
  <2>2. u.window.on => u.tip.snapshot.preedit /\ u.past.stale
    BY <1>4, <1>6, <1>7, <2>1 DEF t
  <2> QED
    BY <2>2 DEF Windowed
<1>16. Aside(u)
  BY <1>4, <1>6, <1>7 DEF Aside, t
<1>17. Same(s, u)
  BY <1>6, <1>7 DEF Same, t, q
<1>18. settings.pageSize = s.tip.settings.pageSize => Agrees(u)
  BY <1>1, <1>2, <1>6, <1>7, <1>11 DEF Agrees, q
<1> QED
  BY <1>6, <1>10, <1>14, <1>15, <1>16, <1>17, <1>18 DEF Ready, u, t

LEMMA RefreshSettingsIs ==
  ASSUME NEW s, Good(s), NEW settings \in Preferences, NEW u \in RefreshSettings(s, settings)
  PROVE  Good(u) /\ Same(s, u)
<1> DEFINE told == Told(s, settings)
           old == s.tip.settings
           chosen == {option \in Options : settings[option] # old[option]}
<1>1. \/ u = s \/ (s.tip.session = "none" /\ u = told)
      \/ u \in WithOptions(told, chosen)
  BY DEF RefreshSettings, Told
<1>2. /\ Ready(told) /\ Same(s, told) /\ told.tip.session = s.tip.session
      /\ settings.pageSize = s.tip.settings.pageSize => Agrees(told)
  BY ToldIs
<1>3. "pageSize" \in chosen \/ settings.pageSize = s.tip.settings.pageSize
  BY DEF Options
<1> HIDE DEF told, chosen
<1>4. CASE u = s
  BY <1>4 DEF Same
<1>5. CASE s.tip.session = "none" /\ u = told
  <2>1. ~told.window.on
    BY <1>2, <1>5 DEF Ready, Windowed, Base
  <2> QED
    BY <1>2, <1>5, <2>1, IdleGood DEF Ready
<1>6. CASE u \in WithOptions(told, chosen)
  <2>1. Good(u) /\ Same(told, u)
    BY <1>2, <1>3, <1>6, WithOptionsIs
  <2> QED
    BY <1>2, <2>1 DEF Same
<1> QED
  BY <1>1, <1>4, <1>5, <1>6

-----------------------------------------------------------------------------
(* What a toggle, a commit and a published mode leave.                     *)
LEMMA ExchangeAgrees ==
  ASSUME NEW s, Base(s), Agrees(s), NEW command, NEW value, Fitting(command, value),
         command # "pageSize", NEW o \in Exchange(s, command, value)
  PROVE  Agrees(o.s)
<1> DEFINE v == o.s
           a == Handle(s.engine, command, value)
<1>1. Base(v) /\ Kept(s, v) /\ Answered(s, command, value, o)
  BY ExchangeIs
<1>2. Reached(s, command, value, v) \/ v.engine = s.engine
  BY <1>1 DEF Answered
<1>3. Live(v) <=> Live(s)
  BY <1>1 DEF Kept, Live
<1>4. v.tip = s.tip /\ v.past.resized = s.past.resized
  BY <1>1 DEF Kept
<1>5. CASE ~Live(s)
  BY <1>3, <1>5 DEF Agrees
<1>6. CASE v.engine = s.engine
  BY <1>3, <1>4, <1>6 DEF Agrees
<1>7. CASE Live(s) /\ Reached(s, command, value, v)
  <2>1. Served(s.engine, command, a)
    BY <1>7, HandleServed DEF Base
  <2>2. v.engine = a.engine
    BY <1>7 DEF Reached
  <2> HIDE DEF v, a
  <2>3. v.engine.kind = s.engine.kind /\ v.engine.pageSize = s.engine.pageSize
    BY <2>1, <2>2 DEF Served
  <2>4. Agrees(v)
    BY <1>4, <1>7, <2>3 DEF Agrees
  <2> QED
    BY <2>4 DEF v
<1> QED
  BY <1>2, <1>5, <1>6, <1>7

(* A record without a snapshot and a window. *)
Forgets(s, f) ==
  /\ f.engine = s.engine /\ ~f.window.on /\ f.window.snapshot = s.window.snapshot
  /\ f.tip.session = s.tip.session /\ f.tip.settings = s.tip.settings
  /\ f.tip.snapshot = EmptySnapshot /\ f.tip.privacy = s.tip.privacy
  /\ f.tip.switchDown = s.tip.switchDown /\ f.tip.switchUsed = s.tip.switchUsed
  /\ f.past.stale = FALSE /\ f.past.since = 0 /\ f.past.old = s.past.old
  /\ f.past.lost = s.past.lost /\ f.past.orphans = s.past.orphans
  /\ f.past.clean = s.past.clean
  /\ f.past.resized = s.past.resized

LEMMA ForgetSnapshotIs ==
  ASSUME NEW s, Typed(s)
  PROVE  LET f == ForgetSnapshot(s)
         IN  Typed(f) /\ Forgets(s, f) /\ f.tip.chinese = s.tip.chinese
<1> DEFINE f == ForgetSnapshot(s)
           t == s.tip
           q == s.past
           w == s.window
           none == EmptySnapshot
<1>2. /\ DOMAIN f = DOMAIN s /\ f.engine = s.engine
      /\ f.window = [w EXCEPT !.on = FALSE]
      /\ f.tip = [t EXCEPT !.snapshot = none, !.offset = 0]
      /\ f.past = [q EXCEPT !.stale = FALSE, !.since = 0]
  BY DEF Typed, ForgetSnapshot, Hide
<1>3. t \in TipType /\ q \in PastType /\ w \in WindowType /\ 0 \in Nat
  BY TypedParts
<1>4. none \in Snapshot
  BY EmptyIs
<1>5. none = EmptySnapshot
  OBVIOUS
<1> HIDE DEF f, t, q, w, none
<1>6. f.window \in WindowType /\ f.window.on = FALSE /\ f.window.snapshot = w.snapshot
  BY <1>2, <1>3 DEF WindowType
<1>7. f.tip \in TipType
  BY <1>2, <1>3, <1>4 DEF TipType
<1>8. /\ f.tip.session = t.session /\ f.tip.snapshot = none /\ f.tip.chinese = t.chinese
      /\ f.tip.switchDown = t.switchDown /\ f.tip.switchUsed = t.switchUsed
      /\ f.tip.settings = t.settings /\ f.tip.privacy = t.privacy
  BY <1>2, <1>3 DEF TipType
<1>9. f.past \in PastType
  BY <1>2, <1>3 DEF PastType
<1>10. /\ f.past.stale = FALSE /\ f.past.since = 0 /\ f.past.old = q.old
       /\ f.past.lost = q.lost /\ f.past.orphans = q.orphans
       /\ f.past.clean = q.clean
       /\ f.past.resized = q.resized
  BY <1>2, <1>3 DEF PastType
<1>11. Typed(f)
  BY <1>2, <1>6, <1>7, <1>9 DEF Typed
<1>12. Forgets(s, f)
  BY <1>2, <1>5, <1>6, <1>8, <1>10 DEF Forgets, t, q, w
<1> QED
  BY <1>8, <1>11, <1>12 DEF f, t

LEMMA LeavingIs ==
  ASSUME NEW s, Base(s), Agrees(s), NEW f, Typed(f), Forgets(s, f), NEW old \in BOOLEAN,
         Live(s) /\ Input(s.engine) => s.past.old \/ old
  PROVE  LET u == Leaving(f, old)
         IN  /\ Good(u) /\ u.tip = f.tip /\ Same(f, u)
<1> DEFINE u == Leaving(f, old)
           b == (f.past.old \/ old) /\ f.engine # NoEngine /\ HasInput(f.engine)
<1>1. /\ DOMAIN u = DOMAIN f /\ u.engine = f.engine /\ u.window = f.window /\ u.tip = f.tip
      /\ u.past = [f.past EXCEPT !.old = b]
  <2>1. f.past.old \in BOOLEAN
    BY TypedParts
  <2> QED
    BY <2>1 DEF Typed, Leaving, PastType
<1>2. Live(s) => HasInput(s.engine) = Input(s.engine)
  BY SnapshotIs DEF Base, Sound
<1>3. b \in BOOLEAN
  <2>1. HasInput(s.engine) \in BOOLEAN \/ ~Live(s)
    BY SnapshotIs, SoundIs DEF Base, Sound, HasInput, Readable, Snapshot
  <2>2. ~Live(s) => s.engine = NoEngine
    BY DEF Base
  <2>3. f.past.old \in BOOLEAN /\ f.engine = s.engine
    BY TypedParts DEF Forgets
  <2> QED
    BY <2>1, <2>2, <2>3
<1>4. b <=> (s.past.old \/ old) /\ Live(s) /\ Input(s.engine)
  BY <1>2 DEF Base, Forgets
<1> HIDE DEF u, b
<1>5. f.past \in PastType
  BY TypedParts
<1>6. u.past \in PastType
  BY <1>1, <1>3, <1>5 DEF PastType
<1>7. /\ u.past.stale = f.past.stale /\ u.past.old = b /\ u.past.since = f.past.since
      /\ u.past.lost = f.past.lost /\ u.past.orphans = f.past.orphans
      /\ u.past.clean = f.past.clean
      /\ u.past.resized = f.past.resized
  BY <1>1, <1>5 DEF PastType
<1>8. Typed(u)
  BY <1>1, <1>6 DEF Typed
<1>9. Base(u)
  <2>1. Live(u) <=> Live(s)
    BY <1>1 DEF Forgets, Live
  <2>2. /\ u.engine = s.engine /\ u.window.snapshot = s.window.snapshot /\ ~u.past.stale
        /\ u.tip.snapshot = EmptySnapshot /\ u.past.orphans = s.past.orphans
        /\ u.past.lost = s.past.lost
    BY <1>1, <1>7 DEF Forgets
  <2> QED
    BY <1>8, <2>1, <2>2, EmptyIs DEF Base
<1>10. Belief(u)
  <2> SUFFICES ASSUME Live(u) PROVE Minded(u) /\ Informed(u)
    BY DEF Belief
  <2>1. Live(s) /\ u.engine = s.engine
    BY <1>1 DEF Live, Forgets
  <2>2. ~u.tip.snapshot.preedit
    BY <1>1, EmptyIs DEF Forgets
  <2>3. u.past.old <=> Input(s.engine)
    BY <1>4, <1>7, <2>1
  <2>4. ~u.past.old => s.engine.letters = 0
    BY <2>1, <2>3, SnapshotIs DEF Base, Sound
  <2>5. ~u.past.old => u.engine.letters <= u.past.since
    <3>1. 0 <= 0 /\ u.past.since = 0
      BY <1>7 DEF Forgets
    <3> QED
      BY <2>1, <2>4, <3>1
  <2>6. Minded(u)
    BY <2>1, <2>2, <2>3, <2>5 DEF Minded
  <2>7. Informed(u)
    BY <2>2 DEF Informed
  <2> QED
    BY <2>6, <2>7
<1>11. Windowed(u)
  BY <1>1 DEF Windowed, Forgets
<1>12. Agrees(u)
  BY <1>1, <1>7 DEF Agrees, Live, Forgets
<1>13. Same(f, u)
  BY <1>1, <1>7 DEF Same
<1> QED
  BY <1>1, <1>9, <1>10, <1>11, <1>12, <1>13 DEF Good, u

LEMMA ResetCompositionStateIs ==
  ASSUME NEW s, Good(s), NEW u \in ResetCompositionState(s)
  PROVE  /\ Good(u) /\ Same(s, u) /\ u.tip.session = s.tip.session
         /\ u.tip.privacy = s.tip.privacy /\ ~u.tip.snapshot.preedit
<1> DEFINE asked == s.tip.snapshot.preedit /\ s.tip.session # "none"
<1>1. PICK v \in (IF asked THEN Sent(s, "reset", 0) ELSE {s}) :
        u = Leaving(ForgetSnapshot(v), v.past.lost > s.past.lost)
  BY DEF ResetCompositionState
<1>2. Base(s) /\ Belief(s) /\ Agrees(s)
  BY DEF Good
<1> DEFINE b == v.past.lost > s.past.lost
<1>3. /\ Base(v) /\ Agrees(v) /\ Same(s, v) /\ v.tip = s.tip
      /\ Live(v) /\ Input(v.engine) => v.past.old \/ b
  <2>1. CASE ~asked
    <3>1. v = s
      BY <1>1, <2>1
    <3>2. Live(s) => ~s.tip.snapshot.preedit
      BY <2>1 DEF Live
    <3>3. Live(s) /\ Input(s.engine) => s.past.old
      BY <1>2, <3>2 DEF Belief, Minded
    <3> QED
      BY <1>2, <3>1, <3>3 DEF Same
  <2>2. CASE asked
    <3>1. PICK o \in Exchange(s, "reset", 0) : v = o.s
      BY <1>1, <2>2 DEF Sent
    <3> DEFINE c == "reset"
    <3>2. Fitting(c, 0) /\ c # "pageSize" /\ c = "reset" /\ o \in Exchange(s, c, 0)
      BY <3>1 DEF Fitting, Commands, Options
    <3> HIDE DEF c
    <3>3. Base(v) /\ Kept(s, v) /\ Answered(s, c, 0, o) /\ Agrees(v)
      BY <1>2, <3>1, <3>2, ExchangeIs, ExchangeAgrees
    <3>4. v.tip = s.tip /\ Same(s, v)
      BY <3>3 DEF Kept
    <3>5. ASSUME Live(v), Input(v.engine) PROVE b
      <4>1. Live(s)
        BY <3>4, <3>5 DEF Live
      <4>2. ~Reached(s, c, 0, v)
        <5> DEFINE a == Handle(s.engine, c, 0)
        <5>1. Served(s.engine, c, a)
          BY <1>2, <3>2, <4>1, HandleServed DEF Base
        <5>2. ~Input(a.engine)
          BY <3>2, <5>1 DEF Served
        <5> QED
          BY <3>5, <5>2 DEF Reached
      <4> QED
        BY <3>1, <3>3, <4>1, <4>2 DEF Answered
    <3> QED
      BY <3>3, <3>4, <3>5
  <2> QED
    BY <2>1, <2>2
<1>4. b \in BOOLEAN
  OBVIOUS
<1>5. u = Leaving(ForgetSnapshot(v), b)
  BY <1>1
<1> HIDE DEF b
<1> DEFINE f == ForgetSnapshot(v)
<1>6. Typed(f) /\ Forgets(v, f) /\ f.tip.chinese = v.tip.chinese
  BY <1>3, ForgetSnapshotIs DEF Base
<1> HIDE DEF f
<1>7. u = Leaving(f, b)
  BY <1>5 DEF f
<1>8. Good(u) /\ u.tip = f.tip /\ Same(f, u)
  BY <1>3, <1>4, <1>6, <1>7, LeavingIs
<1>9. Same(s, u) /\ u.tip.session = s.tip.session /\ u.tip.privacy = s.tip.privacy
  BY <1>3, <1>6, <1>8 DEF Same, Forgets
<1>10. ~u.tip.snapshot.preedit
  BY <1>6, <1>8, EmptyIs DEF Forgets
<1> QED
  BY <1>8, <1>9, <1>10

LEMMA SynchronizeInputModeIs ==
  ASSUME NEW s, Good(s)
  PROVE  LET u == SynchronizeInputMode(s)
         IN  /\ Good(u)
             /\ u.tip.switchDown = s.tip.switchDown /\ u.tip.switchUsed = s.tip.switchUsed
             /\ u.past.clean = s.past.clean
<1> DEFINE f == ForgetSnapshot(s)
           c == ~f.tip.chinese
           g == [f EXCEPT !.tip.chinese = c]
           t == f.tip
           u == Leaving(g, TRUE)
<1>1. Base(s) /\ Agrees(s) /\ Typed(s)
  BY DEF Good, Base
<1>2. Typed(f) /\ Forgets(s, f)
  BY <1>1, ForgetSnapshotIs
<1>3. SynchronizeInputMode(s) = u
  BY <1>2 DEF SynchronizeInputMode, Typed, TipType
<1> HIDE DEF f
<1>4. c \in BOOLEAN /\ t \in TipType
  BY <1>2, TypedParts
<1>5. /\ DOMAIN g = DOMAIN f /\ g.engine = f.engine /\ g.window = f.window
      /\ g.tip = [t EXCEPT !.chinese = c] /\ g.past = f.past
  BY <1>2 DEF Typed
<1> HIDE DEF g, c, t
<1>6. g.tip \in TipType
  BY <1>4, <1>5 DEF TipType
<1>7. /\ g.tip.session = t.session /\ g.tip.snapshot = t.snapshot
      /\ g.tip.switchDown = t.switchDown /\ g.tip.switchUsed = t.switchUsed
      /\ g.tip.settings = t.settings /\ g.tip.privacy = t.privacy
  BY <1>4, <1>5 DEF TipType
<1>8. Typed(g)
  BY <1>2, <1>5, <1>6 DEF Typed
<1>9. Forgets(s, g)
  BY <1>2, <1>5, <1>7 DEF Forgets, t
<1>11. TRUE \in BOOLEAN
  OBVIOUS
<1>10. Good(u) /\ u.tip = g.tip /\ Same(g, u)
  BY <1>1, <1>8, <1>9, <1>11, LeavingIs
<1> HIDE DEF u
<1>12. /\ u.tip.switchDown = s.tip.switchDown /\ u.tip.switchUsed = s.tip.switchUsed
       /\ u.past.clean = s.past.clean
  BY <1>9, <1>10 DEF Same, Forgets
<1> QED
  BY <1>3, <1>10, <1>12

-----------------------------------------------------------------------------
(* Steps that leave the composition as it is.                              *)
Mild(s, u) ==
  /\ u.engine = s.engine /\ u.window = s.window
  /\ u.tip.session = s.tip.session /\ u.tip.snapshot = s.tip.snapshot
  /\ u.tip.offset = s.tip.offset /\ u.tip.settings = s.tip.settings
  /\ u.past.stale = s.past.stale /\ u.past.old = s.past.old
  /\ u.past.resized = s.past.resized /\ u.past.since = s.past.since
  /\ u.past.lost = s.past.lost /\ u.past.orphans = s.past.orphans

LEMMA MildIs ==
  ASSUME NEW s, NEW u, Typed(u), Mild(s, u)
  PROVE  (Base(s) => Base(u)) /\ (Good(s) => Good(u))
<1>1. Live(u) <=> Live(s)
  BY DEF Live, Mild
<1>2. Base(s) => Base(u)
  BY <1>1 DEF Base, Mild
<1>3. Belief(s) => Belief(u)
  <2>1. Minded(s) => Minded(u)
    BY DEF Minded, Mild
  <2>2. Informed(s) => Informed(u)
    BY DEF Informed, Mild
  <2> QED
    BY <1>1, <2>1, <2>2 DEF Belief
<1>4. Windowed(s) => Windowed(u)
  BY DEF Windowed, Mirrors, Mild
<1>5. Agrees(s) => Agrees(u)
  BY <1>1 DEF Agrees, Mild
<1> QED
  BY <1>2, <1>3, <1>4, <1>5 DEF Good

(* What is remembered of the switch key. *)
Held(s, u) ==
  /\ u.tip.switchDown = s.tip.switchDown /\ u.tip.switchUsed = s.tip.switchUsed
  /\ u.past.clean = s.past.clean

(* A change of the text service's record alone, and of the remembered one alone. *)
LEMMA TipOnly ==
  ASSUME NEW s, Typed(s), NEW u, DOMAIN u = DOMAIN s, u.engine = s.engine,
         u.window = s.window, u.past = s.past, u.tip \in TipType,
         u.tip.session = s.tip.session, u.tip.snapshot = s.tip.snapshot,
         u.tip.offset = s.tip.offset, u.tip.settings = s.tip.settings
  PROVE  Typed(u) /\ (Base(s) => Base(u)) /\ (Good(s) => Good(u))
<1>1. Typed(u)
  BY DEF Typed
<1>2. Mild(s, u)
  BY DEF Mild
<1> QED
  BY <1>1, <1>2, MildIs

LEMMA PastOnly ==
  ASSUME NEW s, Typed(s), NEW u, DOMAIN u = DOMAIN s, u.engine = s.engine,
         u.window = s.window, u.tip = s.tip, u.past \in PastType,
         u.past.stale = s.past.stale, u.past.old = s.past.old,
         u.past.resized = s.past.resized, u.past.since = s.past.since,
         u.past.lost = s.past.lost, u.past.orphans = s.past.orphans
  PROVE  Typed(u) /\ (Base(s) => Base(u)) /\ (Good(s) => Good(u))
<1>1. Typed(u)
  BY DEF Typed
<1>2. Mild(s, u)
  BY DEF Mild
<1> QED
  BY <1>1, <1>2, MildIs

LEMMA ChineseIs ==
  ASSUME NEW s, Good(s), NEW c \in BOOLEAN
  PROVE  LET u == [s EXCEPT !.tip.chinese = c]
         IN  Good(u) /\ Held(s, u) /\ u.tip.chinese = c
<1> DEFINE u == [s EXCEPT !.tip.chinese = c]
           t == s.tip
<1>1. Typed(s)
  BY DEF Good, Base
<1>2. /\ DOMAIN u = DOMAIN s /\ u.engine = s.engine /\ u.window = s.window
      /\ u.past = s.past /\ u.tip = [t EXCEPT !.chinese = c]
  BY <1>1 DEF Typed
<1>3. t \in TipType
  BY <1>1, TypedParts
<1> HIDE DEF u, t
<1>4. u.tip \in TipType
  BY <1>2, <1>3 DEF TipType
<1>5. /\ u.tip.session = t.session /\ u.tip.snapshot = t.snapshot /\ u.tip.offset = t.offset
      /\ u.tip.settings = t.settings /\ u.tip.chinese = c
      /\ u.tip.switchDown = t.switchDown /\ u.tip.switchUsed = t.switchUsed
  BY <1>2, <1>3 DEF TipType
<1>6. Good(u)
  BY <1>1, <1>2, <1>4, <1>5, TipOnly DEF t
<1>7. Held(s, u)
  BY <1>2, <1>5 DEF Held, t
<1> QED
  BY <1>5, <1>6, <1>7 DEF u

LEMMA SwitchForgottenIs ==
  ASSUME NEW s, Typed(s)
  PROVE  LET u == SwitchForgotten(s)
         IN  /\ Typed(u) /\ (Base(s) => Base(u)) /\ (Good(s) => Good(u))
             /\ u.tip.switchDown = FALSE /\ u.tip.switchUsed = FALSE
             /\ u.tip.chinese = s.tip.chinese /\ u.tip.privacy = s.tip.privacy
             /\ u.past = s.past
<1> DEFINE u == SwitchForgotten(s)
           t == s.tip
<1>2. /\ DOMAIN u = DOMAIN s /\ u.engine = s.engine /\ u.window = s.window
      /\ u.past = s.past /\ u.tip = [t EXCEPT !.switchDown = FALSE, !.switchUsed = FALSE]
  BY DEF Typed, SwitchForgotten
<1>3. t \in TipType
  BY TypedParts
<1> HIDE DEF u, t
<1>4. u.tip \in TipType
  BY <1>2, <1>3 DEF TipType
<1>5. /\ u.tip.session = t.session /\ u.tip.snapshot = t.snapshot /\ u.tip.offset = t.offset
      /\ u.tip.settings = t.settings /\ u.tip.chinese = t.chinese /\ u.tip.privacy = t.privacy
      /\ u.tip.switchDown = FALSE /\ u.tip.switchUsed = FALSE
  BY <1>2, <1>3 DEF TipType
<1>6. Typed(u) /\ (Base(s) => Base(u)) /\ (Good(s) => Good(u))
  BY <1>2, <1>4, <1>5, TipOnly DEF t
<1> QED
  BY <1>2, <1>5, <1>6 DEF u, t

LEMMA UsedIs ==
  ASSUME NEW s, Good(s)
  PROVE  LET u == Used(s)
         IN  /\ Good(u) /\ ~(u.tip.switchDown /\ ~u.tip.switchUsed)
             /\ u.tip.chinese = s.tip.chinese /\ u.past = s.past
<1> DEFINE u == Used(s)
           t == s.tip
           b == t.switchUsed \/ t.switchDown
<1>1. Typed(s)
  BY DEF Good, Base
<1>2. /\ DOMAIN u = DOMAIN s /\ u.engine = s.engine /\ u.window = s.window
      /\ u.past = s.past /\ u.tip = [t EXCEPT !.switchUsed = b]
  BY <1>1 DEF Typed, Used, TipType
<1>3. t \in TipType /\ b \in BOOLEAN
  BY <1>1, TypedParts
<1>9. t.switchDown => b
  OBVIOUS
<1> HIDE DEF u, t, b
<1>4. u.tip \in TipType
  BY <1>2, <1>3 DEF TipType
<1>5. /\ u.tip.session = t.session /\ u.tip.snapshot = t.snapshot /\ u.tip.offset = t.offset
      /\ u.tip.settings = t.settings /\ u.tip.chinese = t.chinese
      /\ u.tip.switchDown = t.switchDown /\ u.tip.switchUsed = b
  BY <1>2, <1>3 DEF TipType
<1>6. Good(u)
  BY <1>1, <1>2, <1>4, <1>5, TipOnly DEF t
<1>7. ~(u.tip.switchDown /\ ~u.tip.switchUsed)
  BY <1>5, <1>9
<1> QED
  BY <1>2, <1>5, <1>6, <1>7 DEF u, t

LEMMA PrivacyIs ==
  ASSUME NEW s, Good(s), NEW p \in Privacy
  PROVE  LET u == [s EXCEPT !.tip.privacy = p]
         IN  Good(u) /\ Same(s, u) /\ u.tip.privacy = p
<1> DEFINE u == [s EXCEPT !.tip.privacy = p]
           t == s.tip
<1>1. Typed(s)
  BY DEF Good, Base
<1>2. /\ DOMAIN u = DOMAIN s /\ u.engine = s.engine /\ u.window = s.window
      /\ u.past = s.past /\ u.tip = [t EXCEPT !.privacy = p]
  BY <1>1 DEF Typed
<1>3. t \in TipType
  BY <1>1, TypedParts
<1> HIDE DEF u, t
<1>4. u.tip \in TipType
  BY <1>2, <1>3 DEF TipType
<1>5. /\ u.tip.session = t.session /\ u.tip.snapshot = t.snapshot /\ u.tip.offset = t.offset
      /\ u.tip.settings = t.settings /\ u.tip.chinese = t.chinese /\ u.tip.privacy = p
      /\ u.tip.switchDown = t.switchDown /\ u.tip.switchUsed = t.switchUsed
  BY <1>2, <1>3 DEF TipType
<1>6. Good(u)
  BY <1>1, <1>2, <1>4, <1>5, TipOnly DEF t
<1>7. Same(s, u)
  BY <1>2, <1>5 DEF Same, t
<1> QED
  BY <1>5, <1>6, <1>7 DEF u

LEMMA DeniedIs ==
  ASSUME NEW s, Base(s), MayFail(s)
  PROVE  LET u == Denied(s)
         IN  Base(u) /\ (Good(s) => Good(u)) /\ Same(s, u) /\ u.tip = s.tip
<1> DEFINE u == Denied(s)
           q == s.past
           n == q.events + 1
<1>1. Typed(s)
  BY DEF Base
<1>2. /\ DOMAIN u = DOMAIN s /\ u.engine = s.engine /\ u.window = s.window
      /\ u.tip = s.tip /\ u.past = [q EXCEPT !.events = n]
  BY <1>1 DEF Typed, Denied
<1>3. q \in PastType /\ q.events \in 0 .. MaxEvents
  BY <1>1, TypedParts
<1>4. n \in 0 .. MaxEvents
  BY <1>3, Lawful DEF MayFail
<1> HIDE DEF u, q, n
<1>5. u.past \in PastType
  BY <1>2, <1>3, <1>4 DEF PastType
<1>6. /\ u.past.stale = q.stale /\ u.past.old = q.old /\ u.past.since = q.since
      /\ u.past.lost = q.lost /\ u.past.orphans = q.orphans
      /\ u.past.clean = q.clean
      /\ u.past.resized = q.resized
  BY <1>2, <1>3 DEF PastType
<1>7. Typed(u) /\ (Base(s) => Base(u)) /\ (Good(s) => Good(u))
  BY <1>1, <1>2, <1>5, <1>6, PastOnly DEF q
<1>8. Same(s, u)
  BY <1>2, <1>6 DEF Same, q
<1> QED
  BY <1>2, <1>7, <1>8 DEF u

LEMMA CountingIs ==
  ASSUME NEW s, Good(s), MayFail(s)
  PROVE  Good(Counting(s)) /\ Same(s, Counting(s))
<1>1. Counting(s) = Denied(s)
  BY DEF Counting, Denied
<1>2. Base(s)
  BY DEF Good
<1> QED
  BY <1>1, <1>2, DeniedIs

LEMMA PressedIs ==
  ASSUME NEW s, Good(s), s.past.typed < MaxSteps
  PROVE  LET u == Pressed(s)
         IN  Good(u) /\ u.tip = s.tip
<1> DEFINE u == Pressed(s)
           q == s.past
           n == q.typed + 1
<1>1. Typed(s)
  BY DEF Good, Base
<1>2. /\ DOMAIN u = DOMAIN s /\ u.engine = s.engine /\ u.window = s.window
      /\ u.tip = s.tip /\ u.past = [q EXCEPT !.clean = FALSE, !.typed = n]
  BY <1>1 DEF Typed, Pressed, Between
<1>3. q \in PastType /\ q.typed \in 0 .. MaxSteps
  BY <1>1, TypedParts
<1>4. n \in 0 .. MaxSteps
  BY <1>3, Lawful
<1> HIDE DEF u, q, n
<1>5. u.past \in PastType
  BY <1>2, <1>3, <1>4 DEF PastType
<1>6. /\ u.past.stale = q.stale /\ u.past.old = q.old /\ u.past.since = q.since
      /\ u.past.lost = q.lost /\ u.past.orphans = q.orphans
      /\ u.past.resized = q.resized
  BY <1>2, <1>3 DEF PastType
<1>7. Good(u)
  BY <1>1, <1>2, <1>5, <1>6, PastOnly DEF q
<1> QED
  BY <1>2, <1>6, <1>7 DEF u, q

LEMMA BetweenIs ==
  ASSUME NEW s, Good(s)
  PROVE  LET u == Between(s)
         IN  /\ Good(u) /\ u.tip = s.tip /\ u.past.events = s.past.events
<1> DEFINE u == Between(s)
           q == s.past
<1>1. Typed(s)
  BY DEF Good, Base
<1>2. /\ DOMAIN u = DOMAIN s /\ u.engine = s.engine /\ u.window = s.window
      /\ u.tip = s.tip /\ u.past = [q EXCEPT !.clean = FALSE]
  BY <1>1 DEF Typed, Between
<1>3. q \in PastType
  BY <1>1, TypedParts
<1> HIDE DEF u, q
<1>5. u.past \in PastType
  BY <1>2, <1>3 DEF PastType
<1>6. /\ u.past.stale = q.stale /\ u.past.old = q.old /\ u.past.since = q.since
      /\ u.past.lost = q.lost /\ u.past.orphans = q.orphans
      /\ u.past.resized = q.resized /\ u.past.events = q.events
  BY <1>2, <1>3 DEF PastType
<1>7. Good(u)
  BY <1>1, <1>2, <1>5, <1>6, PastOnly DEF q
<1> QED
  BY <1>2, <1>6, <1>7 DEF u, q

(* The switch key goes down. *)
LEMMA SwitchPressedIs ==
  ASSUME NEW s, Good(s), s.past.typed < MaxSteps
  PROVE  LET u == SwitchPressed(s)
         IN  Good(u) /\ u.tip = s.tip /\ u.past.clean = TRUE
<1> DEFINE u == SwitchPressed(s)
           q == s.past
           n == q.typed + 1
<1>1. Typed(s)
  BY DEF Good, Base
<1>2. /\ DOMAIN u = DOMAIN s /\ u.engine = s.engine /\ u.window = s.window
      /\ u.tip = s.tip /\ u.past = [q EXCEPT !.clean = TRUE, !.typed = n]
  BY <1>1 DEF Typed, SwitchPressed
<1>3. q \in PastType /\ q.typed \in 0 .. MaxSteps
  BY <1>1, TypedParts
<1>4. n \in 0 .. MaxSteps
  BY <1>3, Lawful
<1> HIDE DEF u, q, n
<1>5. u.past \in PastType
  BY <1>2, <1>3, <1>4 DEF PastType
<1>6. /\ u.past.stale = q.stale /\ u.past.old = q.old /\ u.past.since = q.since
      /\ u.past.lost = q.lost /\ u.past.orphans = q.orphans
      /\ u.past.clean = TRUE /\ u.past.resized = q.resized
  BY <1>2, <1>3 DEF PastType
<1>7. Good(u)
  BY <1>1, <1>2, <1>5, <1>6, PastOnly DEF q
<1> QED
  BY <1>2, <1>6, <1>7 DEF u, q

LEMMA SwitchDownIs ==
  ASSUME NEW s, Good(s)
  PROVE  LET u == SwitchDown(s)
         IN  Good(u) /\ u.tip.chinese = s.tip.chinese /\ u.past = s.past
<1> DEFINE u == SwitchDown(s)
           t == s.tip
<1>1. Typed(s)
  BY DEF Good, Base
<1>2. /\ DOMAIN u = DOMAIN s /\ u.engine = s.engine /\ u.window = s.window
      /\ u.tip = [t EXCEPT !.switchDown = TRUE, !.switchUsed = FALSE]
      /\ u.past = s.past
  BY <1>1 DEF Typed, SwitchDown
<1>3. t \in TipType
  BY <1>1, TypedParts
<1> HIDE DEF u, t
<1>4. u.tip \in TipType
  BY <1>2, <1>3 DEF TipType
<1>5. /\ u.tip.session = t.session /\ u.tip.snapshot = t.snapshot /\ u.tip.offset = t.offset
      /\ u.tip.settings = t.settings /\ u.tip.chinese = t.chinese
  BY <1>2, <1>3 DEF TipType
<1>6. Good(u)
  BY <1>1, <1>2, <1>4, <1>5, TipOnly DEF t
<1> QED
  BY <1>2, <1>5, <1>6 DEF u, t

(* There is room for one letter more. *)
Roomy(s) ==
  Live(s) /\ ~s.past.old => s.engine.letters + 1 <= s.past.since \/ MaxLetters <= s.past.since

LEMMA CountedIs ==
  ASSUME NEW s, Good(s), NEW key
  PROVE  LET u == Counted(s, key)
         IN  /\ Good(u) /\ Same(s, u) /\ u.tip = s.tip
             /\ key.kind = "letter" => Roomy(u)
<1> DEFINE u == Counted(s, key)
           q == s.past
           n == Smaller(q.since + 1, MaxLetters)
<1>1. CASE key.kind # "letter"
  BY <1>1 DEF Counted, Same
<1>2. CASE key.kind = "letter"
  <2>1. Typed(s) /\ Base(s)
    BY DEF Good, Base
  <2>2. /\ DOMAIN u = DOMAIN s /\ u.engine = s.engine /\ u.window = s.window
        /\ u.tip = s.tip /\ u.past = [q EXCEPT !.since = n]
    BY <1>2, <2>1 DEF Typed, Counted
  <2>3. q \in PastType /\ q.since \in Nat
    BY <2>1, TypedParts
  <2>4. /\ n \in Nat /\ n <= MaxLetters /\ n <= q.since + 1
        /\ n = MaxLetters \/ n = q.since + 1
    BY <2>3, Limits DEF Smaller
  <2>5. q.since = s.past.since
    OBVIOUS
  <2> HIDE DEF u, q, n
  <2>6. u.past \in PastType
    BY <2>2, <2>3, <2>4 DEF PastType
  <2>7. /\ u.past.stale = q.stale /\ u.past.old = q.old /\ u.past.since = n
        /\ u.past.lost = q.lost /\ u.past.orphans = q.orphans
        /\ u.past.clean = q.clean
        /\ u.past.resized = q.resized
    BY <2>2, <2>3 DEF PastType
  <2>8. Typed(u)
    BY <2>1, <2>2, <2>6 DEF Typed
  <2>9. Live(u) <=> Live(s)
    BY <2>2 DEF Live
  <2>10. Base(u)
    BY <2>1, <2>2, <2>7, <2>8, <2>9 DEF Base, q
  <2>11. ASSUME Live(s), ~s.past.old
         PROVE  /\ s.engine.letters <= n
                /\ s.engine.letters + 1 <= n \/ MaxLetters <= n
    <3>1. s.engine.letters \in Nat /\ s.engine.letters <= MaxLetters
      BY <2>1, <2>11, SoundIs DEF Base
    <3>2. s.engine.letters <= q.since
      BY <2>5, <2>11 DEF Good, Belief, Minded
    <3> QED
      BY <2>3, <2>4, <3>1, <3>2, Limits
  <2>12. Belief(u)
    <3>1. Live(s) /\ Minded(s) => Minded(u)
      BY <2>2, <2>7, <2>11 DEF Minded, q
    <3>2. Informed(s) => Informed(u)
      BY <2>2, <2>7 DEF Informed, q
    <3> QED
      BY <2>9, <3>1, <3>2 DEF Good, Belief
  <2>13. Windowed(u) /\ Agrees(u)
    BY <2>2, <2>7, <2>9 DEF Good, Windowed, Mirrors, Agrees, q
  <2>14. Same(s, u)
    BY <2>2, <2>7 DEF Same, q
  <2>15. Roomy(u)
    BY <2>2, <2>7, <2>9, <2>11 DEF Roomy, q
  <2> QED
    BY <2>2, <2>10, <2>12, <2>13, <2>14, <2>15 DEF Good, u
<1> QED
  BY <1>1, <1>2

-----------------------------------------------------------------------------
(* A snapshot is stored and shown.                                         *)
LEMMA SliceNat ==
  ASSUME NEW total \in Nat, NEW size \in Nat \ {0}, NEW requested \in Nat
  PROVE  Slice(total, size, requested).offset \in Nat
<1> DEFINE a == (requested \div size) * size
           b == ((total - 1) \div size) * size
<1>1. CASE total = 0
  BY <1>1 DEF Slice, NoSlice
<1>2. CASE total # 0
  <2>1. total - 1 \in Nat
    BY <1>2
  <2>2. requested \div size \in Nat /\ (total - 1) \div size \in Nat
    BY <2>1
  <2>3. a \in Nat /\ b \in Nat
    BY <2>2
  <2>4. Slice(total, size, requested).offset = Smaller(a, b)
    BY <1>2 DEF Slice
  <2> QED
    BY <2>3, <2>4 DEF Smaller
<1> QED
  BY <1>1, <1>2

LEMMA StoredIs ==
  ASSUME NEW s, Base(s), Live(s), Agrees(s), s.past.old => Input(s.engine),
         ~s.past.old => s.engine.letters <= s.past.since,
         NEW x, x = SnapshotOf(s.engine)
  PROVE  LET v == Stored(s, x)
         IN  Base(v) /\ Belief(v) /\ Agrees(v) /\ ~v.past.stale /\ Same(s, v)
<1> DEFINE v == Stored(s, x)
           t == s.tip
           q == s.past
           n == IF x.preedit THEN q.since ELSE 0
<1>1. Typed(s) /\ Keeps(s.engine)
  BY DEF Base, Sound
<1>2. /\ DOMAIN v = DOMAIN s /\ v.engine = s.engine /\ v.window = s.window
      /\ v.tip = [t EXCEPT !.snapshot = x]
      /\ v.past = [q EXCEPT !.stale = FALSE, !.since = n]
  BY <1>1 DEF Typed, Stored, PastType
<1>3. t \in TipType /\ q \in PastType /\ q.since \in Nat
  BY <1>1, TypedParts
<1>4. /\ Readable(x) /\ x.preedit = Input(s.engine)
      /\ ~Input(s.engine) => x = EmptySnapshot /\ s.engine.letters = 0
  BY <1>1, SnapshotIs
<1>5. n \in Nat
  BY <1>3
<1>6. (x.preedit => n = s.past.since) /\ (~x.preedit => n = 0)
  OBVIOUS
<1>7. x \in Snapshot
  BY <1>4 DEF Readable
<1> HIDE DEF v, t, q, n
<1>8. v.tip \in TipType
  BY <1>2, <1>3, <1>7 DEF TipType
<1>9. v.past \in PastType
  BY <1>2, <1>3, <1>5 DEF PastType
<1>10. /\ v.tip.session = t.session /\ v.tip.snapshot = x /\ v.tip.offset = t.offset
       /\ v.tip.settings = t.settings /\ v.tip.chinese = t.chinese
       /\ v.tip.switchDown = t.switchDown /\ v.tip.switchUsed = t.switchUsed
  BY <1>2, <1>3 DEF TipType
<1>11. /\ v.past.stale = FALSE /\ v.past.old = q.old /\ v.past.since = n
       /\ v.past.lost = q.lost /\ v.past.orphans = q.orphans
       /\ v.past.clean = q.clean
       /\ v.past.resized = q.resized
  BY <1>2, <1>3 DEF PastType
<1>12. Typed(v)
  BY <1>1, <1>2, <1>8, <1>9 DEF Typed
<1>13. Live(v)
  BY <1>10 DEF Live, t
<1>14. Base(v)
  BY <1>2, <1>4, <1>10, <1>11, <1>12, <1>13 DEF Base, Live, q
<1>15. Minded(v)
  <2>1. v.past.old => Input(v.engine)
    BY <1>2, <1>11 DEF q
  <2>2. v.tip.snapshot.preedit <=> Input(v.engine)
    BY <1>2, <1>4, <1>10
  <2>3. ~v.past.old => v.engine.letters <= v.past.since
    <3>1. CASE Input(s.engine)
      BY <1>2, <1>4, <1>6, <1>11, <3>1 DEF q
    <3>2. CASE ~Input(s.engine)
      <4>1. 0 <= 0
        OBVIOUS
      <4> QED
        BY <1>2, <1>4, <1>6, <1>11, <3>2, <4>1
    <3> QED
      BY <3>1, <3>2
  <2> QED
    BY <2>1, <2>2, <2>3 DEF Minded
<1>16. Informed(v)
  BY <1>2, <1>10 DEF Informed
<1>17. Agrees(v)
  BY <1>2, <1>10, <1>11, <1>13 DEF Agrees, t, q
<1>18. Same(s, v)
  BY <1>10, <1>11 DEF Same, t, q
<1> QED
  BY <1>11, <1>14, <1>15, <1>16, <1>17, <1>18 DEF Belief, v

LEMMA ShowCandidateWindowIs ==
  ASSUME NEW s, Base(s), Belief(s), Agrees(s), ~s.past.stale
  PROVE  Good(ShowCandidateWindow(s)) /\ Same(s, ShowCandidateWindow(s))
<1> DEFINE u == ShowCandidateWindow(s)
<1>1. Typed(s)
  BY DEF Base
<1>2. CASE ~s.tip.snapshot.preedit
  <2>1. u = Hide(s)
    BY <1>2 DEF ShowCandidateWindow
  <2> HIDE DEF u
  <2>2. /\ u.tip = s.tip /\ u.engine = s.engine /\ u.past = s.past /\ u.window.on = FALSE
        /\ Base(u) /\ Same(s, u)
    BY <1>1, <2>1, HideIs, HideKeeps
  <2>3. Belief(u)
    BY <2>2 DEF Belief, Minded, Informed, Live
  <2>4. Windowed(u)
    BY <2>2 DEF Windowed
  <2>5. Agrees(u)
    BY <2>2 DEF Agrees, Live
  <2> QED
    BY <2>2, <2>3, <2>4, <2>5 DEF Good, u
<1>3. CASE s.tip.snapshot.preedit
  <2> DEFINE t == s.tip
             x == t.snapshot
             size == t.settings.pageSize
             n == Slice(Len(x.candidates), size, x.highlighted).offset
  <2>1. /\ DOMAIN u = DOMAIN s /\ u.engine = s.engine /\ u.past = s.past
        /\ u.tip = [t EXCEPT !.offset = n]
        /\ u.window = [on |-> TRUE, snapshot |-> x, offset |-> n, size |-> size]
    BY <1>1, <1>3 DEF Typed, ShowCandidateWindow
  <2>2. t \in TipType /\ x \in Snapshot /\ t.settings \in Preferences
    BY <1>1, TypedParts
  <2>3. size \in Sizes
    BY <2>2 DEF Preferences
  <2>4. n \in Nat
    <3> DEFINE total == Len(x.candidates)
    <3>1. x.candidates \in Seq(Candidate) /\ x.highlighted \in Nat
      BY <2>2 DEF Snapshot
    <3>2. total \in Nat
      BY <3>1
    <3>5. size \in 1 .. MaxPageSize
      BY <2>3, Lawful
    <3>3. size \in Nat \ {0}
      BY <3>5, Limits
    <3>4. n = Slice(total, size, x.highlighted).offset
      OBVIOUS
    <3> HIDE DEF n, total, size
    <3> QED
      BY <3>1, <3>2, <3>3, <3>4, SliceNat
  <2>5. n = Slice(Len(s.tip.snapshot.candidates), s.tip.settings.pageSize,
                  s.tip.snapshot.highlighted).offset
    OBVIOUS
  <2>6. x = s.tip.snapshot /\ size = t.settings.pageSize
    OBVIOUS
  <2> HIDE DEF u, n, size, x
  <2>7. u.window \in WindowType
    BY <2>1, <2>2, <2>3, <2>4 DEF WindowType
  <2>8. /\ u.window.on = TRUE /\ u.window.snapshot = x /\ u.window.offset = n
        /\ u.window.size = size
    BY <2>1
  <2> HIDE DEF t
  <2>9. u.tip \in TipType
    BY <2>1, <2>2, <2>4 DEF TipType
  <2>10. /\ u.tip.session = t.session /\ u.tip.snapshot = t.snapshot /\ u.tip.offset = n
         /\ u.tip.settings = t.settings /\ u.tip.chinese = t.chinese
         /\ u.tip.switchDown = t.switchDown /\ u.tip.switchUsed = t.switchUsed
    BY <2>1, <2>2 DEF TipType
  <2>11. Typed(u)
    BY <1>1, <2>1, <2>7, <2>9 DEF Typed
  <2>12. Base(u)
    BY <2>1, <2>6, <2>8, <2>10, <2>11 DEF Base, Live, t
  <2>13. Belief(u)
    BY <2>1, <2>10 DEF Belief, Minded, Informed, Live, t
  <2>14. Windowed(u)
    BY <1>3, <2>5, <2>6, <2>8, <2>10 DEF Windowed, Mirrors, t
  <2>15. Agrees(u)
    BY <2>1, <2>10 DEF Agrees, Live, t
  <2>16. Same(s, u)
    BY <2>1, <2>10 DEF Same, t
  <2> QED
    BY <2>12, <2>13, <2>14, <2>15, <2>16 DEF Good, u
<1> QED
  BY <1>2, <1>3

(* The answer of a request that was consumed. *)
LEMMA StoredShown ==
  ASSUME NEW s, Base(s), Live(s), Agrees(s), s.past.old => Input(s.engine),
         ~s.past.old => s.engine.letters <= s.past.since,
         NEW x, x = SnapshotOf(s.engine)
  PROVE  LET u == ShowCandidateWindow(Stored(s, x))
         IN  Good(u) /\ Same(s, u)
<1> DEFINE v == Stored(s, x)
<1>1. Base(v) /\ Belief(v) /\ Agrees(v) /\ ~v.past.stale /\ Same(s, v)
  BY StoredIs
<1> HIDE DEF v
<1>2. Good(ShowCandidateWindow(v)) /\ Same(v, ShowCandidateWindow(v))
  BY <1>1, ShowCandidateWindowIs
<1>3. Same(s, ShowCandidateWindow(v))
  BY <1>1, <1>2 DEF Same
<1> QED
  BY <1>2, <1>3 DEF v

-----------------------------------------------------------------------------
(* The answer of a key.                                                    *)
LEMMA AnsweredOk ==
  ASSUME NEW s, Good(s), NEW command, NEW value, Fitting(command, value),
         command # "pageSize", command = "letter" => Roomy(s),
         NEW o \in Exchange(s, command, value), o.answer.status = "ok"
  PROVE  /\ Base(o.s) /\ Same(s, o.s) /\ Agrees(o.s) /\ Live(o.s)
         /\ o.s.past.old => Input(o.s.engine)
         /\ ~o.s.past.old => o.s.engine.letters <= o.s.past.since
         /\ o.answer.snapshot = SnapshotOf(o.s.engine)
         /\ ~o.answer.consumed => Good(o.s)
<1> DEFINE v == o.s
           a == Handle(s.engine, command, value)
<1>1. Base(s) /\ Belief(s) /\ Windowed(s) /\ Agrees(s)
  BY DEF Good
<1>2. Base(v) /\ Kept(s, v) /\ Answered(s, command, value, o) /\ Agrees(v)
  BY <1>1, ExchangeIs, ExchangeAgrees
<1>3. /\ Live(s) /\ Reached(s, command, value, v) /\ o.answer.consumed = a.consumed
      /\ o.answer.snapshot = SnapshotOf(v.engine)
  BY <1>2 DEF Answered
<1>4. Sound(s.engine)
  BY <1>1, <1>3 DEF Base
<1>5. Served(s.engine, command, a)
  BY <1>4, HandleServed
<1>6. v.engine = a.engine /\ v.past.old = (s.past.old /\ Input(v.engine))
  BY <1>3 DEF Reached
<1>7. /\ v.tip = s.tip /\ v.window = s.window /\ v.past.since = s.past.since
      /\ v.past.stale = s.past.stale /\ v.past.resized = s.past.resized /\ Same(s, v)
  BY <1>2 DEF Kept
<1> HIDE DEF v, a
<1>8. Live(v)
  BY <1>3, <1>7 DEF Live
<1>9. Sound(v.engine)
  BY <1>2, <1>8 DEF Base
<1>10. v.past.old => Input(v.engine)
  BY <1>6
<1>11. ~v.past.old => v.engine.letters <= v.past.since
  <2> SUFFICES ASSUME ~v.past.old PROVE v.engine.letters <= v.past.since
    OBVIOUS
  <2>1. /\ v.engine.letters \in Nat /\ s.engine.letters \in Nat
        /\ v.engine.letters <= MaxLetters
    BY <1>4, <1>9, SoundIs
  <2>2. s.past.since \in Nat /\ s.past.old \in BOOLEAN
    BY <1>1, TypedParts DEF Base
  <2>3. CASE s.past.old
    <3>1. ~Input(v.engine)
      BY <1>6, <2>3
    <3>2. v.engine.letters = 0
      BY <1>9, <3>1, SnapshotIs DEF Sound
    <3> QED
      BY <1>7, <2>2, <3>2
  <2>4. CASE ~s.past.old
    <3>1. s.engine.letters <= s.past.since
      BY <1>1, <1>3, <2>4 DEF Belief, Minded
    <3>2. CASE command = "letter"
      <4>1. s.engine.letters + 1 <= s.past.since \/ MaxLetters <= s.past.since
        BY <1>3, <2>4, <3>2 DEF Roomy
      <4>2. v.engine.letters <= s.engine.letters + 1
        BY <1>5, <1>6, <3>2 DEF Served
      <4> QED
        BY <1>7, <2>1, <2>2, <4>1, <4>2, Limits
    <3>3. CASE command # "letter"
      <4>1. v.engine.letters <= s.engine.letters + 0
        BY <1>5, <1>6, <3>3 DEF Served
      <4> QED
        BY <1>7, <2>1, <2>2, <3>1, <4>1
    <3> QED
      BY <3>2, <3>3
  <2> QED
    BY <2>3, <2>4
<1>12. ASSUME ~a.consumed PROVE Good(v)
  <2>1. v.engine = s.engine
    BY <1>5, <1>6, <1>12 DEF Served
  <2>2. v.past.old <=> s.past.old
    BY <1>1, <1>3, <1>6, <2>1 DEF Belief, Minded
  <2>3. Minded(v)
    BY <1>1, <1>3, <1>7, <1>11, <2>1, <2>2 DEF Belief, Minded
  <2>4. Informed(v)
    BY <1>1, <1>3, <1>7, <2>1 DEF Belief, Informed
  <2>5. Windowed(v)
    BY <1>1, <1>7 DEF Windowed, Mirrors
  <2> QED
    BY <1>2, <2>3, <2>4, <2>5 DEF Good, Belief, v
<1> QED
  BY <1>2, <1>3, <1>7, <1>8, <1>10, <1>11, <1>12 DEF v

LEMMA EditsIs ==
  ASSUME NEW s, Base(s), NEW r \in Edits(s)
  PROVE  /\ Base(r.s) /\ (Good(s) => Good(r.s)) /\ Same(s, r.s)
         /\ ~r.failed => r.s = s
<1>1. \/ r = Result(s, TRUE, FALSE)
      \/ MayFail(s) /\ r = Result(Denied(s), FALSE, TRUE)
  BY DEF Edits
<1>2. CASE r = Result(s, TRUE, FALSE)
  <2>1. r.s = s
    BY <1>2 DEF Result
  <2> QED
    BY <2>1 DEF Same
<1>3. CASE MayFail(s) /\ r = Result(Denied(s), FALSE, TRUE)
  <2>1. r.s = Denied(s) /\ r.failed = TRUE
    BY <1>3 DEF Result
  <2> QED
    BY <1>3, <2>1, DeniedIs
<1> QED
  BY <1>1, <1>2, <1>3

(* What a handler leaves. *)
Leaves(s, r) == Good(r.s) /\ Same(s, r.s)

LEMMA RefusedIs ==
  ASSUME NEW S, NEW r \in Refused(S)
  PROVE  r.s \in S /\ r.eaten = FALSE /\ r.failed = FALSE
<1>1. PICK s \in S : r = Result(s, FALSE, FALSE)
  BY DEF Refused
<1> QED
  BY <1>1 DEF Result

LEMMA AfterAnswerIs ==
  ASSUME NEW s, Good(s), NEW command, NEW value, Fitting(command, value),
         command # "pageSize", command = "letter" => Roomy(s),
         NEW o \in Exchange(s, command, value), NEW r \in AfterAnswer(o)
  PROVE  Leaves(s, r)
<1>1. Base(o.s) /\ Kept(s, o.s)
  BY ExchangeIs DEF Good
<1>2. Same(s, o.s)
  BY <1>1 DEF Kept
<1>3. CASE o.answer.status = "ok" /\ o.answer.consumed
  <2>1. PICK e \in Edits(o.s) :
          r \in IF e.failed THEN Refused(AbandonSession(e.s))
                ELSE {Result(ShowCandidateWindow(Stored(e.s, o.answer.snapshot)), TRUE, FALSE)}
    BY <1>3 DEF AfterAnswer
  <2>2. Base(e.s) /\ Same(o.s, e.s) /\ (~e.failed => e.s = o.s)
    BY <1>1, <2>1, EditsIs
  <2>3. CASE e.failed
    <3>1. r.s \in AbandonSession(e.s)
      BY <2>1, <2>3, RefusedIs
    <3>2. Good(r.s) /\ Same(e.s, r.s)
      BY <2>2, <3>1, AbandonIs
    <3>3. Same(s, r.s)
      BY <1>2, <2>2, <3>2 DEF Same
    <3> QED
      BY <3>2, <3>3 DEF Leaves
  <2>4. CASE ~e.failed
    <3> DEFINE v == o.s
               x == o.answer.snapshot
    <3>1. r = Result(ShowCandidateWindow(Stored(v, x)), TRUE, FALSE)
      BY <2>1, <2>2, <2>4
    <3>2. r.s = ShowCandidateWindow(Stored(v, x))
      BY <3>1 DEF Result
    <3>3. /\ Base(v) /\ Same(s, v) /\ Agrees(v) /\ Live(v)
          /\ v.past.old => Input(v.engine)
          /\ ~v.past.old => v.engine.letters <= v.past.since
          /\ x = SnapshotOf(v.engine)
      BY <1>3, AnsweredOk
    <3> HIDE DEF v, x
    <3>4. Good(r.s) /\ Same(v, r.s)
      BY <3>2, <3>3, StoredShown
    <3>5. Same(s, r.s)
      BY <3>3, <3>4 DEF Same
    <3> QED
      BY <3>4, <3>5 DEF Leaves
  <2> QED
    BY <2>3, <2>4
<1>4. CASE o.answer.status = "ok" /\ ~o.answer.consumed
  <2> DEFINE S == {o.s}
  <2>1. r \in Refused(S)
    BY <1>4 DEF AfterAnswer
  <2>4. \A x \in S : x = o.s
    OBVIOUS
  <2> HIDE DEF S
  <2>2. r.s = o.s
    BY <2>1, <2>4, RefusedIs
  <2>3. Good(o.s)
    BY <1>4, AnsweredOk
  <2> QED
    BY <1>2, <2>2, <2>3 DEF Leaves
<1>5. CASE o.answer.status # "ok"
  <2>1. r \in Refused(AbandonSession(o.s))
    BY <1>5 DEF AfterAnswer
  <2>2. r.s \in AbandonSession(o.s)
    BY <2>1, RefusedIs
  <2>3. Good(r.s) /\ Same(o.s, r.s)
    BY <1>1, <2>2, AbandonIs
  <2>4. Same(s, r.s)
    BY <1>2, <2>3 DEF Same
  <2> QED
    BY <2>3, <2>4 DEF Leaves
<1> QED
  BY <1>3, <1>4, <1>5

-----------------------------------------------------------------------------
(* The handlers of the keys.                                               *)
LEMMA SliceInt ==
  ASSUME NEW total \in Nat, NEW size \in Nat \ {0}, NEW requested \in Nat
  PROVE  Slice(total, size, requested).count \in Int
<1> DEFINE n == Slice(total, size, requested).offset
<1>1. n \in Nat
  BY SliceNat
<1>2. CASE total = 0
  BY <1>2 DEF Slice, NoSlice
<1>3. CASE total # 0
  <2>1. Slice(total, size, requested).count = Smaller(size, total - n)
    BY <1>3 DEF Slice
  <2> HIDE DEF n
  <2> QED
    BY <1>1, <2>1 DEF Smaller
<1> QED
  BY <1>2, <1>3

LEMMA TipSliceIs ==
  ASSUME NEW s, Typed(s)
  PROVE  /\ TipSlice(s.tip).offset \in Nat /\ TipSlice(s.tip).count \in Int
         /\ s.tip.snapshot.highlighted \in Nat
<1> DEFINE t == s.tip
           total == Len(t.snapshot.candidates)
           size == t.settings.pageSize
<1>1. t \in TipType /\ t.snapshot \in Snapshot /\ t.settings \in Preferences /\ t.offset \in Nat
  BY TypedParts
<1>2. t.snapshot.candidates \in Seq(Candidate) /\ t.snapshot.highlighted \in Nat
  BY <1>1 DEF Snapshot
<1>3. total \in Nat
  BY <1>2
<1>4. size \in Sizes
  BY <1>1 DEF Preferences
<1>5. TipSlice(t) = Slice(total, size, t.offset)
  BY DEF TipSlice
<1> HIDE DEF t, total, size
<1>6. size \in 1 .. MaxPageSize
  BY <1>4, Lawful
<1>7. size \in Nat \ {0}
  BY <1>6, Limits
<1>8. TipSlice(t).offset \in Nat /\ TipSlice(t).count \in Int
  BY <1>1, <1>3, <1>5, <1>7, SliceNat, SliceInt
<1> QED
  BY <1>2, <1>8 DEF t

LEMMA HighlightedIs ==
  ASSUME NEW s, Typed(s)
  PROVE  Highlighted(s.tip) \in Nat
<1> DEFINE c == TipSlice(s.tip).count
           at == s.tip.snapshot.highlighted - TipSlice(s.tip).offset
<1>1. c \in Int /\ at \in Int
  BY TipSliceIs
<1>2. Highlighted(s.tip) = IF at \in 0 .. c - 1 THEN at ELSE 0
  BY DEF Highlighted
<1> HIDE DEF c, at
<1> QED
  BY <1>1, <1>2

Simple == {"letter", "separator", "backspace", "escape", "space", "digit"}

LEMMA ApplyKeyResponseIs ==
  ASSUME NEW s, Good(s), NEW key, key.kind \in Simple, key.kind = "digit" => key.digit \in Nat,
         key.kind = "letter" => Roomy(s), NEW r \in ApplyKeyResponse(s, key)
  PROVE  Leaves(s, r)
<1> DEFINE command == CommandOf(key.kind)
           value == Number(s.tip, key)
<1>1. PICK o \in Exchange(s, command, value) : r \in AfterAnswer(o)
  BY DEF ApplyKeyResponse
<1>2. /\ command \in Commands /\ command # "pageSize" /\ command # "window"
      /\ command # "chineseOnly"
      /\ command = "letter" => key.kind = "letter"
      /\ command = "select" => key.kind \in {"space", "digit"}
  BY DEF Commands, CommandOf, Simple, Options
<1>3. key.kind \in {"space", "digit"} => value \in Nat
  <2>1. Highlighted(s.tip) \in Nat
    BY HighlightedIs DEF Good, Base
  <2> QED
    BY <2>1 DEF Number
<1> HIDE DEF command, value
<1>4. Fitting(command, value)
  BY <1>2, <1>3 DEF Fitting
<1> QED
  BY <1>1, <1>2, <1>4, AfterAnswerIs

(* A page key whose answer was lost. *)
LEMMA StaleIs ==
  ASSUME NEW s, Base(s), Agrees(s), Windowed(s), Live(s) => Minded(s), s.tip.snapshot.preedit
  PROVE  LET u == [s EXCEPT !.past.stale = TRUE]
         IN  Good(u) /\ Same(s, u)
<1> DEFINE u == [s EXCEPT !.past.stale = TRUE]
           q == s.past
<1>1. Typed(s)
  BY DEF Base
<1>2. /\ DOMAIN u = DOMAIN s /\ u.engine = s.engine /\ u.window = s.window
      /\ u.tip = s.tip /\ u.past = [q EXCEPT !.stale = TRUE]
  BY <1>1 DEF Typed
<1>3. q \in PastType
  BY <1>1, TypedParts
<1> HIDE DEF u, q
<1>4. u.past \in PastType
  BY <1>2, <1>3 DEF PastType
<1>5. /\ u.past.stale = TRUE /\ u.past.old = q.old /\ u.past.since = q.since
      /\ u.past.lost = q.lost /\ u.past.orphans = q.orphans
      /\ u.past.clean = q.clean
      /\ u.past.resized = q.resized
  BY <1>2, <1>3 DEF PastType
<1>6. Typed(u)
  BY <1>1, <1>2, <1>4 DEF Typed
<1>7. Base(u)
  BY <1>2, <1>5, <1>6 DEF Base, Live, q
<1>8. Belief(u)
  <2>1. Minded(s) => Minded(u)
    BY <1>2, <1>5 DEF Minded, q
  <2>2. Informed(u)
    BY <1>5 DEF Informed
  <2> QED
    BY <1>2, <2>1, <2>2 DEF Belief, Live
<1>9. Windowed(u)
  BY <1>2, <1>5 DEF Windowed
<1>10. Agrees(u)
  BY <1>2, <1>5 DEF Agrees, Live, q
<1>11. Same(s, u)
  BY <1>2, <1>5 DEF Same, q
<1> QED
  BY <1>7, <1>8, <1>9, <1>10, <1>11 DEF Good, u

LEMMA TurnedIs ==
  ASSUME NEW s, Good(s), NEW kind \in PageKeys, s.tip.snapshot.preedit,
         NEW o \in Exchange(s, kind, 0)
  PROVE  Good(Turned(o)) /\ Same(s, Turned(o))
<1> DEFINE v == o.s
           x == o.answer.snapshot
<1>1. Base(s) /\ Belief(s) /\ Windowed(s) /\ Agrees(s)
  BY DEF Good
<1>2. Fitting(kind, 0) /\ kind # "pageSize" /\ kind # "letter"
  BY DEF Fitting, Commands, PageKeys, Options
<1>3. Base(v) /\ Kept(s, v) /\ Agrees(v) /\ Alike(s, v)
  BY <1>1, <1>2, ExchangeIs, ExchangeAgrees, AlikeIs
<1>4. v.tip = s.tip /\ v.window = s.window /\ v.past.stale = s.past.stale /\ Same(s, v)
      /\ v.past.since = s.past.since
  BY <1>3 DEF Kept
<1>5. CASE o.answer.status = "ok" /\ o.answer.consumed
  <2>1. Turned(o) = ShowCandidateWindow(Stored(v, x))
    BY <1>5 DEF Turned
  <2>2. /\ Base(v) /\ Same(s, v) /\ Agrees(v) /\ Live(v)
        /\ v.past.old => Input(v.engine)
        /\ ~v.past.old => v.engine.letters <= v.past.since
        /\ x = SnapshotOf(v.engine)
    BY <1>2, <1>5, AnsweredOk
  <2> HIDE DEF v, x
  <2>3. Good(Turned(o)) /\ Same(v, Turned(o))
    BY <2>1, <2>2, StoredShown
  <2>4. Same(s, Turned(o))
    BY <2>2, <2>3 DEF Same
  <2> QED
    BY <2>3, <2>4
<1>6. CASE o.answer.status = "ok" /\ ~o.answer.consumed
  <2>1. Turned(o) = v
    BY <1>6 DEF Turned
  <2>2. Good(o.s)
    BY <1>2, <1>6, AnsweredOk
  <2> QED
    BY <1>4, <2>1, <2>2
<1>7. CASE o.answer.status # "ok"
  <2>1. Turned(o) = [v EXCEPT !.past.stale = TRUE]
    BY <1>7 DEF Turned
  <2> HIDE DEF v
  <2>2. Live(v) => Minded(v)
    BY <1>1, <1>3, <1>4, AlikeMinded
  <2>3. Windowed(v) /\ v.tip.snapshot.preedit
    BY <1>1, <1>4 DEF Windowed, Mirrors
  <2>4. Good(Turned(o)) /\ Same(v, Turned(o))
    BY <1>3, <2>1, <2>2, <2>3, StaleIs
  <2>5. Same(s, Turned(o))
    BY <1>4, <2>4 DEF Same
  <2> QED
    BY <2>4, <2>5
<1> QED
  BY <1>5, <1>6, <1>7

LEMMA HandleCandidatePageIs ==
  ASSUME NEW s, Good(s), NEW kind \in PageKeys, s.tip.snapshot.preedit,
         NEW r \in HandleCandidatePage(s, kind)
  PROVE  Leaves(s, r)
<1>1. PICK o \in Exchange(s, kind, 0) : r = Result(Turned(o), TRUE, FALSE)
  BY DEF HandleCandidatePage
<1>2. r.s = Turned(o)
  BY <1>1 DEF Result
<1> QED
  BY <1>1, <1>2, TurnedIs DEF Leaves

LEMMA EditsLeave ==
  ASSUME NEW s, NEW u, Good(u), Same(s, u), NEW r \in Edits(u)
  PROVE  Leaves(s, r)
<1>1. Good(r.s) /\ Same(u, r.s)
  BY EditsIs DEF Good
<1>2. Same(s, r.s)
  BY <1>1 DEF Same
<1> QED
  BY <1>1, <1>2 DEF Leaves

LEMMA CommitPendingInputIs ==
  ASSUME NEW s, Good(s), NEW r \in CommitPendingInput(s)
  PROVE  Leaves(s, r)
<1>1. PICK u \in ResetCompositionState(s) : r \in Edits(u)
  BY DEF CommitPendingInput
<1>2. Good(u) /\ Same(s, u)
  BY <1>1, ResetCompositionStateIs
<1> QED
  BY <1>1, <1>2, EditsLeave

LEMMA PunctuateIs ==
  ASSUME NEW s, Good(s), NEW r \in Punctuate(s)
  PROVE  Leaves(s, r)
<1>1. CASE s.tip.snapshot.preedit
  <2> DEFINE key == [kind |-> "space"]
  <2>1. PICK e \in ApplyKeyResponse(s, key) : r \in IF e.eaten THEN Edits(e.s) ELSE {e}
    BY <1>1 DEF Punctuate
  <2>2. /\ key.kind \in Simple /\ key.kind # "digit" /\ key.kind # "letter"
    BY DEF Simple
  <2> HIDE DEF key
  <2>3. Leaves(s, e)
    BY <2>1, <2>2, ApplyKeyResponseIs
  <2>4. r = e \/ r \in Edits(e.s)
    BY <2>1
  <2>5. CASE r \in Edits(e.s)
    BY <2>3, <2>5, EditsLeave DEF Leaves
  <2> QED
    BY <2>3, <2>4, <2>5
<1>2. CASE ~s.tip.snapshot.preedit
  <2>1. r = Result(s, TRUE, FALSE) \/ r \in Edits(s)
    BY <1>2 DEF Punctuate, Result
  <2>2. Same(s, s)
    BY DEF Same
  <2>3. CASE r = Result(s, TRUE, FALSE)
    <3>1. r.s = s
      BY <2>3 DEF Result
    <3> QED
      BY <2>2, <3>1 DEF Leaves
  <2>4. CASE r \in Edits(s)
    BY <2>2, <2>4, EditsLeave
  <2> QED
    BY <2>1, <2>3, <2>4
<1> QED
  BY <1>1, <1>2

LEMMA KeyIs ==
  ASSUME NEW key \in Keys
  PROVE  /\ key.kind \in Simple \cup PageKeys \cup {"enter", "punct"}
         /\ key.kind = "digit" => key.digit \in Nat
<1>1. CASE key \in [kind : Plain]
  BY <1>1 DEF Plain, Simple, PageKeys
<1>2. CASE key \in [kind : {"digit"}, digit : 0 .. MaxPageSize - 1]
  BY <1>2, Limits DEF Simple
<1> QED
  BY <1>1, <1>2 DEF Keys

LEMMA KindOfIs ==
  ASSUME NEW t, NEW key
  PROVE  /\ KindOf(t, key) = "punct" \/ KindOf(t, key) = key.kind
         /\ KindOf(t, key) \in PageKeys => t.snapshot.preedit
  BY DEF KindOf, PageKeys

LEMMA ProcessKeyDownIs ==
  ASSUME NEW s, Good(s), NEW key \in Keys, key.kind = "letter" => Roomy(s),
         NEW r \in ProcessKeyDown(s, key)
  PROVE  Leaves(s, r)
<1> DEFINE kind == KindOf(s.tip, key)
           composing == s.tip.snapshot.preedit
<1>1. /\ kind = "punct" \/ kind = key.kind
      /\ kind \in PageKeys => composing
  BY KindOfIs
<1>2. /\ key.kind \in Simple \cup PageKeys \cup {"enter", "punct"}
      /\ key.kind = "digit" => key.digit \in Nat
  BY KeyIs
<1>3. ProcessKeyDown(s, key) =
        CASE kind \in {"pageUp", "pageDown"} -> HandleCandidatePage(s, kind)
          [] kind = "enter" /\ composing -> CommitPendingInput(s)
          [] kind = "enter" /\ ~composing -> Refused({s})
          [] kind = "punct" -> Punctuate(s)
          [] OTHER -> ApplyKeyResponse(s, key)
  BY DEF ProcessKeyDown
<1>4. composing <=> s.tip.snapshot.preedit
  OBVIOUS
<1> HIDE DEF kind, composing
<1>5. CASE kind \in PageKeys
  <2>1. ProcessKeyDown(s, key) = HandleCandidatePage(s, kind)
    BY <1>3, <1>5 DEF PageKeys
  <2> QED
    BY <1>1, <1>4, <1>5, <2>1, HandleCandidatePageIs
<1>6. CASE kind = "enter" /\ composing
  <2>1. ProcessKeyDown(s, key) = CommitPendingInput(s)
    BY <1>3, <1>6
  <2> QED
    BY <2>1, CommitPendingInputIs
<1>7. CASE kind = "enter" /\ ~composing
  <2>1. ProcessKeyDown(s, key) = Refused({s})
    BY <1>3, <1>7
  <2> DEFINE S == {s}
  <2>2. r \in Refused(S) /\ \A x \in S : x = s
    BY <2>1
  <2> HIDE DEF S
  <2>3. r.s = s
    BY <2>2, RefusedIs
  <2> QED
    BY <2>3 DEF Leaves, Same
<1>8. CASE kind = "punct"
  <2>1. ProcessKeyDown(s, key) = Punctuate(s)
    BY <1>3, <1>8
  <2> QED
    BY <2>1, PunctuateIs
<1>9. CASE kind \notin PageKeys \cup {"enter", "punct"}
  <2>1. ProcessKeyDown(s, key) = ApplyKeyResponse(s, key)
    BY <1>3, <1>9 DEF PageKeys
  <2>2. key.kind \in Simple
    BY <1>1, <1>2, <1>9
  <2> QED
    BY <1>2, <2>1, <2>2, ApplyKeyResponseIs
<1> QED
  BY <1>5, <1>6, <1>7, <1>8, <1>9

LEMMA ToggleInputModeIs ==
  ASSUME NEW s, Good(s), NEW commit \in BOOLEAN, NEW r \in ToggleInputMode(s, commit)
  PROVE  Good(r.s) /\ Held(s, r.s)
<1>1. PICK e \in (IF commit /\ s.tip.chinese /\ s.tip.snapshot.preedit
                  THEN CommitPendingInput(s)
                  ELSE {Result(u, TRUE, FALSE) : u \in ResetCompositionState(s)}) :
        r = IF e.failed THEN e
            ELSE Result([e.s EXCEPT !.tip.chinese = ~s.tip.chinese], TRUE, FALSE)
  BY DEF ToggleInputMode
<1>2. e \in CommitPendingInput(s) \/ \E u \in ResetCompositionState(s) : e = Result(u, TRUE, FALSE)
  BY <1>1
<1>3. Good(e.s) /\ Same(s, e.s)
  <2>1. CASE e \in CommitPendingInput(s)
    BY <2>1, CommitPendingInputIs DEF Leaves
  <2>2. CASE \E u \in ResetCompositionState(s) : e = Result(u, TRUE, FALSE)
    <3>1. PICK u \in ResetCompositionState(s) : e = Result(u, TRUE, FALSE)
      BY <2>2
    <3>2. e.s = u
      BY <3>1 DEF Result
    <3> QED
      BY <3>1, <3>2, ResetCompositionStateIs
  <2> QED
    BY <1>2, <2>1, <2>2
<1> DEFINE v == e.s
           c == ~s.tip.chinese
           u == [v EXCEPT !.tip.chinese = c]
<1>4. r = e \/ r = Result(u, TRUE, FALSE)
  BY <1>1
<1>5. c \in BOOLEAN
  OBVIOUS
<1> HIDE DEF v, c
<1>6. Good(v) /\ Held(s, v)
  BY <1>3 DEF Same, Held, v
<1>7. Good(u) /\ Held(v, u)
  BY <1>5, <1>6, ChineseIs
<1> HIDE DEF u
<1>8. CASE r = e
  BY <1>6, <1>8 DEF v
<1>9. CASE r = Result(u, TRUE, FALSE)
  <2>1. r.s = u
    BY <1>9 DEF Result
  <2> QED
    BY <1>6, <1>7, <2>1 DEF Held
<1> QED
  BY <1>4, <1>8, <1>9

-----------------------------------------------------------------------------
(* A step in between does not arm the switch key.                          *)
Armed(s) == s.tip.switchDown /\ ~s.tip.switchUsed
Quieter(s, u) ==
  /\ u.past.clean = s.past.clean
  /\ Armed(u) => Armed(s)

LEMMA QuieterIs ==
  /\ \A s, u : Same(s, u) => Quieter(s, u)
  /\ \A s, u : Held(s, u) => Quieter(s, u)
  /\ \A s, u, v : Quieter(s, u) /\ Quieter(u, v) => Quieter(s, v)
  BY DEF Same, Held, Quieter, Armed

(* AbandonSession after the flags of the switch key are forgotten. *)
LEMMA AbandonForgotten ==
  ASSUME NEW s, Base(s), NEW u \in AbandonSession(SwitchForgotten(s))
  PROVE  Good(u) /\ Quieter(s, u) /\ u.tip.chinese = s.tip.chinese
<1> DEFINE v == SwitchForgotten(s)
<1>1. /\ Base(v) /\ v.tip.switchDown = FALSE /\ v.tip.chinese = s.tip.chinese
      /\ v.past = s.past
  BY SwitchForgottenIs DEF Base
<1> HIDE DEF v
<1>2. u \in AbandonSession(v)
  BY DEF v
<1>3. Good(u) /\ Same(v, u)
  BY <1>1, <1>2, AbandonIs
<1>4. Quieter(s, u)
  BY <1>1, <1>3 DEF Same, Quieter, Armed
<1> QED
  BY <1>1, <1>3, <1>4 DEF Same

LEMMA FinishedIs ==
  ASSUME NEW r, Good(r.s), NEW u \in Finished(r)
  PROVE  Good(u) /\ Quieter(r.s, u)
<1>1. CASE r.failed
  <2>1. u \in AbandonSession(SwitchForgotten(r.s))
    BY <1>1 DEF Finished
  <2> QED
    BY <2>1, AbandonForgotten DEF Good
<1>2. CASE ~r.failed
  <2>1. u = r.s
    BY <1>2 DEF Finished
  <2> QED
    BY <2>1 DEF Quieter, Armed
<1> QED
  BY <1>1, <1>2

LEMMA AllowKeyInContextIs ==
  ASSUME NEW s, Good(s), field.scope \in Privacy, NEW u \in AllowKeyInContext(s)
  PROVE  Good(u) /\ Quieter(s, u) /\ u.tip.chinese = s.tip.chinese
<1> DEFINE known == IF s.tip.privacy \notin {"blocked", field.scope}
                    THEN AbandonSession(SwitchForgotten(s)) ELSE {s}
<1>1. \/ u \in AbandonSession(SwitchForgotten(s))
      \/ \E v \in known : u = [v EXCEPT !.tip.privacy = field.scope]
  BY DEF AllowKeyInContext
<1>2. CASE u \in AbandonSession(SwitchForgotten(s))
  BY <1>2, AbandonForgotten DEF Good
<1>3. CASE \E v \in known : u = [v EXCEPT !.tip.privacy = field.scope]
  <2>1. PICK v \in known : u = [v EXCEPT !.tip.privacy = field.scope]
    BY <1>3
  <2>2. v \in AbandonSession(SwitchForgotten(s)) \/ v = s
    BY <2>1
  <2>3. Good(v) /\ Quieter(s, v) /\ v.tip.chinese = s.tip.chinese
    <3>1. CASE v \in AbandonSession(SwitchForgotten(s))
      BY <3>1, AbandonForgotten DEF Good
    <3>2. CASE v = s
      BY <3>2 DEF Quieter, Armed
    <3> QED
      BY <2>2, <3>1, <3>2
  <2> DEFINE p == field.scope
  <2>4. u = [v EXCEPT !.tip.privacy = p] /\ p \in Privacy
    BY <2>1
  <2> HIDE DEF p
  <2>5. Good(u) /\ Same(v, u)
    BY <2>3, <2>4, PrivacyIs
  <2>6. Quieter(s, u)
    BY <2>3, <2>5, QuieterIs
  <2> QED
    BY <2>3, <2>5, <2>6 DEF Same
<1> QED
  BY <1>1, <1>2, <1>3

LEMMA HandleKeyDownIs ==
  ASSUME NEW s, Good(s), NEW key \in Keys, NEW u \in HandleKeyDown(s, key)
  PROVE  Good(u) /\ Quieter(s, u)
<1> DEFINE punctuation == KindOf(s.tip, key) = "punct" /\ ~s.tip.snapshot.preedit
           ready == IF punctuation THEN {s} ELSE EnsureSession(s)
           Then1(v) == IF v.tip.session = "none" /\ ~punctuation THEN {v}
                       ELSE UNION {Finished(r) : r \in ProcessKeyDown(Counted(v, key), key)}
<1>1. u = s \/ \E v \in ready : u \in Then1(v)
  BY DEF HandleKeyDown
<1>2. CASE u = s
  BY <1>2 DEF Quieter, Armed
<1>3. CASE \E v \in ready : u \in Then1(v)
  <2>1. PICK v \in ready : u \in Then1(v)
    BY <1>3
  <2>2. v = s \/ v \in EnsureSession(s)
    BY <2>1
  <2>3. Good(v) /\ Quieter(s, v)
    <3>1. CASE v = s
      BY <3>1 DEF Quieter, Armed
    <3>2. CASE v \in EnsureSession(s)
      BY <3>2, EnsureSessionIs, QuieterIs
    <3> QED
      BY <2>2, <3>1, <3>2
  <2> DEFINE c == Counted(v, key)
  <2>4. u = v \/ \E r \in ProcessKeyDown(c, key) : u \in Finished(r)
    BY <2>1
  <2>5. Good(c) /\ Same(v, c) /\ (key.kind = "letter" => Roomy(c))
    BY <2>3, CountedIs
  <2> HIDE DEF c
  <2>6. CASE \E r \in ProcessKeyDown(c, key) : u \in Finished(r)
    <3>1. PICK r \in ProcessKeyDown(c, key) : u \in Finished(r)
      BY <2>6
    <3>2. Leaves(c, r)
      BY <2>5, <3>1, ProcessKeyDownIs
    <3>3. Good(u) /\ Quieter(r.s, u)
      BY <3>1, <3>2, FinishedIs DEF Leaves
    <3>4. Quieter(v, c) /\ Quieter(c, r.s)
      BY <2>5, <3>2, QuieterIs DEF Leaves
    <3> QED
      BY <2>3, <3>3, <3>4, QuieterIs
  <2> QED
    BY <2>3, <2>4, <2>6
<1> QED
  BY <1>1, <1>2, <1>3

LEMMA ReleasedIs ==
  ASSUME NEW s, Good(s), NEW u \in Released(s)
  PROVE  /\ Good(u) /\ Quieter(s, u)
         /\ u.tip.chinese = s.tip.chinese \/ Armed(s)
<1>1. CASE ~s.tip.switchDown
  <2>1. u = s
    BY <1>1 DEF Released
  <2> QED
    BY <2>1 DEF Quieter
<1> DEFINE v == SwitchForgotten(s)
<1>2. /\ Good(v) /\ v.tip.switchDown = FALSE /\ v.tip.chinese = s.tip.chinese
      /\ v.past = s.past
  BY SwitchForgottenIs DEF Good, Base
<1>3. Quieter(s, v)
  BY <1>2 DEF Quieter, Armed
<1>4. CASE s.tip.switchDown /\ s.tip.switchUsed
  <2>1. u = v
    BY <1>4 DEF Released
  <2> QED
    BY <1>2, <1>3, <2>1
<1>5. CASE s.tip.switchDown /\ ~s.tip.switchUsed
  <2>1. \E r \in ToggleInputMode(v, TRUE) : u \in Finished(r)
    BY <1>5 DEF Released, Then
  <2> HIDE DEF v
  <2>2. PICK r \in ToggleInputMode(v, TRUE) : u \in Finished(r)
    BY <2>1
  <2>5. TRUE \in BOOLEAN
    OBVIOUS
  <2>3. Good(r.s) /\ Held(v, r.s)
    BY <1>2, <2>2, <2>5, ToggleInputModeIs
  <2>4. Good(u) /\ Quieter(r.s, u)
    BY <2>2, <2>3, FinishedIs
  <2>6. Quieter(s, u)
    BY <1>3, <2>3, <2>4, QuieterIs
  <2> QED
    BY <1>5, <2>4, <2>6 DEF Armed
<1> QED
  BY <1>1, <1>4, <1>5

-----------------------------------------------------------------------------
(* The inductive invariant.                                                *)
FieldType == [focused : BOOLEAN, scope : Privacy, held : BOOLEAN]
Alone(s) == Armed(s) => s.past.clean
Fine(s) == Good(s) /\ Alone(s)
IInv == Fine(Now) /\ field \in FieldType /\ file \in Preferences

LEMMA NowIs ==
  ASSUME NEW s, Fine(s)
  PROVE  Fine([tip |-> s.tip, engine |-> s.engine, window |-> s.window, past |-> s.past])
<1> DEFINE n == [tip |-> s.tip, engine |-> s.engine, window |-> s.window, past |-> s.past]
<1>1. /\ DOMAIN n = {"tip", "engine", "window", "past"}
      /\ n.tip = s.tip /\ n.engine = s.engine /\ n.window = s.window /\ n.past = s.past
  OBVIOUS
<1> HIDE DEF n
<1>2. Typed(n)
  BY <1>1 DEF Fine, Good, Base, Typed
<1>3. Mild(s, n)
  BY <1>1 DEF Mild
<1>4. Good(n)
  BY <1>2, <1>3, MildIs DEF Fine
<1>5. Alone(n)
  BY <1>1 DEF Fine, Alone, Armed
<1> QED
  BY <1>4, <1>5 DEF Fine, n

LEMMA NowFields ==
  /\ Now.tip = tip /\ Now.engine = engine /\ Now.window = window /\ Now.past = past
  /\ DOMAIN Now = {"tip", "engine", "window", "past"}
  BY DEF Now

LEMMA EndsIs ==
  ASSUME NEW S, Ends(S), \A s \in S : Fine(s), field' \in FieldType, file' \in Preferences
  PROVE  IInv'
<1>1. PICK s \in S : tip' = s.tip /\ engine' = s.engine /\ window' = s.window /\ past' = s.past
  BY DEF Ends
<1>2. Fine([tip |-> s.tip, engine |-> s.engine, window |-> s.window, past |-> s.past])
  BY <1>1, NowIs
<1>3. Now' = [tip |-> s.tip, engine |-> s.engine, window |-> s.window, past |-> s.past]
  BY <1>1 DEF Now
<1>4. Fine(Now')
  BY <1>2, <1>3
<1> QED
  BY <1>4 DEF IInv

LEMMA QuieterFine ==
  ASSUME NEW s, Fine(s), NEW u, Good(u), Quieter(s, u)
  PROVE  Fine(u)
  BY DEF Fine, Alone, Quieter

LEMMA SameFine ==
  ASSUME NEW s, Fine(s), NEW u, Good(u), Same(s, u)
  PROVE  Fine(u)
  BY QuieterFine, QuieterIs

LEMMA InitIs == Init => IInv
<1> SUFFICES ASSUME Init PROVE IInv
  OBVIOUS
<1> DEFINE none == EmptySnapshot
<1>1. none \in Snapshot /\ Readable(none) /\ none.preedit = FALSE
  BY EmptyIs
<1>2. file \in Preferences /\ file.pageSize \in Sizes
  BY DEF Init, Preferences
<1>9. "blocked" \in Privacy /\ "ordinary" \in Privacy
  BY DEF Privacy
<1>3. 0 \in Nat /\ 0 \in 0 .. MaxLost /\ 0 \in 0 .. MaxEvents /\ 0 \in 0 .. MaxSteps
  BY Lawful
<1> DEFINE b == "blocked"
<1>4. tip = [session |-> "none", privacy |-> b, chinese |-> TRUE,
             snapshot |-> none, offset |-> 0, settings |-> file,
             switchDown |-> FALSE, switchUsed |-> FALSE]
  BY DEF Init
<1>5. window = [on |-> FALSE, snapshot |-> none, offset |-> 0, size |-> file.pageSize]
  BY DEF Init
<1>6. past = [stale |-> FALSE, old |-> FALSE, resized |-> FALSE, since |-> 0,
              clean |-> FALSE, orphans |-> 0, lost |-> 0, events |-> 0, typed |-> 0]
  BY DEF Init
<1>7. engine = NoEngine /\ field \in FieldType
  BY <1>9 DEF Init, FieldType
<1>10. b \in Privacy /\ none = EmptySnapshot
  BY <1>9
<1> HIDE DEF none, b
<1>11. tip \in TipType
  BY <1>1, <1>2, <1>3, <1>4, <1>10 DEF TipType
<1>12. window \in WindowType
  BY <1>1, <1>2, <1>3, <1>5 DEF WindowType
<1>13. past \in PastType
  BY <1>3, <1>6 DEF PastType
<1>14. /\ tip.session = "none" /\ tip.snapshot = none /\ ~tip.switchDown
       /\ ~window.on /\ window.snapshot = none /\ ~past.stale
       /\ past.orphans = 0 /\ past.lost = 0
  BY <1>4, <1>5, <1>6
<1> DEFINE n == Now
<1>15. /\ n.tip = tip /\ n.engine = engine /\ n.window = window /\ n.past = past
       /\ DOMAIN n = {"tip", "engine", "window", "past"}
  BY NowFields
<1> HIDE DEF n
<1>16. Typed(n)
  BY <1>7, <1>11, <1>12, <1>13, <1>15 DEF Typed
<1>17. 0 <= 0
  OBVIOUS
<1>18. Base(n)
  BY <1>1, <1>7, <1>10, <1>14, <1>15, <1>16, <1>17 DEF Base, Live
<1>19. Good(n)
  BY <1>14, <1>15, <1>18, IdleGood
<1>20. Alone(n)
  BY <1>14, <1>15 DEF Alone, Armed
<1> QED
  BY <1>2, <1>7, <1>19, <1>20 DEF IInv, Fine, n

LEMMA PrivacyOf ==
  ASSUME field \in FieldType
  PROVE  field.scope \in Privacy
  BY DEF FieldType

LEMMA FieldIs ==
  ASSUME field \in FieldType, NEW b \in BOOLEAN, NEW p \in Privacy
  PROVE  /\ [field EXCEPT !.held = b] \in FieldType /\ [field EXCEPT !.focused = b] \in FieldType
         /\ [field EXCEPT !.scope = p] \in FieldType
  BY DEF FieldType

LEMMA TypingIs ==
  ASSUME Good(Now), Typing
  PROVE  Now.past.typed < MaxSteps
<1> DEFINE a == past.typed
           b == past.events
           c == past.lost
<1>1. a \in 0 .. MaxSteps /\ b \in 0 .. MaxEvents /\ c \in 0 .. MaxLost
  BY NowFields, TypedParts DEF Good, Base
<1>2. a + b + c < MaxSteps
  BY DEF Typing
<1>3. a = Now.past.typed
  BY NowFields
<1> HIDE DEF a, b, c
<1>4. a < MaxSteps
  BY <1>1, <1>2, Lawful
<1> QED
  BY <1>3, <1>4

LEMMA PressedNow ==
  ASSUME IInv, Typing, NEW u \in RefreshSettings(Pressed(Now), file)
  PROVE  Good(u)
<1>1. Good(Now) /\ file \in Preferences
  BY DEF IInv, Fine
<1> DEFINE p == Pressed(Now)
<1>2. Good(p)
  BY <1>1, TypingIs, PressedIs
<1> HIDE DEF p
<1> QED
  BY <1>1, <1>2, RefreshSettingsIs DEF p

LEMMA SwitchPressedNow ==
  ASSUME IInv, Typing, NEW u \in RefreshSettings(SwitchPressed(Now), file)
  PROVE  Good(u) /\ u.past.clean = TRUE
<1>1. Good(Now) /\ file \in Preferences /\ field.held \in BOOLEAN
  BY DEF IInv, Fine, FieldType
<1> DEFINE p == SwitchPressed(Now)
<1>2. Good(p) /\ p.past.clean = TRUE
  BY <1>1, TypingIs, SwitchPressedIs
<1> HIDE DEF p
<1>3. Good(u) /\ Same(p, u)
  BY <1>1, <1>2, RefreshSettingsIs DEF p
<1> QED
  BY <1>2, <1>3 DEF Same

LEMMA KeyDownKeeps ==
  ASSUME IInv, NEW key \in Keys, KeyDown(key)
  PROVE  IInv'
<1> DEFINE tested == RefreshSettings(Pressed(Now), file)
           Down(s) == IF ShouldHandleKey(s.tip, key)
                      THEN Behind(s, LAMBDA a : HandleKeyDown(Used(a), key))
                      ELSE {s}
           S == Then({Used(u) : u \in tested}, LAMBDA u : Down(u))
<1>1. Typing /\ Ends(S) /\ field' = field /\ file' = file
  BY DEF KeyDown
<1>2. field \in FieldType /\ file \in Preferences
  BY DEF IInv
<1>3. ASSUME NEW x \in S PROVE Fine(x)
  <2>1. PICK u \in tested : x \in Down(Used(u))
    BY DEF Then
  <2>2. Good(u)
    BY <1>1, PressedNow
  <2> DEFINE d == Used(u)
  <2>3. Good(d) /\ ~Armed(d)
    BY <2>2, UsedIs DEF Armed
  <2>4. x = d \/ \E a \in AllowKeyInContext(d) : x = a \/ x \in HandleKeyDown(Used(a), key)
    BY <2>1 DEF Behind, Then
  <2> HIDE DEF d
  <2>5. CASE x = d
    BY <2>3, <2>5 DEF Fine, Alone
  <2>6. CASE \E a \in AllowKeyInContext(d) : x = a \/ x \in HandleKeyDown(Used(a), key)
    <3>1. PICK a \in AllowKeyInContext(d) : x = a \/ x \in HandleKeyDown(Used(a), key)
      BY <2>6
    <3>2. Good(a) /\ Quieter(d, a)
      BY <1>2, <2>3, <3>1, PrivacyOf, AllowKeyInContextIs
    <3> DEFINE e == Used(a)
    <3>3. Good(e) /\ ~Armed(e)
      BY <3>2, UsedIs DEF Armed
    <3>4. CASE x = a
      BY <2>3, <3>2, <3>4 DEF Quieter, Fine, Alone
    <3>5. CASE x \in HandleKeyDown(e, key)
      <4> HIDE DEF e
      <4>1. Good(x) /\ Quieter(e, x)
        BY <3>3, <3>5, HandleKeyDownIs
      <4> QED
        BY <3>3, <4>1 DEF Quieter, Fine, Alone
    <3> QED
      BY <3>1, <3>4, <3>5
  <2> QED
    BY <2>4, <2>5, <2>6
<1> HIDE DEF S
<1> QED
  BY <1>1, <1>2, <1>3, EndsIs

LEMMA SwitchKeyDownKeeps ==
  ASSUME IInv, SwitchKeyDown
  PROVE  IInv'
<1> DEFINE S == Then(RefreshSettings(SwitchPressed(Now), file),
                     LAMBDA s : Behind(s, LAMBDA a : {SwitchDown(a)}))
<1>1. Typing /\ Ends(S) /\ field' = [field EXCEPT !.held = TRUE] /\ file' = file
  BY DEF SwitchKeyDown
<1>2. field \in FieldType /\ file \in Preferences
  BY DEF IInv
<1>3. field' \in FieldType /\ file' \in Preferences
  BY <1>1, <1>2 DEF FieldType
<1>4. ASSUME NEW x \in S PROVE Fine(x)
  <2>1. PICK u \in RefreshSettings(SwitchPressed(Now), file) :
          \E a \in AllowKeyInContext(u) : x = a \/ x = SwitchDown(a)
    BY DEF Then, Behind
  <2>2. PICK a \in AllowKeyInContext(u) : x = a \/ x = SwitchDown(a)
    BY <2>1
  <2>3. Good(u) /\ u.past.clean = TRUE
    BY <1>1, SwitchPressedNow
  <2>4. Good(a) /\ a.past.clean = TRUE
    BY <1>2, <2>3, PrivacyOf, AllowKeyInContextIs DEF Quieter
  <2>5. Good(x) /\ x.past.clean = TRUE
    BY <2>2, <2>4, SwitchDownIs
  <2> QED
    BY <2>5 DEF Fine, Alone
<1> HIDE DEF S
<1> QED
  BY <1>1, <1>3, <1>4, EndsIs

(* What the release of the switch key leaves. *)
LEMMA SwitchKeyUpLeaves ==
  ASSUME NEW s, Good(s), field.scope \in Privacy,
         NEW x \in Behind(s, Released)
  PROVE  /\ Good(x) /\ Quieter(s, x)
         /\ x.tip.chinese = s.tip.chinese \/ Armed(s)
<1>1. PICK a \in AllowKeyInContext(s) :
        x \in IF a.tip.privacy = "blocked" THEN {a} ELSE Released(a)
  BY DEF Behind, Then
<1>2. Good(a) /\ Quieter(s, a) /\ a.tip.chinese = s.tip.chinese
  BY <1>1, AllowKeyInContextIs
<1>3. x = a \/ x \in Released(a)
  BY <1>1
<1>4. CASE x = a
  BY <1>2, <1>4
<1>5. CASE x \in Released(a)
  <2>1. Good(x) /\ Quieter(a, x) /\ (x.tip.chinese = a.tip.chinese \/ Armed(a))
    BY <1>2, <1>5, ReleasedIs
  <2>2. Quieter(s, x)
    BY <1>2, <2>1, QuieterIs
  <2>3. Armed(a) => Armed(s)
    BY <1>2 DEF Quieter
  <2> QED
    BY <1>2, <2>1, <2>2, <2>3
<1> QED
  BY <1>3, <1>4, <1>5

LEMMA SwitchKeyUpKeeps ==
  ASSUME IInv, SwitchKeyUp
  PROVE  IInv'
<1> DEFINE S == Behind(Now, Released)
<1>1. /\ field' = [field EXCEPT !.held = FALSE] /\ file' = file
      /\ Ends(S) \/ UNCHANGED <<tip, engine, window, past>>
  BY DEF SwitchKeyUp
<1>2. Fine(Now) /\ field \in FieldType /\ file \in Preferences
  BY DEF IInv
<1>3. field' \in FieldType /\ file' \in Preferences
  BY <1>1, <1>2 DEF FieldType
<1>4. ASSUME NEW x \in S PROVE Fine(x)
  <2>1. Good(x) /\ Quieter(Now, x)
    BY <1>2, PrivacyOf, SwitchKeyUpLeaves DEF Fine
  <2> QED
    BY <1>2, <2>1, QuieterFine
<1> HIDE DEF S
<1>5. CASE Ends(S)
  BY <1>3, <1>4, <1>5, EndsIs
<1>6. CASE UNCHANGED <<tip, engine, window, past>>
  <2>1. Now' = Now
    BY <1>6 DEF Now
  <2> QED
    BY <1>2, <1>3, <2>1 DEF IInv
<1> QED
  BY <1>1, <1>5, <1>6

LEMMA NextNow ==
  /\ Now'.tip = tip' /\ Now'.engine = engine' /\ Now'.window = window' /\ Now'.past = past'
  /\ DOMAIN Now' = {"tip", "engine", "window", "past"}
  BY DEF Now

LEMMA NowParts ==
  ASSUME IInv
  PROVE  /\ Fine(Now) /\ Good(Now) /\ Base(Now) /\ Typed(Now)
         /\ tip \in TipType /\ past \in PastType /\ window \in WindowType
         /\ past.typed \in 0 .. MaxSteps /\ past.events \in 0 .. MaxEvents
         /\ past.lost \in 0 .. MaxLost
         /\ field \in FieldType /\ file \in Preferences
<1>1. /\ Fine(Now) /\ Good(Now) /\ Base(Now) /\ Typed(Now)
      /\ field \in FieldType /\ file \in Preferences
  BY DEF IInv, Fine, Good, Base
<1> QED
  BY <1>1, TypedParts, NowFields

(* The record of what is remembered moves alone. *)
LEMMA PastMoves ==
  ASSUME IInv, UNCHANGED <<tip, engine, window>>, past' \in PastType,
         past'.stale = past.stale, past'.old = past.old,
         past'.resized = past.resized, past'.since = past.since,
         past'.lost = past.lost, past'.orphans = past.orphans,
         past'.clean = past.clean,
         field' \in FieldType, file' \in Preferences
  PROVE  IInv'
<1> DEFINE n == Now'
           s == Now
<1>1. /\ n.tip = s.tip /\ n.engine = s.engine /\ n.window = s.window /\ n.past = past'
      /\ DOMAIN n = DOMAIN s /\ s.past = past
  BY NextNow, NowFields
<1>2. Fine(s) /\ Good(s) /\ Typed(s)
  BY NowParts
<1> HIDE DEF n, s
<1>3. Good(n)
  BY <1>1, <1>2, PastOnly
<1>4. Alone(n)
  BY <1>1, <1>2 DEF Fine, Alone, Armed
<1> QED
  BY <1>3, <1>4 DEF IInv, Fine, n

LEMMA SwitchKeyUpElsewhereKeeps ==
  ASSUME IInv, SwitchKeyUpElsewhere
  PROVE  IInv'
<1>1. /\ field' = [field EXCEPT !.held = FALSE]
      /\ tip' = tip /\ engine' = engine /\ window' = window /\ past' = past /\ file' = file
  BY DEF SwitchKeyUpElsewhere
<1>2. Fine(Now) /\ field \in FieldType /\ file \in Preferences
  BY NowParts
<1>3. field' \in FieldType
  BY <1>1, <1>2 DEF FieldType
<1>4. Now' = Now
  BY <1>1 DEF Now
<1> QED
  BY <1>1, <1>2, <1>3, <1>4 DEF IInv

(* A key the service is not told of. *)
LEMMA SwitchKeyDownUnseenKeeps ==
  ASSUME IInv, SwitchKeyDownUnseen
  PROVE  IInv'
<1> DEFINE n == past.typed + 1
<1>1. /\ Typing /\ field' = [field EXCEPT !.held = TRUE]
      /\ past' = [past EXCEPT !.typed = n]
      /\ UNCHANGED <<tip, engine, window, file>>
  BY DEF SwitchKeyDownUnseen
<1>2. /\ Good(Now) /\ file \in Preferences /\ past \in PastType
      /\ past.typed \in 0 .. MaxSteps
  BY NowParts
<1>3. n \in 0 .. MaxSteps
  <2>1. past.typed < MaxSteps
    BY <1>1, <1>2, TypingIs, NowFields
  <2> QED
    BY <1>2, <2>1, Lawful
<1> HIDE DEF n
<1>4. past' \in PastType
  BY <1>1, <1>2, <1>3 DEF PastType
<1>5. /\ past'.stale = past.stale /\ past'.old = past.old
      /\ past'.resized = past.resized /\ past'.since = past.since
      /\ past'.lost = past.lost /\ past'.orphans = past.orphans
      /\ past'.clean = past.clean
  BY <1>1, <1>2 DEF PastType
<1>6. field' \in FieldType
  BY <1>1, NowParts DEF FieldType
<1> QED
  BY <1>1, <1>2, <1>4, <1>5, <1>6, PastMoves

(* One more event is remembered. *)
LEMMA EventIs ==
  ASSUME IInv, Event, past' = [past EXCEPT !.events = @ + 1]
  PROVE  /\ past' \in PastType
         /\ past'.stale = past.stale /\ past'.old = past.old
         /\ past'.resized = past.resized /\ past'.since = past.since
         /\ past'.lost = past.lost /\ past'.orphans = past.orphans
         /\ past'.clean = past.clean
<1> DEFINE n == past.events + 1
<1>1. past \in PastType /\ past.events \in 0 .. MaxEvents
  BY NowParts
<1>2. n \in 0 .. MaxEvents
  BY <1>1, Lawful DEF Event
<1>3. past' = [past EXCEPT !.events = n]
  OBVIOUS
<1> HIDE DEF n
<1>4. past' \in PastType
  BY <1>1, <1>2, <1>3 DEF PastType
<1>5. /\ past'.stale = past.stale /\ past'.old = past.old
      /\ past'.resized = past.resized /\ past'.since = past.since
      /\ past'.lost = past.lost /\ past'.orphans = past.orphans
      /\ past'.clean = past.clean
  BY <1>1, <1>3 DEF PastType
<1> QED
  BY <1>4, <1>5

LEMMA SettingsChangeKeeps ==
  ASSUME IInv, SettingsChange
  PROVE  IInv'
<1>1. /\ Event /\ file' \in Preferences /\ past' = [past EXCEPT !.events = @ + 1]
      /\ tip' = tip /\ engine' = engine /\ window' = window /\ field' = field
  BY DEF SettingsChange
<1>2. field' \in FieldType
  BY <1>1, NowParts
<1> QED
  BY <1>1, <1>2, EventIs, PastMoves

LEMMA HostRescopesKeeps ==
  ASSUME IInv, HostRescopes
  PROVE  IInv'
<1>1. PICK scope \in Privacy : field' = [field EXCEPT !.scope = scope]
  BY DEF HostRescopes
<1>2. /\ Event /\ file' = file /\ past' = [past EXCEPT !.events = @ + 1]
      /\ tip' = tip /\ engine' = engine /\ window' = window
  BY DEF HostRescopes
<1>3. field \in FieldType /\ file \in Preferences
  BY NowParts
<1>4. field' \in FieldType
  BY <1>1, <1>3 DEF FieldType
<1> QED
  BY <1>2, <1>3, <1>4, EventIs, PastMoves

LEMMA BrokerRestartsKeeps ==
  ASSUME IInv, BrokerRestarts
  PROVE  IInv'
<1> DEFINE n == Now'
           s == Now
           k == past.events + 1
           x == IF tip.session = "live" THEN "stale" ELSE tip.session
<1>1. /\ engine' = NoEngine /\ window' = window /\ field' = field /\ file' = file
      /\ tip' = [tip EXCEPT !.session = x]
      /\ past' = [past EXCEPT !.events = k, !.orphans = 0] /\ Event
  BY DEF BrokerRestarts
<1>2. /\ Fine(s) /\ Good(s) /\ Base(s) /\ Typed(s) /\ field \in FieldType /\ file \in Preferences
      /\ tip \in TipType /\ past \in PastType /\ past.events \in 0 .. MaxEvents
      /\ past.lost \in 0 .. MaxLost
  BY NowParts
<1>3. k \in 0 .. MaxEvents /\ 0 \in Nat /\ 0 <= past.lost
  BY <1>1, <1>2, Lawful DEF Event
<1>4. /\ x \in {"none", "live", "stale"} /\ x # "live"
      /\ x = "none" => tip.session = "none"
  BY <1>2 DEF TipType
<1>5. /\ n.tip = tip' /\ n.engine = NoEngine /\ n.window = window /\ n.past = past'
      /\ DOMAIN n = {"tip", "engine", "window", "past"}
  BY <1>1, NextNow
<1>6. s.tip = tip /\ s.window = window /\ s.past = past
  BY NowFields
<1> HIDE DEF k, x, n, s
<1>7. tip' \in TipType
  BY <1>1, <1>2, <1>4 DEF TipType
<1>8. past' \in PastType
  BY <1>1, <1>2, <1>3 DEF PastType
<1>9. /\ tip'.session = x /\ tip'.snapshot = tip.snapshot /\ tip'.offset = tip.offset
      /\ tip'.settings = tip.settings
      /\ tip'.switchDown = tip.switchDown /\ tip'.switchUsed = tip.switchUsed
  BY <1>1, <1>2 DEF TipType
<1>10. /\ past'.orphans = 0 /\ past'.lost = past.lost /\ past'.stale = past.stale
       /\ past'.clean = past.clean
  BY <1>1, <1>2 DEF PastType
<1>11. window \in WindowType
  BY <1>2, <1>6 DEF Typed
<1>12. Typed(n)
  BY <1>5, <1>7, <1>8, <1>11 DEF Typed
<1>13. ~Live(n)
  BY <1>4, <1>5, <1>9 DEF Live
<1>14. Base(n)
  BY <1>2, <1>3, <1>4, <1>5, <1>6, <1>9, <1>10, <1>12, <1>13 DEF Base
<1>15. Windowed(n)
  BY <1>2, <1>5, <1>6, <1>9, <1>10 DEF Good, Windowed, Mirrors
<1>16. Good(n)
  BY <1>13, <1>14, <1>15 DEF Good, Belief, Agrees
<1>17. Alone(n)
  BY <1>2, <1>5, <1>6, <1>9, <1>10 DEF Fine, Alone, Armed
<1> QED
  BY <1>1, <1>2, <1>16, <1>17 DEF IInv, Fine, n

LEMMA KeyDeniedKeeps ==
  ASSUME IInv, KeyDenied
  PROVE  IInv'
<1> DEFINE a == Between(Now)
           d == Denied(a)
           S == AbandonSession(SwitchForgotten(d))
<1>1. /\ past.events < MaxEvents /\ Ends(S) /\ field' = field /\ file' = file
  BY DEF KeyDenied
<1>2. Good(Now) /\ field \in FieldType /\ file \in Preferences
  BY NowParts
<1>3. Good(a) /\ a.past.events = Now.past.events
  BY <1>2, BetweenIs
<1> HIDE DEF a
<1>4. MayFail(a)
  BY <1>1, <1>3, NowFields DEF MayFail
<1>5. Base(d)
  BY <1>3, <1>4, DeniedIs DEF Good
<1> HIDE DEF d
<1> DEFINE f == SwitchForgotten(d)
<1>6. Base(f) /\ f.tip.switchDown = FALSE
  BY <1>5, SwitchForgottenIs DEF Base
<1>7. S = AbandonSession(f)
  OBVIOUS
<1> HIDE DEF f, S
<1>8. ASSUME NEW x \in S PROVE Fine(x)
  <2>1. Good(x) /\ Same(f, x)
    BY <1>6, <1>7, AbandonIs
  <2> QED
    BY <1>6, <2>1 DEF Same, Fine, Alone, Armed
<1> QED
  BY <1>1, <1>2, <1>8, EndsIs

LEMMA LoseFocusKeeps ==
  ASSUME IInv, LoseFocus
  PROVE  IInv'
<1> DEFINE c == Counting(Now)
           S == AbandonSession(c)
<1>1. /\ Event /\ field' = [field EXCEPT !.focused = FALSE] /\ Ends(S) /\ file' = file
  BY DEF LoseFocus
<1>2. Fine(Now) /\ Good(Now) /\ field \in FieldType /\ file \in Preferences
  BY NowParts
<1>3. field' \in FieldType
  BY <1>1, <1>2 DEF FieldType
<1>4. MayFail(Now)
  BY <1>1, NowFields DEF Event, MayFail
<1>5. Good(c) /\ Fine(c)
  BY <1>2, <1>4, CountingIs, SameFine
<1>6. S = AbandonSession(c)
  OBVIOUS
<1> HIDE DEF c, S
<1>7. ASSUME NEW x \in S PROVE Fine(x)
  BY <1>5, <1>6, AbandonIs, SameFine DEF Good
<1> QED
  BY <1>1, <1>2, <1>3, <1>7, EndsIs

LEMMA GainFocusKeeps ==
  ASSUME IInv, GainFocus
  PROVE  IInv'
<1> DEFINE S == {Hide(s) : s \in RefreshSettings(Now, file)}
<1>1. /\ field' = [field EXCEPT !.focused = TRUE] /\ Ends(S) /\ file' = file
  BY DEF GainFocus
<1>2. Fine(Now) /\ Good(Now) /\ field \in FieldType /\ file \in Preferences
  BY NowParts
<1>3. field' \in FieldType
  BY <1>1, <1>2 DEF FieldType
<1>4. ASSUME NEW x \in S PROVE Fine(x)
  <2>1. PICK s \in RefreshSettings(Now, file) : x = Hide(s)
    OBVIOUS
  <2>2. Good(s) /\ Same(Now, s)
    BY <1>2, RefreshSettingsIs
  <2>3. Fine(s) /\ Typed(s)
    BY <1>2, <2>2, SameFine DEF Good, Base
  <2>4. Good(x) /\ Same(s, x)
    BY <2>1, <2>2, <2>3, HideKeeps
  <2> QED
    BY <2>3, <2>4, SameFine
<1> HIDE DEF S
<1> QED
  BY <1>1, <1>2, <1>3, <1>4, EndsIs

LEMMA ModePublishedKeeps ==
  ASSUME IInv, ModePublished
  PROVE  IInv'
<1> DEFINE c == Counting(Now)
           u == SynchronizeInputMode(c)
           S == {u}
<1>1. Event /\ Ends(S) /\ field' = field /\ file' = file
  BY DEF ModePublished
<1>2. Fine(Now) /\ Good(Now) /\ field \in FieldType /\ file \in Preferences
  BY NowParts
<1>4. MayFail(Now)
  BY <1>1, NowFields DEF Event, MayFail
<1>5. Good(c) /\ Fine(c)
  BY <1>2, <1>4, CountingIs, SameFine
<1> HIDE DEF c
<1>6. /\ Good(u)
      /\ u.tip.switchDown = c.tip.switchDown /\ u.tip.switchUsed = c.tip.switchUsed
      /\ u.past.clean = c.past.clean
  BY <1>5, SynchronizeInputModeIs
<1> HIDE DEF u
<1>7. Fine(u)
  BY <1>5, <1>6 DEF Fine, Alone, Armed
<1>8. \A x \in S : Fine(x)
  BY <1>7
<1> HIDE DEF S
<1> QED
  BY <1>1, <1>2, <1>8, EndsIs

LEMMA ToggleFromBarKeeps ==
  ASSUME IInv, ToggleFromBar
  PROVE  IInv'
<1> DEFINE c == Counting(Now)
           S == {r.s : r \in ToggleInputMode(c, FALSE)}
<1>1. Event /\ Ends(S) /\ field' = field /\ file' = file
  BY DEF ToggleFromBar
<1>2. Fine(Now) /\ Good(Now) /\ field \in FieldType /\ file \in Preferences
  BY NowParts
<1>4. MayFail(Now)
  BY <1>1, NowFields DEF Event, MayFail
<1>5. Good(c) /\ Fine(c)
  BY <1>2, <1>4, CountingIs, SameFine
<1> HIDE DEF c
<1>6. ASSUME NEW x \in S PROVE Fine(x)
  <2>1. PICK r \in ToggleInputMode(c, FALSE) : x = r.s
    OBVIOUS
  <2>3. FALSE \in BOOLEAN
    OBVIOUS
  <2>2. Good(x) /\ Held(c, x)
    BY <1>5, <2>1, <2>3, ToggleInputModeIs
  <2> QED
    BY <1>5, <2>2, QuieterIs, QuieterFine
<1> HIDE DEF S
<1> QED
  BY <1>1, <1>2, <1>6, EndsIs

LEMMA NextKeeps == IInv /\ [Next]_vars => IInv'
<1> SUFFICES ASSUME IInv, [Next]_vars PROVE IInv'
  OBVIOUS
<1>1. CASE UNCHANGED vars
  <2>1. Now' = Now /\ field' = field /\ file' = file
    BY <1>1 DEF Now, vars
  <2> QED
    BY <2>1 DEF IInv
<1>2. ASSUME NEW key \in Keys, KeyDown(key) PROVE IInv'
  BY <1>2, KeyDownKeeps
<1>3. CASE SwitchKeyDown
  BY <1>3, SwitchKeyDownKeeps
<1>4. CASE SwitchKeyUp
  BY <1>4, SwitchKeyUpKeeps
<1>5. CASE SwitchKeyUpElsewhere
  BY <1>5, SwitchKeyUpElsewhereKeeps
<1>6. CASE SwitchKeyDownUnseen
  BY <1>6, SwitchKeyDownUnseenKeeps
<1>7. CASE KeyDenied
  BY <1>7, KeyDeniedKeeps
<1>8. CASE SettingsChange
  BY <1>8, SettingsChangeKeeps
<1>9. CASE LoseFocus
  BY <1>9, LoseFocusKeeps
<1>10. CASE GainFocus
  BY <1>10, GainFocusKeeps
<1>11. CASE ModePublished
  BY <1>11, ModePublishedKeeps
<1>12. CASE ToggleFromBar
  BY <1>12, ToggleFromBarKeeps
<1>13. CASE HostRescopes
  BY <1>13, HostRescopesKeeps
<1>14. CASE BrokerRestarts
  BY <1>14, BrokerRestartsKeeps
<1> QED
  BY <1>1, <1>2, <1>3, <1>4, <1>5, <1>6, <1>7, <1>8, <1>9, <1>10, <1>11, <1>12, <1>13, <1>14
     DEF Next

(* Whatever keys, changes of field, of mode and of settings come, and      *)
(* whichever calls the broker loses, what the text service, the engine and *)
(* the window know of each other keeps to IInv.                            *)
THEOREM Invariance == Spec => []IInv
<1>1. IInv /\ [Next]_vars => IInv'
  BY NextKeeps
<1> QED
  BY InitIs, <1>1, PTL DEF Spec

LEMMA EngineKnown ==
  ASSUME IInv, engine.kind \in {"rime", "stub"}
  PROVE  tip.session = "live" /\ Sound(engine)
<1>1. engine # NoEngine
  <2>1. NoEngine.kind = "none"
    BY DEF NoEngine
  <2> QED
    BY <2>1
<1>2. Base(Now) /\ Now.tip = tip /\ Now.engine = engine
  BY NowParts, NowFields
<1> QED
  BY <1>1, <1>2 DEF Base, Live

LEMMA SnapshotParts ==
  ASSUME NEW s, Readable(s)
  PROVE  /\ s.highlighted \in Nat
         /\ s.candidates \in [1 .. Len(s.candidates) -> Candidate]
         /\ s.highlighted = 0 \/ s.candidates = <<>> \/ s.highlighted < Len(s.candidates)
<1>1. s.candidates \in Seq(Candidate) /\ s.highlighted \in Nat
  BY DEF Readable, Snapshot
<1>2. s.candidates \in [1 .. Len(s.candidates) -> Candidate]
  BY <1>1
<1> QED
  BY <1>1, <1>2 DEF Readable

(* Every value the handlers store has its type, and a snapshot that marks  *)
(* a candidate has that many.                                              *)
THEOREM TypeCorrect == Spec => []TypeOK
<1>1. IInv => TypeOK
  <2> SUFFICES ASSUME IInv PROVE TypeOK
    OBVIOUS
  <2>1. /\ Base(Now) /\ tip \in TipType /\ past \in PastType /\ window \in WindowType
        /\ field \in FieldType /\ file \in Preferences
        /\ Now.tip = tip /\ Now.engine = engine /\ Now.window = window
    BY NowParts, NowFields
  <2>2. tip \in [session : {"none", "live", "stale"}, privacy : Privacy, chinese : BOOLEAN,
                 snapshot : {tip.snapshot}, offset : Nat, settings : Preferences,
                 switchDown : BOOLEAN, switchUsed : BOOLEAN]
    BY <2>1 DEF TipType
  <2>3. engine \in Engine \cup {NoEngine}
    BY <2>1 DEF Base, Typed
  <2>4. ASSUME NEW s \in {tip.snapshot, window.snapshot}
        PROVE  /\ s.highlighted \in Nat
               /\ s.candidates \in [1 .. Len(s.candidates) -> Candidate]
               /\ s.highlighted = 0 \/ s.candidates = <<>> \/ s.highlighted < Len(s.candidates)
    <3>1. Readable(s)
      BY <2>1 DEF Base
    <3> QED
      BY <3>1, SnapshotParts
  <2>5. window.on \in BOOLEAN /\ window.offset \in Nat /\ window.size \in Sizes
    BY <2>1 DEF WindowType
  <2> QED
    BY <2>1, <2>2, <2>3, <2>4, <2>5 DEF TypeOK, PastType, FieldType
<1> QED
  BY <1>1, Invariance, PTL

(* A session nobody can name any more is left in the broker only by a lost *)
(* answer to kCreateSession or a lost kCloseSession: every other way       *)
(* AbandonSession and Exchange have of giving one up leaves none behind.   *)
THEOREM OrphansAreLostHolds == Spec => []OrphansAreLost
<1>1. IInv => OrphansAreLost
  BY NowParts, NowFields DEF OrphansAreLost, Base
<1> QED
  BY <1>1, Invariance, PTL

(* A composition holds no letters typed before the last toggle, commit,    *)
(* change of field or of privacy, unless a kReset was lost.                *)
THEOREM NoOldLettersHolds == Spec => []NoOldLetters
<1>1. IInv => NoOldLetters
  BY NowParts, NowFields DEF NoOldLetters, Good, Belief, Minded, Live
<1> QED
  BY <1>1, Invariance, PTL

(* As long as no answer was lost and no setting changed underneath, the    *)
(* snapshot ApplyKeyResponse stored is the one the engine would give now.  *)
THEOREM BeliefMatchesHolds == Spec => []BeliefMatches
<1>1. IInv => BeliefMatches
  <2> SUFFICES ASSUME IInv, InStep PROVE tip.snapshot = SnapshotOf(engine)
    BY DEF BeliefMatches
  <2> DEFINE s == Now
  <2>1. /\ Good(s) /\ s.tip = tip /\ s.engine = engine /\ s.past = past
    BY NowParts, NowFields
  <2> HIDE DEF s
  <2>2. Live(s) /\ ~s.past.stale /\ ~s.past.old /\ ~s.past.resized
    BY <2>1 DEF InStep, Live
  <2>3. Minded(s) /\ Informed(s) /\ Sound(s.engine) /\ Base(s)
    BY <2>1, <2>2 DEF Good, Belief, Base
  <2>4. CASE s.tip.snapshot.preedit
    BY <2>1, <2>2, <2>3, <2>4 DEF Informed
  <2>5. CASE ~s.tip.snapshot.preedit
    <3>1. ~Input(s.engine)
      BY <2>2, <2>3, <2>5 DEF Minded
    <3>2. SnapshotOf(s.engine) = EmptySnapshot
      BY <2>3, <3>1, SnapshotIs DEF Sound
    <3>3. s.tip.snapshot = EmptySnapshot
      BY <2>3, <2>5 DEF Base
    <3> QED
      BY <2>1, <3>2, <3>3
  <2> QED
    BY <2>4, <2>5
<1> QED
  BY <1>1, Invariance, PTL

(* No key ProcessTrackedKey remembers is both in the adapter's prefix and  *)
(* in librime's composition, through every choice, Backspace and           *)
(* RebuildComposition and whichever way librime gives up a long input;     *)
(* with a schema that commits what it gives up, none is missing.           *)
THEOREM KeysAccountedHolds == Spec => []KeysAccounted
<1>1. IInv => KeysAccounted
  <2> SUFFICES ASSUME IInv, engine.kind = "rime" PROVE KeysAccounted
    BY DEF KeysAccounted
  <2>1. Sound(engine)
    BY EngineKnown
  <2>2. /\ engine.letters = LettersIn(engine.raw) /\ Accounted(engine)
        /\ engine.prefix \in Nat /\ engine.rime.keys \in Nat
    BY <2>1, SoundIs
  <2> QED
    BY <2>2 DEF KeysAccounted, Accounted, Covered, Whole, Commits
<1> QED
  BY <1>1, Invariance, PTL

(* The pages PageDown left behind are the pages of the present list, from  *)
(* its first to the one in use, without a gap.                             *)
THEOREM PagesFollowHolds == Spec => []PagesFollow
<1>1. IInv => PagesFollow
  BY EngineKnown DEF PagesFollow, Sound
<1> QED
  BY <1>1, Invariance, PTL

LEMMA ReleaseTold ==
  ASSUME IInv, SwitchKeyUp, tip'.chinese # tip.chinese
  PROVE  past.clean
<1> DEFINE S == Behind(Now, Released)
<1>1. Ends(S)
  BY DEF SwitchKeyUp
<1>2. PICK x \in S : tip' = x.tip
  BY <1>1 DEF Ends
<1>3. Fine(Now) /\ Good(Now) /\ field.scope \in Privacy /\ Now.tip = tip /\ Now.past = past
  BY NowParts, NowFields, PrivacyOf
<1>4. x.tip.chinese = Now.tip.chinese \/ Armed(Now)
  BY <1>3, SwitchKeyUpLeaves
<1>5. Armed(Now)
  BY <1>2, <1>3, <1>4
<1> QED
  BY <1>3, <1>5 DEF Fine, Alone

(* The release of the switch key toggles the mode only if the service was  *)
(* asked about no other key since it last saw the switch key go down.      *)
THEOREM ToggleUnlessUsedHolds == Spec => ToggleUnlessUsed
<1>1. IInv /\ [Next]_vars =>
        [field.held /\ ~field'.held /\ tip'.chinese # tip.chinese => past.clean]_vars
  <2> SUFFICES ASSUME IInv, Next, field.held, ~field'.held, tip'.chinese # tip.chinese
               PROVE  past.clean
    BY DEF vars
  <2>1. field \in FieldType
    BY NowParts
  <2>2. CASE SwitchKeyUp
    BY <2>2, ReleaseTold
  <2>3. CASE SwitchKeyUpElsewhere
    BY <2>3 DEF SwitchKeyUpElsewhere
  <2>4. ASSUME NEW key \in Keys, KeyDown(key) PROVE field' = field
    BY <2>4 DEF KeyDown
  <2>5. CASE SwitchKeyDown \/ SwitchKeyDownUnseen
    <3>1. field' = [field EXCEPT !.held = TRUE]
      BY <2>5 DEF SwitchKeyDown, SwitchKeyDownUnseen
    <3> QED
      BY <2>1, <3>1 DEF FieldType
  <2>6. CASE \/ KeyDenied \/ SettingsChange \/ ModePublished \/ ToggleFromBar
             \/ BrokerRestarts
    <3>1. field' = field
      BY <2>6 DEF KeyDenied, SettingsChange, ModePublished, ToggleFromBar,
                  BrokerRestarts
    <3> QED
      BY <3>1
  <2>7. CASE LoseFocus \/ GainFocus \/ HostRescopes
    <3>1. field'.held = field.held
      BY <2>1, <2>7 DEF LoseFocus, GainFocus, HostRescopes, FieldType
    <3> QED
      BY <3>1
  <2> QED
    BY <2>2, <2>3, <2>4, <2>5, <2>6, <2>7 DEF Next
<1> QED
  BY <1>1, Invariance, PTL DEF Spec, ToggleUnlessUsed

-----------------------------------------------------------------------------
(* What is drawn is what is taken.                                         *)
LEMMA SliceAt ==
  ASSUME NEW n \in Nat, NEW p \in Nat \ {0}, NEW a \in Nat, a * p < n
  PROVE  Slice(n, p, a * p) = [offset |-> a * p, count |-> Smaller(p, n - a * p)]
<1>1. a * p \in Nat /\ n # 0 /\ n - 1 \in Nat /\ a * p <= n - 1
  OBVIOUS
<1> DEFINE x == ((a * p) \div p) * p
           y == ((n - 1) \div p) * p
<1>2. x = a * p /\ y >= a * p /\ y \in Nat
  BY <1>1, PageOf
<1>3. Slice(n, p, a * p) =
        [offset |-> Smaller(x, y), count |-> Smaller(p, n - Smaller(x, y))]
  BY <1>1 DEF Slice
<1> HIDE DEF x, y
<1>4. Smaller(x, y) = a * p
  BY <1>1, <1>2 DEF Smaller
<1> QED
  BY <1>3, <1>4

LEMMA Placed ==
  ASSUME NEW e, Sound(e), NEW p \in Nat \ {0}, e.kind = "rime" => e.pageSize = p,
         NEW x, x = SnapshotOf(e), x.candidates # <<>>,
         NEW n, n = Len(x.candidates), NEW o, o = Slice(n, p, x.highlighted).offset
  PROVE  \E c \in Nat :
           /\ Slice(n, p, o) = [offset |-> o, count |-> c]
           /\ x.highlighted \in Nat /\ x.highlighted - o \in 0 .. c - 1
           /\ \A i \in 0 .. c - 1 : Selected(e, i) = x.candidates[o + i + 1]
<1>1. Keeps(e) /\ Fits(e) /\ e.kind \in {"rime", "stub"}
  BY SoundIs
<1>2. \E a \in Nat : /\ a * p < n /\ x.highlighted = a * p /\ n \in Nat
                     /\ \A i \in 0 .. Smaller(p, n - a * p) - 1 :
                          Selected(e, i) = x.candidates[a * p + i + 1]
  <2>1. CASE e.kind = "stub"
    <3>1. x = StubSnapshot(e)
      BY <2>1 DEF SnapshotOf
    <3>2. x.highlighted = 0 /\ x \in Snapshot
      BY <1>1, <3>1, StubSnapshotIs
    <3>3. x.candidates \in Seq(Candidate)
      BY <3>2 DEF Snapshot
    <3>4. n \in Nat /\ 0 < n
      BY <3>3
    <3> DEFINE z == 0 * p
    <3>5. z = 0
      OBVIOUS
    <3> HIDE DEF z
    <3>6. \A i \in Int : Selected(e, i) = x.candidates[z + i + 1]
      BY <2>1, <3>1, <3>5 DEF Selected
    <3>7. \A i \in 0 .. Smaller(p, n - z) - 1 : Selected(e, i) = x.candidates[z + i + 1]
      BY <3>6
    <3>8. 0 \in Nat /\ z < n /\ x.highlighted = z
      BY <3>2, <3>4, <3>5
    <3> QED
      BY <3>4, <3>7, <3>8 DEF z
  <2>2. CASE e.kind = "rime"
    <3> DEFINE a == ActivePage(e)
               l == Listed(e)
    <3>1. x = RimeSnapshot(e)
      BY <2>2 DEF SnapshotOf
    <3>2. x.highlighted = Mark(e) /\ x.candidates = l
      BY <1>1, <2>2, <3>1, RimeSnapshotIs
    <3>3. /\ l \in Seq(Candidate) /\ n = Len(Shown(e)) /\ n \in Nat
          /\ \A i \in 1 .. n : l[i] = CandidateAt(e, Shown(e)[i])
      BY <1>1, <3>2, ListedIs
    <3>4. Shown(e) # <<>>
      <4>1. Len(l) # 0
        BY <3>2, <3>3
      <4>2. Len(<<>>) = 0
        OBVIOUS
      <4> QED
        BY <3>2, <3>3, <4>1, <4>2
    <3>5. PagesFollowIn(e) /\ e.pageSize = p
      BY <2>2 DEF Sound
    <3>6. /\ a * p < n /\ Mark(e) = a * p
          /\ \A i \in 0 .. Smaller(p, n - a * p) - 1 :
               CandidateIndexForVisible(e, i) = Shown(e)[a * p + i + 1]
      BY <1>1, <3>3, <3>4, <3>5, RimePlaced
    <3>7. a \in Nat
      BY <1>1, WindowStartIs, EngineParts, Limits DEF Fits
    <3> HIDE DEF a, l
    <3>8. ASSUME NEW i \in 0 .. Smaller(p, n - a * p) - 1
          PROVE  Selected(e, i) = x.candidates[a * p + i + 1]
      <4>1. a * p \in Nat
        BY <3>7
      <4>2. a * p + i + 1 \in 1 .. n
        BY <3>3, <3>6, <4>1 DEF Smaller
      <4>3. Selected(e, i) = CandidateAt(e, Shown(e)[a * p + i + 1])
        BY <2>2, <3>6 DEF Selected
      <4> QED
        BY <3>2, <3>3, <4>2, <4>3
    <3> QED
      BY <3>2, <3>3, <3>6, <3>7, <3>8
  <2> QED
    BY <1>1, <2>1, <2>2
<1>3. PICK a \in Nat : /\ a * p < n /\ x.highlighted = a * p /\ n \in Nat
                       /\ \A i \in 0 .. Smaller(p, n - a * p) - 1 :
                            Selected(e, i) = x.candidates[a * p + i + 1]
  BY <1>2
<1> DEFINE z == a * p
           c == Smaller(p, n - z)
<1>4. Slice(n, p, z) = [offset |-> z, count |-> c]
  BY <1>3, SliceAt
<1>5. z \in Nat /\ z < n /\ x.highlighted = z /\ n \in Nat
  BY <1>3
<1>9. \A i \in 0 .. c - 1 : Selected(e, i) = x.candidates[z + i + 1]
  BY <1>3
<1> HIDE DEF z
<1>6. c \in Nat \ {0}
  BY <1>5 DEF Smaller
<1>7. o = z
  BY <1>4, <1>5
<1> HIDE DEF c
<1>8. x.highlighted \in Nat /\ x.highlighted - o \in 0 .. c - 1
  BY <1>5, <1>6, <1>7
<1> QED
  BY <1>4, <1>6, <1>7, <1>8, <1>9

(* The candidate drawn next to a digit is the one the engine takes for it, *)
(* and the space bar takes the marked one, although the window, the text   *)
(* service and the engine each count pages of their own.                   *)
THEOREM ShownIsSelectedHolds == Spec => []ShownIsSelected
<1>1. IInv => ShownIsSelected
  <2> SUFFICES ASSUME IInv, InStep, window.on
               PROVE  /\ \A key \in [kind : {"digit"}, digit : 0 .. MaxPageSize - 1] :
                           key.digit < TipSlice(tip).count =>
                             /\ key.digit < WindowSlice(window).count
                             /\ Selected(engine, key.digit)
                                  = ShownAt(WindowSlice(window).offset + key.digit)
                      /\ tip.snapshot.candidates # <<>> =>
                           Selected(engine, Highlighted(tip))
                             = ShownAt(window.snapshot.highlighted)
    BY DEF ShownIsSelected
  <2> DEFINE s == Now
             x == tip.snapshot
             n == Len(x.candidates)
             p == tip.settings.pageSize
             o == tip.offset
  <2>1. Good(s) /\ s.tip = tip /\ s.engine = engine /\ s.past = past /\ s.window = window
    BY NowParts, NowFields
  <2> HIDE DEF s
  <2>2. Live(s) /\ ~s.past.stale /\ ~s.past.old /\ ~s.past.resized
    BY <2>1 DEF InStep, Live
  <2>3. /\ Informed(s) /\ Sound(s.engine) /\ Typed(s) /\ s.tip.snapshot.preedit /\ Mirrors(s)
        /\ s.engine.kind = "rime" => s.engine.pageSize = s.tip.settings.pageSize
    BY <2>1, <2>2 DEF Good, Belief, Base, Windowed, Agrees
  <2>4. x = SnapshotOf(engine) /\ Sound(engine) /\ (engine.kind = "rime" => engine.pageSize = p)
    BY <2>1, <2>2, <2>3 DEF Informed
  <2>5. /\ window.snapshot = x /\ window.offset = o /\ window.size = p
        /\ o = Slice(n, p, x.highlighted).offset
    BY <2>1, <2>3 DEF Mirrors
  <2>6. tip \in TipType /\ x \in Snapshot /\ tip.settings \in Preferences
    BY <2>1, <2>3, TypedParts
  <2>7. x.candidates \in Seq(Candidate) /\ n \in Nat /\ p \in Sizes
    BY <2>6 DEF Snapshot, Preferences
  <2>8. p \in 1 .. MaxPageSize
    BY <2>7, Lawful
  <2>9. p \in Nat \ {0}
    BY <2>8, Limits
  <2>10. TipSlice(tip) = Slice(n, p, o) /\ WindowSlice(window) = Slice(n, p, o)
    BY <2>5 DEF TipSlice, WindowSlice
  <2>11. \A i : ShownAt(i) = x.candidates[i + 1]
    BY <2>5 DEF ShownAt
  <2>12. ASSUME NEW key \in [kind : {"digit"}, digit : 0 .. MaxPageSize - 1]
         PROVE  key.digit \in Nat
    BY Limits
  <2> HIDE DEF x, n, p, o
  <2>13. CASE x.candidates = <<>>
    <3>1. n = 0
      BY <2>13 DEF n
    <3>2. Slice(n, p, o).count = 0
      BY <3>1 DEF Slice, NoSlice
    <3>3. \A key \in [kind : {"digit"}, digit : 0 .. MaxPageSize - 1] :
            ~(key.digit < TipSlice(tip).count)
      BY <2>10, <2>12, <3>2
    <3> QED
      BY <2>13, <3>3 DEF x
  <2>14. CASE x.candidates # <<>>
    <3>8. n = Len(x.candidates) /\ o = Slice(n, p, x.highlighted).offset
      BY <2>5 DEF n
    <3>1. PICK c \in Nat :
            /\ Slice(n, p, o) = [offset |-> o, count |-> c]
            /\ x.highlighted \in Nat /\ x.highlighted - o \in 0 .. c - 1
            /\ \A i \in 0 .. c - 1 : Selected(engine, i) = x.candidates[o + i + 1]
      BY <2>4, <2>9, <2>14, <3>8, Placed, SMTT(90)
    <3>2. o \in Nat
      BY <2>6 DEF TipType, o
    <3>3. ASSUME NEW key \in [kind : {"digit"}, digit : 0 .. MaxPageSize - 1],
                 key.digit < TipSlice(tip).count
          PROVE  /\ key.digit < WindowSlice(window).count
                 /\ Selected(engine, key.digit) = ShownAt(WindowSlice(window).offset + key.digit)
      <4>1. key.digit \in 0 .. c - 1
        BY <2>10, <2>12, <3>1, <3>3
      <4> QED
        BY <2>10, <2>11, <3>1, <3>3, <4>1
    <3>4. Highlighted(tip) = x.highlighted - o
      BY <2>10, <3>1 DEF Highlighted, x
    <3>5. o + (x.highlighted - o) + 1 = x.highlighted + 1
      BY <3>1, <3>2
    <3>6. Selected(engine, Highlighted(tip)) = x.candidates[x.highlighted + 1]
      BY <3>1, <3>4, <3>5
    <3>7. ShownAt(window.snapshot.highlighted) = x.candidates[x.highlighted + 1]
      BY <2>5, <2>11
    <3> QED
      BY <3>3, <3>6, <3>7
  <2> QED
    BY <2>13, <2>14
<1> QED
  BY <1>1, Invariance, PTL
==============================================================================
