----------------------------- MODULE TextService -----------------------------
(***************************************************************************)
(* The text input processor: one key at a time from its host, a session of *)
(* the broker that may not be running yet, and the startup queue in        *)
(* between (text_service.cpp).                                             *)
(*                                                                         *)
(* The members of the C++ object that decide what happens to a key are the *)
(* record tip.  A handler is a chain of calls that each change it, so the  *)
(* calls are operators on such a record.  A call that can end in several   *)
(* ways - an edit the host refuses, an exchange the broker does not answer *)
(* in time - is the set of its results; a handler combines the sets, and   *)
(* the actions at the end of the module choose one result.                 *)
(*                                                                         *)
(* The rest of the state is the world around the object: the asynchronous  *)
(* edits TSF has not granted yet, the broker process, and the host.        *)
(***************************************************************************)
EXTENDS StartupKeyQueue, FiniteSets

LOCAL INSTANCE SequencesExt

CONSTANTS
  Batch,         \* kStartupReplayBatchSize
  Context,       \* the text fields of the host (ITfContext)
  NoContext,
  Kind,          \* the kinds of keys the user types
  TimerMayFail,  \* whether SetTimer may fail
  CaretMayFail,  \* whether an edit may fail once its text is in the document
  MaxKeys,       \* bound: keys the user types
  MaxEvents      \* bound: events of the host and of the broker process

ASSUME TextServiceAssumption ==
  /\ Batch \in Nat \ {0}
  /\ NoContext \notin Context
  /\ Kind \subseteq {"letter", "back", "escape", "space", "enter", "punct", "page"}
  /\ TimerMayFail \in BOOLEAN /\ CaretMayFail \in BOOLEAN
  /\ MaxKeys \in Nat /\ MaxEvents \in Nat

VARIABLES
  tip,        \* the text service
  replay,     \* the replay loop in progress on the TIP thread
  edits,      \* asynchronous edit sessions TSF has still to grant
  broker,     \* "down", "starting" or "ready"
  focus,      \* the field that has the keyboard focus
  scope,      \* the privacy class the host declares for each field
  typed,      \* the keys typed so far
  events,     \* the events of host and broker so far
  text        \* for each field the keys that took effect in it, in order: composed,
              \* inserted or handled by the host

vars == <<tip, replay, edits, broker, focus, scope, typed, events, text>>

(***************************************************************************)
(* Types.  A key carries the field and the privacy it was typed under, and *)
(* the session its field, for the properties only: StartupKey and the      *)
(* state have no such members.                                             *)
(***************************************************************************)
Privacy == {"blocked", "restricted", "ordinary"}
Key == [id : Nat, kind : Kind, field : Context, privacy : Privacy]

Queue == [keys : Seq(Key), gen : Nat]
Tip == [queue      : Queue,
        context    : Context \cup {NoContext},       \* startup_context
        target     : {"none", "held", "moved"},      \* startup_selection against the caret
        timer      : BOOLEAN,                        \* startup_timer_active
        scheduled  : BOOLEAN,                        \* startup_replay_scheduled
        clock      : {"off", "running", "expired"},  \* startup_started_time
        session    : {"none", "live", "stale"},      \* session_id, and whether the broker knows it
        restricted : BOOLEAN,                        \* session_id was created restricted
        home       : Context \cup {NoContext},       \* the field it was created for: no member
        launched   : BOOLEAN,                        \* broker_started
        keyContext : Context \cup {NoContext},
        keyPrivacy : Privacy,
        chinese    : BOOLEAN,                        \* chinese_mode
        composing  : BOOLEAN]                        \* the snapshot has a preedit

Idle == [on |-> FALSE, step |-> "key", gen |-> 0, context |-> NoContext, todo |-> <<>>, left |-> 0]
Replay == [on : BOOLEAN,
           step : {"key", "mark", "tail"},   \* what is next: a key, the mark of the first
           gen : Nat,                        \* key, or all keys as text
           context : Context \cup {NoContext},
           todo : Seq(Key), left : Nat]
Edit == [gen : Nat, context : Context, fallback : BOOLEAN]

(* The types, and the queue within its bound (kMaximumKeys). *)
TypeOK ==
  /\ tip \in Tip
  /\ Len(tip.queue.keys) <= Capacity
  /\ replay \in Replay
  /\ edits \subseteq Edit
  /\ broker \in {"down", "starting", "ready"}
  /\ focus \in Context
  /\ scope \in [Context -> Privacy]
  /\ typed \in Nat /\ events \in Nat
  /\ text \in [Context -> Seq(Nat)]

IdsOf(keys) == [i \in DOMAIN keys |-> keys[i].id]

------------------------------------------------------------------------------
(* Wrong on purpose: the edit requested for the old queue still counts. *)
CancelStillScheduled(t) ==
  [t EXCEPT !.queue = Cancelled(@), !.context = NoContext, !.target = "none",
            !.timer = FALSE, !.clock = "off"]

(* CancelStartupReplay *)
CancelStartupReplay(t) ==
  [t EXCEPT !.queue = Cancelled(@), !.context = NoContext, !.target = "none",
            !.timer = FALSE, !.scheduled = FALSE, !.clock = "off"]

(* AbandonSession.  Its CloseSession is sent and the answer is not looked at. *)
AbandonSession(t) ==
  [CancelStartupReplay(t) EXCEPT !.session = "none", !.restricted = FALSE,
     !.home = NoContext, !.keyContext = NoContext, !.keyPrivacy = "blocked",
     !.composing = FALSE, !.launched = FALSE]

(* Wrong on purpose: the keys of the old mode stay in the queue. *)
SynchronizeKeepingQueue(t) == [t EXCEPT !.chinese = ~@, !.composing = FALSE]

(* SynchronizeInputMode, once the published mode differs from the own one. *)
SynchronizeInputMode(t) ==
  [CancelStartupReplay(t) EXCEPT !.chinese = ~@, !.composing = FALSE]

(* Wrong on purpose: only a change of the field resets the session. *)
ResetOnlyForField(previous, next, contextChanged) ==
  previous # "blocked" /\ contextChanged

(* Wrong on purpose: only a change of the privacy class resets the session. *)
ResetOnlyForScope(previous, next, contextChanged) ==
  previous # "blocked" /\ previous # next

ShouldResetInputSession(previous, next, contextChanged) ==
  /\ previous # "blocked"
  /\ contextChanged \/ previous # next

(* AllowKeyInContext: the record it leaves; it refuses the keys of a blocked field. *)
Allowed(c) == scope[c] # "blocked"
AllowKeyInContext(t, c) ==
  LET changed == t.keyContext # NoContext /\ t.keyContext # c
      kept == IF ShouldResetInputSession(t.keyPrivacy, scope[c], changed)
              THEN AbandonSession(t) ELSE t
  IN  IF Allowed(c)
      THEN [kept EXCEPT !.keyContext = c, !.keyPrivacy = scope[c]]
      ELSE AbandonSession(t)

------------------------------------------------------------------------------
(***************************************************************************)
(* Calls with several outcomes.  A result is the record the call leaves,   *)
(* whether it ate the key, whether it failed, and the keys that took       *)
(* effect, in order.                                                       *)
(***************************************************************************)
Result(t, eaten, failed, ids) ==
  [tip |-> t, eaten |-> eaten, failed |-> failed, ids |-> ids]

(* ApplyCompositionEdit, with the keys whose text it inserts.  The host    *)
(* may refuse the edit, or take the text and refuse the caret.  Its text   *)
(* store may call back into the text service before the edit returns, and  *)
(* the edit may fail all the same: the thread lost the focus, or the       *)
(* published input mode was changed.                                       *)
Reentered(t) == {t, AbandonSession(t), SynchronizeInputMode(t)}
ApplyCompositionEdit(t, c, ids) ==
  IF Allowed(c) /\ t.keyContext = c /\ t.keyPrivacy = scope[c]
  THEN {Result(u, TRUE, FALSE, ids) : u \in Reentered(t)} \cup
       {Result(u, FALSE, TRUE, <<>>) : u \in Reentered(t)} \cup
       {Result(u, FALSE, TRUE, ids) : u \in {u \in Reentered(t) : CaretMayFail}}
  ELSE {Result(AbandonSession(t), FALSE, TRUE, <<>>)}

CommitText(t, c, ids) == ApplyCompositionEdit(t, c, ids)

(* The answers to a request: consumed, declined, kSessionNotFound, or none in time. *)
Answers(t) ==
  CASE broker # "ready" -> {"lost"}
    [] broker = "ready" /\ t.session = "live" -> {"consumed", "declined", "lost"}
    [] OTHER -> {"notFound", "lost"}

(* The preedit of a consumed answer: a letter always composes, a reset     *)
(* never does, a selection or a backspace may leave a part of the input.   *)
PreeditAfter(kind) ==
  CASE kind = "letter" -> {TRUE}
    [] kind = "escape" -> {FALSE}
    [] OTHER -> BOOLEAN

(* ApplyKeyResponse.  Only a selection that uses the input up commits text *)
(* in its edit.  The snapshot is stored after the edit, whatever happened  *)
(* during it.                                                              *)
Consumed(t, c, kind, ids, preedit) ==
  LET committed == IF kind = "space" /\ ~preedit THEN ids ELSE <<>>
  IN  {IF r.failed THEN Result(AbandonSession(r.tip), FALSE, FALSE, r.ids)
       ELSE Result([r.tip EXCEPT !.composing = preedit], TRUE, FALSE, ids) :
         r \in ApplyCompositionEdit(t, c, committed)}

ApplyKeyResponse(t, c, kind, ids) ==
  UNION {CASE answer = "consumed" ->
                UNION {Consumed(t, c, kind, ids, preedit) : preedit \in PreeditAfter(kind)}
           [] answer = "declined" -> {Result(t, FALSE, FALSE, <<>>)}
           [] OTHER -> {Result(AbandonSession(t), FALSE, FALSE, <<>>)} :
           answer \in Answers(t)}

(* Every page key is a punctuation key: without a composition it is one. *)
IsMark(t, kind) == kind = "punct" \/ (kind = "page" /\ ~t.composing)

(* A mark first selects the highlighted candidate of a composition. *)
SelectBeforeMark(t, c) == ApplyKeyResponse(t, c, "space", <<>>)
Punctuate(t, c, id) ==
  IF t.composing
  THEN UNION {IF r.eaten THEN CommitText(r.tip, c, <<id>>) ELSE {r} :
                r \in SelectBeforeMark(t, c)}
  ELSE CommitText(t, c, <<id>>)

(* ProcessKeyDown.  HandleCandidatePage eats the key whatever the broker   *)
(* answers; CommitPendingInput inserts the composition as it was typed.    *)
ProcessKeyDown(t, c, key) ==
  CASE IsMark(t, key.kind) -> Punctuate(t, c, key.id)
    [] key.kind = "page" /\ t.composing -> {Result(t, TRUE, FALSE, <<key.id>>)}
    [] key.kind = "enter" /\ t.composing ->
         CommitText([t EXCEPT !.composing = FALSE], c, <<key.id>>)
    [] key.kind = "enter" /\ ~t.composing -> {Result(t, FALSE, FALSE, <<>>)}
    [] OTHER -> ApplyKeyResponse(t, c, key.kind, <<key.id>>)

(* AppendStartupFallbackKey for a sequence of keys: the keys whose text is left. *)
FallbackText(keys) ==
  FoldLeft(LAMBDA out, key :
             CASE key.kind = "back" -> IF out = <<>> THEN out ELSE Front(out)
               [] key.kind = "escape" -> <<>>
               [] OTHER -> Append(out, key.id),
           <<>>, keys)

CommitFallback(t, c, keys) ==
  IF FallbackText(keys) = <<>> THEN {Result(t, FALSE, FALSE, <<>>)}
  ELSE CommitText(t, c, IdsOf(keys))

------------------------------------------------------------------------------
(* Wrong on purpose: the caret may have left the place of the keys. *)
TargetInFocus(t, c) == t.context = c /\ focus = c

(* The checks of ReplayStartupKeys and FallbackStartupKeys before the      *)
(* privacy gate: the field still has the focus and the caret is in place.  *)
TargetHolds(t, c) == t.context = c /\ focus = c /\ t.target = "held"

(* ScheduleStartupReplay where it succeeds, and whether it has a timer to set. *)
NeedsTimer(t) == ~t.timer /\ ~t.scheduled /\ t.queue.keys # <<>>
ScheduleStartupReplay(t) ==
  IF NeedsTimer(t)
  THEN [t EXCEPT !.timer = TRUE, !.clock = IF @ = "off" THEN "running" ELSE @]
  ELSE t

(* FallbackStartupKeys: the queue becomes plain text, in one insertion. *)
FallbackStartupKeys(t, c, gen) ==
  LET open == [t EXCEPT !.scheduled = FALSE]
      a == AllowKeyInContext(open, c)
  IN  IF gen # t.queue.gen THEN {Result(t, FALSE, FALSE, <<>>)}
      ELSE IF ~TargetHolds(t, c) THEN {Result(CancelStartupReplay(open), FALSE, FALSE, <<>>)}
      ELSE IF ~Allowed(c) \/ a.queue.gen # gen THEN {Result(a, FALSE, FALSE, <<>>)}
      ELSE CommitFallback(CancelStartupReplay(a), c, a.queue.keys)

(* ScheduleStartupReplay with the fallback its callers use when SetTimer fails. *)
ScheduleOrFallback(t, c, gen) ==
  {Result(ScheduleStartupReplay(t), TRUE, FALSE, <<>>)} \cup
  (IF TimerMayFail /\ NeedsTimer(t) THEN FallbackStartupKeys(t, c, gen) ELSE {})

(* QueueStartupKey.  The first key captures its target, which may fail; a  *)
(* key that does not fit goes to the host after the queue was inserted.    *)
QueueStartupKey(t, c, key) ==
  LET first == t.queue.keys = <<>>
      u == IF first THEN [t EXCEPT !.context = c, !.clock = "running", !.target = "held"] ELSE t
      pushed == [u EXCEPT !.queue = Push(@, key)]
  IN  (IF first THEN {Result(CancelStartupReplay(u), FALSE, FALSE, <<>>)} ELSE {}) \cup
      (IF u.context # c THEN {Result(CancelStartupReplay(u), TRUE, FALSE, <<>>)}
       ELSE IF IsFull(u.queue)
       THEN {Result(r.tip, r.failed, FALSE, r.ids) : r \in FallbackStartupKeys(u, c, u.queue.gen)}
       ELSE {Result(r.tip, TRUE, FALSE, r.ids) :
               r \in ScheduleOrFallback(pushed, c, pushed.queue.gen)})

------------------------------------------------------------------------------
(* EnsureSession: a broker is launched once, a session is created when the *)
(* broker answers.  Without a session the caller queues the key.           *)
EnsureSession(t) ==
  IF t.session # "none" THEN {[tip |-> t, ok |-> TRUE, spawned |-> FALSE]}
  ELSE LET launch == IF t.launched THEN {FALSE} ELSE BOOLEAN
           after(s) == [t EXCEPT !.launched = @ \/ s]
       IN  {[tip |-> after(s), ok |-> FALSE, spawned |-> s] : s \in launch} \cup
           {[tip |-> [after(s) EXCEPT !.session = "live", !.composing = FALSE,
                        !.home = t.keyContext, !.restricted = (t.keyPrivacy = "restricted")],
             ok |-> TRUE, spawned |-> s] : s \in {s \in launch : broker = "ready"}}

(* A second broker process finds the mutex of the first one and exits. *)
BrokerAfter(spawned) == IF spawned /\ broker = "down" THEN "starting" ELSE broker

(* ShouldHandleKey, for the kinds of keys the model has. *)
ShouldHandleKey(t, kind) ==
  /\ t.chinese
  /\ kind \in {"letter", "punct", "page"} \/ t.composing \/ t.queue.keys # <<>>

(* HandleKeyDown behind the privacy gate, for an empty queue: a session is *)
(* needed unless the key is punctuation without a composition.             *)
SessionForKey(t, kind) ==
  IF IsMark(t, kind) /\ ~t.composing
  THEN {[tip |-> t, ok |-> TRUE, spawned |-> FALSE]}
  ELSE EnsureSession(t)

------------------------------------------------------------------------------
Init ==
  /\ tip = [queue |-> NewQueue, context |-> NoContext, target |-> "none",
            timer |-> FALSE, scheduled |-> FALSE, clock |-> "off", session |-> "none",
            restricted |-> FALSE, home |-> NoContext, launched |-> FALSE, keyContext |-> NoContext, keyPrivacy |-> "blocked",
            chinese |-> TRUE, composing |-> FALSE]
  /\ replay = Idle
  /\ edits = {}
  /\ broker \in {"down", "ready"}
  /\ focus \in Context
  /\ scope \in [Context -> {"ordinary", "restricted"}]
  /\ typed = 0 /\ events = 0
  /\ text = [c \in Context |-> <<>>]

(***************************************************************************)
(* Keys.  The host asks OnTestKeyDown, and calls OnKeyDown for a key the   *)
(* service wants; OnKeyDown works under a synchronous edit lock.           *)
(***************************************************************************)
TypedKey(kind) == [id |-> typed + 1, kind |-> kind, field |-> focus, privacy |-> scope[focus]]

Took(c, ids) == text' = [text EXCEPT ![c] = @ \o ids]

Typing ==
  /\ ~replay.on
  /\ typed < MaxKeys
  /\ typed' = typed + 1
  /\ UNCHANGED <<replay, edits, focus, scope, events>>

(* The service does not want the key, and the host moves its caret. *)
HostKey(kind) ==
  /\ Typing
  /\ ~Allowed(focus) \/ ~ShouldHandleKey(tip, kind)
  /\ tip' = [tip EXCEPT !.target = IF @ = "held" THEN "moved" ELSE @]
  /\ Took(focus, <<typed + 1>>)
  /\ UNCHANGED broker

(* The host denies the edit lock, or the field turns out to be blocked. *)
KeyDenied(kind) ==
  /\ Typing
  /\ ShouldHandleKey(tip, kind)
  /\ tip' = AbandonSession(tip)
  /\ Took(focus, <<typed + 1>>)
  /\ UNCHANGED broker

(* RequestKeyEdit: a failed edit abandons the session, and the host gets   *)
(* every key that was not eaten.                                           *)
KeyEdit(r, id) ==
  /\ tip' = IF r.failed THEN AbandonSession(r.tip) ELSE r.tip
  /\ Took(focus, IF r.failed \/ ~r.eaten THEN Append(r.ids, id) ELSE r.ids)

KeyAllowed(kind, a) ==
  /\ Typing
  /\ Allowed(focus)
  /\ ShouldHandleKey(tip, kind)
  /\ ShouldHandleKey(a, kind)

(* The gate abandoned the composition or the queue that the key was for. *)
KeyBypassed(kind) ==
  LET a == AllowKeyInContext(tip, focus)
  IN  /\ Typing
      /\ Allowed(focus)
      /\ ShouldHandleKey(tip, kind) /\ ~ShouldHandleKey(a, kind)
      /\ tip' = a
      /\ Took(focus, <<typed + 1>>)
      /\ UNCHANGED broker

CancelKey(kind) ==
  LET a == AllowKeyInContext(tip, focus)
  IN  /\ KeyAllowed(kind, a)
      /\ kind = "escape" /\ a.queue.keys # <<>>
      /\ tip' = CancelStartupReplay(a)
      /\ UNCHANGED <<broker, text>>

KeyBehindQueue(kind) ==
  LET a == AllowKeyInContext(tip, focus)
  IN  /\ KeyAllowed(kind, a)
      /\ kind # "escape" /\ a.queue.keys # <<>>
      /\ \E r \in QueueStartupKey(a, focus, TypedKey(kind)) : KeyEdit(r, typed + 1)
      /\ UNCHANGED broker

KeyToEngine(kind) ==
  LET a == AllowKeyInContext(tip, focus)
  IN  /\ KeyAllowed(kind, a)
      /\ a.queue.keys = <<>>
      /\ \E s \in SessionForKey(a, kind) :
           /\ broker' = BrokerAfter(s.spawned)
           /\ \E r \in IF s.ok THEN ProcessKeyDown(s.tip, focus, TypedKey(kind))
                       ELSE QueueStartupKey(s.tip, focus, TypedKey(kind)) :
                KeyEdit(r, typed + 1)

------------------------------------------------------------------------------
(* OnStartupTimer: the timer runs until it cancels the queue or requests   *)
(* an edit; while the broker is not there it does nothing.                 *)
TimerTargetLost ==
  \/ tip.queue.keys = <<>>
  \/ tip.context = NoContext
  \/ tip.context # tip.keyContext
  \/ tip.keyPrivacy = "blocked"
  \/ tip.context # focus

OnTimer ==
  /\ ~replay.on
  /\ tip.timer
  /\ UNCHANGED <<replay, broker, focus, scope, typed, events, text>>

TimerCancels ==
  /\ OnTimer
  /\ TimerTargetLost
  /\ tip' = CancelStartupReplay(tip)
  /\ UNCHANGED edits

(* RequestStartupEdit; TSF may refuse to queue the edit. *)
RequestStartupEdit(t, fallback) ==
  \/ /\ tip' = [t EXCEPT !.timer = FALSE, !.scheduled = TRUE]
     /\ edits' = edits \cup {[gen |-> t.queue.gen, context |-> t.context, fallback |-> fallback]}
  \/ /\ tip' = CancelStartupReplay(t)
     /\ UNCHANGED edits

(* Wrong on purpose: the timer waits for the broker without a limit. *)
TimerWithoutLimit == FALSE /\ OnTimer /\ UNCHANGED <<tip, edits>>

TimerFallsBack ==
  /\ OnTimer
  /\ ~TimerTargetLost
  /\ tip.clock = "expired"
  /\ RequestStartupEdit([tip EXCEPT !.launched = FALSE], TRUE)

TimerReplays ==
  /\ OnTimer
  /\ ~TimerTargetLost
  /\ tip.clock # "expired"
  /\ broker = "ready"
  /\ RequestStartupEdit(tip, FALSE)

(* 30 seconds have passed since the first key was queued. *)
ClockExpires ==
  /\ tip.clock = "running"
  /\ tip' = [tip EXCEPT !.clock = "expired"]
  /\ UNCHANGED <<replay, edits, broker, focus, scope, typed, events, text>>

------------------------------------------------------------------------------
(* TSF grants an asynchronous edit. *)
Granting(e) ==
  /\ ~replay.on
  /\ edits' = edits \ {e}
  /\ UNCHANGED <<focus, scope, typed, events>>

GrantFallback(e) ==
  /\ e.fallback
  /\ Granting(e)
  /\ \E r \in FallbackStartupKeys(tip, e.context, e.gen) :
       /\ tip' = r.tip
       /\ Took(e.context, r.ids)
  /\ UNCHANGED <<replay, broker>>

(* ReplayStartupKeys up to Take.  Opened is the record behind the gate;    *)
(* the gate may have abandoned the session and with it the generation.     *)
Opened(e) == AllowKeyInContext([tip EXCEPT !.scheduled = FALSE], e.context)
GateHolds(e) ==
  /\ TargetHolds(tip, e.context)
  /\ Allowed(e.context)
  /\ Opened(e).queue.gen = e.gen

ReplayRefused(e) ==
  /\ ~e.fallback
  /\ Granting(e)
  /\ e.gen # tip.queue.gen \/ ~GateHolds(e)
  /\ tip' = IF e.gen # tip.queue.gen THEN tip
            ELSE IF TargetHolds(tip, e.context) THEN Opened(e)
            ELSE CancelStartupReplay(tip)
  /\ UNCHANGED <<replay, broker, text>>

ReplayWaits(e) ==
  /\ ~e.fallback
  /\ Granting(e)
  /\ e.gen = tip.queue.gen /\ GateHolds(e)
  /\ \E s \in EnsureSession(Opened(e)) :
       /\ ~s.ok
       /\ broker' = BrokerAfter(s.spawned)
       /\ \E r \in ScheduleOrFallback(s.tip, e.context, e.gen) :
            /\ tip' = r.tip
            /\ Took(e.context, r.ids)
  /\ UNCHANGED replay

ReplayStarts(e) ==
  /\ ~e.fallback
  /\ Granting(e)
  /\ e.gen = tip.queue.gen /\ GateHolds(e)
  /\ \E s \in EnsureSession(Opened(e)) :
       /\ s.ok
       /\ broker' = BrokerAfter(s.spawned)
       /\ tip' = [s.tip EXCEPT !.queue = Taken(@)]
       /\ replay' = [on |-> TRUE, step |-> "key", gen |-> e.gen, context |-> e.context,
                     todo |-> s.tip.queue.keys, left |-> Batch]
  /\ UNCHANGED text

(* The loop of ReplayStartupKeys, one key in a step: the broker process is *)
(* the only thing that moves while the TIP thread is in the loop.          *)
Looping ==
  /\ replay.on
  /\ UNCHANGED <<edits, broker, focus, scope, typed, events>>

InLoop == replay.todo # <<>> /\ replay.left > 0
Outdated == replay.gen # tip.queue.gen \/ tip.keyContext # replay.context

ReplayStops ==
  /\ Looping /\ replay.step = "key"
  /\ InLoop /\ Outdated
  /\ replay' = Idle
  /\ UNCHANGED <<tip, text>>

Advance == [replay EXCEPT !.todo = Tail(@), !.left = @ - 1, !.step = "key"]
At(step) == [replay EXCEPT !.step = step]

(* ProcessKeyDown for the first key, up to the mark that follows a selection. *)
MarkFollows(key) == key.kind = "punct" /\ tip.composing
FirstCall(key) ==
  IF MarkFollows(key) THEN SelectBeforeMark(tip, replay.context)
  ELSE ProcessKeyDown(tip, replay.context, key)

ReplayKey ==
  LET key == Head(replay.todo)
      c == replay.context
  IN  /\ Looping /\ replay.step = "key"
      /\ InLoop /\ ~Outdated
      /\ \E r \in FirstCall(key) :
           \/ /\ r.failed \/ r.eaten
              /\ tip' = r.tip
              /\ Took(c, r.ids)
              /\ replay' = CASE r.failed -> At("tail")
                             [] ~r.failed /\ MarkFollows(key) -> At("mark")
                             [] OTHER -> Advance
           \/ /\ ~r.failed /\ ~r.eaten
              /\ \E f \in CommitFallback(r.tip, c, <<key>>) :
                   /\ tip' = f.tip
                   /\ Took(c, r.ids \o f.ids)
                   /\ replay' = IF f.failed THEN Idle ELSE Advance

(* The rest of ProcessKeyDown: the host has been called since the mode and *)
(* the generation were looked at, and nothing looks at them again.         *)
ReplayMark ==
  /\ Looping /\ replay.step = "mark"
  /\ \E r \in CommitText(tip, replay.context, <<Head(replay.todo).id>>) :
       /\ tip' = r.tip
       /\ Took(replay.context, r.ids)
       /\ replay' = IF r.failed THEN At("tail") ELSE Advance

(* A failed edit turns the rest of the queue into text, once. *)
TailAsText(t, c) ==
  IF focus # c THEN {Result(t, FALSE, FALSE, <<>>)}
  ELSE IF ~Allowed(c) THEN {Result(AbandonSession(t), FALSE, FALSE, <<>>)}
  ELSE CommitFallback(AllowKeyInContext(t, c), c, replay.todo)

ReplayTail ==
  /\ Looping /\ replay.step = "tail"
  /\ replay' = Idle
  /\ \E r \in TailAsText(tip, replay.context) :
       /\ tip' = r.tip
       /\ Took(replay.context, r.ids)

(* After a batch the rest goes back into the queue, behind a new capture of the caret. *)
Requeued == [tip EXCEPT !.queue = PushAll(@, replay.todo)]
ReplayEnds ==
  /\ Looping /\ replay.step = "key"
  /\ ~InLoop
  /\ replay' = Idle
  /\ IF Requeued.queue.keys = <<>>
     THEN /\ tip' = [Requeued EXCEPT !.context = NoContext, !.target = "none", !.clock = "off"]
          /\ UNCHANGED text
     ELSE \E r \in {Result(CancelStartupReplay(Requeued), TRUE, FALSE, <<>>)} \cup
                   ScheduleOrFallback([Requeued EXCEPT !.target = "held"],
                                      replay.context, replay.gen) :
            /\ tip' = r.tip
            /\ Took(replay.context, r.ids)

------------------------------------------------------------------------------
(* What the host, the user and the broker process do besides typing. *)
Happens == events < MaxEvents /\ events' = events + 1
OfHost == Happens /\ UNCHANGED <<replay, edits, broker, typed>>
OnHost == ~replay.on /\ OfHost

(* The host may move the focus or change a scope from its text store, while *)
(* the loop inserts text: no sink of the service hears of that.             *)
HostFocuses(c) ==
  /\ OfHost
  /\ focus # c /\ focus' = c
  /\ UNCHANGED <<tip, scope, text>>

HostRescopes(c, privacy) ==
  /\ OfHost
  /\ scope[c] # privacy /\ scope' = [scope EXCEPT ![c] = privacy]
  /\ UNCHANGED <<tip, focus, text>>

HostMovesCaret ==
  /\ OnHost
  /\ tip.target = "held" /\ tip' = [tip EXCEPT !.target = "moved"]
  /\ UNCHANGED <<focus, scope, text>>

(* OnKillThreadFocus, and OnSetFocus without the foreground *)
LoseFocus ==
  /\ OnHost
  /\ tip' = AbandonSession(tip)
  /\ UNCHANGED <<focus, scope, text>>

(* OnChange of a compartment another component wrote, and the toggle of   *)
(* the language bar, which has no context and commits nothing.             *)
ModePublished ==
  /\ OnHost
  /\ tip' = SynchronizeInputMode(tip)
  /\ UNCHANGED <<focus, scope, text>>

(* HandleKeyUp of an unused switch key: ToggleInputMode commits the        *)
(* composition as it was typed; a failed commit fails the key edit.        *)
ToggleInputMode ==
  LET t == CancelStartupReplay(AllowKeyInContext(tip, focus))
  IN  /\ OnHost
      /\ Allowed(focus)
      /\ \E r \in IF t.chinese /\ t.composing
                  THEN CommitText([t EXCEPT !.composing = FALSE], focus, <<>>)
                  ELSE {Result(t, TRUE, FALSE, <<>>)} :
           tip' = IF r.failed THEN AbandonSession(r.tip)
                  ELSE [r.tip EXCEPT !.composing = FALSE, !.chinese = ~@]
      /\ UNCHANGED <<focus, scope, text>>

BrokerReady ==
  /\ broker = "starting" /\ broker' = "ready"
  /\ UNCHANGED <<tip, replay, edits, focus, scope, typed, events, text>>

(* The broker process ends; with it, its sessions. *)
BrokerExits ==
  /\ broker # "down" /\ broker' = "down"
  /\ Happens
  /\ tip' = [tip EXCEPT !.session = IF @ = "live" THEN "stale" ELSE @]
  /\ UNCHANGED <<replay, edits, focus, scope, typed, text>>

Next ==
  \/ \E kind \in Kind : \/ HostKey(kind) \/ KeyDenied(kind) \/ KeyBypassed(kind)
                        \/ CancelKey(kind) \/ KeyBehindQueue(kind) \/ KeyToEngine(kind)
  \/ TimerCancels \/ TimerFallsBack \/ TimerReplays \/ ClockExpires
  \/ \E e \in edits : \/ GrantFallback(e) \/ ReplayRefused(e)
                      \/ ReplayWaits(e) \/ ReplayStarts(e)
  \/ ReplayStops \/ ReplayKey \/ ReplayMark \/ ReplayTail \/ ReplayEnds
  \/ \E c \in Context : \/ HostFocuses(c)
                        \/ \E privacy \in Privacy : HostRescopes(c, privacy)
  \/ HostMovesCaret \/ LoseFocus \/ ModePublished \/ ToggleInputMode
  \/ BrokerReady \/ BrokerExits

(***************************************************************************)
(* The timer fires, TSF grants the edits it accepted, the loop runs on,    *)
(* and time passes.  The broker need not come up, nor the user type.       *)
(***************************************************************************)
Fairness ==
  /\ WF_vars(TimerCancels \/ TimerFallsBack \/ TimerReplays)
  /\ WF_vars(\E e \in edits : GrantFallback(e) \/ ReplayRefused(e)
                              \/ ReplayWaits(e) \/ ReplayStarts(e))
  /\ WF_vars(ReplayStops \/ ReplayKey \/ ReplayMark \/ ReplayTail \/ ReplayEnds)
  /\ WF_vars(ClockExpires)

Spec == Init /\ [][Next]_vars
FairSpec == Spec /\ Fairness

------------------------------------------------------------------------------
(***************************************************************************)
(* Properties.                                                             *)
(***************************************************************************)
PendingKeys == replay.todo \o tip.queue.keys

(* Keys never sit in the queue unattended: while a field is recorded for   *)
(* them, either the timer runs or the edit that will take them has been    *)
(* requested and can still be granted, and no second edit names the same   *)
(* generation (ScheduleStartupReplay, RequestStartupEdit).                 *)
Live(e) == e.gen = tip.queue.gen
QueueIsServed ==
  /\ ~replay.on /\ tip.queue.keys # <<>> /\ tip.context # NoContext =>
       tip.timer # tip.scheduled
  /\ tip.scheduled => \E e \in edits : Live(e) /\ e.context = tip.context
  /\ \A e, f \in edits : Live(e) /\ Live(f) => e = f

(* The session a key goes to was created for the very field that has the   *)
(* keys, however the focus, the scopes and the broker moved in between: that *)
(* field is not blocked, and the session is restricted, that is without    *)
(* learning, exactly if the field is (EnsureSession, AllowKeyInContext,    *)
(* AbandonSession).                                                        *)
SessionMatches(t) ==
  /\ t.keyPrivacy = "blocked" <=> t.keyContext = NoContext
  /\ t.session # "none" =>
       /\ t.keyContext # NoContext /\ t.home = t.keyContext
       /\ t.restricted <=> t.keyPrivacy = "restricted"
SessionMatchesField == SessionMatches(tip)

(* A key that waited takes effect only in the field it was typed into and  *)
(* under the privacy it was typed under, whatever happened to focus and    *)
(* scope in between.  Text in place of a failed edit may meet another      *)
(* scope, but only behind the gate, which leaves no session.  A page key   *)
(* that meets a composition turns a page of the candidate window and       *)
(* touches no field (ReplayStartupKeys, FallbackStartupKeys).              *)
TakesEffect(key, c) == key.id \in {text'[c][i] : i \in DOMAIN text'[c] \ DOMAIN text[c]}
TurnsPage(key) == replay.on /\ replay.step = "key" /\ key.kind = "page" /\ tip.composing
Regated(c) == Allowed(c) /\ tip'.session = "none"
EffectInField ==
  \A i \in DOMAIN PendingKeys : \A c \in Context :
    LET key == PendingKeys[i]
    IN  TakesEffect(key, c) =>
          /\ key.field = c
          /\ key.privacy = scope[c] \/ Regated(c) \/ TurnsPage(key)
ReplayStaysInField == [][EffectInField]_vars

(* "A queued Chinese composition belongs to the old mode and must not be   *)
(* replayed after the user switches to direct input" (ToggleInputMode): no *)
(* key that waited takes effect in direct mode.                            *)
EffectInChineseMode ==
  \A i \in DOMAIN PendingKeys : \A c \in Context :
    TakesEffect(PendingKeys[i], c) => tip.chinese
ReplayInChineseMode == [][EffectInChineseMode]_vars

(* What the code keeps of that: a switch, whether the user's, the language *)
(* bar's or one that arrives inside an edit, stops the loop before its next *)
(* key and every edit requested for the queue.  Only what the loop had     *)
(* begun when the switch arrived inside an edit is finished: the mark      *)
(* behind a selection, or the rest as text after an edit that failed       *)
(* (ToggleInputMode, SynchronizeInputMode, ReplayStartupKeys).             *)
ReplayStartsInChineseMode ==
  [][replay.step = "key" => EffectInChineseMode]_vars

(* What the keys that wait may do: the promise of KeyDelivery.  The keys   *)
(* that may still take effect are those of the loop, or those of the queue *)
(* while the caret is where it was captured.                               *)
Waiting ==
  LET keys == IF replay.on THEN replay.todo
              ELSE IF tip.target = "held" THEN tip.queue.keys ELSE <<>>
  IN  [i \in DOMAIN keys |-> [id |-> keys[i].id, field |-> keys[i].field]]
Promise == INSTANCE KeyDelivery WITH pending <- Waiting
DeliveryKept == Promise!Spec

(* The sense of that promise: whatever was queued, taken, put back, turned *)
(* into text or retried, the keys of a field are there once, in the order  *)
(* in which they were typed (ReplayStartupKeys, FallbackStartupKeys).      *)
OnceInOrder == Promise!InOrder

(* Every key that waits leaves the queue: composed, inserted or dropped,   *)
(* even if the broker never comes up (the limit of 30 seconds in           *)
(* OnStartupTimer).                                                        *)
QueuedKeysLeave ==
  \A id \in 1 .. MaxKeys :
    (\E i \in DOMAIN PendingKeys : PendingKeys[i].id = id) ~>
    (\A i \in DOMAIN PendingKeys : PendingKeys[i].id # id)

(* "Privacy authorization can abandon the old session and advance the      *)
(* queue generation.  Never let that callback operate on replacement       *)
(* state" (ReplayStartupKeys): a loop whose queue was cancelled meanwhile  *)
(* puts no key into the queue that replaced it.                            *)
NoStaleRequeue ==
  [][replay.on /\ replay.gen # tip.queue.gen =>
       Len(tip'.queue.keys) <= Len(tip.queue.keys)]_vars

(* When the broker is not available the service shall end the composition  *)
(* and let the input pass (ARCHITECTURE.md): the letters that waited for a *)
(* broker that then went away are inserted or keep waiting.                *)
AcceptedKeysKept ==
  [][broker = "down" /\ replay.on /\ replay.gen = tip.queue.gen =>
       \A i \in DOMAIN replay.todo :
         LET key == replay.todo[i]
         IN  key.kind = "letter" /\ key.field = focus /\ key.privacy = scope[focus] =>
               \/ TakesEffect(key, focus)
               \/ \E j \in DOMAIN PendingKeys' : PendingKeys'[j] = key]_vars

(* "Successful replay drains the queue exactly once", "drained keys cannot *)
(* be replayed twice" (tsf_startup_key_queue_tests.cpp): a key of the loop *)
(* takes effect once.                                                      *)
DrainedKeysTakeEffectOnce ==
  [][\A i \in DOMAIN replay.todo : \A c \in Context :
       \A m, n \in DOMAIN text'[c] :
         text'[c][m] = replay.todo[i].id /\ text'[c][n] = replay.todo[i].id => m = n]_vars

(* "Do not restore a candidate surface before the new context's privacy    *)
(* gate" (OnSetFocus): candidates are shown only for a field that passed   *)
(* the gate.                                                               *)
SurfaceHasField == tip.composing => tip.keyContext # NoContext
==============================================================================
