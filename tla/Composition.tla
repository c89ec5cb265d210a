---------------------------- MODULE Composition ----------------------------
(***************************************************************************)
(* A composition as three parties see it: the engine in the broker, the    *)
(* snapshot the text service keeps of the last answer, and the candidate   *)
(* window the user reads the digits from (text_service.cpp, session_host   *)
(* .cpp, the page slices of settings.cpp).  The text service numbers the   *)
(* candidates on the page it shows; the engine counts on the page it is    *)
(* on.  An answer may be lost whether or not the request was served, and   *)
(* most answers are not looked at.                                         *)
(*                                                                         *)
(* The keys that wait for a broker are the business of TextService: here a *)
(* key that finds no session changes nothing.                              *)
(***************************************************************************)
EXTENDS RimeEngine

CONSTANTS
  Sizes,      \* values of settings.candidate_count the user may choose
  Rows,       \* rows of the window in multi-line mode: kCandidateWindowPageCount
  Runtimes,   \* engines the broker may have: "rime", or "stub" in a build without librime
  Schemas,    \* behaviours of librime, from Schema
  MaxLost,    \* bound: answers that are lost
  MaxEvents,  \* bound: changes of settings, mode, focus and scope, and denied edits
  MaxSteps    \* bound: keys, events and lost answers together

ASSUME CompositionAssumption ==
  /\ Sizes \subseteq 1 .. MaxPageSize /\ Sizes # {}
  /\ Rows \in 1 .. MaxWindow
  /\ Runtimes \subseteq {"rime", "stub"} /\ Schemas \subseteq Schema
  /\ MaxLost \in Nat /\ MaxEvents \in Nat /\ MaxSteps \in Nat

VARIABLES
  tip,      \* the text service
  engine,   \* the engine of its session, or NoEngine
  window,   \* the candidate window: the snapshot and the page it shows
  field,    \* the host: focus and privacy class of the field, and the switch key
  file,     \* the settings file, as far as the composition depends on it
  past      \* what the properties remember, and the bounds

vars == <<tip, engine, window, field, file, past>>

(* The runtime of the broker decides the engine; a restricted session is   *)
(* never given the stub.                                                   *)
NoEngine == [kind |-> "none"]
Engines(restricted) ==
  {NewEngine("rime", s) : s \in IF "rime" \in Runtimes THEN Schemas ELSE {}} \cup
  (IF "stub" \in Runtimes /\ ~restricted
   THEN {NewEngine("stub", CHOOSE s \in Schema : TRUE)} ELSE {})

Preferences ==
  [pageSize : Sizes, window : {1, Rows}, chineseOnly : BOOLEAN, traditional : BOOLEAN]
Privacy == {"blocked", "restricted", "ordinary"}

TypeOK ==
  /\ tip \in [session : {"none", "live", "stale"}, privacy : Privacy, chinese : BOOLEAN,
              snapshot : {tip.snapshot}, offset : Nat, settings : Preferences,
              switchDown : BOOLEAN, switchUsed : BOOLEAN]
  /\ engine \in Engine \cup {NoEngine}
  /\ \A s \in {tip.snapshot, window.snapshot} :
       /\ s.highlighted \in Nat
       /\ s.candidates \in [1 .. Len(s.candidates) -> Candidate]
       /\ s.highlighted = 0 \/ s.candidates = <<>> \/ s.highlighted < Len(s.candidates)
  /\ window.on \in BOOLEAN /\ window.offset \in Nat /\ window.size \in Sizes
  /\ field \in [focused : BOOLEAN, scope : Privacy, held : BOOLEAN]
  /\ file \in Preferences
  /\ past \in [stale : BOOLEAN, old : BOOLEAN, resized : BOOLEAN, since : Nat, clean : BOOLEAN,
               orphans : Nat, lost : 0 .. MaxLost,
               events : 0 .. MaxEvents, typed : 0 .. MaxSteps]

(***************************************************************************)
(* The handlers are chains of calls that each change several of these, so  *)
(* a call is an operator on a record of them, and gives the set of the     *)
(* records it may leave.                                                   *)
(***************************************************************************)
Now == [tip |-> tip, engine |-> engine, window |-> window, past |-> past]
Then(S, F(_)) == UNION {F(s) : s \in S}

------------------------------------------------------------------------------
(***************************************************************************)
(* Pages of a snapshot (MakeCandidatePageSlice).                           *)
(***************************************************************************)
NoSlice == [offset |-> 0, count |-> 0]
Slice(total, size, requested) ==
  LET page(n) == (n \div size) * size
      offset == Smaller(page(requested), page(total - 1))
  IN  IF total = 0 THEN NoSlice
      ELSE [offset |-> offset, count |-> Smaller(size, total - offset)]

TipSlice(t) == Slice(Len(t.snapshot.candidates), t.settings.pageSize, t.offset)
WindowSlice(w) == Slice(Len(w.snapshot.candidates), w.size, w.offset)

Hide(s) == [s EXCEPT !.window.on = FALSE]

ShowCandidateWindow(s) ==
  LET t == s.tip.snapshot
      offset == Slice(Len(t.candidates), s.tip.settings.pageSize, t.highlighted).offset
  IN  IF ~t.preedit THEN Hide(s)
      ELSE [s EXCEPT !.tip.offset = offset,
                     !.window = [on |-> TRUE, snapshot |-> t,
                                 offset |-> offset, size |-> s.tip.settings.pageSize]]

(* The snapshot of an answer replaces the one before it. *)
Stored(s, snapshot) ==
  [s EXCEPT !.tip.snapshot = snapshot, !.past.stale = FALSE,
            !.past.since = IF snapshot.preedit THEN @ ELSE 0]

(***************************************************************************)
(* Exchanges.  The engine may have served a request whose answer is lost.  *)
(***************************************************************************)
Lost == [status |-> "lost"]
NotFound == [status |-> "notFound"]
Outcome(s, answer) == [s |-> s, answer |-> answer]

Losing(s) == [s EXCEPT !.past.lost = @ + 1]
MayLose(s) == s.past.lost < MaxLost

(* What an exchange may come to when the engine is asked, and the snapshot of its answer. *)
Outcomes(s, served, answer) ==
  {Outcome(served, answer)} \cup
  (IF MayLose(s) THEN {Outcome(Losing(served), Lost), Outcome(Losing(s), Lost)} ELSE {})

Replied(s, reply, snapshot) ==
  Outcomes(s,
    [s EXCEPT !.engine = reply.engine, !.past.old = @ /\ snapshot.preedit],
    [status |-> "ok", consumed |-> reply.consumed, commit |-> reply.commit,
     snapshot |-> snapshot])

Asked(s, reply) == Replied(s, reply, SnapshotOf(reply.engine))

Exchange(s, command, value) ==
  IF s.tip.session = "live" THEN Asked(s, Handle(s.engine, command, value))
  ELSE {Outcome(s, NotFound)}

(* A request whose answer nobody looks at. *)
Sent(s, command, value) == {o.s : o \in Exchange(s, command, value)}

(* A setter.  Where it is not served the engine keeps the old value. *)
Configured(s, command, value) ==
  {[u EXCEPT !.past.resized = @ \/ u.past.lost > s.past.lost] : u \in Sent(s, command, value)}

(* AbandonSession.  If its kCloseSession is not served the engine stays in *)
(* the broker without anyone who knows its number.                         *)
Forgotten(s) ==
  [Hide(s) EXCEPT !.tip.session = "none", !.tip.privacy = "blocked",
     !.tip.snapshot = EmptySnapshot, !.tip.offset = 0, !.engine = NoEngine,
     !.past.stale = FALSE, !.past.old = FALSE, !.past.resized = FALSE, !.past.since = 0]

(* Wrong on purpose: the session is forgotten without a kCloseSession. *)
AbandonWithoutClose(s) ==
  {[Forgotten(s) EXCEPT !.past.orphans = IF s.tip.session = "live" THEN @ + 1 ELSE @]}

AbandonSession(s) ==
  {Forgotten(s)} \cup
  (IF s.tip.session = "live" /\ MayLose(s)
   THEN {Losing(Forgotten(s)), Losing([Forgotten(s) EXCEPT !.past.orphans = @ + 1])} ELSE {})

(* EnsureSession: the options follow one by one, each in an exchange. *)
Optioned(S, option, chosen) ==
  IF option \in chosen
  THEN UNION {Configured(s, option, s.tip.settings[option]) : s \in S}
  ELSE S

WithOptions(s, chosen) ==
  LET traditional == Optioned({s}, "traditional", chosen)
      pageSize    == Optioned(traditional, "pageSize", chosen)
      window_     == Optioned(pageSize, "window", chosen)
  IN  Optioned(window_, "chineseOnly", chosen)

Created(s) ==
  {[s EXCEPT !.tip.session = "live", !.tip.snapshot = EmptySnapshot, !.engine = e,
             !.past.stale = FALSE, !.past.old = FALSE, !.past.since = 0] :
     e \in Engines(s.tip.privacy = "restricted")}

EnsureSession(s) ==
  IF s.tip.session # "none" THEN {s}
  ELSE Then(Created(s), LAMBDA c : WithOptions(c, Options)) \cup
       (IF Created(s) = {} THEN {s} ELSE {}) \cup
       (IF MayLose(s) THEN {Losing(s), Losing([s EXCEPT !.past.orphans = @ + 1])} ELSE {})

------------------------------------------------------------------------------
(***************************************************************************)
(* RefreshSettings.  The candidate window is not shown again.              *)
(***************************************************************************)
RefreshSettings(s, settings) ==
  LET old == s.tip.settings
      told == [s EXCEPT !.tip.settings = settings, !.tip.offset = 0,
                        !.past.stale = @ \/ s.tip.snapshot.preedit]
  IN  IF settings = old THEN {s}
      ELSE IF s.tip.session = "none" THEN {told}
      ELSE WithOptions(told, {option \in Options : settings[option] # old[option]})

(* What a toggle and a published mode forget. *)
ForgetSnapshot(s) ==
  [Hide(s) EXCEPT !.tip.snapshot = EmptySnapshot, !.tip.offset = 0,
     !.past.stale = FALSE, !.past.since = 0]

(* What the engine keeps without a kReset. *)
Leaving(s, old) == [s EXCEPT !.past.old = (@ \/ old) /\ s.engine # NoEngine /\ HasInput(s.engine)]

(* Wrong on purpose: the engine is not told. *)
ResetSilently(s) == {ForgetSnapshot(s)}

ResetCompositionState(s) ==
  {Leaving(ForgetSnapshot(u), u.past.lost > s.past.lost) :
     u \in IF s.tip.snapshot.preedit /\ s.tip.session # "none" THEN Sent(s, "reset", 0) ELSE {s}}

(* SynchronizeInputMode: no request is sent. *)
SynchronizeInputMode(s) == Leaving([ForgetSnapshot(s) EXCEPT !.tip.chinese = ~@], TRUE)

------------------------------------------------------------------------------
(***************************************************************************)
(* Keys.  A result is the record, whether the key was eaten, and whether   *)
(* the edit failed.                                                        *)
(***************************************************************************)
Result(s, eaten, failed) == [s |-> s, eaten |-> eaten, failed |-> failed]
Refused(S) == {Result(s, FALSE, FALSE) : s \in S}

(* The edit of a commit: the host may deny it. *)
MayFail(s) == s.past.events < MaxEvents
Denied(s) == [s EXCEPT !.past.events = @ + 1]
Edits(s) ==
  {Result(s, TRUE, FALSE)} \cup (IF MayFail(s) THEN {Result(Denied(s), FALSE, TRUE)} ELSE {})

(* Wrong on purpose: the page offset is not taken off the highlighted index. *)
HighlightOfSnapshot(t) == t.snapshot.highlighted

(* The number sent for the space bar. *)
Highlighted(t) ==
  LET slice == TipSlice(t)
      at == t.snapshot.highlighted - slice.offset
  IN  IF at \in 0 .. slice.count - 1 THEN at ELSE 0

Number(t, key) == IF key.kind = "space" THEN Highlighted(t) ELSE key.digit

CommandOf(kind) ==
  CASE kind \in {"space", "digit"} -> "select"
    [] kind = "escape" -> "reset"
    [] OTHER -> kind

(* ApplyKeyResponse. *)
AfterAnswer(o) ==
  IF o.answer.status = "ok" /\ o.answer.consumed
  THEN UNION {IF r.failed THEN Refused(AbandonSession(r.s))
              ELSE {Result(ShowCandidateWindow(Stored(r.s, o.answer.snapshot)), TRUE, FALSE)} :
                r \in Edits(o.s)}
  ELSE Refused(IF o.answer.status = "ok" THEN {o.s} ELSE AbandonSession(o.s))

ApplyKeyResponse(s, key) ==
  UNION {AfterAnswer(o) : o \in Exchange(s, CommandOf(key.kind), Number(s.tip, key))}

(* Wrong on purpose: the window turns and the text service keeps its snapshot. *)
TurnedInWindow(o) ==
  IF o.answer.status = "ok" /\ o.answer.consumed
  THEN [ShowCandidateWindow(Stored(o.s, o.answer.snapshot)) EXCEPT
          !.tip.snapshot = o.s.tip.snapshot]
  ELSE o.s

(* HandleCandidatePage eats its key.  A lost answer leaves the old page in *)
(* the window.                                                             *)
Turned(o) ==
  IF o.answer.status = "ok"
  THEN IF o.answer.consumed THEN ShowCandidateWindow(Stored(o.s, o.answer.snapshot)) ELSE o.s
  ELSE [o.s EXCEPT !.past.stale = TRUE]
HandleCandidatePage(s, kind) ==
  {Result(Turned(o), TRUE, FALSE) : o \in Exchange(s, kind, 0)}

(* CommitPendingInput: the engine is reset and the keys are inserted. *)
CommitPendingInput(s) == UNION {Edits(u) : u \in ResetCompositionState(s)}

(* Punctuation ends a composition with its highlighted candidate first. *)
Punctuate(s) ==
  UNION {IF r.eaten THEN Edits(r.s) ELSE {r} :
           r \in IF s.tip.snapshot.preedit THEN ApplyKeyResponse(s, [kind |-> "space"])
                 ELSE {Result(s, TRUE, FALSE)}}

(* The keys that turn pages and the separator are punctuation unless there *)
(* is a composition.  With Shift, which may be the switch key, they are    *)
(* punctuation always, and so are the digits.                              *)
KindOf(t, key) ==
  IF \/ t.switchDown /\ key.kind \in {"digit", "pageUp", "pageDown", "separator"}
     \/ ~t.snapshot.preedit /\ key.kind \in {"pageUp", "pageDown", "separator"}
  THEN "punct" ELSE key.kind

ProcessKeyDown(s, key) ==
  LET kind == KindOf(s.tip, key)
      composing == s.tip.snapshot.preedit
  IN  CASE kind \in {"pageUp", "pageDown"} -> HandleCandidatePage(s, kind)
        [] kind = "enter" /\ composing -> CommitPendingInput(s)
        [] kind = "enter" /\ ~composing -> Refused({s})
        [] kind = "punct" -> Punctuate(s)
        [] OTHER -> ApplyKeyResponse(s, key)

(* ShouldHandleKey, without keys in the startup queue. *)
ShouldHandleKey(t, key) ==
  LET kind == KindOf(t, key)
  IN  /\ t.chinese
      /\ CASE kind \in {"letter", "punct"} -> TRUE
           [] kind = "space" -> t.snapshot.candidates # <<>>
           [] kind = "digit" -> key.digit < TipSlice(t).count
           [] OTHER -> t.snapshot.preedit

(***************************************************************************)
(* ToggleInputMode, from the switch key (with what was typed) or from the  *)
(* button of the language bar.                                             *)
(***************************************************************************)
ToggleInputMode(s, commit) ==
  {IF r.failed THEN r
   ELSE Result([r.s EXCEPT !.tip.chinese = ~s.tip.chinese], TRUE, FALSE) :
     r \in IF commit /\ s.tip.chinese /\ s.tip.snapshot.preedit THEN CommitPendingInput(s)
           ELSE {Result(u, TRUE, FALSE) : u \in ResetCompositionState(s)}}

SwitchForgotten(s) == [s EXCEPT !.tip.switchDown = FALSE, !.tip.switchUsed = FALSE]

(* The privacy gate (AllowKeyInContext); the key goes on only in a field   *)
(* that is not blocked.                                                    *)
AllowKeyInContext(s) ==
  LET known == {[u EXCEPT !.tip.privacy = field.scope] :
                  u \in IF s.tip.privacy \notin {"blocked", field.scope}
                        THEN AbandonSession(SwitchForgotten(s)) ELSE {s}}
  IN  IF field.scope = "blocked" THEN AbandonSession(SwitchForgotten(s)) ELSE known

(* RequestKeyEdit: what a handler leaves, and what a failed edit does. *)
Finished(r) == IF r.failed THEN AbandonSession(SwitchForgotten(r.s)) ELSE {r.s}

------------------------------------------------------------------------------
Init ==
  /\ file \in [pageSize : Sizes, window : {1, Rows}, chineseOnly : {TRUE}, traditional : {FALSE}]
  /\ tip = [session |-> "none", privacy |-> "blocked", chinese |-> TRUE,
            snapshot |-> EmptySnapshot, offset |-> 0, settings |-> file,
            switchDown |-> FALSE, switchUsed |-> FALSE]
  /\ engine = NoEngine
  /\ window = [on |-> FALSE, snapshot |-> EmptySnapshot, offset |-> 0, size |-> file.pageSize]
  /\ field = [focused |-> TRUE, scope |-> "ordinary", held |-> FALSE]
  /\ past = [stale |-> FALSE, old |-> FALSE, resized |-> FALSE, since |-> 0,
             clean |-> FALSE, orphans |-> 0, lost |-> 0, events |-> 0, typed |-> 0]

(* The step ends in one of the records S. *)
Ends(S) ==
  \E s \in S :
    /\ tip' = s.tip /\ engine' = s.engine /\ window' = s.window /\ past' = s.past

Plain == {"letter", "separator", "backspace", "escape", "space", "enter", "punct",
          "pageUp", "pageDown"}
Keys == [kind : Plain] \cup [kind : {"digit"}, digit : 0 .. MaxPageSize - 1]

(* OnTestKeyDown notes that a key came while the switch key was down. *)
Used(s) == [s EXCEPT !.tip.switchUsed = @ \/ s.tip.switchDown]
Between(s) == [s EXCEPT !.past.clean = FALSE]
Pressed(s) == [Between(s) EXCEPT !.past.typed = @ + 1]

(* Letters the user has typed into the composition on display. *)
Counted(s, key) ==
  IF key.kind = "letter" THEN [s EXCEPT !.past.since = Smaller(@ + 1, MaxLetters)] ELSE s

Typing == past.typed + past.events + past.lost < MaxSteps

(* HandleKeyDown behind the gate. *)
HandleKeyDown(s, key) ==
  LET punctuation == KindOf(s.tip, key) = "punct" /\ ~s.tip.snapshot.preedit
      ready == IF punctuation THEN {s} ELSE EnsureSession(s)
  IN  IF ~ShouldHandleKey(s.tip, key) THEN {s}
      ELSE UNION {IF u.tip.session = "none" /\ ~punctuation THEN {u}
                  ELSE UNION {Finished(r) : r \in ProcessKeyDown(Counted(u, key), key)} : u \in ready}

(* The handlers of a key stop where the gate finds the field blocked. *)
Behind(s, F(_)) ==
  Then(AllowKeyInContext(s), LAMBDA a : IF a.tip.privacy = "blocked" THEN {a} ELSE F(a))

(* OnTestKeyDown and OnKeyDown of a key that is not the switch key.  That  *)
(* the scope of the field blocks the key is seen by the gate only.         *)
KeyDown(key) ==
  /\ field.focused
  /\ Typing
  /\ LET tested == RefreshSettings(Pressed(Now), file)
         Down(s) == IF ShouldHandleKey(s.tip, key)
                    THEN Behind(s, LAMBDA a : HandleKeyDown(Used(a), key))
                    ELSE {s}
     IN  Ends(Then({Used(u) : u \in tested}, LAMBDA u : Down(u)))
  /\ UNCHANGED <<field, file>>

(* The switch key goes down in the field, for the first time or once more: *)
(* it repeats, or it is the other one of the two.                          *)
SwitchDown(s) == [s EXCEPT !.tip.switchDown = TRUE, !.tip.switchUsed = FALSE]
SwitchPressed(s) == [s EXCEPT !.past.clean = TRUE, !.past.typed = @ + 1]

SwitchKeyDown ==
  /\ field.focused
  /\ Typing
  /\ field' = [field EXCEPT !.held = TRUE]
  /\ Ends(Then(RefreshSettings(SwitchPressed(Now), file),
               LAMBDA s : Behind(s, LAMBDA a : {SwitchDown(a)})))
  /\ UNCHANGED file

(* Wrong on purpose: the toggle does not look at what came in between. *)
ReleasedAnyway(s) ==
  Then(ToggleInputMode(SwitchForgotten(s), TRUE), LAMBDA r : Finished(r))

(* HandleKeyUp of the switch key behind the gate. *)
Released(s) ==
  IF ~s.tip.switchDown THEN {s}
  ELSE IF s.tip.switchUsed THEN {SwitchForgotten(s)}
  ELSE Then(ToggleInputMode(SwitchForgotten(s), TRUE), LAMBDA r : Finished(r))

(* OnTestKeyUp and OnKeyUp in the field. *)
SwitchKeyUp ==
  /\ field.held /\ field.focused
  /\ field' = [field EXCEPT !.held = FALSE]
  /\ IF tip.switchDown THEN Ends(Behind(Now, Released))
     ELSE UNCHANGED <<tip, engine, window, past>>
  /\ UNCHANGED file

(* Keys the service is not told of: another window has the focus, or the   *)
(* keyboard is disabled for this field (ContextBlocksInput).               *)
SwitchKeyUpElsewhere ==
  /\ field.held /\ ~field.focused
  /\ field' = [field EXCEPT !.held = FALSE]
  /\ UNCHANGED <<tip, engine, window, file, past>>

SwitchKeyDownUnseen ==
  /\ ~field.focused \/ field.scope = "blocked"
  /\ ~field.held
  /\ Typing
  /\ field' = [field EXCEPT !.held = TRUE]
  /\ past' = [past EXCEPT !.typed = @ + 1]
  /\ UNCHANGED <<tip, engine, window, file>>

(* A key edit the host denies (RequestKeyEdit). *)
KeyDenied ==
  /\ field.focused /\ tip.chinese
  /\ past.events < MaxEvents
  /\ Ends(AbandonSession(SwitchForgotten(Denied(Between(Now)))))
  /\ UNCHANGED <<field, file>>

------------------------------------------------------------------------------
(* Events around the keys. *)
Event == past.events < MaxEvents
Counting(s) == [s EXCEPT !.past.events = @ + 1]

(* Another program writes the settings file. *)
SettingsChange ==
  /\ Event
  /\ file' \in Preferences \ {file}
  /\ past' = [past EXCEPT !.events = @ + 1]
  /\ UNCHANGED <<tip, engine, window, field>>

(* OnKillThreadFocus, and OnSetThreadFocus. *)
LoseFocus ==
  /\ Event /\ field.focused
  /\ field' = [field EXCEPT !.focused = FALSE]
  /\ Ends(AbandonSession(Counting(Now)))
  /\ UNCHANGED file

GainFocus ==
  /\ ~field.focused
  /\ field' = [field EXCEPT !.focused = TRUE]
  /\ Ends({Hide(s) : s \in RefreshSettings(Now, file)})
  /\ UNCHANGED file

(* OnChange of the published mode. *)
ModePublished ==
  /\ Event
  /\ Ends({SynchronizeInputMode(Counting(Now))})
  /\ UNCHANGED <<field, file>>

(* The button of the language bar. *)
ToggleFromBar ==
  /\ Event
  /\ Ends({r.s : r \in ToggleInputMode(Counting(Now), FALSE)})
  /\ UNCHANGED <<field, file>>

(* The host declares another scope for the field. *)
HostRescopes ==
  /\ Event
  /\ \E scope \in Privacy \ {field.scope} : field' = [field EXCEPT !.scope = scope]
  /\ past' = [past EXCEPT !.events = @ + 1]
  /\ UNCHANGED <<tip, engine, window, file>>

(* The broker process ends and another starts: its sessions are gone. *)
BrokerRestarts ==
  /\ Event
  /\ engine' = NoEngine
  /\ tip' = [tip EXCEPT !.session = IF @ = "live" THEN "stale" ELSE @]
  /\ past' = [past EXCEPT !.events = @ + 1, !.orphans = 0]
  /\ UNCHANGED <<window, field, file>>

Next ==
  \/ \E key \in Keys : KeyDown(key)
  \/ SwitchKeyDown
  \/ SwitchKeyUp
  \/ SwitchKeyUpElsewhere
  \/ SwitchKeyDownUnseen
  \/ KeyDenied
  \/ SettingsChange
  \/ LoseFocus
  \/ GainFocus
  \/ ModePublished
  \/ ToggleFromBar
  \/ HostRescopes
  \/ BrokerRestarts

Spec == Init /\ [][Next]_vars

------------------------------------------------------------------------------
(* Whatever changed the candidate list, its filter or the page size        *)
(* meanwhile, the pages on the stack are pages of the present list         *)
(* (rime_engine.cpp, previous_page_offsets_).                              *)
PagesFollow == engine.kind = "rime" /\ Candidates(engine) # <<>> => PagesFollowIn(engine)

(* A key the adapter remembers is converted at most once, by its prefix or *)
(* by what librime still holds, whichever way librime gives up a long      *)
(* composition or ends one: a commit has no key twice.  If librime commits *)
(* what it gives up, and has a text for what it ends, no key is missing    *)
(* either (ProcessTrackedKey, RebuildComposition, Select).  The limit on   *)
(* letters counts the letters among those keys.  Where librime's Backspace *)
(* reopens a choice the adapter drops one of its keys all the same, and    *)
(* then it does not know how many librime still holds.                     *)
KeysAccounted ==
  engine.kind = "rime" =>
    /\ engine.letters = LettersIn(engine.raw)
    /\ ~engine.schema.reopens => engine.prefix + engine.rime.keys <= Len(engine.raw)
    /\ ~engine.schema.reopens /\ engine.schema.full = "commit" /\ engine.schema.ends # "empty" =>
         Len(engine.raw) <= engine.prefix + engine.rime.keys

(* Nothing was lost that the text service did not notice, and no setting   *)
(* changed under the composition.                                          *)
InStep == tip.session = "live" /\ ~past.stale /\ ~past.old /\ ~past.resized

(* The snapshot of the last answer is what the engine would answer now:    *)
(* ApplyKeyResponse stores it after the edit, a page key only when it was  *)
(* consumed, and a toggle or a commit drops it with a kReset.              *)
BeliefMatches == InStep => tip.snapshot = SnapshotOf(engine)

(* The candidate next to a digit of the window is the one the engine takes *)
(* for that digit, and the space bar takes the highlighted one, although   *)
(* the window, the text service and the engine each number their own page. *)
ShownAt(n) == window.snapshot.candidates[n + 1]
ShownIsSelected ==
  InStep /\ window.on =>
    /\ \A key \in [kind : {"digit"}, digit : 0 .. MaxPageSize - 1] :
         key.digit < TipSlice(tip).count =>
           /\ key.digit < WindowSlice(window).count
           /\ Selected(engine, key.digit) = ShownAt(WindowSlice(window).offset + key.digit)
    /\ tip.snapshot.candidates # <<>> =>
         Selected(engine, Highlighted(tip)) = ShownAt(window.snapshot.highlighted)

(* A composition holds no letters of an earlier one: what was dropped on a *)
(* toggle, a commit, a change of field or of privacy never comes back,     *)
(* unless a kReset was lost or the mode was changed by someone else.       *)
NoOldLetters == tip.session = "live" /\ ~past.old => engine.letters <= past.since

(* A session nobody can name any more is left in the broker only by a lost *)
(* answer to kCreateSession or a lost kCloseSession, one for each.         *)
OrphansAreLost == past.orphans <= past.lost

(* The release of the switch key changes the mode only if the service was  *)
(* asked about no other key since it last saw the switch key go down,      *)
(* across denied edits, changes of focus and of privacy (switch_key_down,  *)
(* switch_key_used).                                                       *)
ToggleUnlessUsed ==
  [][field.held /\ ~field'.held /\ tip'.chinese # tip.chinese => past.clean]_vars
==============================================================================
