# A formal model of Ziliu-IME

Ziliu is a Chinese input method for Windows. A text input processor (TIP) is
loaded into every program that has text fields; one broker process per user
runs the Rime engine for all of them. This directory models the parts of the
program whose correctness depends on order: which key goes where when the
broker is not ready, when the focus moves, when an edit fails, when an answer
is lost, when the broker restarts; which candidate a digit selects after a
setting changed; which theme is installed after a process was killed in the
middle of an import; what the candidate window shows, and where, while workers,
timers and the system report late.

Contents: [system](#the-system) · [modules](#the-modules) ·
[runs](#the-runs) · [proofs](#the-proofs) · [findings](#what-the-code-does-against-its-own-words) ·
[noticed while modelling](#noticed-while-modelling) · [plan](#plan) · [not modelled](#not-modelled)

## The system

    host thread: TextService (TSF callbacks, WM_TIMER)          one per thread
        |  one connection per request, 500 ms limit
        v
    named pipe, one instance
        |
    broker: PipeServer -> SessionHost -> Engine (Rime or stub)  one per user
        ^
        |  settings.ini, theme directories
    settings application (WinUI)                                a process of its own

| Component | State | Operations | Hard behaviour | Modelled in |
|---|---|---|---|---|
| `TextService` (`text_service.cpp`) | session number, snapshot, mode, field and privacy of the last key, switch key flags, startup queue with context, caret, timer, schedule flag and clock | key down and up, timer, asynchronous edit, focus and compartment sinks, refresh of the settings | every edit and exchange can fail; the host's text store may re-enter the service from within an edit; edits are granted later than they were requested | `TextService`, `Composition` |
| `StartupKeyQueue` (`startup_key_queue.h`) | keys, generation, composition depth | Push, Take, Cancel, HasCompositionIntent | bound of 2048; generations outdate late edits | `StartupKeyQueue` |
| Privacy gate (`input_privacy.h`) | none | classify a field; decide on a reset | the class may change at any time | `TextService`, `Composition` |
| `PipeClient` / `PipeServer` | the pipe instance, the stop flag | Exchange, Run, ServeClient, Stop | a client gives up at any point, or stops with the pipe open; the server serves the first all the same and waits for the second | `BrokerSessions` |
| `SessionHost` | sessions by number, next number | create, close, look up, input, options | numbers start again with the process; wrap around | `BrokerSessions`, `RimeEngine` |
| `RimeEngine`, stub engine | librime session, page offsets, tracked keys, automatic segments | letters, pages, selection, setters, rebuild | page stack against candidate list, 64-letter limit, a librime that gives text away by itself | `RimeEngine` |
| Broker process | mutex, pipe | start, ready, exit, menu action | killed or restarted between any two requests; saves settings.ini while windows do | `BrokerSessions`, `ThemeStore` |
| `CandidateWindow` | presentation, caret mailbox, fades, animated width, bitmap, the system's window | show, hide, expand, caret query on a worker thread, paint, messages | late answers of the worker, late activation messages, failing presents, a window the host destroys | `CandidateWindow` |
| Settings application | its copy of the settings, its list of themes, background jobs, handles on directories | load, save, select, import, remove | whole-file saves against another window and the broker's menu action; crashes between file operations | `ThemeStore` |
| Theme packages | none | check an archive | two descriptions of one archive, read by two programs | `ThemePackage` |

What makes them correct:

* **TextService**: keys that waited take effect in their own field, in order,
  at most once, under the privacy and mode they were typed in; they do not
  wait for ever; the session always fits the field.
* **SessionHost and pipe**: a session is used by the field it was made for
  alone; an exchange ends for its client, whatever other clients do; the pipe is
  freed after every client that does not stop between opening it and writing.
* **RimeEngine and composition**: the candidate selected is the candidate
  displayed; no letter of an earlier composition comes back; a commit converts
  every key that was accepted.
* **Settings and themes**: a theme is whole or absent, never replaced in place;
  the theme in use is installed; a save mixes no two copies; a job answers its
  window; nothing is left behind without a cause.
* **CandidateWindow**: no position of an old focus is applied to a new one;
  what is shown is the newest, drawn for the current theme and size; what was
  taken back does not return.

The full list of hazards, each at its line, is in `PROJECT.json`.

## The modules

### StartupKeyQueue

`startup_key_queue.h`. A queue is a record of keys and generation; each method
is an operator on it. `Capacity` is `kMaximumKeys`. `composition_depth_` is not
kept: `HasCompositionIntent` only tells a page key from punctuation, and every
page key of the program is punctuation too (`IsPageKey`), so the service takes
it either way. `Take` always takes all keys (its only use in the program). The
generation is a natural number; its wrap-around past 2^64 is not modelled.

### TextService

`text_service.cpp`. The members of the object that decide what happens to a
key are the record `tip`. TSF calls the service on one thread, so a handler
is atomic except where the world can move during it; but a handler is a long
chain of calls, and a call can end in several ways. So the calls are operators
on records, under their names in the source:

* a call with one outcome is a function (`CancelStartupReplay`,
  `AbandonSession`, `AllowKeyInContext`);
* a call with several outcomes is the *set* of its results
  (`ApplyCompositionEdit`, `ApplyKeyResponse`, `ProcessKeyDown`,
  `QueueStartupKey`, `FallbackStartupKeys`, `EnsureSession`);
* an action chooses one result.

| Model | Code |
|---|---|
| `tip.queue`, `.context`, `.target`, `.timer`, `.scheduled`, `.clock` | `startup_keys`, `startup_context`, `startup_selection`/`startup_focus`/`startup_foreground`, `startup_timer_active`, `startup_replay_scheduled`, `startup_started_time` |
| `tip.session`, `.restricted`, `.launched` | `session_id` (and whether the broker still knows it), the value sent with `kCreateSession`, `broker_started` |
| `tip.keyContext`, `.keyPrivacy`, `.chinese`, `.composing` | `key_context`, `key_privacy`, `chinese_mode`, `snapshot.preedit` not empty |
| `replay` | the locals of `ReplayStartupKeys`: generation, context, rest of `pending`, rest of the batch |
| `edits` | asynchronous `CompositionEditSession`s TSF has not granted |
| `text` | for each field the keys that took effect, in order: composed, inserted or handled by the host. For properties only |
| `tip.home` | the field the session was created for. For properties only |

Actions: `HostKey`, `KeyDenied`, `KeyBypassed` (the gate abandoned what the key
was for, and the second look at the key passes it to the host), `CancelKey`,
`KeyBehindQueue`, `KeyToEngine`
(`OnTestKeyDown` → `OnKeyDown` → `RequestKeyEdit` → `HandleKeyDown`);
`TimerCancels`, `TimerFallsBack`, `TimerReplays`, `ClockExpires`
(`OnStartupTimer`); `GrantFallback`, `ReplayRefused`, `ReplayWaits`,
`ReplayStarts` (`DoEditSession`); `ReplayStops`, `ReplayKey`, `ReplayMark`,
`ReplayTail`, `ReplayEnds` (the loop of `ReplayStartupKeys`: one key in a step,
but the mark behind a selection and the rest as text in steps of their own,
since the host was called in between); `LoseFocus`,
`ModePublished`, `ToggleInputMode` (sinks, language bar, switch key); and the
world: `HostFocuses`, `HostRescopes`, `HostMovesCaret`, `BrokerReady`,
`BrokerExits`.

Kinds of keys: `letter` (and the separator), `back`, `escape`, `space` (and
the digits), `enter`, `punct`, and `page` for a page key, which turns a page of
a composition and is punctuation without one (`IsMark`). What an exchange
answers is open: consumed, declined, session not found, no answer. What an edit
does is open: refused or done, and either with a re-entrant focus loss or mode
change, and — with `CaretMayFail` — text inserted but caret refused.

Simplifications: `Deactivate` has the effect of `LoseFocus` and re-activation
is not separate. The exchanges that configure a new session are ignored by the
code and left out here. An `AppContainer` host may start the broker from
`RefreshSettings`; here it is started from `EnsureSession` alone, and a broker
that is up from the start (`Init`) covers the other. A class change that a
re-entrant call would bring is `HostRescopes` between two keys of the loop.

### KeyDelivery

What a user may expect of keys that are made to wait, without timers, edits or
sessions: a key may be lost and a queue may be dropped, but keys take effect
in the field they were typed into, once, in order, and a key that takes effect
at once overtakes none that still waits. Each step settles a prefix of what
waits: the first `n` keys take effect, the first `m` are gone, the rest stays in
order. `TextService` is shown to implement it: `Promise == INSTANCE KeyDelivery
WITH pending <- Waiting`, and `DeliveryKept == Promise!Spec` is a property of
the safety run. `Waiting` is the rest of the replay loop, or the queue while the
caret is where it was captured: after the caret moved the code drops the queue
rather than insert it in another place, so these keys have ceased to wait.

What the steps come to is stated of the text alone: `OnceInOrder`
(`Promise!InOrder`), the keys of a field rise in the order in which they were
typed and no key is in two fields. It follows from `DeliveryKept`, as the proofs
show, so no run repeats it.

### BrokerSessions

`pipe_client.cpp`, `pipe_server.cpp`, `session_host.cpp`, and the part of
`text_service.cpp` that creates, uses and abandons sessions, for several text
services and one broker. A request is `Connect` (the client opens the pipe; the
server waits in `ReadFile`, which has no time limit), `Send` (the write of
`TransactNamedPipe`), `Serve` (the server handles it), `Deliver` (it writes and
disconnects), `Receive` (client); `GiveUp` of the client can come before,
between and after them, also for a call that fails on the way to the write. The
request of a client that is gone is served (`Serve`) or dropped (`Drop`), and so
is a connection whose client left before it wrote. `tips[t].at` says how far a
client has come (outside, connected, sent), `pipe.state` the same of the
instance (free, open, sent, answered).
`BrokerExits` and `BrokerStarts` replace the process: no session survives, the
numbers start again. `Width` is 2^64 in the code and 3 in the runs, so that
numbers wrap around. `EnterField` and `LeaveField` stand for the gate and the
sinks; `stint` numbers the fields a text service enters. What a session
*remembers* is the set `writers`: the fields whose letters it has taken.
The four setters of `EnsureSession` are one `configuring` exchange: the code
ignores what becomes of each.

### RimeEngine

`rime_engine.cpp` and `stub_engine.cpp`, with `SessionHost::Handle` for a
session it knows. An engine is a record and every call an operator on it, under
its name in the source (`RimeLetter` stands for `InputLetter`, and so on). The
candidates of librime are a table (`Menu`): for a number of unconverted keys,
how many keys each candidate converts and whether the filter would keep it.
`Schema` says what librime does with a letter it has no room for (gives the text
away, drops it, refuses), whether its Backspace reopens a choice, and what
becomes of a commit when a choice leaves nothing to choose from (text, a
refusal, no text: `Completed`); all three are external. `raw` and `letters` are
`raw_keys_` and `pinyin_letter_count_`, `prefix` counts the keys in
`automatic_commit_text_prefix_`, `offset` and `stack` are the current page and
`previous_page_offsets_`.

`RebuildComposition` types the keys again and stops at the first one that is
refused, as the code does. After a rebuild the automatic segment may be another
candidate than the first time: the comment at `rime_engine.cpp:464` speaks of
the *first* choice, and the code takes the first on the page on display.

### Composition

Three parties of one composition: the engine in the broker (`engine`), the
snapshot the text service keeps of the last answer (`tip`), and the candidate
window from which the user reads the digits (`window`), with the settings file
(`file`) and the host's field (`field`). As in `TextService`, a call with
several outcomes is the set of the records it may leave; `Exchange` has three:
served and answered, served and the answer lost, not served.

| Model | Code |
|---|---|
| `tip.snapshot`, `.offset`, `.settings`, `.switchDown`, `.switchUsed` | `snapshot`, `candidate_page_offset`, `settings`, `switch_key_down`, `switch_key_used` |
| `Slice`, `TipSlice`, `WindowSlice` | `MakeCandidatePageSlice` |
| `KeyDown`, `SwitchKeyDown`, `SwitchKeyUp` | `OnTestKeyDown`/`OnKeyDown`, `OnTestKeyUp`/`OnKeyUp` with `HandleKeyDown`, `HandleKeyUp` |
| `SwitchKeyUpElsewhere`, `SwitchKeyDownUnseen` | a switch key that another window gets, or a disabled field |
| `RefreshSettings`, `EnsureSession`, `AbandonSession`, `ResetCompositionState`, `SynchronizeInputMode`, `ToggleInputMode` | the methods of these names |

What the model makes explicit and the properties have to live with (`past`):
`stale` (an answer about the composition was lost, or the settings changed
under it: the window shows the old page until the next key), `resized` (a
setter was lost, so engine and text service count different pages until the
session ends), `old` (a `kReset` was lost, or the mode was changed by someone
else: `SynchronizeInputMode` sends no `kReset`, so the engine's letters
survive and come back with the next one). These are ways in which the code
gives up agreement for good reasons or bad; the properties claim agreement
everywhere else.

The switch key may go down again while it is down: by repetition, or as the
second Shift. `HandleKeyDown` treats each down alike, so it starts the press
anew, and `past.clean` says that the service was asked about no other key since
it last saw a switch key go down. A toggle needs that (`ToggleUnlessUsed`); that
no other key was pressed at all since the switch key went down the code does not
give (see [below](#noticed-while-modelling)).

### ThemeCatalog, ThemeStore

`ThemeCatalog` is what everybody who reads a theme by its path relies on: one
theme under an identifier, complete when it appears, never changed in place.

`ThemeStore` has the processes that write: windows of the settings application
(several full ones may be open, the quick menu once) and the broker's menu
action. Each window's UI thread runs one handler at a time; a save is three
system calls (`SaveOpen`, `SaveWrite`, `SaveMove`) between which everyone else
may step; background jobs (`ImportJob`, `RemovalJob`) run on, and their results
are posted back (`ImportDone`, `RemovalDone`).

| Model | Code |
|---|---|
| `app[w].own`, `.listed`, `.combo` | `settings_`, `installed_themes_`, the controls that are read by `SaveFromControls` |
| `app[w].save` | the call of `SaveSettings` under way, and what its caller does when it fails |
| `app[w].importing`, `.package`, `.posted` | the disabled import button, the background thread, `DispatcherQueue` |
| `disk[d]` | a directory: staging, under its identifier, quarantined; `by`: whose handle or job it is in |
| `temp` | `settings.ini.tmp` of the settings application, and the broker's own name |

A directory is a number, which a rename keeps as it keeps the file identity the
code compares (`GetFileInformationByHandle`). `flaw` names the first check
that refuses a package; `.zlt` and `.ssf` imports share the job, an `.ssf` one
looks for its theme earlier. `crowded` packages unpack to more than 128 entries
(archive entries and the directories they imply): the import counts the
former, the removal both.

Ghosts (`past`): `together` (two windows saved at once into their one temporary
name), `crossed` (a window saved a copy older than the file, selected a theme
from a list that still had it though it was gone (`Stale`), or removed a theme
that is in use where the window does not see it: in another process, or in the
file, which names another theme than the window's own copy (`Crosses`)), `cut`
(between a removal's rename and its save the window was killed, or could not
identify the renamed directory and stopped), `left` (a job was ended or failed
to clean up, or a removal stopped there).

### ThemePackage

`ValidateZltArchive`. An archive is what stands at which position: a local
header, a unit of data and a descriptor take one position each. The check is an
operator; its properties compare what it accepts with what a program sees that
reads the file from the front (`FromTheFront`), and with the tree it unpacks to
on a file system that ignores case. The code calls it once, before extraction;
`Check` is that call.

`IsArchive` says what a file is in this abstraction: every name has a component,
and the units of data that a descriptor measures contain no other descriptor. A
reader from the front finds the end of such data by unpacking it and verifies
its checksum; the check does neither, so where a compressed stream ends is
external. Local headers, names, sizes and positions are whatever the file says.

### CandidateWindow

`candidate_window.cpp`. Handlers call each other, so each is a function of
`w = [win, hwnd, box]` (object, system window with its screen, mailbox) and of
`luck`, the call that fails in this step.

| Model | Code |
|---|---|
| `win` | members of the object: `presentation_requested_`, `pending_presentation_`, `presentation_dirty_`, `verified_caret_`, `caret_focus_`, `snapshot_`, `settings_`, `layered_rendering_enabled_`, the fade, the animated width, the layered surface |
| `box` | `CaretMailbox`: `query_pending`, `revision`, `completed_revision`, the rectangle, and the worker's progress |
| `hwnd` | the window: visible, layered style, size, timer, invalid region, what the screen shows |
| `env` | foreground, `WM_ACTIVATEAPP` messages under way, focus, caret, animation setting, dark mode |
| `ShowCandidateWindow`, `HideCandidates` | calls of the text service |
| `CheckFocus`, `MeasureCaret`, `RecheckFocus`, `AnswerQuery` | `QueryCaretOnWorker`, `ReadFocusedCaret` |
| `CaretPositionReady`, `CaretPositionTimer`, `ActivateApp`, `FadeTimer`, `WidthTimer`, `PaintWindow`, `ButtonDown`, `ButtonUp`, `CaptureChanged`, `NcDestroy`, `DpiChange` | the cases of `HandleMessage` |

`revision` is abstracted to whether the query under way (`fresh`) and the answer
in the mailbox (`done`) have the current number: all the code ever asks. The
calls that may fail are those whose failure the code handles or overlooks: both
timers, the thread's focus, the worker's start, the posted message, the layered
style, device, drawing, presentation (in a painting and in a fade), pictures and
theme. Sizes are 1 to 3 wide and 1 or 2 high: what a presentation needs, what
the animation passes through, what is larger than both.

A behaviour has a *scene*: the things that may happen in it. Without this the
product of all timers, failures and system changes is out of TLC's reach; with
it, every pair of things that touch each other is in some scene (the list is in
`MCCandidateWindow`).

Exemptions, each of them a behaviour of the code (ghosts in `past`):

* `direct`: `Show` without the foreground shows at once and leaves an older
  presentation waiting, which is presented again on return.
* `reshown`: the button calls `SetExpanded`, which shows again *what is shown*;
  if newer candidates wait for the caret at that moment, they are replaced by
  the older ones until the next key (`candidate_window.cpp:1269`).
* `failed`: two paintings fail in a row, or the device cannot be made: the
  window stays as it is until something else invalidates it. One failed painting
  is made up for, and `ScreenIsCurrent` says so.
* `missed`: nobody looks whether a frame of a fade was presented. When it was
  the last, the window stays half transparent until it is painted again.
* `untimed`: `SetTimer` for the caret failed, unnoticed. Then the query made at
  the same time brings the candidates, unless the message with its answer does
  not reach the queue either (`lost`).

### The proof modules

`TextServiceProofs` and `TextServiceDeliveryProofs` (which extends it),
`BrokerSessionsProofs`, `ThemeStoreProofs`, `ThemePackageProofs`,
`CandidateWindowProofs`, `RimeEngineProofs` and `CompositionProofs` (which
extends it) hold theorems about the modules they are named for, see
[the proofs](#the-proofs).

`MCTextService`, `MCBrokerSessions`, `MCComposition`, `MCDesktop` and
`MCCandidateWindow` give the constants values for TLC. `MCDesktop` checks
`ThemeStore` and `ThemePackage` in one run: they share no variable, so a
behaviour moves in one of them (its `world`) while the other rests. Operators
marked *Wrong on purpose* or *Mutant* are variants with a plausible bug; nothing
uses them, they serve to see that each property can fail.

## The runs

| Run (cfg) | Question | Properties |
|---|---|---|
| `TextServiceSafety` | Are waiting keys served, and in their own field, mode and order, whatever happens? Does the session fit the field? | `TypeOK`, `QueueIsServed`, `SessionMatchesField`, `ReplayStaysInField`, `ReplayStartsInChineseMode`, `DeliveryKept` |
| `TextServiceLiveness` | Does every key leave the queue? | `QueuedKeysLeave` |
| `BrokerSessions` | Do processes keep to their own sessions? Does every exchange of a client end that does not itself stop for ever, and is the pipe freed if none does? | `TypeOK`, `IsolatedUnlessCollision`, `ExchangesEnd`, `PipeIsFreed` |
| `Composition` | Do engine, text service and window agree on pages, candidates and letters? Who may leave a session behind, and what may toggle the mode? | `TypeOK`, `PagesFollow`, `KeysAccounted`, `BeliefMatches`, `ShownIsSelected`, `NoOldLetters`, `OrphansAreLost`, `ToggleUnlessUsed` |
| `Desktop` | Are themes whole and never replaced, is the one in use installed, does every job answer? Is an accepted package read alike by all its readers? | `TypeOK`, `InstalledWhole`, `ActiveIsInstalled`, `FileWhole`, `SelectedIsListed`, `LeftoversExplained`, `ImportsAnswer`, `HeldStays`, `NeverReplaced`, `ReadersAgree`, `UnpacksToATree` |
| `CandidateWindow` | Does the window show the newest candidates, at the caret of the control that has the focus, drawn for the current look, and go away for good? | `TypeOK`, `CaretOfFocus`, `StaysHidden`, `LatestIsShown`, `NotOverOthers`, `WillPresent`, `StaysAtCaret`, `ShownOpaque`, `ScreenIsCurrent` |
| `TextServiceStaleRequeue`, `TextServiceAcceptedKeys`, `TextServiceDrainedKeys`, `TextServiceSurface`, `TextServiceDirectMode`, `BrokerRestart` | Does the code keep to what its comments, tests and documents say? (No, see below.) | one each |

Bounds of `TextServiceSafety`: two fields (symmetric), three keys (letters,
spaces and punctuation), a queue of two, a batch of one, two events of host or
broker. Three keys overflow the queue; one key per batch makes every replay of
two keys put a rest back; two events let the focus leave and come back, or a
broker exit meet a change of scope, at every point of the other actions. A space
is the key that ends a composition and commits text, punctuation the one whose
failed edit turns the rest of the replay into text. The other kinds occur in
`TextServiceLiveness` (one field, all seven kinds, a batch of two and a queue of
three). `MaxKeys` and `MaxEvents` are the only bounds in guards; `typed` and
`events` grow to them and nothing else is cut.

Switches: `TimerMayFail` (SetTimer) is on in the safety run and off in the
liveness run: the queue that finding 1 leaves behind has no timer when
SetTimer fails, and then waits until the next key or focus change.
`CaretMayFail` is on only in the run of finding 3, since it breaks
delivery-once in all others.

Bounds of `BrokerSessions`: two text services, numbers 1 and 2, one broker exit;
one service enters an ordinary field and then a restricted one, the other a
restricted field (`Fields`). Two numbers suffice for both services to hold
sessions and for a leaked session to take the number a third would need; two
fields of one service are what a late request or a leaked session could mix up.

Both liveness properties are about clients that go on (`GoesOn`): nothing in the
code limits the time between `CreateFile` and the write of a request, and the
server reads without a limit. `ExchangesEnd` asks it of the client it speaks of
only: a client that stops with the pipe open does not hold up the threads of the
others, which give up. `PipeIsFreed` asks it of all clients, since such a client
keeps the only instance for as long as its process lives.

Bounds of `Composition`: a limit of three letters, pages of one or two, one or
two rows, the stub or a librime that has room for two keys and then gives the
text away, drops the composition or refuses the letter (and then reopens
choices); one key by itself has no candidates, so a choice may leave keys
without any, and the commit that follows gives text, is refused or empty. One
lost answer, one event, five steps in all. The limit of librime is below the
adapter's, as in the program, so that automatic segments, rebuilds and the full
state all occur within five keys. The lists of candidates end within, at the end
of and beyond a group of pages, with filtered ones at both places.

Bounds of `Desktop`: two windows and the broker, three directories, three acts
of the user (a kill is one), two failing system calls; an installed theme,
another package of the same identifier with more than 128 entries, one that
fails its last check. Three acts suffice for an import against a removal
against a kill. Two failures suffice for a failed save whose undo fails too:
with a third, a save of the fallback can fail after them, which the property
excuses. The archives are all combinations of a manifest and two more records
with hidden records, gaps, trailing data, descriptors, entries that point to
another's header, and names that differ in case or need another as a directory.

Bounds of `CandidateWindow`: two controls (symmetric), two presentations, two
events, one failing call, one posted answer that waits. Two
presentations are an old and a new one; two events let the focus or the
foreground go and return. `MaxReady` is a bound on the message queue: one answer
in the mailbox and one message are what the code can tell apart.

`ImportsAnswer` and `WillPresent` take the place of liveness properties: in the
first, each step of a job brings its directory closer to the end, in the
second the timer that is armed repeats; what remains to be shown is that no
path leaves without the job or the timer, and that is an invariant.

Deadlock checking is off in all runs: at the bounds of keys and events, an
idle system stops.

**Fairness.** Weak fairness for what the code or the operating system goes on
doing by itself: the timer messages while the timer runs, the grant of an
edit TSF accepted, the loop of a handler, time, the server's loop, the limit
of an exchange. None for the user, the host, the start of a broker or its
becoming ready, nor for a client between opening the pipe and its write:
`QueuedKeysLeave` holds though the broker never comes up.

## The proofs

### TextService

Proved for any number of fields, keys and events, any capacity and any batch
size, and any set of kinds of keys. In `TextServiceProofs`:

* `TypeCorrect`: `Spec => []TypeOK`, which includes that the queue never
  exceeds `Capacity` although keys are pushed one by one, put back after a
  batch, and pushed while a replay is out;
* `SessionMatchesFieldAlways`: `Spec => []SessionMatchesField`: the session was
  created for the very field that has the keys, and it is restricted exactly if
  that field is;

and in its second part

* `QueueIsServedAlways`: `Spec => []QueueIsServed`: keys that wait for a field
  have the timer, or one edit that can still be granted, and never both.

In `TextServiceDeliveryProofs`:

* `ImplementsKeyDelivery`: `~CaretMayFail => (Spec => DeliveryKept)`, the
  refinement of `KeyDelivery`. With a host that takes the text of an edit and
  refuses its caret it is false: `TextServiceDrainedKeys` shows a key twice;
* `OnceInOrderAlways`: `~CaretMayFail => (Spec => []OnceInOrder)`: the keys of a
  field are there once, in the order in which they were typed, and in no other
  field;
* `DrainedOnceUnlessCaretFails`: `~CaretMayFail => (Spec =>
  DrainedKeysTakeEffectOnce)`. The run `TextServiceDrainedKeys` refutes the same
  property with `CaretMayFail = TRUE`: the refused caret is the only cause.

In its second part, for every host, also one that refuses a caret:

* `ReplayStaysInFieldAlways`: `Spec => ReplayStaysInField`: a key that waited
  takes effect only in the field it was typed into, and under the privacy it was
  typed under. The one exception is text in place of a failed edit: it may meet
  another privacy, but then behind the gate and with no session left;
* `ReplayStartsInChineseModeAlways`: `Spec => ReplayStartsInChineseMode`: once
  the mode was switched to direct input, also from within an edit, no key of the
  queue and none the loop comes to takes effect. What the loop had begun by then
  is finished (`ReplayMark`, `ReplayTail`), against the comment at
  `text_service.cpp:1681`: finding 5.

Assumptions: `CapacityAssumption`, `TextServiceAssumption` (the constants have
their types, `NoContext` is no field).

Argument. The invariant is `IInv == Good(tip) /\ World`: the record has its
type, a queue within its bound and a session that matches (`Good`), and the
other variables have theirs (`World`). It is stronger than the two properties
together in one way that matters: it holds for *records*, not states, so that it
can be carried through the chain of calls of a handler, through records that are
never a state. Each operator has a lemma: from a good record, a call with one
outcome leaves a good record; a call with several leaves results whose records
are all good (`GoodResults`). The lemmas follow the call graph: `CancelGood`,
`AbandonGood`, `SynchronizeGood`, `AllowGood`, then `EditGood`,
`KeyResponseGood`, `ProcessGood`, then `FallbackGood`, `ScheduleOrFallbackGood`,
`QueueGood`, `EnsureGood`. Each group of actions has one lemma that combines
them, `StepInv` the groups, and the theorems follow.

`QueueIsServed` is not inductive: that `scheduled` says the truth depends on no
edit naming a generation to come. `QueueInv` adds this (`Served`), and what
holds while the loop has the keys (`InReplay`: the queue is empty, and if its
generation has moved on it has no field). The argument follows generations: a
call keeps the queue and all that attends it (`Kept`) or drops it and raises the
generation (`Dropped`), which outdates every edit. Nearly all calls are such a
move (`AbandonDrops`, `AllowMoves`, `EditMoves`, `ProcessMoves`,
`FallbackDrops`), moves compose (`MovedOn`) and a move keeps the queue served
(`MovedServes`); the few other calls start the timer (`ScheduleServes`,
`QueueServes`) or request the edit.

The refinement adds `FieldInv`: keys that wait for a field were typed into it,
and the loop's rest fits the queue it may be put back into (else `ReplayEnds`
would lose keys from the back, which no step of `KeyDelivery` does).
`EditTakes`, `ProcessTakes`, `FallbackTakes` and their like say which keys the
results of a call name: all or none, and none if it failed. A step then settles
no key, the loop's head or the whole queue, and `NoneSettle`, `HeadSettles`,
`AllSettle`, `TypedSettles` and `TypedWaits` turn each into a step of
`KeyDelivery`.

`OnceInOrder` follows from the refinement, not from the text service: it is a
property of every behaviour of `KeyDelivery`. It is not inductive, since it says
nothing of the keys that wait. `Risen` adds that these rise too, and that each
is younger than all that took effect in any field and no younger than the last
key typed. `SettlingRises` moves a prefix of what waits into the text,
`TypingRises` adds the new key behind both, and each step of `KeyDelivery` is
the first and then, if a key was typed, the second (`StepRises`). Two places of
the text with one number are then one place, which is
`DrainedKeysTakeEffectOnce`.

`ReplayStaysInField` and `ReplayStartsInChineseMode` compare what a key was
typed under with the moment it takes effect, and the queue stores none of the
former. The invariant `OriginInv` says where the service keeps it: while keys
wait for a field (`QueueBound`), or are with the loop and its generation is
current (`LoopBound`), the record's own mode, key context and privacy are those
of every key, and keys have distinct numbers (`Numbered`). `BoundStays` shows
that any move in the sense above keeps this, since `Kept` leaves mode and key
context alone and `Dropped` empties the queue. That leaves the host changing the
scope of the field behind the service's back: `ProcessGated` shows that the
engine's answer then inserts no key (`Shut`; a page key that meets a composition
touches no field and is served regardless), `CommitFallbackGated` the same for
the text of one key, and `FallbackEntitled` that the whole queue becomes text
only while the gate has not changed. `ReplayKeyEffects`, `ReplayMarkEffects` and
`ReplayTailEffects` put them together with the one call that opens the gate
anew, for the rest of a loop after a failed edit. The steps after the first look
at no generation, so all that binds them is `Within`: the service is still in
the field and the privacy of the loop's keys, or in none.

### BrokerSessions

`BrokerSessionsProofs` proves, for any set of text services, any number of
fields and broker exits, and any width of session numbers above 1:

* `TypeCorrect`: `Spec => []TypeOK`, which includes that no session has the
  number 0, over any number of wrap-arounds;
* `IsolatedUnlessCollisionAlways`: `Spec => []IsolatedUnlessCollision`: until a
  request names a number of an ended broker process and finds a session, every
  text service's session is its own, made for its field and as restricted as
  the field, and no session has taken a letter of another field.

Assumption: `BrokerSessionsAssumption` (`NoTip` is no text service; the bounds
are numbers).

Argument. Isolation is a fact about a session a text service *knows*; it is
kept because of what is true before the text service knows it and after it
gave it up. So the invariant `IInv` follows a number around: `Answering` (the
answer in the pipe names a session made for the client that waits), `Learning`
(the answer a client has read and not yet used does), `Holding` (the session
kept is its own, unless the broker has just closed it: `Closed`), `Asking` (a
request in the pipe, even one whose client is gone, names a session of its
sender). `PipeOK` has what makes these survive a client that gives up: a
request stays in the pipe unchanged, its sender has no answer while it does,
and the sender of an orphaned `close` has forgotten its session already. The
last is the point of the whole: were the session kept after a lost `close`, a
late one would remove a session in use. `TipStep` is the one lemma about a
step of a text service, `AnswerStep` the one about the broker's answer; the
actions are instances of them.

### ThemeStore

`ThemeStoreProofs` proves, for any number of windows, themes, packages,
directories, acts and failures: `TypeCorrect`, `InstalledWholeAlways`,
`LeftoversExplainedAlways`, `ImportsAnswerAlways`, `FileWholeAlways`,
`SelectedIsListedAlways`, `HeldStaysAlways`, `ActiveIsInstalledAlways`, and
`ImplementsCatalog` (`Spec => NeverReplaced`): the store of directories
implements the catalog.

Assumptions: those `ThemeStore` states about its constants (the broker is no
window, names differ, the themes installed at the start have no flaw and room on
the disk, `None` is neither settings nor a package).

Argument. `IInv` adds to `TypeOK` what the promises about installed themes
depend on before and after a directory is installed: `SoundDirs` (what the
content of a directory says of its package, from staging on), `OneAtAPath` (an
identifier leads to one directory), `Deletions` (while a removal's save is
under way, its directory is quarantined, complete and in no other hands, so
that the undo can bring it back), `Consistent` (a window's selection is in its
list, and so is the one it would go back to if the save under way fails), and
`Unmixed` (as long as no two windows were in `SaveSettings` together, at most
one has the temporary file, which is empty when it writes). The actions fall
into three kinds for a directory: its identifier's path is left alone (`Kept`),
gets a checked directory (`Published`), or loses one (`Taken`); `DiskStep`
says so of every step, and the invariants of directories and the refinement
follow from the three cases alone.

`ActiveIsInstalled` speaks of the file while nobody saves; why it holds is in
the processes' copies while they do. `ActiveInv` adds to `IInv`: `Temps` and
`Ready` (who has a temporary file open, and that what is about to replace
settings.ini is the mover's own copy), `Settled` (a deletion, a fallback and a
reset have the default selected), `Undoes` (an undone deletion selects the theme
whose directory comes back) and `Coverage`. The last is the heart: as long as
nothing excuses it, the file's theme can be used or some process owes its
replacement (`Owed`: its deletion's save, or the fallback after a deletion that
could be neither saved nor undone), and every copy as new as the file follows
it, which means that it has selected the file's theme, the default, or one that
is installed and about to be saved. `Finished` is what every caller of
`SaveSettings` does with its result; `SaveFailed` uses it to show that a debt is
paid or handed on, and that it takes a third failing call to lose it.

The proof corrected the property. It used to excuse less, and TLC found nothing
within the bounds of the run; the inductive step failed for two behaviours that
need about seven acts of the user. A window whose fallback could not be saved
shows the default while the file still names the theme; when the undo of another
window's deletion has brought the theme back, the first may remove it without
switching. And after its fallback a window selects the theme it was asked to
from a list that it read before the save. Both are now part of `crossed`.

### ThemePackage

`ThemePackageProofs` proves both properties of the archive check for every set
of archives, paths of any depth, every case mapping and every limit:

* `UnpacksToATreeAlways`: `PackageSpec => []UnpacksToATree`;
* `ReadersAgreeAlways`: `PackageSpec => []ReadersAgree`.

Assumption: `ArchivesAssumption`, that the files are archives in the sense of
`IsArchive`.

Argument. `PackageInv` says that an accepted archive is valid; the rest is about
valid archives. *The tree*: every expected path is a prefix of an entry's
(`ExpectedFrom`), so the directories above it are expected too
(`DirectoriesAbove`); if one path lies below another when case is ignored, the
prefix of the lower one is an expected directory that equals the upper one when
case is ignored, and the check lets only one such entry through
(`ValidUnpacks`). *The readers*: a header leads forward (`AheadIsAhead`), so the
walk is a function that is defined from the back of the file to its front
(`WalkExists`, with `LeastNat` in place of an induction) and `FromTheFront` is
its value at the first position (`FromTheFrontIs`). A local header says of its
name and method what the entry says (`HeaderRead`), and the end of its data is
where the directory has it: without a descriptor it says so itself, with one
the reader takes the next descriptor, and by `IsArchive` none lies between. That
no header lies inside another's data is not among the checks, which only count:
as many starts as entries, and the starts are the ends but for the first and
the last. `NothingInBetween` derives it by taking the first interrupted header
and the first header that interrupts it: some data ends there, and either its
header is interrupted earlier or interrupts earlier. `WalkFinds` then reads the
entries off the walk, from the back to the front.

### CandidateWindow

`CandidateWindowProofs` proves, for any number of controls, themes,
presentations, events, failing calls and posted answers, and for any set of
scenes, each of the nine invariants that the run checks: `TypeOKAlways`,
`CaretOfFocusAlways`, `StaysHiddenAlways`, `LatestIsShownAlways`,
`NotOverOthersAlways`, `WillPresentAlways`, `StaysAtCaretAlways`,
`ShownOpaqueAlways` and `ScreenIsCurrentAlways`.
They are read off one inductive invariant (`Invariance`).

Assumptions: `NamesAssumption` (`None` and the built-in theme are no skins or
controls), `BoundsAssumption` (the bounds are numbers), `ScenesAssumption` and
`RecordsAssumption` (`None` is no place, presentation, surface or screen).

Argument. The handlers call each other eight deep, and a record `w = [win, hwnd,
box]` on the way is no state. So all that is kept is said of records. `Intact`
has what the parts of one record owe each other: a visible window has candidates
and a theme (`Seated`), nothing refers to a window that is gone (`Absent`), a
visible window that hides is fading and a fade that does not hide ends opaque
(`Fades`), the surface was made for the present look and covers the window
(`Fits`), surface and screen are those of the candidates when nothing is left to
paint, and opaque after the fade unless its last frame failed (`Drawn`), the one
retry is used up only by a painting that failed (`Retries`), a pending query has
its worker (`Asking`). What relates a record to what happened is a set of
promises a handler keeps, `Follows`: `Attested` (any place that may *still*
become the verified one, in the mailbox or with the worker, is of the present
control since it was noticed), `TakenBack`, `Latest`, `AtCaret`, `Backed` (what
is asked for waits), `Timed` (the timer runs, or could not be set) and `Leaving`
(a window that hides although it is asked for has something new to show).
`WillPresent` needs one more, which the desktop can disturb and which is
therefore kept by the step and not by the handlers: `Heard`, that without the
timer a presentation that waits has a query or a message on its way. Each
message that is read without a presentation starts the next query, and one that
presents leaves nothing waiting; `Late` says when it is needed. The lemmas go up
the call graph: painting (`PaintPaints`), fades (`FadeAdvances`, `FadeStarts`),
`HideHides`, `ShowInternalShows`, then `PresentFollows`, `RequestFollows`,
`ApplyFollows`, `ActivatedFollows`, `ShowKeeps`. A few handlers keep less, and
each says why: `Show` replaces what was asked for (`ShowKeeps`), a deactivation
stops the timer (`DeactivatedHides`), the button may show older candidates
(`SetExpandedKeeps`).

`BecomeKeeps` turns such a result into the invariant after a step. Two parts of
the invariant belong to the desktop: `Told` (the last activation message under
way, or else the last that arrived, tells whether the application has the
foreground), without which `NotOverOthers` and `WillPresent` would depend on
messages that overtake each other, and `Clock` (nobody noticed anything in the
future), which makes an answer that is measured now newer than what was
noticed.

### RimeEngine and Composition

`CompositionProofs` proves every property the run of `Composition` checks, for
any candidates librime may have, any limits, page sizes, windows and seed table,
any schema, and any number of keys, events and lost calls: `TypeCorrect`,
`BeliefMatchesHolds`, `ShownIsSelectedHolds`, `NoOldLettersHolds`,
`KeysAccountedHolds`, `PagesFollowHolds`, `OrphansAreLostHolds` and the action
property `ToggleUnlessUsedHolds`. All are read off one inductive invariant
(`Invariance`).

Assumptions: `RimeEngineAssumption` (the limits are positive and there are no
candidates for no keys), `SeedAssumption` (the seed table has entries for
numbers of letters above 0), `CompositionAssumption` (sizes and bounds are
numbers in range).

The engines, in `RimeEngineProofs`. An engine is `Sound` if its record fits
(`Keeps`: the count of letters is right and within the limit, no two separators
meet, every key is accounted for) and the pages on its stack follow from each
other. `HandleServed` says that every call answers a sound engine and what it
may have changed. Four computations need an induction:

* what `VisibleFrom` reads off librime's list (`SeenIs`, `SeenPlaces`,
  `SeenSplit`): places in order, and from the candidate after a page on the same
  that were seen behind the page (`Follow`);
* `RebuildComposition` (`RebuildIs`): whatever the schema, what is typed again
  is a part of the keys from the first, up to a refused one, and none of them is
  both in the prefix and in librime's composition (`Covered`); where librime
  commits what it gives up, each is in one of the two (`Whole`);
* the keys `Accounted`: a letter librime drops or refuses leaves none twice, one
  it answers with a commit ends in the prefix or the composition
  (`ProcessTrackedKeyIs`), and so does a choice that leaves nothing to choose
  from, unless the commit that follows has no text. Only for a librime whose
  Backspace reopens a choice none of this holds, as noted below;
* the pages from the window's first to the one in use (`Ahead`).

The library's induction theorems take an operator, which the provers cannot
instantiate, but its theorem that a well-founded relation has minimal elements
(`WFMin`) takes a set. `LeastNat` and `Induction` come from it and are cited
with the set of the numbers up to which the claim holds; `Recursion` does the
same for recursive functions.

The handlers, in `CompositionProofs`. They are operators from a record
`s = [tip, engine, window, past]` to the set of records they may leave, so each
has a lemma that says what every member of that set keeps. `Good` has four
parts. `Base` holds even between two exchanges of one handler: types, a live
session has a sound engine, orphans are lost calls. `Belief` is what the text
service knows of its engine: there is input if its snapshot has a preedit or
letters are left over (`past.old`), and the snapshot is the engine's unless an
answer was lost or a setting changed (`Minded`, `Informed`). `Windowed`: the
window mirrors the text service's snapshot, offset and page size. `Agrees`:
engine and text service have the same page size. While `EnsureSession` and
`RefreshSettings` tell the options one by one, the last does not hold; there
`Ready` takes its place, and `WithOptionsIs` shows that it holds again after
them. `Fine` adds what `ToggleUnlessUsed` needs: while `switch_key_used` is not
set, the service was asked about no other key since it last saw a switch key go
down (`Alone`).

`BeliefMatches` alone is not inductive: what makes it one is that no handler
leaves input in the engine which the text service does not show (`Minded`), and
that a reset the broker lost is on record. `ShownIsSelected` follows without
another invariant: by `Mirrors` window and text service cut the same page, its
offset is the place of the marked candidate (`SliceAt`), and that is where the
engine's page begins in what it showed (`Ahead`, `RimePlaced`).

### What is not proved

Every invariant and action property of the passing runs is a theorem. Checked by
TLC only: the liveness properties `QueuedKeysLeave`, `ExchangesEnd` and
`PipeIsFreed`. They need fairness, and with it `ENABLED`, which is out of the
prover's reach.

## What the code does against its own words

Each is a run with a counterexample; the quotes and lines are in
`PROJECT.json`.

1. **Stale requeue** (`TextServiceStaleRequeue`). If the edit of the *last* key
   of a batch re-enters the service and cancels the queue, the loop has no
   further check of the generation: the rest of the old queue is pushed into
   the new one.
2. **Accepted keys lost** (`TextServiceAcceptedKeys`). A broker that stops
   answering during a replay costs the key and all keys behind it: the
   session and the key context are given up first, and then the text fallback
   is refused because there is no key context.
3. **Keys twice** (`TextServiceDrainedKeys`). An edit that fails on the caret
   after inserting its text is retried as text.
4. **Surface without field** (`TextServiceSurface`). After a focus loss reported
   from within an edit, the snapshot is stored and candidates are shown.
5. **Text in direct mode** (`TextServiceDirectMode`). A mode switch that is
   reported from within an edit cancels the queue, but the loop finishes the key
   at hand: the mark behind a selection, or the rest of the keys as text after a
   failed edit.
6. **Numbers over a restart** (`BrokerRestart`). A session number kept over a
   restart of the broker reaches another process's session.
   `IsolatedUnlessCollision` shows that nothing else breaks the isolation.

## Noticed while modelling

Behaviours that contradict what one would expect, without a run of their own;
the properties exempt them by a ghost variable, and removing the exemption makes
TLC show them.

* **The button brings back older candidates** (`LatestIsShown` without
  `past.reshown`): see the exemptions of `CandidateWindow`.
* **A theme that can be installed but not removed** (`LeftoversExplained`
  without `crowded`): `docs/theme-format-v1.md:26` allows 128 entries, the
  import counts the archive's, the removal counts the directories their paths
  imply as well, and leaves the quarantined directory behind.
* **A theme removed behind a window's back** (`ActiveIsInstalled` without
  `past.crossed`): `DeleteTheme` switches to the default only if the window's
  own copy has the theme selected. The copy may be older than the file, or newer
  than it after a save that failed, and then settings.ini is left with a theme
  that is gone until some window reads its catalog again.
* **A removal that stops after the rename** (`ActiveIsInstalled` without
  `past.cut`): when the quarantined directory cannot be identified
  (`MainWindow.xaml.cpp:2705`), `DeleteTheme` returns with the directory renamed
  away and the settings unchanged, so settings.ini names a theme that is gone
  until some window reads its catalog. `docs/` promise nothing of this case.
* **A timer for the caret that is not there** (`WillPresent` without
  `past.lost`): `SetTimer` is not checked at `candidate_window.cpp:549` and
  1451. When it fails, one lost message of the worker leaves the candidates
  waiting until the next key.
* **A half transparent window** (`ScreenIsCurrent` without `missed`): when the
  last frame of a fade cannot be presented (1338, 1360), nobody tries again.
* **A Backspace that takes no key** (`KeysAccounted` without `reopens`). After a
  choice librime's Backspace may reopen the choice instead. The adapter drops
  one of its own keys all the same (`rime_engine.cpp:323`), and a composition at
  the limit stays as long as it was, where `tests/rime_engine_tests.cpp` expects
  it to shrink.
* **The switch key not alone** (`ToggleUnlessUsed` asks no more than its name).
  Each switch key down, a repeated or second one too, clears `switch_key_used`
  (`text_service.cpp:1425`); and keys that another window or a disabled field
  gets are not seen, while `OnKillThreadFocus` keeps `switch_key_down`. So a
  later release toggles the mode although other keys were pressed in between.
* **A candidate window that is not layered** (`ScreenIsCurrent` without
  `failed < 2`). `ShowInternal` gives the window WS_EX_LAYERED once and
  remembers it in `layered_rendering_enabled_`. When the host destroys the
  window (it is owned), WM_NCDESTROY discards the rest but not this flag, and
  the window `Create` makes next is never made layered: UpdateLayeredWindow
  fails and the candidates stay blank, though the comment at
  `candidate_window.cpp:639` says that every candidate surface uses per-pixel
  alpha. A `SetWindowLongPtrW` that fails (line 1705) comes to the same.
* **Two windows, one temporary file** (`FileWhole`, `ActiveIsInstalled` without
  `past.together`): two windows of the settings application that save at the
  same time can leave a settings.ini with parts of both.

## Plan

All in place, in this order: `StartupKeyQueue`, `TextService` with its safety
and liveness runs; `KeyDelivery`, refined by it; `TextServiceProofs`;
`BrokerSessions` and its proofs; `RimeEngine` and `Composition`; `ThemeCatalog`,
`ThemeStore`, `ThemePackage`; `CandidateWindow`; `ThemeStoreProofs`;
`TextServiceDeliveryProofs`; `CandidateWindowProofs`; `RimeEngineProofs` and
`CompositionProofs`; `ThemePackageProofs`.

What would come next: the reading of theme pictures in chunks, and the text
service's caret inside a pair of quotation marks.

## Not modelled

Bytes: the wire codec, the text format of settings.ini, parsers of manifests
and of SSF containers, whose verdict is an input (`flaw`) where it matters.
Geometry, layout and drawing: the window keeps sizes and what is drawn, not
where. The candidate window's hover, its quick menu button and its preview
mode. COM reference counting, registration and scripts. `PipeServer::Stop`,
which only a test calls. These are sequential code whose errors are errors of
single calls, which the unit tests of the repository address. librime itself is
external. The walk of `ClassifyScope` over a host's input scopes is an input of
the model: a field is blocked, restricted or ordinary. The text service's caret
inside a pair of quotation marks and the reading of theme pictures in chunks
are left out: the first moves nothing between fields, the second keeps no state
in the broker.
