--------------------------- MODULE CandidateWindow ---------------------------
(***************************************************************************)
(* The window that shows the candidates next to the caret.                 *)
(*                                                                         *)
(* The text service asks for it (Show, Hide) on the host's UI thread.      *)
(* Where it belongs is known late: a thread-pool worker asks UI Automation *)
(* for the caret, leaves the answer in a mailbox and posts a message.      *)
(* Until then the window holds the presentation back.  The user meanwhile  *)
(* types, moves the focus and turns to other programs; the system resizes  *)
(* the window, destroys it with its owner, and reports late.  What the     *)
(* user sees was drawn into a bitmap that is made again whenever the look  *)
(* or the size changes, and is presented by a call that can fail.          *)
(*                                                                         *)
(* The code counts requests (revision); the model keeps whether the query  *)
(* and the answer in the mailbox still have the current number (`fresh').  *)
(***************************************************************************)
EXTENDS Naturals, Sequences, FiniteSets

CONSTANTS
  Controls,      \* the controls of the host that can have the focus
  Default,       \* the built-in theme
  Skins,         \* themes that have to be loaded
  None,          \* nothing there
  MaxShows,      \* presentations ever asked for
  MaxEvents,     \* what user and system do to the window
  MaxFailures,   \* system calls that fail
  MaxReady,      \* posted answers that wait
  Scenes         \* what may happen in one behaviour

ASSUME NamesAssumption ==
  /\ None \notin Controls \cup Skins \cup {Default}
  /\ Default \notin Skins
ASSUME BoundsAssumption ==
  MaxShows \in Nat /\ MaxEvents \in Nat /\ MaxFailures \in Nat /\ MaxReady \in Nat

VARIABLES
  env,     \* the desktop: foreground, focus, caret, system settings
  box,     \* the mailbox, the query under way and the posted answers
  win,     \* the object CandidateWindow
  hwnd,    \* the system's window, and what it shows
  past     \* what happened, for the bounds and the properties

vars == <<env, box, win, hwnd, past>>

-----------------------------------------------------------------------------
(* Types. *)

Contents == 1 .. MaxShows
Themes == Skins \cup {Default}
Settings == [theme : Themes, colours : BOOLEAN]
Look == [theme : Themes, dark : BOOLEAN, colours : BOOLEAN]

(* A place on the screen: where the text service or the worker saw the caret, and when. *)
Moments == 0 .. MaxEvents
Place == [from : {"text store", "caret"}, control : Controls, moment : Moments]

Opacity == 0 .. 2   \* none, in between, full
Full == 2
Size == [cx : 1 .. 3, cy : 1 .. 2]
Presentation == [content : Contents, fallback : Place, settings : Settings]

(* A behaviour has a scene: the calls that may fail in it (or a theme that is tried again *)
(* because a second has passed), what user and system do, and which presentations have    *)
(* more candidates than a page.                                                           *)
Failures ==
  {"theme", "timer", "caret timer", "thread info", "submit", "style", "device", "bitmap", "draw",
   "present", "post"}
Luck == Failures \cup {"good", "retry theme"}
Happenings ==
  {"foreground", "focus", "caret", "button", "settings", "animations", "dark", "destroy", "dpi"}
Scene ==
  [things : SUBSET (Luck \cup Happenings), foreground : {"own", "other"}, animations : BOOLEAN,
   wide : SUBSET Contents]
ASSUME ScenesAssumption == Scenes \subseteq Scene

Environment ==
  [foreground : {"own", "other"}, notices : Seq(BOOLEAN), focus : Controls, moment : Moments,
   animations : BOOLEAN, dark : BOOLEAN]

(* `pending': a query is under way; `done': the answer in the mailbox is of the current number. *)
Mailbox ==
  [pending : BOOLEAN, fresh : BOOLEAN, done : BOOLEAN, rectangle : Place \cup {None},
   step : {"none", "submitted", "checked", "measured", "answered"}, focus : Controls \cup {None},
   measured : Place \cup {None}, ready : 0 .. MaxReady]

(* The bitmap and everything made with it, whether that includes the theme's pictures, and *)
(* what is drawn on it.                                                                    *)
Surface == [look : Look, size : Size, pictures : BOOLEAN, drawn : Contents \cup {0}]

Object ==
  [requested : BOOLEAN, pending : Presentation \cup {None}, dirty : BOOLEAN,
   verified : Place \cup {None}, focus : Controls \cup {None},
   snapshot : Contents \cup {0}, settings : Settings, at : Place \cup {None},
   theme : Themes \cup {None}, dark : BOOLEAN, layered : BOOLEAN, retried : BOOLEAN,
   expanded : BOOLEAN, canExpand : BOOLEAN, pressed : BOOLEAN,
   fading : BOOLEAN, to : Opacity, hiding : BOOLEAN, opacity : Opacity,
   widening : BOOLEAN, target : Size \X (Place \cup {None}), from : 1 .. 3,
   surface : Surface \cup {None}]

(* The screen keeps what was presented last. *)
Screen == [drawn : Contents \cup {0}, look : Look, size : Size, opacity : Opacity]

(* Nothing is none of the records. *)
ASSUME RecordsAssumption ==
  None \notin Place /\ None \notin Presentation /\ None \notin Surface /\ None \notin Screen

(* `untimed': the timer for the caret was to be set, but is not; `failed': paintings that  *)
(* failed in a row, where a second is like any more and a device that is missing like two; *)
(* `missed': so did the last frame of a fade.  The code keeps none of the three.           *)
Handle ==
  [exists : BOOLEAN, visible : BOOLEAN, layered : BOOLEAN, size : Size, timer : BOOLEAN,
   untimed : BOOLEAN, invalid : BOOLEAN, failed : 0 .. 2, missed : BOOLEAN,
   screen : Screen \cup {None}]

(* `lost': the message of the last answer did not reach the queue. *)
Past ==
  [asked : Contents \cup {0}, shows : 0 .. MaxShows, events : 0 .. MaxEvents,
   failures : 0 .. MaxFailures, noticed : Moments, active : BOOLEAN, direct : BOOLEAN,
   reshown : BOOLEAN, lost : BOOLEAN, scene : Scenes]

TypeOK ==
  /\ env \in Environment
  /\ box \in Mailbox
  /\ win \in Object
  /\ hwnd \in Handle
  /\ past \in Past

-----------------------------------------------------------------------------
(* The handlers call each other, so each is a function of the state of the window,  *)
(* w = [win, hwnd, box], the call that fails in this step, and the environment.     *)

State == [win |-> win, hwnd |-> hwnd, box |-> box]

Wide == past.scene.wide
LookOf(o) == [theme |-> o.theme, dark |-> o.dark, colours |-> o.settings.colours]

(* DiscardDeviceResources: brushes, fonts, theme bitmaps and the layered surface. *)
Discard(w) == [w EXCEPT !.win.surface = None]

(* PresentLayeredSurface: works on a layered window that has a bitmap, and may fail. *)
CanPresent(w) == w.win.surface # None /\ w.hwnd.layered
Present(w, luck) ==
  IF CanPresent(w) /\ luck # "present"
  THEN LET s == w.win.surface
           cx == IF s.size.cx < w.hwnd.size.cx THEN s.size.cx ELSE w.hwnd.size.cx
           screen == [drawn |-> s.drawn, look |-> s.look,
                      size |-> [cx |-> cx, cy |-> s.size.cy], opacity |-> w.win.opacity]
       IN  [w EXCEPT !.hwnd = [@ EXCEPT !.screen = screen, !.missed = FALSE]]
  ELSE [w EXCEPT !.hwnd.missed = TRUE]

(* A picture of the theme that cannot be loaded is left out, until everything is made again. *)
LoadSurfaceBitmaps(o, luck) == o.theme # Default /\ luck # "bitmap"

EnsureLayeredSurface(w, size, luck) ==
  [w EXCEPT !.win.surface =
     [look |-> LookOf(w.win), size |-> size, pictures |-> LoadSurfaceBitmaps(w.win, luck),
      drawn |-> 0]]

(* A bitmap of the window's size, wide enough for the animation. *)
EnsureDeviceResources(w, luck) ==
  IF w.win.surface # None \/ luck = "device" THEN w
  ELSE LET widest == IF w.win.widening /\ w.win.target[1].cx > w.hwnd.size.cx
                     THEN w.win.target[1].cx ELSE w.hwnd.size.cx
       IN  EnsureLayeredSurface(w, [w.hwnd.size EXCEPT !.cx = widest], luck)

(* The system sets the size and sends WM_SIZE: a bitmap that does not cover it is discarded. *)
SizeChanged(w, size) ==
  IF w.hwnd.size = size THEN w
  ELSE LET sized == [w EXCEPT !.hwnd.size = size]
           surface == w.win.surface
       IN  IF surface = None \/ surface.size.cx < size.cx \/ surface.size.cy # size.cy
           THEN [Discard(sized) EXCEPT !.hwnd.invalid = TRUE]
           ELSE sized

(* ShowWindow(SW_HIDE); a hidden window is not painted. *)
Conceal(w) == [w EXCEPT !.hwnd = [@ EXCEPT !.visible = FALSE, !.invalid = FALSE]]

(* ++revision: the query under way and the answer in the mailbox are outdated. *)
Outdate(w) == [w EXCEPT !.box = [@ EXCEPT !.fresh = FALSE, !.done = FALSE]]

-----------------------------------------------------------------------------
(* Fading.  Nobody looks whether a frame was presented. *)

StartNativeFade(w, from, to, hideAfter, luck) ==
  LET begun == [w EXCEPT !.win = [@ EXCEPT !.to = to,
                  !.opacity = IF luck = "timer" THEN to ELSE from,
                  !.hiding = hideAfter /\ luck # "timer",
                  !.fading = luck # "timer"]]
  IN  Present(IF luck = "timer" /\ hideAfter THEN Conceal(begun) ELSE begun, luck)

(* The fade is over, or was never needed. *)
FadeOver(o, opacity) == [o EXCEPT !.fading = FALSE, !.hiding = FALSE, !.opacity = opacity]

(* Mutant: a frame that comes late goes on beyond the end of the fade. *)
AdvanceUnclamped(w, elapsed, luck) == Present([w EXCEPT !.win.opacity = w.win.to + 1], luck)

AdvanceNativeFade(w, elapsed, luck) ==
  IF ~(elapsed \/ ~env.animations)
  THEN Present([w EXCEPT !.win.opacity = 1], luck)
  ELSE IF w.win.hiding
  THEN Conceal([w EXCEPT !.win = FadeOver(@, Full)])
  ELSE Present([w EXCEPT !.win = FadeOver(@, w.win.to)], luck)

(* Hide without the flags of what was asked for: the window fades out or disappears. *)
Vanish(w, luck) ==
  LET reset == [Outdate(w) EXCEPT !.win = [@ EXCEPT
                  !.verified = None, !.focus = None,
                  !.widening = FALSE, !.expanded = FALSE, !.pressed = FALSE]]
  IN  IF ~w.hwnd.exists THEN reset
      ELSE IF env.animations /\ w.hwnd.visible
      THEN IF w.win.hiding THEN reset
           ELSE StartNativeFade(reset, w.win.opacity, 0, TRUE, luck)
      ELSE Conceal([reset EXCEPT !.win = FadeOver(@, Full)])

(* Mutant: the request and the presentation that waits survive. *)
HideKeepingRequest(w, luck) == Vanish(w, luck)

Hide(w, luck) ==
  Vanish([w EXCEPT !.win = [@ EXCEPT !.requested = FALSE, !.pending = None, !.dirty = FALSE],
                   !.hwnd = [@ EXCEPT !.timer = FALSE, !.untimed = FALSE]], luck)

-----------------------------------------------------------------------------
(* Painting.  Whoever sets what is drawn also invalidates the window. *)

Paint(w, luck) ==
  LET begun == [w EXCEPT !.hwnd.invalid = FALSE]
      made == EnsureDeviceResources(begun, luck)
      drawn == [made EXCEPT !.win.surface.drawn = w.win.snapshot]
      again(retry) == [Discard(made) EXCEPT !.hwnd =
                         [@ EXCEPT !.invalid = retry,
                                   !.failed = IF w.hwnd.failed = 0 THEN 1 ELSE 2]]
  IN  IF w.win.hiding /\ w.win.surface # None THEN Present(begun, luck)
      ELSE IF made.win.surface = None THEN [made EXCEPT !.hwnd.failed = 2]
      ELSE IF luck = "draw" THEN again(TRUE)
      ELSE IF luck = "present" \/ ~CanPresent(drawn)
      THEN [again(~w.win.retried) EXCEPT !.win.retried = TRUE]
      ELSE [Present(drawn, luck) EXCEPT !.win.retried = FALSE, !.hwnd.failed = 0]

(* One frame of the animated width, painted at once. *)
AdvanceNativeWidth(w, elapsed, cx, luck) ==
  LET over == elapsed \/ ~env.animations
      size == [w.win.target[1] EXCEPT !.cx = IF over THEN @ ELSE cx]
      moved == SizeChanged([w EXCEPT !.win.widening = ~over], size)
  IN  Paint([moved EXCEPT !.hwnd.invalid = TRUE], luck)

-----------------------------------------------------------------------------
(* Showing. *)

(* Mutant: the resources survive a change between the light and the dark theme. *)
DarkUnseen(o, settings, changed) == changed \/ o.settings.colours # settings.colours

(* appearance_changed: what the resources were made for is no longer true. *)
AppearanceChanged(o, settings, changed) ==
  changed \/ o.dark # env.dark \/ o.settings.colours # settings.colours

(* ApplyWindowRenderingMode, when the object has not done so before; nobody looks whether *)
(* the window took the style.                                                             *)
Layered(w, luck) ==
  IF w.win.layered THEN w
  ELSE [Discard(w) EXCEPT !.win.layered = TRUE, !.hwnd.layered = @ \/ luck # "style"]

(* RefreshTheme: a theme that cannot be loaded is replaced by the built-in one, and tried  *)
(* again when a second has passed.                                                         *)
Restyled(w, settings, luck) ==
  LET o == w.win
      changed == \/ o.theme = None
                 \/ o.settings.theme # settings.theme
                 \/ o.theme # settings.theme /\ luck = "retry theme"
      loaded == IF ~changed THEN o.theme
                ELSE IF luck = "theme" THEN Default ELSE settings.theme
      known == [Layered(w, luck) EXCEPT !.win =
                 [@ EXCEPT !.theme = loaded, !.dark = env.dark, !.settings = settings]]
  IN  IF AppearanceChanged(o, settings, changed) THEN Discard(known) ELSE known

(* The size that the presentation needs. *)
Measured(o) ==
  [cx |-> IF o.snapshot \in Wide THEN 3 ELSE 1, cy |-> IF o.expanded THEN 2 ELSE 1]

(* Mutant: a hide that is under way is not turned around. *)
FadedUnlessHiding(w, wasVisible, wasHiding, luck) ==
  IF env.animations /\ ~wasVisible THEN StartNativeFade(w, 0, Full, FALSE, luck) ELSE w

(* A window that appears fades in; one that was about to disappear fades back. *)
Faded(w, wasVisible, wasHiding, luck) ==
  IF ~env.animations THEN w
  ELSE IF ~wasVisible THEN StartNativeFade(w, 0, Full, FALSE, luck)
  ELSE IF wasHiding THEN StartNativeFade(w, w.win.opacity, Full, FALSE, luck)
  ELSE w

(* The width moves to its target in frames when nothing else changes. *)
Placed(w, target, wasVisible, wasHiding, luck) ==
  LET before == w.hwnd.size
      animate == env.animations /\ wasVisible /\ ~wasHiding /\ target[1].cy = before.cy
      restart == ~animate \/ ~w.win.widening \/ w.win.target # target
      begin == animate /\ target[1].cx # before.cx /\ luck # "timer"
      aimed == IF restart
               THEN [w EXCEPT !.win = [@ EXCEPT !.widening = begin, !.target = target,
                                                !.from = before.cx]]
               ELSE w
      cx == IF aimed.win.widening THEN before.cx ELSE target[1].cx
      moved == [SizeChanged(aimed, [target[1] EXCEPT !.cx = cx]) EXCEPT !.hwnd.visible = TRUE]
      s == moved.win.surface
      small == moved.win.widening
               /\ (s = None \/ s.size.cx < target[1].cx \/ s.size.cy # target[1].cy)
  IN  [(IF small THEN Discard(moved) ELSE moved) EXCEPT
         !.win.retried = FALSE, !.hwnd.invalid = TRUE]

(* The object takes over what it is to show, and a fade to nothing is called off. *)
Seat(o, content, at) ==
  [o EXCEPT !.snapshot = content, !.at = at, !.hiding = FALSE,
            !.canExpand = content \in Wide, !.expanded = @ /\ content \in Wide,
            !.fading = @ /\ env.animations,
            !.opacity = IF env.animations THEN @ ELSE Full]

ShowInternal(w, content, at, settings, luck) ==
  IF ~w.hwnd.exists \/ content = 0 THEN Hide(w, luck)
  ELSE LET wasVisible == w.hwnd.visible
           wasHiding == w.win.hiding
           styled == Restyled([w EXCEPT !.win.requested = TRUE], settings, luck)
           told == [styled EXCEPT !.win = Seat(@, content, at)]
           made == EnsureDeviceResources(told, luck)
           faded == Faded(made, wasVisible, wasHiding, luck)
       IN  Placed(faded, <<Measured(faded.win), at>>, wasVisible, wasHiding, luck)

(* Mutant: a query without an answer falls back although a place is known. *)
AnchorOfAnswer(w, rectangle) ==
  IF rectangle # None THEN rectangle ELSE w.win.pending.fallback

(* The answer, else the verified place, else where the text store saw the caret. *)
Anchor(w, rectangle) ==
  IF rectangle # None THEN rectangle
  ELSE IF w.win.verified # None THEN w.win.verified ELSE w.win.pending.fallback

(* Present what waits, when it is new, not visible or elsewhere. *)
PresentAtCaret(w, rectangle, luck) ==
  IF ~w.win.requested \/ w.win.pending = None THEN w
  ELSE LET p == w.win.pending
           anchor == Anchor(w, rectangle)
           known == IF rectangle # None THEN [w EXCEPT !.win.verified = rectangle] ELSE w
       IN  IF w.win.dirty \/ ~w.hwnd.visible \/ anchor # w.win.at
           THEN ShowInternal([known EXCEPT !.win.dirty = FALSE], p.content, anchor,
                             p.settings, luck)
           ELSE known

(* Another control has the focus: forget the place, and hide without a fade. *)
NoticeFocus(w) ==
  IF w.win.focus = env.focus THEN w
  ELSE Conceal([Outdate(w) EXCEPT !.win = [@ EXCEPT
         !.focus = env.focus, !.verified = None, !.dirty = TRUE,
         !.widening = FALSE, !.fading = FALSE, !.hiding = FALSE]])

RequestCaretPosition(w, luck) ==
  IF ~w.win.requested \/ env.foreground # "own" THEN w
  ELSE IF luck = "thread info" THEN PresentAtCaret(w, None, luck)
  ELSE LET noticed == NoticeFocus(w)
       IN  IF noticed.box.pending THEN noticed
           ELSE IF luck = "submit" THEN PresentAtCaret(Outdate(noticed), None, luck)
           ELSE [Outdate(noticed) EXCEPT !.box = [@ EXCEPT
                   !.pending = TRUE, !.fresh = TRUE, !.step = "submitted", !.focus = env.focus]]

(* Mutant: the presentation is not marked as new. *)
QueueUnmarked(w, content, fallback, settings) ==
  [w EXCEPT !.win = [@ EXCEPT
     !.pending = [content |-> content, fallback |-> fallback, settings |-> settings],
     !.requested = TRUE]]

QueuePresentation(w, content, fallback, settings) ==
  [w EXCEPT !.win = [@ EXCEPT
     !.pending = [content |-> content, fallback |-> fallback, settings |-> settings],
     !.requested = TRUE, !.dirty = TRUE]]

(* SetTimer for the caret: when it fails, which nobody notices, a timer that runs is kept. *)
SetCaretTimer(w, luck) ==
  IF luck # "caret timer"
  THEN [w EXCEPT !.hwnd = [@ EXCEPT !.timer = TRUE, !.untimed = FALSE]]
  ELSE [w EXCEPT !.hwnd.untimed = ~w.hwnd.timer]

(* Hold the presentation back and ask for the caret; a verified place is used at once. *)
ShowHere(w, content, fallback, settings, luck) ==
  LET queued == QueuePresentation(w, content, fallback, settings)
      asked == RequestCaretPosition(SetCaretTimer(queued, luck), luck)
  IN  IF asked.win.verified = None THEN asked
      ELSE PresentAtCaret(asked, asked.win.verified, luck)

(* Show: without the foreground the presentation is not held back. *)
Show(w, content, fallback, settings, luck) ==
  IF ~w.hwnd.exists \/ content = 0 \/ env.foreground # "own"
  THEN ShowInternal(w, content, fallback, settings, luck)
  ELSE ShowHere(w, content, fallback, settings, luck)

SetExpanded(w, expanded, luck) ==
  IF w.win.expanded = expanded THEN w
  ELSE LET set == [w EXCEPT !.win.expanded = expanded]
       IN  IF w.hwnd.exists /\ w.win.snapshot # 0 /\ w.hwnd.visible
           THEN Show(set, w.win.snapshot, w.win.at, w.win.settings, luck)
           ELSE set

(* Mutant: only the control is compared, not the number of the query. *)
AnsweredForFocus(w) == w.win.focus = env.focus

(* The answer in the mailbox is to the current question about the current control. *)
AnswerIsCurrent(w) == w.win.focus = env.focus /\ w.box.done

ApplyCaretPosition(w, luck) ==
  IF ~w.win.requested \/ env.foreground # "own" THEN w
  ELSE IF luck # "thread info" /\ AnswerIsCurrent(w)
  THEN PresentAtCaret(w, w.box.rectangle, luck)
  ELSE RequestCaretPosition(w, luck)

(* WM_ACTIVATEAPP.  What was asked for waits until the application is active again. *)
(* Mutant: the window stays while candidates are wanted. *)
DeactivatedUnlessWanted(w, luck) ==
  IF w.win.requested THEN [w EXCEPT !.win.dirty = TRUE, !.hwnd.timer = FALSE]
  ELSE Hide(w, luck)

Deactivated(w, luck) ==
  [Hide(w, luck) EXCEPT !.win = [@ EXCEPT
     !.pending = w.win.pending, !.dirty = w.win.requested, !.requested = w.win.requested]]

(* Mutant: the application is active again, but nobody asks for the caret again. *)
ActivatedOnce(w, luck) == RequestCaretPosition(w, luck)

Activated(w, luck) ==
  RequestCaretPosition(IF w.win.requested THEN SetCaretTimer(w, luck) ELSE w, luck)

NewWindow(w) ==
  [w EXCEPT
     !.hwnd = [exists |-> TRUE, visible |-> FALSE, layered |-> FALSE,
               size |-> [cx |-> 3, cy |-> 1], timer |-> FALSE, untimed |-> FALSE,
               invalid |-> FALSE, failed |-> 0, missed |-> FALSE, screen |-> None],
     !.box = [pending |-> FALSE, fresh |-> FALSE, done |-> TRUE, rectangle |-> None,
              step |-> "none", focus |-> None, measured |-> None, ready |-> 0]]

(* CreateInternal: a window and a mailbox, when there is none. *)
Create(w) == IF w.hwnd.exists THEN w ELSE NewWindow(w)

(* WM_NCDESTROY: the mailbox is closed, whatever is under way for it is lost. *)
Destroyed(w) ==
  LET gone == Discard(NewWindow(w))
  IN  [gone EXCEPT !.hwnd.exists = FALSE,
                   !.win = [@ EXCEPT !.widening = FALSE, !.fading = FALSE]]

(* WM_DPICHANGED, with the size the system suggests. *)
DpiChanged(w, size) ==
  LET sized == SizeChanged(Discard([w EXCEPT !.win.widening = FALSE]), size)
  IN  [sized EXCEPT !.win.retried = FALSE, !.hwnd.invalid = w.hwnd.visible]

-----------------------------------------------------------------------------
Init ==
  /\ env \in [foreground : {"own", "other"}, notices : {<<>>}, focus : Controls, moment : {0},
              animations : BOOLEAN, dark : {FALSE}]
  /\ win = [requested |-> FALSE, pending |-> None, dirty |-> FALSE, verified |-> None,
            focus |-> None, snapshot |-> 0, settings |-> [theme |-> Default, colours |-> FALSE],
            at |-> None, theme |-> None, dark |-> FALSE, layered |-> FALSE, retried |-> FALSE,
            expanded |-> FALSE, canExpand |-> FALSE, pressed |-> FALSE, fading |-> FALSE,
            to |-> Full, hiding |-> FALSE, opacity |-> Full, widening |-> FALSE,
            target |-> <<[cx |-> 1, cy |-> 1], None>>, from |-> 1, surface |-> None]
  /\ LET w == NewWindow([hwnd |-> 0, box |-> 0])
     IN  hwnd = [w.hwnd EXCEPT !.exists = FALSE] /\ box = w.box
  /\ \E scene \in Scenes :
       /\ env.foreground = scene.foreground /\ env.animations = scene.animations
       /\ past = [asked |-> 0, shows |-> 0, events |-> 0, failures |-> 0, noticed |-> 0,
                  active |-> env.foreground = "own", direct |-> FALSE, reshown |-> FALSE,
                  lost |-> FALSE, scene |-> scene]

Event(p) == [p EXCEPT !.events = @ + 1]
May(thing) == thing \in past.scene.things
Eventful(thing) == May(thing) /\ past.events < MaxEvents

(* The step ends with the window in state w; p tells what the step was. *)
Become(w, luck, p) ==
  /\ luck = "good" \/ May(luck)
  /\ luck \in {"good", "retry theme"} \/ past.failures < MaxFailures
  /\ win' = w.win /\ hwnd' = w.hwnd /\ box' = w.box
  /\ past' = [p EXCEPT !.failures = @ + (IF luck \in {"good", "retry theme"} THEN 0 ELSE 1),
                       !.noticed = IF w.win.focus # win.focus THEN env.moment ELSE @]

PresentLuck ==
  {"good", "retry theme", "theme", "timer", "thread info", "submit", "style", "device", "bitmap",
   "present"}
ShowLuck == PresentLuck \cup {"caret timer"}
HideLuck == {"good", "timer", "present"}
PaintLuck == {"good", "device", "bitmap", "draw", "present"}

-----------------------------------------------------------------------------
(* What the text service asks for: an answer closes the expanded list, a new page opens it. *)

ShowCandidateWindow(expanded, settings, luck) ==
  LET content == past.shows + 1
      fallback == [from |-> "text store", control |-> env.focus, moment |-> env.moment]
      w == Create(SetExpanded(State, expanded, luck))
  IN  /\ past.shows < MaxShows
      /\ settings = win.settings \/ May("settings")
      /\ Become(Show(w, content, fallback, settings, luck), luck,
                [past EXCEPT !.shows = content, !.asked = content, !.reshown = FALSE,
                             !.direct = env.foreground # "own"])
      /\ UNCHANGED env

HideCandidates(luck) ==
  /\ past.asked # 0
  /\ Become(Hide(State, luck), luck, [past EXCEPT !.asked = 0])
  /\ UNCHANGED env

-----------------------------------------------------------------------------
(* The worker: QueryCaretOnWorker with ReadFocusedCaret. *)

StillFocused == env.foreground = "own" /\ env.focus = box.focus

CheckFocus ==
  /\ box.step = "submitted"
  /\ box' = [box EXCEPT !.measured = None, !.step = IF StillFocused THEN "checked" ELSE "answered"]
  /\ UNCHANGED <<env, win, hwnd, past>>

(* The element that has the focus by now, or none that tells its caret. *)
MeasureCaret ==
  /\ box.step = "checked"
  /\ \/ /\ env.foreground = "own"
        /\ box' = [box EXCEPT !.step = "measured",
              !.measured = [from |-> "caret", control |-> env.focus, moment |-> env.moment]]
     \/ box' = [box EXCEPT !.step = "answered"]
  /\ UNCHANGED <<env, win, hwnd, past>>

RecheckFocus ==
  /\ box.step = "measured"
  /\ box' = [box EXCEPT !.step = "answered",
               !.measured = IF StillFocused /\ @.control = env.focus THEN @ ELSE None]
  /\ UNCHANGED <<env, win, hwnd, past>>

(* The answer goes into the mailbox; the message may not reach the queue. *)
AnswerQuery(posted) ==
  /\ box.step = "answered"
  /\ posted => box.ready < MaxReady
  /\ ~posted => May("post") /\ past.failures < MaxFailures
  /\ box' = [box EXCEPT !.pending = FALSE, !.done = box.fresh, !.fresh = FALSE,
               !.rectangle = box.measured, !.measured = None, !.focus = None, !.step = "none",
               !.ready = IF posted THEN @ + 1 ELSE @]
  /\ past' = [past EXCEPT !.failures = IF posted THEN @ ELSE @ + 1, !.lost = ~posted]
  /\ UNCHANGED <<env, win, hwnd>>

-----------------------------------------------------------------------------
(* The messages of the window. *)

CaretPositionReady(luck) ==
  /\ box.ready > 0
  /\ LET w == [State EXCEPT !.box.ready = @ - 1]
     IN  Become(ApplyCaretPosition(w, luck), luck, past)
  /\ UNCHANGED env

CaretPositionTimer(luck) ==
  /\ hwnd.timer
  /\ Become(RequestCaretPosition(State, luck), luck, past)
  /\ UNCHANGED env

ActivateApp(luck) ==
  /\ env.notices # <<>>
  /\ env' = [env EXCEPT !.notices = Tail(@)]
  /\ LET active == Head(env.notices)
         w == IF ~hwnd.exists THEN State
              ELSE IF active THEN Activated(State, luck) ELSE Deactivated(State, luck)
     IN  Become(w, luck, [past EXCEPT !.active = active])

FadeTimer(elapsed, luck) ==
  /\ win.fading
  /\ Become(AdvanceNativeFade(State, elapsed, luck), luck, past)
  /\ UNCHANGED env

WidthTimer(elapsed, cx, luck) ==
  /\ win.widening
  /\ cx \in (win.from .. win.target[1].cx) \cup (win.target[1].cx .. win.from)
  /\ Become(AdvanceNativeWidth(State, elapsed, cx, luck), luck, past)
  /\ UNCHANGED env

PaintWindow(luck) ==
  /\ hwnd.invalid
  /\ Become(Paint(State, luck), luck, past)
  /\ UNCHANGED env

(* A window that fades out lets the mouse through (WM_NCHITTEST). *)
TakesMouse == hwnd.visible /\ ~win.hiding

(* The button that opens the list; the other one opens a menu of another process. *)
ButtonDown ==
  /\ May("button")
  /\ TakesMouse /\ win.canExpand /\ ~win.pressed
  /\ win' = [win EXCEPT !.pressed = TRUE]
  /\ hwnd' = [hwnd EXCEPT !.invalid = TRUE]
  /\ UNCHANGED <<env, box, past>>

(* The button shows again what is shown, also when newer candidates wait. *)
ButtonUp(inside, luck) ==
  /\ win.pressed
  /\ LET w == [State EXCEPT !.win.pressed = FALSE, !.hwnd.invalid = hwnd.visible]
         clicked == inside /\ win.canExpand
     IN  Become(IF clicked THEN SetExpanded(w, ~win.expanded, luck) ELSE w, luck,
                [past EXCEPT
                   !.reshown = @ \/ (clicked /\ hwnd.visible /\ win.dirty),
                   !.direct = @ \/ (clicked /\ hwnd.visible /\ env.foreground # "own")])
  /\ UNCHANGED env

CaptureChanged ==
  /\ win.pressed
  /\ win' = [win EXCEPT !.pressed = FALSE]
  /\ hwnd' = [hwnd EXCEPT !.invalid = hwnd.visible]
  /\ UNCHANGED <<env, box, past>>

(* The owner of the popup is destroyed by the host, and the popup with it. *)
NcDestroy ==
  /\ Eventful("destroy") /\ hwnd.exists
  /\ Become(Destroyed(State), "good", Event(past))
  /\ UNCHANGED env

DpiChange(size) ==
  /\ Eventful("dpi") /\ hwnd.exists
  /\ Become(DpiChanged(State, size), "good", Event(past))
  /\ UNCHANGED env

-----------------------------------------------------------------------------
(* The desktop. *)

Changes(thing, e) ==
  /\ Eventful(thing)
  /\ env' = e
  /\ past' = Event(past)
  /\ UNCHANGED <<box, win, hwnd>>

MoveFocus(control) ==
  /\ env.foreground = "own" /\ control # env.focus
  /\ Changes("focus", [env EXCEPT !.focus = control, !.moment = @ + 1])
MoveCaret == Changes("caret", [env EXCEPT !.moment = @ + 1])
LeaveForeground ==
  /\ env.foreground = "own"
  /\ Changes("foreground", [env EXCEPT !.foreground = "other", !.notices = Append(@, FALSE)])
EnterForeground ==
  /\ env.foreground = "other"
  /\ Changes("foreground", [env EXCEPT !.foreground = "own", !.notices = Append(@, TRUE)])
SwitchAnimations == Changes("animations", [env EXCEPT !.animations = ~@])
SwitchDark == Changes("dark", [env EXCEPT !.dark = ~@])

-----------------------------------------------------------------------------
Next ==
  \/ \E expanded \in BOOLEAN, settings \in Settings, luck \in ShowLuck :
       ShowCandidateWindow(expanded, settings, luck)
  \/ \E luck \in HideLuck : HideCandidates(luck)
  \/ CheckFocus \/ MeasureCaret \/ RecheckFocus
  \/ \E posted \in BOOLEAN : AnswerQuery(posted)
  \/ \E luck \in PresentLuck : CaretPositionReady(luck)
  \/ \E luck \in PresentLuck : CaretPositionTimer(luck)
  \/ \E luck \in ShowLuck : ActivateApp(luck)
  \/ \E elapsed \in BOOLEAN, luck \in {"good", "present"} : FadeTimer(elapsed, luck)
  \/ \E elapsed \in BOOLEAN, cx \in 1 .. 3, luck \in PaintLuck :
       WidthTimer(elapsed, cx, luck)
  \/ \E luck \in PaintLuck : PaintWindow(luck)
  \/ ButtonDown
  \/ \E inside \in BOOLEAN, luck \in ShowLuck : ButtonUp(inside, luck)
  \/ CaptureChanged
  \/ NcDestroy
  \/ \E size \in Size : DpiChange(size)
  \/ \E control \in Controls : MoveFocus(control)
  \/ MoveCaret \/ LeaveForeground \/ EnterForeground \/ SwitchAnimations \/ SwitchDark

Spec == Init /\ [][Next]_vars

-----------------------------------------------------------------------------
(* A verified place is the caret of the control the window belongs to, seen after the   *)
(* window took notice of it: no answer to an older question gets through, whenever the  *)
(* worker leaves it and the message arrives (ApplyCaretPosition, ReadFocusedCaret).     *)
CaretOfFocus ==
  win.verified # None =>
    /\ win.verified.from = "caret"
    /\ win.verified.control = win.focus
    /\ win.verified.moment >= past.noticed

(* Candidates that were taken back do not come back: the window is hidden or on its way, *)
(* whatever timers, answers and activations still arrive (Hide).                         *)
StaysHidden ==
  past.asked = 0 /\ hwnd.visible => win.hiding /\ win.fading

(* What is visible is the latest the text service asked for, or a presentation waits; but *)
(* for one shown without the foreground, and for the button pressed while one waits.      *)
LatestIsShown ==
  hwnd.visible /\ ~win.hiding /\ ~win.dirty /\ ~past.direct /\ ~past.reshown =>
    win.snapshot = past.asked

(* The popup does not remain on another application once the host knows that it is no    *)
(* longer active (WM_ACTIVATEAPP), but for what is asked for in the meantime.            *)
NotOverOthers ==
  ~past.active /\ env.notices = <<>> /\ ~past.direct => ~hwnd.visible \/ win.hiding

(* Candidates that are wanted in an active application are not left waiting.  There is a   *)
(* presentation to make, but after one that the caret was not asked for; and a timer asks  *)
(* for the caret again.  If just this timer could not be set, the query that was made at   *)
(* the same time does: as long as the candidates are not presented it is under way, or its *)
(* answer is in the queue; unless the message with the answer did not reach the queue, so  *)
(* that two calls failed (Show, WM_ACTIVATEAPP, ApplyCaretPosition).                       *)
WillPresent ==
  hwnd.exists /\ win.requested /\ env.foreground = "own" /\ env.notices = <<>> =>
    /\ win.pending # None \/ past.direct
    /\ \/ hwnd.timer
       \/ /\ hwnd.untimed
          /\ win.pending # None /\ (win.dirty \/ ~hwnd.visible) =>
               box.pending \/ box.ready > 0 \/ past.lost

(* A content update or a failed query does not move the window from the verified place   *)
(* back to where the text store saw the caret (PresentAtCaret).                          *)
StaysAtCaret ==
  hwnd.visible /\ ~win.hiding /\ ~win.dirty /\ ~past.direct /\ win.verified # None =>
    win.at = win.verified

(* A visible window that does not fade is opaque, whichever fade was interrupted by what. *)
ShownOpaque == hwnd.visible /\ ~win.fading => win.opacity = Full

(* When nothing is left to paint, the screen shows the current candidates in the current *)
(* theme, colours and size: one failing call is made up for, and only a device that could *)
(* not be made or two failing presentations in a row leave something else (Paint).  When  *)
(* the fade is over the screen is opaque, but if its last frame could not be presented,   *)
(* which StartNativeFade and AdvanceNativeFade ignore.                                    *)
ScreenIsCurrent ==
  hwnd.visible /\ ~win.hiding /\ ~hwnd.invalid /\ hwnd.failed < 2 =>
    /\ hwnd.screen # None
    /\ hwnd.screen.drawn = win.snapshot
    /\ hwnd.screen.look = LookOf(win)
    /\ hwnd.screen.size = hwnd.size
    /\ ~win.fading /\ ~hwnd.missed => hwnd.screen.opacity = Full
=============================================================================
