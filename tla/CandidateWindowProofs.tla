------------------------ MODULE CandidateWindowProofs ------------------------
(***************************************************************************)
(* Proofs about CandidateWindow: every invariant the run checks, for any   *)
(* number of controls, themes, presentations, events and failures.         *)
(*                                                                         *)
(* The handlers call each other, so what is kept is said of records        *)
(* w = [win, hwnd, box] and not of states.  A record is intact if its      *)
(* parts fit each other (what is fading, what the surface was made for,    *)
(* what is on the screen).  A handler follows if, besides, it keeps what   *)
(* relates the record to the past: what the worker may still deliver is    *)
(* attested, what was taken back stays so, what is shown is the latest, at *)
(* the caret.  The invariant adds to that what the notices of the system   *)
(* say about the foreground.                                               *)
(***************************************************************************)
EXTENDS CandidateWindow, TLAPS

-----------------------------------------------------------------------------
(* The handlers work on records of the window, its system's window and its mailbox. *)
W == [win : Object, hwnd : Handle, box : Mailbox]

LEMMA Parts ==
  ASSUME NEW w \in W
  PROVE  w.win \in Object /\ w.hwnd \in Handle /\ w.box \in Mailbox
  BY DEF W

LEMMA WithWin ==
  ASSUME NEW w \in W, NEW o \in Object
  PROVE  /\ [w EXCEPT !.win = o] \in W
         /\ [w EXCEPT !.win = o].win = o
         /\ [w EXCEPT !.win = o].hwnd = w.hwnd /\ [w EXCEPT !.win = o].box = w.box
  BY DEF W

LEMMA WithHwnd ==
  ASSUME NEW w \in W, NEW h \in Handle
  PROVE  /\ [w EXCEPT !.hwnd = h] \in W
         /\ [w EXCEPT !.hwnd = h].hwnd = h
         /\ [w EXCEPT !.hwnd = h].win = w.win /\ [w EXCEPT !.hwnd = h].box = w.box
  BY DEF W

LEMMA WithBox ==
  ASSUME NEW w \in W, NEW b \in Mailbox
  PROVE  /\ [w EXCEPT !.box = b] \in W
         /\ [w EXCEPT !.box = b].box = b
         /\ [w EXCEPT !.box = b].win = w.win /\ [w EXCEPT !.box = b].hwnd = w.hwnd
  BY DEF W

(* A field takes another value of its type. *)
LEMMA PutFlag ==
  ASSUME NEW o \in Object, NEW v \in BOOLEAN
  PROVE  /\ [o EXCEPT !.requested = v] \in Object /\ [o EXCEPT !.dirty = v] \in Object
         /\ [o EXCEPT !.dark = v] \in Object /\ [o EXCEPT !.layered = v] \in Object
         /\ [o EXCEPT !.retried = v] \in Object /\ [o EXCEPT !.expanded = v] \in Object
         /\ [o EXCEPT !.canExpand = v] \in Object /\ [o EXCEPT !.pressed = v] \in Object
         /\ [o EXCEPT !.fading = v] \in Object /\ [o EXCEPT !.hiding = v] \in Object
         /\ [o EXCEPT !.widening = v] \in Object
  BY SMTT(30) DEF Object

LEMMA PutOpacity ==
  ASSUME NEW o \in Object, NEW v \in Opacity
  PROVE  [o EXCEPT !.to = v] \in Object /\ [o EXCEPT !.opacity = v] \in Object
  BY DEF Object

LEMMA PutPlace ==
  ASSUME NEW o \in Object, NEW v \in Place \cup {None}
  PROVE  [o EXCEPT !.verified = v] \in Object /\ [o EXCEPT !.at = v] \in Object
  BY DEF Object

LEMMA PutFocus ==
  ASSUME NEW o \in Object, NEW v \in Controls \cup {None}
  PROVE  [o EXCEPT !.focus = v] \in Object
  BY DEF Object

LEMMA PutPending ==
  ASSUME NEW o \in Object, NEW v \in Presentation \cup {None}
  PROVE  [o EXCEPT !.pending = v] \in Object
  BY DEF Object

LEMMA PutContent ==
  ASSUME NEW o \in Object, NEW v \in Contents \cup {0}
  PROVE  [o EXCEPT !.snapshot = v] \in Object
  BY DEF Object

LEMMA PutLook ==
  ASSUME NEW o \in Object, NEW theme \in Themes, NEW settings \in Settings
  PROVE  [o EXCEPT !.theme = theme] \in Object /\ [o EXCEPT !.settings = settings] \in Object
  BY DEF Object

LEMMA PutSurface ==
  ASSUME NEW o \in Object, NEW v \in Surface \cup {None}
  PROVE  [o EXCEPT !.surface = v] \in Object
  BY DEF Object

LEMMA PutTarget ==
  ASSUME NEW o \in Object, NEW v \in Size \X (Place \cup {None}), NEW cx \in 1 .. 3
  PROVE  [o EXCEPT !.target = v] \in Object /\ [o EXCEPT !.from = cx] \in Object
  BY DEF Object

LEMMA PutHandle ==
  ASSUME NEW h \in Handle, NEW v \in BOOLEAN
  PROVE  /\ [h EXCEPT !.visible = v] \in Handle /\ [h EXCEPT !.invalid = v] \in Handle
         /\ [h EXCEPT !.missed = v] \in Handle /\ [h EXCEPT !.timer = v] \in Handle
         /\ [h EXCEPT !.layered = v] \in Handle /\ [h EXCEPT !.exists = v] \in Handle
         /\ [h EXCEPT !.untimed = v] \in Handle
  BY DEF Handle

LEMMA PutFailed ==
  ASSUME NEW h \in Handle, NEW n \in 0 .. 2
  PROVE  [h EXCEPT !.failed = n] \in Handle
  BY DEF Handle

LEMMA PutSize ==
  ASSUME NEW h \in Handle, NEW size \in Size
  PROVE  [h EXCEPT !.size = size] \in Handle
  BY DEF Handle

LEMMA PutScreen ==
  ASSUME NEW h \in Handle, NEW screen \in Screen
  PROVE  [h EXCEPT !.screen = screen] \in Handle
  BY DEF Handle

LEMMA PutBox ==
  ASSUME NEW b \in Mailbox, NEW v \in BOOLEAN
  PROVE  /\ [b EXCEPT !.pending = v] \in Mailbox /\ [b EXCEPT !.fresh = v] \in Mailbox
         /\ [b EXCEPT !.done = v] \in Mailbox
  BY DEF Mailbox

LEMMA PutStep ==
  ASSUME NEW b \in Mailbox, NEW s \in {"none", "submitted", "checked", "measured", "answered"}
  PROVE  [b EXCEPT !.step = s] \in Mailbox
  BY DEF Mailbox

LEMMA PutMeasured ==
  ASSUME NEW b \in Mailbox, NEW p \in Place \cup {None}
  PROVE  [b EXCEPT !.rectangle = p] \in Mailbox /\ [b EXCEPT !.measured = p] \in Mailbox
  BY DEF Mailbox

LEMMA PutAsked ==
  ASSUME NEW b \in Mailbox, NEW c \in Controls \cup {None}
  PROVE  [b EXCEPT !.focus = c] \in Mailbox
  BY DEF Mailbox

-----------------------------------------------------------------------------
(* The invariant, in parts.  Those of a record w depend on nothing that was before. *)

(* A window that was ever shown knows its candidates, their place and their theme. *)
Seated(w) ==
  /\ w.win.snapshot # 0 => w.win.at \in Place
  /\ w.hwnd.visible \/ w.hwnd.invalid \/ w.win.widening => w.win.theme # None
  /\ w.hwnd.visible => w.win.snapshot # 0 /\ w.win.layered

(* Without the system's window there is nothing to see, to paint or to wait for. *)
Absent(w) ==
  ~w.hwnd.exists =>
    /\ ~w.hwnd.visible /\ ~w.hwnd.invalid /\ ~w.hwnd.timer
    /\ ~w.win.widening /\ ~w.win.fading /\ w.win.surface = None

(* A visible window that hides is fading, and a fade that does not hide ends opaque. *)
Fades(w) ==
  /\ w.win.pressed => ~w.win.hiding
  /\ w.hwnd.visible =>
       /\ w.win.hiding => w.win.fading
       /\ w.win.fading /\ ~w.win.hiding => w.win.to = Full
       /\ ~w.win.fading => w.win.opacity = Full

(* The surface was made for the present look and covers the window. *)
Fits(w) ==
  w.win.surface # None =>
    /\ w.win.surface.look = LookOf(w.win)
    /\ w.win.surface.size.cy = w.hwnd.size.cy
    /\ w.win.surface.size.cx >= w.hwnd.size.cx

(* When nothing is left to paint, surface and screen are those of the candidates, and the *)
(* screen is opaque unless the end of the fade could not be presented.                    *)
Painted(w) == w.hwnd.visible /\ ~w.win.hiding /\ ~w.hwnd.invalid /\ w.hwnd.failed < 2
Held(w) ==
  /\ CanPresent(w)
  /\ w.win.surface.drawn = w.win.snapshot
  /\ w.hwnd.screen # None
  /\ w.hwnd.screen.drawn = w.win.snapshot
  /\ w.hwnd.screen.look = LookOf(w.win)
  /\ w.hwnd.screen.size = w.hwnd.size
Drawn(w) ==
  Painted(w) =>
    /\ Held(w)
    /\ ~w.win.fading /\ ~w.hwnd.missed => w.hwnd.screen.opacity = Full

(* The one retry is used up only by a painting that failed. *)
Retries(w) == w.hwnd.visible /\ w.win.retried => w.hwnd.failed # 0

(* A query is under way as long as its worker is, who measures late. *)
Asking(w) ==
  /\ w.box.pending <=> w.box.step # "none"
  /\ w.box.step \notin {"measured", "answered"} => w.box.measured = None

Intact(w) ==
  /\ w \in W
  /\ Seated(w) /\ Absent(w) /\ Fades(w) /\ Fits(w) /\ Drawn(w) /\ Retries(w) /\ Asking(w)

-----------------------------------------------------------------------------
(* Painting.  It leaves alone what was asked for, where it belongs, what is shown and how *)
(* far it has faded.                                                                      *)

SameQuestion(w, r) ==
  /\ r.box = w.box
  /\ r.win.requested = w.win.requested /\ r.win.pending = w.win.pending
  /\ r.win.dirty = w.win.dirty /\ r.win.verified = w.win.verified
  /\ r.win.focus = w.win.focus /\ r.hwnd.exists = w.hwnd.exists
  /\ r.hwnd.timer = w.hwnd.timer /\ r.hwnd.untimed = w.hwnd.untimed

SamePicture(w, r) ==
  /\ r.win.snapshot = w.win.snapshot /\ r.win.at = w.win.at
  /\ r.win.settings = w.win.settings /\ r.win.theme = w.win.theme
  /\ r.win.dark = w.win.dark /\ r.win.layered = w.win.layered
  /\ r.hwnd.layered = w.hwnd.layered

SameFade(w, r) ==
  /\ r.win.fading = w.win.fading /\ r.win.to = w.win.to
  /\ r.win.hiding = w.win.hiding /\ r.win.opacity = w.win.opacity
  /\ r.hwnd.visible = w.hwnd.visible /\ r.win.pressed = w.win.pressed

(* What leaves the size and the animated width alone. *)
SameFrame(w, r) ==
  /\ r.hwnd.size = w.hwnd.size
  /\ r.win.widening = w.win.widening /\ r.win.target = w.win.target

Repaints(w, r) == SameQuestion(w, r) /\ SamePicture(w, r) /\ SameFade(w, r)

LEMMA RepaintsOn ==
  ASSUME NEW u, NEW v, NEW w, Repaints(u, v), Repaints(v, w)
  PROVE  Repaints(u, w)
  BY DEF Repaints, SameQuestion, SamePicture, SameFade

LEMMA SameFrameOn ==
  ASSUME NEW u, NEW v, NEW w, SameFrame(u, v), SameFrame(v, w)
  PROVE  SameFrame(u, w)
  BY DEF SameFrame

LEMMA RepaintsNothing == ASSUME NEW w PROVE Repaints(w, w)
  BY DEF Repaints, SameQuestion, SamePicture, SameFade

LEMMA DiscardFrees ==
  ASSUME NEW w \in W
  PROVE  /\ Discard(w) \in W
         /\ Discard(w).win = [w.win EXCEPT !.surface = None]
         /\ Discard(w).hwnd = w.hwnd /\ Discard(w).box = w.box
  BY Parts, PutSurface, WithWin DEF Discard

LEMMA ConcealHides ==
  ASSUME NEW w \in W
  PROVE  /\ Conceal(w) \in W
         /\ Conceal(w).hwnd = [w.hwnd EXCEPT !.visible = FALSE, !.invalid = FALSE]
         /\ Conceal(w).win = w.win /\ Conceal(w).box = w.box
  BY Parts, PutHandle, WithHwnd DEF Conceal

LEMMA OutdateVoids ==
  ASSUME NEW w \in W
  PROVE  /\ Outdate(w) \in W
         /\ Outdate(w).box = [w.box EXCEPT !.fresh = FALSE, !.done = FALSE]
         /\ Outdate(w).win = w.win /\ Outdate(w).hwnd = w.hwnd
  BY Parts, PutBox, WithBox DEF Outdate

(* What the screen shows of the surface. *)
ScreenOf(w) ==
  [drawn |-> w.win.surface.drawn, look |-> w.win.surface.look,
   size |-> [cx |-> IF w.win.surface.size.cx < w.hwnd.size.cx
                    THEN w.win.surface.size.cx ELSE w.hwnd.size.cx,
             cy |-> w.win.surface.size.cy],
   opacity |-> w.win.opacity]

(* A presentation that succeeds changes the screen, and one that fails does not. *)
Framed(w) == [w.hwnd EXCEPT !.screen = ScreenOf(w), !.missed = FALSE]

LEMMA PresentShows ==
  ASSUME NEW w \in W, NEW luck
  PROVE  LET r == Present(w, luck)
         IN  /\ r \in W /\ r.win = w.win /\ r.box = w.box
             /\ r.hwnd = IF CanPresent(w) /\ luck # "present" THEN Framed(w)
                         ELSE [w.hwnd EXCEPT !.missed = TRUE]
<1> DEFINE r == Present(w, luck)
<1>0. w.hwnd \in Handle
  BY Parts
<1>1. CASE CanPresent(w) /\ luck # "present"
  <2>1. r = [w EXCEPT !.hwnd = Framed(w)]
    BY <1>1 DEF Present, ScreenOf, Framed
  <2>2. w.win.surface \in Surface /\ w.hwnd.size \in Size /\ w.win.opacity \in Opacity
    BY <1>1, Parts DEF CanPresent, Object, Handle
  <2>3. ScreenOf(w) \in Screen
    BY <2>2 DEF ScreenOf, Screen, Surface, Size, Opacity
  <2>4. [w.hwnd EXCEPT !.screen = ScreenOf(w)] \in Handle
    BY <1>0, <2>3, PutScreen
  <2>5. Framed(w) = [[w.hwnd EXCEPT !.screen = ScreenOf(w)] EXCEPT !.missed = FALSE]
    BY DEF Framed
  <2>6. Framed(w) \in Handle
    BY <2>4, <2>5, PutHandle
  <2> HIDE DEF r
  <2>7. r \in W /\ r.win = w.win /\ r.box = w.box /\ r.hwnd = Framed(w)
    BY <2>1, <2>6, WithHwnd
  <2> QED
    BY <1>1, <2>7 DEF r
<1>2. CASE ~(CanPresent(w) /\ luck # "present")
  <2> DEFINE h == [w.hwnd EXCEPT !.missed = TRUE]
  <2>1. r = [w EXCEPT !.hwnd = h]
    BY <1>2 DEF Present
  <2>2. h \in Handle
    BY <1>0, PutHandle
  <2> HIDE DEF h, r
  <2>3. r \in W /\ r.win = w.win /\ r.box = w.box /\ r.hwnd = h
    BY <2>1, <2>2, WithHwnd
  <2> QED
    BY <1>2, <2>3 DEF r, h
<1> QED
  BY <1>1, <1>2

(* The fields of the system's window that a presentation leaves alone. *)
LEMMA PresentLeaves ==
  ASSUME NEW w \in W, NEW luck
  PROVE  LET h == Present(w, luck).hwnd
         IN  /\ h.exists = w.hwnd.exists /\ h.visible = w.hwnd.visible
             /\ h.layered = w.hwnd.layered /\ h.size = w.hwnd.size
             /\ h.timer = w.hwnd.timer /\ h.untimed = w.hwnd.untimed
             /\ h.invalid = w.hwnd.invalid /\ h.failed = w.hwnd.failed
             /\ CanPresent(w) /\ luck # "present" => h.screen = ScreenOf(w)
             /\ ~(CanPresent(w) /\ luck # "present") => h.screen = w.hwnd.screen /\ h.missed
<1> DEFINE h == Present(w, luck).hwnd
<1>1. h = IF CanPresent(w) /\ luck # "present" THEN Framed(w)
          ELSE [w.hwnd EXCEPT !.missed = TRUE]
  BY PresentShows
<1>2. w.hwnd \in Handle
  BY Parts
<1> HIDE DEF h
<1>3. CASE CanPresent(w) /\ luck # "present"
  <2>1. h = [w.hwnd EXCEPT !.screen = ScreenOf(w), !.missed = FALSE]
    BY <1>1, <1>3 DEF Framed
  <2> QED
    BY <1>2, <1>3, <2>1 DEF h, Handle
<1>4. CASE ~(CanPresent(w) /\ luck # "present")
  BY <1>1, <1>2, <1>4 DEF h, Handle
<1> QED
  BY <1>3, <1>4

LEMMA DiscardRepaints ==
  ASSUME NEW w \in W
  PROVE  Repaints(w, Discard(w)) /\ SameFrame(w, Discard(w)) /\ Fits(Discard(w))
<1> DEFINE r == Discard(w)
<1>1. r.win = [w.win EXCEPT !.surface = None] /\ r.hwnd = w.hwnd /\ r.box = w.box
  BY DiscardFrees
<1> HIDE DEF r
<1>2. w.win \in Object
  BY Parts
<1> QED
  BY <1>1, <1>2 DEF r, Repaints, SameQuestion, SamePicture, SameFade, SameFrame, Fits, Object

LEMMA PresentRepaints ==
  ASSUME NEW w \in W, NEW luck
  PROVE  LET r == Present(w, luck)
         IN  /\ Repaints(w, r) /\ SameFrame(w, r) /\ (Fits(w) => Fits(r))
             /\ r.hwnd.invalid = w.hwnd.invalid /\ r.hwnd.failed = w.hwnd.failed
<1> DEFINE r == Present(w, luck)
<1>1. r.win = w.win /\ r.box = w.box
  BY PresentShows
<1>2. /\ r.hwnd.exists = w.hwnd.exists /\ r.hwnd.visible = w.hwnd.visible
      /\ r.hwnd.layered = w.hwnd.layered /\ r.hwnd.size = w.hwnd.size
      /\ r.hwnd.timer = w.hwnd.timer /\ r.hwnd.untimed = w.hwnd.untimed
      /\ r.hwnd.invalid = w.hwnd.invalid /\ r.hwnd.failed = w.hwnd.failed
  BY PresentLeaves
<1> HIDE DEF r
<1> QED
  BY <1>1, <1>2 DEF r, Repaints, SameQuestion, SamePicture, SameFade, SameFrame, Fits

LEMMA EnsureMakes ==
  ASSUME NEW w \in W, w.win.theme # None, Fits(w), NEW luck
  PROVE  LET r == EnsureDeviceResources(w, luck)
         IN  /\ r \in W /\ r.hwnd = w.hwnd
             /\ r.win = [w.win EXCEPT !.surface = r.win.surface]
             /\ Repaints(w, r) /\ SameFrame(w, r) /\ Fits(r)
<1> DEFINE r == EnsureDeviceResources(w, luck)
<1>0. w.win \in Object /\ w.hwnd \in Handle
  BY Parts
<1>1. CASE w.win.surface # None \/ luck = "device"
  <2>1. r = w
    BY <1>1 DEF EnsureDeviceResources
  <2>2. w.win = [w.win EXCEPT !.surface = w.win.surface]
    BY <1>0 DEF Object
  <2> QED
    BY <2>1, <2>2, RepaintsNothing DEF SameFrame
<1>2. CASE ~(w.win.surface # None \/ luck = "device")
  <2> DEFINE widest == IF w.win.widening /\ w.win.target[1].cx > w.hwnd.size.cx
                       THEN w.win.target[1].cx ELSE w.hwnd.size.cx
             size == [w.hwnd.size EXCEPT !.cx = widest]
             surface == [look |-> LookOf(w.win), size |-> size,
                         pictures |-> LoadSurfaceBitmaps(w.win, luck), drawn |-> 0]
  <2>1. r = [w EXCEPT !.win = [w.win EXCEPT !.surface = surface]]
    BY <1>2 DEF EnsureDeviceResources, EnsureLayeredSurface
  <2>2. w.hwnd.size \in Size /\ w.win.target[1] \in Size
    BY <1>0 DEF Object, Handle
  <2>3. /\ widest \in 1 .. 3 /\ widest >= w.hwnd.size.cx
        /\ size.cx = widest /\ size.cy = w.hwnd.size.cy /\ size \in Size
    BY <2>2 DEF Size
  <2>4. LookOf(w.win) \in Look
    BY <1>0 DEF LookOf, Look, Object, Settings
  <2>5. LoadSurfaceBitmaps(w.win, luck) \in BOOLEAN
    BY DEF LoadSurfaceBitmaps
  <2> HIDE DEF size, widest
  <2>6. surface \in Surface
    BY <2>3, <2>4, <2>5 DEF Surface
  <2>7. surface.look = LookOf(w.win) /\ surface.size = size
    OBVIOUS
  <2> HIDE DEF surface
  <2> DEFINE o == [w.win EXCEPT !.surface = surface]
  <2>8. o \in Object
    BY <1>0, <2>6, PutSurface
  <2>9. r \in W /\ r.win = o /\ r.hwnd = w.hwnd /\ r.box = w.box
    BY <2>1, <2>8, WithWin
  <2>10. o.surface = surface /\ LookOf(o) = LookOf(w.win)
    BY <1>0 DEF Object, LookOf
  <2>11. Repaints(w, r) /\ SameFrame(w, r)
    BY <1>0, <2>9 DEF Repaints, SameQuestion, SamePicture, SameFade, SameFrame, Object
  <2>12. Fits(r)
    BY <2>3, <2>7, <2>9, <2>10 DEF Fits
  <2> QED
    BY <2>9, <2>10, <2>11, <2>12
<1> QED
  BY <1>1, <1>2

LEMMA SizeChangedFits ==
  ASSUME NEW w \in W, NEW size \in Size
  PROVE  LET r == SizeChanged(w, size)
         IN  /\ r \in W /\ Repaints(w, r)
             /\ r.hwnd.size = size /\ r.win.widening = w.win.widening
             /\ r.win.target = w.win.target
             /\ r.win.retried = w.win.retried /\ r.hwnd.failed = w.hwnd.failed
             /\ Fits(w) => Fits(r)
<1> DEFINE r == SizeChanged(w, size)
           sized == [w EXCEPT !.hwnd.size = size]
           h == [w.hwnd EXCEPT !.size = size]
           surface == w.win.surface
<1>0. w.win \in Object /\ w.hwnd \in Handle
  BY Parts
<1>1. h \in Handle /\ sized \in W /\ sized.win = w.win /\ sized.hwnd = h /\ sized.box = w.box
  BY <1>0, PutSize, WithHwnd
<1>2. /\ h.size = size /\ h.exists = w.hwnd.exists /\ h.timer = w.hwnd.timer
      /\ h.layered = w.hwnd.layered /\ h.visible = w.hwnd.visible
      /\ h.untimed = w.hwnd.untimed /\ h.failed = w.hwnd.failed
  BY <1>0 DEF Handle
<1> HIDE DEF h, sized
<1>3. Repaints(w, sized)
  BY <1>1, <1>2 DEF Repaints, SameQuestion, SamePicture, SameFade
<1>4. CASE w.hwnd.size = size
  BY <1>4, RepaintsNothing DEF SizeChanged
<1>5. CASE /\ w.hwnd.size # size
           /\ surface = None \/ surface.size.cx < size.cx \/ surface.size.cy # size.cy
  <2> DEFINE d == Discard(sized)
             g == [d.hwnd EXCEPT !.invalid = TRUE]
  <2>1. r = [d EXCEPT !.hwnd = g]
    BY <1>5 DEF SizeChanged, sized
  <2>2. d \in W /\ Repaints(sized, d) /\ d.hwnd = h /\ d.win = [w.win EXCEPT !.surface = None]
    BY <1>1, DiscardFrees, DiscardRepaints
  <2> HIDE DEF d
  <2>3. g \in Handle
    BY <1>1, <2>2, PutHandle
  <2>5. /\ g.size = h.size /\ g.exists = h.exists /\ g.timer = h.timer
        /\ g.layered = h.layered /\ g.visible = h.visible
        /\ g.untimed = h.untimed /\ g.failed = h.failed
    BY <1>1, <2>2 DEF Handle
  <2> HIDE DEF g, r
  <2>4. r \in W /\ r.win = d.win /\ r.hwnd = g /\ r.box = d.box
    BY <2>1, <2>2, <2>3, WithHwnd
  <2>6. Repaints(d, r)
    BY <2>2, <2>4, <2>5 DEF Repaints, SameQuestion, SamePicture, SameFade
  <2>7. Repaints(w, r)
    BY <1>3, <2>2, <2>6, RepaintsOn
  <2>8. /\ r.win.surface = None /\ r.win.widening = w.win.widening
        /\ r.win.target = w.win.target /\ r.win.retried = w.win.retried
    BY <1>0, <2>2, <2>4 DEF Object
  <2> QED
    BY <1>2, <2>4, <2>5, <2>7, <2>8 DEF Fits, r
<1>6. CASE /\ w.hwnd.size # size
           /\ ~(surface = None \/ surface.size.cx < size.cx \/ surface.size.cy # size.cy)
  <2>1. r = sized
    BY <1>6 DEF SizeChanged, sized
  <2>2. surface.size \in Size
    BY <1>0, <1>6 DEF Object, Surface
  <2>3. surface.size.cx >= size.cx /\ surface.size.cy = size.cy
    BY <1>6, <2>2 DEF Size
  <2>4. Fits(w) => Fits(sized)
    BY <1>1, <1>2, <2>3 DEF Fits
  <2> QED
    BY <1>1, <1>2, <1>3, <2>1, <2>4
<1> QED
  BY <1>4, <1>5, <1>6

LEMMA MarkInvalid ==
  ASSUME NEW w \in W, NEW i \in BOOLEAN
  PROVE  LET r == [w EXCEPT !.hwnd.invalid = i]
         IN  /\ r \in W /\ Repaints(w, r) /\ SameFrame(w, r) /\ (Fits(w) => Fits(r))
             /\ r.win = w.win /\ r.hwnd.invalid = i
             /\ r.hwnd.failed = w.hwnd.failed /\ r.hwnd.screen = w.hwnd.screen
<1> DEFINE h == [w.hwnd EXCEPT !.invalid = i]
           r == [w EXCEPT !.hwnd.invalid = i]
<1>1. w.hwnd \in Handle
  BY Parts
<1>2. h \in Handle /\ r \in W /\ r.win = w.win /\ r.hwnd = h /\ r.box = w.box
  BY <1>1, PutHandle, WithHwnd
<1>3. /\ h.exists = w.hwnd.exists /\ h.visible = w.hwnd.visible /\ h.timer = w.hwnd.timer
      /\ h.layered = w.hwnd.layered /\ h.size = w.hwnd.size /\ h.screen = w.hwnd.screen
      /\ h.failed = w.hwnd.failed /\ h.untimed = w.hwnd.untimed /\ h.invalid = i
  BY <1>1 DEF Handle
<1> HIDE DEF h, r
<1> QED
  BY <1>2, <1>3 DEF r, Repaints, SameQuestion, SamePicture, SameFade, SameFrame, Fits

LEMMA MarkFailed ==
  ASSUME NEW w \in W, NEW n \in 0 .. 2
  PROVE  LET r == [w EXCEPT !.hwnd.failed = n]
         IN  /\ r \in W /\ Repaints(w, r) /\ SameFrame(w, r) /\ (Fits(w) => Fits(r))
             /\ r.win = w.win /\ r.hwnd.invalid = w.hwnd.invalid
             /\ r.hwnd.failed = n /\ r.hwnd.screen = w.hwnd.screen
<1> DEFINE h == [w.hwnd EXCEPT !.failed = n]
           r == [w EXCEPT !.hwnd.failed = n]
<1>1. w.hwnd \in Handle
  BY Parts
<1>2. h \in Handle /\ r \in W /\ r.win = w.win /\ r.hwnd = h /\ r.box = w.box
  BY <1>1, PutFailed, WithHwnd
<1>3. /\ h.exists = w.hwnd.exists /\ h.visible = w.hwnd.visible /\ h.timer = w.hwnd.timer
      /\ h.layered = w.hwnd.layered /\ h.size = w.hwnd.size /\ h.screen = w.hwnd.screen
      /\ h.failed = n /\ h.untimed = w.hwnd.untimed /\ h.invalid = w.hwnd.invalid
  BY <1>1 DEF Handle
<1> HIDE DEF h, r
<1> QED
  BY <1>2, <1>3 DEF r, Repaints, SameQuestion, SamePicture, SameFade, SameFrame, Fits

LEMMA MarkRetried ==
  ASSUME NEW w \in W, NEW v \in BOOLEAN
  PROVE  LET r == [w EXCEPT !.win.retried = v]
         IN  /\ r \in W /\ Repaints(w, r) /\ SameFrame(w, r) /\ (Fits(w) => Fits(r))
             /\ r.win.surface = w.win.surface /\ r.win.retried = v /\ r.hwnd = w.hwnd
<1> DEFINE o == [w.win EXCEPT !.retried = v]
           r == [w EXCEPT !.win.retried = v]
<1>1. w.win \in Object
  BY Parts
<1>2. o \in Object /\ r \in W /\ r.hwnd = w.hwnd /\ r.win = o /\ r.box = w.box
  BY <1>1, PutFlag, WithWin
<1> HIDE DEF r
<1> QED
  BY <1>1, <1>2
     DEF r, Repaints, SameQuestion, SamePicture, SameFade, SameFrame, Fits, LookOf, Object

LEMMA DrawRepaints ==
  ASSUME NEW w \in W, w.win.surface # None
  PROVE  LET r == [w EXCEPT !.win.surface.drawn = w.win.snapshot]
         IN  /\ r \in W /\ Repaints(w, r) /\ SameFrame(w, r) /\ (Fits(w) => Fits(r))
             /\ r.hwnd = w.hwnd /\ r.win.surface # None
             /\ r.win.surface.drawn = w.win.snapshot
<1> DEFINE surface == [w.win.surface EXCEPT !.drawn = w.win.snapshot]
           o == [w.win EXCEPT !.surface = surface]
           r == [w EXCEPT !.win.surface.drawn = w.win.snapshot]
<1>1. w.win \in Object
  BY Parts
<1>2. w.win.surface \in Surface /\ w.win.snapshot \in Contents \cup {0}
  BY <1>1 DEF Object
<1>3. /\ surface \in Surface /\ surface.drawn = w.win.snapshot
      /\ surface.look = w.win.surface.look /\ surface.size = w.win.surface.size
  BY <1>2 DEF Surface
<1> HIDE DEF surface
<1>4. surface # None
  BY <1>3, RecordsAssumption
<1>5. o \in Object
  BY <1>1, <1>3, PutSurface
<1>6. /\ r = [w EXCEPT !.win = o]
  BY DEF surface
<1>7. /\ r \in W /\ r.win = o /\ r.hwnd = w.hwnd /\ r.box = w.box
  BY ZenonT(60), <1>5, <1>6, WithWin
<1>8. o.surface = surface
  BY <1>1 DEF Object
<1> HIDE DEF r
<1> QED
  BY <1>1, <1>3, <1>4, <1>7, <1>8
     DEF r, Repaints, SameQuestion, SamePicture, SameFade, SameFrame, Fits, LookOf, Object

LEMMA ScreenIsDrawn ==
  ASSUME NEW w \in W, NEW r \in W, Fits(w), CanPresent(w), Fades(w),
         w.win.surface.drawn = w.win.snapshot, Repaints(w, r), SameFrame(w, r),
         r.win.surface = w.win.surface, r.hwnd.screen = ScreenOf(w)
  PROVE  Drawn(r)
<1>1. w.win \in Object /\ w.hwnd \in Handle
  BY Parts
<1>2. w.win.surface \in Surface /\ w.hwnd.size \in Size /\ w.win.opacity \in Opacity
  BY <1>1 DEF CanPresent, Object, Handle
<1>3. w.win.surface.size \in Size
  BY <1>2 DEF Surface
<1>4. /\ w.win.surface.look = LookOf(w.win) /\ w.win.surface.size.cy = w.hwnd.size.cy
      /\ w.win.surface.size.cx >= w.hwnd.size.cx
  BY DEF Fits, CanPresent
<1> DEFINE cx == IF w.win.surface.size.cx < w.hwnd.size.cx
                 THEN w.win.surface.size.cx ELSE w.hwnd.size.cx
<1>5. cx = w.hwnd.size.cx
  BY <1>2, <1>3, <1>4 DEF Size
<1> HIDE DEF cx
<1>6. [cx |-> cx, cy |-> w.win.surface.size.cy] = w.hwnd.size
  BY <1>2, <1>4, <1>5 DEF Size
<1>7. /\ ScreenOf(w).drawn = w.win.snapshot /\ ScreenOf(w).look = LookOf(w.win)
      /\ ScreenOf(w).opacity = w.win.opacity
  BY <1>4 DEF ScreenOf
<1>8. ScreenOf(w).size = w.hwnd.size
  BY <1>6 DEF ScreenOf, cx
<1>9. ScreenOf(w) \in Screen
  BY <1>2, <1>3, <1>7, <1>8 DEF ScreenOf, Screen, Surface, Size
<1>10. ScreenOf(w) # None
  BY <1>9, RecordsAssumption
<1>11. LookOf(r.win) = LookOf(w.win)
  BY DEF Repaints, SamePicture, LookOf
<1>12. r.hwnd.visible /\ ~r.win.hiding /\ ~r.win.fading => w.win.opacity = Full
  BY DEF Repaints, SameFade, Fades
<1> QED
  BY <1>7, <1>8, <1>10, <1>11, <1>12
     DEF Drawn, Held, Painted, CanPresent, Repaints, SamePicture, SameFade, SameFrame

LEMMA PaintPaints ==
  ASSUME NEW w \in W, w.win.theme # None, Fits(w), Fades(w), Retries(w), NEW luck
  PROVE  LET r == Paint(w, luck)
         IN  /\ r \in W /\ Repaints(w, r) /\ SameFrame(w, r)
             /\ Fits(r) /\ Drawn(r) /\ Retries(r)
<1> DEFINE begun == [w EXCEPT !.hwnd.invalid = FALSE]
           made == EnsureDeviceResources(begun, luck)
           drawn == [made EXCEPT !.win.surface.drawn = w.win.snapshot]
           r == Paint(w, luck)
<1> DEFINE failed == IF w.hwnd.failed = 0 THEN 1 ELSE 2
           again(retry) == [Discard(made) EXCEPT !.hwnd =
                              [@ EXCEPT !.invalid = retry, !.failed = failed]]
<1>10. failed \in 0 .. 2 /\ failed # 0 /\ (w.hwnd.failed # 0 => failed = 2)
  OBVIOUS
<1>11. Paint(w, luck) =
         IF w.win.hiding /\ w.win.surface # None THEN Present(begun, luck)
         ELSE IF made.win.surface = None THEN [made EXCEPT !.hwnd.failed = 2]
         ELSE IF luck = "draw" THEN again(TRUE)
         ELSE IF luck = "present" \/ ~CanPresent(drawn)
         THEN [again(~w.win.retried) EXCEPT !.win.retried = TRUE]
         ELSE [Present(drawn, luck) EXCEPT !.win.retried = FALSE, !.hwnd.failed = 0]
  BY DEF Paint
<1> HIDE DEF failed
<1>1. /\ begun \in W /\ Repaints(w, begun) /\ SameFrame(w, begun) /\ Fits(begun)
      /\ begun.win = w.win /\ begun.hwnd.failed = w.hwnd.failed
  BY MarkInvalid
<1> HIDE DEF begun
<1>2. /\ made \in W /\ Repaints(begun, made) /\ SameFrame(begun, made) /\ Fits(made)
      /\ made.hwnd.failed = w.hwnd.failed
  BY <1>1, EnsureMakes
<1> HIDE DEF made
<1>3. Repaints(w, made) /\ SameFrame(w, made)
  BY <1>1, <1>2, RepaintsOn, SameFrameOn
<1>4. CASE w.win.hiding /\ w.win.surface # None
  <2>1. r = Present(begun, luck)
    BY <1>4, <1>11
  <2> HIDE DEF r
  <2>7. r \in W /\ r.win = begun.win
    BY <1>1, <2>1, PresentShows
  <2>5. r \in W /\ r.win = w.win
    BY <1>1, <2>7
  <2>6. /\ Repaints(begun, r) /\ SameFrame(begun, r) /\ Fits(r)
        /\ r.hwnd.failed = w.hwnd.failed
    BY <1>1, <2>1, PresentRepaints
  <2>2. /\ r \in W /\ Repaints(begun, r) /\ SameFrame(begun, r) /\ Fits(r)
        /\ r.win = w.win /\ r.hwnd.failed = w.hwnd.failed
    BY <2>5, <2>6
  <2> HIDE DEF r
  <2>4. Repaints(w, r) /\ SameFrame(w, r)
    BY <1>1, <2>2, RepaintsOn, SameFrameOn
  <2>3. r.win.hiding /\ Retries(r)
    BY <1>4, <2>2, <2>4 DEF Repaints, SameFade, Retries
  <2> QED
    BY <2>2, <2>3, <2>4 DEF Drawn, Painted, r
<1>5. CASE ~(w.win.hiding /\ w.win.surface # None) /\ made.win.surface = None
  <2>1. r = [made EXCEPT !.hwnd.failed = 2]
    BY <1>5, <1>11
  <2>2. /\ r \in W /\ Repaints(made, r) /\ SameFrame(made, r) /\ Fits(r)
        /\ r.hwnd.failed = 2
    <3>1. 2 \in 0 .. 2
      OBVIOUS
    <3> HIDE DEF r
    <3> QED
      BY <1>2, <2>1, <3>1, MarkFailed
  <2> HIDE DEF r
  <2>3. Repaints(w, r) /\ SameFrame(w, r)
    BY <1>3, <2>2, RepaintsOn, SameFrameOn
  <2> QED
    BY <2>2, <2>3 DEF Drawn, Painted, Retries, r
<1>6. ASSUME NEW retry \in BOOLEAN
      PROVE  /\ again(retry) \in W /\ Repaints(w, again(retry)) /\ SameFrame(w, again(retry))
             /\ Fits(again(retry)) /\ again(retry).hwnd.invalid = retry
             /\ again(retry).hwnd.failed = failed
  <2> DEFINE d == Discard(made)
             a == again(retry)
  <2>1. /\ d \in W /\ Repaints(made, d) /\ SameFrame(made, d) /\ Fits(d)
        /\ d.hwnd = made.hwnd
    BY <1>2, DiscardFrees, DiscardRepaints
  <2> HIDE DEF d
  <2> DEFINE h == [d.hwnd EXCEPT !.invalid = retry, !.failed = failed]
  <2>2. a = [d EXCEPT !.hwnd = h]
    BY DEF d
  <2> HIDE DEF a, again
  <2>5. h = [d.hwnd EXCEPT !.invalid = retry, !.failed = failed]
    OBVIOUS
  <2>6. d.hwnd \in Handle
    BY <2>1, Parts
  <2>7. h \in Handle
    <3> DEFINE g == [d.hwnd EXCEPT !.invalid = retry]
    <3>1. g \in Handle
      BY <2>6, PutHandle
    <3>2. h = [g EXCEPT !.failed = failed]
      OBVIOUS
    <3> HIDE DEF g, h
    <3> QED
      BY <1>10, <3>1, <3>2, PutFailed
  <2> HIDE DEF h
  <2>8. /\ h.exists = d.hwnd.exists /\ h.visible = d.hwnd.visible /\ h.timer = d.hwnd.timer
        /\ h.layered = d.hwnd.layered /\ h.size = d.hwnd.size
        /\ h.failed = failed /\ h.untimed = d.hwnd.untimed /\ h.invalid = retry
    BY <2>5, <2>6 DEF Handle
  <2>9. a \in W /\ a.win = d.win /\ a.hwnd = h /\ a.box = d.box
    BY <2>1, <2>2, <2>7, WithHwnd
  <2>10. Repaints(d, a) /\ SameFrame(d, a) /\ Fits(a)
    BY <2>1, <2>8, <2>9
       DEF Repaints, SameQuestion, SamePicture, SameFade, SameFrame, Fits
  <2>3. /\ a \in W /\ Repaints(d, a) /\ SameFrame(d, a) /\ Fits(a)
        /\ a.hwnd.invalid = retry /\ a.hwnd.failed = failed
    BY <2>8, <2>9, <2>10
  <2>4. Repaints(w, a) /\ SameFrame(w, a)
    BY <1>3, <2>1, <2>3, RepaintsOn, SameFrameOn
  <2> QED
    BY <2>3, <2>4 DEF a
<1>7. CASE ~(w.win.hiding /\ w.win.surface # None) /\ made.win.surface # None /\ luck = "draw"
  <2>1. r = again(TRUE)
    BY <1>7, <1>11
  <2> HIDE DEF again, r
  <2>2. /\ r \in W /\ Repaints(w, r) /\ SameFrame(w, r) /\ Fits(r) /\ r.hwnd.invalid
        /\ r.hwnd.failed = failed
    BY <1>6, <2>1
  <2> QED
    BY <1>10, <2>2 DEF Drawn, Painted, Retries, r
<1>8. CASE /\ ~(w.win.hiding /\ w.win.surface # None) /\ made.win.surface # None
           /\ luck # "draw" /\ (luck = "present" \/ ~CanPresent(drawn))
  <2> DEFINE a == again(~w.win.retried)
  <2>1. r = [a EXCEPT !.win.retried = TRUE]
    BY <1>8, <1>11
  <2>5. (~w.win.retried) \in BOOLEAN
    OBVIOUS
  <2>2. /\ a \in W /\ Repaints(w, a) /\ SameFrame(w, a) /\ Fits(a)
        /\ a.hwnd.invalid = ~w.win.retried /\ a.hwnd.failed = failed
    BY <1>6, <2>5
  <2> HIDE DEF a, again
  <2>3. r \in W /\ Repaints(a, r) /\ SameFrame(a, r) /\ Fits(r) /\ r.hwnd = a.hwnd
    BY <2>1, <2>2, MarkRetried
  <2> HIDE DEF r
  <2>4. Repaints(w, r) /\ SameFrame(w, r)
    BY <2>2, <2>3, RepaintsOn, SameFrameOn
  <2>6. Retries(r)
    BY <1>10, <2>2, <2>3 DEF Retries
  <2>7. ~Painted(r)
    <3>1. SUFFICES ASSUME r.hwnd.visible, ~r.hwnd.invalid, r.hwnd.failed < 2
                   PROVE  FALSE
      BY DEF Painted
    <3>2. w.hwnd.visible /\ w.win.retried
      BY <2>2, <2>3, <2>4, <3>1 DEF Repaints, SameFade
    <3>3. failed = 2
      BY <1>10, <3>2 DEF Retries
    <3> QED
      BY <2>2, <2>3, <3>1, <3>3
  <2> QED
    BY <2>3, <2>4, <2>6, <2>7 DEF Drawn, r
<1>9. CASE /\ ~(w.win.hiding /\ w.win.surface # None) /\ made.win.surface # None
           /\ luck # "draw" /\ ~(luck = "present" \/ ~CanPresent(drawn))
  <2> DEFINE p == Present(drawn, luck)
  <2>1. r = [p EXCEPT !.win.retried = FALSE, !.hwnd.failed = 0]
    BY <1>9, <1>11
  <2>2. made.win.snapshot = w.win.snapshot
    BY <1>3 DEF Repaints, SamePicture
  <2>3. /\ drawn \in W /\ Repaints(made, drawn) /\ SameFrame(made, drawn) /\ Fits(drawn)
        /\ drawn.win.surface # None /\ drawn.win.surface.drawn = w.win.snapshot
    BY <1>2, <1>9, <2>2, DrawRepaints
  <2>4. CanPresent(drawn)
    BY <1>9
  <2> HIDE DEF drawn
  <2>5. /\ p \in W /\ Repaints(drawn, p) /\ SameFrame(drawn, p) /\ Fits(p)
        /\ p.win = drawn.win
    BY <2>3, PresentShows, PresentRepaints
  <2>6. p.hwnd.screen = ScreenOf(drawn)
    BY <1>9, <2>3, <2>4, PresentLeaves
  <2> HIDE DEF p, r
  <2>7. /\ r \in W /\ Repaints(p, r) /\ SameFrame(p, r) /\ Fits(r)
        /\ r.win.surface = p.win.surface /\ ~r.win.retried
        /\ r.hwnd.screen = p.hwnd.screen
    <3> DEFINE u == [p EXCEPT !.win.retried = FALSE]
               q == [u EXCEPT !.hwnd.failed = 0]
    <3>1. 0 \in 0 .. 2 /\ FALSE \in BOOLEAN
      OBVIOUS
    <3>2. /\ u \in W /\ Repaints(p, u) /\ SameFrame(p, u) /\ Fits(u)
          /\ u.win.surface = p.win.surface /\ ~u.win.retried /\ u.hwnd = p.hwnd
      BY <2>5, <3>1, MarkRetried
    <3>3. r = q
      BY <2>1
    <3> HIDE DEF u
    <3>4. /\ q \in W /\ Repaints(u, q) /\ SameFrame(u, q) /\ Fits(q)
          /\ q.win = u.win /\ q.hwnd.screen = u.hwnd.screen
      BY <3>1, <3>2, MarkFailed
    <3> HIDE DEF q
    <3>5. Repaints(p, r) /\ SameFrame(p, r)
      BY <3>2, <3>3, <3>4, RepaintsOn, SameFrameOn
    <3> QED
      BY <3>2, <3>3, <3>4, <3>5
  <2>8. Repaints(drawn, r) /\ SameFrame(drawn, r)
    BY <2>5, <2>7, RepaintsOn, SameFrameOn
  <2>9. Repaints(w, r) /\ SameFrame(w, r)
    BY <1>3, <2>3, <2>8, RepaintsOn, SameFrameOn
  <2>10. r.hwnd.screen = ScreenOf(drawn) /\ r.win.surface = drawn.win.surface
    BY <2>5, <2>6, <2>7
  <2>11. Fades(drawn)
    BY <1>3, <2>3 DEF Repaints, SameFade, Fades
  <2>12. drawn.win.snapshot = w.win.snapshot
    BY <2>2, <2>3 DEF Repaints, SamePicture
  <2>13. Drawn(r)
    BY <2>3, <2>4, <2>7, <2>8, <2>10, <2>11, <2>12, ScreenIsDrawn
  <2>14. Retries(r)
    BY <2>7 DEF Retries
  <2> QED
    BY <2>7, <2>9, <2>13, <2>14 DEF r
<1> QED
  BY <1>4, <1>5, <1>7, <1>8, <1>9

LEMMA WidthPaints ==
  ASSUME NEW w \in W, w.win.theme # None, Fits(w), Fades(w), Retries(w),
         NEW elapsed, NEW cx \in 1 .. 3, NEW luck
  PROVE  LET r == AdvanceNativeWidth(w, elapsed, cx, luck)
         IN  /\ r \in W /\ Repaints(w, r) /\ Fits(r) /\ Drawn(r) /\ Retries(r)
<1> DEFINE over == elapsed \/ ~env.animations
           size == [w.win.target[1] EXCEPT !.cx = IF over THEN @ ELSE cx]
           o == [w.win EXCEPT !.widening = ~over]
           aimed == [w EXCEPT !.win.widening = ~over]
           moved == SizeChanged(aimed, size)
           begun == [moved EXCEPT !.hwnd.invalid = TRUE]
           r == AdvanceNativeWidth(w, elapsed, cx, luck)
<1>1. w.win \in Object /\ w.win.target[1] \in Size
  BY Parts DEF Object
<1>2. size \in Size
  BY <1>1 DEF Size
<1>3. o \in Object /\ aimed \in W /\ aimed.win = o /\ aimed.hwnd = w.hwnd /\ aimed.box = w.box
  BY ZenonT(60), <1>1, PutFlag, WithWin
<1>4. Repaints(w, aimed) /\ Fits(aimed) /\ aimed.win.retried = w.win.retried
  BY <1>1, <1>3 DEF Repaints, SameQuestion, SamePicture, SameFade, Fits, LookOf, Object
<1> HIDE DEF aimed, size, o
<1>5. /\ moved \in W /\ Repaints(aimed, moved) /\ Fits(moved)
      /\ moved.win.retried = w.win.retried /\ moved.hwnd.failed = w.hwnd.failed
  BY <1>2, <1>3, <1>4, SizeChangedFits
<1> HIDE DEF moved
<1>6. /\ begun \in W /\ Repaints(moved, begun) /\ Fits(begun)
      /\ begun.win.retried = w.win.retried /\ begun.hwnd.failed = w.hwnd.failed
  BY <1>5, MarkInvalid
<1> HIDE DEF begun
<1>7. Repaints(w, begun)
  BY <1>4, <1>5, <1>6, RepaintsOn
<1>8. begun.win.theme # None /\ Fades(begun) /\ Retries(begun)
  BY <1>6, <1>7 DEF Repaints, SamePicture, SameFade, Fades, Retries
<1>9. r = Paint(begun, luck)
  BY DEF AdvanceNativeWidth, begun, moved, aimed, size
<1>10. r \in W /\ Repaints(begun, r) /\ Fits(r) /\ Drawn(r) /\ Retries(r)
  BY <1>6, <1>8, <1>9, PaintPaints
<1> HIDE DEF r
<1>11. Repaints(w, r)
  BY <1>7, <1>10, RepaintsOn
<1> QED
  BY <1>10, <1>11 DEF r

-----------------------------------------------------------------------------
(* Fading. *)

(* What changes nothing but how far the window has faded. *)
Refades(w, r) ==
  /\ SameQuestion(w, r) /\ SamePicture(w, r) /\ SameFrame(w, r)
  /\ r.win.surface = w.win.surface /\ r.win.pressed = w.win.pressed
  /\ r.win.retried = w.win.retried /\ r.hwnd.failed = w.hwnd.failed

LEMMA RefadesFits ==
  ASSUME NEW w, NEW r, Refades(w, r), Fits(w)
  PROVE  Fits(r)
  BY DEF Refades, SamePicture, SameFrame, Fits, LookOf

LEMMA RefadesOn ==
  ASSUME NEW u, NEW v, NEW w, Refades(u, v), Refades(v, w)
  PROVE  Refades(u, w)
  BY DEF Refades, SameQuestion, SamePicture, SameFrame

LEMMA PresentRefades ==
  ASSUME NEW w \in W, NEW luck
  PROVE  LET r == Present(w, luck)
         IN  Refades(w, r) /\ r.hwnd.visible = w.hwnd.visible
  BY PresentShows, PresentRepaints DEF Refades, Repaints, SameFade

LEMMA ConcealRefades ==
  ASSUME NEW w \in W
  PROVE  /\ Conceal(w) \in W /\ Refades(w, Conceal(w)) /\ Conceal(w).win = w.win
         /\ ~Conceal(w).hwnd.visible /\ ~Conceal(w).hwnd.invalid
<1> DEFINE r == Conceal(w)
<1>1. w.hwnd \in Handle
  BY Parts
<1>2. /\ r \in W /\ r.hwnd = [w.hwnd EXCEPT !.visible = FALSE, !.invalid = FALSE]
      /\ r.win = w.win /\ r.box = w.box
  BY ConcealHides
<1> HIDE DEF r
<1>3. Refades(w, r) /\ ~r.hwnd.visible /\ ~r.hwnd.invalid
  BY <1>1, <1>2 DEF Refades, SameQuestion, SamePicture, SameFrame, Handle
<1> QED
  BY <1>2, <1>3 DEF r

LEMMA FadeOverEnds ==
  ASSUME NEW w \in W, NEW opacity \in Opacity
  PROVE  LET r == [w EXCEPT !.win = FadeOver(@, opacity)]
         IN  /\ r \in W /\ Refades(w, r) /\ r.hwnd = w.hwnd
             /\ ~r.win.fading /\ ~r.win.hiding /\ r.win.opacity = opacity
<1> DEFINE o == [w.win EXCEPT !.fading = FALSE, !.hiding = FALSE, !.opacity = opacity]
           r == [w EXCEPT !.win = FadeOver(@, opacity)]
<1>1. w.win \in Object
  BY Parts
<1>2. o \in Object
  BY <1>1, PutFlag, PutOpacity
<1>3. r = [w EXCEPT !.win = o]
  BY DEF FadeOver
<1> HIDE DEF o, r
<1>4. r \in W /\ r.hwnd = w.hwnd /\ r.win = o /\ r.box = w.box
  BY <1>2, <1>3, WithWin
<1>5. /\ Refades(w, r)
      /\ ~r.win.fading /\ ~r.win.hiding /\ r.win.opacity = opacity
  BY <1>1, <1>4 DEF o, Refades, SameQuestion, SamePicture, SameFrame, Object
<1> QED
  BY <1>4, <1>5 DEF r

LEMMA FadeFrame ==
  ASSUME NEW w \in W, NEW opacity \in Opacity
  PROVE  LET r == [w EXCEPT !.win.opacity = opacity]
         IN  /\ r \in W /\ Refades(w, r) /\ r.hwnd = w.hwnd
             /\ r.win.fading = w.win.fading /\ r.win.hiding = w.win.hiding
             /\ r.win.to = w.win.to
<1> DEFINE o == [w.win EXCEPT !.opacity = opacity]
           r == [w EXCEPT !.win.opacity = opacity]
<1>1. w.win \in Object
  BY Parts
<1>2. o \in Object /\ r \in W /\ r.hwnd = w.hwnd /\ r.win = o /\ r.box = w.box
  BY <1>1, PutOpacity, WithWin
<1> HIDE DEF r
<1>3. /\ Refades(w, r)
      /\ r.win.fading = w.win.fading /\ r.win.hiding = w.win.hiding /\ r.win.to = w.win.to
  BY <1>1, <1>2 DEF Refades, SameQuestion, SamePicture, SameFrame, Object
<1> QED
  BY <1>2, <1>3 DEF r

(* A frame presents what is drawn already. *)
LEMMA PresentDraws ==
  ASSUME NEW w \in W, Fits(w), Fades(w), Painted(w) => Held(w), NEW luck
  PROVE  Drawn(Present(w, luck))
<1> DEFINE r == Present(w, luck)
<1>1. /\ r \in W /\ r.win = w.win /\ Repaints(w, r) /\ SameFrame(w, r)
      /\ r.hwnd.invalid = w.hwnd.invalid /\ r.hwnd.failed = w.hwnd.failed
  BY PresentShows, PresentRepaints
<1>2. CASE Painted(w) /\ luck # "present"
  <2>1. CanPresent(w) /\ w.win.surface.drawn = w.win.snapshot
    BY <1>2 DEF Held
  <2>2. r.hwnd.screen = ScreenOf(w)
    BY <1>2, <2>1, PresentLeaves
  <2> HIDE DEF r
  <2>3. Drawn(r)
    BY <1>1, <2>1, <2>2, ScreenIsDrawn
  <2> QED
    BY <2>3 DEF r
<1>4. CASE Painted(w) /\ luck = "present"
  <2>1. r.hwnd.screen = w.hwnd.screen /\ r.hwnd.missed
    BY <1>4, PresentLeaves
  <2> HIDE DEF r
  <2>2. Drawn(r)
    BY <1>1, <1>4, <2>1 DEF Drawn, Held, CanPresent, Repaints, SamePicture, SameFrame
  <2> QED
    BY <2>2 DEF r
<1>3. CASE ~Painted(w)
  <2> HIDE DEF r
  <2>1. Drawn(r)
    BY <1>1, <1>3 DEF Drawn, Painted, Repaints, SameFade
  <2> QED
    BY <2>1 DEF r
<1> QED
  BY <1>2, <1>3, <1>4

(* A frame of a fade, and its end. *)
LEMMA FadeAdvances ==
  ASSUME NEW w \in W, Fits(w), Fades(w), Drawn(w), w.win.fading, NEW elapsed, NEW luck
  PROVE  LET r == AdvanceNativeFade(w, elapsed, luck)
         IN  /\ r \in W /\ Refades(w, r) /\ Fades(r) /\ Drawn(r)
             /\ r.hwnd.visible => w.hwnd.visible
             /\ r.hwnd.visible => r.win.hiding = w.win.hiding
             /\ w.hwnd.visible /\ ~r.hwnd.visible => w.win.hiding
             /\ r.hwnd.invalid => w.hwnd.invalid
             /\ r.win.fading => w.win.fading
<1> DEFINE r == AdvanceNativeFade(w, elapsed, luck)
<1>0. w.win.to \in Opacity /\ 1 \in Opacity /\ Full \in Opacity
  BY Parts DEF Object, Opacity, Full
<1>1. CASE ~(elapsed \/ ~env.animations)
  <2> DEFINE u == [w EXCEPT !.win.opacity = 1]
  <2>1. r = Present(u, luck)
    BY <1>1 DEF AdvanceNativeFade
  <2>2. /\ u \in W /\ Refades(w, u) /\ u.hwnd = w.hwnd /\ u.win.fading
        /\ u.win.hiding = w.win.hiding /\ u.win.to = w.win.to
    BY <1>0, FadeFrame
  <2> HIDE DEF u, r
  <2>3. Fits(u)
    BY <2>2, RefadesFits
  <2>4. Fades(u)
    BY <2>2 DEF Fades, Refades
  <2>5. Painted(u) => Held(u)
    BY <2>2 DEF Painted, Drawn, Held, CanPresent, Refades, SamePicture, LookOf
  <2>9. r \in W /\ r.win = u.win
    BY <2>1, <2>2, PresentShows
  <2>10. Drawn(r) /\ Refades(u, r)
    BY <2>1, <2>2, <2>3, <2>4, <2>5, PresentDraws, PresentRefades
  <2>11. r.hwnd.visible = u.hwnd.visible /\ r.hwnd.invalid = u.hwnd.invalid
    BY <2>1, <2>2, PresentLeaves
  <2>6. r \in W /\ Drawn(r) /\ Refades(u, r) /\ r.win = u.win /\ r.hwnd.visible = u.hwnd.visible
        /\ r.hwnd.invalid = u.hwnd.invalid
    BY <2>9, <2>10, <2>11
  <2>7. Refades(w, r) /\ Fades(r)
    BY <2>2, <2>4, <2>6, RefadesOn DEF Fades
  <2> QED
    BY <2>2, <2>6, <2>7 DEF r
<1>2. CASE (elapsed \/ ~env.animations) /\ w.win.hiding
  <2> DEFINE u == [w EXCEPT !.win = FadeOver(@, Full)]
  <2>1. r = Conceal(u)
    BY <1>2 DEF AdvanceNativeFade
  <2>2. /\ u \in W /\ Refades(w, u) /\ u.hwnd = w.hwnd /\ ~u.win.fading /\ ~u.win.hiding
    BY <1>0, FadeOverEnds
  <2> HIDE DEF u, r
  <2>3. /\ r \in W /\ Refades(u, r) /\ r.win = u.win /\ ~r.hwnd.visible /\ ~r.hwnd.invalid
    BY <2>1, <2>2, ConcealRefades
  <2>4. Refades(w, r) /\ Fades(r) /\ Drawn(r)
    BY <2>2, <2>3, RefadesOn DEF Fades, Drawn, Painted
  <2> QED
    BY <1>2, <2>2, <2>3, <2>4 DEF r
<1>3. CASE (elapsed \/ ~env.animations) /\ ~w.win.hiding
  <2> DEFINE u == [w EXCEPT !.win = FadeOver(@, w.win.to)]
  <2>1. r = Present(u, luck)
    BY <1>3 DEF AdvanceNativeFade
  <2>2. /\ u \in W /\ Refades(w, u) /\ u.hwnd = w.hwnd /\ ~u.win.fading /\ ~u.win.hiding
        /\ u.win.opacity = w.win.to
    BY <1>0, FadeOverEnds
  <2> HIDE DEF u, r
  <2>3. Fits(u)
    BY <2>2, RefadesFits
  <2>4. Fades(u)
    BY <1>3, <2>2 DEF Fades
  <2>5. Painted(u) => Held(u)
    BY <1>3, <2>2 DEF Painted, Drawn, Held, CanPresent, Refades, SamePicture, LookOf
  <2>9. r \in W /\ r.win = u.win
    BY <2>1, <2>2, PresentShows
  <2>10. Drawn(r) /\ Refades(u, r)
    BY <2>1, <2>2, <2>3, <2>4, <2>5, PresentDraws, PresentRefades
  <2>11. r.hwnd.visible = u.hwnd.visible /\ r.hwnd.invalid = u.hwnd.invalid
    BY <2>1, <2>2, PresentLeaves
  <2>6. r \in W /\ Drawn(r) /\ Refades(u, r) /\ r.win = u.win /\ r.hwnd.visible = u.hwnd.visible
        /\ r.hwnd.invalid = u.hwnd.invalid
    BY <2>9, <2>10, <2>11
  <2>7. Refades(w, r) /\ Fades(r)
    BY <2>2, <2>4, <2>6, RefadesOn DEF Fades
  <2>8. r.win.hiding = w.win.hiding
    BY <1>3, <2>2, <2>6, Parts DEF Object
  <2> QED
    BY <2>2, <2>6, <2>7, <2>8 DEF r
<1> QED
  BY <1>1, <1>2, <1>3

(* A fade that began; without a timer it is over at once. *)
Begun(w, r, to, hideAfter, luck) ==
  /\ r \in W /\ Refades(w, r) /\ r.win.to = to
  /\ r.win.hiding = (hideAfter /\ luck # "timer") /\ r.win.fading = (luck # "timer")
  /\ luck = "timer" => r.win.opacity = to
  /\ IF luck = "timer" /\ hideAfter THEN ~r.hwnd.visible /\ ~r.hwnd.invalid
     ELSE r.hwnd.visible = w.hwnd.visible /\ r.hwnd.invalid = w.hwnd.invalid

LEMMA FadeStarts ==
  ASSUME NEW w \in W, NEW from \in Opacity, NEW to \in Opacity,
         NEW hideAfter \in BOOLEAN, NEW luck
  PROVE  Begun(w, StartNativeFade(w, from, to, hideAfter, luck), to, hideAfter, luck)
<1> DEFINE timed == luck # "timer"
           o == [w.win EXCEPT !.to = to, !.opacity = IF luck = "timer" THEN to ELSE from,
                              !.hiding = hideAfter /\ timed, !.fading = timed]
           begun == [w EXCEPT !.win = o]
           c == IF luck = "timer" /\ hideAfter THEN Conceal(begun) ELSE begun
           r == StartNativeFade(w, from, to, hideAfter, luck)
<1>1. w.win \in Object
  BY Parts
<1>2. timed \in BOOLEAN /\ (hideAfter /\ timed) \in BOOLEAN
      /\ (IF luck = "timer" THEN to ELSE from) \in Opacity
  OBVIOUS
<1>3. o \in Object
  BY <1>1, <1>2, PutFlag, PutOpacity
<1>4. /\ o.to = to /\ o.hiding = (hideAfter /\ timed) /\ o.fading = timed
      /\ luck = "timer" => o.opacity = to
  BY <1>1 DEF Object
<1>5. Refades(w, [w EXCEPT !.win = o])
  <2>1. begun.win = o /\ begun.hwnd = w.hwnd /\ begun.box = w.box
    BY <1>3, WithWin
  <2>2. /\ o.requested = w.win.requested /\ o.pending = w.win.pending /\ o.dirty = w.win.dirty
        /\ o.verified = w.win.verified /\ o.focus = w.win.focus
        /\ o.snapshot = w.win.snapshot /\ o.at = w.win.at /\ o.settings = w.win.settings
        /\ o.theme = w.win.theme /\ o.dark = w.win.dark /\ o.layered = w.win.layered
        /\ o.widening = w.win.widening /\ o.target = w.win.target
        /\ o.surface = w.win.surface /\ o.pressed = w.win.pressed
        /\ o.retried = w.win.retried
    BY <1>1 DEF Object
  <2> HIDE DEF begun, o
  <2>3. Refades(w, begun)
    BY <2>1, <2>2 DEF Refades, SameQuestion, SamePicture, SameFrame
  <2> QED
    BY <2>3 DEF begun
<1> HIDE DEF o
<1>6. begun \in W /\ begun.win = o /\ begun.hwnd = w.hwnd /\ Refades(w, begun)
  BY <1>3, <1>5, WithWin
<1>7. r = Present(c, luck)
  BY DEF StartNativeFade, o
<1> HIDE DEF begun, r
<1>8. /\ c \in W /\ Refades(w, c) /\ c.win = o
      /\ IF luck = "timer" /\ hideAfter THEN ~c.hwnd.visible /\ ~c.hwnd.invalid
         ELSE c.hwnd.visible = w.hwnd.visible /\ c.hwnd.invalid = w.hwnd.invalid
  BY <1>6, ConcealRefades, RefadesOn
<1> HIDE DEF c
<1>9. /\ r \in W /\ Refades(c, r) /\ r.win = c.win /\ r.hwnd.visible = c.hwnd.visible
      /\ r.hwnd.invalid = c.hwnd.invalid
  BY <1>7, <1>8, PresentShows, PresentRefades, PresentRepaints
<1>10. Refades(w, r)
  BY <1>8, <1>9, RefadesOn
<1> QED
  BY <1>4, <1>8, <1>9, <1>10 DEF r, Begun

LEMMA FadesIn ==
  ASSUME NEW w \in W, NEW from \in Opacity, NEW luck
  PROVE  LET r == StartNativeFade(w, from, Full, FALSE, luck)
         IN  /\ r \in W /\ Refades(w, r) /\ ~r.win.hiding /\ r.win.to = Full
             /\ ~r.win.fading => r.win.opacity = Full
             /\ r.hwnd.visible = w.hwnd.visible
<1> DEFINE r == StartNativeFade(w, from, Full, FALSE, luck)
<1>1. Full \in Opacity
  BY DEF Opacity, Full
<1>2. Begun(w, r, Full, FALSE, luck)
  BY <1>1, FadeStarts, Zenon
<1> HIDE DEF r
<1>3. /\ r \in W /\ Refades(w, r) /\ ~r.win.hiding /\ r.win.to = Full
      /\ ~r.win.fading => r.win.opacity = Full
      /\ r.hwnd.visible = w.hwnd.visible
  BY <1>2 DEF Begun
<1> QED
  BY <1>3 DEF r

-----------------------------------------------------------------------------
(* Hiding. *)

(* The worker goes on with its query. *)
SameQuery(w, r) ==
  r.box.pending = w.box.pending /\ r.box.step = w.box.step /\ r.box.measured = w.box.measured

(* Nothing is seen for long, nothing is pressed, and no answer is waited for. *)
Gone(w, r) ==
  /\ r.hwnd.visible => w.hwnd.visible /\ r.win.hiding
  /\ ~r.win.pressed /\ r.win.verified = None /\ r.win.focus = None
  /\ ~r.box.fresh /\ ~r.box.done
  /\ SameQuery(w, r) /\ SamePicture(w, r)
  /\ r.hwnd.exists = w.hwnd.exists

LEMMA VanishHides ==
  ASSUME NEW w, Intact(w), NEW luck
  PROVE  LET r == Vanish(w, luck)
         IN  /\ Intact(r) /\ Gone(w, r)
             /\ r.win.requested = w.win.requested /\ r.win.pending = w.win.pending
             /\ r.win.dirty = w.win.dirty /\ r.hwnd.timer = w.hwnd.timer
<1> DEFINE o == [w.win EXCEPT !.verified = None, !.focus = None, !.widening = FALSE,
                              !.expanded = FALSE, !.pressed = FALSE]
           u == Outdate(w)
           reset == [u EXCEPT !.win = [@ EXCEPT !.verified = None, !.focus = None,
                       !.widening = FALSE, !.expanded = FALSE, !.pressed = FALSE]]
           r == Vanish(w, luck)
<1>1. /\ w \in W /\ Seated(w) /\ Absent(w) /\ Fades(w) /\ Fits(w) /\ Asking(w) /\ Retries(w)
      /\ w.win \in Object /\ w.hwnd \in Handle /\ w.box \in Mailbox
  BY Parts DEF Intact
<1>2. o \in Object
  BY <1>1, PutPlace, PutFocus, PutFlag
<1>3. /\ o.verified = None /\ o.focus = None /\ ~o.widening /\ ~o.pressed
      /\ o.requested = w.win.requested /\ o.pending = w.win.pending /\ o.dirty = w.win.dirty
      /\ o.snapshot = w.win.snapshot /\ o.at = w.win.at /\ o.settings = w.win.settings
      /\ o.theme = w.win.theme /\ o.dark = w.win.dark /\ o.layered = w.win.layered
      /\ o.surface = w.win.surface /\ o.retried = w.win.retried
      /\ o.fading = w.win.fading /\ o.to = w.win.to /\ o.hiding = w.win.hiding
      /\ o.opacity = w.win.opacity
  BY <1>1 DEF Object
<1>4. /\ u \in W /\ u.box = [w.box EXCEPT !.fresh = FALSE, !.done = FALSE]
      /\ u.win = w.win /\ u.hwnd = w.hwnd
  BY <1>1, OutdateVoids
<1>5. ~u.box.fresh /\ ~u.box.done /\ SameQuery(w, u)
  BY <1>1, <1>4 DEF Mailbox, SameQuery
<1>6. reset = [u EXCEPT !.win = o]
  BY <1>4
<1> HIDE DEF o, u, reset
<1>7. reset \in W /\ reset.win = o /\ reset.hwnd = w.hwnd /\ reset.box = u.box
  BY <1>2, <1>4, <1>6, WithWin
<1>8. Fits(reset)
  BY <1>1, <1>3, <1>7 DEF Fits, LookOf
<1>9. SamePicture(w, reset) /\ SameQuery(w, reset)
  BY <1>3, <1>5, <1>7 DEF SamePicture, SameQuery
<1>10. SUFFICES /\ r \in W /\ Refades(reset, r)
                /\ r.hwnd.visible => w.hwnd.visible /\ r.win.hiding /\ r.win.fading
                /\ r.hwnd.invalid => w.hwnd.invalid
                /\ ~w.hwnd.exists => ~r.win.fading
  <2> HIDE DEF r
  <2>1. /\ r.box = u.box
        /\ r.win.requested = w.win.requested /\ r.win.pending = w.win.pending
        /\ r.win.dirty = w.win.dirty /\ r.hwnd.timer = w.hwnd.timer
        /\ r.win.verified = None /\ r.win.focus = None /\ r.hwnd.exists = w.hwnd.exists
        /\ ~r.win.pressed /\ ~r.win.widening /\ r.win.surface = w.win.surface
    BY <1>3, <1>7, <1>10 DEF Refades, SameQuestion, SameFrame
  <2>2. SamePicture(w, r) /\ SameQuery(w, r)
    BY <1>5, <1>9, <1>10, <2>1 DEF Refades, SamePicture, SameQuery
  <2>3. Gone(w, r)
    BY <1>5, <1>10, <2>1, <2>2 DEF Gone
  <2>4. Fits(r)
    BY <1>8, <1>10, RefadesFits
  <2>5. Seated(r)
    BY <1>1, <1>10, <2>1, <2>2 DEF Seated, SamePicture
  <2>6. Absent(r)
    BY <1>1, <1>10, <2>1 DEF Absent
  <2>7. Fades(r) /\ Drawn(r)
    BY <1>10, <2>1 DEF Fades, Drawn, Painted
  <2>8. Asking(r) /\ Retries(r)
    BY <1>1, <1>3, <1>7, <1>10, <2>2 DEF Asking, SameQuery, Retries, Refades
  <2> QED
    BY <1>10, <2>1, <2>3, <2>4, <2>5, <2>6, <2>7, <2>8 DEF Intact, r
<1>11. Refades(reset, reset)
  BY DEF Refades, SameQuestion, SamePicture, SameFrame
<1>12. CASE ~w.hwnd.exists
  <2>1. r = reset
    BY <1>12 DEF Vanish, reset, u
  <2> HIDE DEF r
  <2> QED
    BY <1>1, <1>3, <1>7, <1>11, <1>12, <2>1 DEF Absent
<1>13. CASE w.hwnd.exists /\ env.animations /\ w.hwnd.visible /\ w.win.hiding
  <2>1. r = reset
    BY <1>13 DEF Vanish, reset, u
  <2> HIDE DEF r
  <2> QED
    BY <1>1, <1>3, <1>7, <1>11, <1>13, <2>1 DEF Fades
<1>14. CASE w.hwnd.exists /\ env.animations /\ w.hwnd.visible /\ ~w.win.hiding
  <2>1. r = StartNativeFade(reset, w.win.opacity, 0, TRUE, luck)
    BY <1>14 DEF Vanish, reset, u
  <2>2. w.win.opacity \in Opacity /\ 0 \in Opacity
    BY <1>1 DEF Object, Opacity
  <2> HIDE DEF r
  <2>3. /\ r \in W /\ Refades(reset, r)
        /\ IF luck = "timer" THEN ~r.hwnd.visible /\ ~r.hwnd.invalid
           ELSE /\ r.win.hiding /\ r.win.fading
                /\ r.hwnd.visible = reset.hwnd.visible /\ r.hwnd.invalid = reset.hwnd.invalid
    <3>1. Begun(reset, r, 0, TRUE, luck)
      BY <1>7, <2>1, <2>2, FadeStarts, Zenon
    <3> QED
      BY <3>1 DEF Begun
  <2> QED
    BY <1>7, <1>14, <2>3
<1>15. CASE w.hwnd.exists /\ ~(env.animations /\ w.hwnd.visible)
  <2> DEFINE f == [reset EXCEPT !.win = FadeOver(@, Full)]
  <2>1. r = Conceal(f)
    BY <1>15 DEF Vanish, reset, u
  <2>0. Full \in Opacity
    BY DEF Opacity, Full
  <2>2. f \in W /\ Refades(reset, f)
    BY <1>7, <2>0, FadeOverEnds
  <2> HIDE DEF f, r
  <2>3. r \in W /\ Refades(f, r) /\ ~r.hwnd.visible /\ ~r.hwnd.invalid
    BY <2>1, <2>2, ConcealRefades
  <2> QED
    BY <1>15, <2>2, <2>3, RefadesOn
<1> QED
  BY <1>12, <1>13, <1>14, <1>15

LEMMA HideHides ==
  ASSUME NEW w, Intact(w), NEW luck
  PROVE  LET r == Hide(w, luck)
         IN  /\ Intact(r) /\ Gone(w, r)
             /\ ~r.win.requested /\ r.win.pending = None /\ ~r.win.dirty /\ ~r.hwnd.timer
<1> DEFINE o == [w.win EXCEPT !.requested = FALSE, !.pending = None, !.dirty = FALSE]
           h == [w.hwnd EXCEPT !.timer = FALSE, !.untimed = FALSE]
           v == [w EXCEPT !.win = o]
           u == [w EXCEPT !.win = [@ EXCEPT !.requested = FALSE, !.pending = None,
                                            !.dirty = FALSE],
                          !.hwnd = [@ EXCEPT !.timer = FALSE, !.untimed = FALSE]]
           r == Hide(w, luck)
<1>1. w \in W /\ w.win \in Object /\ w.hwnd \in Handle /\ w.box \in Mailbox
  BY Parts DEF Intact
<1>2. o \in Object /\ h \in Handle
  BY <1>1, PutFlag, PutPending, PutHandle
<1>3. /\ ~o.requested /\ o.pending = None /\ ~o.dirty
      /\ o.snapshot = w.win.snapshot /\ o.at = w.win.at /\ o.settings = w.win.settings
      /\ o.theme = w.win.theme /\ o.dark = w.win.dark /\ o.layered = w.win.layered
      /\ o.surface = w.win.surface /\ o.widening = w.win.widening /\ o.pressed = w.win.pressed
      /\ o.fading = w.win.fading /\ o.to = w.win.to /\ o.hiding = w.win.hiding
      /\ o.opacity = w.win.opacity /\ o.retried = w.win.retried
  BY <1>1 DEF Object
<1>4. /\ ~h.timer /\ h.exists = w.hwnd.exists /\ h.visible = w.hwnd.visible
      /\ h.layered = w.hwnd.layered /\ h.size = w.hwnd.size /\ h.screen = w.hwnd.screen
      /\ h.failed = w.hwnd.failed /\ h.missed = w.hwnd.missed /\ h.invalid = w.hwnd.invalid
  BY <1>1 DEF Handle
<1> HIDE DEF o, h
<1>5. v \in W /\ v.win = o /\ v.hwnd = w.hwnd /\ v.box = w.box
  BY <1>1, <1>2, WithWin
<1> HIDE DEF v
<1>6. u = [v EXCEPT !.hwnd = h]
  BY DEF u, v, o, h
<1> HIDE DEF u
<1>7. u \in W /\ u.win = o /\ u.hwnd = h /\ u.box = w.box
  BY <1>2, <1>5, <1>6, WithHwnd
<1>8. Intact(u)
  BY <1>3, <1>4, <1>7
     DEF Intact, Seated, Absent, Fades, Fits, Drawn, Held, Painted, CanPresent, Retries,
         Asking, LookOf
<1>9. r = Vanish(u, luck)
  BY DEF Hide, u
<1>10. /\ Intact(r) /\ Gone(u, r)
       /\ r.win.requested = u.win.requested /\ r.win.pending = u.win.pending
       /\ r.win.dirty = u.win.dirty /\ r.hwnd.timer = u.hwnd.timer
  BY <1>8, <1>9, VanishHides
<1> HIDE DEF r
<1>11. Gone(w, r)
  BY <1>3, <1>4, <1>7, <1>10 DEF Gone, SameQuery, SamePicture
<1> QED
  BY <1>3, <1>4, <1>7, <1>10, <1>11 DEF r

-----------------------------------------------------------------------------
(* Showing. *)

LEMMA LayeredLayers ==
  ASSUME NEW w \in W, NEW luck
  PROVE  LET r == Layered(w, luck)
         IN  /\ r \in W /\ SameQuestion(w, r) /\ SameFade(w, r) /\ SameFrame(w, r)
             /\ r.win.layered /\ (r = w \/ r.win.surface = None)
<1> DEFINE r == Layered(w, luck)
           d == Discard(w)
           o == [d.win EXCEPT !.layered = TRUE]
           layered == d.hwnd.layered \/ luck # "style"
           h == [d.hwnd EXCEPT !.layered = layered]
           u == [d EXCEPT !.win = o]
<1>1. CASE w.win.layered
  <2>1. r = w
    BY <1>1 DEF Layered
  <2> HIDE DEF r
  <2> QED
    BY <1>1, <2>1 DEF r, SameQuestion, SameFade, SameFrame
<1>2. CASE ~w.win.layered
  <2>1. w.win \in Object /\ w.hwnd \in Handle
    BY Parts
  <2>2. d \in W /\ d.win = [w.win EXCEPT !.surface = None] /\ d.hwnd = w.hwnd /\ d.box = w.box
    BY DiscardFrees
  <2> HIDE DEF d
  <2>3. d.win \in Object /\ d.hwnd \in Handle
    BY <2>2, Parts
  <2>10. layered \in BOOLEAN
    BY <2>3 DEF Handle
  <2> HIDE DEF layered
  <2>4. o \in Object /\ h \in Handle
    BY <2>3, <2>10, PutFlag, PutHandle
  <2>5. /\ o.requested = w.win.requested /\ o.pending = w.win.pending /\ o.dirty = w.win.dirty
        /\ o.verified = w.win.verified /\ o.focus = w.win.focus /\ o.layered
        /\ o.widening = w.win.widening /\ o.target = w.win.target
        /\ o.surface = None /\ o.pressed = w.win.pressed
        /\ o.fading = w.win.fading /\ o.to = w.win.to /\ o.hiding = w.win.hiding
        /\ o.opacity = w.win.opacity
    BY <2>1, <2>2 DEF Object
  <2>6. /\ h.exists = w.hwnd.exists /\ h.timer = w.hwnd.timer
        /\ h.untimed = w.hwnd.untimed
        /\ h.size = w.hwnd.size /\ h.visible = w.hwnd.visible
    BY <2>1, <2>2 DEF Handle
  <2>7. r = [u EXCEPT !.hwnd = h]
    BY <1>2 DEF Layered, d, layered
  <2> HIDE DEF o, h, r
  <2>8. u \in W /\ u.win = o /\ u.hwnd = d.hwnd /\ u.box = d.box
    BY <2>2, <2>4, WithWin
  <2> HIDE DEF u
  <2>9. r \in W /\ r.win = o /\ r.hwnd = h /\ r.box = w.box
    BY <2>2, <2>4, <2>7, <2>8, WithHwnd
  <2> QED
    BY <1>2, <2>5, <2>6, <2>9 DEF r, SameQuestion, SameFade, SameFrame
<1> QED
  BY <1>1, <1>2

LEMMA RestyledFits ==
  ASSUME env \in Environment, NEW w \in W, Fits(w), NEW settings \in Settings, NEW luck
  PROVE  LET r == Restyled(w, settings, luck)
         IN  /\ r \in W /\ SameQuestion(w, r) /\ SameFade(w, r) /\ SameFrame(w, r)
             /\ r.win.layered /\ r.win.theme # None /\ Fits(r)
<1> DEFINE changed == \/ w.win.theme = None
                      \/ w.win.settings.theme # settings.theme
                      \/ w.win.theme # settings.theme /\ luck = "retry theme"
           loaded == IF ~changed THEN w.win.theme
                     ELSE IF luck = "theme" THEN Default ELSE settings.theme
           l == Layered(w, luck)
           o == [l.win EXCEPT !.theme = loaded, !.dark = env.dark, !.settings = settings]
           known == [l EXCEPT !.win = o]
           r == Restyled(w, settings, luck)
<1>1. w.win \in Object /\ env.dark \in BOOLEAN /\ settings.theme \in Themes
  BY Parts DEF Environment, Settings
<1>2. None \notin Themes /\ Default \in Themes
  BY NamesAssumption DEF Themes
<1>3. loaded \in Themes /\ loaded # None
  BY <1>1, <1>2 DEF Object
<1>4. /\ l \in W /\ SameQuestion(w, l) /\ SameFade(w, l) /\ SameFrame(w, l)
      /\ l.win.layered /\ (l = w \/ l.win.surface = None)
  BY LayeredLayers
<1>5. r = IF AppearanceChanged(w.win, settings, changed) THEN Discard(known) ELSE known
  BY DEF Restyled
<1>6. AppearanceChanged(w.win, settings, changed) <=>
        changed \/ w.win.dark # env.dark \/ w.win.settings.colours # settings.colours
  BY DEF AppearanceChanged
<1>7. ~changed => loaded = w.win.theme
  OBVIOUS
<1> HIDE DEF l, loaded, changed, r
<1>8. l.win \in Object
  BY <1>4, Parts
<1>9. o \in Object
  BY <1>1, <1>3, <1>8, PutLook, PutFlag
<1>10. /\ o.requested = l.win.requested /\ o.pending = l.win.pending /\ o.dirty = l.win.dirty
       /\ o.verified = l.win.verified /\ o.focus = l.win.focus /\ o.layered = l.win.layered
       /\ o.widening = l.win.widening /\ o.target = l.win.target
       /\ o.surface = l.win.surface /\ o.pressed = l.win.pressed
       /\ o.fading = l.win.fading /\ o.to = l.win.to /\ o.hiding = l.win.hiding
       /\ o.opacity = l.win.opacity
       /\ o.theme = loaded /\ o.dark = env.dark /\ o.settings = settings
  BY <1>8 DEF Object
<1> HIDE DEF o
<1>11. known \in W /\ known.win = o /\ known.hwnd = l.hwnd /\ known.box = l.box
  BY <1>4, <1>9, WithWin
<1> HIDE DEF known
<1>12. /\ SameQuestion(w, known) /\ SameFade(w, known) /\ SameFrame(w, known)
       /\ known.win.layered /\ known.win.theme # None
  BY ZenonT(60), <1>3, <1>4, <1>10, <1>11 DEF SameQuestion, SameFade, SameFrame
<1>13. CASE AppearanceChanged(w.win, settings, changed)
  <2>1. r = Discard(known)
    BY <1>5, <1>13
  <2>2. r \in W /\ Repaints(known, r) /\ SameFrame(known, r) /\ Fits(r)
    BY <1>11, <2>1, DiscardFrees, DiscardRepaints
  <2> QED
    BY <1>12, <2>2 DEF r, Repaints, SameQuestion, SamePicture, SameFade, SameFrame
<1>14. CASE ~AppearanceChanged(w.win, settings, changed)
  <2>1. r = known
    BY <1>5, <1>14
  <2>2. loaded = w.win.theme /\ w.win.dark = env.dark /\ w.win.settings.colours = settings.colours
    BY <1>6, <1>7, <1>14
  <2>3. LookOf(o) = LookOf(w.win)
    BY <1>10, <2>2 DEF LookOf
  <2>4. Fits(known)
    BY <1>4, <1>10, <1>11, <2>3 DEF Fits
  <2> QED
    BY <1>11, <1>12, <2>1, <2>4 DEF r
<1> QED
  BY <1>13, <1>14

(* The window takes its place and its size: it is visible, and waits to be painted. *)
LEMMA PlacedShows ==
  ASSUME NEW w \in W, Fits(w), NEW target \in Size \X (Place \cup {None}),
         NEW wasVisible, NEW wasHiding, NEW luck
  PROVE  LET r == Placed(w, target, wasVisible, wasHiding, luck)
         IN  /\ r \in W /\ SameQuestion(w, r) /\ SamePicture(w, r) /\ Fits(r)
             /\ r.hwnd.visible /\ r.hwnd.invalid /\ ~r.win.retried
             /\ r.win.fading = w.win.fading /\ r.win.to = w.win.to
             /\ r.win.hiding = w.win.hiding /\ r.win.opacity = w.win.opacity
             /\ r.win.pressed = w.win.pressed
<1> DEFINE before == w.hwnd.size
           animate == env.animations /\ wasVisible /\ ~wasHiding /\ target[1].cy = before.cy
           restart == ~animate \/ ~w.win.widening \/ w.win.target # target
           begin == animate /\ target[1].cx # before.cx /\ luck # "timer"
           o == [w.win EXCEPT !.widening = begin, !.target = target, !.from = before.cx]
           aimed == IF restart THEN [w EXCEPT !.win = o] ELSE w
           cx == IF aimed.win.widening THEN before.cx ELSE target[1].cx
           size == [target[1] EXCEPT !.cx = cx]
           sized == SizeChanged(aimed, size)
           moved == [sized EXCEPT !.hwnd.visible = TRUE]
           s == moved.win.surface
           small == moved.win.widening
                    /\ (s = None \/ s.size.cx < target[1].cx \/ s.size.cy # target[1].cy)
           kept == IF small THEN Discard(moved) ELSE moved
           r == Placed(w, target, wasVisible, wasHiding, luck)
<1>1. w.win \in Object /\ w.hwnd \in Handle /\ before \in Size /\ target[1] \in Size
  BY Parts DEF Handle
<1>2. begin \in BOOLEAN /\ before.cx \in 1 .. 3
  BY <1>1 DEF Size
<1>3. r = [kept EXCEPT !.win.retried = FALSE, !.hwnd.invalid = TRUE]
  BY DEF Placed
<1> HIDE DEF begin
<1>4. o \in Object
  BY <1>1, <1>2, PutFlag, PutTarget
<1>5. /\ o.requested = w.win.requested /\ o.pending = w.win.pending /\ o.dirty = w.win.dirty
      /\ o.verified = w.win.verified /\ o.focus = w.win.focus
      /\ o.snapshot = w.win.snapshot /\ o.at = w.win.at /\ o.settings = w.win.settings
      /\ o.theme = w.win.theme /\ o.dark = w.win.dark /\ o.layered = w.win.layered
      /\ o.fading = w.win.fading /\ o.to = w.win.to /\ o.hiding = w.win.hiding
      /\ o.opacity = w.win.opacity /\ o.pressed = w.win.pressed
      /\ o.surface = w.win.surface
  BY <1>1 DEF Object
<1> HIDE DEF o, restart
<1>6. aimed \in W /\ Repaints(w, aimed) /\ Fits(aimed) /\ aimed.hwnd = w.hwnd
  <2>1. CASE restart
    <3>1. aimed.win = o /\ aimed.hwnd = w.hwnd /\ aimed.box = w.box /\ aimed \in W
      BY <1>4, <2>1, WithWin
    <3> HIDE DEF aimed
    <3> QED
      BY <1>5, <3>1 DEF Repaints, SameQuestion, SamePicture, SameFade, Fits, LookOf
  <2>2. CASE ~restart
    BY <2>2, RepaintsNothing
  <2> QED
    BY <2>1, <2>2
<1> HIDE DEF aimed
<1>7. size \in Size
  BY <1>1 DEF Size
<1> HIDE DEF size
<1>8. sized \in W /\ Repaints(aimed, sized) /\ Fits(sized)
  BY <1>6, <1>7, SizeChangedFits
<1> HIDE DEF sized
<1> DEFINE h == [sized.hwnd EXCEPT !.visible = TRUE]
<1>9. sized.hwnd \in Handle /\ h \in Handle
  BY <1>8, Parts, PutHandle
<1>10. /\ h.exists = sized.hwnd.exists /\ h.timer = sized.hwnd.timer /\ h.visible
       /\ h.layered = sized.hwnd.layered /\ h.size = sized.hwnd.size
       /\ h.untimed = sized.hwnd.untimed
  BY <1>9 DEF Handle
<1>11. moved \in W /\ moved.win = sized.win /\ moved.hwnd = h /\ moved.box = sized.box
  BY <1>8, <1>9, WithHwnd
<1> HIDE DEF moved, h
<1>12. Fits(moved)
  BY <1>8, <1>10, <1>11 DEF Fits
<1> HIDE DEF small
<1>13. kept \in W /\ Repaints(moved, kept) /\ Fits(kept)
  BY <1>11, <1>12, DiscardFrees, DiscardRepaints, RepaintsNothing
<1> HIDE DEF kept, r
<1> DEFINE u == [kept EXCEPT !.win.retried = FALSE]
<1>14. u \in W /\ Repaints(kept, u) /\ Fits(u) /\ ~u.win.retried
  BY <1>13, MarkRetried
<1>15. r = [u EXCEPT !.hwnd.invalid = TRUE]
  BY <1>3
<1> HIDE DEF u
<1>16. r \in W /\ Repaints(u, r) /\ Fits(r) /\ r.hwnd.invalid /\ ~r.win.retried
  BY <1>14, <1>15, MarkInvalid
<1>17. Repaints(w, sized) /\ Repaints(moved, r)
  BY <1>6, <1>8, <1>13, <1>14, <1>16, RepaintsOn
<1> QED
  BY <1>10, <1>11, <1>16, <1>17 DEF r, Repaints, SameQuestion, SamePicture, SameFade

(* A window that is shown does not hide, and ends opaque. *)
LEMMA FadedShows ==
  ASSUME NEW w \in W, NEW wasVisible \in BOOLEAN, NEW wasHiding \in BOOLEAN, NEW luck,
         ~w.win.hiding, ~env.animations => ~w.win.fading /\ w.win.opacity = Full,
         wasVisible /\ ~wasHiding =>
           /\ w.win.fading => w.win.to = Full
           /\ ~w.win.fading => w.win.opacity = Full
  PROVE  LET r == Faded(w, wasVisible, wasHiding, luck)
         IN  /\ r \in W /\ Refades(w, r) /\ ~r.win.hiding
             /\ r.win.fading => r.win.to = Full
             /\ ~r.win.fading => r.win.opacity = Full
<1> DEFINE r == Faded(w, wasVisible, wasHiding, luck)
<1>0. w.win.opacity \in Opacity /\ 0 \in Opacity
  BY Parts DEF Object, Opacity
<1>1. Refades(w, w)
  BY DEF Refades, SameQuestion, SamePicture, SameFrame
<1>2. CASE ~env.animations \/ (wasVisible /\ ~wasHiding)
  <2>1. r = w
    BY <1>2 DEF Faded
  <2> HIDE DEF r
  <2> QED
    BY <1>1, <1>2, <2>1 DEF r
<1>3. CASE env.animations /\ ~wasVisible
  <2>1. r = StartNativeFade(w, 0, Full, FALSE, luck)
    BY <1>3 DEF Faded
  <2> HIDE DEF r
  <2>2. /\ r \in W /\ Refades(w, r) /\ ~r.win.hiding /\ r.win.to = Full
        /\ ~r.win.fading => r.win.opacity = Full
    BY <1>0, <2>1, FadesIn
  <2> QED
    BY <2>2 DEF r
<1>4. CASE env.animations /\ wasVisible /\ wasHiding
  <2>1. r = StartNativeFade(w, w.win.opacity, Full, FALSE, luck)
    BY <1>4 DEF Faded
  <2> HIDE DEF r
  <2>2. /\ r \in W /\ Refades(w, r) /\ ~r.win.hiding /\ r.win.to = Full
        /\ ~r.win.fading => r.win.opacity = Full
    BY <1>0, <2>1, FadesIn
  <2> QED
    BY <2>2 DEF r
<1> QED
  BY <1>2, <1>3, <1>4

(* What is shown, and where.  What was asked for is left alone. *)
Shows(w, r, content, at) ==
  /\ r.box = w.box
  /\ r.win.requested /\ r.win.pending = w.win.pending /\ r.win.dirty = w.win.dirty
  /\ r.win.verified = w.win.verified /\ r.win.focus = w.win.focus
  /\ r.hwnd.exists = w.hwnd.exists
  /\ r.hwnd.timer = w.hwnd.timer /\ r.hwnd.untimed = w.hwnd.untimed
  /\ r.win.pressed = w.win.pressed
  /\ r.win.snapshot = content /\ r.win.at = at
  /\ r.hwnd.visible /\ ~r.win.hiding /\ r.win.layered

LEMMA ShowInternalShows ==
  ASSUME env \in Environment, NEW w, Intact(w), w.hwnd.exists,
         NEW content \in Contents, NEW at \in Place, NEW settings \in Settings, NEW luck
  PROVE  LET r == ShowInternal(w, content, at, settings, luck)
         IN  Intact(r) /\ Shows(w, r, content, at)
<1> DEFINE v == [w EXCEPT !.win.requested = TRUE]
           q == [w.win EXCEPT !.requested = TRUE]
           styled == Restyled(v, settings, luck)
           wide == content \in Wide
           o == [styled.win EXCEPT !.snapshot = content, !.at = at, !.hiding = FALSE,
                   !.canExpand = wide, !.expanded = @ /\ wide, !.fading = @ /\ env.animations,
                   !.opacity = IF env.animations THEN @ ELSE Full]
           told == [styled EXCEPT !.win = Seat(@, content, at)]
           made == EnsureDeviceResources(told, luck)
           faded == Faded(made, w.hwnd.visible, w.win.hiding, luck)
           target == <<Measured(faded.win), at>>
           r == ShowInternal(w, content, at, settings, luck)
<1>1. /\ w \in W /\ w.win \in Object /\ w.hwnd \in Handle
      /\ Seated(w) /\ Absent(w) /\ Fades(w) /\ Fits(w) /\ Asking(w)
  BY Parts DEF Intact
<1>2. content # 0 /\ content \in Contents \cup {0} /\ at \in Place \cup {None}
      /\ env.animations \in BOOLEAN /\ wide \in BOOLEAN /\ Full \in Opacity
      /\ w.hwnd.visible \in BOOLEAN /\ w.win.hiding \in BOOLEAN
  BY <1>1 DEF Contents, Environment, Opacity, Full, Handle, Object
<1>3. r = Placed(faded, target, w.hwnd.visible, w.win.hiding, luck)
  <2>1. r = IF ~w.hwnd.exists \/ content = 0 THEN Hide(w, luck)
            ELSE Placed(faded, target, w.hwnd.visible, w.win.hiding, luck)
    BY DEF ShowInternal
  <2> HIDE DEF r, faded, target
  <2> QED
    BY <1>2, <2>1
<1>26. told = [styled EXCEPT !.win = o]
  BY DEF Seat, wide
<1> HIDE DEF told
<1>4. q \in Object /\ v \in W /\ v.win = q /\ v.hwnd = w.hwnd /\ v.box = w.box
  BY <1>1, PutFlag, WithWin
<1>5. /\ q.requested /\ q.pending = w.win.pending /\ q.dirty = w.win.dirty
      /\ q.verified = w.win.verified /\ q.focus = w.win.focus
      /\ q.settings = w.win.settings
      /\ q.theme = w.win.theme /\ q.dark = w.win.dark /\ q.layered = w.win.layered
      /\ q.fading = w.win.fading /\ q.to = w.win.to /\ q.hiding = w.win.hiding
      /\ q.opacity = w.win.opacity /\ q.pressed = w.win.pressed
      /\ q.surface = w.win.surface
  BY <1>1 DEF Object
<1> HIDE DEF q, v
<1>6. Fits(v)
  BY <1>1, <1>4, <1>5 DEF Fits, LookOf
<1>7. /\ styled \in W /\ SameQuestion(v, styled) /\ SameFade(v, styled)
      /\ styled.win.layered /\ styled.win.theme # None /\ Fits(styled)
  BY <1>4, <1>5, <1>6, RestyledFits
<1> HIDE DEF styled, wide
<1>8. /\ styled.win \in Object /\ (styled.win.expanded /\ wide) \in BOOLEAN
      /\ (styled.win.fading /\ env.animations) \in BOOLEAN
      /\ (IF env.animations THEN styled.win.opacity ELSE Full) \in Opacity
  BY <1>2, <1>7, Parts DEF Object
<1>9. o \in Object
  <2> DEFINE a == [styled.win EXCEPT !.snapshot = content, !.at = at, !.hiding = FALSE,
                     !.canExpand = wide]
             expanded == styled.win.expanded /\ wide
             fading == styled.win.fading /\ env.animations
             opacity == IF env.animations THEN styled.win.opacity ELSE Full
  <2>1. a \in Object
    BY <1>2, <1>8, PutContent, PutPlace, PutFlag
  <2>2. /\ a.expanded = styled.win.expanded /\ a.fading = styled.win.fading
        /\ a.opacity = styled.win.opacity
    BY <1>8 DEF Object
  <2>3. o = [a EXCEPT !.expanded = expanded, !.fading = fading, !.opacity = opacity]
    BY <1>8 DEF Object
  <2>4. expanded \in BOOLEAN /\ fading \in BOOLEAN /\ opacity \in Opacity
    BY <1>8
  <2> HIDE DEF a, expanded, fading, opacity
  <2>5. [a EXCEPT !.expanded = expanded, !.fading = fading, !.opacity = opacity] \in Object
    BY <2>1, <2>4, PutFlag, PutOpacity
  <2> QED
    BY <2>3, <2>5
<1>10. /\ o.requested = styled.win.requested /\ o.pending = styled.win.pending
       /\ o.dirty = styled.win.dirty
       /\ o.verified = styled.win.verified /\ o.focus = styled.win.focus
       /\ o.snapshot = content /\ o.at = at /\ o.settings = styled.win.settings
       /\ o.theme = styled.win.theme /\ o.dark = styled.win.dark
       /\ o.layered = styled.win.layered /\ o.surface = styled.win.surface
       /\ o.pressed = styled.win.pressed /\ ~o.hiding /\ o.to = styled.win.to
       /\ o.fading = (styled.win.fading /\ env.animations)
       /\ o.opacity = IF env.animations THEN styled.win.opacity ELSE Full
  BY <1>8 DEF Object
<1> HIDE DEF o
<1>11. told \in W /\ told.win = o /\ told.hwnd = styled.hwnd /\ told.box = styled.box
  BY <1>7, <1>9, <1>26, WithWin
<1>13. Fits(told)
  BY <1>7, <1>10, <1>11 DEF Fits, LookOf
<1>14. made \in W /\ Repaints(told, made) /\ Fits(made)
  BY <1>7, <1>10, <1>11, <1>13, EnsureMakes
<1> HIDE DEF made
<1>15. /\ ~made.win.hiding /\ (~env.animations => ~made.win.fading /\ made.win.opacity = Full)
       /\ w.hwnd.visible /\ ~w.win.hiding =>
            /\ made.win.fading => made.win.to = Full
            /\ ~made.win.fading => made.win.opacity = Full
  BY <1>1, <1>2, <1>4, <1>5, <1>7, <1>8, <1>10, <1>11, <1>14 DEF Repaints, SameFade, Fades
<1>16. /\ faded \in W /\ Refades(made, faded) /\ ~faded.win.hiding
       /\ faded.win.fading => faded.win.to = Full
       /\ ~faded.win.fading => faded.win.opacity = Full
  BY <1>2, <1>14, <1>15, FadedShows
<1>17. Fits(faded)
  BY <1>14, <1>16, RefadesFits
<1> HIDE DEF faded
<1>18. target \in Size \X (Place \cup {None})
  BY <1>2 DEF Measured, Size
<1> HIDE DEF target, r
<1>19. /\ r \in W /\ SameQuestion(faded, r) /\ SamePicture(faded, r) /\ Fits(r)
       /\ r.hwnd.visible /\ r.hwnd.invalid
       /\ r.win.fading = faded.win.fading /\ r.win.to = faded.win.to
       /\ r.win.hiding = faded.win.hiding /\ r.win.opacity = faded.win.opacity
       /\ r.win.pressed = faded.win.pressed /\ ~r.win.retried
  BY <1>3, <1>16, <1>17, <1>18, PlacedShows
<1>20. /\ SameQuestion(told, faded) /\ SamePicture(told, faded)
       /\ faded.win.pressed = told.win.pressed
  BY <1>14, <1>16 DEF Repaints, Refades, SameQuestion, SamePicture, SameFade
<1>21. /\ SameQuestion(told, r) /\ SamePicture(told, r) /\ r.win.pressed = told.win.pressed
  BY <1>19, <1>20 DEF SameQuestion, SamePicture
<1>22. Shows(w, r, content, at)
  BY <1>4, <1>5, <1>7, <1>10, <1>11, <1>16, <1>19, <1>21
     DEF Shows, SameQuestion, SamePicture, SameFade
<1>23. Seated(r) /\ Absent(r)
  BY <1>2, <1>7, <1>10, <1>11, <1>21, <1>22 DEF Seated, Absent, Shows, SamePicture
<1>24. Fades(r) /\ Drawn(r)
  BY <1>16, <1>19 DEF Fades, Drawn, Painted
<1>25. Asking(r) /\ Retries(r)
  BY <1>1, <1>19, <1>22 DEF Asking, Shows, Retries
<1> QED
  BY <1>19, <1>22, <1>23, <1>24, <1>25 DEF Intact, r

-----------------------------------------------------------------------------
(* What the handlers are to keep.  n is the moment the window noticed its focus. *)

SeenBy(place, control, n) ==
  place.from = "caret" /\ place.control = control /\ place.moment >= n

(* Whatever may still become the verified place was seen since then, at the control that *)
(* the window belongs to.                                                                *)
Attested(w, n) ==
  /\ w.win.verified # None => SeenBy(w.win.verified, w.win.focus, n)
  /\ w.box.done /\ w.box.rectangle # None => SeenBy(w.box.rectangle, w.win.focus, n)
  /\ w.box.fresh =>
       /\ w.box.step # "none" /\ w.box.focus = w.win.focus
       /\ w.box.measured # None => SeenBy(w.box.measured, w.box.measured.control, n)
       /\ w.box.step = "answered" /\ w.box.measured # None =>
            w.box.measured.control = w.win.focus

Hidden(w) == w.hwnd.visible => w.win.hiding

(* Nothing is left of what was asked for. *)
TakenBack(w) == ~w.win.requested /\ w.win.pending = None /\ ~w.win.pressed /\ Hidden(w)

(* What is shown is what was asked for last, and so is what waits. *)
Steady(w) == w.hwnd.visible /\ ~w.win.hiding /\ ~w.win.dirty
Latest(w, asked) ==
  /\ w.win.pending # None => w.win.pending.content = asked
  /\ Steady(w) => w.win.snapshot = asked
AtCaret(w) == Steady(w) /\ w.win.verified # None => w.win.at = w.win.verified

(* What was asked for waits with a timer, or with one that could not be set.  Then the query *)
(* that was made with it, or its message, is on the way: Heard.                              *)
Backed(w) == w.win.requested => w.win.pending # None
Timed(w) == w.hwnd.exists /\ w.win.requested => w.hwnd.timer \/ w.hwnd.untimed
Late(w) ==
  /\ w.hwnd.exists /\ w.win.requested /\ ~w.hwnd.timer
  /\ w.win.pending # None /\ (w.win.dirty \/ ~w.hwnd.visible)
Heard(w) == Late(w) => w.box.pending \/ w.box.ready > 0

(* A window that hides although it is asked for has something new to show. *)
Leaving(w) == w.hwnd.visible /\ w.win.hiding /\ w.win.requested => w.win.dirty

(* A handler that turns w into r keeps all that. *)
Faithful(w, r) ==
  \A n \in 0 .. env.moment : Attested(w, n) =>
    /\ Attested(r, n)
    /\ r.win.focus # w.win.focus => Attested(r, env.moment)

Follows(w, r) ==
  /\ Intact(r) /\ r.hwnd.exists = w.hwnd.exists
  /\ Faithful(w, r)
  /\ TakenBack(w) => TakenBack(r)
  /\ \A asked \in Contents \cup {0} : Latest(w, asked) => Latest(r, asked)
  /\ AtCaret(w) => AtCaret(r)
  /\ Backed(w) => Backed(r)
  /\ Timed(w) => Timed(r)
  /\ Leaving(w) => Leaving(r)

LEMMA FaithfulOn ==
  ASSUME NEW u, NEW v, NEW w, env \in Environment, Faithful(u, v), Faithful(v, w)
  PROVE  Faithful(u, w)
<1>1. env.moment \in Nat /\ env.moment \in 0 .. env.moment
  BY BoundsAssumption DEF Environment, Moments
<1> HIDE DEF Attested
<1> SUFFICES ASSUME NEW n \in 0 .. env.moment, Attested(u, n)
             PROVE  /\ Attested(w, n)
                    /\ w.win.focus # u.win.focus => Attested(w, env.moment)
  BY DEF Faithful
<1>2. Attested(v, n) /\ (v.win.focus # u.win.focus => Attested(v, env.moment))
  BY DEF Faithful
<1>3. Attested(w, n) /\ (w.win.focus # v.win.focus => Attested(w, env.moment))
  BY <1>2 DEF Faithful
<1>4. Attested(v, env.moment) => Attested(w, env.moment)
  BY <1>1 DEF Faithful
<1> QED
  BY <1>2, <1>3, <1>4

LEMMA FollowsOn ==
  ASSUME NEW u, NEW v, NEW w, env \in Environment, Follows(u, v), Follows(v, w)
  PROVE  Follows(u, w)
<1>1. Faithful(u, w)
  BY FaithfulOn DEF Follows
<1> QED
  BY <1>1 DEF Follows

(* The same question keeps the places as well attested as they were. *)
LEMMA SameIsFaithful ==
  ASSUME NEW w, NEW r, r.box = w.box, r.win.verified = w.win.verified, r.win.focus = w.win.focus
  PROVE  Faithful(w, r)
  BY DEF Faithful, Attested

(* Without a verified place and an answer that counts there is nothing to attest. *)
LEMMA NothingToAttest ==
  ASSUME NEW w, NEW r, r.win.verified = None, ~r.box.done, ~r.box.fresh
  PROVE  Faithful(w, r)
  BY DEF Faithful, Attested

(* Painting, fading and sizing. *)
LEMMA SameFollows ==
  ASSUME NEW w, NEW r, Intact(r), SameQuestion(w, r), SamePicture(w, r),
         r.hwnd.visible => w.hwnd.visible /\ r.win.hiding = w.win.hiding,
         w.hwnd.visible /\ ~r.hwnd.visible => w.win.hiding,
         r.win.pressed => w.win.pressed
  PROVE  /\ Follows(w, r) /\ (Hidden(w) => Hidden(r))
         /\ Leaving(w) /\ Heard(w) => Heard(r)
<1>1. Faithful(w, r)
  BY SameIsFaithful DEF SameQuestion
<1>2. /\ TakenBack(w) => TakenBack(r)
      /\ \A asked \in Contents \cup {0} : Latest(w, asked) => Latest(r, asked)
      /\ AtCaret(w) => AtCaret(r)
      /\ Hidden(w) => Hidden(r)
  BY DEF TakenBack, Hidden, Latest, Steady, AtCaret, SameQuestion, SamePicture
<1>3. /\ Backed(w) => Backed(r)
      /\ Timed(w) => Timed(r)
      /\ Leaving(w) => Leaving(r)
      /\ r.hwnd.exists = w.hwnd.exists
  BY DEF Backed, Timed, Leaving, SameQuestion
<1>4. Leaving(w) /\ Late(r) => Late(w)
  BY DEF Leaving, Late, SameQuestion
<1>5. Leaving(w) /\ Heard(w) => Heard(r)
  BY <1>4 DEF Heard, SameQuestion
<1> QED
  BY <1>1, <1>2, <1>3, <1>5 DEF Follows

LEMMA NothingFollows ==
  ASSUME NEW w, Intact(w)
  PROVE  Follows(w, w)
  BY DEF Follows, Faithful

LEMMA HideFollows ==
  ASSUME NEW w, Intact(w), NEW luck
  PROVE  LET r == Hide(w, luck)
         IN  /\ Follows(w, r) /\ TakenBack(r)
             /\ \A asked \in Contents \cup {0} : Latest(r, asked)
             /\ AtCaret(r) /\ Timed(r) /\ Heard(r) /\ Backed(r)
<1> DEFINE r == Hide(w, luck)
<1>1. /\ Intact(r) /\ Gone(w, r)
      /\ ~r.win.requested /\ r.win.pending = None /\ ~r.win.dirty /\ ~r.hwnd.timer
  BY HideHides
<1> HIDE DEF r
<1>2. Faithful(w, r)
  BY <1>1, NothingToAttest DEF Gone
<1>3. TakenBack(r) /\ AtCaret(r) /\ \A asked \in Contents \cup {0} : Latest(r, asked)
  BY <1>1 DEF Gone, TakenBack, Hidden, AtCaret, Latest, Steady
<1>5. Timed(r) /\ Heard(r) /\ Backed(r) /\ Leaving(r)
  BY <1>1 DEF Timed, Heard, Late, Backed, Leaving
<1>4. Follows(w, r)
  BY <1>1, <1>2, <1>3, <1>5 DEF Follows, Gone
<1> QED
  BY <1>3, <1>4, <1>5 DEF r

(* What waits is presented at a place that counts as verified, or does as it is. *)
LEMMA PresentFollows ==
  ASSUME env \in Environment, NEW w, Intact(w), NEW rectangle, NEW luck,
         \/ rectangle = None
         \/ rectangle = w.win.verified
         \/ rectangle = w.box.rectangle /\ w.box.done
  PROVE  LET r == PresentAtCaret(w, rectangle, luck)
         IN  Follows(w, r) /\ Heard(r)
<1> DEFINE p == w.win.pending
           anchor == Anchor(w, rectangle)
           o == [w.win EXCEPT !.verified = rectangle]
           known == IF rectangle # None THEN [w EXCEPT !.win.verified = rectangle] ELSE w
           e == [known.win EXCEPT !.dirty = FALSE]
           clean == [known EXCEPT !.win.dirty = FALSE]
           r == PresentAtCaret(w, rectangle, luck)
           new == w.win.dirty \/ ~w.hwnd.visible \/ anchor # w.win.at
<1>1. /\ w \in W /\ w.win \in Object /\ w.hwnd \in Handle /\ w.box \in Mailbox
  BY Parts DEF Intact
<1>2. rectangle \in Place \cup {None} /\ w.win.verified \in Place \cup {None}
      /\ w.win.at \in Place \cup {None} /\ p \in Presentation \cup {None}
  BY <1>1 DEF Object, Mailbox
<1>3. CASE ~w.win.requested \/ w.win.pending = None
  <2>1. r = w
    BY <1>3 DEF PresentAtCaret
  <2> HIDE DEF r
  <2>2. Follows(w, r) /\ Heard(r)
    BY <1>3, <2>1, NothingFollows DEF Heard, Late
  <2> QED
    BY <2>2 DEF r
<1>4. CASE ~(~w.win.requested \/ w.win.pending = None)
  <2>1. p \in Presentation
    BY <1>2, <1>4
  <2>2. p.content \in Contents /\ p.fallback \in Place /\ p.settings \in Settings
    BY <2>1 DEF Presentation
  <2>3. anchor \in Place
    BY <1>2, <2>2 DEF Anchor
  <2>4. r = IF new THEN ShowInternal(clean, p.content, anchor, p.settings, luck) ELSE known
    BY <1>4 DEF PresentAtCaret
  <2>5. /\ o \in Object /\ o.verified = rectangle
        /\ o.requested = w.win.requested /\ o.pending = w.win.pending /\ o.dirty = w.win.dirty
        /\ o.focus = w.win.focus /\ o.snapshot = w.win.snapshot /\ o.at = w.win.at
        /\ o.settings = w.win.settings /\ o.theme = w.win.theme /\ o.dark = w.win.dark
        /\ o.layered = w.win.layered /\ o.surface = w.win.surface
        /\ o.widening = w.win.widening /\ o.pressed = w.win.pressed
        /\ o.fading = w.win.fading /\ o.to = w.win.to /\ o.hiding = w.win.hiding
        /\ o.opacity = w.win.opacity /\ o.retried = w.win.retried
    BY <1>1, <1>2, PutPlace DEF Object
  <2> HIDE DEF o
  <2>6. /\ known \in W /\ known.hwnd = w.hwnd /\ known.box = w.box
        /\ known.win = IF rectangle # None THEN o ELSE w.win
    BY <1>1, <2>5, WithWin DEF o
  <2> HIDE DEF known
  <2>7. Intact(known)
    BY <2>5, <2>6
       DEF Intact, Seated, Absent, Fades, Fits, Drawn, Held, Painted, CanPresent, Retries,
         Asking, LookOf
  <2>8. known.win.verified = IF rectangle # None THEN rectangle ELSE w.win.verified
    BY <2>5, <2>6
  <2>9. Faithful(w, known)
    BY <1>2, <2>5, <2>6, <2>8 DEF Faithful, Attested
  <2>10. known.win.verified # None => known.win.verified = anchor
    BY <2>8 DEF Anchor
  <2>11. CASE ~new
    <3>1. r = known
      BY <2>4, <2>11
    <3> HIDE DEF r
    <3>2. /\ TakenBack(w) => TakenBack(r)
          /\ \A asked \in Contents \cup {0} : Latest(w, asked) => Latest(r, asked)
      BY <2>5, <2>6, <3>1 DEF TakenBack, Hidden, Latest, Steady
    <3>5. /\ Backed(w) => Backed(r)
          /\ Timed(w) => Timed(r)
          /\ Leaving(w) => Leaving(r)
          /\ Heard(r)
      BY <2>5, <2>6, <2>11, <3>1 DEF Backed, Timed, Leaving, Heard, Late
    <3>3. AtCaret(r)
      BY <2>5, <2>6, <2>10, <2>11, <3>1 DEF AtCaret
    <3>4. Follows(w, r)
      BY <2>6, <2>7, <2>9, <3>1, <3>2, <3>3, <3>5 DEF Follows
    <3> QED
      BY <3>4, <3>5 DEF r
  <2>12. CASE new
    <3>1. e \in Object
      BY <2>6, Parts, PutFlag
    <3>2. /\ ~e.dirty /\ e.verified = known.win.verified
          /\ e.requested = w.win.requested /\ e.pending = w.win.pending
          /\ e.focus = w.win.focus /\ e.snapshot = known.win.snapshot /\ e.at = known.win.at
          /\ e.settings = known.win.settings /\ e.theme = known.win.theme
          /\ e.dark = known.win.dark
          /\ e.layered = w.win.layered /\ e.surface = known.win.surface
          /\ e.widening = known.win.widening /\ e.pressed = known.win.pressed
          /\ e.fading = known.win.fading /\ e.to = known.win.to /\ e.hiding = known.win.hiding
          /\ e.opacity = known.win.opacity /\ e.retried = known.win.retried
      <4>1. known.win \in Object
        BY <2>6, Parts
      <4>2. known.win.requested = w.win.requested /\ known.win.pending = w.win.pending
            /\ known.win.focus = w.win.focus /\ known.win.layered = w.win.layered
        BY <2>5, <2>6
      <4> QED
        BY <4>1, <4>2 DEF Object
    <3> HIDE DEF e
    <3>3. clean \in W /\ clean.win = e /\ clean.hwnd = w.hwnd /\ clean.box = w.box
      BY <2>6, <3>1, WithWin DEF e
    <3>4. r = ShowInternal(clean, p.content, anchor, p.settings, luck)
      BY <2>4, <2>12
    <3> HIDE DEF clean, new, anchor, r
    <3>5. Intact(clean)
      BY <2>6, <2>7, <3>2, <3>3
         DEF Intact, Seated, Absent, Fades, Fits, Drawn, Held, Painted, CanPresent, Retries,
         Asking, LookOf
    <3>6. CASE w.hwnd.exists
      <4>1. Intact(r) /\ Shows(clean, r, p.content, anchor)
        BY <2>2, <2>3, <3>3, <3>4, <3>5, <3>6, ShowInternalShows
      <4>2. /\ r.box = known.box /\ r.win.verified = known.win.verified
            /\ r.win.focus = known.win.focus
        BY <2>5, <2>6, <3>2, <3>3, <4>1 DEF Shows
      <4>3. Faithful(known, r)
        BY <4>2, SameIsFaithful
      <4>4. Faithful(w, r)
        BY <2>9, <4>3, FaithfulOn
      <4>5. AtCaret(r)
        BY <2>10, <4>1, <4>2 DEF AtCaret, Shows
      <4>6. \A asked \in Contents \cup {0} : Latest(w, asked) => Latest(r, asked)
        BY <1>4, <3>2, <3>3, <4>1 DEF Latest, Shows
      <4>7. /\ Timed(w) => Timed(r)
            /\ r.hwnd.exists = w.hwnd.exists
            /\ Backed(r) /\ Leaving(r) /\ Heard(r)
        BY <1>4, <3>2, <3>3, <3>6, <4>1 DEF Timed, Backed, Leaving, Heard, Late, Shows
      <4>8. ~TakenBack(w)
        BY <1>4 DEF TakenBack
      <4>9. Follows(w, r)
        BY <4>1, <4>4, <4>5, <4>6, <4>7, <4>8 DEF Follows
      <4> QED
        BY <4>7, <4>9 DEF r
    <3>7. CASE ~w.hwnd.exists
      <4>1. r = Hide(clean, luck)
        BY <3>3, <3>4, <3>7 DEF ShowInternal
      <4>2. /\ Follows(clean, r) /\ TakenBack(r)
            /\ \A asked \in Contents \cup {0} : Latest(r, asked)
            /\ AtCaret(r) /\ Timed(r) /\ Heard(r) /\ Backed(r)
        BY <3>5, <4>1, HideFollows
      <4>3. Faithful(known, clean)
        BY <2>5, <2>6, <3>2, <3>3, SameIsFaithful
      <4>4. Faithful(w, r)
        BY <2>9, <4>2, <4>3, FaithfulOn DEF Follows
      <4>5. Leaving(r) /\ r.hwnd.exists = w.hwnd.exists /\ Intact(r)
        BY <3>2, <3>3, <4>2 DEF Follows, Leaving, TakenBack
      <4>6. Follows(w, r)
        BY <4>2, <4>4, <4>5 DEF Follows
      <4> QED
        BY <4>2, <4>6 DEF r
    <3> QED
      BY <3>6, <3>7
  <2> QED
    BY <2>11, <2>12
<1> QED
  BY <1>3, <1>4

LEMMA OutdateFollows ==
  ASSUME NEW w, Intact(w)
  PROVE  LET r == Outdate(w)
         IN  /\ Intact(r) /\ r.win = w.win /\ r.hwnd = w.hwnd
             /\ ~r.box.fresh /\ ~r.box.done /\ SameQuery(w, r)
             /\ Follows(w, r)
<1> DEFINE r == Outdate(w)
<1>1. w \in W /\ w.box \in Mailbox
  BY Parts DEF Intact
<1>2. /\ r \in W /\ r.box = [w.box EXCEPT !.fresh = FALSE, !.done = FALSE]
      /\ r.win = w.win /\ r.hwnd = w.hwnd
  BY <1>1, OutdateVoids
<1> HIDE DEF r
<1>3. ~r.box.fresh /\ ~r.box.done /\ SameQuery(w, r)
  BY <1>1, <1>2 DEF Mailbox, SameQuery
<1>4. Intact(r)
  BY <1>2, <1>3
     DEF Intact, Seated, Absent, Fades, Fits, Drawn, Held, Painted, CanPresent, Retries,
         Asking, SameQuery
<1>5. Faithful(w, r)
  BY <1>2, <1>3 DEF Faithful, Attested
<1>6. Follows(w, r)
  BY <1>2, <1>4, <1>5
     DEF Follows, TakenBack, Hidden, Latest, Steady, AtCaret, Backed, Timed, Leaving
<1> QED
  BY <1>2, <1>3, <1>4, <1>6 DEF r

LEMMA NoticeFollows ==
  ASSUME env \in Environment, NEW w, Intact(w)
  PROVE  LET r == NoticeFocus(w)
         IN  Follows(w, r) /\ r.win.focus = env.focus
<1> DEFINE u == Outdate(w)
           o == [u.win EXCEPT !.focus = env.focus, !.verified = None, !.dirty = TRUE,
                              !.widening = FALSE, !.fading = FALSE, !.hiding = FALSE]
           v == [u EXCEPT !.win = o]
           r == NoticeFocus(w)
<1>1. CASE w.win.focus = env.focus
  <2>1. r = w
    BY <1>1 DEF NoticeFocus
  <2> HIDE DEF r
  <2>2. Follows(w, r) /\ r.win.focus = env.focus
    BY <1>1, <2>1, NothingFollows
  <2> QED
    BY <2>2 DEF r
<1>2. CASE w.win.focus # env.focus
  <2>1. env.focus \in Controls
    BY DEF Environment
  <2>2. /\ u \in W /\ Intact(u) /\ u.win = w.win /\ u.hwnd = w.hwnd
        /\ ~u.box.fresh /\ ~u.box.done /\ SameQuery(w, u)
    BY OutdateFollows DEF Intact
  <2>3. r = Conceal(v)
    BY <1>2 DEF NoticeFocus
  <2> HIDE DEF u
  <2>4. w.win \in Object /\ u.win \in Object /\ u.hwnd \in Handle
    BY <2>2, Parts DEF Intact
  <2>5. o \in Object
    BY <2>1, <2>4, PutFlag, PutFocus, PutPlace
  <2>6. /\ o.verified = None /\ o.focus = env.focus /\ o.dirty /\ ~o.widening /\ ~o.fading
        /\ ~o.hiding
        /\ o.requested = w.win.requested /\ o.pending = w.win.pending
        /\ o.snapshot = w.win.snapshot /\ o.at = w.win.at
        /\ o.settings = w.win.settings /\ o.theme = w.win.theme /\ o.dark = w.win.dark
        /\ o.layered = w.win.layered /\ o.surface = w.win.surface
        /\ o.pressed = w.win.pressed
    BY <2>2, <2>4 DEF Object
  <2> HIDE DEF o
  <2>7. v \in W /\ v.win = o /\ v.hwnd = w.hwnd /\ v.box = u.box
    BY <2>2, <2>5, WithWin
  <2> HIDE DEF v, r
  <2>8. /\ r \in W /\ r.win = o /\ r.box = u.box
        /\ r.hwnd = [w.hwnd EXCEPT !.visible = FALSE, !.invalid = FALSE]
    BY <2>3, <2>7, ConcealHides
  <2>9. /\ ~r.hwnd.visible /\ ~r.hwnd.invalid /\ r.hwnd.exists = w.hwnd.exists
        /\ r.hwnd.timer = w.hwnd.timer /\ r.hwnd.untimed = w.hwnd.untimed
        /\ r.hwnd.layered = w.hwnd.layered
        /\ r.hwnd.size = w.hwnd.size
    BY <2>2, <2>4, <2>8 DEF Handle
  <2>10. Intact(r)
    BY <2>2, <2>6, <2>8, <2>9
       DEF Intact, Seated, Absent, Fades, Fits, Drawn, Painted, Retries, Asking, LookOf, SameQuery
  <2>11. Faithful(w, r)
    BY <2>2, <2>6, <2>8, NothingToAttest
  <2>12. Follows(w, r)
    BY <2>6, <2>8, <2>9, <2>10, <2>11
       DEF Follows, TakenBack, Hidden, Latest, Steady, AtCaret, Backed, Timed, Leaving
  <2> QED
    BY <2>6, <2>8, <2>12 DEF r
<1> QED
  BY <1>1, <1>2

(* A new query: its number is the current one, and nothing is measured yet. *)
LEMMA SubmitFollows ==
  ASSUME env \in Environment, NEW w, Intact(w), w.win.focus = env.focus, ~w.box.pending
  PROVE  LET r == [Outdate(w) EXCEPT !.box = [@ EXCEPT
                     !.pending = TRUE, !.fresh = TRUE, !.step = "submitted",
                     !.focus = env.focus]]
         IN  Follows(w, r) /\ Heard(r)
<1> DEFINE u == Outdate(w)
           b == [u.box EXCEPT !.pending = TRUE, !.fresh = TRUE, !.step = "submitted",
                              !.focus = env.focus]
           r == [u EXCEPT !.box = b]
<1>1. /\ u \in W /\ u.win = w.win /\ u.hwnd = w.hwnd /\ u.box \in Mailbox
      /\ ~u.box.done /\ SameQuery(w, u)
  BY OutdateFollows, Parts DEF Intact
<1>2. r = [Outdate(w) EXCEPT !.box = [@ EXCEPT
             !.pending = TRUE, !.fresh = TRUE, !.step = "submitted", !.focus = env.focus]]
  OBVIOUS
<1>3. w.box.step = "none" /\ w.box.measured = None
  BY DEF Intact, Asking
<1> HIDE DEF u
<1>4. env.focus \in Controls \cup {None}
  BY DEF Environment
<1>5. b \in Mailbox
  BY <1>1, <1>4, PutBox, PutStep, PutAsked
<1>6. /\ b.pending /\ b.fresh /\ b.step = "submitted" /\ b.focus = env.focus
      /\ b.measured = None /\ ~b.done
  BY <1>1, <1>3 DEF Mailbox, SameQuery
<1> HIDE DEF b
<1>7. r \in W /\ r.box = b /\ r.win = w.win /\ r.hwnd = w.hwnd
  BY <1>1, <1>5, WithBox
<1> HIDE DEF r
<1>8. Intact(r)
  BY <1>6, <1>7
     DEF Intact, Seated, Absent, Fades, Fits, Drawn, Held, Painted, CanPresent, Retries,
         Asking
<1>9. Faithful(w, r)
  BY <1>6, <1>7 DEF Faithful, Attested
<1>10. Follows(w, r)
  BY <1>7, <1>8, <1>9
     DEF Follows, TakenBack, Hidden, Latest, Steady, AtCaret, Backed, Timed, Leaving
<1>11. Heard(r)
  BY <1>6, <1>7 DEF Heard
<1> QED
  BY <1>2, <1>10, <1>11

LEMMA RequestFollows ==
  ASSUME env \in Environment, NEW w, Intact(w), NEW luck
  PROVE  LET r == RequestCaretPosition(w, luck)
         IN  /\ Follows(w, r)
             /\ IF env.foreground = "own" THEN Heard(r) ELSE r = w
<1> DEFINE n == NoticeFocus(w)
           u == Outdate(n)
           r == RequestCaretPosition(w, luck)
<1>1. Follows(w, n) /\ n.win.focus = env.focus /\ Intact(n)
  BY NoticeFollows DEF Follows
<1>2. CASE ~w.win.requested \/ env.foreground # "own"
  <2>1. r = w
    BY <1>2 DEF RequestCaretPosition
  <2> HIDE DEF r
  <2>2. Follows(w, r) /\ (env.foreground = "own" => Heard(r))
    BY <1>2, <2>1, NothingFollows DEF Heard, Late
  <2> QED
    BY <2>1, <2>2 DEF r
<1>3. CASE ~(~w.win.requested \/ env.foreground # "own") /\ luck = "thread info"
  <2>1. r = PresentAtCaret(w, None, luck)
    BY <1>3 DEF RequestCaretPosition
  <2> HIDE DEF r
  <2>2. Follows(w, r) /\ Heard(r)
    BY <2>1, PresentFollows
  <2> QED
    BY <1>3, <2>2 DEF r
<1>4. CASE ~(~w.win.requested \/ env.foreground # "own") /\ luck # "thread info"
  <2>1. r = IF n.box.pending THEN n
            ELSE IF luck = "submit" THEN PresentAtCaret(u, None, luck)
            ELSE [u EXCEPT !.box = [@ EXCEPT !.pending = TRUE, !.fresh = TRUE,
                                      !.step = "submitted", !.focus = env.focus]]
    BY <1>4 DEF RequestCaretPosition
  <2> HIDE DEF n, r
  <2>2. CASE n.box.pending
    <3>1. Follows(w, r) /\ Heard(r)
      BY <1>1, <2>1, <2>2 DEF Heard
    <3> QED
      BY <1>4, <3>1 DEF r
  <2>3. CASE ~n.box.pending /\ luck = "submit"
    <3>1. Follows(n, u) /\ Intact(u)
      BY <1>1, OutdateFollows
    <3> HIDE DEF u
    <3>2. Follows(u, r) /\ Heard(r)
      BY <2>1, <2>3, <3>1, PresentFollows
    <3>3. Follows(w, r)
      BY <1>1, <3>1, <3>2, FollowsOn
    <3> QED
      BY <1>4, <3>2, <3>3 DEF r
  <2>4. CASE ~n.box.pending /\ luck # "submit"
    <3>1. r = [Outdate(n) EXCEPT !.box = [@ EXCEPT !.pending = TRUE, !.fresh = TRUE,
                                      !.step = "submitted", !.focus = env.focus]]
      BY <2>1, <2>4
    <3>2. Follows(n, r) /\ Heard(r)
      BY <1>1, <2>4, <3>1, SubmitFollows
    <3>3. Follows(w, r)
      BY <1>1, <3>2, FollowsOn
    <3> QED
      BY <1>4, <3>2, <3>3 DEF r
  <2> QED
    BY <2>2, <2>3, <2>4
<1> QED
  BY <1>2, <1>3, <1>4

LEMMA ApplyFollows ==
  ASSUME env \in Environment, NEW w, Intact(w), NEW luck
  PROVE  LET r == ApplyCaretPosition(w, luck)
         IN  /\ Follows(w, r)
             /\ IF env.foreground = "own" THEN Heard(r) ELSE r = w
<1> DEFINE r == ApplyCaretPosition(w, luck)
<1>1. CASE ~w.win.requested \/ env.foreground # "own"
  <2>1. r = w
    BY <1>1 DEF ApplyCaretPosition
  <2> HIDE DEF r
  <2>2. Follows(w, r) /\ (env.foreground = "own" => Heard(r))
    BY <1>1, <2>1, NothingFollows DEF Heard, Late
  <2> QED
    BY <2>1, <2>2 DEF r
<1>2. CASE /\ ~(~w.win.requested \/ env.foreground # "own")
           /\ luck # "thread info" /\ AnswerIsCurrent(w)
  <2>1. r = PresentAtCaret(w, w.box.rectangle, luck)
    BY <1>2 DEF ApplyCaretPosition
  <2> HIDE DEF r
  <2>2. Follows(w, r) /\ Heard(r)
    BY <1>2, <2>1, PresentFollows DEF AnswerIsCurrent
  <2> QED
    BY <1>2, <2>2 DEF r
<1>3. CASE /\ ~(~w.win.requested \/ env.foreground # "own")
           /\ ~(luck # "thread info" /\ AnswerIsCurrent(w))
  <2>1. r = RequestCaretPosition(w, luck)
    BY <1>3 DEF ApplyCaretPosition
  <2> HIDE DEF r
  <2>2. Follows(w, r) /\ (env.foreground = "own" => Heard(r))
    BY <2>1, RequestFollows
  <2> QED
    BY <1>3, <2>2 DEF r
<1> QED
  BY <1>1, <1>2, <1>3

(* The timer for the caret runs, or it is known that it could not be set. *)
LEMMA SetCaretTimerSets ==
  ASSUME NEW w, Intact(w), w.hwnd.exists, NEW luck
  PROVE  LET r == SetCaretTimer(w, luck)
         IN  /\ Intact(r) /\ r.win = w.win /\ r.box = w.box
             /\ r.hwnd.exists = w.hwnd.exists /\ r.hwnd.visible = w.hwnd.visible
             /\ r.hwnd.timer \/ r.hwnd.untimed
<1> DEFINE set == luck # "caret timer"
           timer == IF set THEN TRUE ELSE w.hwnd.timer
           untimed == IF set THEN FALSE ELSE ~w.hwnd.timer
           h == [w.hwnd EXCEPT !.timer = timer, !.untimed = untimed]
           r == SetCaretTimer(w, luck)
<1>1. w \in W /\ w.hwnd \in Handle
  BY Parts DEF Intact
<1>2. timer \in BOOLEAN /\ untimed \in BOOLEAN /\ (timer \/ untimed)
  BY <1>1 DEF Handle
<1>3. r = [w EXCEPT !.hwnd = h]
  <2>1. CASE set
    BY <2>1 DEF SetCaretTimer
  <2>2. CASE ~set
    <3>1. h = [w.hwnd EXCEPT !.untimed = ~w.hwnd.timer]
      BY <1>1, <2>2 DEF Handle
    <3> HIDE DEF h
    <3> QED
      BY <2>2, <3>1 DEF SetCaretTimer
  <2> QED
    BY <2>1, <2>2
<1> HIDE DEF timer, untimed, r
<1>4. h \in Handle
  BY <1>1, <1>2, PutHandle
<1>5. /\ h.timer = timer /\ h.untimed = untimed /\ h.exists = w.hwnd.exists
      /\ h.visible = w.hwnd.visible /\ h.invalid = w.hwnd.invalid
      /\ h.layered = w.hwnd.layered /\ h.size = w.hwnd.size /\ h.screen = w.hwnd.screen
      /\ h.failed = w.hwnd.failed /\ h.missed = w.hwnd.missed
  BY <1>1 DEF Handle
<1> HIDE DEF h
<1>6. r \in W /\ r.hwnd = h /\ r.win = w.win /\ r.box = w.box
  BY <1>1, <1>3, <1>4, WithHwnd
<1>7. Seated(r) /\ Fades(r) /\ Fits(r) /\ Asking(r)
  BY <1>5, <1>6 DEF Intact, Seated, Fades, Fits, Asking
<1>8. Drawn(r) /\ Retries(r)
  BY <1>5, <1>6 DEF Intact, Drawn, Held, Painted, CanPresent, Retries
<1>9. Absent(r)
  BY <1>5, <1>6 DEF Absent
<1> QED
  BY <1>2, <1>5, <1>6, <1>7, <1>8, <1>9 DEF Intact, r

LEMMA ActivatedFollows ==
  ASSUME env \in Environment, NEW w, Intact(w), w.hwnd.exists, NEW luck
  PROVE  LET r == Activated(w, luck)
         IN  /\ Follows(w, r) /\ Timed(r)
             /\ IF env.foreground = "own" THEN Heard(r) ELSE Hidden(w) => Hidden(r)
<1> DEFINE set == SetCaretTimer(w, luck)
           u == IF w.win.requested THEN set ELSE w
           r == Activated(w, luck)
<1>1. r = RequestCaretPosition(u, luck)
  BY DEF Activated
<1>2. /\ Intact(set) /\ set.win = w.win /\ set.box = w.box
      /\ set.hwnd.exists = w.hwnd.exists /\ set.hwnd.visible = w.hwnd.visible
      /\ set.hwnd.timer \/ set.hwnd.untimed
  BY SetCaretTimerSets
<1> HIDE DEF set, r
<1>3. /\ Intact(u) /\ u.win = w.win /\ u.box = w.box
      /\ u.hwnd.exists = w.hwnd.exists /\ u.hwnd.visible = w.hwnd.visible
      /\ Timed(u)
  BY <1>2 DEF Timed
<1> HIDE DEF u
<1>4. Faithful(w, u)
  BY <1>3, SameIsFaithful
<1>5. Follows(w, u) /\ (Hidden(w) => Hidden(u))
  BY <1>3, <1>4
     DEF Follows, TakenBack, Hidden, Latest, Steady, AtCaret, Backed, Leaving
<1>6. Follows(u, r) /\ IF env.foreground = "own" THEN Heard(r) ELSE r = u
  BY <1>1, <1>3, RequestFollows
<1>7. Follows(w, r) /\ Timed(r)
  BY <1>3, <1>5, <1>6, FollowsOn DEF Follows
<1> QED
  BY <1>5, <1>6, <1>7 DEF r

(* The window hides; what was asked for stays, without its timer. *)
LEMMA DeactivatedHides ==
  ASSUME NEW w, Intact(w), NEW luck
  PROVE  LET r == Deactivated(w, luck)
         IN  /\ Intact(r) /\ Hidden(r) /\ r.hwnd.exists = w.hwnd.exists
             /\ Faithful(w, r)
             /\ TakenBack(w) => TakenBack(r)
             /\ \A asked \in Contents \cup {0} : Latest(w, asked) => Latest(r, asked)
             /\ AtCaret(r) /\ (Backed(w) => Backed(r)) /\ Leaving(r)
<1> DEFINE u == Hide(w, luck)
           o == [u.win EXCEPT !.pending = w.win.pending, !.dirty = w.win.requested,
                              !.requested = w.win.requested]
           r == Deactivated(w, luck)
<1>1. /\ Intact(u) /\ u \in W /\ Gone(w, u) /\ u.win \in Object
      /\ w.win.pending \in Presentation \cup {None} /\ w.win.requested \in BOOLEAN
  BY HideHides, Parts DEF Intact, Object
<1>2. r = [u EXCEPT !.win = o]
  BY DEF Deactivated
<1> HIDE DEF u, r
<1>3. o \in Object
  BY <1>1, PutFlag, PutPending
<1>4. /\ o.pending = w.win.pending /\ o.requested = w.win.requested
      /\ o.dirty = w.win.requested /\ o.retried = u.win.retried
      /\ o.verified = u.win.verified /\ o.focus = u.win.focus
      /\ o.snapshot = u.win.snapshot /\ o.at = u.win.at
      /\ o.settings = u.win.settings /\ o.theme = u.win.theme /\ o.dark = u.win.dark
      /\ o.layered = u.win.layered /\ o.surface = u.win.surface
      /\ o.widening = u.win.widening /\ o.pressed = u.win.pressed
      /\ o.fading = u.win.fading /\ o.to = u.win.to /\ o.hiding = u.win.hiding
      /\ o.opacity = u.win.opacity
  BY <1>1 DEF Object
<1> HIDE DEF o
<1>5. r \in W /\ r.win = o /\ r.hwnd = u.hwnd /\ r.box = u.box
  BY <1>1, <1>2, <1>3, WithWin
<1>6. Intact(r)
  BY <1>1, <1>4, <1>5
     DEF Intact, Seated, Absent, Fades, Fits, Drawn, Held, Painted, CanPresent, Retries,
         Asking, LookOf
<1>7. Faithful(w, r)
  BY <1>1, <1>4, <1>5, NothingToAttest DEF Gone
<1>8. /\ Hidden(r) /\ AtCaret(r) /\ r.hwnd.exists = w.hwnd.exists
      /\ TakenBack(w) => TakenBack(r)
      /\ \A asked \in Contents \cup {0} : Latest(w, asked) => Latest(r, asked)
      /\ (Backed(w) => Backed(r)) /\ Leaving(r)
  BY <1>1, <1>4, <1>5
     DEF Gone, Hidden, AtCaret, Steady, TakenBack, Latest, Backed, Leaving
<1> QED
  BY <1>6, <1>7, <1>8 DEF r

(* A new presentation waits until the caret is known, or is shown where it was verified. *)
LEMMA ShowHereWaits ==
  ASSUME env \in Environment, NEW w, Intact(w), w.hwnd.exists, NEW content \in Contents,
         NEW fallback \in Place, NEW settings \in Settings, NEW luck
  PROVE  LET r == ShowHere(w, content, fallback, settings, luck)
         IN  /\ Intact(r) /\ r.hwnd.exists = w.hwnd.exists
             /\ Faithful(w, r) /\ Latest(r, content) /\ AtCaret(r)
             /\ Backed(r) /\ Timed(r) /\ Leaving(r)
             /\ env.foreground = "own" => Heard(r)
<1> DEFINE p == [content |-> content, fallback |-> fallback, settings |-> settings]
           o == [w.win EXCEPT !.pending = p, !.requested = TRUE, !.dirty = TRUE]
           queued == [w EXCEPT !.win = o]
           u == SetCaretTimer(queued, luck)
           asked == RequestCaretPosition(u, luck)
           r == ShowHere(w, content, fallback, settings, luck)
<1>1. w \in W /\ w.win \in Object /\ w.hwnd \in Handle
  BY Parts DEF Intact
<1>2. r = IF asked.win.verified = None THEN asked
          ELSE PresentAtCaret(asked, asked.win.verified, luck)
  BY DEF ShowHere, QueuePresentation
<1>3. p \in Presentation /\ p.content = content
  BY DEF Presentation
<1> HIDE DEF p
<1>4. o \in Object
  BY <1>1, <1>3, PutPending, PutFlag
<1>5. /\ o.pending = p /\ o.requested /\ o.dirty
      /\ o.verified = w.win.verified /\ o.focus = w.win.focus
      /\ o.snapshot = w.win.snapshot /\ o.at = w.win.at
      /\ o.settings = w.win.settings /\ o.theme = w.win.theme /\ o.dark = w.win.dark
      /\ o.layered = w.win.layered /\ o.surface = w.win.surface
      /\ o.widening = w.win.widening /\ o.pressed = w.win.pressed
      /\ o.fading = w.win.fading /\ o.to = w.win.to /\ o.hiding = w.win.hiding
      /\ o.opacity = w.win.opacity /\ o.retried = w.win.retried
  BY <1>1 DEF Object
<1> HIDE DEF o
<1>7. queued \in W /\ queued.win = o /\ queued.hwnd = w.hwnd /\ queued.box = w.box
  BY <1>1, <1>4, WithWin
<1> HIDE DEF queued
<1>8. Intact(queued)
  <2>1. Seated(queued) /\ Absent(queued) /\ Fades(queued)
    BY <1>5, <1>7 DEF Intact, Seated, Absent, Fades
  <2>2. Fits(queued)
    BY <1>5, <1>7 DEF Intact, Fits, LookOf
  <2>3. Drawn(queued) /\ Retries(queued)
    BY <1>5, <1>7 DEF Intact, Drawn, Held, Painted, CanPresent, LookOf, Retries
  <2> QED
    BY <1>7, <2>1, <2>2, <2>3 DEF Intact, Asking
<1>10. /\ Intact(u) /\ u.win = o /\ u.box = w.box
       /\ u.hwnd.exists = w.hwnd.exists /\ u.hwnd.visible = w.hwnd.visible
       /\ u.hwnd.timer \/ u.hwnd.untimed
  <2>1. queued.hwnd.exists
    BY <1>7
  <2> QED
    BY <1>7, <1>8, <2>1, SetCaretTimerSets
<1> HIDE DEF u
<1> HIDE DEF asked, r
<1>11. Faithful(w, u) /\ u.hwnd.exists = w.hwnd.exists
  BY <1>5, <1>10, SameIsFaithful
<1>12. Latest(u, content) /\ AtCaret(u) /\ Timed(u) /\ Backed(u) /\ Leaving(u)
  <2>1. Latest(u, content) /\ AtCaret(u)
    BY <1>3, <1>5, <1>10 DEF Latest, Steady, AtCaret
  <2>2. p # None
    BY <1>3, RecordsAssumption
  <2>3. Timed(u) /\ Backed(u) /\ Leaving(u)
    BY <1>5, <1>10, <2>2 DEF Timed, Backed, Leaving
  <2> QED
    BY <2>1, <2>3
<1>13. /\ Follows(u, asked) /\ Intact(asked)
       /\ env.foreground = "own" => Heard(asked)
  BY <1>10, RequestFollows DEF Follows, asked
<1>14. Follows(u, r) /\ (env.foreground = "own" => Heard(r))
  <2>1. CASE asked.win.verified = None
    BY <1>2, <1>13, <2>1
  <2>2. CASE asked.win.verified # None
    <3>1. r = PresentAtCaret(asked, asked.win.verified, luck)
      BY <1>2, <2>2
    <3>2. Follows(asked, r) /\ Heard(r)
      BY <1>13, <3>1, PresentFollows
    <3> QED
      BY <1>13, <3>2, FollowsOn
  <2> QED
    BY <2>1, <2>2
<1>15. Faithful(w, r)
  BY <1>11, <1>14, FaithfulOn DEF Follows
<1>16. content \in Contents \cup {0}
  OBVIOUS
<1>17. /\ Intact(r) /\ r.hwnd.exists = w.hwnd.exists
       /\ Latest(r, content) /\ AtCaret(r)
       /\ Timed(r) /\ Backed(r) /\ Leaving(r)
  BY <1>11, <1>12, <1>14, <1>16 DEF Follows
<1> QED
  BY <1>14, <1>15, <1>17 DEF r

LEMMA ShowKeeps ==
  ASSUME env \in Environment, NEW w, Intact(w), w.hwnd.exists, NEW content \in Contents,
         NEW fallback \in Place, NEW settings \in Settings, NEW luck
  PROVE  LET r == Show(w, content, fallback, settings, luck)
         IN  /\ Intact(r) /\ r.hwnd.exists = w.hwnd.exists
             /\ Faithful(w, r) /\ Leaving(r)
             /\ env.foreground = "own" =>
                  /\ Latest(r, content) /\ AtCaret(r)
                  /\ Backed(r) /\ Timed(r) /\ Heard(r)
<1> DEFINE r == Show(w, content, fallback, settings, luck)
<1>0. content # 0
  BY DEF Contents
<1>1. CASE env.foreground = "own"
  <2>1. r = ShowHere(w, content, fallback, settings, luck)
    BY <1>0, <1>1 DEF Show
  <2> HIDE DEF r
  <2>2. /\ Intact(r) /\ r.hwnd.exists = w.hwnd.exists
        /\ Faithful(w, r) /\ Latest(r, content) /\ AtCaret(r)
        /\ Backed(r) /\ Timed(r) /\ Leaving(r) /\ Heard(r)
    BY <1>1, <2>1, ShowHereWaits
  <2> QED
    BY <2>2 DEF r
<1>2. CASE env.foreground # "own"
  <2>1. r = ShowInternal(w, content, fallback, settings, luck)
    BY <1>2 DEF Show
  <2> HIDE DEF r
  <2>2. Intact(r) /\ Shows(w, r, content, fallback)
    BY <2>1, ShowInternalShows
  <2>3. Faithful(w, r) /\ Leaving(r) /\ r.hwnd.exists = w.hwnd.exists
    BY <2>2, SameIsFaithful DEF Shows, Leaving
  <2> QED
    BY <1>2, <2>2, <2>3 DEF r
<1> QED
  BY <1>1, <1>2

(* The list opens or closes; what is visible is asked for anew. *)
LEMMA SetExpandedKeeps ==
  ASSUME env \in Environment, NEW w, Intact(w), NEW expanded \in BOOLEAN, NEW luck
  PROVE  LET r == SetExpanded(w, expanded, luck)
         IN  /\ Intact(r) /\ r.hwnd.exists = w.hwnd.exists
             /\ Faithful(w, r) /\ (Leaving(w) => Leaving(r))
             /\ ~w.hwnd.visible => Follows(w, r) /\ ~r.hwnd.visible
             /\ ~w.hwnd.visible /\ Leaving(w) /\ Heard(w) => Heard(r)
             /\ env.foreground = "own" =>
                  /\ AtCaret(w) => AtCaret(r)
                  /\ Backed(w) => Backed(r)
                  /\ Timed(w) => Timed(r)
                  /\ Leaving(w) /\ Heard(w) => Heard(r)
                  /\ Steady(w) =>
                       \A asked \in Contents \cup {0} : Latest(w, asked) => Latest(r, asked)
<1> DEFINE o == [w.win EXCEPT !.expanded = expanded]
           u == [w EXCEPT !.win.expanded = expanded]
           r == SetExpanded(w, expanded, luck)
<1>1. w \in W /\ w.win \in Object
  BY Parts DEF Intact
<1>2. o \in Object
  BY <1>1, PutFlag
<1>3. /\ o.requested = w.win.requested /\ o.pending = w.win.pending
      /\ o.dirty = w.win.dirty
      /\ o.verified = w.win.verified /\ o.focus = w.win.focus
      /\ o.snapshot = w.win.snapshot /\ o.at = w.win.at
      /\ o.settings = w.win.settings /\ o.theme = w.win.theme /\ o.dark = w.win.dark
      /\ o.layered = w.win.layered /\ o.surface = w.win.surface
      /\ o.widening = w.win.widening /\ o.pressed = w.win.pressed
      /\ o.fading = w.win.fading /\ o.to = w.win.to /\ o.hiding = w.win.hiding
      /\ o.opacity = w.win.opacity /\ o.retried = w.win.retried
  BY <1>1 DEF Object
<1>4. r = IF w.win.expanded = expanded THEN w
          ELSE IF u.hwnd.exists /\ u.win.snapshot # 0 /\ u.hwnd.visible
          THEN Show(u, u.win.snapshot, u.win.at, u.win.settings, luck) ELSE u
  <2>1. u.win = o /\ u.hwnd = w.hwnd
    BY <1>1, <1>2, WithWin
  <2> HIDE DEF o
  <2>2. r = IF w.win.expanded = expanded THEN w
            ELSE IF w.hwnd.exists /\ w.win.snapshot # 0 /\ w.hwnd.visible
            THEN Show(u, w.win.snapshot, w.win.at, w.win.settings, luck) ELSE u
    BY DEF SetExpanded
  <2> HIDE DEF u, r
  <2> QED
    BY <1>3, <2>1, <2>2
<1>5. u \in W /\ u.win = o /\ u.hwnd = w.hwnd /\ u.box = w.box
  BY <1>1, <1>2, WithWin
<1> HIDE DEF o, u
<1>6. Intact(u)
  <2>1. Seated(u) /\ Absent(u) /\ Fades(u)
    BY <1>3, <1>5 DEF Intact, Seated, Absent, Fades
  <2>2. Fits(u)
    BY <1>3, <1>5 DEF Intact, Fits, LookOf
  <2>3. Drawn(u) /\ Retries(u)
    BY <1>3, <1>5 DEF Intact, Drawn, Held, Painted, CanPresent, LookOf, Retries
  <2> QED
    BY <1>5, <2>1, <2>2, <2>3 DEF Intact, Asking
<1>7. /\ Follows(w, u) /\ Faithful(w, u) /\ (Leaving(w) /\ Heard(w) => Heard(u))
      /\ \A asked : Latest(u, asked) <=> Latest(w, asked)
  <2>1. SameQuestion(w, u) /\ SamePicture(w, u)
    BY <1>3, <1>5 DEF SameQuestion, SamePicture
  <2>2. Follows(w, u) /\ (Leaving(w) /\ Heard(w) => Heard(u))
    BY <1>3, <1>5, <1>6, <2>1, SameFollows
  <2>3. \A asked : Latest(u, asked) <=> Latest(w, asked)
    BY <1>3, <1>5 DEF Latest, Steady
  <2> QED
    BY <2>2, <2>3 DEF Follows
<1>8. Follows(w, w)
  BY NothingFollows
<1>9. CASE w.win.expanded = expanded
  <2>1. r = w
    BY <1>4, <1>9
  <2> HIDE DEF r
  <2> QED
    BY <1>8, <2>1 DEF r, Follows
<1>10. CASE w.win.expanded # expanded /\ ~(u.hwnd.exists /\ u.win.snapshot # 0 /\ u.hwnd.visible)
  <2>1. r = u
    BY <1>4, <1>10
  <2> HIDE DEF r
  <2> QED
    BY <1>5, <1>7, <2>1 DEF r, Follows
<1>11. CASE w.win.expanded # expanded /\ u.hwnd.exists /\ u.win.snapshot # 0 /\ u.hwnd.visible
  <2>1. r = Show(u, u.win.snapshot, u.win.at, u.win.settings, luck)
    BY <1>4, <1>11
  <2>2. u.win.snapshot \in Contents /\ u.win.at \in Place /\ u.win.settings \in Settings
    BY <1>5, <1>6, <1>11, Parts DEF Intact, Seated, Object
  <2> HIDE DEF r
  <2>3. /\ Intact(r) /\ r.hwnd.exists = u.hwnd.exists
        /\ Faithful(u, r) /\ Leaving(r)
        /\ env.foreground = "own" =>
             /\ Latest(r, u.win.snapshot) /\ AtCaret(r)
             /\ Backed(r) /\ Timed(r) /\ Heard(r)
    BY <1>6, <1>11, <2>1, <2>2, ShowKeeps
  <2>4. Faithful(w, r)
    BY <1>7, <2>3, FaithfulOn
  <2>5. Steady(w) => \A asked \in Contents \cup {0} : Latest(w, asked) => u.win.snapshot = asked
    BY <1>3, <1>5 DEF Latest
  <2> QED
    BY <1>5, <1>7, <1>11, <2>3, <2>4, <2>5 DEF r
<1> QED
  BY <1>9, <1>10, <1>11

LEMMA NewWindowTypes ==
  /\ [exists |-> TRUE, visible |-> FALSE, layered |-> FALSE,
      size |-> [cx |-> 3, cy |-> 1], timer |-> FALSE, untimed |-> FALSE,
      invalid |-> FALSE, failed |-> 0, missed |-> FALSE, screen |-> None] \in Handle
  /\ [pending |-> FALSE, fresh |-> FALSE, done |-> TRUE, rectangle |-> None,
      step |-> "none", focus |-> None, measured |-> None, ready |-> 0] \in Mailbox
<1>1. [cx |-> 3, cy |-> 1] \in Size
  BY DEF Size
<1>2. 0 \in 0 .. MaxReady
  BY BoundsAssumption
<1> QED
  BY <1>1, <1>2 DEF Handle, Mailbox

LEMMA NewWindowIs ==
  ASSUME NEW w \in W
  PROVE  LET r == NewWindow(w)
         IN  /\ r \in W /\ r.win = w.win
             /\ r.hwnd.exists /\ ~r.hwnd.visible /\ ~r.hwnd.invalid /\ ~r.hwnd.timer
             /\ ~r.box.pending /\ ~r.box.fresh /\ r.box.rectangle = None
             /\ r.box.step = "none" /\ r.box.measured = None
<1> DEFINE h == [exists |-> TRUE, visible |-> FALSE, layered |-> FALSE,
                 size |-> [cx |-> 3, cy |-> 1], timer |-> FALSE, untimed |-> FALSE,
                 invalid |-> FALSE, failed |-> 0, missed |-> FALSE, screen |-> None]
           b == [pending |-> FALSE, fresh |-> FALSE, done |-> TRUE, rectangle |-> None,
                 step |-> "none", focus |-> None, measured |-> None, ready |-> 0]
           u == [w EXCEPT !.hwnd = h]
           r == NewWindow(w)
<1>1. h \in Handle /\ b \in Mailbox
  BY NewWindowTypes
<1>2. r = [u EXCEPT !.box = b]
  BY DEF NewWindow
<1>3. /\ h.exists /\ ~h.visible /\ ~h.invalid /\ ~h.timer
      /\ ~b.pending /\ ~b.fresh /\ b.rectangle = None /\ b.step = "none" /\ b.measured = None
  OBVIOUS
<1> HIDE DEF h, b, r
<1>4. u \in W /\ u.win = w.win /\ u.hwnd = h
  BY <1>1, WithHwnd
<1> HIDE DEF u
<1>5. r \in W /\ r.win = w.win /\ r.hwnd = h /\ r.box = b
  BY <1>1, <1>2, <1>4, WithBox
<1> QED
  BY <1>3, <1>5 DEF r

LEMMA CreateKeeps ==
  ASSUME NEW w, Intact(w)
  PROVE  LET r == Create(w)
         IN  /\ Intact(r) /\ r.hwnd.exists
             /\ Faithful(w, r) /\ (Leaving(w) => Leaving(r))
<1> DEFINE n == NewWindow(w)
<1>0. Create(w) = IF w.hwnd.exists THEN w ELSE n
  BY DEF Create
<1>1. CASE w.hwnd.exists
  BY <1>0, <1>1, NothingFollows DEF Follows
<1>2. CASE ~w.hwnd.exists
  <2>1. /\ n \in W /\ n.win = w.win
        /\ n.hwnd.exists /\ ~n.hwnd.visible /\ ~n.hwnd.invalid /\ ~n.hwnd.timer
        /\ ~n.box.pending /\ ~n.box.fresh /\ n.box.rectangle = None
        /\ n.box.step = "none" /\ n.box.measured = None
    BY NewWindowIs DEF Intact
  <2> HIDE DEF n
  <2>2. ~w.win.widening /\ ~w.win.fading /\ w.win.surface = None
    BY <1>2 DEF Intact, Absent
  <2>3. Intact(n)
    BY <2>1, <2>2 DEF Intact, Seated, Absent, Fades, Fits, Drawn, Painted, Retries, Asking
  <2>4. Faithful(w, n)
    BY <2>1 DEF Faithful, Attested
  <2>5. Leaving(n)
    BY <2>1 DEF Leaving
  <2>6. Create(w) = n
    BY <1>0, <1>2
  <2> QED
    BY <2>1, <2>3, <2>4, <2>5, <2>6
<1> QED
  BY <1>1, <1>2

(* The window is gone: nothing is shown, and no answer is waited for. *)
LEMMA DestroyedKeeps ==
  ASSUME NEW w, Intact(w)
  PROVE  LET r == Destroyed(w)
         IN  /\ Intact(r) /\ ~r.hwnd.exists /\ ~r.hwnd.visible
             /\ Faithful(w, r) /\ (TakenBack(w) => TakenBack(r))
             /\ \A asked \in Contents \cup {0} : Latest(w, asked) => Latest(r, asked)
             /\ AtCaret(r) /\ r.win.focus = w.win.focus
             /\ (Backed(w) => Backed(r)) /\ Leaving(r) /\ Timed(r) /\ Heard(r)
<1> DEFINE n == NewWindow(w)
           d == Discard(n)
           h == [d.hwnd EXCEPT !.exists = FALSE]
           o == [d.win EXCEPT !.widening = FALSE, !.fading = FALSE]
           u == [d EXCEPT !.hwnd = h]
           r == Destroyed(w)
<1>1. /\ n \in W /\ n.win = w.win
      /\ ~n.hwnd.visible /\ ~n.hwnd.invalid /\ ~n.hwnd.timer
      /\ ~n.box.pending /\ ~n.box.fresh /\ n.box.rectangle = None
      /\ n.box.step = "none" /\ n.box.measured = None
  BY NewWindowIs DEF Intact
<1>2. r = [u EXCEPT !.win = o]
  BY DEF Destroyed
<1> HIDE DEF n, r
<1>3. d \in W /\ d.win = [w.win EXCEPT !.surface = None] /\ d.hwnd = n.hwnd /\ d.box = n.box
  BY <1>1, DiscardFrees
<1> HIDE DEF d
<1>4. w.win \in Object /\ d.win \in Object /\ d.hwnd \in Handle
  BY <1>3, Parts DEF Intact
<1>5. h \in Handle /\ o \in Object
  BY <1>4, PutHandle, PutFlag
<1>6. /\ ~h.exists /\ h.visible = n.hwnd.visible /\ h.invalid = n.hwnd.invalid
      /\ h.timer = n.hwnd.timer
  BY <1>3, <1>4 DEF Handle
<1>7. /\ o.requested = w.win.requested /\ o.pending = w.win.pending
      /\ o.verified = w.win.verified /\ o.focus = w.win.focus
      /\ o.snapshot = w.win.snapshot /\ o.at = w.win.at /\ o.theme = w.win.theme
      /\ o.surface = None /\ ~o.widening /\ ~o.fading
      /\ o.pressed = w.win.pressed /\ o.hiding = w.win.hiding
  BY <1>3, <1>4 DEF Object
<1> HIDE DEF h, o
<1>8. u \in W /\ u.win = d.win /\ u.hwnd = h /\ u.box = n.box
  BY <1>3, <1>5, WithHwnd
<1> HIDE DEF u
<1>9. r \in W /\ r.win = o /\ r.hwnd = h /\ r.box = n.box
  BY <1>2, <1>5, <1>8, WithWin
<1>10. Intact(r)
  BY <1>1, <1>6, <1>7, <1>9
     DEF Intact, Seated, Absent, Fades, Fits, Drawn, Painted, Retries, Asking
<1>11. Faithful(w, r)
  BY <1>1, <1>7, <1>9 DEF Faithful, Attested
<1>12. /\ TakenBack(w) => TakenBack(r)
       /\ \A asked \in Contents \cup {0} : Latest(w, asked) => Latest(r, asked)
       /\ AtCaret(r)
  BY <1>1, <1>6, <1>7, <1>9 DEF TakenBack, Hidden, Latest, Steady, AtCaret
<1>13. (Backed(w) => Backed(r)) /\ Leaving(r) /\ Timed(r) /\ Heard(r)
  BY <1>1, <1>6, <1>7, <1>9 DEF Backed, Leaving, Timed, Heard, Late
<1> QED
  BY <1>1, <1>6, <1>7, <1>9, <1>10, <1>11, <1>12, <1>13 DEF r

LEMMA DpiFollows ==
  ASSUME NEW w, Intact(w), w.hwnd.exists, NEW size \in Size
  PROVE  LET r == DpiChanged(w, size)
         IN  /\ Follows(w, r) /\ (Hidden(w) => Hidden(r))
             /\ Leaving(w) /\ Heard(w) => Heard(r)
<1> DEFINE o == [w.win EXCEPT !.widening = FALSE]
           u == [w EXCEPT !.win.widening = FALSE]
           d == Discard(u)
           sized == SizeChanged(d, size)
           v == [sized EXCEPT !.win.retried = FALSE]
           r == DpiChanged(w, size)
<1>1. w \in W /\ w.win \in Object /\ w.hwnd.visible \in BOOLEAN
  BY Parts DEF Intact, Handle
<1>2. o \in Object /\ u \in W /\ u.win = o /\ u.hwnd = w.hwnd /\ u.box = w.box
  BY <1>1, PutFlag, WithWin
<1>3. r = [v EXCEPT !.hwnd.invalid = w.hwnd.visible]
  BY DEF DpiChanged
<1> HIDE DEF u, r
<1>16. /\ o.requested = w.win.requested /\ o.pending = w.win.pending
       /\ o.dirty = w.win.dirty
       /\ o.verified = w.win.verified /\ o.focus = w.win.focus
       /\ o.snapshot = w.win.snapshot /\ o.at = w.win.at
       /\ o.settings = w.win.settings /\ o.theme = w.win.theme /\ o.dark = w.win.dark
       /\ o.layered = w.win.layered /\ ~o.widening /\ o.pressed = w.win.pressed
       /\ o.fading = w.win.fading /\ o.to = w.win.to /\ o.hiding = w.win.hiding
       /\ o.opacity = w.win.opacity
  BY <1>1 DEF Object
<1> HIDE DEF o
<1>4. Repaints(w, u) /\ ~u.win.widening
  BY <1>2, <1>16 DEF Repaints, SameQuestion, SamePicture, SameFade
<1>5. d \in W /\ Repaints(u, d) /\ SameFrame(u, d) /\ Fits(d)
  BY <1>2, DiscardFrees, DiscardRepaints
<1> HIDE DEF d
<1>6. sized \in W /\ Repaints(d, sized) /\ Fits(sized) /\ sized.win.widening = d.win.widening
  BY <1>5, SizeChangedFits
<1> HIDE DEF sized
<1>7. v \in W /\ Repaints(sized, v) /\ SameFrame(sized, v) /\ Fits(v) /\ ~v.win.retried
  BY <1>6, MarkRetried
<1> HIDE DEF v
<1>8. /\ r \in W /\ Repaints(v, r) /\ SameFrame(v, r) /\ Fits(r)
      /\ r.hwnd.invalid = w.hwnd.visible /\ ~r.win.retried
  BY <1>1, <1>3, <1>7, MarkInvalid
<1>9. Repaints(w, r)
  BY <1>4, <1>5, <1>6, <1>7, <1>8, RepaintsOn
<1>10. ~r.win.widening
  BY <1>4, <1>5, <1>6, <1>7, <1>8 DEF SameFrame
<1>11. Seated(r) /\ Absent(r)
  BY <1>8, <1>9, <1>10
     DEF Intact, Seated, Absent, Repaints, SameQuestion, SamePicture, SameFade
<1>12. Fades(r)
  BY <1>9 DEF Intact, Fades, Repaints, SameFade
<1>13. Drawn(r) /\ Retries(r)
  BY <1>8, <1>9 DEF Drawn, Painted, Retries, Repaints, SameFade
<1>14. Intact(r)
  BY <1>8, <1>9, <1>11, <1>12, <1>13 DEF Intact, Asking, Repaints, SameQuestion
<1>15. /\ Follows(w, r) /\ (Hidden(w) => Hidden(r))
       /\ Leaving(w) /\ Heard(w) => Heard(r)
  BY <1>9, <1>14, SameFollows DEF Repaints, SameFade
<1> QED
  BY <1>15 DEF r

-----------------------------------------------------------------------------
(* The invariant: what the window w is, given the desktop e and what happened. *)

Kept(w, e, p) ==
  /\ Intact(w)
  /\ Attested(w, p.noticed)
  /\ p.asked = 0 => TakenBack(w)
  /\ ~p.direct /\ ~p.reshown => Latest(w, p.asked)
  /\ ~p.direct => AtCaret(w)
  /\ ~p.direct /\ e.foreground = "other" /\ e.notices = <<>> => Hidden(w)
  /\ Leaving(w)
  /\ ~p.direct => Backed(w)
  /\ e.foreground = "own" /\ e.notices = <<>> => Timed(w) /\ (p.lost \/ Heard(w))

(* The last notice on its way, or the last that arrived, tells the truth. *)
Told(e, p) ==
  IF e.notices = <<>> THEN p.active <=> e.foreground = "own"
  ELSE e.notices[Len(e.notices)] <=> e.foreground = "own"

Clock(e, p) == p.noticed <= e.moment /\ e.moment <= p.events

IInv ==
  /\ TypeOK
  /\ Kept(State, env, past)
  /\ Told(env, past)
  /\ Clock(env, past)

LEMMA StateIs ==
  ASSUME NEW w \in W, win' = w.win, hwnd' = w.hwnd, box' = w.box
  PROVE  State' = w
  BY DEF State, W

LEMMA StateTypes ==
  ASSUME TypeOK
  PROVE  /\ State \in W /\ State.win = win /\ State.hwnd = hwnd /\ State.box = box
         /\ env \in Environment /\ past \in Past
  BY DEF TypeOK, State, W

LEMMA PastAfter ==
  ASSUME NEW p \in Past, NEW failures \in 0 .. MaxFailures, NEW noticed \in Moments
  PROVE  LET q == [p EXCEPT !.failures = failures, !.noticed = noticed]
         IN  /\ q \in Past /\ q.noticed = noticed
             /\ q.asked = p.asked /\ q.events = p.events /\ q.active = p.active
             /\ q.direct = p.direct /\ q.reshown = p.reshown /\ q.lost = p.lost
  BY DEF Past

(* The conditions under which a step that ends in Become keeps the invariant. *)
LEMMA BecomeKeeps ==
  ASSUME IInv, NEW w, NEW p \in Past, NEW luck, Become(w, luck, p),
         Intact(w), Faithful(State, w),
         p.asked = 0 => TakenBack(w),
         ~p.direct /\ ~p.reshown => Latest(w, p.asked),
         ~p.direct => AtCaret(w),
         ~p.direct /\ env'.foreground = "other" /\ env'.notices = <<>> => Hidden(w),
         Leaving(w), ~p.direct => Backed(w),
         env'.foreground = "own" /\ env'.notices = <<>> => Timed(w) /\ (p.lost \/ Heard(w)),
         env' \in Environment, env'.moment = env.moment, Told(env', p),
         p.noticed = past.noticed, p.failures = past.failures, p.events >= past.events
  PROVE  IInv'
<1> DEFINE failures == p.failures + (IF luck \in {"good", "retry theme"} THEN 0 ELSE 1)
           noticed == IF w.win.focus # win.focus THEN env.moment ELSE p.noticed
           q == [p EXCEPT !.failures = failures, !.noticed = noticed]
<1>1. w \in W /\ TypeOK /\ Kept(State, env, past) /\ Clock(env, past)
  BY DEF IInv, Intact
<1>2. /\ win' = w.win /\ hwnd' = w.hwnd /\ box' = w.box /\ past' = q
      /\ luck \in {"good", "retry theme"} \/ past.failures < MaxFailures
  BY DEF Become
<1>3. State' = w
  BY <1>1, <1>2, StateIs
<1>4. /\ State \in W /\ State.win = win /\ env \in Environment /\ past \in Past
  BY <1>1, StateTypes
<1>5. /\ env.moment \in Moments /\ past.noticed \in Moments /\ past.failures \in 0 .. MaxFailures
      /\ past.events \in 0 .. MaxEvents /\ p.events \in 0 .. MaxEvents
  BY <1>4 DEF Environment, Past
<1>6. failures \in 0 .. MaxFailures
  <2>1. luck \in {"good", "retry theme"} \/ past.failures < MaxFailures
    BY <1>2
  <2>2. \/ failures = past.failures
        \/ failures = past.failures + 1 /\ past.failures < MaxFailures
    <3>1. CASE luck \in {"good", "retry theme"}
      <4>1. failures = p.failures + 0
        BY <3>1
      <4>2. past.failures \in Nat
        BY <1>5, BoundsAssumption
      <4> HIDE DEF failures
      <4> QED
        BY <4>1, <4>2
    <3>2. CASE luck \notin {"good", "retry theme"}
      BY <2>1, <3>2
    <3> QED
      BY <3>1, <3>2
  <2> HIDE DEF failures
  <2> QED
    BY <1>5, <2>2, BoundsAssumption
<1>7. noticed \in Moments
  BY <1>5
<1> HIDE DEF failures
<1>8. /\ noticed = past.noticed \/ noticed = env.moment
      /\ w.win.focus # State.win.focus => noticed = env.moment
      /\ w.win.focus = State.win.focus => noticed = past.noticed
  BY <1>4
<1> HIDE DEF noticed
<1>9. /\ past' \in Past /\ past'.noticed = noticed
      /\ past'.asked = p.asked /\ past'.events = p.events /\ past'.active = p.active
      /\ past'.direct = p.direct /\ past'.reshown = p.reshown
      /\ past'.lost = p.lost
  <2>1. /\ q \in Past /\ q.noticed = noticed
        /\ q.asked = p.asked /\ q.events = p.events /\ q.active = p.active
        /\ q.direct = p.direct /\ q.reshown = p.reshown /\ q.lost = p.lost
    BY ZenonT(60), <1>6, <1>7, PastAfter
  <2>2. past' = q
    BY <1>2
  <2> HIDE DEF q
  <2> QED
    BY <2>1, <2>2
<1>10. Attested(w, past.noticed) /\ (w.win.focus # State.win.focus => Attested(w, env.moment))
  <2>1. past.noticed \in 0 .. env.moment
    BY <1>1, <1>5 DEF Clock, Moments
  <2> QED
    BY <1>1, <2>1 DEF Faithful, Kept
<1>11. Attested(w, noticed)
  BY <1>8, <1>10
<1>12. Kept(w, env', past')
  BY <1>9, <1>11 DEF Kept
<1>13. Told(env', past')
  BY <1>9 DEF Told
<1>14. noticed <= env.moment /\ env.moment <= p.events
  BY <1>1, <1>5, <1>8, BoundsAssumption DEF Clock, Moments
<1>15. Clock(env', past')
  BY <1>9, <1>14 DEF Clock
<1>16. TypeOK'
  BY <1>1, <1>2, <1>9, Parts DEF TypeOK
<1> QED
  BY <1>3, <1>12, <1>13, <1>15, <1>16 DEF IInv

(* A handler that follows, in a step that counts at most an event. *)
LEMMA FollowingKeeps ==
  ASSUME IInv, NEW w, NEW p \in Past, NEW luck, Become(w, luck, p), UNCHANGED env,
         Follows(State, w), env.foreground # "own" => (Hidden(State) => Hidden(w)),
         env.foreground = "own" => (Leaving(State) /\ Heard(State) => Heard(w)),
         p.asked = past.asked, p.direct = past.direct, p.reshown = past.reshown,
         p.lost = past.lost, p.active = past.active, p.noticed = past.noticed,
         p.failures = past.failures, p.events >= past.events
  PROVE  IInv'
<1>1. Kept(State, env, past) /\ env \in Environment /\ past \in Past
  BY StateTypes DEF IInv
<1>2. Intact(w) /\ Faithful(State, w)
  BY DEF Follows
<1>3. /\ p.asked = 0 => TakenBack(w)
      /\ ~p.direct => AtCaret(w)
      /\ Leaving(w)
      /\ ~p.direct => Backed(w)
      /\ env.foreground = "own" /\ env.notices = <<>> => Timed(w) /\ (p.lost \/ Heard(w))
  BY <1>1 DEF Kept, Follows
<1>4. ~p.direct /\ ~p.reshown => Latest(w, p.asked)
  <2>1. p.asked \in Contents \cup {0}
    BY DEF Past
  <2> QED
    BY <1>1, <2>1 DEF Kept, Follows
<1>5. ~p.direct /\ env.foreground = "other" /\ env.notices = <<>> => Hidden(w)
  BY <1>1 DEF Kept
<1>6. Told(env, p)
  BY DEF IInv, Told
<1>7. env' = env
  OBVIOUS
<1> QED
  BY <1>1, <1>2, <1>3, <1>4, <1>5, <1>6, <1>7, BecomeKeeps

(* The worker leaves the window alone. *)
LEMMA BoxKeeps ==
  ASSUME IInv, UNCHANGED <<env, win, hwnd>>, box' \in Mailbox,
         box'.pending <=> box'.step # "none",
         box'.step \notin {"measured", "answered"} => box'.measured = None,
         Attested([win |-> win, hwnd |-> hwnd, box |-> box'], past.noticed),
         NEW failures \in 0 .. MaxFailures, NEW lost \in BOOLEAN,
         past' = [past EXCEPT !.failures = failures, !.lost = lost],
         \/ lost \/ box'.pending \/ box'.ready > 0
         \/ lost = past.lost /\ box'.pending = box.pending /\ box'.ready = box.ready
  PROVE  IInv'
<1> DEFINE w == [win |-> win, hwnd |-> hwnd, box |-> box']
<1>1. /\ TypeOK /\ Kept(State, env, past) /\ Told(env, past) /\ Clock(env, past)
      /\ past \in Past
  BY DEF IInv, TypeOK
<1>2. w.win = win /\ w.hwnd = hwnd /\ w.box = box'
  OBVIOUS
<1>3. State' = w
  BY DEF State
<1>4. w \in W
  BY <1>1 DEF TypeOK, W
<1> HIDE DEF w
<1>5. State.win = win /\ State.hwnd = hwnd /\ State.box = box
  BY DEF State
<1>6. Intact(w)
  BY <1>1, <1>2, <1>4, <1>5
     DEF Kept, Intact, Seated, Absent, Fades, Fits, Drawn, Held, Painted, CanPresent,
         Retries, Asking
<1>7. /\ past' \in Past /\ past'.noticed = past.noticed
      /\ past'.asked = past.asked /\ past'.events = past.events /\ past'.active = past.active
      /\ past'.direct = past.direct /\ past'.reshown = past.reshown
      /\ past'.lost = lost
  BY <1>1 DEF Past
<1>8. Attested(w, past'.noticed)
  BY <1>7 DEF w
<1>12. past'.lost \/ Heard(w) \/ (past'.lost = past.lost /\ (Heard(State) => Heard(w)))
  <2>1. CASE lost \/ box'.pending \/ box'.ready > 0
    BY <1>2, <1>7, <2>1 DEF Heard
  <2>2. CASE lost = past.lost /\ box'.pending = box.pending /\ box'.ready = box.ready
    BY <1>2, <1>5, <1>7, <2>2 DEF Heard, Late
  <2> QED
    BY <2>1, <2>2
<1>13. /\ TakenBack(State) => TakenBack(w)
       /\ Latest(State, past.asked) => Latest(w, past.asked)
       /\ AtCaret(State) => AtCaret(w)
       /\ Hidden(State) => Hidden(w)
       /\ Leaving(State) => Leaving(w)
       /\ Backed(State) => Backed(w)
       /\ Timed(State) => Timed(w)
  BY <1>2, <1>5
     DEF TakenBack, Hidden, Latest, Steady, AtCaret, Leaving, Backed, Timed
<1>9. Kept(w, env, past')
  BY <1>1, <1>6, <1>7, <1>8, <1>12, <1>13 DEF Kept
<1>10. Told(env, past') /\ Clock(env, past')
  BY <1>1, <1>7 DEF Told, Clock
<1>11. TypeOK'
  BY <1>1, <1>7 DEF TypeOK
<1> QED
  BY <1>3, <1>9, <1>10, <1>11 DEF IInv

-----------------------------------------------------------------------------
(* The steps. *)

LEMMA EventHappens ==
  ASSUME past \in Past, past.events < MaxEvents
  PROVE  /\ Event(past) \in Past /\ Event(past).events = past.events + 1
         /\ Event(past).asked = past.asked /\ Event(past).noticed = past.noticed
         /\ Event(past).failures = past.failures /\ Event(past).active = past.active
         /\ Event(past).direct = past.direct /\ Event(past).reshown = past.reshown
         /\ Event(past).lost = past.lost
<1>1. past.events + 1 \in 0 .. MaxEvents
  BY BoundsAssumption DEF Past
<1> DEFINE events == past.events + 1
           q == [past EXCEPT !.events = events]
<1>2. Event(past) = q
  BY DEF Event
<1>3. events \in 0 .. MaxEvents
  BY <1>1
<1> HIDE DEF events
<1>4. /\ q \in Past /\ q.events = events /\ q.asked = past.asked /\ q.noticed = past.noticed
      /\ q.failures = past.failures /\ q.active = past.active
      /\ q.direct = past.direct /\ q.reshown = past.reshown /\ q.lost = past.lost
  BY <1>3 DEF Past
<1> QED
  BY <1>2, <1>4 DEF events

(* A handler that cannot fail. *)
LEMMA BecomeGood ==
  ASSUME IInv, NEW w, win' = w.win, hwnd' = w.hwnd, box' = w.box, past' = past,
         w.win.focus = win.focus
  PROVE  Become(w, "good", past)
<1>1. past \in Past
  BY StateTypes DEF IInv
<1>2. past.failures \in Nat
  BY <1>1, BoundsAssumption DEF Past
<1>3. past.failures + 0 = past.failures
  BY <1>2
<1>4. past = [past EXCEPT !.failures = past.failures, !.noticed = past.noticed]
  BY <1>1 DEF Past
<1>5. past' = [past EXCEPT !.failures = @ + 0, !.noticed = @]
  BY <1>3, <1>4
<1> QED
  BY <1>5 DEF Become

LEMMA ShowStep ==
  ASSUME IInv, NEW expanded \in BOOLEAN, NEW settings \in Settings, NEW luck,
         ShowCandidateWindow(expanded, settings, luck)
  PROVE  IInv'
<1> DEFINE content == past.shows + 1
           fallback == [from |-> "text store", control |-> env.focus, moment |-> env.moment]
           a == SetExpanded(State, expanded, luck)
           w == Create(a)
           r == Show(w, content, fallback, settings, luck)
           direct == env.foreground # "own"
           p == [past EXCEPT !.shows = content, !.asked = content, !.reshown = FALSE,
                             !.direct = direct]
<1>1. /\ State \in W /\ env \in Environment /\ past \in Past
      /\ Kept(State, env, past) /\ Intact(State) /\ Told(env, past)
  BY StateTypes DEF IInv, Kept
<1>2. past.shows < MaxShows /\ env' = env /\ Become(r, luck, p)
  BY DEF ShowCandidateWindow
<1>3. content \in 0 .. MaxShows /\ content \in Contents \cup {0} /\ content \in Contents
      /\ content # 0
  <2>1. past.shows \in 0 .. MaxShows /\ past.shows < MaxShows
    BY <1>1, <1>2 DEF Past
  <2>2. past.shows \in Nat /\ past.shows + 1 <= MaxShows
    BY <2>1, BoundsAssumption
  <2> QED
    BY <2>2, BoundsAssumption DEF Contents
<1>4. fallback \in Place
  BY <1>1 DEF Environment, Place
<1>5. direct \in BOOLEAN
  OBVIOUS
<1> HIDE DEF content, fallback, direct
<1>6. /\ p \in Past /\ p.asked = content /\ p.direct = direct /\ p.noticed = past.noticed
      /\ p.failures = past.failures /\ p.events = past.events /\ p.active = past.active
  BY <1>1, <1>3, <1>5 DEF Past
<1> HIDE DEF p
<1>7. Intact(a) /\ Faithful(State, a)
  BY <1>1, SetExpandedKeeps
<1> HIDE DEF a
<1>8. Intact(w) /\ w.hwnd.exists /\ Faithful(a, w)
  BY <1>7, CreateKeeps
<1> HIDE DEF w
<1>9. /\ Intact(r) /\ Faithful(w, r) /\ Leaving(r)
      /\ env.foreground = "own" =>
           Latest(r, content) /\ AtCaret(r) /\ Backed(r) /\ Timed(r) /\ Heard(r)
  BY <1>1, <1>3, <1>4, <1>8, ShowKeeps
<1> HIDE DEF r
<1>10. Faithful(State, r)
  BY <1>1, <1>7, <1>8, <1>9, FaithfulOn
<1>12. ~p.direct => env.foreground = "own"
  BY <1>6 DEF direct
<1>13. p.events >= past.events
  BY <1>1, <1>6, BoundsAssumption DEF Past
<1>14. Told(env, p)
  BY <1>1, <1>6 DEF Told
<1>15. /\ p.asked = 0 => TakenBack(r)
       /\ ~p.direct /\ ~p.reshown => Latest(r, p.asked)
       /\ ~p.direct => AtCaret(r)
       /\ ~p.direct /\ env.foreground = "other" /\ env.notices = <<>> => Hidden(r)
       /\ ~p.direct => Backed(r)
       /\ env.foreground = "own" /\ env.notices = <<>> => Timed(r) /\ (p.lost \/ Heard(r))
  BY <1>3, <1>6, <1>9, <1>12
<1> QED
  BY <1>1, <1>2, <1>6, <1>9, <1>10, <1>13, <1>14, <1>15, BecomeKeeps

LEMMA HideStep ==
  ASSUME IInv, NEW luck, HideCandidates(luck)
  PROVE  IInv'
<1> DEFINE r == Hide(State, luck)
           p == [past EXCEPT !.asked = 0]
<1>1. /\ State \in W /\ env \in Environment /\ past \in Past
      /\ Kept(State, env, past) /\ Intact(State) /\ Told(env, past)
  BY StateTypes DEF IInv, Kept
<1>2. env' = env /\ Become(r, luck, p)
  BY DEF HideCandidates
<1>3. /\ p \in Past /\ p.asked = 0 /\ p.direct = past.direct /\ p.noticed = past.noticed
      /\ p.failures = past.failures /\ p.events = past.events /\ p.active = past.active
  BY <1>1 DEF Past
<1> HIDE DEF p
<1>4. /\ Follows(State, r) /\ TakenBack(r)
      /\ \A asked \in Contents \cup {0} : Latest(r, asked)
      /\ AtCaret(r) /\ Timed(r) /\ Heard(r) /\ Backed(r)
  BY <1>1, HideFollows
<1> HIDE DEF r
<1>5. Intact(r) /\ Faithful(State, r) /\ Leaving(r)
  BY <1>1, <1>4 DEF Kept, Follows
<1>6. Latest(r, p.asked) /\ Hidden(r)
  BY <1>3, <1>4 DEF TakenBack
<1>7. p.events >= past.events
  BY <1>1, <1>3, BoundsAssumption DEF Past
<1>8. Told(env, p)
  BY <1>1, <1>3 DEF Told
<1> QED
  BY <1>1, <1>2, <1>3, <1>4, <1>5, <1>6, <1>7, <1>8, BecomeKeeps

(* A step that follows, and is no event. *)
LEMMA QuietKeeps ==
  ASSUME IInv, NEW w, NEW luck, Become(w, luck, past), UNCHANGED env,
         Follows(State, w), env.foreground # "own" => (Hidden(State) => Hidden(w)),
         env.foreground = "own" => (Leaving(State) /\ Heard(State) => Heard(w))
  PROVE  IInv'
<1>1. past \in Past
  BY StateTypes DEF IInv
<1>2. past.events >= past.events
  BY <1>1, BoundsAssumption DEF Past
<1> QED
  BY <1>1, <1>2, FollowingKeeps

LEMMA ReadyStep ==
  ASSUME IInv, NEW luck, CaretPositionReady(luck)
  PROVE  IInv'
<1> DEFINE ready == box.ready - 1
           b == [box EXCEPT !.ready = ready]
           w == [State EXCEPT !.box.ready = @ - 1]
           r == ApplyCaretPosition(w, luck)
<1>1. /\ State \in W /\ State.win = win /\ State.hwnd = hwnd /\ State.box = box
      /\ env \in Environment /\ past \in Past /\ Intact(State) /\ box \in Mailbox
  BY StateTypes DEF IInv, Kept, TypeOK
<1>2. box.ready > 0 /\ env' = env /\ Become(r, luck, past)
  BY DEF CaretPositionReady
<1>3. ready \in 0 .. MaxReady
  BY <1>1, <1>2, BoundsAssumption DEF Mailbox
<1>4. w = [State EXCEPT !.box = b]
  BY <1>1
<1> HIDE DEF ready
<1>5. /\ b \in Mailbox /\ b.pending = box.pending /\ b.fresh = box.fresh /\ b.done = box.done
      /\ b.rectangle = box.rectangle /\ b.step = box.step /\ b.focus = box.focus
      /\ b.measured = box.measured
  BY <1>1, <1>3 DEF Mailbox
<1> HIDE DEF b, w
<1>6. w \in W /\ w.win = win /\ w.hwnd = hwnd /\ w.box = b
  BY <1>1, <1>4, <1>5, WithBox
<1>7. Intact(w)
  BY <1>1, <1>5, <1>6
     DEF Intact, Seated, Absent, Fades, Fits, Drawn, Held, Painted, CanPresent, Retries,
         Asking
<1>8. Faithful(State, w)
  BY <1>1, <1>5, <1>6 DEF Faithful, Attested
<1>9. Follows(State, w) /\ (Hidden(State) => Hidden(w))
  BY <1>1, <1>6, <1>7, <1>8
     DEF Follows, TakenBack, Hidden, Latest, Steady, AtCaret, Backed, Timed, Leaving
<1>10. Follows(w, r) /\ IF env.foreground = "own" THEN Heard(r) ELSE r = w
  BY <1>1, <1>7, ApplyFollows
<1> HIDE DEF r
<1>11. /\ Follows(State, r) /\ (env.foreground # "own" => (Hidden(State) => Hidden(r)))
       /\ env.foreground = "own" => Heard(r)
  BY <1>1, <1>9, <1>10, FollowsOn
<1> QED
  BY <1>2, <1>11, QuietKeeps

LEMMA TimerStep ==
  ASSUME IInv, NEW luck, CaretPositionTimer(luck)
  PROVE  IInv'
<1> DEFINE r == RequestCaretPosition(State, luck)
<1>1. env \in Environment /\ Intact(State)
  BY StateTypes DEF IInv, Kept
<1>2. env' = env /\ Become(r, luck, past)
  BY DEF CaretPositionTimer
<1>3. Follows(State, r) /\ IF env.foreground = "own" THEN Heard(r) ELSE r = State
  BY <1>1, RequestFollows
<1> HIDE DEF r
<1> QED
  BY <1>2, <1>3, QuietKeeps

LEMMA RepaintedFollows ==
  ASSUME NEW w, Intact(w), w.hwnd.exists, w.win.theme # None,
         NEW r \in W, Repaints(w, r), Fits(r), Drawn(r), Retries(r)
  PROVE  /\ Follows(w, r) /\ (Hidden(w) => Hidden(r))
         /\ Leaving(w) /\ Heard(w) => Heard(r)
<1>1. Seated(r) /\ Absent(r)
  BY DEF Intact, Seated, Absent, Repaints, SameQuestion, SamePicture, SameFade
<1>2. Fades(r)
  BY DEF Intact, Fades, Repaints, SameFade
<1>3. Asking(r)
  BY DEF Intact, Asking, Repaints, SameQuestion
<1>4. Intact(r)
  BY <1>1, <1>2, <1>3 DEF Intact
<1> QED
  BY <1>4, SameFollows DEF Repaints, SameFade

LEMMA PaintStep ==
  ASSUME IInv, NEW luck, PaintWindow(luck)
  PROVE  IInv'
<1> DEFINE r == Paint(State, luck)
<1>1. /\ State \in W /\ State.win = win /\ State.hwnd = hwnd /\ Intact(State)
  BY StateTypes DEF IInv, Kept
<1>2. hwnd.invalid /\ env' = env /\ Become(r, luck, past)
  BY DEF PaintWindow
<1>3. State.win.theme # None /\ State.hwnd.exists
  BY <1>1, <1>2 DEF Intact, Seated, Absent
<1>4. Fits(State) /\ Fades(State) /\ Retries(State)
  BY <1>1 DEF Intact
<1>5. r \in W /\ Repaints(State, r) /\ Fits(r) /\ Drawn(r) /\ Retries(r)
  BY <1>1, <1>3, <1>4, PaintPaints
<1> HIDE DEF r
<1>6. /\ Follows(State, r) /\ (Hidden(State) => Hidden(r))
      /\ Leaving(State) /\ Heard(State) => Heard(r)
  BY <1>1, <1>3, <1>5, RepaintedFollows
<1> QED
  BY <1>2, <1>6, QuietKeeps

LEMMA WidthStep ==
  ASSUME IInv, NEW elapsed \in BOOLEAN, NEW cx \in 1 .. 3, NEW luck,
         WidthTimer(elapsed, cx, luck)
  PROVE  IInv'
<1> DEFINE r == AdvanceNativeWidth(State, elapsed, cx, luck)
<1>1. /\ State \in W /\ State.win = win /\ State.hwnd = hwnd /\ Intact(State)
  BY StateTypes DEF IInv, Kept
<1>2. win.widening /\ env' = env /\ Become(r, luck, past)
  BY DEF WidthTimer
<1>3. State.win.theme # None /\ State.hwnd.exists
  BY <1>1, <1>2 DEF Intact, Seated, Absent
<1>4. Fits(State) /\ Fades(State) /\ Retries(State)
  BY <1>1 DEF Intact
<1>5. r \in W /\ Repaints(State, r) /\ Fits(r) /\ Drawn(r) /\ Retries(r)
  BY <1>1, <1>3, <1>4, WidthPaints
<1> HIDE DEF r
<1>6. /\ Follows(State, r) /\ (Hidden(State) => Hidden(r))
      /\ Leaving(State) /\ Heard(State) => Heard(r)
  BY <1>1, <1>3, <1>5, RepaintedFollows
<1> QED
  BY <1>2, <1>6, QuietKeeps

LEMMA FadeStep ==
  ASSUME IInv, NEW elapsed \in BOOLEAN, NEW luck, FadeTimer(elapsed, luck)
  PROVE  IInv'
<1> DEFINE r == AdvanceNativeFade(State, elapsed, luck)
<1>1. /\ State \in W /\ State.win = win /\ State.hwnd = hwnd /\ Intact(State)
  BY StateTypes DEF IInv, Kept
<1>2. win.fading /\ env' = env /\ Become(r, luck, past)
  BY DEF FadeTimer
<1>3. Fits(State) /\ Fades(State) /\ Drawn(State) /\ State.win.fading
  BY <1>1, <1>2 DEF Intact
<1>4. /\ r \in W /\ Refades(State, r) /\ Fades(r) /\ Drawn(r)
      /\ r.hwnd.visible => State.hwnd.visible
      /\ r.hwnd.visible => r.win.hiding = State.win.hiding
      /\ State.hwnd.visible /\ ~r.hwnd.visible => State.win.hiding
      /\ r.hwnd.invalid => State.hwnd.invalid
      /\ r.win.fading => State.win.fading
  BY <1>1, <1>3, FadeAdvances
<1> HIDE DEF r
<1>5. Fits(r)
  BY <1>3, <1>4, RefadesFits
<1>6. Seated(r) /\ Absent(r)
  BY <1>1, <1>4
     DEF Intact, Seated, Absent, Refades, SameQuestion, SamePicture, SameFrame
<1>7. Asking(r)
  BY <1>1, <1>4 DEF Intact, Asking, Refades, SameQuestion
<1>10. Retries(r)
  BY <1>1, <1>4 DEF Intact, Retries, Refades
<1>8. Intact(r)
  BY <1>4, <1>5, <1>6, <1>7, <1>10 DEF Intact
<1>9. /\ Follows(State, r) /\ (Hidden(State) => Hidden(r))
      /\ Leaving(State) /\ Heard(State) => Heard(r)
  BY <1>4, <1>8, SameFollows DEF Refades
<1> QED
  BY <1>2, <1>9, QuietKeeps

LEMMA ButtonDownStep ==
  ASSUME IInv, ButtonDown
  PROVE  IInv'
<1> DEFINE o == [win EXCEPT !.pressed = TRUE]
           h == [hwnd EXCEPT !.invalid = TRUE]
           w == [win |-> o, hwnd |-> h, box |-> box]
<1>1. /\ State \in W /\ State.win = win /\ State.hwnd = hwnd /\ State.box = box
      /\ Intact(State) /\ win \in Object /\ hwnd \in Handle /\ box \in Mailbox
  BY StateTypes DEF IInv, Kept, TypeOK
<1>2. /\ hwnd.visible /\ ~win.hiding
      /\ win' = o /\ hwnd' = h /\ env' = env /\ box' = box /\ past' = past
  BY DEF ButtonDown, TakesMouse
<1>3. o \in Object /\ h \in Handle
  BY <1>1, PutFlag, PutHandle
<1>4. /\ o.requested = win.requested /\ o.pending = win.pending
      /\ o.dirty = win.dirty
      /\ o.verified = win.verified /\ o.focus = win.focus
      /\ o.snapshot = win.snapshot /\ o.at = win.at
      /\ o.settings = win.settings /\ o.theme = win.theme /\ o.dark = win.dark
      /\ o.layered = win.layered /\ o.surface = win.surface
      /\ o.widening = win.widening /\ o.pressed
      /\ o.fading = win.fading /\ o.to = win.to /\ o.hiding = win.hiding
      /\ o.opacity = win.opacity /\ o.retried = win.retried
  BY <1>1 DEF Object
<1>5. /\ h.invalid /\ h.exists = hwnd.exists /\ h.visible = hwnd.visible
      /\ h.timer = hwnd.timer /\ h.layered = hwnd.layered /\ h.size = hwnd.size
      /\ h.untimed = hwnd.untimed /\ h.failed = hwnd.failed
  BY <1>1 DEF Handle
<1>6. w.win = o /\ w.hwnd = h /\ w.box = box
  OBVIOUS
<1>7. w \in W
  BY <1>1, <1>3 DEF W
<1>8. Become(w, "good", past)
  <2>1. win' = w.win /\ hwnd' = w.hwnd /\ box' = w.box /\ w.win.focus = win.focus
    BY <1>2, <1>4, <1>6
  <2> HIDE DEF w, o, h
  <2> QED
    BY <1>2, <2>1, BecomeGood
<1> HIDE DEF w, o, h
<1>9. Intact(w)
  <2>1. Seated(w) /\ Absent(w) /\ Fades(w)
    BY <1>1, <1>2, <1>4, <1>5, <1>6 DEF Intact, Seated, Absent, Fades
  <2>2. Fits(w) /\ Drawn(w) /\ Retries(w)
    BY <1>1, <1>4, <1>5, <1>6 DEF Intact, Fits, LookOf, Drawn, Painted, Retries
  <2> QED
    BY <1>1, <1>6, <1>7, <2>1, <2>2 DEF Intact, Asking
<1>10. Faithful(State, w)
  BY <1>1, <1>4, <1>6, SameIsFaithful
<1>11. Follows(State, w) /\ (Hidden(State) => Hidden(w))
  BY <1>1, <1>2, <1>4, <1>5, <1>6, <1>9, <1>10
     DEF Follows, TakenBack, Hidden, Latest, Steady, AtCaret, Backed, Timed, Leaving
<1>12. Heard(State) => Heard(w)
  BY <1>1, <1>4, <1>5, <1>6 DEF Heard, Late
<1> QED
  BY <1>2, <1>8, <1>11, <1>12, QuietKeeps

(* The button is no longer pressed, and is painted again. *)
LEMMA ReleaseFollows ==
  ASSUME NEW w, Intact(w)
  PROVE  LET r == [w EXCEPT !.win.pressed = FALSE, !.hwnd.invalid = w.hwnd.visible]
         IN  /\ Follows(w, r) /\ (Hidden(w) => Hidden(r))
             /\ Leaving(w) /\ Heard(w) => Heard(r)
             /\ r.hwnd.visible = w.hwnd.visible /\ r.win.hiding = w.win.hiding
             /\ r.win.dirty = w.win.dirty /\ r.win.focus = w.win.focus
             /\ r.win = [w.win EXCEPT !.pressed = FALSE]
             /\ r.hwnd = [w.hwnd EXCEPT !.invalid = w.hwnd.visible] /\ r.box = w.box
<1> DEFINE o == [w.win EXCEPT !.pressed = FALSE]
           u == [w EXCEPT !.win.pressed = FALSE]
           r == [w EXCEPT !.win.pressed = FALSE, !.hwnd.invalid = w.hwnd.visible]
<1>1. /\ w \in W /\ w.win \in Object /\ w.hwnd \in Handle /\ w.hwnd.visible \in BOOLEAN
  BY Parts DEF Intact, Handle
<1>2. o \in Object /\ u \in W /\ u.win = o /\ u.hwnd = w.hwnd /\ u.box = w.box
  BY <1>1, PutFlag, WithWin
<1>3. r = [u EXCEPT !.hwnd.invalid = w.hwnd.visible]
  OBVIOUS
<1>4. r = [u EXCEPT !.hwnd = [w.hwnd EXCEPT !.invalid = w.hwnd.visible]]
  BY <1>2, <1>3
<1> HIDE DEF u, r
<1>5. /\ r \in W /\ Repaints(u, r) /\ SameFrame(u, r)
      /\ r.win = u.win /\ r.hwnd.invalid = w.hwnd.visible
  BY <1>1, <1>2, <1>3, MarkInvalid
<1>6. r.hwnd = [w.hwnd EXCEPT !.invalid = w.hwnd.visible]
  BY <1>1, <1>2, <1>4, PutHandle, WithHwnd
<1>7. /\ o.requested = w.win.requested /\ o.pending = w.win.pending
      /\ o.dirty = w.win.dirty
      /\ o.verified = w.win.verified /\ o.focus = w.win.focus
      /\ o.snapshot = w.win.snapshot /\ o.at = w.win.at
      /\ o.settings = w.win.settings /\ o.theme = w.win.theme /\ o.dark = w.win.dark
      /\ o.layered = w.win.layered /\ o.surface = w.win.surface
      /\ o.widening = w.win.widening /\ ~o.pressed
      /\ o.fading = w.win.fading /\ o.to = w.win.to /\ o.hiding = w.win.hiding
      /\ o.opacity = w.win.opacity /\ o.retried = w.win.retried
  BY <1>1 DEF Object
<1>8. r.win = o /\ r.box = w.box
  BY <1>2, <1>5 DEF Repaints, SameQuestion
<1>9. /\ r.hwnd.exists = w.hwnd.exists /\ r.hwnd.visible = w.hwnd.visible
      /\ r.hwnd.timer = w.hwnd.timer /\ r.hwnd.layered = w.hwnd.layered
      /\ r.hwnd.size = w.hwnd.size /\ r.hwnd.untimed = w.hwnd.untimed
  BY <1>2, <1>5 DEF Repaints, SameQuestion, SamePicture, SameFade, SameFrame
<1>13. r.hwnd.failed = w.hwnd.failed
  BY <1>1, <1>6 DEF Handle
<1> HIDE DEF o
<1>10. Intact(r)
  <2>1. Seated(r) /\ Absent(r) /\ Fades(r)
    BY <1>5, <1>7, <1>8, <1>9 DEF Intact, Seated, Absent, Fades
  <2>2. Fits(r) /\ Drawn(r) /\ Retries(r)
    BY <1>5, <1>7, <1>8, <1>9, <1>13 DEF Intact, Fits, LookOf, Drawn, Painted, Retries
  <2> QED
    BY <1>5, <1>8, <2>1, <2>2 DEF Intact, Asking
<1>11. SameQuestion(w, r) /\ SamePicture(w, r)
  BY <1>7, <1>8, <1>9 DEF SameQuestion, SamePicture
<1>12. /\ Follows(w, r) /\ (Hidden(w) => Hidden(r))
       /\ Leaving(w) /\ Heard(w) => Heard(r)
  BY <1>7, <1>8, <1>9, <1>10, <1>11, SameFollows
<1> QED
  BY <1>6, <1>7, <1>8, <1>9, <1>12 DEF r, o

LEMMA ButtonUpStep ==
  ASSUME IInv, NEW inside \in BOOLEAN, NEW luck, ButtonUp(inside, luck)
  PROVE  IInv'
<1> DEFINE w == [State EXCEPT !.win.pressed = FALSE, !.hwnd.invalid = hwnd.visible]
           clicked == inside /\ win.canExpand
           set == SetExpanded(w, ~win.expanded, luck)
           r == IF clicked THEN set ELSE w
           again == past.reshown \/ (clicked /\ hwnd.visible /\ win.dirty)
           straight == past.direct \/ (clicked /\ hwnd.visible /\ env.foreground # "own")
           p == [past EXCEPT !.reshown = again, !.direct = straight]
<1>1. /\ State \in W /\ State.win = win /\ State.hwnd = hwnd /\ State.box = box
      /\ env \in Environment /\ past \in Past /\ Told(env, past)
      /\ Intact(State) /\ Kept(State, env, past) /\ win \in Object
  BY StateTypes DEF IInv, Kept, TypeOK
<1>2. win.pressed /\ env' = env /\ Become(r, luck, p)
  BY DEF ButtonUp
<1>3. (~win.expanded) \in BOOLEAN /\ again \in BOOLEAN /\ straight \in BOOLEAN
  BY <1>1 DEF Object, Past
<1>4. again => past.reshown \/ (clicked /\ hwnd.visible /\ win.dirty)
  OBVIOUS
<1>5. /\ past.reshown => again
      /\ past.direct => straight
      /\ ~clicked \/ ~hwnd.visible => again = past.reshown /\ straight = past.direct
      /\ clicked /\ hwnd.visible /\ ~straight => env.foreground = "own"
      /\ clicked /\ hwnd.visible /\ ~again => ~win.dirty
  BY <1>1 DEF Past
<1> HIDE DEF again, straight, clicked
<1>6. /\ p \in Past /\ p.asked = past.asked /\ p.direct = straight /\ p.reshown = again
      /\ p.noticed = past.noticed /\ p.failures = past.failures /\ p.events = past.events
      /\ p.active = past.active /\ p.lost = past.lost
  BY <1>1, <1>3 DEF Past
<1> HIDE DEF p
<1> DEFINE u == [State EXCEPT !.win.pressed = FALSE, !.hwnd.invalid = State.hwnd.visible]
<1>7. w = u
  BY <1>1
<1> HIDE DEF w
<1>8. /\ Follows(State, w) /\ (Hidden(State) => Hidden(w))
      /\ Leaving(State) /\ Heard(State) => Heard(w)
      /\ w.hwnd.visible = hwnd.visible /\ w.win.hiding = win.hiding /\ w.win.dirty = win.dirty
  <2>1. /\ Follows(State, u) /\ (Hidden(State) => Hidden(u))
        /\ Leaving(State) /\ Heard(State) => Heard(u)
        /\ u.hwnd.visible = State.hwnd.visible /\ u.win.hiding = State.win.hiding
        /\ u.win.dirty = State.win.dirty
    BY <1>1, ReleaseFollows
  <2> HIDE DEF u
  <2> QED
    BY <1>1, <1>7, <2>1
<1> HIDE DEF u
<1>9. Intact(w)
  BY <1>8 DEF Follows
<1>10. p.events >= past.events
  BY <1>1, <1>6, BoundsAssumption DEF Past
<1>11. /\ Intact(set) /\ Faithful(w, set) /\ (Leaving(w) => Leaving(set))
       /\ ~w.hwnd.visible => Follows(w, set) /\ ~set.hwnd.visible
       /\ ~w.hwnd.visible /\ Leaving(w) /\ Heard(w) => Heard(set)
       /\ env.foreground = "own" =>
            /\ AtCaret(w) => AtCaret(set)
            /\ Backed(w) => Backed(set)
            /\ Timed(w) => Timed(set)
            /\ Leaving(w) /\ Heard(w) => Heard(set)
            /\ Steady(w) =>
                 \A asked \in Contents \cup {0} : Latest(w, asked) => Latest(set, asked)
  BY <1>1, <1>3, <1>9, SetExpandedKeeps
<1> HIDE DEF set
<1>12. CASE ~clicked
  <2>1. r = w
    BY <1>12
  <2> HIDE DEF r
  <2> QED
    BY <1>2, <1>5, <1>6, <1>8, <1>10, <1>12, <2>1, FollowingKeeps
<1>13. CASE clicked /\ ~hwnd.visible
  <2>1. r = set
    BY <1>13
  <2> HIDE DEF r
  <2>2. Follows(State, r) /\ Hidden(r)
    BY <1>1, <1>8, <1>11, <1>13, <2>1, FollowsOn DEF Hidden
  <2>3. Leaving(State) /\ Heard(State) => Heard(r)
    BY <1>1, <1>8, <1>11, <1>13, <2>1 DEF Follows
  <2> QED
    BY <1>2, <1>5, <1>6, <1>10, <1>13, <2>2, <2>3, FollowingKeeps
<1>14. CASE clicked /\ hwnd.visible
  <2>1. r = set
    BY <1>14
  <2> HIDE DEF r
  <2>2. Faithful(State, r) /\ Intact(r)
    BY <1>1, <1>8, <1>11, <2>1, FaithfulOn DEF Follows
  <2>3. p.asked # 0
    BY <1>1, <1>2, <1>6 DEF Kept, TakenBack
  <2>4. ~p.direct => env.foreground = "own" /\ AtCaret(r)
    BY <1>1, <1>5, <1>6, <1>8, <1>11, <1>14, <2>1 DEF Kept, Follows
  <2>5. ASSUME ~p.direct, ~p.reshown
        PROVE  Latest(r, p.asked)
    <3>1. env.foreground = "own" /\ ~win.dirty /\ ~past.direct /\ ~past.reshown
      BY <1>5, <1>6, <1>14, <2>5
    <3>2. ~win.hiding
      BY <1>1, <1>2 DEF Intact, Fades
    <3>3. Steady(w)
      BY <1>8, <1>14, <3>1, <3>2 DEF Steady
    <3>4. past.asked \in Contents \cup {0}
      BY <1>1 DEF Past
    <3>5. Latest(w, past.asked)
      BY <1>1, <1>8, <3>1, <3>4 DEF Kept, Follows
    <3> QED
      BY <1>6, <1>11, <2>1, <3>1, <3>3, <3>4, <3>5
  <2>6. env.foreground = "own" /\ env.notices = <<>> => Timed(r) /\ (p.lost \/ Heard(r))
    BY <1>1, <1>6, <1>8, <1>11, <2>1 DEF Kept, Follows
  <2>7. Leaving(r) /\ (~p.direct => Backed(r))
    BY <1>1, <1>5, <1>6, <1>8, <1>11, <1>14, <2>1, <2>4 DEF Kept, Follows
  <2>8. Told(env, p)
    BY <1>1, <1>6 DEF Told
  <2>9. ~p.direct /\ env.foreground = "other" /\ env.notices = <<>> => Hidden(r)
    BY <2>4
  <2> QED
    BY <1>1, <1>2, <1>6, <1>10, <2>2, <2>3, <2>4, <2>5, <2>6, <2>7, <2>8, <2>9, BecomeKeeps
<1> QED
  BY <1>12, <1>13, <1>14

LEMMA CaptureStep ==
  ASSUME IInv, CaptureChanged
  PROVE  IInv'
<1> DEFINE w == [State EXCEPT !.win.pressed = FALSE, !.hwnd.invalid = State.hwnd.visible]
<1>1. /\ State \in W /\ State.win = win /\ State.hwnd = hwnd /\ State.box = box
      /\ Intact(State)
  BY StateTypes DEF IInv, Kept
<1>2. /\ win' = [win EXCEPT !.pressed = FALSE]
      /\ hwnd' = [hwnd EXCEPT !.invalid = hwnd.visible]
      /\ env' = env /\ box' = box /\ past' = past
  BY DEF CaptureChanged
<1>3. /\ Follows(State, w) /\ (Hidden(State) => Hidden(w))
      /\ Leaving(State) /\ Heard(State) => Heard(w)
      /\ w.win.focus = State.win.focus
      /\ w.win = [State.win EXCEPT !.pressed = FALSE]
      /\ w.hwnd = [State.hwnd EXCEPT !.invalid = State.hwnd.visible] /\ w.box = State.box
  BY <1>1, ReleaseFollows
<1> HIDE DEF w
<1>4. win' = w.win /\ hwnd' = w.hwnd /\ box' = w.box /\ w.win.focus = win.focus
  BY <1>1, <1>2, <1>3
<1>5. Become(w, "good", past)
  BY <1>2, <1>4, BecomeGood
<1> QED
  BY <1>2, <1>3, <1>5, QuietKeeps

LEMMA DestroyStep ==
  ASSUME IInv, NcDestroy
  PROVE  IInv'
<1> DEFINE r == Destroyed(State)
           p == Event(past)
<1>1. /\ State \in W /\ env \in Environment /\ past \in Past
      /\ Kept(State, env, past) /\ Intact(State) /\ Told(env, past)
  BY StateTypes DEF IInv, Kept
<1>2. past.events < MaxEvents /\ env' = env /\ Become(r, "good", p)
  BY DEF NcDestroy, Eventful
<1>4. /\ p \in Past /\ p.events = past.events + 1
      /\ p.asked = past.asked /\ p.noticed = past.noticed
      /\ p.failures = past.failures /\ p.active = past.active
      /\ p.direct = past.direct /\ p.reshown = past.reshown
  BY <1>1, <1>2, EventHappens
<1> HIDE DEF p
<1>5. /\ Intact(r) /\ ~r.hwnd.exists /\ ~r.hwnd.visible
      /\ Faithful(State, r) /\ (TakenBack(State) => TakenBack(r))
      /\ \A asked \in Contents \cup {0} : Latest(State, asked) => Latest(r, asked)
      /\ AtCaret(r) /\ (Backed(State) => Backed(r))
      /\ Leaving(r) /\ Timed(r) /\ Heard(r)
  BY <1>1, DestroyedKeeps
<1> HIDE DEF r
<1>6. past.asked \in Contents \cup {0}
  BY <1>1 DEF Past
<1>7. /\ p.asked = 0 => TakenBack(r)
      /\ ~p.direct /\ ~p.reshown => Latest(r, p.asked)
      /\ ~p.direct => Backed(r)
  BY <1>1, <1>4, <1>5, <1>6 DEF Kept
<1>8. Hidden(r)
  BY <1>5 DEF Hidden
<1>9. p.events >= past.events
  BY <1>1, <1>4, BoundsAssumption DEF Past
<1>10. Told(env, p)
  BY <1>1, <1>4 DEF Told
<1> QED
  BY <1>1, <1>2, <1>4, <1>5, <1>7, <1>8, <1>9, <1>10, BecomeKeeps

LEMMA DpiStep ==
  ASSUME IInv, NEW size \in Size, DpiChange(size)
  PROVE  IInv'
<1> DEFINE r == DpiChanged(State, size)
<1>1. /\ State.hwnd = hwnd /\ past \in Past /\ Intact(State)
  BY StateTypes DEF IInv, Kept
<1>2. past.events < MaxEvents /\ env' = env /\ Become(r, "good", Event(past)) /\ hwnd.exists
  BY DEF DpiChange, Eventful
<1>3. /\ Event(past) \in Past /\ Event(past).events = past.events + 1
      /\ Event(past).asked = past.asked /\ Event(past).noticed = past.noticed
      /\ Event(past).failures = past.failures /\ Event(past).active = past.active
      /\ Event(past).direct = past.direct /\ Event(past).reshown = past.reshown
      /\ Event(past).lost = past.lost
  BY <1>1, <1>2, EventHappens
<1>4. /\ Follows(State, r) /\ (Hidden(State) => Hidden(r))
      /\ Leaving(State) /\ Heard(State) => Heard(r)
  BY <1>1, <1>2, DpiFollows
<1> HIDE DEF r
<1>5. Event(past).events >= past.events
  BY <1>1, <1>3, BoundsAssumption DEF Past
<1> QED
  BY <1>2, <1>3, <1>4, <1>5, FollowingKeeps

LEMMA NoticeTaken ==
  ASSUME NEW s \in Seq(BOOLEAN), s # <<>>
  PROVE  /\ Head(s) \in BOOLEAN /\ Tail(s) \in Seq(BOOLEAN)
         /\ Tail(s) = <<>> => s[Len(s)] = Head(s)
         /\ Tail(s) # <<>> => Tail(s)[Len(Tail(s))] = s[Len(s)]
<1>1. Len(s) \in Nat /\ Len(s) >= 1 /\ Head(s) = s[1]
  OBVIOUS
<1>2. Head(s) \in BOOLEAN /\ Tail(s) \in Seq(BOOLEAN) /\ Len(Tail(s)) = Len(s) - 1
  BY <1>1
<1>3. Tail(s) = <<>> => Len(s) = 1
  <2>1. Len(<<>>) = 0
    OBVIOUS
  <2>2. Tail(s) = <<>> => Len(Tail(s)) = 0
    BY <2>1
  <2> QED
    BY <1>1, <1>2, <2>2
<1>4. ASSUME Tail(s) # <<>>
      PROVE  Tail(s)[Len(Tail(s))] = s[Len(s)]
  <2>1. Len(Tail(s)) \in 1 .. Len(Tail(s))
    BY <1>1, <1>2, <1>4
  <2> QED
    BY <1>1, <1>2, <2>1
<1> QED
  BY <1>1, <1>2, <1>3, <1>4

LEMMA NoticePosted ==
  ASSUME NEW s \in Seq(BOOLEAN), NEW active \in BOOLEAN
  PROVE  LET t == Append(s, active)
         IN  t \in Seq(BOOLEAN) /\ t # <<>> /\ t[Len(t)] = active
<1>1. Len(Append(s, active)) = Len(s) + 1 /\ Len(s) \in Nat
  OBVIOUS
<1> QED
  BY <1>1

LEMMA ActivateStep ==
  ASSUME IInv, NEW luck, ActivateApp(luck)
  PROVE  IInv'
<1> DEFINE active == Head(env.notices)
           rest == Tail(env.notices)
           e == [env EXCEPT !.notices = rest]
           p == [past EXCEPT !.active = active]
           w == IF ~hwnd.exists THEN State
                ELSE IF active THEN Activated(State, luck) ELSE Deactivated(State, luck)
<1>1. /\ State \in W /\ State.win = win /\ State.hwnd = hwnd
      /\ env \in Environment /\ past \in Past
      /\ Kept(State, env, past) /\ Intact(State) /\ Told(env, past)
  BY StateTypes DEF IInv, Kept
<1>2. env.notices # <<>> /\ env.notices \in Seq(BOOLEAN) /\ env' = e /\ Become(w, luck, p)
  BY <1>1 DEF ActivateApp, Environment
<1>3. /\ active \in BOOLEAN /\ rest \in Seq(BOOLEAN)
      /\ rest = <<>> => env.notices[Len(env.notices)] = active
      /\ rest # <<>> => rest[Len(rest)] = env.notices[Len(env.notices)]
  BY <1>2, NoticeTaken
<1>4. env.notices[Len(env.notices)] <=> env.foreground = "own"
  BY <1>1, <1>2 DEF Told
<1> HIDE DEF active, rest
<1>5. /\ p \in Past /\ p.active = active /\ p.asked = past.asked /\ p.direct = past.direct
      /\ p.reshown = past.reshown /\ p.noticed = past.noticed
      /\ p.failures = past.failures /\ p.events = past.events
  BY <1>1, <1>3 DEF Past
<1> HIDE DEF p
<1>6. /\ e \in Environment /\ e.notices = rest /\ e.foreground = env.foreground
      /\ e.moment = env.moment /\ env.foreground \in {"own", "other"}
  BY <1>1, <1>3 DEF Environment
<1> HIDE DEF e
<1>7. rest = <<>> => (active <=> env.foreground = "own")
  BY <1>3, <1>4
<1>8. Told(e, p)
  BY <1>3, <1>4, <1>5, <1>6, <1>7 DEF Told
<1>9. past.asked \in Contents \cup {0}
  BY <1>1 DEF Past
<1>10. /\ Intact(w) /\ Faithful(State, w)
       /\ p.asked = 0 => TakenBack(w)
       /\ ~p.direct /\ ~p.reshown => Latest(w, p.asked)
       /\ ~p.direct => AtCaret(w)
       /\ Leaving(w)
       /\ ~p.direct => Backed(w)
       /\ ~active => Hidden(w)
       /\ active => Timed(w) /\ (env.foreground = "own" => Heard(w))
  <2>1. CASE ~hwnd.exists
    <3>1. w = State
      BY <2>1
    <3> HIDE DEF w
    <3>2. ~State.hwnd.visible /\ ~State.hwnd.exists
      BY <1>1, <2>1 DEF Intact, Absent
    <3>3. Hidden(w) /\ Timed(w) /\ Heard(w)
      BY <3>1, <3>2 DEF Hidden, Timed, Heard, Late
    <3>4. Faithful(State, w)
      BY <1>1, <3>1, SameIsFaithful
    <3> QED
      BY <1>1, <1>5, <3>1, <3>3, <3>4 DEF Kept
  <2>2. CASE hwnd.exists /\ active
    <3>1. w = Activated(State, luck)
      BY <2>2
    <3>2. /\ Follows(State, Activated(State, luck)) /\ Timed(Activated(State, luck))
          /\ env.foreground = "own" => Heard(Activated(State, luck))
      BY <1>1, <2>2, ActivatedFollows
    <3> HIDE DEF w
    <3>3. Follows(State, w) /\ Timed(w) /\ (env.foreground = "own" => Heard(w))
      BY <3>1, <3>2
    <3> QED
      BY <1>1, <1>5, <1>9, <2>2, <3>3 DEF Kept, Follows
  <2>3. CASE hwnd.exists /\ ~active
    <3> DEFINE r == Deactivated(State, luck)
    <3>1. w = r
      BY <2>3
    <3>2. /\ Intact(r) /\ Hidden(r) /\ Faithful(State, r)
          /\ TakenBack(State) => TakenBack(r)
          /\ \A asked \in Contents \cup {0} : Latest(State, asked) => Latest(r, asked)
          /\ AtCaret(r) /\ (Backed(State) => Backed(r)) /\ Leaving(r)
      BY <1>1, DeactivatedHides
    <3> HIDE DEF w, r
    <3> QED
      BY <1>1, <1>5, <1>9, <2>3, <3>1, <3>2 DEF Kept
  <2> QED
    BY <1>3, <2>1, <2>2, <2>3
<1> HIDE DEF w
<1>11. /\ ~p.direct /\ e.foreground = "other" /\ e.notices = <<>> => Hidden(w)
       /\ e.foreground = "own" /\ e.notices = <<>> => Timed(w) /\ (p.lost \/ Heard(w))
  BY <1>3, <1>6, <1>7, <1>10
<1>12. p.events >= past.events
  BY <1>1, <1>5, BoundsAssumption DEF Past
<1>13. /\ env' \in Environment /\ env'.moment = env.moment /\ Told(env', p)
       /\ ~p.direct /\ env'.foreground = "other" /\ env'.notices = <<>> => Hidden(w)
       /\ env'.foreground = "own" /\ env'.notices = <<>> => Timed(w) /\ (p.lost \/ Heard(w))
  BY <1>2, <1>6, <1>8, <1>11
<1> QED
  BY <1>2, <1>5, <1>10, <1>12, <1>13, BecomeKeeps

-----------------------------------------------------------------------------
(* The worker.  What it learns is of the current question as long as that is fresh. *)

LEMMA WorkerKnows ==
  ASSUME IInv
  PROVE  /\ box \in Mailbox /\ env \in Environment /\ past \in Past
         /\ box.pending <=> box.step # "none"
         /\ box.step \notin {"measured", "answered"} => box.measured = None
         /\ Attested(State, past.noticed)
         /\ past.failures \in 0 .. MaxFailures /\ past.lost \in BOOLEAN
         /\ past = [past EXCEPT !.failures = past.failures, !.lost = past.lost]
<1>1. past \in Past /\ State.box = box /\ box \in Mailbox /\ env \in Environment
  BY StateTypes DEF IInv, TypeOK
<1>2. Kept(State, env, past)
  BY DEF IInv
<1>3. /\ past.failures \in 0 .. MaxFailures /\ past.lost \in BOOLEAN
      /\ past = [past EXCEPT !.failures = past.failures, !.lost = past.lost]
  BY <1>1 DEF Past
<1> QED
  BY <1>1, <1>2, <1>3 DEF Kept, Intact, Asking

LEMMA CheckFocusStep ==
  ASSUME IInv, CheckFocus
  PROVE  IInv'
<1> DEFINE step == IF StillFocused THEN "checked" ELSE "answered"
           b == [box EXCEPT !.measured = None, !.step = step]
<1>1. /\ box.step = "submitted" /\ box' = b
      /\ UNCHANGED <<env, win, hwnd>> /\ past' = past
  BY DEF CheckFocus
<1>2. step \in {"checked", "answered"}
  OBVIOUS
<1> HIDE DEF step
<1>3. /\ b \in Mailbox /\ b.step = step /\ b.measured = None /\ b.pending = box.pending
      /\ b.fresh = box.fresh /\ b.done = box.done /\ b.rectangle = box.rectangle
      /\ b.focus = box.focus /\ b.ready = box.ready
  BY <1>2, WorkerKnows DEF Mailbox
<1> HIDE DEF b
<1>4. b.pending <=> b.step # "none"
  BY <1>1, <1>2, <1>3, WorkerKnows
<1>5. Attested([win |-> win, hwnd |-> hwnd, box |-> b], past.noticed)
  BY <1>1, <1>2, <1>3, WorkerKnows DEF Attested, State
<1> QED
  BY <1>1, <1>3, <1>4, <1>5, WorkerKnows, BoxKeeps

LEMMA MeasureCaretStep ==
  ASSUME IInv, MeasureCaret
  PROVE  IInv'
<1> DEFINE place == [from |-> "caret", control |-> env.focus, moment |-> env.moment]
           measured == box'.measured
<1>1. /\ box.step = "checked" /\ box.measured = None
      /\ UNCHANGED <<env, win, hwnd>> /\ past' = past
  BY WorkerKnows DEF MeasureCaret
<1>2. place \in Place /\ SeenBy(place, place.control, past.noticed)
  <2>1. place \in Place /\ env.moment \in Nat
    BY WorkerKnows, BoundsAssumption DEF Environment, Place, Moments
  <2>2. past.noticed <= env.moment /\ past.noticed \in Nat
    BY WorkerKnows, BoundsAssumption DEF IInv, Clock, Past, Moments
  <2> QED
    BY <2>1, <2>2 DEF SeenBy
<1>3. /\ box' \in Mailbox /\ box'.step \in {"measured", "answered"}
      /\ box'.pending = box.pending /\ box'.fresh = box.fresh /\ box'.done = box.done
      /\ box'.rectangle = box.rectangle /\ box'.focus = box.focus
      /\ box'.ready = box.ready
      /\ measured # None => measured = place /\ box'.step = "measured"
  <2>1. CASE box' = [box EXCEPT !.step = "measured", !.measured = place]
    <3> HIDE DEF place
    <3> QED
      BY <1>2, <2>1, WorkerKnows DEF Mailbox
  <2>2. CASE box' = [box EXCEPT !.step = "answered"]
    BY <1>1, <2>2, WorkerKnows DEF Mailbox
  <2> QED
    BY <2>1, <2>2 DEF MeasureCaret
<1> HIDE DEF place
<1>4. box'.pending <=> box'.step # "none"
  BY <1>1, <1>3, WorkerKnows
<1>5. Attested([win |-> win, hwnd |-> hwnd, box |-> box'], past.noticed)
  BY <1>1, <1>2, <1>3, WorkerKnows DEF Attested, State
<1> QED
  BY <1>1, <1>3, <1>4, <1>5, WorkerKnows, BoxKeeps

LEMMA RecheckFocusStep ==
  ASSUME IInv, RecheckFocus
  PROVE  IInv'
<1> DEFINE same == StillFocused /\ box.measured.control = env.focus
           measured == IF same THEN box.measured ELSE None
           b == [box EXCEPT !.step = "answered", !.measured = measured]
<1>1. /\ box.step = "measured" /\ box' = b
      /\ UNCHANGED <<env, win, hwnd>> /\ past' = past
  BY WorkerKnows DEF RecheckFocus, Mailbox
<1>2. /\ measured \in Place \cup {None}
      /\ measured # None => measured = box.measured /\ box.measured.control = box.focus
  BY WorkerKnows DEF Mailbox, StillFocused
<1> HIDE DEF measured
<1>3. /\ b \in Mailbox /\ b.step = "answered" /\ b.measured = measured
      /\ b.pending = box.pending /\ b.fresh = box.fresh /\ b.done = box.done
      /\ b.rectangle = box.rectangle /\ b.focus = box.focus /\ b.ready = box.ready
  BY <1>2, WorkerKnows DEF Mailbox
<1> HIDE DEF b
<1>4. b.pending <=> b.step # "none"
  BY <1>1, <1>3, WorkerKnows
<1>5. Attested([win |-> win, hwnd |-> hwnd, box |-> b], past.noticed)
  BY <1>1, <1>2, <1>3, WorkerKnows DEF Attested, State
<1> QED
  BY <1>1, <1>3, <1>4, <1>5, WorkerKnows, BoxKeeps

LEMMA AnswerStep ==
  ASSUME IInv, NEW posted \in BOOLEAN, AnswerQuery(posted)
  PROVE  IInv'
<1> DEFINE ready == IF posted THEN box.ready + 1 ELSE box.ready
           failures == IF posted THEN past.failures ELSE past.failures + 1
           lost == ~posted
           b == [box EXCEPT !.pending = FALSE, !.done = box.fresh, !.fresh = FALSE,
                   !.rectangle = box.measured, !.measured = None, !.focus = None,
                   !.step = "none", !.ready = ready]
<1>1. /\ box.step = "answered" /\ box' = b
      /\ UNCHANGED <<env, win, hwnd>>
      /\ past' = [past EXCEPT !.failures = failures, !.lost = lost]
      /\ posted => box.ready < MaxReady
      /\ ~posted => past.failures < MaxFailures
  BY WorkerKnows DEF AnswerQuery
<1>2. ready \in 0 .. MaxReady
  BY <1>1, WorkerKnows, BoundsAssumption DEF Mailbox
<1>3. failures \in 0 .. MaxFailures
  BY <1>1, WorkerKnows, BoundsAssumption
<1>6. lost \in BOOLEAN /\ (lost \/ ready > 0)
  BY WorkerKnows, BoundsAssumption DEF Mailbox
<1> HIDE DEF ready, failures, lost
<1>4. /\ b \in Mailbox /\ b.ready = ready /\ b.step = "none"
      /\ b.measured = None /\ ~b.pending /\ ~b.fresh
      /\ b.done = box.fresh /\ b.rectangle = box.measured
  BY <1>2, WorkerKnows DEF Mailbox
<1> HIDE DEF b
<1>5. Attested([win |-> win, hwnd |-> hwnd, box |-> b], past.noticed)
  BY <1>1, <1>4, WorkerKnows DEF Attested, State
<1> QED
  BY <1>1, <1>3, <1>4, <1>5, <1>6, BoxKeeps

-----------------------------------------------------------------------------
(* The desktop leaves the window alone, too. *)

LEMMA ChangesKeeps ==
  ASSUME IInv, NEW thing, NEW e \in Environment, Changes(thing, e),
         e.notices = <<>> => env.notices = <<>> /\ e.foreground = env.foreground,
         e.notices # <<>> =>
           \/ e.notices[Len(e.notices)] <=> e.foreground = "own"
           \/ e.notices = env.notices /\ e.foreground = env.foreground,
         e.moment \in {env.moment, env.moment + 1}
  PROVE  IInv'
<1>1. /\ State \in W /\ env \in Environment /\ past \in Past /\ TypeOK
      /\ Kept(State, env, past) /\ Told(env, past) /\ Clock(env, past)
  BY StateTypes DEF IInv
<1>2. /\ past.events < MaxEvents /\ env' = e /\ past' = Event(past)
      /\ box' = box /\ win' = win /\ hwnd' = hwnd
  BY DEF Changes, Eventful
<1>3. /\ Event(past) \in Past /\ Event(past).events = past.events + 1
      /\ Event(past).asked = past.asked /\ Event(past).noticed = past.noticed
      /\ Event(past).active = past.active
      /\ Event(past).direct = past.direct /\ Event(past).reshown = past.reshown
      /\ Event(past).lost = past.lost
  BY <1>1, <1>2, EventHappens
<1>4. State' = State
  BY <1>2 DEF State
<1>5. Kept(State, e, Event(past))
  BY <1>1, <1>3 DEF Kept
<1>6. Told(e, Event(past))
  BY <1>1, <1>3 DEF Told
<1>7. Clock(e, Event(past))
  <2>1. past.noticed \in Nat /\ env.moment \in Nat /\ past.events \in Nat
    BY <1>1, BoundsAssumption DEF Past, Environment, Moments
  <2>2. past.noticed <= env.moment /\ env.moment <= past.events
    BY <1>1 DEF Clock
  <2>3. past.noticed <= e.moment /\ e.moment <= past.events + 1
    BY <2>1, <2>2
  <2> QED
    BY <1>3, <2>3 DEF Clock
<1>8. TypeOK'
  BY <1>1, <1>2, <1>3 DEF TypeOK
<1> QED
  BY <1>2, <1>4, <1>5, <1>6, <1>7, <1>8 DEF IInv

(* There is time for another event. *)
LEMMA MomentPasses ==
  ASSUME IInv, past.events < MaxEvents
  PROVE  env.moment + 1 \in Moments
<1>1. env.moment \in Nat /\ past.events \in Nat /\ env.moment <= past.events
  BY StateTypes, BoundsAssumption DEF IInv, Clock, Environment, Past, Moments
<1> QED
  BY <1>1, BoundsAssumption DEF Moments

LEMMA MoveFocusStep ==
  ASSUME IInv, NEW control \in Controls, MoveFocus(control)
  PROVE  IInv'
<1> DEFINE moment == env.moment + 1
           e == [env EXCEPT !.focus = control, !.moment = moment]
<1>1. env \in Environment /\ moment \in Moments /\ Changes("focus", e)
  BY StateTypes, MomentPasses DEF IInv, MoveFocus, Changes, Eventful
<1>2. moment = env.moment + 1
  OBVIOUS
<1> HIDE DEF moment
<1>3. /\ e \in Environment /\ e.notices = env.notices /\ e.foreground = env.foreground
      /\ e.moment = moment
  BY <1>1 DEF Environment
<1> HIDE DEF e
<1> QED
  BY <1>1, <1>2, <1>3, ChangesKeeps

LEMMA MoveCaretStep ==
  ASSUME IInv, MoveCaret
  PROVE  IInv'
<1> DEFINE moment == env.moment + 1
           e == [env EXCEPT !.moment = moment]
<1>1. env \in Environment /\ moment \in Moments /\ Changes("caret", e)
  BY StateTypes, MomentPasses DEF IInv, MoveCaret, Changes, Eventful
<1>2. moment = env.moment + 1
  OBVIOUS
<1> HIDE DEF moment
<1>3. /\ e \in Environment /\ e.notices = env.notices /\ e.foreground = env.foreground
      /\ e.moment = moment
  BY <1>1 DEF Environment
<1> HIDE DEF e
<1> QED
  BY <1>1, <1>2, <1>3, ChangesKeeps

LEMMA ForegroundStep ==
  ASSUME IInv, LeaveForeground \/ EnterForeground
  PROVE  IInv'
<1> DEFINE other(active) == IF active THEN "own" ELSE "other"
           notices(active) == Append(env.notices, active)
           e(active) == [env EXCEPT !.foreground = other(active), !.notices = notices(active)]
<1>1. env \in Environment /\ env.notices \in Seq(BOOLEAN)
  BY StateTypes DEF IInv, Environment
<1>2. \E active \in BOOLEAN : Changes("foreground", e(active))
  BY DEF LeaveForeground, EnterForeground
<1>3. PICK active \in BOOLEAN : Changes("foreground", e(active))
  BY <1>2
<1>4. /\ notices(active) \in Seq(BOOLEAN) /\ notices(active) # <<>>
      /\ notices(active)[Len(notices(active))] = active
  BY <1>1, NoticePosted
<1>5. other(active) \in {"own", "other"} /\ (active <=> other(active) = "own")
  OBVIOUS
<1> HIDE DEF other, notices
<1>6. /\ e(active) \in Environment /\ e(active).notices = notices(active)
      /\ e(active).foreground = other(active) /\ e(active).moment = env.moment
  BY <1>1, <1>4, <1>5 DEF Environment
<1> HIDE DEF e
<1> QED
  BY <1>3, <1>4, <1>5, <1>6, ChangesKeeps

LEMMA SwitchStep ==
  ASSUME IInv, SwitchAnimations \/ SwitchDark
  PROVE  IInv'
<1>1. env \in Environment
  BY StateTypes DEF IInv
<1>2. PICK thing \in {"animations", "dark"},
           e \in {[env EXCEPT !.animations = ~@], [env EXCEPT !.dark = ~@]} : Changes(thing, e)
  BY DEF SwitchAnimations, SwitchDark
<1>3. /\ e \in Environment /\ e.notices = env.notices /\ e.foreground = env.foreground
      /\ e.moment = env.moment
  BY <1>1 DEF Environment
<1> QED
  BY <1>2, <1>3, ChangesKeeps

-----------------------------------------------------------------------------
LEMMA StepKeeps ==
  ASSUME IInv, Next
  PROVE  IInv'
<1>1. ASSUME NEW expanded \in BOOLEAN, NEW settings \in Settings, NEW luck \in ShowLuck,
             ShowCandidateWindow(expanded, settings, luck)
      PROVE  IInv'
  BY <1>1, ShowStep
<1>2. ASSUME NEW luck \in HideLuck, HideCandidates(luck)
      PROVE  IInv'
  BY <1>2, HideStep
<1>3. ASSUME CheckFocus \/ MeasureCaret \/ RecheckFocus
      PROVE  IInv'
  BY <1>3, CheckFocusStep, MeasureCaretStep, RecheckFocusStep
<1>4. ASSUME NEW posted \in BOOLEAN, AnswerQuery(posted)
      PROVE  IInv'
  BY <1>4, AnswerStep
<1>5. ASSUME NEW luck \in PresentLuck, CaretPositionReady(luck)
      PROVE  IInv'
  BY <1>5, ReadyStep
<1>6. ASSUME NEW luck \in PresentLuck, CaretPositionTimer(luck)
      PROVE  IInv'
  BY <1>6, TimerStep
<1>7. ASSUME NEW luck \in ShowLuck, ActivateApp(luck)
      PROVE  IInv'
  BY <1>7, ActivateStep
<1>8. ASSUME NEW elapsed \in BOOLEAN, NEW luck \in {"good", "present"},
             FadeTimer(elapsed, luck)
      PROVE  IInv'
  BY <1>8, FadeStep
<1>9. ASSUME NEW elapsed \in BOOLEAN, NEW cx \in 1 .. 3, NEW luck \in PaintLuck,
             WidthTimer(elapsed, cx, luck)
      PROVE  IInv'
  BY <1>9, WidthStep
<1>10. ASSUME NEW luck \in PaintLuck, PaintWindow(luck)
       PROVE  IInv'
  BY <1>10, PaintStep
<1>11. ASSUME ButtonDown \/ CaptureChanged \/ NcDestroy
       PROVE  IInv'
  BY <1>11, ButtonDownStep, CaptureStep, DestroyStep
<1>12. ASSUME NEW inside \in BOOLEAN, NEW luck \in ShowLuck, ButtonUp(inside, luck)
       PROVE  IInv'
  BY <1>12, ButtonUpStep
<1>13. ASSUME NEW size \in Size, DpiChange(size)
       PROVE  IInv'
  BY <1>13, DpiStep
<1>14. ASSUME NEW control \in Controls, MoveFocus(control)
       PROVE  IInv'
  BY <1>14, MoveFocusStep
<1>15. ASSUME \/ MoveCaret \/ LeaveForeground \/ EnterForeground
              \/ SwitchAnimations \/ SwitchDark
       PROVE  IInv'
  BY <1>15, MoveCaretStep, ForegroundStep, SwitchStep
<1> QED
  BY <1>1, <1>2, <1>3, <1>4, <1>5, <1>6, <1>7, <1>8, <1>9, <1>10, <1>11, <1>12, <1>13,
     <1>14, <1>15, Zenon DEF Next

LEMMA StutterKeeps ==
  ASSUME IInv, UNCHANGED vars
  PROVE  IInv'
<1>1. /\ env' = env /\ box' = box /\ win' = win /\ hwnd' = hwnd /\ past' = past
      /\ State' = State
  BY DEF vars, State
<1> QED
  BY <1>1 DEF IInv, TypeOK

LEMMA InitIs ==
  ASSUME Init
  PROVE  IInv
<1> DEFINE h == [exists |-> TRUE, visible |-> FALSE, layered |-> FALSE,
                 size |-> [cx |-> 3, cy |-> 1], timer |-> FALSE, untimed |-> FALSE,
                 invalid |-> FALSE, failed |-> 0, missed |-> FALSE, screen |-> None]
           b == [pending |-> FALSE, fresh |-> FALSE, done |-> TRUE, rectangle |-> None,
                 step |-> "none", focus |-> None, measured |-> None, ready |-> 0]
           size == [cx |-> 1, cy |-> 1]
           settings == [theme |-> Default, colours |-> FALSE]
<1>1. h \in Handle /\ b \in Mailbox
  BY NewWindowTypes
<1>2. hwnd = [h EXCEPT !.exists = FALSE] /\ box = b
  BY DEF Init, NewWindow
<1>3. /\ hwnd \in Handle /\ ~hwnd.exists /\ ~hwnd.visible /\ ~hwnd.invalid /\ ~hwnd.timer
  BY <1>1, <1>2 DEF Handle
<1>4. /\ box \in Mailbox /\ ~box.pending /\ ~box.fresh /\ box.rectangle = None
      /\ box.step = "none" /\ box.measured = None
  BY <1>1, <1>2
<1>5. 0 \in Moments /\ 0 \in 0 .. MaxShows /\ 0 \in 0 .. MaxFailures
  BY BoundsAssumption DEF Moments
<1>6. /\ env \in Environment /\ env.notices = <<>> /\ env.moment = 0
      /\ env.foreground \in {"own", "other"}
  <2>1. <<>> \in Seq(BOOLEAN)
    OBVIOUS
  <2> QED
    BY <1>5, <2>1 DEF Init, Environment
<1>7. /\ past \in Past /\ past.asked = 0 /\ past.noticed = 0 /\ past.events = 0
      /\ past.active <=> env.foreground = "own"
  <2>1. PICK scene \in Scenes :
          past = [asked |-> 0, shows |-> 0, events |-> 0, failures |-> 0, noticed |-> 0,
                  active |-> env.foreground = "own", direct |-> FALSE, reshown |-> FALSE,
                  lost |-> FALSE, scene |-> scene]
    BY DEF Init
  <2>2. 0 \in Contents \cup {0} /\ 0 \in 0 .. MaxEvents
    BY BoundsAssumption
  <2>3. (env.foreground = "own") \in BOOLEAN
    OBVIOUS
  <2> QED
    BY <1>5, <2>1, <2>2, <2>3 DEF Past
<1>8. size \in Size /\ settings \in Settings
  BY DEF Size, Settings, Themes
<1>9. size.cx = 1 /\ settings.theme = Default
  OBVIOUS
<1> DEFINE target == <<size, None>>
<1>10. target \in Size \X (Place \cup {None})
  BY <1>8
<1>11. win = [requested |-> FALSE, pending |-> None, dirty |-> FALSE, verified |-> None,
              focus |-> None, snapshot |-> 0, settings |-> settings,
              at |-> None, theme |-> None, dark |-> FALSE, layered |-> FALSE,
              retried |-> FALSE, expanded |-> FALSE, canExpand |-> FALSE, pressed |-> FALSE,
              fading |-> FALSE, to |-> Full, hiding |-> FALSE, opacity |-> Full,
              widening |-> FALSE, target |-> target, from |-> 1, surface |-> None]
  BY DEF Init
<1> HIDE DEF target, settings, size
<1>12. win \in Object
  BY <1>8, <1>10, <1>11 DEF Object, Opacity, Full
<1>13. /\ ~win.requested /\ win.pending = None /\ ~win.dirty /\ win.verified = None
       /\ win.snapshot = 0 /\ ~win.layered /\ ~win.retried /\ ~win.pressed
       /\ ~win.fading /\ ~win.widening
       /\ win.surface = None
  BY <1>11
<1>14. TypeOK
  BY <1>3, <1>4, <1>6, <1>7, <1>12 DEF TypeOK
<1>15. State \in W /\ State.win = win /\ State.hwnd = hwnd /\ State.box = box
  BY <1>14, StateTypes
<1>16. Intact(State)
  BY <1>3, <1>4, <1>13, <1>15
     DEF Intact, Seated, Absent, Fades, Fits, Drawn, Painted, Retries, Asking
<1>17. Attested(State, past.noticed)
  BY <1>4, <1>13, <1>15 DEF Attested
<1>18. Kept(State, env, past)
  BY <1>3, <1>7, <1>13, <1>15, <1>16, <1>17
     DEF Kept, TakenBack, Hidden, Latest, Steady, AtCaret, Backed, Timed, Leaving, Heard, Late
<1>19. Told(env, past) /\ Clock(env, past)
  BY <1>6, <1>7 DEF Told, Clock
<1> QED
  BY <1>14, <1>18, <1>19 DEF IInv

(* The window and what is known about it stay consistent, whatever handlers, answers of the *)
(* worker, notices of the system and events come in whichever order, for every number of    *)
(* presentations, events and failures.                                                      *)
THEOREM Invariance == Spec => []IInv
<1>1. IInv /\ [Next]_vars => IInv'
  BY StepKeeps, StutterKeeps
<1> QED
  BY <1>1, InitIs, PTL DEF Spec

(* The variables of the window, the mailbox and the desktop keep their types. *)
THEOREM TypeOKAlways == Spec => []TypeOK
<1>1. IInv => TypeOK
  BY DEF IInv
<1> QED
  BY <1>1, Invariance, PTL

LEMMA IInvIs ==
  ASSUME IInv
  PROVE  /\ State.win = win /\ State.hwnd = hwnd /\ State.box = box
         /\ env \in Environment /\ past \in Past
         /\ Kept(State, env, past) /\ Told(env, past) /\ Intact(State)
  BY StateTypes DEF IInv, Kept

(* The place that the window trusts is the caret of the control it belongs to, seen after it *)
(* took notice of that control: AnswerIsCurrent and ReadFocusedCaret let no older answer by. *)
THEOREM CaretOfFocusAlways == Spec => []CaretOfFocus
<1>1. IInv => CaretOfFocus
  BY IInvIs DEF Kept, Attested, SeenBy, CaretOfFocus
<1> QED
  BY <1>1, Invariance, PTL

(* After Hide nothing shows the window again: no timer, no late answer, no activation. *)
THEOREM StaysHiddenAlways == Spec => []StaysHidden
<1>1. IInv => StaysHidden
  BY IInvIs DEF Kept, TakenBack, Hidden, Intact, Fades, StaysHidden
<1> QED
  BY <1>1, Invariance, PTL

(* A window at rest shows the latest presentation that ShowCandidateWindow asked for. *)
THEOREM LatestIsShownAlways == Spec => []LatestIsShown
<1>1. IInv => LatestIsShown
  BY IInvIs DEF Kept, Latest, Steady, LatestIsShown
<1> QED
  BY <1>1, Invariance, PTL

(* An application that was told it lost the foreground (WM_ACTIVATEAPP) shows no popup, or *)
(* one that fades out.                                                                     *)
THEOREM NotOverOthersAlways == Spec => []NotOverOthers
<1>1. IInv => NotOverOthers
  <2>1. IInv => Told(env, past) /\ env.foreground \in {"own", "other"}
    BY IInvIs DEF Environment
  <2> QED
    BY <2>1, IInvIs DEF Kept, Told, Hidden, NotOverOthers
<1> QED
  BY <1>1, Invariance, PTL

(* Candidates that are wanted in the active application have a presentation to make, and  *)
(* the timer that asks for the caret again.  Where SetTimer failed (ShowHere, Activated),  *)
(* what is not yet presented has its query under way or the answer in the queue, unless    *)
(* the message of the last answer was lost.                                                *)
THEOREM WillPresentAlways == Spec => []WillPresent
<1>1. IInv => WillPresent
  BY IInvIs DEF Kept, Backed, Timed, Heard, Late, WillPresent
<1> QED
  BY <1>1, Invariance, PTL

(* A shown window stays at the place that was verified (PresentAtCaret). *)
THEOREM StaysAtCaretAlways == Spec => []StaysAtCaret
<1>1. IInv => StaysAtCaret
  BY IInvIs DEF Kept, AtCaret, Steady, StaysAtCaret
<1> QED
  BY <1>1, Invariance, PTL

(* However fades interrupt each other (StartNativeFade, AdvanceNativeFade), the window is  *)
(* opaque when none is under way.                                                          *)
THEOREM ShownOpaqueAlways == Spec => []ShownOpaque
<1>1. IInv => ShownOpaque
  BY IInvIs DEF Kept, Intact, Fades, ShownOpaque
<1> QED
  BY <1>1, Invariance, PTL

(* The screen shows what the window is about when nothing is left to paint, also after one *)
(* presentation that failed (Paint); and opaque when the fade is over, if the last frame   *)
(* of the fade reached it (StartNativeFade, AdvanceNativeFade).                            *)
THEOREM ScreenIsCurrentAlways == Spec => []ScreenIsCurrent
<1>1. IInv => ScreenIsCurrent
  <2>1. IInv => LookOf(State.win) = LookOf(win)
    BY DEF State
  <2> QED
    BY <2>1, IInvIs DEF Kept, Intact, Drawn, Held, Painted, ScreenIsCurrent
<1> QED
  BY <1>1, Invariance, PTL
=============================================================================
