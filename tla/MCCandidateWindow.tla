------------------------- MODULE MCCandidateWindow -------------------------
(***************************************************************************)
(* Two presentations, and scenes that divide what can happen: the caret    *)
(* and the foreground; failing requests; a window that fades; the button   *)
(* that opens the list; a host that destroys its window; themes; drawing   *)
(* that fails.                                                             *)
(***************************************************************************)
EXTENDS CandidateWindow, TLC

CONSTANTS c1, c2   \* the controls

MCControls == {c1, c2}
(* Nothing tells the controls apart. *)
MCSymmetry == Permutations(MCControls)

MCScene(things, foreground, animations, wide) ==
  [things |-> things, foreground |-> foreground, animations |-> animations, wide |-> wide]
MCScenes ==
  {MCScene({"foreground", "focus", "caret", "caret timer"}, "own", FALSE, {}),
   MCScene({"focus", "submit", "thread info", "post", "caret timer"}, "own", FALSE, {}),
   MCScene({"foreground"}, "own", TRUE, {2}),
   MCScene({"button", "timer"}, "own", TRUE, {1}),
   MCScene({"destroy", "foreground", "focus"}, "own", FALSE, {}),
   MCScene({"settings", "theme", "bitmap", "retry theme", "dark", "dpi", "style"},
           "other", FALSE, {2}),
   MCScene({"animations", "dpi", "button", "device", "draw", "present"}, "other", TRUE, {2})}
============================================================================
