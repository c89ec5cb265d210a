--------------------------- MODULE MCTextService ---------------------------
(***************************************************************************)
(* A small host for the text service: two fields, or one where the focus   *)
(* is not the question.                                                    *)
(***************************************************************************)
EXTENDS TextService, TLC

CONSTANTS f1, f2   \* the fields

MCBothFields == {f1, f2}
MCOneField == {f1}
MCTypingKinds == {"letter", "space", "punct"}
MCAllKinds == {"letter", "back", "escape", "space", "enter", "punct", "page"}
MCLetters == {"letter"}
MCLettersAndMarks == {"letter", "punct"}

(* Nothing tells the fields apart, so the runs of safety exchange them. *)
MCSymmetry == Permutations(MCBothFields)
==============================================================================
