---------------------------- MODULE ThemeCatalog ----------------------------
(***************************************************************************)
(* What the themes directory promises to everyone who reads it by path     *)
(* (the broker, the candidate window, the settings application): under one *)
(* theme identifier there is at most one theme, it appears complete, and   *)
(* it is never changed in place: another package of the same identifier    *)
(* comes only after the first one is gone.                                 *)
(***************************************************************************)
CONSTANTS
  Ids,        \* theme identifiers
  Contents    \* what a complete theme directory can hold

VARIABLE catalog    \* the installed themes

Theme == [id : Ids, content : Contents]

Init == catalog \subseteq Theme /\ \A s, t \in catalog : s.id = t.id => s = t

Install(theme) ==
  /\ \A other \in catalog : other.id # theme.id
  /\ catalog' = catalog \cup {theme}

Remove(theme) == catalog' = catalog \ {theme}

Next ==
  \/ \E theme \in Theme : Install(theme)
  \/ \E theme \in catalog : Remove(theme)

Spec == Init /\ [][Next]_catalog
=============================================================================
