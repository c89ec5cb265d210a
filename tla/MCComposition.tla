---------------------------- MODULE MCComposition ----------------------------
(* Compositions of up to three letters, of which librime takes two. *)
EXTENDS Composition, TLC

MCWord(keys) == [keys |-> keys, chinese |-> TRUE]
MCLatin(keys) == [keys |-> keys, chinese |-> FALSE]

(* Lists that end within, at the end of and beyond a group of pages, and a *)
(* key that cannot be converted by itself, so that a choice may leave keys *)
(* without candidates.                                                     *)
MCMenu ==
  0 :> <<>> @@ 1 :> <<>>
  @@ 2 :> <<MCWord(2), MCLatin(2), MCWord(1), MCWord(1), MCWord(2), MCLatin(1)>>
  @@ 3 :> <<MCWord(3), MCWord(1), MCLatin(2)>>
MCSeed == 1 :> 3
MCSchemas ==
  {[full |-> "clear", reopens |-> FALSE, ends |-> "empty"],
   [full |-> "commit", reopens |-> FALSE, ends |-> "text"],
   [full |-> "commit", reopens |-> FALSE, ends |-> "refused"],
   [full |-> "refuse", reopens |-> TRUE, ends |-> "text"]}
MCSizes == {1, 2}
MCRuntimes == {"rime", "stub"}
==============================================================================
