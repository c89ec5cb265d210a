----------------------------- MODULE RimeEngine -----------------------------
(***************************************************************************)
(* The adapter between an input session and librime (rime_engine.cpp), and *)
(* the stub engine of builds without it (stub_engine.cpp).                 *)
(*                                                                         *)
(* librime offers its candidates as one list.  The adapter pages that list *)
(* itself, leaving out what the user filters; it remembers the keys of the *)
(* composition; and when librime gives a part of a long input away, or     *)
(* drops it, it keeps the converted part as a prefix of what follows.      *)
(*                                                                         *)
(* An engine is a record and a call is an operator on it.  The modules     *)
(* that use an engine keep the record in a variable of their own.          *)
(***************************************************************************)
EXTENDS Integers, SequencesExt

CONSTANTS
  MaxLetters,   \* kMaximumPinyinLetters
  MaxPageSize,  \* kMaximumCandidatesPerPage
  MaxWindow,    \* kMaximumCandidateWindowPages
  Full,         \* keys of one composition beyond which librime takes no letter
  Menu          \* Menu[n]: the candidates librime has for n keys, as records of the
                \* keys a candidate converts and whether it is Chinese throughout

ASSUME RimeEngineAssumption ==
  /\ MaxLetters \in Nat \ {0} /\ MaxPageSize \in Nat \ {0} /\ MaxWindow \in Nat \ {0}
  /\ Full \in Nat \ {0}
  /\ Menu \in [0 .. Full + 1 -> Seq([keys : Nat \ {0}, chinese : BOOLEAN])]
  /\ \A n \in 0 .. Full + 1 : \A i \in 1 .. Len(Menu[n]) : Menu[n][i].keys <= n

(* What librime may do with a letter beyond Full; whether its Backspace    *)
(* reopens a candidate the user has chosen instead of removing a key; and  *)
(* what comes of a commit when there is nothing left to choose: the text,  *)
(* a refusal, or no text.                                                  *)
Schema == [full : {"commit", "clear", "refuse"}, reopens : BOOLEAN,
           ends : {"text", "refused", "empty"}]

(***************************************************************************)
(* rime is librime's composition: its keys, the first of which the user    *)
(* may have converted already (chosen).  prefix is the number of keys      *)
(* whose text is in automatic_commit_text_prefix_.                         *)
(***************************************************************************)
Engine == [kind : {"rime", "stub"}, schema : Schema,
           rime : [keys : 0 .. Full + 1, chosen : Nat],
           raw : Seq({"letter", "separator"}), letters : Nat,
           prefix : Nat, prefixed : BOOLEAN,
           offset : Nat, stack : Seq(Nat),
           pageSize : 1 .. MaxPageSize, window : 1 .. MaxWindow, chineseOnly : BOOLEAN]

NewEngine(kind, schema) ==
  [kind |-> kind, schema |-> schema, rime |-> [keys |-> 0, chosen |-> 0],
   raw |-> <<>>, letters |-> 0, prefix |-> 0, prefixed |-> FALSE,
   offset |-> 0, stack |-> <<>>,
   pageSize |-> MaxPageSize, window |-> 1, chineseOnly |-> TRUE]

Smaller(a, b) == IF a < b THEN a ELSE b
AtLimit(e) == e.letters >= MaxLetters
LettersIn(raw) == Cardinality({i \in DOMAIN raw : raw[i] = "letter"})

------------------------------------------------------------------------------
(***************************************************************************)
(* Paging.                                                                 *)
(***************************************************************************)
Candidates(e) == Menu[e.rime.keys - Smaller(e.rime.chosen, e.rime.keys)]
ShouldShow(e, candidate) == candidate.chinese \/ ~e.chineseOnly

(* The places in librime's list, from one on, of the candidates shown.     *)
(* The list is read to its end, one candidate after the other.             *)
Seen(e, first) ==
  LET seen[n \in 0 .. Len(Candidates(e))] ==
        IF n = 0 THEN <<>>
        ELSE IF n > first /\ ShouldShow(e, Candidates(e)[n]) THEN Append(seen[n - 1], n - 1)
        ELSE seen[n - 1]
  IN  seen

VisibleFrom(e, first) == Seen(e, first)[Len(Candidates(e))]

NthVisible(e, first, n) ==
  LET visible == VisibleFrom(e, first) IN IF n < Len(visible) THEN visible[n + 1] ELSE -1

NextOffset(e, first) == NthVisible(e, first, e.pageSize)
CandidateIndexForVisible(e, n) == IF n < e.pageSize THEN NthVisible(e, e.offset, n) ELSE -1

ResetPaging(e) == [e EXCEPT !.offset = 0, !.stack = <<>>]

ClearTrackedInput(e) ==
  [e EXCEPT !.raw = <<>>, !.letters = 0, !.prefix = 0, !.prefixed = FALSE]

Cleared(e) == [e EXCEPT !.rime = [keys |-> 0, chosen |-> 0]]

(* The window shows whole groups of pages; the page in use is in one of them. *)
ActivePage(e) == Len(e.stack) % e.window
WindowStart(e) ==
  IF ActivePage(e) = 0 THEN e.offset ELSE e.stack[Len(e.stack) - ActivePage(e) + 1]

(* A candidate of a snapshot is known by its text: the keys in front of it *)
(* that are converted already, the keys it was offered for, its place.     *)
Candidate == [after : Nat, of : Nat, place : Nat]
CandidateAt(e, place) ==
  [after |-> e.prefix + e.rime.chosen, of |-> e.rime.keys - e.rime.chosen, place |-> place]

Snapshot == [preedit : BOOLEAN, candidates : Seq(Candidate), highlighted : Nat,
             previous : BOOLEAN, next : BOOLEAN]
EmptySnapshot ==
  [preedit |-> FALSE, candidates |-> <<>>, highlighted |-> 0,
   previous |-> FALSE, next |-> FALSE]

Showing(e, visible) == SubSeq(visible, 1, Smaller(Len(visible), e.pageSize * e.window))
Shown(e) == Showing(e, VisibleFrom(e, WindowStart(e)))

ShowingSnapshot(e, shown) ==
  [preedit     |-> TRUE,
   candidates  |-> [i \in DOMAIN shown |-> CandidateAt(e, shown[i])],
   highlighted |-> IF shown = <<>> THEN 0
                   ELSE Smaller(ActivePage(e) * e.pageSize, Len(shown) - 1),
   previous    |-> e.stack # <<>>,
   next        |-> NextOffset(e, e.offset) >= 0]

ReadSnapshot(e) ==
  IF Candidates(e) = <<>> THEN [EmptySnapshot EXCEPT !.preedit = (e.rime.keys > 0)]
  ELSE ShowingSnapshot(e, Shown(e))

(* At the limit there is a preedit and nothing to choose from. *)
Limited(e, whole) ==
  IF AtLimit(e) THEN [whole EXCEPT !.candidates = <<>>, !.previous = FALSE, !.next = FALSE]
  ELSE whole

RimeSnapshot(e) ==
  Limited(e, [ReadSnapshot(e) EXCEPT !.preedit = @ \/ e.prefixed \/ e.raw # <<>>])

------------------------------------------------------------------------------
(***************************************************************************)
(* Calls.  The answer of a call is the engine it leaves, whether it        *)
(* consumed the key, and the number of keys in the text it commits.        *)
(***************************************************************************)
Answer(e, consumed, commit) == [engine |-> e, consumed |-> consumed, commit |-> commit]
Declined(e) == Answer(e, FALSE, 0)

(* process_key of librime: its composition, whether it took the key, and   *)
(* the keys whose text it gives away.  A separator needs a composition.    *)
ProcessKey(e, key) ==
  LET rime == e.rime
      room == IF key = "letter" THEN rime.keys < Full ELSE rime.keys > 0
      more == IF rime.keys <= Full THEN 1 ELSE 0   \* bound: separators beyond Full
      Took(keys, accepted, commit) ==
        [rime |-> keys, accepted |-> accepted, commit |-> commit]
      fresh(n) == [keys |-> n, chosen |-> 0]
  IN  CASE room -> Took([rime EXCEPT !.keys = @ + more], TRUE, 0)
        [] ~room /\ (key = "separator" \/ e.schema.full = "refuse") -> Took(rime, FALSE, 0)
        [] ~room /\ key = "letter" /\ e.schema.full = "commit" ->
             Took(fresh(1), TRUE, rime.keys)
        [] OTHER -> Took(fresh(0), TRUE, 0)

AppendAutomaticSegment(e, keys) == [e EXCEPT !.prefix = @ + keys, !.prefixed = TRUE]

(* Wrong on purpose: what librime gives away for a key is not remembered. *)
TrackedWithoutSegment(e, key) ==
  LET first == ProcessKey(e, key)
  IN  Answer([e EXCEPT !.rime = first.rime, !.raw = Append(@, key),
                       !.letters = IF key = "letter" THEN @ + 1 ELSE @], TRUE, 0)

(* ProcessTrackedKey.  When librime drops or refuses a key in front of     *)
(* candidates, the first candidate on display becomes a part of the        *)
(* prefix and the key starts a composition of its own.  A letter counts    *)
(* even if librime does not take it.                                       *)
Tracked(e, key, accepted) ==
  IF ~accepted /\ key = "separator" THEN Declined(e)
  ELSE Answer([e EXCEPT !.raw = Append(@, key),
                        !.letters = IF key = "letter" THEN @ + 1 ELSE @], TRUE, 0)

(* What librime gave away for the key is in the prefix. *)
Settled(e, key, took) ==
  LET after == [e EXCEPT !.rime = took.rime]
  IN  Tracked(IF took.commit > 0 THEN AppendAutomaticSegment(after, took.commit) ELSE after,
              key, took.accepted)

Retried(segment, key) == Settled(segment, key, ProcessKey(segment, key))

TrackedAfter(e, key, shown, first) ==
  IF /\ first.commit = 0
     /\ ~first.accepted \/ first.rime.keys = 0
     /\ e.rime.keys > 0 /\ shown # <<>>
  THEN Retried(AppendAutomaticSegment(Cleared(e), Candidates(e)[shown[1] + 1].keys), key)
  ELSE Settled(e, key, first)

ProcessTrackedKey(e, key) == TrackedAfter(e, key, Shown(e), ProcessKey(e, key))

Paged(answer) == IF answer.consumed THEN [answer EXCEPT !.engine = ResetPaging(@)] ELSE answer

RimeReset(e) == Cleared(ClearTrackedInput(ResetPaging(e)))

RimeLetter(e) ==
  IF AtLimit(e) THEN Answer(ResetPaging(e), TRUE, 0) ELSE Paged(ProcessTrackedKey(e, "letter"))

RimeSeparator(e) ==
  IF e.raw # <<>> /\ Last(e.raw) = "separator" THEN Declined(e)
  ELSE Paged(ProcessTrackedKey(e, "separator"))

(* RebuildComposition: the keys again from the start, up to one that is refused. *)
Retyped(done, key) == IF done.consumed THEN ProcessTrackedKey(done.engine, key) ELSE done

RebuildComposition(e, keys) ==
  LET rebuilt[n \in 0 .. Len(keys)] ==
        IF n = 0 THEN Answer(Cleared(ClearTrackedInput(e)), TRUE, 0)
        ELSE Retyped(rebuilt[n - 1], keys[n])
  IN  rebuilt[Len(keys)].engine

(* Backspace of librime, where it does not give the key back. *)
RimeTakesBack(e) ==
  IF e.rime.chosen > 0 /\ e.schema.reopens THEN [e EXCEPT !.rime.chosen = 0]
  ELSE [e EXCEPT !.rime = [keys |-> @.keys - 1, chosen |-> Smaller(@.chosen, @.keys - 1)]]

(* Wrong on purpose: a separator counts as a letter when it is taken back. *)
LastKeyAsLetter(e) == [e EXCEPT !.letters = @ - 1, !.raw = Front(@)]

WithoutLastKey(e) ==
  [e EXCEPT !.letters = IF Last(e.raw) = "letter" THEN @ - 1 ELSE @, !.raw = Front(@)]

RimeBackspace(e) ==
  CASE e.raw = <<>> -> Declined(e)
    [] e.raw # <<>> /\ e.prefix > 0 ->
         Answer(ResetPaging(RebuildComposition(e, Front(e.raw))), TRUE, 0)
    [] e.raw # <<>> /\ e.prefix = 0 /\ e.rime.keys > 0 ->
         Answer(ResetPaging(WithoutLastKey(RimeTakesBack(e))), TRUE, 0)
    [] OTHER -> Declined(e)

RimePageUp(e) ==
  IF AtLimit(e) \/ e.stack = <<>> THEN Declined(e)
  ELSE Answer([e EXCEPT !.offset = Last(e.stack), !.stack = Front(@)], TRUE, 0)

(* Wrong on purpose: the page that is left is not remembered. *)
PageDownForgetful(e) ==
  IF AtLimit(e) \/ NextOffset(e, e.offset) < 0 THEN Declined(e)
  ELSE Answer([e EXCEPT !.offset = NextOffset(e, @)], TRUE, 0)

RimePageDown(e) ==
  IF AtLimit(e) \/ NextOffset(e, e.offset) < 0 THEN Declined(e)
  ELSE Answer([e EXCEPT !.offset = NextOffset(e, @), !.stack = Append(@, e.offset)], TRUE, 0)

SetPageSize(e, n) == ResetPaging([e EXCEPT !.pageSize = Smaller(n, MaxPageSize)])
SetWindow(e, n) == ResetPaging([e EXCEPT !.window = Smaller(n, MaxWindow)])
SetTraditional(e) == ResetPaging(e)
SetChineseOnly(e, on) ==
  IF e.chineseOnly = on THEN e ELSE ResetPaging([e EXCEPT !.chineseOnly = on])

(* Select.  The choice is a part while librime has candidates for the keys *)
(* that remain.  Then the composition is complete and it is committed, by  *)
(* librime itself or by commit_composition.  Where that fails the adapter  *)
(* reports the choice as a part and keeps what it remembers.               *)
Completed(e, picked) ==
  CASE e.schema.ends = "text" -> Answer(RimeReset(e), TRUE, e.prefix + e.rime.keys)
    [] e.schema.ends = "refused" -> Answer(picked, TRUE, 0)
    [] OTHER -> Answer(Cleared(picked), TRUE, 0)

Chosen(e, place) ==
  LET chosen == e.rime.chosen + Candidates(e)[place + 1].keys
  IN  ResetPaging([e EXCEPT !.rime.chosen = Smaller(chosen, e.rime.keys)])

Picked(e, picked) ==
  IF Candidates(picked) # <<>> THEN Answer(picked, TRUE, 0) ELSE Completed(e, picked)

RimeSelect(e, n) ==
  LET place == CandidateIndexForVisible(e, n)
  IN  IF AtLimit(e) \/ place < 0 THEN Declined(e) ELSE Picked(e, Chosen(e, place))

------------------------------------------------------------------------------
(***************************************************************************)
(* The stub engine keeps the keys only.  It has one page with the entries  *)
(* of its seed table, or else the keys as they were typed.                 *)
(***************************************************************************)
CONSTANT Seed   \* the number of letters the seed table has entries for, and how many

ASSUME SeedAssumption == DOMAIN Seed \subseteq Nat \ {0} /\ Seed \in [DOMAIN Seed -> Nat]

StubPlaces(e) ==
  CASE AtLimit(e) -> 0
    [] ~AtLimit(e) /\ e.letters \in DOMAIN Seed -> Seed[e.letters]
    [] OTHER -> IF e.raw # <<>> /\ ~e.chineseOnly THEN 1 ELSE 0

StubSnapshot(e) ==
  [EmptySnapshot EXCEPT
     !.preedit = (e.raw # <<>>),
     !.candidates = [i \in 1 .. StubPlaces(e) |->
                       [after |-> 0, of |-> e.letters, place |-> i - 1]]]

StubKey(e, key) ==
  CASE key = "letter" /\ AtLimit(e) -> Answer(e, TRUE, 0)
    [] key = "separator" /\ (e.raw = <<>> \/ Last(e.raw) = "separator") -> Declined(e)
    [] OTHER -> Answer([e EXCEPT !.raw = Append(@, key), !.letters = LettersIn(Append(e.raw, key))],
                       TRUE, 0)

StubBackspace(e) == IF e.raw = <<>> THEN Declined(e) ELSE Answer(WithoutLastKey(e), TRUE, 0)

StubSelect(e, n) ==
  IF n >= StubPlaces(e) THEN Declined(e) ELSE Answer(ClearTrackedInput(e), TRUE, Len(e.raw))

------------------------------------------------------------------------------
(* SessionHost::Handle for a session it knows.  Values out of range are    *)
(* refused before they reach the engine.                                   *)
SnapshotOf(e) == IF e.kind = "rime" THEN RimeSnapshot(e) ELSE StubSnapshot(e)
HasInput(e) == SnapshotOf(e).preedit

(* The settings an engine is told.                                        *)
Options == {"traditional", "pageSize", "window", "chineseOnly"}

InRange(command, value) ==
  CASE command = "pageSize" -> value \in 1 .. MaxPageSize
    [] command = "window" -> value \in 1 .. MaxWindow
    [] OTHER -> TRUE

Set(e) == Answer(e, TRUE, 0)
RimeHandle(e, command, value) ==
  CASE command = "reset" -> Set(RimeReset(e))
    [] command = "letter" -> RimeLetter(e)
    [] command = "separator" -> RimeSeparator(e)
    [] command = "backspace" -> RimeBackspace(e)
    [] command = "pageUp" -> RimePageUp(e)
    [] command = "pageDown" -> RimePageDown(e)
    [] command = "select" -> RimeSelect(e, value)
    [] command = "pageSize" -> Set(SetPageSize(e, value))
    [] command = "window" -> Set(SetWindow(e, value))
    [] command = "chineseOnly" -> Set(SetChineseOnly(e, value))
    [] command = "traditional" -> Set(SetTraditional(e))

StubHandle(e, command, value) ==
  CASE command = "reset" -> Set(ClearTrackedInput(e))
    [] command \in {"letter", "separator"} -> StubKey(e, command)
    [] command = "backspace" -> StubBackspace(e)
    [] command \in {"pageUp", "pageDown"} -> Declined(e)
    [] command = "select" -> StubSelect(e, value)
    [] command \in {"pageSize", "window", "traditional"} -> Set(e)
    [] command = "chineseOnly" -> Set([e EXCEPT !.chineseOnly = value])

Handle(e, command, value) ==
  IF ~InRange(command, value) THEN Declined(e)
  ELSE IF e.kind = "rime" THEN RimeHandle(e, command, value)
  ELSE StubHandle(e, command, value)

(* The candidate a selection takes, as a snapshot shows it. *)
Selected(e, n) ==
  IF e.kind = "stub" THEN StubSnapshot(e).candidates[n + 1]
  ELSE CandidateAt(e, CandidateIndexForVisible(e, n))

(* PageDown leaves the current page on a stack: the stack and the page in  *)
(* use are the pages of the candidate list from its first, without a gap.  *)
PagesFollowIn(e) ==
  LET pages == Append(e.stack, e.offset)
  IN  /\ pages[1] = 0
      /\ \A i \in 1 .. Len(e.stack) : pages[i + 1] = NextOffset(e, pages[i])
==============================================================================
