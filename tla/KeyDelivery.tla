---------------------------- MODULE KeyDelivery ----------------------------
(***************************************************************************)
(* What the text service promises about the keys it makes wait: a key may  *)
(* be lost, and a whole queue may be dropped, but the keys that take       *)
(* effect in a field are keys typed into that field, each of them once,    *)
(* in the order in which they were typed.                                  *)
(***************************************************************************)
EXTENDS Naturals, Sequences

CONSTANTS Context,   \* the text fields of the host
          MaxKeys    \* bound: keys the user types

VARIABLES
  pending,   \* the keys that wait and may still take effect: their numbers and fields
  text,      \* for each field the numbers of the keys that took effect in it
  typed      \* the number of the last key typed

vars == <<pending, text, typed>>

(* The numbers of the first n keys that wait, and the keys behind the first m. *)
FirstIds(n) == [i \in 1 .. n |-> pending[i].id]
Behind(m) == SubSeq(pending, m + 1, Len(pending))

Init ==
  /\ pending = <<>>
  /\ text = [c \in Context |-> <<>>]
  /\ typed = 0

(* Of the keys in front, n were typed into c; the others of the first m are lost. *)
Settles(c, n, m) ==
  /\ n <= m /\ m <= Len(pending)
  /\ \A i \in 1 .. n : pending[i].field = c

Typed == typed < MaxKeys /\ typed' = typed + 1

(* The first n keys take effect and the first m are gone; nothing is typed. *)
Wait(c, n, m) ==
  /\ Settles(c, n, m)
  /\ pending' = Behind(m)
  /\ text' = [text EXCEPT ![c] = @ \o FirstIds(n)]
  /\ typed' = typed

(* A key is typed into c and waits behind the keys that stay. *)
Queue(c, n, m) ==
  /\ Typed
  /\ Settles(c, n, m)
  /\ pending' = Append(Behind(m), [id |-> typed', field |-> c])
  /\ text' = [text EXCEPT ![c] = @ \o FirstIds(n)]

(* A key is typed into c and takes effect: no key stays that it overtakes. *)
TakeEffect(c, n) ==
  /\ Typed
  /\ Settles(c, n, Len(pending))
  /\ pending' = <<>>
  /\ text' = [text EXCEPT ![c] = @ \o Append(FirstIds(n), typed')]

(* A key is typed and lost. *)
Lose(c, n, m) ==
  /\ Typed
  /\ Settles(c, n, m)
  /\ pending' = Behind(m)
  /\ text' = [text EXCEPT ![c] = @ \o FirstIds(n)]

Next ==
  \E c \in Context : \E n \in 0 .. Len(pending) :
    \/ TakeEffect(c, n)
    \/ \E m \in n .. Len(pending) : Wait(c, n, m) \/ Queue(c, n, m) \/ Lose(c, n, m)

Spec == Init /\ [][Next]_vars

(* What follows: no key takes effect twice, in one field or in two, and none overtakes another. *)
Increasing(s) == \A i, j \in DOMAIN s : i < j => s[i] < s[j]
InOrder ==
  /\ \A c \in Context : Increasing(text[c])
  /\ \A c, d \in Context : \A i \in DOMAIN text[c] : \A j \in DOMAIN text[d] :
       text[c][i] = text[d][j] => c = d
==============================================================================
