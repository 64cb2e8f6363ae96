----------------------------- MODULE AtLeastOnce -----------------------------
(***************************************************************************)
(* What ct-fetch promises about the entries of its logs, whatever fails:   *)
(* entries of a log are taken up in order, none is passed over, one that   *)
(* was taken up leaves only by ending (stored or dropped, refused with an  *)
(* error, or lost when the process dies), and a position that a later      *)
(* start may resume from never lies beyond an entry not yet taken up.  An  *)
(* entry may be taken up again.  LogSync implements this specification.    *)
(***************************************************************************)
EXTENDS Integers

CONSTANTS
  Logs,
  First,        \* the entry of every log that ct-fetch begins with
  Undecodable,  \* entries that are passed over on purpose
  NoPosition    \* no position can be read

VARIABLES
  pending,  \* entries in the process
  ended,    \* entries that have met an end, once at least
  resume    \* resume[l]: the positions a later start may find for log l

vars == <<pending, ended, resume>>

TakenUp == Undecodable \cup ended \cup pending
TakenUpTo(l, p) == \A i \in First..(p - 1) : <<l, i>> \in TakenUp

Init ==
  /\ pending = {} /\ ended = {}
  /\ resume = [l \in Logs |-> {NoPosition}]

(* An entry enters the process after those before it. *)
Take ==
  \E e \in pending' :
    /\ TakenUpTo(e[1], e[2])
    /\ pending' = pending \cup {e}
    /\ UNCHANGED <<ended, resume>>

(* An entry ends; another copy of it may still be in the process. *)
End ==
  \E e \in pending :
    /\ ended' = ended \cup {e}
    /\ pending' \in {pending, pending \ {e}}
    /\ UNCHANGED resume

(* The process ends. *)
Die ==
  /\ ended' = ended \cup pending
  /\ pending' = {}
  /\ UNCHANGED resume

(* Positions are saved, or become unreadable. *)
Save ==
  /\ resume' \in [Logs -> SUBSET Int]
  /\ \A l \in Logs : \A p \in resume'[l] \ (resume[l] \cup {NoPosition}) : TakenUpTo(l, p)
  /\ UNCHANGED <<pending, ended>>

Next == Take \/ End \/ Die \/ Save

Spec == Init /\ [][Next]_vars
=============================================================================
