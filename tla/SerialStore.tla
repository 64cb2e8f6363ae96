---------------------------- MODULE SerialStore ----------------------------
(***************************************************************************)
(* What FilesystemDatabase.Store promises its callers, with none of its    *)
(* locks, caches, expirations and metadata: a certificate is put into the  *)
(* shared set of known ones by one writer, which then writes its file, and *)
(* everyone else relies on that writer.  A fault is allowed to leave a     *)
(* certificate known but not on disk only when it is on record, and a      *)
(* certificate leaves the known set only once its validity is over.        *)
(***************************************************************************)
CONSTANTS
  Writers,   \* who calls Store
  Items,     \* the certificates
  Nothing    \* what a writer with no file to write has in hand

VARIABLES
  known,     \* certificates that are answered "already known"
  stored,    \* certificates whose file is complete
  inHand,    \* inHand[w]: the certificate w was told to write, or Nothing
  spoiled,   \* certificates a call for which met a fault
  over       \* certificates whose validity has ended

vars == <<known, stored, inHand, spoiled, over>>

InHand == {inHand[w] : w \in Writers} \ {Nothing}

Init ==
  /\ known = {} /\ stored = {} /\ spoiled = {} /\ over = {}
  /\ inHand = [w \in Writers |-> Nothing]
-----------------------------------------------------------------------------
(* The writer learns, in the same step that makes it known, that c is new. *)
Insert(w, c) ==
  /\ inHand[w] = Nothing /\ c \notin known
  /\ known' = known \cup {c}
  /\ inHand' = [inHand EXCEPT ![w] = c]
  /\ UNCHANGED <<stored, spoiled, over>>

Finish(w) ==
  /\ inHand[w] # Nothing
  /\ stored' = stored \cup {inHand[w]}
  /\ inHand' = [inHand EXCEPT ![w] = Nothing]
  /\ UNCHANGED <<known, spoiled, over>>

(* A call for c by a caller that has nothing to write fails, or is told that c
   is known when it is the one that made it so. *)
Refuse(c) ==
  /\ known' \in {known, known \cup {c}}
  /\ spoiled' = spoiled \cup {c}
  /\ UNCHANGED <<stored, inHand, over>>

(* The writer gives up; an earlier copy of the file may be gone. *)
Fail(w) ==
  /\ inHand[w] # Nothing
  /\ stored' \in {stored, stored \ {inHand[w]}}
  /\ spoiled' = spoiled \cup {inHand[w]}
  /\ inHand' = [inHand EXCEPT ![w] = Nothing]
  /\ UNCHANGED <<known, over>>

(* Every caller is gone. *)
Crash ==
  /\ stored' \subseteq stored /\ stored \ stored' \subseteq InHand
  /\ spoiled' \subseteq Items /\ spoiled \cup InHand \subseteq spoiled'
  /\ inHand' = [w \in Writers |-> Nothing]
  /\ UNCHANGED <<known, over>>

Forget ==
  /\ over \subseteq over' /\ over' \subseteq Items
  /\ known' \subseteq known /\ known \ known' \subseteq over'
  /\ UNCHANGED <<stored, inHand, spoiled>>

Next ==
  \/ \E w \in Writers : \/ \E c \in Items : Insert(w, c)
                        \/ Finish(w) \/ Fail(w)
  \/ \E c \in Items : Refuse(c)
  \/ Crash \/ Forget

Spec == Init /\ [][Next]_vars
-----------------------------------------------------------------------------
(* A known certificate is stored, in somebody's hands, or spoiled. *)
KnownKept == known \subseteq stored \cup InHand \cup spoiled

(* Two writers never have one certificate in hand while it is valid. *)
OneWriterEach ==
  \A v, w \in Writers :
    v # w /\ inHand[v] = inHand[w] /\ inHand[v] # Nothing => inHand[v] \in over
=============================================================================
