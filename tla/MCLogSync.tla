----------------------------- MODULE MCLogSync -----------------------------
(***************************************************************************)
(* Small instances of LogSync.  The undecodable entry and the entry that   *)
(* the workers drop are chosen so that both have ordinary entries beside   *)
(* them.                                                                   *)
(***************************************************************************)
EXTENDS LogSync, TLC

CONSTANTS l1

MCErroneous == {<<l1, 1>>}
MCFirstErroneous == {<<l1, 0>>}
MCDroppable == {<<l1, 0>>}
None == {}

Symmetry == Permutations(Workers)

(* For liveness: one process, not killed, where every log but l1 gets no more
   than one entry. *)
LiveInit == Init /\ \A l \in Logs \ {l1} : tree[l] = 0

LiveNext ==
  \/ \E l \in Logs : (l = l1 \/ tree[l] = 0) /\ GrowTree(l)
  \/ \E l \in Logs : Downloader(l)
  \/ \E w \in Workers : Worker(w)
  \/ Main \/ Signal \/ Terminated

LiveSpec == LiveInit /\ [][LiveNext]_vars /\ Scheduling
=============================================================================
