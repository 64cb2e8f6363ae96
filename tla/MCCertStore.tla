---------------------------- MODULE MCCertStore ----------------------------
(***************************************************************************)
(* Small instances of CertStore: certificates of one issuer that share a   *)
(* distribution point, in one expiration hour or in two.                   *)
(***************************************************************************)
EXTENDS CertStore, TLC

CONSTANTS i1, p1, p2, c1, c2

(* Hour = 2, Day = 4: the first hour of the second day, or both its hours. *)
MCSameHour == [c \in Certs |-> IF c = c1 THEN 4 ELSE 5]
MCTwoHours == [c \in Certs |-> IF c = c1 THEN 5 ELSE 7]
MCIssuerOf  == [c \in Certs |-> i1]
MCNoCrl     == [c \in Certs |-> <<>>]
MCOneCrl    == [c \in Certs |-> <<p1>>]
MCTwoCrls   == [c \in Certs |-> IF c = c1 THEN <<p1, p2>> ELSE <<p2, p1>>]

(* Callers behind UTC, at UTC and ahead of it, by an hour. *)
MCZones == {-2, 0, 2}

Symmetry == Permutations(Threads)
=============================================================================
