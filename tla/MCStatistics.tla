--------------------------- MODULE MCStatistics ---------------------------
(* Two issuers, one of them with certificates in two hours. *)
EXTENDS Statistics

CONSTANTS c1, c2, c3, d1, d2, i1, i2

MCExpDateOf == [c \in Certs |-> IF c = c2 THEN d2 ELSE d1]
MCIssuerOf  == [c \in Certs |-> IF c = c3 THEN i2 ELSE i1]
=============================================================================
