------------------------------ MODULE MCIngest ------------------------------
(***************************************************************************)
(* A log whose entries all have one serial: a precertificate and its       *)
(* certificate, or one certificate logged again.                           *)
(***************************************************************************)
EXTENDS Ingest, TLC

CONSTANTS c1

MCCertOf == [e \in (Logs \X (0..MaxTree)) \ Droppable |-> c1]
None == {}

Symmetry == Permutations(Workers)
=============================================================================
