------------------------------- MODULE ExpDate ------------------------------
(***************************************************************************)
(* The ExpDate of storage/types.go: the time a certificate's validity ends *)
(* becomes an hour, the hour a name (of a directory and of a Redis key),   *)
(* and the name an ExpDate again, with another idea of its last moment.    *)
(* Times are counted in the units of NotAfter from a midnight.             *)
(***************************************************************************)
EXTENDS Integers

CONSTANTS
  Hour,  \* units of an hour
  Day    \* units of a day

ASSUME ExpDateAssumption ==
  /\ Hour \in Nat \ {0} /\ Day \in Nat \ {0}
  /\ Day % Hour = 0

Truncate(t, unit) == t - (t % unit)

(* A slip of NewExpDate: the last moment as NewExpDateFromTime has it. *)
MutLastGoodBefore(name) ==
  [date |-> name.at, lastGood |-> name.at - 1, hourResolution |-> name.withHour]

NewExpDateFromTime(t) ==
  [date |-> Truncate(t, Hour), lastGood |-> Truncate(t, Hour) - 1, hourResolution |-> TRUE]

(* Format: "2006-01-02-15" or "2006-01-02". *)
ID(e) ==
  IF e.hourResolution THEN [at |-> Truncate(e.date, Hour), withHour |-> TRUE]
                      ELSE [at |-> Truncate(e.date, Day), withHour |-> FALSE]

(* Parse. *)
NewExpDate(name) ==
  [date |-> name.at,
   lastGood |-> name.at + (IF name.withHour THEN Hour ELSE Day) - 1,
   hourResolution |-> name.withHour]

IsExpiredAt(e, t) == e.lastGood < t
=============================================================================
