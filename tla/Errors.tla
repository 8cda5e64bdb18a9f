------------------------------- MODULE Errors -------------------------------
(***************************************************************************)
(* The error reporting of shared/src/error.c as tld uses it.  A serious    *)
(* error is counted and the program goes on, until the count reaches       *)
(* maximum_errors: error_msg then reports a fatal error and exits.         *)
(*                                                                         *)
(* The count is the only thing that a serious error leaves behind.  The    *)
(* gates at the end of each phase of tld ask error_max_reported_severity() *)
(* of libexds, whose max_reported is raised by error_report() alone;       *)
(* nothing in tld calls error_report(), so a gate never fires, and the     *)
(* modules that extend this one have no action for it.                     *)
(***************************************************************************)
EXTENDS Integers

CONSTANT MaxErrors   \* maximum_errors; zero means no limit

ASSUME MaxErrorsAssumption == MaxErrors \in Nat

VARIABLES
  pc,       \* where the component's code is; "abort" once the program exited
  errors    \* number_errors

\* n serious errors in a row (each one is the end if it is one too many),
\* after which the code goes on at next.
SeriousErrors(n, next) ==
  /\ errors' = errors + n
  /\ pc' = IF n > 0 /\ MaxErrors > 0 /\ errors' >= MaxErrors THEN "abort" ELSE next

SeriousThen(next) == SeriousErrors(1, next)
=============================================================================
