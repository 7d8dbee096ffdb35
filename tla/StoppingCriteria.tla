-------------------------- MODULE StoppingCriteria --------------------------
(***************************************************************************)
(* The StoppingCriteria class.  One record holds the fields of the object; *)
(* the clock is the field "expired", which the environment raises once and *)
(* for all when elapsed() has reached the time limit.                      *)
(***************************************************************************)
EXTENDS Integers

Inactive == -1   \* a limit whose has_..._limit_ flag is false

LimitsType ==
  [time : BOOLEAN, iter : Nat \cup {Inactive}, no_improve : Nat \cup {Inactive}]

\* The combinations of limits a run may be started with.
CONSTANT Limits
ASSUME LimitsAssumption == Limits \subseteq LimitsType

StoppingType ==
  [limits : LimitsType, iterations : Nat, last_improvement : Nat, expired : BOOLEAN]

\* start(), on an object whose setters were called for these limits.
Start(limits) ==
  [limits |-> limits, iterations |-> 0, last_improvement |-> 0, expired |-> FALSE]

Tick(s) == [s EXCEPT !.iterations = @ + 1]

RegisterImprovement(s) == [s EXCEPT !.last_improvement = s.iterations]

ShouldStop(s) ==
  \/ s.limits.time /\ s.expired
  \/ s.limits.iter # Inactive /\ s.iterations >= s.limits.iter
  \/ /\ s.limits.no_improve # Inactive
     /\ s.iterations - s.last_improvement >= s.limits.no_improve

\* The clock passes the time limit.
Expire(s) == [s EXCEPT !.expired = TRUE]

=============================================================================
