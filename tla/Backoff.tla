------------------------------ MODULE Backoff -------------------------------
(***************************************************************************)
(* The delay before a retry (backoff.rs) and its use when an attempt has    *)
(* failed (steps.rs): arithmetic on words of W bits, 64 in the program, for *)
(* one node whose attempts keep failing until its budget, or its run's      *)
(* deadline, is used up.  Here an attempt number may exceed the word's bits.*)
(***************************************************************************)
EXTENDS Naturals, FiniteSetsExt

CONSTANTS W, HostAttempts, Deadlines

Top  == 2^W - 1
Word == 0..Top
Least(a, b) == IF a <= b THEN a ELSE b

VARIABLES policy, deadline, attempt, now, due

vars == <<policy, deadline, attempt, now, due>>

(* RetryPolicy::validate *)
Valid(p) == p.attempts \in 1..HostAttempts /\ p.initial <= p.maximum

(* The low half of a version 7 UUID: its two highest bits are the variant. *)
Entropies == 2^(W-1)..(2^(W-1) + 2^(W-2) - 1)

Init ==
    /\ policy \in [attempts : 1..HostAttempts, initial : Word, maximum : Word, jitter : BOOLEAN]
    /\ Valid(policy)
    /\ deadline \in Deadlines /\ now \in Deadlines /\ now < deadline
    /\ attempt = 1 /\ due = {}

(* 1.checked_shl(by), or the largest word when the shift exceeds the width. *)
Shifted(by) == IF by >= W THEN Top ELSE 2^by

(* Mutant: the product wraps. *)
Times_Wraps(a, b) == (a * b) % 2^W
Times(a, b) == Least(a * b, Top)

Plus(a, b) == Least(a + b, Top)

Bound(p, completed) ==
    Least(Times(p.initial, Shifted(completed - 1)), p.maximum)

Fraction(bound, e) == (bound * e) \div Top

Delay(p, completed, e) ==
    LET bound == Bound(p, completed)
    IN  IF p.jitter THEN Fraction(bound, e) ELSE bound

(* record_failure: the attempt failed, is authorized again within its budget
   and is due before the deadline, or it is not tried again. *)
Fail ==
    /\ due = {} /\ now < deadline /\ attempt < policy.attempts
    /\ \E e \in Entropies :
          LET at == Plus(now, Least(Delay(policy, attempt, e), policy.maximum))
          IN  at < deadline /\ due' = {at}
    /\ UNCHANGED <<policy, deadline, attempt, now>>

(* The executor sleeps until the retry is due, and perhaps longer. *)
Again ==
    /\ \E at \in due : now' \in at..deadline
    /\ attempt' = attempt + 1 /\ due' = {}
    /\ UNCHANGED <<policy, deadline>>

Next == Fail \/ Again
Spec == Init /\ [][Next]_vars

-----------------------------------------------------------------------------
(* The delay without jitter is the exponential of the policy, computed       *)
(* without a word's limit: it saturates, it never wraps (backoff.rs:8-15).  *)
BoundIsExponential ==
    Bound(policy, attempt) = Least(policy.initial * 2^(attempt - 1), policy.maximum)

(* Jitter spreads the delay over the bound in proportion to the entropy,     *)
(* and a larger entropy never waits less (backoff.rs:16).                   *)
JitterIsProportional ==
    LET d(e) == Delay([policy EXCEPT !.jitter = TRUE], attempt, e)
        bound == Bound(policy, attempt)
    IN  /\ d(0) = 0 /\ d(Top) = bound
        /\ \A e \in Word \ {Top} : d(e) <= d(e + 1) /\ d(e + 1) <= d(e) + 1
=============================================================================
