------------------------------ MODULE Counting ------------------------------
(***************************************************************************)
(* What a counting semaphore promises its callers (the descriptions of      *)
(* KRN_testSemaphore and KRN_setSemaphore in src/kernel/krn.xml and         *)
(* src/kernel/sem.c): a request is granted when the value covers it, in the *)
(* order of priorities and not of arrival, and refused only when it does    *)
(* not cover it and the caller's timeout has run out.                       *)
(***************************************************************************)
EXTENDS Integers

CONSTANTS Task, Priority, Amount, Modulus, Initial

VARIABLES
  value,    \* what there is to give
  asking,   \* the tasks with a request
  want,     \* how much they ask for
  limit,    \* their timeouts
  expired   \* those whose timeout has run out

vars == <<value, asking, want, limit, expired>>

Init ==
  /\ value = Initial
  /\ asking = {}
  /\ want \in [Task -> Amount]
  /\ limit \in [Task -> {"zero", "ticks", "forever"}]
  /\ expired = {}

Ask(t, n, timeout) ==
  /\ t \notin asking
  /\ asking' = asking \cup {t}
  /\ want' = [want EXCEPT ![t] = n]
  /\ limit' = [limit EXCEPT ![t] = timeout]
  /\ expired' = expired \ {t}
  /\ UNCHANGED value

Grant(t) ==
  /\ t \in asking
  /\ want[t] <= value
  /\ \A u \in asking : Priority[u] > Priority[t] => want[u] > value
  /\ value' = value - want[t]
  /\ asking' = asking \ {t}
  /\ expired' = expired \ {t}
  /\ UNCHANGED <<want, limit>>

Refuse(t) ==
  /\ t \in asking
  /\ want[t] > value
  /\ limit[t] = "zero" \/ t \in expired
  /\ asking' = asking \ {t}
  /\ expired' = expired \ {t}
  /\ UNCHANGED <<value, want, limit>>

Expire(t) ==
  /\ t \in asking
  /\ limit[t] = "ticks"
  /\ expired' = expired \cup {t}
  /\ UNCHANGED <<value, asking, want, limit>>

Give(n) ==
  /\ value' = (value + n) % Modulus
  /\ UNCHANGED <<asking, want, limit, expired>>

\* An attempt that does not wait.
Try(n) ==
  /\ n <= value
  /\ value' = value - n
  /\ UNCHANGED <<asking, want, limit, expired>>

Next ==
  \/ \E t \in Task :
       \/ \E n \in Amount, timeout \in {"zero", "ticks", "forever"} : Ask(t, n, timeout)
       \/ Grant(t) \/ Refuse(t) \/ Expire(t)
  \/ \E n \in Amount : Give(n) \/ Try(n)

Spec == Init /\ [][Next]_vars
=============================================================================
