----------------------------- MODULE MCObjects ------------------------------
(* Instance of Objects for TLC.  Tasks have one priority (see Mailboxes).   *)
EXTENDS Objects

CONSTANTS a, b, c, d, f, g, x, y

Equal == [t \in Task |-> 1]

Calls == {
  [mask |-> {f}, test |-> "ANY", clear |-> TRUE],
  [mask |-> {f, g}, test |-> "ALL", clear |-> TRUE],
  [mask |-> {f, g}, test |-> "ANY", clear |-> FALSE]}

\* Three tasks at a pool of two items.
Mail == {a, b, c} \X {"mailbox"}

\* Two tasks, and event flags.
Events == {a, b} \X {"flags", "other"}

\* More tasks than the synchronisation object waits for, so that one may come
\* again before the others have left; two leave timers behind.
Barrier == ({a, b} \X {"timedSync"}) \cup ({c} \X {"sync"})

\* A task that goes from one object to the next, and one whose timer may strike
\* when it has gone on.
Mixed == ({c} \X {"mailbox", "flags", "sync"}) \cup ({d} \X {"sync"})
LeftBehind == ({c} \X {"timedSync", "mailbox"}) \cup ({d} \X {"sync"})

Each == {Mail, Events, Barrier, Mixed, LeftBehind}
Symmetric == Permutations({a, b}) \cup Permutations({x, y})
=============================================================================
