------------------------------ MODULE SledLog -------------------------------
(***************************************************************************)
(* What a node's Sled mailbox tree promises to the gateway that drains it: *)
(* per user, a log of numbered records.  A record enters with a number     *)
(* above every number the log then holds, so no record is ever replaced    *)
(* and messages are read back in the order they were stored; a record      *)
(* leaves only when the gateway removes it after delivery.  MailboxNode    *)
(* implements this specification.                                          *)
(***************************************************************************)
EXTENDS Naturals

CONSTANTS Users, Msgs

VARIABLE log   \* log[u]: the set of records [seq, msg] kept for user u

Init == log = [u \in Users |-> {}]

Append(u, r) ==
  /\ r.seq \in Nat \ {0}
  /\ r.msg \in Msgs
  /\ \A old \in log[u] : old.seq < r.seq
  /\ log' = [log EXCEPT ![u] = @ \cup {r}]

Remove(u, r) == log' = [log EXCEPT ![u] = @ \ {r}]

\* The appended record is taken from the new log: its number is not bounded.
Next == \E u \in Users :
           \/ \E r \in log'[u] : Append(u, r)
           \/ \E r \in log[u] : Remove(u, r)

Spec == Init /\ [][Next]_log
=============================================================================
