---------------------------- MODULE AbstractLock ----------------------------
(***************************************************************************)
(* What a lock promises its users: it has at most one owner, a free lock   *)
(* is taken by one owner in one step, and only its owner gives it back.    *)
(***************************************************************************)
CONSTANTS Owner, Lock

VARIABLE owners   \* owners[l]: the set of owners of lock l

Init == owners = [l \in Lock |-> {}]

Take(c, l) ==
  /\ owners[l] = {}
  /\ owners' = [owners EXCEPT ![l] = {c}]

Give(c, l) ==
  /\ owners[l] = {c}
  /\ owners' = [owners EXCEPT ![l] = {}]

Next == \E c \in Owner, l \in Lock : Take(c, l) \/ Give(c, l)

Spec == Init /\ [][Next]_owners
=============================================================================
