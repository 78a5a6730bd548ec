---------------------------- MODULE CacheRegister ----------------------------
(***************************************************************************)
(* What the billing cache promises its callers: each cell is one atomic    *)
(* register that may be forgotten. A lookup looks at its cell once; it     *)
(* either answers with what it saw there, or with a miss of some kind. No  *)
(* index, temporary file, half-done write or crash is visible in a value.  *)
(***************************************************************************)
CONSTANTS
  Proc,        \* the processes sharing the cache
  Cell,        \* the cells
  Value,       \* the values a cell can hold
  Nothing      \* no value

VARIABLES
  held,        \* what each cell holds, or Nothing
  seen,        \* what each process's pending lookup saw, or Nothing
  returned     \* what the last lookup to finish returned, or Nothing

vars == <<held, seen, returned>>

Init ==
  /\ held \in [Cell -> Value \union {Nothing}]
  /\ seen = [p \in Proc |-> Nothing]
  /\ returned = Nothing

Put(c, v) ==
  /\ held' = [held EXCEPT ![c] = v]
  /\ UNCHANGED <<seen, returned>>

Forget(c) ==
  /\ held' = [held EXCEPT ![c] = Nothing]
  /\ UNCHANGED <<seen, returned>>

\* A lookup that may still hit has seen the cell's present value.
Look(p, c) ==
  /\ seen[p] = Nothing
  /\ held[c] /= Nothing
  /\ seen' = [seen EXCEPT ![p] = held[c]]
  /\ UNCHANGED <<held, returned>>

Hit(p) ==
  /\ seen[p] /= Nothing
  /\ returned' = seen[p]
  /\ seen' = [seen EXCEPT ![p] = Nothing]
  /\ UNCHANGED held

Miss(p) ==
  /\ returned' = Nothing
  /\ seen' = [seen EXCEPT ![p] = Nothing]
  /\ UNCHANGED held

\* The process of a pending lookup dies.
Abandon(p) ==
  /\ seen' = [seen EXCEPT ![p] = Nothing]
  /\ UNCHANGED <<held, returned>>

Next ==
  \/ \E c \in Cell : Forget(c) \/ \E v \in Value : Put(c, v)
  \/ \E p \in Proc : Hit(p) \/ Miss(p) \/ Abandon(p) \/ \E c \in Cell : Look(p, c)

Spec == Init /\ [][Next]_vars
=============================================================================
