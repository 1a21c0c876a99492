----------------------------- MODULE StageContract -----------------------------
(* What history.StageFunc promises its neighbours in a history pipeline: every *)
(* event it takes is forwarded at most once and only after everything the      *)
(* stage makes of it is in the database, because the stage after the last one  *)
(* deletes the event from Redis.                                               *)
CONSTANTS
  Msg,     \* history events read from a Redis stream
  Entity,  \* rows the stage makes of them
  Owner    \* the event each row is made of

VARIABLES
  taken,     \* events received from the in channel
  written,   \* rows upserted into the database
  forwarded  \* events sent to the out channel

vars == <<taken, written, forwarded>>

Entities(m) == {e \in Entity : Owner[e] = m}

Init == taken = {} /\ written = {} /\ forwarded = {}

Take(m) ==
  /\ m \notin taken
  /\ taken' = taken \cup {m}
  /\ UNCHANGED <<written, forwarded>>

Write(E) ==
  /\ \A e \in E : Owner[e] \in taken
  /\ written' = written \cup E
  /\ UNCHANGED <<taken, forwarded>>

Forward(m) ==
  /\ m \in taken \ forwarded
  /\ Entities(m) \subseteq written
  /\ forwarded' = forwarded \cup {m}
  /\ UNCHANGED <<taken, written>>

Next ==
  \/ \E m \in Msg : Take(m) \/ Forward(m)
  \/ \E E \in SUBSET Entity : Write(E)

Spec == Init /\ [][Next]_vars
===============================================================================
