------------------------------ MODULE ConnPool ------------------------------
(***************************************************************************)
(* What the idle-connection pool of transport/transport.go promises: a     *)
(* connection is new, lent to one caller, in the pool, or gone.  Only the  *)
(* pool lends it again, and a gone connection never comes back.            *)
(***************************************************************************)
EXTENDS FiniteSets, Integers

CONSTANTS Callers, Conns, Keys, NoKey,
          Limit  \* connections the pool keeps for one key

VARIABLES at,   \* at[c]: "new", "pool", "gone", or the caller that has c
          key   \* key[c]: what c was dialed for

vars == <<at, key>>

InPool(k) == {c \in Conns : at[c] = "pool" /\ key[c] = k}

Init == /\ at = [c \in Conns |-> "new"]
        /\ key = [c \in Conns |-> NoKey]

Dial(u, c, k) ==
  /\ at[c] = "new"
  /\ at' = [at EXCEPT ![c] = u]
  /\ key' = [key EXCEPT ![c] = k]

Take(u, c) ==
  /\ at[c] = "pool"
  /\ at' = [at EXCEPT ![c] = u]
  /\ UNCHANGED key

Give(c) ==
  /\ at[c] \in Callers
  /\ Cardinality(InPool(key[c])) < Limit
  /\ at' = [at EXCEPT ![c] = "pool"]
  /\ UNCHANGED key

\* A caller, its readLoop or the peer ends the connection.
Lose(c) ==
  /\ at[c] \notin {"new", "gone"}
  /\ at' = [at EXCEPT ![c] = "gone"]
  /\ UNCHANGED key

\* CloseIdleConnections ends what is in the pool and nothing else.
CloseIdle ==
  /\ at' = [c \in Conns |-> IF at[c] = "pool" THEN "gone" ELSE at[c]]
  /\ UNCHANGED key

Next ==
  \/ \E u \in Callers, c \in Conns, k \in Keys : Dial(u, c, k)
  \/ \E u \in Callers, c \in Conns : Take(u, c)
  \/ \E c \in Conns : Give(c) \/ Lose(c)
  \/ CloseIdle

Spec == Init /\ [][Next]_vars
=============================================================================
