---------------------------- MODULE VersionedStore ----------------------------
(***************************************************************************)
(* What the state layer promises to the engine, said without versions,     *)
(* indexes or disk writes: one map from keys to values that the block in   *)
(* progress reads and writes, a durable copy of it that changes all at     *)
(* once when a block commits, and a restart that goes back to that copy.   *)
(* Storage is shown to implement this specification.                       *)
(***************************************************************************)
CONSTANTS Keys, Values, None

VARIABLES
    current,     \* what StateManager reads: committed state plus the block's writes
    committed    \* what a restarted process would read

svars == <<current, committed>>

Content == [Keys -> Values \cup {None}]

Init ==
    /\ current = [k \in Keys |-> None]
    /\ committed = [k \in Keys |-> None]

Write(k, x) ==
    /\ current' = [current EXCEPT ![k] = x]
    /\ UNCHANGED committed

Erase(k) ==
    /\ current' = [current EXCEPT ![k] = None]
    /\ UNCHANGED committed

Commit ==
    /\ committed' = current
    /\ UNCHANGED current

Restart ==
    /\ current' = committed
    /\ UNCHANGED committed

Next ==
    \/ \E k \in Keys, x \in Values : Write(k, x)
    \/ \E k \in Keys : Erase(k)
    \/ Commit
    \/ Restart

Spec == Init /\ [][Next]_svars
===============================================================================
