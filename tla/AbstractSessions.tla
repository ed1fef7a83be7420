-------------------------- MODULE AbstractSessions --------------------------
(***************************************************************************)
(* What the session server promises its clients: every session id names a  *)
(* private store, created empty on first use.  Only the session's own      *)
(* calls write into it, a fork starts as a copy of another store, and a    *)
(* store may be lost as a whole at any time - never in part, and never     *)
(* replaced by another session's.                                          *)
(***************************************************************************)
CONSTANT Ids        \* session ids; a write is represented by its writer's id

VARIABLE store      \* store[k]: what session k holds, for the existing k

Existing == DOMAIN store

\* The stores of S, and an empty one for the ids of S that have none.
Only(S) == [k \in S |-> IF k \in Existing THEN store[k] ELSE {}]

Init == store = [k \in {} |-> {}]

\* A call of session k finds its store, or creates it, and may write into it;
\* to make room others may be lost at the same time.
Use(k) ==
    /\ k \in Existing' /\ Existing' \ {k} \subseteq Existing
    /\ \E W \in SUBSET {k} :
          store' = [Only(Existing') EXCEPT ![k] = @ \cup W]

\* Session t becomes a copy of session s.
Fork(s, t) ==
    /\ s \in Existing
    /\ t \in Existing' /\ Existing' \ {t} \subseteq Existing
    /\ store' = [Only(Existing') EXCEPT ![t] = store[s]]

\* Stores are lost.
Lose ==
    /\ Existing' \subseteq Existing
    /\ store' = Only(Existing')

Next ==
    \/ \E k \in Ids : Use(k)
    \/ \E s, t \in Ids : Fork(s, t)
    \/ Lose

Spec == Init /\ [][Next]_store
=============================================================================
