---------------------------- MODULE ConfigStore ----------------------------
(***************************************************************************)
(* What the storage of the configurations promises: a current value that   *)
(* is changed by one accepted operation at a time, and a persistent one    *)
(* that is always a former current value, replaced as a whole.  There are  *)
(* no files here, and a restart shows only as the loss of what was not     *)
(* persisted.                                                              *)
(***************************************************************************)
EXTENDS ServerConfigs

VARIABLES current, persisted

vars == <<current, persisted>>

Init == current = Empty /\ persisted = Empty

Change ==
    /\ \E s \in Servers :
         \/ \E flag \in BOOLEAN :
              \/ Create(current, current', s, flag)
              \/ Update(current, current', s, flag)
              \/ SetEnabled(current, current', s, flag)
         \/ Delete(current, current', s)
         \/ \E up \in Upstream : \/ AddUpstream(current, current', s, up)
                                 \/ DeleteUpstream(current, current', s, up)
         \/ \E route \in Route : \/ AddRoute(current, current', s, route)
                                 \/ DeleteRoute(current, current', s, route)
    /\ UNCHANGED persisted

Persist == persisted' = current /\ UNCHANGED current

Lose == current' = persisted /\ UNCHANGED persisted

Spec == Init /\ [][Change \/ Persist \/ Lose]_vars
=============================================================================
