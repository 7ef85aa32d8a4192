--------------------------- MODULE ServedAddress ---------------------------
(***************************************************************************)
(* What the listener side of the runtime promises to one administrator:    *)
(* where each server is served.  A server starts to be served at one       *)
(* address while it is served nowhere, stops to be served there, and only  *)
(* a call for that server does either: nothing that is done to one server  *)
(* changes where another is served.                                        *)
(***************************************************************************)
CONSTANTS Servers, Addrs
VARIABLES
    served,   \* server -> the set of addresses that route to it
    busy      \* the server a call is in progress for, as a set of at most one

vars == <<served, busy>>

Init == served = [s \in Servers |-> {}] /\ busy = {}

Begin(s) == busy = {} /\ busy' = {s} /\ UNCHANGED served
End == busy' = {} /\ UNCHANGED served

Serve(s, a) == served[s] = {} /\ served' = [served EXCEPT ![s] = {a}] /\ UNCHANGED busy
Withdraw(s) == served[s] # {} /\ served' = [served EXCEPT ![s] = {}] /\ UNCHANGED busy

Next ==
    \/ End
    \/ \E s \in Servers : Begin(s)
    \/ \E s \in busy : Withdraw(s) \/ \E a \in Addrs : Serve(s, a)

Spec == Init /\ [][Next]_vars
=============================================================================
