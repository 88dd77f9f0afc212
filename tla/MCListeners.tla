----------------------------- MODULE MCListeners -----------------------------
(***************************************************************************)
(* Listeners on one port: every interface, the local one, a LAN address.   *)
(***************************************************************************)
EXTENDS Listeners

CONSTANTS any, local, lan

OnePort  == [w \in {any} |-> {local, lan}]
ItsLocal == [w \in {any} |-> local]

Text(e, a, s) == [enabled |-> e, addr |-> a, spaced |-> s]

\* The wildcard, text that is no address, an address typed with a space, the checkbox.
Edited == {Text(TRUE, any, FALSE), Text(TRUE, None, FALSE),
           Text(TRUE, local, TRUE), Text(FALSE, local, FALSE)}
=============================================================================
