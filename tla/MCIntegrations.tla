--------------------------- MODULE MCIntegrations ---------------------------
(* Integrations on small instances.                                        *)
EXTENDS Integrations

CONSTANTS e1, e2

On(e)  == [enabled |-> TRUE, endpoint |-> e]
Off1   == [enabled |-> FALSE, endpoint |-> e1]

First == {[hardcover |-> FALSE, enabled |-> TRUE, endpoint |-> e1]}

(* One server, switched on and off, whose address the last form may clear; *)
(* or two servers, one after the other.                                    *)
Blank == [enabled |-> TRUE, endpoint |-> NoEndpoint]

Toggled == <<{On(e1), Off1}, {On(e1), Off1}>>
Cleared == <<{On(e1), Off1}, {On(e1), Off1, Blank}>>
Moved   == <<{On(e1), On(e2)}>>
=============================================================================
