---------------------------- MODULE MCEnrichment ----------------------------
(* Enrichment on small instances.                                          *)
EXTENDS Enrichment

CONSTANT e1

(* The Chaptarr form is not submitted; the Hardcover form may be.          *)
StaysOn == <<{}>>
Both == {[hardcover |-> TRUE, enabled |-> TRUE, endpoint |-> e1]}
ChaptarrOnly == {[hardcover |-> FALSE, enabled |-> TRUE, endpoint |-> e1]}
TwoBooks == {1, 2}
OneBook  == {1}
None == {}
=============================================================================
