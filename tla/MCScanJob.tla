----------------------------- MODULE MCScanJob -----------------------------
(* ScanRoutes on four names: two hosts share a certificate, one is a wildcard. *)
EXTENDS ScanRoutes

CONSTANTS apex, www, api, wild, shared, own

MCHosts == {apex, www, api, wild}
MCWildcards == {wild}
MCServes == [h \in {apex, www, api} |-> IF h = api THEN own ELSE shared]
=============================================================================
