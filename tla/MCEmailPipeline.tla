-------------------------- MODULE MCEmailPipeline --------------------------
(* Instances of EmailPipeline for TLC. *)
EXTENDS EmailPipeline, TLC

CONSTANTS e1, e2, e3, s1, s2, acme, globex

\* e1 belongs to acme, the others to globex when there is a second organization.
MCOrgOf == [e \in Emails |-> IF e = e1 \/ globex \notin Orgs THEN acme ELSE globex]

=============================================================================
