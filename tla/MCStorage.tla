------------------------------ MODULE MCStorage ------------------------------
EXTENDS Storage

MCTabs == {"t1", "t2"}
\* Two tabs of one version of the application, or the second of a newer one.
MCDeployments == {[t \in MCTabs |-> 1], [t \in MCTabs |-> IF t = "t1" THEN 1 ELSE 2]}
MCCalls == {"c1", "c2"}
=============================================================================
