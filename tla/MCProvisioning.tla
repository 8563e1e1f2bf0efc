--------------------------- MODULE MCProvisioning ---------------------------
(* Two tabs and two tokens; and, with a single tab and more saves and       *)
(* seconds, the limit of two snapshots.                                     *)
EXTENDS Provisioning, TLC

Symmetry == Permutations(Tabs) \cup Permutations(Passwords)

\* Bound: either the wizard alone saves and local time is not set back, or one tab
\* is used, with one token.
WizardAlone ==
  /\ edit = None /\ ~ stepped /\ now <= 1 /\ saves <= 2
  /\ issued # {"t2"}
OneTab ==
  /\ Cardinality({r \in Tabs : req[r] # None \/ shown[r] # 0}) <= 1
  /\ issued \subseteq {"t1"} /\ drawn <= 1
Apart == WizardAlone \/ OneTab
=============================================================================
