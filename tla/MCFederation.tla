---------------------------- MODULE MCFederation ----------------------------
(* A provider of config.json, which services.json may override, one of      *)
(* services.json alone, two issuers.                                        *)
EXTENDS Federation, Functions, TLC

MCBaseCfg == [id \in {"corp"} |-> [issuer |-> "idp1", enabled |-> TRUE]]

MCForms == {[issuer |-> "idp2", enabled |-> TRUE], [issuer |-> "blank", enabled |-> FALSE]}

\* Bound: changes, failures, logins and codes together.
MaxEvents == 4
Events == changes + fails + Len(began) + Cardinality(codes) <= MaxEvents

\* The issuers of forms under way and of services.json, and the secrets.
Mentioned ==
  {req[w].cfg.issuer : w \in {w \in Workers : req[w] # Idle /\ req[w].op \in {"add", "edit"}}}
  \cup (IF services = Torn THEN {}
        ELSE {services[id].issuer : id \in {id \in Ids : services[id] # None}})
Carried == Range(secrets) \cup {req[w].secret : w \in {w \in Workers : req[w] # Idle}}

\* Bound: beside the logins either users change, as they come, or one request of a
\* provider's or a renewal is under way, with complete forms and one secret ...
Logins ==
  /\ "blank" \notin Mentioned /\ "s2" \notin Carried /\ ~ stale
  /\ \A v, w \in Workers : req[w] # Idle => draft[v] = None /\ (v # w => req[v] = Idle)

\* ... and the races of those requests are explored while nobody logs in and users
\* stay as they are.
Files ==
  /\ began = <<>>
  /\ users = usersFile /\ Range(users) = {Local}
  /\ \A w \in Workers : draft[w] = None

\* Bound: the first issuer is that of config.json, the second that of services.json.
Apart == Events /\ "idp1" \notin Mentioned /\ (Logins \/ Files)

Symmetry == Permutations(Browsers) \cup Permutations(Emails) \cup Permutations(Workers)
=============================================================================
