------------------------------ MODULE MCAccess ------------------------------
(* Two services on one host: the first with a route and at most three more   *)
(* of its own, the second with one, in either order of the files.            *)
EXTENDS Access

A == <<"/", "a">>
AB == <<"/", "a", "/", "b">>
ASlash == <<"/", "a", "/">>

R(path, rule, own) == [path |-> path, rule |-> rule, own |-> own]
B(id, allow, unlisted, routes) ==
  [id |-> id, host |-> "site", www |-> FALSE, unlisted |-> unlisted, allow |-> allow,
   routes |-> routes]

Overrides ==
  { <<>>, <<R(A, "authorized", TRUE)>>, <<R(ASlash, "authorized", FALSE)>>,
    <<R(A, "authorized", TRUE), R(AB, "authorized", TRUE)>>,
    <<R(A, "authorized", TRUE), R(AB, "authorized", TRUE), R(AB \o A, "authorized", FALSE)>>,
    <<R(A, "public", FALSE), R(Admin, "authenticated", FALSE)>>,
    <<R(Exactly(A), "authorized", TRUE), R(Exactly(A), "public", FALSE)>> }

First ==
  {B(1, {}, FALSE, <<R(path, rule, FALSE)>> \o ov) : path \in {Root, <<>>, AB},
     rule \in {"public", "authenticated", "authorized"}, ov \in Overrides}
  \cup {B(1, {"office"}, FALSE, <<R(path, "authorized", FALSE)>> \o ov) :
     path \in {Root, AB}, ov \in Overrides}

Second ==
  {B(2, {}, FALSE, <<R(path, rule, FALSE)>>) :
     path \in {Root, ASlash, Login, <<"/", "a", "b">>}, rule \in {"public", "whitelist"}}
  \cup {B(2, {}, FALSE, <<R(Exactly(Login), "whitelist", FALSE)>>)}
  \cup {B(2, {}, TRUE, <<>>)}

Plain == << B(1, {}, FALSE, <<R(Root, "authorized", FALSE)>>) >>
MCSetups == {Plain} \cup UNION {{<<f, s>>, <<s, f>>} : f \in First, s \in Second}

MCUpdates == { Plain,
  << B(2, {}, FALSE, <<R(A, "public", FALSE)>>) >>,
  << B(2, {"office"}, FALSE, <<R(Admin, "public", FALSE), R(A, "authorized", TRUE)>>),
     B(1, {}, FALSE, <<R(Root, "public", FALSE)>>) >>,
  << B(1, {}, FALSE, <<R(Root, "public", FALSE), R(Challenge, "public", FALSE)>>) >>,
  << B(2, {}, FALSE, <<R(Root, "authorized", FALSE)>>),
     B(1, {}, FALSE, <<R(<<>>, "public", FALSE)>>) >> }

MCRecords == {[admin |-> TRUE, grants |-> {}],
              [admin |-> FALSE, grants |-> {<<1>>, <<3>>}],
              [admin |-> FALSE, grants |-> {<<1, A>>, <<2>>}]}

MCLinks == {[id |-> 3, public |-> FALSE, disabled |-> FALSE],
            [id |-> 4, public |-> TRUE, disabled |-> TRUE]}

MCRequests == {Root, A, ASlash, AB, <<"/", "a", "b">>, AB \o A, Login, Admin}

\* What is published, and the panel's list, have nothing to do with each other: one
\* is explored while nobody uses the panel, the other under one list of backends, by
\* an administrator, two requests at a time.  A first factor alone opens nothing.
Untouched ==
  (\A w \in Workers : work[w] = Resting) /\ savedIPs = {} /\ saver = None /\ sess # "half"
Administered ==
  /\ sess = "full" /\ user # Gone /\ user.admin
  /\ Cardinality({w \in Workers : work[w].pc # "idle"}) <= 2
Apart == Untouched \/ (backends = Plain /\ loaded = Plain /\ Administered)
=============================================================================
