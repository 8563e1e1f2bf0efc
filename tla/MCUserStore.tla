---------------------------- MODULE MCUserStore ----------------------------
EXTENDS UserStore, TLC

\* Handlers, emails and record contents are interchangeable.
UserSymmetry ==
  Permutations(Handlers) \cup Permutations(Emails) \cup Permutations(Data)

\* Bound: lists of grants are told apart while savers work one at a time.  (Who is
\* an administrator, and whether users.json parses, does not depend on them.)
Listed(d) == \E email \in Emails : d[email] # Absent /\ d[email].grants # NoGrants

ListsAlone ==
  overlap => \A d \in ({ram, users, tmp} \cup
                        {job[w].dir : w \in {w \in Savers : job[w] # Idle}}) \cap Directory :
               ~ Listed(d)
=============================================================================
