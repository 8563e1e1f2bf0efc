------------------------------ MODULE MCSignIn ------------------------------
EXTENDS SignIn, TLC

\* Requests, session ids and emails are interchangeable.
SignInSymmetry ==
  Permutations(Requests) \cup Permutations(SessionIds) \cup Permutations(Emails)

\* Nothing reads the queue file back.
SignInView == <<storeVars, codes, minted, now, users, disableTOTP, reqs, history>>
=============================================================================
