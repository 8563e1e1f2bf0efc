---------------------------- MODULE SignInProofs ----------------------------
(***************************************************************************)
(* The sign-in handlers, for any number of requests, sessions, users,      *)
(* codes and restarts.                                                     *)
(***************************************************************************)
EXTENDS SignIn, TLAPS

(* Types.                                                                  *)

SessionSteps == {"complete", "totp", "delete"}

\* What a request carries at each of its steps.
LEMMA Carried ==
  ASSUME NEW q \in Request
  PROVE  /\ q.pc = "create" =>
              /\ q.email \in Emails /\ q.provider \in Providers
              /\ q.passed \in SUBSET Check /\ q.code \in 0..MaxCodes
         /\ q.pc \in SessionSteps => q.sid \in SessionIds /\ q.email \in Emails
         /\ q.pc = "issue" => q.email \in Emails
         /\ q.pc = "verify" => q.email \in Emails /\ q.code \in 1..MaxCodes
BY DEF Request, Free, SessionSteps

LEMMA SessionRequestType ==
  ASSUME NEW pc \in SessionSteps, NEW id \in SessionIds, NEW email \in Emails
  PROVE  SessionRequest(pc, id, email) \in Request
BY DEF SessionRequest, Request, SessionSteps

LEMMA SignedInType ==
  ASSUME NEW email \in Emails, NEW provider \in Providers,
         NEW check \in {"password", "bind", "code", "totp"}, NEW code \in 0..MaxCodes
  PROVE  SignedIn(email, provider, check, code) \in Request
BY DEF SignedIn, Request, Check

\* A session that has been opened has an owner.
Owned == \A id \in SessionIds : status[id] # "fresh" => owner[id] \in Owner

\* The types, and what they rest on.
TypeInv == TypeOK /\ Owned

\* Looking the session up leaves it with its owner.
LEMMA WithSessionType ==
  ASSUME TypeInv, NEW r \in Requests, NEW id \in SessionIds, NEW q,
         status[id] \in {"open", "full"} => q \in Request,
         WithSession(r, id, q)
  PROVE  /\ status' \in [SessionIds -> Store!Statuses] /\ lagging' \in BOOLEAN
         /\ reqs' \in [Requests -> Request]
         /\ UNCHANGED <<owner, earned>>
         /\ \A i \in SessionIds : status'[i] = "fresh" <=> status[i] = "fresh"
<1>1. Free \in Request
  BY DEF Request
<1> QED
  BY <1>1 DEF WithSession, TypeInv, TypeOK, Become, Answer, storeVars, Store!Close, Store!Statuses

\* What a step of the codes alone leaves of the types.
LEMMA CodesType ==
  ASSUME OTP!TypeOK, NEW email \in Emails,
         \/ OTP!Issue(email) \/ \E code \in 1..MaxCodes : OTP!Verify(email, code)
         \/ OTP!Forget \/ OTP!Tick \/ UNCHANGED codeVars
  PROVE  OTP!TypeOK'
<1> USE SignInAssumption DEF OTP!TypeOK
<1>1. CASE OTP!Issue(email)
  <2> DEFINE e == [code |-> minted + 1, issued |-> now, expires |-> now + CodeTTL]
             l == [email |-> email, code |-> minted + 1, ts |-> now]
  <2>1. e \in OTP!Entry /\ l \in OTP!Line /\ minted + 1 \in 0..MaxCodes
    BY <1>1 DEF OTP!Issue, OTP!Entry, OTP!Line
  <2> QED
    BY <1>1, <2>1 DEF OTP!Issue
<1>2. CASE \E code \in 1..MaxCodes : OTP!Verify(email, code)
  BY <1>2 DEF OTP!Verify
<1>3. CASE OTP!Forget
  BY <1>3 DEF OTP!Forget
<1>4. CASE OTP!Tick
  BY <1>4 DEF OTP!Tick
<1>5. CASE UNCHANGED codeVars
  BY <1>5 DEF codeVars
<1> QED
  BY <1>1, <1>2, <1>3, <1>4, <1>5

\* Every step keeps the types.
LEMMA TypeStep ==
  ASSUME TypeInv, [Next]_vars
  PROVE  TypeInv'
<1> USE DEF TypeInv, Owned
<1>0. Free \in Request
  BY DEF Request
<1>1. ASSUME NEW r \in Requests, NEW email \in Emails, NEW right \in BOOLEAN,
             LoginSubmit(r, email, right)
      PROVE  TypeInv'
  <2>1. reqs' \in [Requests -> Request]
    BY <1>1, SignedInType, SignInAssumption DEF LoginSubmit, Become, Providers, TypeOK
  <2> QED
    BY <1>1, <2>1 DEF LoginSubmit, TypeOK, storeVars, codeVars, history, OTP!TypeOK
<1>2. ASSUME NEW r \in Requests, NEW email \in Emails, CodeRequest(r, email) PROVE TypeInv'
  <2>1. [pc |-> "issue", email |-> email] \in Request
    BY DEF Request
  <2> QED
    BY <1>2, <2>1 DEF CodeRequest, Become, TypeOK, storeVars, codeVars, history, OTP!TypeOK
<1>3. ASSUME NEW r \in Requests, NEW email \in Emails, NEW code \in 1..MaxCodes,
             CodeSubmit(r, email, code)
      PROVE  TypeInv'
  <2>1. [pc |-> "verify", email |-> email, code |-> code] \in Request
    BY DEF Request
  <2> QED
    BY <1>3, <2>1 DEF CodeSubmit, Become, TypeOK, storeVars, codeVars, history, OTP!TypeOK
<1>4. ASSUME NEW r \in Requests, NEW id \in SessionIds,
             TOTPSubmit(r, id) \/ Logout(r, id) \/ Visit(r, id)
      PROVE  TypeInv'
  <2>1. ASSUME NEW pc \in SessionSteps, status[id] \in {"open", "full"}
        PROVE  SessionRequest(pc, id, owner[id].email) \in Request
    BY <2>1, SessionRequestType DEF Owner
  <2>2. PICK q : (status[id] \in {"open", "full"} => q \in Request) /\ WithSession(r, id, q)
    BY <1>4, <1>0, <2>1 DEF TOTPSubmit, Logout, Visit, SessionSteps
  <2>3. UNCHANGED <<codeVars, users, disableTOTP, history>>
    BY <1>4 DEF TOTPSubmit, Logout, Visit
  <2> QED
    BY <2>2, <2>3, WithSessionType DEF TypeOK, codeVars, history, OTP!TypeOK
<1>5. ASSUME NEW r \in Requests, NEW id \in SessionIds, CreateSession(r, id) PROVE TypeInv'
  <2> DEFINE q == reqs[r]
             o == [email |-> q.email, provider |-> q.provider]
  <2>1. /\ q.email \in Emails /\ q.provider \in Providers
        /\ q.passed \in SUBSET Check /\ q.code \in 0..MaxCodes
    BY <1>5, Carried DEF CreateSession, At, TypeOK
  <2>2. o \in Owner
    BY <2>1 DEF Owner
  <2>3. SessionRequest("complete", id, q.email) \in Request
    BY <2>1, SessionRequestType DEF SessionSteps
  <2>4. reqs' \in [Requests -> Request]
    BY <1>5, <1>0, <2>3 DEF CreateSession, Become, Answer, TypeOK
  <2>5. redeemed' \in [1..MaxCodes -> SUBSET SessionIds]
    BY <1>5, <2>1 DEF CreateSession, TypeOK
  <2>6. /\ owner' = [owner EXCEPT ![id] = o]
        /\ passed' = [passed EXCEPT ![id] = q.passed]
        /\ status' = [status EXCEPT ![id] = "open"]
        /\ lagging' \in BOOLEAN /\ UNCHANGED <<earned, codeVars, users, disableTOTP>>
    BY <1>5 DEF CreateSession, Store!Open
  <2> HIDE DEF o, q
  <2> QED
    BY <2>1, <2>2, <2>4, <2>5, <2>6 DEF TypeOK, Store!Statuses, codeVars, OTP!TypeOK
<1>6. ASSUME NEW r \in Requests, CreateFails(r) PROVE TypeInv'
  BY <1>6, <1>0 DEF CreateFails, Answer, Become, TypeOK, storeVars, codeVars, history, OTP!TypeOK
<1>7. ASSUME NEW r \in Requests, CompleteSession(r) PROVE TypeInv'
  <2>1. reqs[r].sid \in SessionIds
    BY <1>7, Carried DEF CompleteSession, At, TypeOK, SessionSteps
  <2>2. /\ status' \in [SessionIds -> Store!Statuses] /\ lagging' \in BOOLEAN
        /\ earned' \subseteq SessionIds
        /\ \A i \in SessionIds : status'[i] # "fresh" => status[i] # "fresh"
    BY <1>7, <2>1 DEF CompleteSession, Store!Finish, Store!Statuses, TypeOK
  <2> QED
    BY <1>7, <1>0, <2>2 DEF CompleteSession, Answer, Become, TypeOK, codeVars, history, OTP!TypeOK
<1>8. ASSUME NEW r \in Requests, NEW right \in BOOLEAN, TOTPVerify(r, right) PROVE TypeInv'
  <2> DEFINE q == reqs[r]
  <2>1. q.sid \in SessionIds /\ q.email \in Emails
    BY <1>8, Carried DEF TOTPVerify, At, TypeOK, SessionSteps
  <2>2. SessionRequest("complete", q.sid, q.email) \in Request /\ <<"totp", q.email>> \in Check
    BY <2>1, SessionRequestType DEF SessionSteps, Check
  <2> QED
    BY <1>8, <1>0, <2>1, <2>2 DEF TOTPVerify, Answer, Become, TypeOK, storeVars, codeVars,
                                  OTP!TypeOK
<1>9. ASSUME NEW r \in Requests, CodeIssue(r) \/ CodeVerify(r) PROVE TypeInv'
  <2>1. CASE CodeIssue(r)
    <3>1. reqs[r].email \in Emails
      BY <2>1, Carried DEF CodeIssue, At, TypeOK
    <3>2. OTP!Issue(reqs[r].email) \/ UNCHANGED codeVars
      BY <2>1 DEF CodeIssue
    <3>3. OTP!TypeOK'
      BY <3>1, <3>2, CodesType DEF TypeOK
    <3> QED
      BY <2>1, <1>0, <3>3 DEF CodeIssue, Answer, Become, TypeOK, storeVars, history
  <2>2. CASE CodeVerify(r)
    <3> DEFINE q == reqs[r]
    <3>1. q.email \in Emails /\ q.code \in 1..MaxCodes
      BY <2>2, Carried DEF CodeVerify, At, TypeOK
    <3>2. (\E code \in 1..MaxCodes : OTP!Verify(q.email, code)) \/ UNCHANGED codeVars
      BY <2>2, <3>1 DEF CodeVerify
    <3>3. OTP!TypeOK'
      BY <3>1, <3>2, CodesType DEF TypeOK
    <3>4. SignedIn(q.email, "otp", "code", q.code) \in Request
      BY <3>1, SignedInType DEF Providers
    <3> QED
      BY <2>2, <1>0, <3>3, <3>4 DEF CodeVerify, Answer, Become, TypeOK, storeVars, history
  <2> QED
    BY <1>9, <2>1, <2>2
<1>10. ASSUME NEW r \in Requests, DeleteSession(r) PROVE TypeInv'
  <2>1. /\ status' \in [SessionIds -> Store!Statuses] /\ lagging' \in BOOLEAN
        /\ \A i \in SessionIds : status'[i] # "fresh" => status[i] # "fresh"
        /\ UNCHANGED earned
    BY <1>10 DEF DeleteSession, Store!Close, Store!Statuses, TypeOK
  <2> QED
    BY <1>10, <1>0, <2>1 DEF DeleteSession, Answer, Become, TypeOK, codeVars, history, OTP!TypeOK
<1>11. ASSUME NEW email \in Emails, UserAdd(email) \/ UserDel(email) \/ UserTOTP(email)
       PROVE  TypeInv'
  <2>1. \A b \in BOOLEAN : [totp |-> b] \in User
    BY DEF User
  <2>2. users' \in [Emails -> User \cup {Nobody}]
    BY <1>11, <2>1 DEF UserAdd, UserDel, UserTOTP, SetUser, TypeOK
  <2> QED
    BY <1>11, <2>2 DEF UserAdd, UserDel, UserTOTP, SetUser, TypeOK, storeVars, codeVars,
                       history, OTP!TypeOK
<1>12. CASE Tick
  <2>1. now' \in Nat
    BY <1>12 DEF Tick, OTP!Tick, TypeOK, OTP!TypeOK
  <2> QED
    BY <1>12, <2>1 DEF Tick, OTP!Tick, TypeOK, OTP!TypeOK, storeVars, history
<1>13. CASE Restart
  <2>1. /\ status' \in [SessionIds -> Store!Statuses] /\ lagging' \in BOOLEAN
        /\ \A i \in SessionIds : status'[i] # "fresh" => status[i] # "fresh"
        /\ UNCHANGED earned
    BY <1>13 DEF Restart, Store!Rollback, Store!Earlier, Store!Close, Store!Statuses, TypeOK
  <2> QED
    BY <1>13, <1>0, <2>1 DEF Restart, OTP!Forget, TypeOK, OTP!TypeOK, history
<1>14. CASE UNCHANGED vars
  BY <1>14 DEF vars, storeVars, codeVars, history, TypeOK, OTP!TypeOK
<1> QED
  BY <1>1, <1>2, <1>3, <1>4, <1>5, <1>6, <1>7, <1>8, <1>9, <1>10, <1>11, <1>12, <1>13, <1>14
  DEF Next, Begin, Continue

LEMMA TypeInit == Init => TypeInv
<1> SUFFICES ASSUME Init PROVE TypeInv
  OBVIOUS
<1>1. Free \in Request
  BY DEF Request
<1>2. OTP!TypeOK
  BY SignInAssumption DEF Init, OTP!Init, OTP!TypeOK
<1>3. /\ status \in [SessionIds -> Store!Statuses] /\ earned \subseteq SessionIds
      /\ lagging \in BOOLEAN /\ Owned
  BY DEF Init, Store!Init, Store!Statuses, Owned
<1> QED
  BY <1>1, <1>2, <1>3 DEF Init, TypeInv, TypeOK

\* Sessions, codes, users and requests keep their types, and a session that was
\* ever opened keeps its owner (handlers/login.go, handlers/otp.go).
THEOREM TypeCorrect == Spec => []TypeOK
<1>1. Init => TypeInv
  BY TypeInit
<1> QED
  BY <1>1, TypeStep, PTL DEF Spec, TypeInv

-----------------------------------------------------------------------------
(* Both factors.                                                           *)

\* The session has passed everything it owes.
Paid(id) == Owed(owner[id]) \subseteq passed[id]

\* A request never claims more than was checked: the first factor of the user it
\* is about to open a session for, a session of its own user, and, before the
\* second factor is recorded, a session that owes nothing.
Honest(q) ==
  /\ q.pc = "create" => q.passed = {<<FirstFactor(q.provider), q.email>>}
  /\ q.pc \in SessionSteps => status[q.sid] # "fresh" /\ owner[q.sid].email = q.email
  /\ q.pc = "complete" => Paid(q.sid)

FactorInv ==
  /\ \A id \in SessionIds : status[id] # "fresh" =>
       <<FirstFactor(owner[id].provider), owner[id].email>> \in passed[id]
  /\ \A id \in SessionIds : id \in earned => status[id] # "fresh" /\ Paid(id)
  /\ \A id \in SessionIds : status[id] = "full" => id \in earned
  /\ \A r \in Requests : Honest(reqs[r])

LEMMA FirstFactors ==
  /\ FirstFactor("local") = "password"
  /\ FirstFactor("otp") = "code"
  /\ FirstFactor("ldap") = "bind"
BY DEF FirstFactor

LEMMA FreeIsHonest == Honest(Free) /\ Honest(Free)'
BY DEF Honest, Free, SessionSteps

\* A step that opens no session, and after which full sessions have earned it.
Keeps ==
  /\ UNCHANGED <<owner, disableTOTP>>
  /\ \A id \in SessionIds :
       /\ passed[id] \subseteq passed'[id]
       /\ status'[id] = "fresh" <=> status[id] = "fresh"

\* Such a step takes nothing from what is known of requests and sessions.
LEMMA FactorsKept ==
  ASSUME TypeOK, FactorInv, Keeps,
         \A id \in SessionIds : id \in earned' => id \in earned \/ Paid(id),
         \A id \in SessionIds : id \in earned' => status[id] # "fresh",
         \A id \in SessionIds : status'[id] = "full" => id \in earned',
         \A r \in Requests : reqs'[r] = reqs[r] \/ Honest(reqs[r])'
  PROVE  FactorInv'
<1>1. \A id \in SessionIds : Paid(id) => Paid(id)'
  BY DEF Keeps, Paid, Owed
<1>2. ASSUME NEW r \in Requests, reqs'[r] = reqs[r] PROVE Honest(reqs[r])'
  <2>1. Honest(reqs[r]) /\ (reqs[r].pc \in SessionSteps => reqs[r].sid \in SessionIds)
    BY Carried DEF FactorInv, TypeOK
  <2> QED
    BY <1>1, <1>2, <2>1 DEF Honest, Keeps, SessionSteps
<1> QED
  BY <1>1, <1>2 DEF FactorInv, Keeps

\* Requests that only move on: nothing else changes that the factors depend on.
LEMMA FactorsMove ==
  ASSUME TypeOK, FactorInv, NEW r \in Requests, NEW q, Become(r, q), Honest(reqs[r])',
         UNCHANGED <<status, earned, owner, disableTOTP, passed>>
  PROVE  FactorInv'
BY FactorsKept DEF Keeps, Become, TypeOK, FactorInv

\* The session is looked up, and is closed instead if its time is over.
LEMMA FactorsLookedUp ==
  ASSUME TypeInv, FactorInv, NEW r \in Requests, NEW id \in SessionIds, NEW q,
         WithSession(r, id, q), UNCHANGED <<disableTOTP, passed>>,
         status[id] \in {"open", "full"} => q \in Request,
         q.pc \in {"free", "totp", "delete"},
         q.pc # "free" => q.sid = id /\ q.email = owner[id].email
  PROVE  FactorInv'
<1>1. /\ UNCHANGED <<owner, earned>>
      /\ \A i \in SessionIds : status'[i] = "fresh" <=> status[i] = "fresh"
  BY WithSessionType
<1>2. status[id] # "fresh" /\ \A i \in SessionIds : status'[i] = "full" => status[i] = "full"
  BY DEF WithSession, storeVars, Store!Close, TypeInv, TypeOK
<1>3. reqs'[r] = q \/ reqs'[r] = Free
  BY DEF WithSession, Become, Answer, TypeInv, TypeOK
<1>4. \A p \in Requests : p # r => reqs'[p] = reqs[p]
  BY DEF WithSession, Become, Answer, TypeInv, TypeOK
<1>5. Honest(reqs[r])'
  BY <1>1, <1>2, <1>3 DEF Honest, Free, SessionSteps
<1> QED
  BY <1>1, <1>2, <1>4, <1>5, FactorsKept DEF Keeps, FactorInv, TypeInv

\* Every step keeps the factors.
LEMMA FactorStep ==
  ASSUME TypeInv, FactorInv, [Next]_vars
  PROVE  FactorInv'
<1> USE DEF TypeInv
<1>1. ASSUME NEW r \in Requests, NEW email \in Emails, NEW right \in BOOLEAN,
             LoginSubmit(r, email, right)
      PROVE  FactorInv'
  <2>1. PICK provider \in Providers :
          Become(r, SignedIn(email, provider, FirstFactor(provider), 0))
    BY <1>1, FirstFactors DEF LoginSubmit, Providers
  <2>2. Honest(reqs[r])'
    BY <2>1 DEF Become, TypeOK, SignedIn, Honest, SessionSteps
  <2> QED
    BY <1>1, <2>1, <2>2, FactorsMove DEF LoginSubmit, storeVars, history
<1>2. ASSUME NEW r \in Requests, NEW email \in Emails, CodeRequest(r, email) PROVE FactorInv'
  <2>1. Honest(reqs[r])'
    BY <1>2 DEF CodeRequest, Become, TypeOK, Honest, SessionSteps
  <2> QED
    BY <1>2, <2>1, FactorsMove DEF CodeRequest, storeVars, history
<1>3. ASSUME NEW r \in Requests, NEW email \in Emails, NEW code \in 1..MaxCodes,
             CodeSubmit(r, email, code)
      PROVE  FactorInv'
  <2>1. Honest(reqs[r])'
    BY <1>3 DEF CodeSubmit, Become, TypeOK, Honest, SessionSteps
  <2> QED
    BY <1>3, <2>1, FactorsMove DEF CodeSubmit, storeVars, history
<1>4. ASSUME NEW r \in Requests, NEW id \in SessionIds,
             TOTPSubmit(r, id) \/ Logout(r, id) \/ Visit(r, id)
      PROVE  FactorInv'
  <2>1. Free \in Request
    BY DEF Request
  <2>2. ASSUME NEW pc \in SessionSteps, status[id] \in {"open", "full"}
        PROVE  SessionRequest(pc, id, owner[id].email) \in Request
    BY <2>2, SessionRequestType DEF Owned, Owner
  <2>3. CASE TOTPSubmit(r, id)
    BY <2>2, <2>3, FactorsLookedUp DEF TOTPSubmit, SessionRequest, SessionSteps, history
  <2>4. CASE Logout(r, id)
    BY <2>2, <2>4, FactorsLookedUp DEF Logout, SessionRequest, SessionSteps, history
  <2>5. CASE Visit(r, id)
    BY <2>1, <2>5, FactorsLookedUp DEF Visit, Free, history
  <2> QED
    BY <1>4, <2>3, <2>4, <2>5
<1>5. ASSUME NEW r \in Requests, NEW id \in SessionIds, CreateSession(r, id) PROVE FactorInv'
  <2> DEFINE q == reqs[r]
             o == [email |-> q.email, provider |-> q.provider]
  <2>1. /\ q.email \in Emails /\ q.provider \in Providers
        /\ q.passed = {<<FirstFactor(q.provider), q.email>>}
    BY <1>5, Carried DEF CreateSession, At, TypeOK, FactorInv, Honest
  <2>2. /\ owner' = [owner EXCEPT ![id] = o]
        /\ passed' = [passed EXCEPT ![id] = q.passed]
        /\ status[id] = "fresh" /\ status' = [status EXCEPT ![id] = "open"]
        /\ UNCHANGED <<earned, disableTOTP>>
    BY <1>5 DEF CreateSession, Store!Open
  <2>3. id \notin earned
    BY <2>2 DEF FactorInv
  <2>4. \A i \in SessionIds : i # id => 
          owner'[i] = owner[i] /\ passed'[i] = passed[i] /\ status'[i] = status[i]
    BY <2>2 DEF TypeOK
  <2>5. owner'[id] = o /\ passed'[id] = q.passed /\ status'[id] = "open"
    BY <2>2 DEF TypeOK
  <2>6. o.email = q.email /\ o.provider = q.provider
    OBVIOUS
  <2>7. \A i \in SessionIds : i # id => Paid(i) = Paid(i)'
    BY <2>2, <2>4 DEF Paid, Owed
  <2>8. ASSUME NEW p \in Requests, p # r PROVE Honest(reqs[p])'
    <3>1. reqs'[p] = reqs[p]
      BY <1>5, <2>8 DEF CreateSession, Become, Answer, TypeOK
    <3>2. reqs[p].pc \in SessionSteps => reqs[p].sid \in SessionIds \ {id}
      BY <2>2, Carried DEF FactorInv, Honest, TypeOK
    <3> QED
      BY <2>4, <2>7, <3>1, <3>2 DEF FactorInv, Honest, SessionSteps
  <2>9. Honest(reqs[r])'
    <3>1. CASE q.provider = "ldap" \/ disableTOTP
      <4>1. reqs'[r] = SessionRequest("complete", id, q.email)
        BY <1>5, <3>1 DEF CreateSession, Become, TypeOK
      <4>2. Paid(id)'
        BY <2>1, <2>2, <2>5, <2>6, <3>1 DEF Paid, Owed
      <4> QED
        BY <2>5, <2>6, <4>1, <4>2 DEF Honest, SessionRequest, SessionSteps
    <3>2. CASE ~ (q.provider = "ldap" \/ disableTOTP)
      <4>1. reqs'[r] = Free
        BY <1>5, <3>2 DEF CreateSession, Answer, Become, TypeOK
      <4> QED
        BY <4>1 DEF Honest, Free, SessionSteps
    <3> QED
      BY <3>1, <3>2
  <2> HIDE DEF q, o
  <2> QED
    BY <2>1, <2>2, <2>3, <2>4, <2>5, <2>6, <2>7, <2>8, <2>9 DEF FactorInv
<1>6. ASSUME NEW r \in Requests, CreateFails(r) PROVE FactorInv'
  <2>1. Honest(reqs[r])'
    BY <1>6 DEF CreateFails, Answer, Become, TypeOK, Honest, Free, SessionSteps
  <2> QED
    BY <1>6, <2>1, FactorsMove DEF CreateFails, Answer, storeVars, history
<1>7. ASSUME NEW r \in Requests, CompleteSession(r) PROVE FactorInv'
  <2> DEFINE id == reqs[r].sid
  <2>1. id \in SessionIds /\ status[id] # "fresh" /\ Paid(id)
    BY <1>7, Carried DEF CompleteSession, At, TypeOK, SessionSteps, FactorInv, Honest
  <2>2. Honest(reqs[r])' /\ \A p \in Requests : p # r => reqs'[p] = reqs[p]
    BY <1>7 DEF CompleteSession, Answer, Become, TypeOK, Honest, Free, SessionSteps
  <2>3. UNCHANGED <<owner, disableTOTP, passed>>
    BY <1>7 DEF CompleteSession, history
  <2>4. /\ \A i \in SessionIds : i \in earned' => i \in earned \/ i = id
        /\ \A i \in SessionIds : status'[i] = "fresh" <=> status[i] = "fresh"
        /\ \A i \in SessionIds : status'[i] = "full" => i \in earned'
    BY <1>7, <2>1 DEF CompleteSession, Store!Finish, TypeOK, FactorInv
  <2> QED
    BY <2>1, <2>2, <2>3, <2>4, FactorsKept DEF Keeps, FactorInv
<1>8. ASSUME NEW r \in Requests, NEW right \in BOOLEAN, TOTPVerify(r, right) PROVE FactorInv'
  <2>1. PICK id \in SessionIds, email \in Emails :
          /\ reqs[r].sid = id /\ reqs[r].email = email
          /\ status[id] # "fresh" /\ owner[id].email = email
    BY <1>8, Carried DEF TOTPVerify, At, TypeOK, SessionSteps, FactorInv, Honest
  <2>2. UNCHANGED <<status, earned, lagging, owner, disableTOTP>>
    BY <1>8 DEF TOTPVerify, storeVars
  <2>3. CASE TOTPAccepts(email, right)
    <3>1. /\ reqs' = [reqs EXCEPT ![r] = SessionRequest("complete", id, email)]
          /\ passed' = [passed EXCEPT ![id] = @ \cup {<<"totp", email>>}]
      BY <1>8, <2>1, <2>3 DEF TOTPVerify, Become
    <3>2. Keeps
      BY <2>2, <3>1 DEF Keeps, TypeOK
    <3>3. passed'[id] = passed[id] \cup {<<"totp", email>>}
      BY <3>1 DEF TypeOK
    <3>4. <<FirstFactor(owner[id].provider), owner[id].email>> \in passed[id]
      BY <2>1 DEF FactorInv
    <3>5. Paid(id)'
      BY <2>1, <2>2, <3>3, <3>4 DEF Paid, Owed
    <3>6. Honest(reqs[r])'
      <4>1. reqs'[r].pc = "complete" /\ reqs'[r].sid = id /\ reqs'[r].email = email
        BY <3>1 DEF TypeOK, SessionRequest
      <4> QED
        BY <2>1, <2>2, <3>5, <4>1 DEF Honest, SessionSteps
    <3>7. \A p \in Requests : p # r => reqs'[p] = reqs[p]
      BY <3>1 DEF TypeOK
    <3> QED
      BY <2>2, <3>2, <3>6, <3>7, FactorsKept DEF FactorInv
  <2>4. CASE ~ TOTPAccepts(email, right)
    <3>1. Become(r, Free) /\ UNCHANGED passed
      BY <1>8, <2>1, <2>4 DEF TOTPVerify, Answer
    <3>2. Honest(reqs[r])'
      BY <3>1 DEF Become, TypeOK, Honest, Free, SessionSteps
    <3> QED
      BY <2>2, <3>1, <3>2, FactorsMove
  <2> QED
    BY <2>3, <2>4
<1>9. ASSUME NEW r \in Requests, CodeIssue(r) \/ CodeVerify(r) PROVE FactorInv'
  <2>1. UNCHANGED <<status, earned, owner, disableTOTP, passed>>
    BY <1>9 DEF CodeIssue, CodeVerify, storeVars, history
  <2>2. Become(r, Free) \/ Become(r, SignedIn(reqs[r].email, "otp", "code", reqs[r].code))
    BY <1>9 DEF CodeIssue, CodeVerify, Answer
  <2>3. Honest(reqs[r])'
    BY <2>2, FirstFactors DEF Become, TypeOK, Honest, Free, SignedIn, SessionSteps
  <2> QED
    BY <2>1, <2>2, <2>3, FactorsMove
<1>10. ASSUME NEW r \in Requests, DeleteSession(r) PROVE FactorInv'
  <2>1. /\ UNCHANGED <<owner, disableTOTP, passed, earned>>
        /\ \A i \in SessionIds : status'[i] = "fresh" <=> status[i] = "fresh"
        /\ \A i \in SessionIds : status'[i] = "full" => status[i] = "full"
    BY <1>10 DEF DeleteSession, Store!Close, history
  <2>2. Honest(reqs[r])' /\ \A p \in Requests : p # r => reqs'[p] = reqs[p]
    BY <1>10 DEF DeleteSession, Answer, Become, TypeOK, Honest, Free, SessionSteps
  <2> QED
    BY <2>1, <2>2, FactorsKept DEF Keeps, FactorInv
<1>11. ASSUME UNCHANGED <<status, earned, owner, disableTOTP, passed, reqs>> PROVE FactorInv'
  BY <1>11, FactorsKept DEF Keeps, FactorInv
<1>12. CASE Restart
  <2>1. UNCHANGED <<owner, disableTOTP, passed, earned>>
    BY <1>12 DEF Restart, history, Store!Rollback, Store!Close
  <2>2. /\ \A i \in SessionIds : status'[i] = "fresh" <=> status[i] = "fresh"
        /\ \A i \in SessionIds : status'[i] = "full" => i \in earned
    <3>1. CASE Store!Rollback
      BY <3>1 DEF Store!Rollback, Store!Earlier, TypeOK, Store!Statuses
    <3>2. CASE \E S \in SUBSET SessionIds : Store!Close(S)
      BY <3>2 DEF Store!Close, FactorInv
    <3> QED
      BY <1>12, <3>1, <3>2 DEF Restart
  <2>3. \A p \in Requests : Honest(reqs[p])'
    BY <1>12 DEF Restart, Honest, Free, SessionSteps
  <2> QED
    BY <2>1, <2>2, <2>3, FactorsKept DEF Keeps, FactorInv
<1> QED
  BY <1>1, <1>2, <1>3, <1>4, <1>5, <1>6, <1>7, <1>8, <1>9, <1>10, <1>11, <1>12
  DEF Next, Begin, Continue, UserAdd, UserDel, UserTOTP, SetUser, Tick, vars, storeVars, history

\* A session counts as fully signed in only if both factors were checked for its
\* own user, for any number of requests, users and restarts
\* (handlers/login.go:42-135, handlers/otp.go:66-94).
THEOREM FactorsCorrect == Spec => []FullSessionsEarned
<1>1. Init => TypeInv /\ FactorInv
  <2>1. Init => FactorInv
    BY DEF Init, Store!Init, FactorInv, Honest, Free, SessionSteps
  <2> QED
    BY <2>1, TypeInit
<1>2. FactorInv => FullSessionsEarned
  BY DEF FactorInv, FullSessionsEarned, Paid
<1> QED
  BY <1>1, <1>2, TypeStep, FactorStep, PTL DEF Spec

-----------------------------------------------------------------------------
(* One-time codes.                                                         *)

\* Request r has redeemed code c and has not opened its session yet.
Redeeming(r, c) == reqs[r].pc = "create" /\ reqs[r].code = c

\* Code c is the active one of this email.
Active(email, c) == codes[email] # NoCode /\ codes[email].code = c

\* A code that was drawn is in one place at most: active, with one request, or
\* with the one session it opened; one that was not drawn is nowhere.
CodeInv ==
  /\ \A email \in Emails : \A c \in 1..MaxCodes : Active(email, c) =>
       /\ c <= minted /\ redeemed[c] = {}
       /\ \A other \in Emails : Active(other, c) => other = email
       /\ \A r \in Requests : ~ Redeeming(r, c)
  /\ \A r \in Requests : \A c \in 1..MaxCodes : Redeeming(r, c) =>
       /\ c <= minted /\ redeemed[c] = {}
       /\ \A p \in Requests : Redeeming(p, c) => p = r
  /\ \A c \in 1..MaxCodes : redeemed[c] # {} => c <= minted
  /\ OneSessionPerCode

\* A step after which codes and requests hold no code they did not hold.
LEMMA CodesKept ==
  ASSUME CodeInv, UNCHANGED <<minted, redeemed>>,
         \A email \in Emails : \A c \in 1..MaxCodes : Active(email, c)' => Active(email, c),
         \A r \in Requests : \A c \in 1..MaxCodes : Redeeming(r, c)' => Redeeming(r, c)
  PROVE  CodeInv'
BY DEF CodeInv, OneSessionPerCode

\* Every step keeps a code in its one place.
LEMMA CodeStep ==
  ASSUME TypeInv, CodeInv, [Next]_vars
  PROVE  CodeInv'
<1> USE DEF TypeInv
<1>1. ASSUME UNCHANGED <<codes, minted, redeemed>>, NEW r \in Requests,
             \A p \in Requests : p # r => reqs'[p] = reqs[p],
             reqs'[r].pc = "create" => reqs'[r].code = 0
      PROVE  CodeInv'
  <2>1. \A p \in Requests : \A c \in 1..MaxCodes : Redeeming(p, c)' => Redeeming(p, c)
    BY <1>1 DEF Redeeming
  <2>2. \A email \in Emails : \A c \in 1..MaxCodes : Active(email, c)' => Active(email, c)
    BY <1>1 DEF Active
  <2> QED
    BY <1>1, <2>1, <2>2, CodesKept
<1>2. ASSUME NEW r \in Requests, NEW email \in Emails, NEW right \in BOOLEAN,
             LoginSubmit(r, email, right)
      PROVE  CodeInv'
  BY <1>1, <1>2 DEF LoginSubmit, Become, SignedIn, TypeOK, codeVars, history
<1>3. ASSUME NEW r \in Requests, NEW email \in Emails,
             CodeRequest(r, email) \/ \E code \in 1..MaxCodes : CodeSubmit(r, email, code)
      PROVE  CodeInv'
  BY <1>1, <1>3 DEF CodeRequest, CodeSubmit, Become, TypeOK, codeVars, history
<1>4. ASSUME NEW r \in Requests, NEW id \in SessionIds,
             TOTPSubmit(r, id) \/ Logout(r, id) \/ Visit(r, id)
      PROVE  CodeInv'
  BY <1>1, <1>4 DEF TOTPSubmit, Logout, Visit, WithSession, SessionRequest, Answer, Become, Free,
                    TypeOK, codeVars, history
<1>5. ASSUME NEW r \in Requests, NEW id \in SessionIds, CreateSession(r, id) PROVE CodeInv'
  <2>1. PICK code \in 0..MaxCodes : reqs[r].pc = "create" /\ reqs[r].code = code
    BY <1>5, Carried DEF CreateSession, At, TypeOK
  <2>2. /\ reqs'[r].pc # "create" /\ \A p \in Requests : p # r => reqs'[p] = reqs[p]
        /\ UNCHANGED <<codes, minted>>
        /\ redeemed' = IF code = 0 THEN redeemed
                       ELSE [redeemed EXCEPT ![code] = @ \cup {id}]
    BY <1>5, <2>1 DEF CreateSession, Become, Answer, SessionRequest, Free, TypeOK, codeVars
  <2>3. CASE code = 0
    BY <1>1, <2>2, <2>3
  <2>4. CASE code # 0
    <3>1. code \in 1..MaxCodes /\ Redeeming(r, code)
      BY <2>1, <2>4, SignInAssumption DEF Redeeming
    <3>2. /\ redeemed[code] = {} /\ code <= minted
          /\ \A p \in Requests : p # r => ~ Redeeming(p, code)
          /\ \A email \in Emails : ~ Active(email, code)
      BY <3>1 DEF CodeInv
    <3>3. redeemed'[code] = {id} /\ \A c \in 1..MaxCodes : c # code => redeemed'[c] = redeemed[c]
      BY <2>2, <2>4, <3>1, <3>2 DEF TypeOK
    <3>4. \A p \in Requests : \A c \in 1..MaxCodes : Redeeming(p, c)' =>
            c # code /\ Redeeming(p, c)
      BY <2>2, <3>2 DEF Redeeming
    <3>5. \A email \in Emails : \A c \in 1..MaxCodes : Active(email, c)' =>
            c # code /\ Active(email, c)
      BY <2>2, <3>2 DEF Active
    <3>6. UNCHANGED minted
      BY <2>2
    <3>7. OneSessionPerCode'
      BY <3>3 DEF OneSessionPerCode, CodeInv
    <3> QED
      BY <3>2, <3>3, <3>4, <3>5, <3>6, <3>7 DEF CodeInv
  <2> QED
    BY <2>3, <2>4
<1>6. ASSUME NEW r \in Requests,
             \/ CreateFails(r) \/ CompleteSession(r) \/ DeleteSession(r)
             \/ \E right \in BOOLEAN : TOTPVerify(r, right)
      PROVE  CodeInv'
  BY <1>1, <1>6 DEF CreateFails, CompleteSession, DeleteSession, TOTPVerify, Answer, Become, Free,
                    SessionRequest, TypeOK, codeVars, history
<1>7. ASSUME NEW r \in Requests, CodeIssue(r) PROVE CodeInv'
  <2>1. PICK email \in Emails : reqs[r].email = email
    BY <1>7, Carried DEF CodeIssue, At, TypeOK
  <2>2. /\ reqs'[r].pc # "create" /\ \A p \in Requests : p # r => reqs'[p] = reqs[p]
        /\ UNCHANGED redeemed
    BY <1>7 DEF CodeIssue, Answer, Become, Free, TypeOK, history
  <2>3. CASE UNCHANGED codeVars
    BY <1>1, <2>2, <2>3 DEF codeVars
  <2>4. CASE OTP!Issue(email)
    <3>1. /\ minted' = minted + 1 /\ minted \in Nat /\ codes'[email].code = minted + 1
          /\ \A other \in Emails : other # email => codes'[other] = codes[other]
      BY <2>4, SignInAssumption DEF OTP!Issue, TypeOK, OTP!TypeOK
    <3>2. \A other \in Emails : \A c \in 1..MaxCodes : Active(other, c)' =>
            (other = email /\ c = minted + 1) \/ (other # email /\ Active(other, c))
      BY <3>1 DEF Active
    <3>3. \A p \in Requests : \A c \in 1..MaxCodes : Redeeming(p, c)' => Redeeming(p, c)
      BY <2>2 DEF Redeeming
    <3>4. \A c \in 1..MaxCodes : c <= minted => c <= minted' /\ c # minted + 1
      BY <3>1
    <3>5. ASSUME NEW c \in 1..MaxCodes, c = minted + 1
          PROVE  /\ redeemed[c] = {} /\ c <= minted'
                 /\ \A p \in Requests : ~ Redeeming(p, c)
                 /\ \A other \in Emails : ~ Active(other, c)
      BY <3>1, <3>4, <3>5 DEF CodeInv
    <3>6. UNCHANGED redeemed /\ OneSessionPerCode'
      BY <2>2 DEF OneSessionPerCode, CodeInv
    <3> QED
      BY <3>2, <3>3, <3>4, <3>5, <3>6 DEF CodeInv
  <2> QED
    BY <1>7, <2>1, <2>3, <2>4 DEF CodeIssue
<1>8. ASSUME NEW r \in Requests, CodeVerify(r) PROVE CodeInv'
  <2>1. PICK email \in Emails, code \in 1..MaxCodes : reqs[r].email = email /\ reqs[r].code = code
    BY <1>8, Carried DEF CodeVerify, At, TypeOK
  <2>2. UNCHANGED redeemed /\ \A p \in Requests : p # r => reqs'[p] = reqs[p]
    BY <1>8 DEF CodeVerify, Answer, Become, TypeOK, history
  <2>3. CASE OTP!Verify(email, code) /\ Become(r, SignedIn(email, "otp", "code", code))
    <3>1. Active(email, code) /\ codes'[email] = NoCode /\ UNCHANGED minted
      BY <2>3 DEF OTP!Verify, OTP!Accepts, Active, TypeOK, OTP!TypeOK
    <3>2. \A other \in Emails : other # email => codes'[other] = codes[other]
      BY <2>3 DEF OTP!Verify, TypeOK, OTP!TypeOK
    <3>3. \A other \in Emails : \A c \in 1..MaxCodes :
            Active(other, c)' => other # email /\ c # code /\ Active(other, c)
      BY <3>1, <3>2 DEF Active, CodeInv
    <3>4. reqs'[r].pc = "create" /\ reqs'[r].code = code
      BY <2>3 DEF Become, SignedIn, TypeOK
    <3>5. \A p \in Requests : \A c \in 1..MaxCodes : Redeeming(p, c)' =>
            (p = r /\ c = code) \/ (p # r /\ Redeeming(p, c))
      BY <2>2, <3>4 DEF Redeeming
    <3>6. /\ code <= minted /\ redeemed[code] = {}
          /\ \A p \in Requests : ~ Redeeming(p, code)
      BY <3>1 DEF CodeInv
    <3>7. OneSessionPerCode'
      BY <2>2 DEF OneSessionPerCode, CodeInv
    <3> QED
      BY <2>2, <3>1, <3>3, <3>5, <3>6, <3>7 DEF CodeInv
  <2>4. CASE Answer(r) /\ UNCHANGED codeVars
    BY <1>1, <2>2, <2>4 DEF Answer, Become, Free, TypeOK, codeVars
  <2> QED
    BY <1>8, <2>1, <2>3, <2>4 DEF CodeVerify
<1>9. ASSUME UNCHANGED <<codes, minted, reqs, redeemed>> PROVE CodeInv'
  BY <1>9, CodesKept DEF Active, Redeeming
<1>10. CASE Restart
  <2>1. \A email \in Emails : \A c \in 1..MaxCodes : ~ Active(email, c)'
    BY <1>10 DEF Restart, OTP!Forget, Active
  <2>2. \A r \in Requests : \A c \in 1..MaxCodes : ~ Redeeming(r, c)'
    BY <1>10 DEF Restart, Redeeming, Free
  <2>3. UNCHANGED <<minted, redeemed>>
    BY <1>10 DEF Restart, OTP!Forget, history
  <2> QED
    BY <2>1, <2>2, <2>3, CodesKept
<1> QED
  BY <1>2, <1>3, <1>4, <1>5, <1>6, <1>7, <1>8, <1>9, <1>10
  DEF Next, Begin, Continue, UserAdd, UserDel, UserTOTP, SetUser, Tick, OTP!Tick, vars, codeVars,
      history

\* A one-time code opens one session at most, for any number of requests that
\* present it, codes and restarts ("single-use", auth/otp.go:17).
THEOREM CodesCorrect == Spec => []OneSessionPerCode
<1>1. Init => CodeInv
  BY DEF Init, OTP!Init, CodeInv, Active, Redeeming, Free, OneSessionPerCode
<1>2. CodeInv => OneSessionPerCode
  BY DEF CodeInv
<1> QED
  BY <1>1, <1>2, TypeInit, TypeStep, CodeStep, PTL DEF Spec
=============================================================================
