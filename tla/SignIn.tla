------------------------------- MODULE SignIn -------------------------------
(***************************************************************************)
(* The sign-in handlers (handlers/login.go, handlers/otp.go) running       *)
(* concurrently over the session store, the one-time codes and the user    *)
(* directory.  Each of the three has its own lock, so a handler is a       *)
(* sequence of steps, one per call into one of them, and anything may      *)
(* happen in between: another handler, a change made by an administrator,  *)
(* a tick, a restart.  The session store is the contract Sessions is       *)
(* proved to implement.                                                    *)
(***************************************************************************)
EXTENDS Naturals

CONSTANTS
  Requests,      \* the requests in flight at the same time
  SessionIds,
  Emails,
  NoCode, CodeTTL, Cooldown, MaxCodes,   \* of OneTimeCodes
  Nobody,        \* no user under this email, no owner of this session
  MaxTime        \* bound: the clock stops here

VARIABLES
  status, earned, lagging,   \* SessionContract
  codes, minted, spool, now, \* OneTimeCodes
  owner,         \* owner[id]: the email and provider session id was opened with
  users,         \* the user directory in RAM
  disableTOTP,   \* config.json's disable_totp, read at boot
  reqs,          \* reqs[r]: what request r is doing
  passed,        \* history: passed[id]: the checks session id owes its state to
  redeemed       \* history: redeemed[c]: the sessions opened with code c

storeVars == <<status, earned, lagging, owner>>
codeVars == <<codes, minted, spool, now>>
history == <<passed, redeemed>>
vars == <<storeVars, codeVars, users, disableTOTP, reqs, history>>

Store == INSTANCE SessionContract
OTP == INSTANCE OneTimeCodes WITH Restarts <- TRUE

Providers == {"local", "otp", "ldap"}

\* What the sign-in reads of a user is whether it has a TOTP secret: a password
\* or a TOTP code either matches what the directory holds at that moment, or not.
User == [totp : BOOLEAN]

Check == {"password", "bind", "code", "totp"} \X Emails

Owner == [email : Emails, provider : Providers]

ASSUME SignInAssumption ==
  /\ MaxCodes \in Nat /\ CodeTTL \in Nat /\ Cooldown \in Nat /\ MaxTime \in Nat
  /\ NoCode \notin OTP!Entry
  /\ Nobody \notin User \cup Owner

Free == [pc |-> "free"]

\* What a request carries between two steps.
Request ==
  {Free}
    \cup [pc : {"create"}, email : Emails, provider : Providers,
          passed : SUBSET Check, code : 0..MaxCodes]
    \cup [pc : {"complete", "totp", "delete"}, sid : SessionIds, email : Emails]
    \cup [pc : {"issue"}, email : Emails]
    \cup [pc : {"verify"}, email : Emails, code : 1..MaxCodes]

TypeOK ==
  /\ status \in [SessionIds -> Store!Statuses]
  /\ earned \subseteq SessionIds
  /\ lagging \in BOOLEAN
  /\ owner \in [SessionIds -> Owner \cup {Nobody}]
  /\ OTP!TypeOK
  /\ users \in [Emails -> User \cup {Nobody}]
  /\ disableTOTP \in BOOLEAN
  /\ reqs \in [Requests -> Request]
  /\ passed \in [SessionIds -> SUBSET Check]
  /\ redeemed \in [1..MaxCodes -> SUBSET SessionIds]

\* users.json as it was left: the command line adds users without a TOTP secret.
Init ==
  /\ Store!Init
  /\ OTP!Init
  /\ owner = [id \in SessionIds |-> Nobody]
  /\ users \in [Emails -> User \cup {Nobody}]
  /\ disableTOTP \in BOOLEAN
  /\ reqs = [r \in Requests |-> Free]
  /\ passed = [id \in SessionIds |-> {}]
  /\ redeemed = [c \in 1..MaxCodes |-> {}]

-----------------------------------------------------------------------------
(* Moving a request on.                                                    *)

At(r, pc) == reqs[r].pc = pc
Become(r, request) == reqs' = [reqs EXCEPT ![r] = request]
Answer(r) == Become(r, Free)

SessionRequest(pc, id, email) == [pc |-> pc, sid |-> id, email |-> email]

\* The session of the request's cookie (Sessions.Get): found, or evicted
\* because its time is over and the request is answered as if it had none.
WithSession(r, id, request) ==
  /\ status[id] \in {"open", "full"}
  /\ \/ Become(r, request) /\ UNCHANGED storeVars
     \/ Store!Close({id}) /\ Answer(r) /\ UNCHANGED owner

-----------------------------------------------------------------------------
(* POST /login                                                             *)

\* providers.Local.Authenticate.
LocalAccepts(email, right) == users[email] # Nobody /\ right

\* Mutant: the provider is left at its zero value.
SignedInNoProvider(email, provider, check, code) ==
  [pc |-> "create", email |-> email, provider |-> "",
   passed |-> {<<check, email>>}, code |-> code]

SignedIn(email, provider, check, code) ==
  [pc |-> "create", email |-> email, provider |-> provider,
   passed |-> {<<check, email>>}, code |-> code]

\* The local provider first; if it refuses, the directory server decides.
LoginSubmit(r, email, right) ==
  /\ At(r, "free")
  /\ IF LocalAccepts(email, right)
       THEN Become(r, SignedIn(email, "local", "password", 0))
       ELSE Become(r, SignedIn(email, "ldap", "bind", 0))
  /\ UNCHANGED <<storeVars, codeVars, users, disableTOTP, history>>

\* Mutant: a user without a TOTP secret is not asked for a TOTP code.
CreateSessionNoSecret(r, id) ==
  LET q == reqs[r]
      skip == users[q.email] # Nobody => ~ users[q.email].totp
  IN
  /\ At(r, "create")
  /\ Store!Open(id)
  /\ owner' = [owner EXCEPT ![id] = [email |-> q.email, provider |-> q.provider]]
  /\ passed' = [passed EXCEPT ![id] = q.passed]
  /\ redeemed' = IF q.code = 0 THEN redeemed
                 ELSE [redeemed EXCEPT ![q.code] = @ \cup {id}]
  /\ IF q.provider = "ldap" \/ disableTOTP \/ skip
       THEN Become(r, SessionRequest("complete", id, q.email))
       ELSE Answer(r)
  /\ UNCHANGED <<codeVars, users, disableTOTP>>

\* Sessions.Create.  A bind, or a gate without TOTP, goes on to Complete2FA in
\* the same handler; otherwise the browser is sent to /login/totp.
CreateSession(r, id) ==
  LET q == reqs[r] IN
  /\ At(r, "create")
  /\ Store!Open(id)
  /\ owner' = [owner EXCEPT ![id] = [email |-> q.email, provider |-> q.provider]]
  /\ passed' = [passed EXCEPT ![id] = q.passed]
  /\ redeemed' = IF q.code = 0 THEN redeemed
                 ELSE [redeemed EXCEPT ![q.code] = @ \cup {id}]
  /\ IF q.provider = "ldap" \/ disableTOTP
       THEN Become(r, SessionRequest("complete", id, q.email))
       ELSE Answer(r)
  /\ UNCHANGED <<codeVars, users, disableTOTP>>

\* newID found no entropy: 500, and a one-time code stays spent.
CreateFails(r) ==
  /\ At(r, "create")
  /\ Answer(r)
  /\ UNCHANGED <<storeVars, codeVars, users, disableTOTP, history>>

\* Complete2FA; nothing happens if the session is gone by now.
CompleteSession(r) ==
  LET id == reqs[r].sid IN
  /\ At(r, "complete")
  /\ Answer(r)
  /\ \/ Store!Finish(id)
     \/ status[id] \notin {"open", "full"} /\ UNCHANGED <<status, earned, lagging>>
  /\ UNCHANGED <<owner, codeVars, users, disableTOTP, history>>

-----------------------------------------------------------------------------
(* POST /login/totp                                                        *)

TOTPSubmit(r, id) ==
  /\ At(r, "free")
  /\ WithSession(r, id, SessionRequest("totp", id, owner[id].email))
  /\ UNCHANGED <<codeVars, users, disableTOTP, history>>

\* auth.VerifyTOTP with the secret the directory holds at this moment.
TOTPAccepts(email, right) ==
  /\ users[email] # Nobody
  /\ users[email].totp
  /\ right

TOTPVerify(r, right) ==
  LET q == reqs[r] IN
  /\ At(r, "totp")
  /\ IF TOTPAccepts(q.email, right)
       THEN /\ Become(r, SessionRequest("complete", q.sid, q.email))
            /\ passed' = [passed EXCEPT ![q.sid] = @ \cup {<<"totp", q.email>>}]
       ELSE Answer(r) /\ UNCHANGED passed
  /\ UNCHANGED <<storeVars, codeVars, users, disableTOTP, redeemed>>

-----------------------------------------------------------------------------
(* POST /login/code and /login/code/verify                                 *)

CodeRequest(r, email) ==
  /\ At(r, "free")
  /\ users[email] # Nobody
  /\ Become(r, [pc |-> "issue", email |-> email])
  /\ UNCHANGED <<storeVars, codeVars, users, disableTOTP, history>>

CodeIssue(r) ==
  LET email == reqs[r].email IN
  /\ At(r, "issue")
  /\ Answer(r)
  /\ \/ OTP!Issue(email)
     \/ ~ OTP!CanIssue(email) /\ UNCHANGED codeVars
  /\ UNCHANGED <<storeVars, users, disableTOTP, history>>

CodeSubmit(r, email, code) ==
  /\ At(r, "free")
  /\ users[email] # Nobody
  /\ Become(r, [pc |-> "verify", email |-> email, code |-> code])
  /\ UNCHANGED <<storeVars, codeVars, users, disableTOTP, history>>

CodeVerify(r) ==
  LET q == reqs[r] IN
  /\ At(r, "verify")
  /\ \/ OTP!Verify(q.email, q.code) /\ Become(r, SignedIn(q.email, "otp", "code", q.code))
     \/ ~ OTP!Accepts(q.email, q.code) /\ Answer(r) /\ UNCHANGED codeVars
  /\ UNCHANGED <<storeVars, users, disableTOTP, history>>

-----------------------------------------------------------------------------
(* POST /logout, and the requests that only look the session up.           *)

Logout(r, id) ==
  /\ At(r, "free")
  /\ WithSession(r, id, SessionRequest("delete", id, owner[id].email))
  /\ UNCHANGED <<codeVars, users, disableTOTP, history>>

DeleteSession(r) ==
  /\ At(r, "delete")
  /\ Answer(r)
  /\ \/ Store!Close({reqs[r].sid})
     \/ /\ status[reqs[r].sid] \notin {"open", "full"}
        /\ Store!Close({})
  /\ UNCHANGED owner
  /\ UNCHANGED <<codeVars, users, disableTOTP, history>>

\* handleValidate, handleListing, the profile and admin pages: each looks the
\* session up once and is answered.
Visit(r, id) ==
  /\ At(r, "free")
  /\ WithSession(r, id, Free)
  /\ UNCHANGED <<codeVars, users, disableTOTP, history>>

-----------------------------------------------------------------------------
(* The administrator's changes (each a mutateUsers: one Replace of the     *)
(* directory in RAM), the clock, and a restart in the middle of anything.  *)

SetUser(email, user) ==
  /\ users' = [users EXCEPT ![email] = user]
  /\ UNCHANGED <<storeVars, codeVars, disableTOTP, reqs, history>>

\* handleUserAdd: a TOTP secret is made unless TOTP is disabled.
UserAdd(email) ==
  /\ users[email] = Nobody
  /\ SetUser(email, [totp |-> ~ disableTOTP])

UserDel(email) ==
  /\ users[email] # Nobody
  /\ SetUser(email, Nobody)

\* handleUserTOTP and handleProfileTOTP.
UserTOTP(email) ==
  /\ users[email] # Nobody
  /\ SetUser(email, [totp |-> TRUE])

Tick ==
  /\ OTP!Tick
  /\ UNCHANGED <<storeVars, users, disableTOTP, reqs, history>>

Restart ==
  /\ Store!Rollback \/ \E S \in SUBSET SessionIds : Store!Close(S)
  /\ OTP!Forget
  /\ reqs' = [r \in Requests |-> Free]
  /\ UNCHANGED <<owner, users, disableTOTP, history>>

-----------------------------------------------------------------------------
\* One step of a request that has begun.
Continue(r) ==
  \/ \E id \in SessionIds : CreateSession(r, id)
  \/ CreateFails(r)
  \/ CompleteSession(r)
  \/ \E right \in BOOLEAN : TOTPVerify(r, right)
  \/ CodeIssue(r)
  \/ CodeVerify(r)
  \/ DeleteSession(r)

Begin(r) ==
  \/ \E email \in Emails :
       \/ \E right \in BOOLEAN : LoginSubmit(r, email, right)
       \/ CodeRequest(r, email)
       \/ \E code \in 1..MaxCodes : CodeSubmit(r, email, code)
  \/ \E id \in SessionIds : TOTPSubmit(r, id) \/ Logout(r, id) \/ Visit(r, id)

Next ==
  \/ \E r \in Requests : Begin(r) \/ Continue(r)
  \/ \E email \in Emails : UserAdd(email) \/ UserDel(email) \/ UserTOTP(email)
  \/ Tick
  \/ Restart

Spec == Init /\ [][Next]_vars

-----------------------------------------------------------------------------
FirstFactor(provider) ==
  CASE provider = "local" -> "password"
    [] provider = "otp"   -> "code"
    [] provider = "ldap"  -> "bind"

\* The checks a session must have passed before its second factor counts.
Owed(s) ==
  {<<FirstFactor(s.provider), s.email>>} \cup
     (IF s.provider = "ldap" \/ disableTOTP THEN {} ELSE {<<"totp", s.email>>})

\* A session counts as fully signed in only if both factors were checked for
\* its own email, by whichever requests, with other requests, logouts, user
\* changes and restarts in between (login.go:42-135, otp.go:66-94).
FullSessionsEarned ==
  \A id \in SessionIds : status[id] = "full" => Owed(owner[id]) \subseteq passed[id]

\* A one-time code opens one session at most, however many requests present
\* it at the same time ("single-use", auth/otp.go:17).
OneSessionPerCode ==
  \A c \in 1..MaxCodes : \A a, b \in redeemed[c] : a = b
=============================================================================
