---------------------------- MODULE OneTimeCodes ----------------------------
(***************************************************************************)
(* The one-time code store of auth/otp.go (OTPStore) and the spool the     *)
(* codes are delivered to (handlers/otp.go, deliverCode).  The store lives *)
(* in RAM only.  A code is a number drawn once: two issues never collide.  *)
(***************************************************************************)
EXTENDS Naturals

CONSTANTS
  Emails,
  NoCode,        \* no entry for this email
  CodeTTL,       \* how long a code is valid
  Cooldown,      \* how soon another one may be issued
  Restarts,      \* whether the process may restart
  MaxCodes,      \* bound: codes issued in one behaviour
  MaxTime        \* bound: the clock stops here

Entry == [code : 1..MaxCodes, issued : Nat, expires : Nat]

VARIABLES
  codes,    \* codes[email]: the active entry
  minted,   \* how many codes have been drawn
  spool,    \* the lines of the queue file
  now

vars == <<codes, minted, spool, now>>

Line == [email : Emails, code : 1..MaxCodes, ts : Nat]

TypeOK ==
  /\ codes \in [Emails -> Entry \cup {NoCode}]
  /\ minted \in 0..MaxCodes
  /\ spool \subseteq Line
  /\ now \in Nat

Init ==
  /\ codes = [email \in Emails |-> NoCode]
  /\ minted = 0
  /\ spool = {}
  /\ now = 0

\* Refused while the entry, expired or not, is younger than the cooldown.
CanIssue(email) == codes[email] # NoCode => now - codes[email].issued >= Cooldown

\* Issue, then deliverCode: the line is appended, or the error is logged and
\* the code is lost.
Issue(email) ==
  /\ CanIssue(email)
  /\ minted < MaxCodes
  /\ minted' = minted + 1
  /\ codes' = [codes EXCEPT ![email] =
       [code |-> minted + 1, issued |-> now, expires |-> now + CodeTTL]]
  /\ \/ spool' = spool \cup {[email |-> email, code |-> minted + 1, ts |-> now]}
     \/ spool' = spool
  /\ UNCHANGED now

Accepts(email, code) ==
  /\ codes[email] # NoCode
  /\ now <= codes[email].expires
  /\ code = codes[email].code

\* Mutant: the code is accepted and stays active.
VerifyKeeps(email, code) ==
  /\ Accepts(email, code)
  /\ UNCHANGED vars

\* Verify of the active code consumes it; any other outcome changes nothing.
Verify(email, code) ==
  /\ Accepts(email, code)
  /\ codes' = [codes EXCEPT ![email] = NoCode]
  /\ UNCHANGED <<minted, spool, now>>

\* A restart drops every pending code; the queue file stays.
Forget ==
  /\ Restarts
  /\ codes' = [email \in Emails |-> NoCode]
  /\ UNCHANGED <<minted, spool, now>>

Tick ==
  /\ now < MaxTime
  /\ now' = now + 1
  /\ UNCHANGED <<codes, minted, spool>>

Next ==
  \/ \E email \in Emails :
       \/ Issue(email)
       \/ \E code \in 1..MaxCodes : Verify(email, code)
  \/ Forget
  \/ Tick

Spec == Init /\ [][Next]_vars
=============================================================================
