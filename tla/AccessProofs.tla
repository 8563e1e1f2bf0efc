---------------------------- MODULE AccessProofs ----------------------------
(***************************************************************************)
(* Who is let in, in three parts: the panel's list of addresses, for any   *)
(* number of administrators who save at the same time; the two readings of *)
(* one list of backends, for any list and any request; and the grants, for *)
(* any services, paths, users and any length of the lists.                 *)
(***************************************************************************)
EXTENDS Access, Grants, SequenceTheorems, FiniteSetTheorems, WellFoundedInduction, TLAPS

\* The variables keep their types for every list of backends and every record
\* (handleAdminIPs, Reload, the login handlers and mutateUsers all write only
\* what they are given).
THEOREM TypeCorrect == Spec => []TypeOK
<1>1. Init => TypeOK
  <2> SUFFICES ASSUME Init PROVE TypeOK
    OBVIOUS
  <2>1. work \in [Workers -> Work]
    BY DEF Init, Resting, Work
  <2>2. /\ {backends, loaded} \subseteq Seq(Backends)
        /\ user \in Records \cup {Gone}
        /\ sess \in {"none", "half", "full"}
    BY ListsAssumption DEF Init
  <2> QED
    BY <2>1, <2>2 DEF Init, TypeOK
<1>2. TypeOK /\ [Next]_vars => TypeOK'
  <2> SUFFICES ASSUME TypeOK, [Next]_vars PROVE TypeOK'
    OBVIOUS
  <2> USE DEF TypeOK
  <2>1. ASSUME NEW s \in {"none", "half", "full"}, SignIn(s) PROVE TypeOK'
    BY <2>1 DEF SignIn, panel
  <2>2. ASSUME NEW u \in Records \cup {Gone}, UserChanged(u) PROVE TypeOK'
    BY <2>2 DEF UserChanged, panel
  <2>3. ASSUME NEW list \in Updates, Reload(list) PROVE TypeOK'
    BY <2>3, ListsAssumption DEF Reload, panel
  <2>4. CASE NginxLoads
    BY <2>4 DEF NginxLoads, panel
  <2>5. ASSUME NEW addr \in Addrs, NEW list \in SUBSET Addrs, AdminIPs(addr, list)
        PROVE  TypeOK'
    BY <2>5 DEF AdminIPs, Work, Workers
  <2>6. ASSUME NEW w \in Others, NEW pc \in {"load", "reload"}, OtherStarts(w, pc)
        PROVE  TypeOK'
    BY <2>6 DEF OtherStarts, Workers, Work
  <2>7. ASSUME NEW w \in Workers, LoadServices(w) PROVE TypeOK'
    BY <2>7 DEF LoadServices, Workers, Work
  <2>8. ASSUME NEW w \in Workers, SaveServices(w) PROVE TypeOK'
    <3>1. work' \in [Workers -> Work]
      BY <2>8 DEF SaveServices, Saved, Work
    <3> QED
      BY <2>8, <3>1 DEF SaveServices, Work, Workers
  <2>9. ASSUME NEW w \in Workers, SaveBreaks(w) PROVE TypeOK'
    <3>1. work' \in [Workers -> Work]
      BY <2>9 DEF SaveBreaks, Saved, Work, Resting
    <3> QED
      BY <2>9, <3>1 DEF SaveBreaks
  <2>10. ASSUME NEW w \in Workers, ReloadReads(w) PROVE TypeOK'
    BY <2>10 DEF ReloadReads, Work
  <2>11. ASSUME NEW w \in Workers, ReloadSwaps(w) PROVE TypeOK'
    BY <2>11 DEF ReloadSwaps, Work, Resting
  <2>12. ASSUME NEW w \in Workers, LoadFails(w) PROVE TypeOK'
    BY <2>12 DEF LoadFails, Work, Resting
  <2>13. CASE Restart
    BY <2>13 DEF Restart, Work, Resting
  <2>14. CASE UNCHANGED vars
    BY <2>14 DEF vars
  <2> QED
    BY <2>1, <2>2, <2>3, <2>4, <2>5, <2>6, <2>7, <2>8, <2>9, <2>10, <2>11, <2>12, <2>13,
       <2>14 DEF Next
<1> QED
  BY <1>1, <1>2, PTL DEF Spec

\* What the check in handleAdminIPs leaves behind: every list that is about to be
\* saved has its own sender in it.
SavesAdmitSender ==
  \A a \in Addrs : work[a].pc \in {"load", "save"} => a \in effectiveAdminIPs(work[a].list)

\* What nobody has saved over since it was read is what the file says.
FreshIsSaved ==
  /\ \A w \in Others : work[w].pc = "save" /\ work[w].fresh => work[w].list = savedIPs
  /\ \A w \in Workers : work[w].pc = "swap" /\ work[w].fresh => work[w].list = savedIPs

\* The last saver is on the list in the file.
FileAdmitsSaver ==
  ~ stale /\ savedIPs # Torn /\ saver # None => saver \in effectiveAdminIPs(savedIPs)

\* The file is in force, or a Reload that began after the last save is under way.
FileInForce ==
  ~ stale /\ savedIPs # Torn =>
    adminIPs = savedIPs \/ \E w \in Workers : work[w].pc \in {"reload", "swap"}

PanelInv == SavesAdmitSender /\ FreshIsSaved /\ FileAdmitsSaver /\ FileInForce

\* NGINX, a trusted proxy, always says where a visitor comes from.
LEMMA BehindProxy ==
  ASSUME NEW addr \in Addrs
  PROVE  clientIP(Proxy, addr) = addr
BY AccessAssumption DEF clientIP

\* Every step keeps the four.
LEMMA PanelStep == TypeOK /\ PanelInv /\ [Next]_vars => PanelInv'
<1> SUFFICES ASSUME TypeOK, PanelInv, [Next]_vars PROVE PanelInv'
  OBVIOUS
<1> USE DEF PanelInv, SavesAdmitSender, FreshIsSaved, FileAdmitsSaver, FileInForce,
            effectiveAdminIPs
<1>0. Addrs \subseteq Workers /\ Others \subseteq Workers /\ Addrs \cap Others = {}
  BY AccessAssumption DEF Workers
<1>t. work \in [Workers -> Work]
  BY DEF TypeOK
<1>1. ASSUME UNCHANGED panel PROVE PanelInv'
  BY <1>1 DEF panel
<1>2. ASSUME NEW addr \in Addrs, NEW list \in SUBSET Addrs, AdminIPs(addr, list)
      PROVE  PanelInv'
  <2>1. addr \in effectiveAdminIPs(list)
    BY <1>2, BehindProxy DEF AdminIPs
  <2>2. \A w \in Workers : w # addr => work'[w] = work[w]
    BY <1>2, <1>t DEF AdminIPs
  <2>3. /\ work'[addr] = [pc |-> "load", list |-> list, fresh |-> TRUE]
        /\ work[addr].pc = "idle"
        /\ UNCHANGED <<adminIPs, savedIPs, saver, stale>>
    BY <1>2, <1>t, <1>0 DEF AdminIPs
  <2> QED
    BY <2>1, <2>2, <2>3, <1>0
<1>3. ASSUME NEW w \in Others, NEW pc \in {"load", "reload"}, OtherStarts(w, pc)
      PROVE  PanelInv'
  <2>1. \A v \in Workers : v # w => work'[v] = work[v]
    BY <1>3, <1>t DEF OtherStarts
  <2>2. /\ work'[w] = [pc |-> pc, list |-> {}, fresh |-> TRUE]
        /\ work[w].pc = "idle"
        /\ UNCHANGED <<adminIPs, savedIPs, saver, stale>>
    BY <1>3, <1>t, <1>0 DEF OtherStarts
  <2> QED
    BY <2>1, <2>2, <1>0
<1>4. ASSUME NEW w \in Workers, LoadServices(w) PROVE PanelInv'
  <2>1. \A v \in Workers : v # w => work'[v] = work[v]
    BY <1>4, <1>t DEF LoadServices
  <2>2. /\ work'[w] = [pc |-> "save", fresh |-> TRUE,
                       list |-> IF w \in Addrs THEN work[w].list ELSE savedIPs]
        /\ work[w].pc = "load"
        /\ UNCHANGED <<adminIPs, savedIPs, saver, stale>>
    BY <1>4, <1>t DEF LoadServices
  <2> QED
    BY <2>1, <2>2, <1>0
<1>5. ASSUME NEW w \in Workers, SaveServices(w) PROVE PanelInv'
  <2>1. \A v \in Workers : v # w =>
          work'[v] = IF work[v].pc = "idle" THEN work[v] ELSE [work[v] EXCEPT !.fresh = FALSE]
    BY <1>5 DEF SaveServices, Saved
  <2>2. \A v \in Workers : v # w =>
          /\ work'[v].pc = work[v].pc
          /\ work'[v].list = work[v].list
          /\ work[v].pc # "idle" => ~ work'[v].fresh
    BY <2>1, <1>t DEF Work
  <2>3. /\ work'[w].pc = "reload"
        /\ work[w].pc = "save"
        /\ savedIPs' = work[w].list
        /\ savedIPs' # Torn
    <3>1. work'[w] = [work[w] EXCEPT !.pc = "reload", !.fresh = TRUE]
      BY <1>5 DEF SaveServices, Saved
    <3>2. work[w] \in Work
      BY <1>t
    <3> QED
      BY <1>5, <3>1, <3>2, AccessAssumption DEF SaveServices, Work
  <2>4. SavesAdmitSender'
    BY <2>2, <2>3, <1>0
  <2>5. FreshIsSaved'
    BY <2>2, <2>3, <1>0
  <2>6. FileAdmitsSaver'
    <3>1. CASE w \in Addrs
      <4>1. saver' = w
        BY <1>5, <3>1 DEF SaveServices
      <4> QED
        BY <4>1, <2>3, <3>1
    <3>2. CASE w \in Others
      <4>1. saver' = saver /\ stale' = (stale \/ ~ work[w].fresh)
        BY <1>5, <3>2, <1>0 DEF SaveServices
      <4>2. ~ stale' => savedIPs' = savedIPs
        BY <4>1, <2>3, <3>2
      <4> QED
        BY <4>1, <4>2, <2>3
    <3> QED
      BY <3>1, <3>2 DEF Workers
  <2>7. FileInForce'
    BY <2>3
  <2> QED
    BY <2>4, <2>5, <2>6, <2>7
<1>6. ASSUME NEW w \in Workers, SaveBreaks(w) PROVE PanelInv'
  <2>1. \A v \in Workers : v # w =>
          work'[v] = IF work[v].pc = "idle" THEN work[v] ELSE [work[v] EXCEPT !.fresh = FALSE]
    BY <1>6 DEF SaveBreaks, Saved
  <2>2. \A v \in Workers : v # w =>
          /\ work'[v].pc = work[v].pc
          /\ work'[v].list = work[v].list
          /\ work[v].pc # "idle" => ~ work'[v].fresh
    BY <2>1, <1>t DEF Work
  <2>3. work'[w].pc = "idle" /\ savedIPs' = Torn
    BY <1>6 DEF SaveBreaks, Saved, Resting
  <2> QED
    BY <2>2, <2>3, <1>0
<1>7. ASSUME NEW w \in Workers, ReloadReads(w) PROVE PanelInv'
  <2>1. \A v \in Workers : v # w => work'[v] = work[v]
    BY <1>7, <1>t DEF ReloadReads
  <2>2. /\ work'[w] = [pc |-> "swap", list |-> savedIPs, fresh |-> TRUE]
        /\ UNCHANGED <<adminIPs, savedIPs, saver, stale>>
    BY <1>7, <1>t DEF ReloadReads
  <2> QED
    BY <2>1, <2>2, <1>0
<1>8. ASSUME NEW w \in Workers, ReloadSwaps(w) PROVE PanelInv'
  <2>1. \A v \in Workers : v # w => work'[v] = work[v]
    BY <1>8, <1>t DEF ReloadSwaps
  <2>2. /\ work'[w].pc = "idle"
        /\ work[w].pc = "swap"
        /\ adminIPs' = work[w].list
        /\ stale' = (stale \/ ~ work[w].fresh)
        /\ UNCHANGED <<savedIPs, saver>>
    BY <1>8, <1>t DEF ReloadSwaps, Resting
  <2>3. SavesAdmitSender' /\ FreshIsSaved'
    BY <2>1, <2>2, <1>0
  <2>4. ~ stale' => ~ stale /\ work[w].fresh
    BY <2>2
  <2>5. FileAdmitsSaver'
    BY <2>2, <2>4
  <2>6. FileInForce'
    BY <2>2, <2>4
  <2> QED
    BY <2>3, <2>5, <2>6
<1>9. ASSUME NEW w \in Workers, LoadFails(w) PROVE PanelInv'
  <2>1. \A v \in Workers : v # w => work'[v] = work[v]
    BY <1>9, <1>t DEF LoadFails
  <2>2. /\ work'[w].pc = "idle"
        /\ savedIPs = Torn
        /\ UNCHANGED <<adminIPs, savedIPs, saver, stale>>
    BY <1>9, <1>t DEF LoadFails, Resting
  <2> QED
    BY <2>1, <2>2, <1>0
<1>10. CASE Restart
  <2>1. /\ \A w \in Workers : work'[w].pc = "idle"
        /\ adminIPs' = savedIPs
        /\ UNCHANGED <<savedIPs, saver, stale>>
    BY <1>10 DEF Restart, Resting
  <2> QED
    BY <2>1, <1>0
<1>11. CASE UNCHANGED vars
  BY <1>1, <1>11 DEF vars, panel
<1> QED
  BY <1>1, <1>2, <1>3, <1>4, <1>5, <1>6, <1>7, <1>8, <1>9, <1>10, <1>11
     DEF Next, SignIn, UserChanged, Reload, NginxLoads

\* The administrator who saved the list last can still reach the panel, however
\* many lists are checked and saved at the same time and whatever else is saved and
\* reloaded (handlers/admin.go:1293-1321, 831-845), unless something read before a
\* save came after it.  NotLockedOut is not inductive: what is saved was checked
\* earlier, and what is put in force was read earlier.
THEOREM SaverAdmitted == Spec => []NotLockedOut
<1>1. Init => PanelInv
  BY DEF Init, PanelInv, SavesAdmitSender, FreshIsSaved, FileAdmitsSaver, FileInForce,
         Resting, Workers
<1>2. PanelInv => NotLockedOut
  BY DEF PanelInv, FileAdmitsSaver, FileInForce, NotLockedOut
<1> QED
  BY <1>1, <1>2, TypeCorrect, PanelStep, PTL DEF Spec

-----------------------------------------------------------------------------
(* Numbers and paths.                                                      *)

LEMMA Least ==
  ASSUME NEW T, T \subseteq Nat, T # {}
  PROVE  \E x \in T : \A y \in T : x <= y
<1> DEFINE R == OpToRel(<, Nat)
<1>1. \E x \in T : \A y \in T : ~ (<<y, x>> \in R)
  BY WFMin, NatLessThanWellFounded, Zenon
<1>2. \A x, y \in Nat : <<y, x>> \in R <=> y < x
  BY DEF OpToRel
<1>3. PICK x \in T : \A y \in T : ~ (<<y, x>> \in R)
  BY <1>1
<1> HIDE DEF R
<1>4. \A y \in T : ~ (y < x)
  BY <1>2, <1>3
<1>5. \A y \in T : x <= y
  BY <1>4
<1> QED
  BY <1>5

LEMMA Greatest ==
  ASSUME NEW T, NEW b \in Nat, T \subseteq 0..b, T # {}
  PROVE  \E x \in T : \A y \in T : x >= y
<1> DEFINE D == {b - x : x \in T}
<1>1. D \subseteq Nat /\ D # {}
  <2>1. \A x \in 0..b : b - x \in Nat
    OBVIOUS
  <2>2. \A x \in T : b - x \in Nat
    BY <2>1
  <2>3. PICK x : x \in T
    OBVIOUS
  <2>4. b - x \in D
    BY <2>3
  <2>5. D \subseteq Nat
    BY <2>2
  <2> QED
    BY <2>4, <2>5
<1>2. PICK d \in D : \A e \in D : d <= e
  <2> HIDE DEF D
  <2> QED
    BY <1>1, Least
<1>3. PICK x \in T : d = b - x
  BY <1>2
<1>4. \A y \in T : b - y \in D
  OBVIOUS
<1> HIDE DEF D
<1>5. ASSUME NEW y \in T PROVE x >= y
  <2>1. b - x <= b - y
    BY <1>2, <1>3, <1>4
  <2>2. x \in 0..b /\ y \in 0..b
    BY <1>3
  <2> QED
    BY <2>1, <2>2
<1> QED
  BY <1>5

AnyPath == Seq(Parts)

\* A prefix is a sequence that agrees as far as it goes.
LEMMA PrefixIs ==
  ASSUME NEW s \in AnyPath, NEW t \in AnyPath
  PROVE  IsPrefix(s, t) <=> Len(s) <= Len(t) /\ \A i \in 1..Len(s) : s[i] = t[i]
<1> USE DEF AnyPath
<1>1. SubSeq(s, 1, Len(s)) = s
  BY SubSeqFull
<1>2. CASE Len(s) <= Len(t)
  <2>1. /\ SubSeq(t, 1, Len(s)) \in Seq(Parts)
        /\ Len(SubSeq(t, 1, Len(s))) = Len(s)
        /\ \A i \in 1..Len(s) : SubSeq(t, 1, Len(s))[i] = t[i]
    <3>1. \A i \in 1..Len(s) : t[i] \in Parts
      BY <1>2, ElementOfSeq, LenProperties
    <3> QED
      BY <3>1, LenProperties, SubSeqProperties
  <2>2. (\A i \in 1..Len(s) : s[i] = t[i]) => s = SubSeq(t, 1, Len(s))
    BY <2>1, SeqEqual
  <2> QED
    BY <1>1, <1>2, <2>1, <2>2 DEF IsPrefix
<1>3. CASE ~ (Len(s) <= Len(t))
  BY <1>3 DEF IsPrefix
<1> QED
  BY <1>2, <1>3

\* Of two prefixes of one sequence the shorter is a prefix of the longer.
LEMMA PrefixesNest ==
  ASSUME NEW s \in AnyPath, NEW t \in AnyPath, NEW r \in AnyPath,
         IsPrefix(s, r), IsPrefix(t, r), Len(s) <= Len(t)
  PROVE  IsPrefix(s, t) /\ (Len(s) = Len(t) => s = t)
<1>1. Len(s) \in Nat /\ Len(t) \in Nat
  BY LenProperties DEF AnyPath
<1>2. \A i \in 1..Len(s) : s[i] = r[i]
  BY PrefixIs
<1>3. \A i \in 1..Len(t) : t[i] = r[i]
  BY PrefixIs
<1>4. \A i \in 1..Len(s) : s[i] = t[i]
  BY <1>1, <1>2, <1>3
<1>5. IsPrefix(s, t)
  BY <1>4, PrefixIs
<1>6. Len(s) = Len(t) => s = t
  BY <1>4, SeqEqual DEF AnyPath
<1> QED
  BY <1>5, <1>6

LEMMA RootIs ==
  /\ Root \in AnyPath /\ Len(Root) = 1 /\ Root[1] = "/"
  /\ <<>> \in AnyPath /\ Len(<<>>) = 0 /\ Root # <<>>
<1>1. Root \in AnyPath
  BY ListsAssumption DEF AnyPath
<1>2. Len(Root) = 1 /\ Root[1] = "/"
  BY DEF Root
<1>3. <<>> \in AnyPath /\ Len(<<>>) = 0
  BY EmptySeq DEF AnyPath
<1> QED
  BY <1>1, <1>2, <1>3

\* The prefix of length n.
LEMMA Cut ==
  ASSUME NEW p \in AnyPath, NEW n \in 0..Len(p)
  PROVE  /\ SubSeq(p, 1, n) \in AnyPath /\ Len(SubSeq(p, 1, n)) = n
         /\ \A i \in 1..n : SubSeq(p, 1, n)[i] = p[i]
<1>1. Len(p) \in Nat
  BY LenProperties DEF AnyPath
<1>2. \A i \in 1..n : p[i] \in Parts
  BY <1>1, ElementOfSeq DEF AnyPath
<1> QED
  BY <1>1, <1>2, SubSeqProperties DEF AnyPath

\* What strings.TrimRight leaves: all before the slashes at the end.
LEMMA TrimmedIs ==
  ASSUME NEW p \in AnyPath
  PROVE  \E n \in 0..Len(p) :
           /\ Trimmed(p) = SubSeq(p, 1, n)
           /\ n # 0 => p[n] # "/"
           /\ \A i \in 1..Len(p) : i > n => p[i] = "/"
<1> DEFINE T == {0} \cup {i \in 1..Len(p) : p[i] # "/"}
<1>1. Len(p) \in Nat
  BY LenProperties DEF AnyPath
<1>2. T \subseteq 0..Len(p) /\ T # {}
  BY <1>1
<1>3. \E x \in T : \A y \in T : x >= y
  <2> HIDE DEF T
  <2> QED
    BY <1>1, <1>2, Greatest
<1>4. Max(T) \in T /\ \A y \in T : Max(T) >= y
  <2> HIDE DEF T
  <2> QED
    BY <1>3 DEF Max
<1>5. PICK n : n = Max(T)
  OBVIOUS
<1>6. n \in 0..Len(p) /\ (n # 0 => p[n] # "/")
  BY <1>2, <1>4, <1>5
<1>7. \A i \in 1..Len(p) : i > n => p[i] = "/"
  BY <1>1, <1>4, <1>5, <1>6
<1>8. Trimmed(p) = SubSeq(p, 1, n)
  BY <1>5 DEF Trimmed
<1> QED
  BY <1>6, <1>7, <1>8

\* What it leaves does not end in a slash, and stays as it is when trimmed again.
LEMMA TrimmedFacts ==
  ASSUME NEW p \in AnyPath
  PROVE  /\ Trimmed(p) \in AnyPath /\ Len(Trimmed(p)) <= Len(p)
         /\ IsPrefix(Trimmed(p), p)
         /\ Len(Trimmed(p)) # 0 => Trimmed(p)[Len(Trimmed(p))] # "/"
         /\ Trimmed(p) # Root
         /\ Trimmed(Trimmed(p)) = Trimmed(p)
<1>0. Len(p) \in Nat
  BY LenProperties DEF AnyPath
<1>1. PICK n \in 0..Len(p) : /\ Trimmed(p) = SubSeq(p, 1, n)
                             /\ n # 0 => p[n] # "/"
  BY TrimmedIs
<1>2. PICK t : t = Trimmed(p)
  OBVIOUS
<1>3. t \in AnyPath /\ Len(t) = n /\ \A i \in 1..n : t[i] = p[i]
  BY <1>1, <1>2, Cut
<1>4. n # 0 => t[n] # "/"
  BY <1>0, <1>1, <1>3
<1>5. IsPrefix(t, p)
  BY <1>0, <1>1, <1>3, PrefixIs
<1>6. t # Root
  <2> SUFFICES ASSUME t = Root PROVE FALSE
    OBVIOUS
  <2>1. n = 1
    BY <1>3, RootIs
  <2>2. t[1] # "/"
    BY <1>4, <2>1
  <2> QED
    BY <2>2, RootIs
<1>7. PICK m \in 0..Len(t) : /\ Trimmed(t) = SubSeq(t, 1, m)
                             /\ \A i \in 1..Len(t) : i > m => t[i] = "/"
  BY <1>3, TrimmedIs
<1>8. m = n
  BY <1>0, <1>3, <1>4, <1>7
<1>9. SubSeq(t, 1, n) = t
  BY <1>3, SubSeqFull DEF AnyPath
<1> QED
  BY <1>0, <1>1, <1>2, <1>3, <1>4, <1>5, <1>6, <1>7, <1>8, <1>9

LEMMA TrimmedRoot == Trimmed(Root) = <<>> /\ Trimmed(<<>>) = <<>>
<1>1. ASSUME NEW p, p = Root \/ p = <<>> PROVE Trimmed(p) = <<>>
  <2>1. p \in AnyPath /\ Len(p) \in {0, 1}
    <3>1. CASE p = Root
      BY <3>1, RootIs
    <3>2. CASE p = <<>>
      BY <3>2, RootIs
    <3> QED
      BY <1>1, <3>1, <3>2
  <2>2. PICK t : t = Trimmed(p)
    OBVIOUS
  <2>3. t \in AnyPath /\ Len(t) \in Nat /\ Len(t) <= Len(p) /\ IsPrefix(t, p) /\ t # Root
    BY <2>1, <2>2, TrimmedFacts, LenProperties DEF AnyPath
  <2>4. Len(t) # 1
    <3> SUFFICES ASSUME Len(t) = 1 PROVE FALSE
      OBVIOUS
    <3>1. p = Root
      BY <1>1, <2>1, <2>3, RootIs
    <3>2. IsPrefix(Root, Root)
      BY RootIs, PrefixIs
    <3> QED
      BY <2>3, <3>1, <3>2, PrefixesNest, RootIs
  <2>5. Len(t) = 0
    <3>1. \A m \in Nat, n \in {0, 1} : m <= n /\ m # 1 => m = 0
      OBVIOUS
    <3>2. Len(t) \in Nat /\ Len(p) \in {0, 1} /\ Len(t) <= Len(p) /\ Len(t) # 1
      BY <2>1, <2>3, <2>4
    <3> QED
      BY <3>1, <3>2, Zenon
  <2>6. t = <<>>
    BY <2>3, <2>5, EmptySeq DEF AnyPath
  <2> QED
    BY <2>2, <2>6
<1> QED
  BY <1>1

\* The path of a location: never empty.
LEMMA NormalIs ==
  ASSUME NEW p \in AnyPath
  PROVE  /\ Normal(p) \in AnyPath /\ Len(Normal(p)) \in Nat /\ Len(Normal(p)) >= 1
         /\ Len(Normal(p)) = IF Len(p) = 0 THEN 1 ELSE Len(p)
         /\ Trimmed(Normal(p)) = Trimmed(p)
<1>1. Len(p) \in Nat /\ (p # <<>> => Len(p) # 0)
  BY LenProperties, EmptySeq DEF AnyPath
<1>2. CASE p = <<>>
  BY <1>2, RootIs, TrimmedRoot DEF Normal
<1>3. CASE p # <<>>
  BY <1>1, <1>3 DEF Normal
<1> QED
  BY <1>2, <1>3

\* A path with a slash behind it.
LEMMA Slashed ==
  ASSUME NEW p \in AnyPath
  PROVE  /\ p \o Root \in AnyPath /\ Len(p \o Root) = Len(p) + 1
         /\ (p \o Root)[Len(p) + 1] = "/"
         /\ \A i \in 1..Len(p) : (p \o Root)[i] = p[i]
<1>1. Len(p) \in Nat
  BY LenProperties DEF AnyPath
<1> QED
  BY <1>1, ConcatProperties, RootIs DEF AnyPath

\* A path with the mark of an exact match before it.
LEMMA ExactIs ==
  ASSUME NEW p \in AnyPath
  PROVE  /\ Exactly(p)[1] = "= " /\ Len(Exactly(p)) = Len(p) + 1
         /\ \A i \in 1..Len(p) : Exactly(p)[i + 1] = p[i]
         /\ IsExact(Exactly(p)) /\ Exactly(p) \in AnyPath
<1>1. <<"= ">> \in Seq(Parts)
  BY ListsAssumption
<1>2. Len(p) \in Nat /\ p \in Seq(Parts)
  BY LenProperties DEF AnyPath
<1>3. PICK m, e : m = <<"= ">> /\ e = m \o p
  OBVIOUS
<1>4. m \in Seq(Parts) /\ Len(m) = 1 /\ m[1] = "= "
  BY <1>1, <1>3
<1>5. /\ e \in Seq(Parts) /\ Len(e) = Len(m) + Len(p)
      /\ \A i \in 1..(Len(m) + Len(p)) : e[i] = IF i <= Len(m) THEN m[i] ELSE p[i - Len(m)]
  BY <1>2, <1>3, <1>4, ConcatProperties
<1>6. e[1] = "= " /\ Len(e) = Len(p) + 1
  <2>1. 1 \in 1..(1 + Len(p)) /\ 1 + Len(p) = Len(p) + 1
    BY <1>2
  <2>2. e[1] = IF 1 <= 1 THEN m[1] ELSE p[1 - 1]
    BY <1>4, <1>5, <2>1
  <2>3. e[1] = m[1]
    BY <2>2
  <2>4. Len(e) = 1 + Len(p)
    BY <1>4, <1>5, Zenon
  <2> QED
    BY <1>4, <2>1, <2>3, <2>4, Zenon
<1>7. ASSUME NEW i \in 1..Len(p) PROVE e[i + 1] = p[i]
  <2>1. i + 1 \in 1..(1 + Len(p)) /\ ~ (i + 1 <= 1) /\ (i + 1) - 1 = i
    BY <1>2
  <2> QED
    BY <1>4, <1>5, <2>1
<1>8. e # <<>>
  <2>0. \A n \in Nat : n + 1 # 0
    OBVIOUS
  <2>1. Len(e) # 0
    BY <1>2, <1>6, <2>0, Zenon
  <2> QED
    BY <2>1, RootIs
<1>9. Exactly(p) = e
  BY <1>3 DEF Exactly
<1> QED
  BY <1>5, <1>6, <1>7, <1>8, <1>9 DEF IsExact, AnyPath

-----------------------------------------------------------------------------
(* The server block.                                                       *)

LEMMA BackendIs ==
  ASSUME NEW list \in Seq(Backends), NEW i \in 1..Len(list)
  PROVE  /\ list[i] \in Backends /\ i \in Nat
         /\ list[i].id \in Nat /\ list[i].routes \in Seq(Routes)
<1>1. list[i] \in Backends
  BY ElementOfSeq
<1>2. i \in Nat
  BY LenProperties
<1> QED
  BY <1>1, <1>2 DEF Backends

\* Where the routes of the backends S stand, and what a route is.
LEMMA PlaceIs ==
  ASSUME NEW list \in Seq(Backends), NEW S \in SUBSET (1..Len(list)), NEW p \in Places(list, S)
  PROVE  /\ p = <<p[1], p[2]>> /\ p[1] \in S /\ p[1] \in Nat /\ p[2] \in Nat
         /\ p[2] \in 1..Len(list[p[1]].routes)
         /\ RouteAt(list, p) \in Routes
         /\ RouteAt(list, p).path \in AnyPath /\ RouteAt(list, p).rule \in Rules
<1>1. PICK i \in S : p \in {i} \X (1..Len(list[i].routes))
  BY DEF Places
<1>2. p = <<p[1], p[2]>> /\ p[1] = i /\ p[2] \in 1..Len(list[i].routes)
  BY <1>1
<1>3. Len(list) \in Nat /\ i \in 1..Len(list)
  BY <1>1, LenProperties
<1>4. list[i] \in Backends
  BY <1>3, ElementOfSeq
<1>5. list[i].routes \in Seq(Routes)
  BY <1>4 DEF Backends
<1>6. Len(list[i].routes) \in Nat
  BY <1>5, LenProperties
<1>7. list[i].routes[p[2]] \in Routes
  BY <1>2, <1>5, ElementOfSeq
<1>8. RouteAt(list, p) \in Routes
  BY <1>2, <1>7 DEF RouteAt
<1>9. RouteAt(list, p).path \in AnyPath /\ RouteAt(list, p).rule \in Rules
  BY <1>8 DEF Routes, AnyPath
<1> QED
  BY <1>1, <1>2, <1>3, <1>6, <1>8, <1>9

\* Two routes at the same numbers are one.
LEMMA PlaceEqual ==
  ASSUME NEW list \in Seq(Backends), NEW S \in SUBSET (1..Len(list)),
         NEW p \in Places(list, S), NEW q \in Places(list, S), p[1] = q[1], p[2] = q[2]
  PROVE  p = q
<1>1. p = <<p[1], p[2]>> /\ q = <<q[1], q[2]>>
  BY PlaceIs
<1> QED
  BY <1>1

\* sort.SliceStable orders any two backends of the list.
LEMMA ByIdTotal ==
  ASSUME NEW list \in Seq(Backends), NEW i \in 1..Len(list), NEW n \in 1..Len(list), i # n
  PROVE  ById(list, i, n) \/ ById(list, n, i)
<1>1. list[i].id \in Nat /\ list[n].id \in Nat
  BY BackendIs
<1>2. i \in Nat /\ n \in Nat
  BY LenProperties
<1> QED
  BY <1>1, <1>2 DEF ById

\* One of them comes first.
LEMMA FirstOfIs ==
  ASSUME NEW list \in Seq(Backends), NEW S \in SUBSET (1..Len(list)), S # {}
  PROVE  FirstOf(list, S) \in S
<1>1. Len(list) \in Nat /\ \A i \in S : i \in Nat
  BY LenProperties
<1>2. \A i \in S : list[i].id \in Nat
  BY BackendIs
<1>3. PICK k \in {list[i].id : i \in S} : \A m \in {list[i].id : i \in S} : k <= m
  <2> DEFINE T == {list[i].id : i \in S}
  <2>1. T \subseteq Nat /\ T # {}
    BY <1>2
  <2> HIDE DEF T
  <2>2. \E k \in T : \A m \in T : k <= m
    BY <2>1, Least
  <2> QED
    BY <2>2 DEF T
<1>4. k \in Nat /\ \A n \in S : k <= list[n].id
  BY <1>2, <1>3
<1>5. PICK i \in {i \in S : list[i].id = k} : \A n \in {n \in S : list[n].id = k} : i <= n
  <2> DEFINE T == {i \in S : list[i].id = k}
  <2>1. T \subseteq Nat /\ T # {}
    BY <1>1, <1>3
  <2> HIDE DEF T
  <2>2. \E i \in T : \A n \in T : i <= n
    BY <2>1, Least
  <2> QED
    BY <2>2 DEF T
<1>6. ASSUME NEW n \in S \ {i} PROVE ById(list, i, n)
  <2>1. list[i].id = k /\ i \in Nat /\ n \in Nat /\ list[n].id \in Nat
    BY <1>1, <1>2, <1>5
  <2>2. CASE list[n].id = k
    <3>1. i <= n /\ i # n
      BY <1>5, <2>2
    <3> QED
      BY <2>1, <2>2, <3>1 DEF ById
  <2>3. CASE list[n].id # k
    <3>1. k <= list[n].id
      BY <1>4
    <3>2. list[i].id < list[n].id
      BY <1>4, <2>1, <2>3, <3>1
    <3> QED
      BY <3>2 DEF ById
  <2> QED
    BY <2>2, <2>3
<1>7. \E x \in S : \A n \in S \ {x} : ById(list, x, n)
  BY <1>5, <1>6
<1> QED
  BY <1>7, Zenon DEF FirstOf

\* The members change places, so no two of them take the same one.
LEMMA OrderIs ==
  ASSUME NEW list \in Seq(Backends), NEW G \in SUBSET (1..Len(list)),
         NEW i \in G, NEW n \in G, i # n
  PROVE  /\ orderGroup(list, G)[i] \in G /\ orderGroup(list, G)[n] \in G
         /\ orderGroup(list, G)[i] # orderGroup(list, G)[n]
<1>1. FirstOf(list, G) \in G
  BY FirstOfIs
<1>2. Primary(list, G) \in G
  <2>1. CASE {x \in G : ownsRoot(list[x])} = {}
    BY <1>1, <2>1 DEF Primary
  <2>2. CASE {x \in G : ownsRoot(list[x])} # {}
    <3> DEFINE S == {x \in G : ownsRoot(list[x])}
    <3>1. S \in SUBSET (1..Len(list)) /\ S # {} /\ S \subseteq G
      BY <2>2
    <3>2. Primary(list, G) = FirstOf(list, S)
      BY <2>2 DEF Primary
    <3> HIDE DEF S
    <3>3. FirstOf(list, S) \in S
      BY <3>1, FirstOfIs
    <3> QED
      BY <3>1, <3>2, <3>3
  <2> QED
    BY <2>1, <2>2
<1>3. PICK f, a : f = FirstOf(list, G) /\ a = Primary(list, G)
  OBVIOUS
<1>4. orderGroup(list, G) = [x \in G |-> IF x = a THEN f ELSE IF x = f THEN a ELSE x]
  BY <1>3 DEF orderGroup
<1> QED
  BY <1>1, <1>2, <1>3, <1>4

\* The loop writes any two routes one after the other.
LEMMA WrittenTotal ==
  ASSUME NEW list \in Seq(Backends), NEW G \in SUBSET (1..Len(list)),
         NEW p \in Places(list, G), NEW q \in Places(list, G), p # q
  PROVE  WrittenBefore(list, G, p, q) \/ WrittenBefore(list, G, q, p)
<1>1. p[1] \in G /\ q[1] \in G /\ p[2] \in Nat /\ q[2] \in Nat
  BY PlaceIs
<1>2. CASE p[1] = q[1]
  <2>1. p[2] # q[2]
    BY <1>2, PlaceEqual
  <2>2. p[2] < q[2] \/ q[2] < p[2]
    BY <1>1, <2>1
  <2> QED
    BY <1>2, <2>2 DEF WrittenBefore
<1>3. CASE p[1] # q[1]
  <2>1. PICK x, y : x = orderGroup(list, G)[p[1]] /\ y = orderGroup(list, G)[q[1]]
    OBVIOUS
  <2>2. x \in 1..Len(list) /\ y \in 1..Len(list) /\ x # y
    BY <1>1, <1>3, <2>1, OrderIs
  <2>3. ById(list, x, y) \/ ById(list, y, x)
    BY <2>2, ByIdTotal
  <2> QED
    BY <1>3, <2>1, <2>3 DEF WrittenBefore
<1> QED
  BY <1>2, <1>3

\* The path of a route as a location has it, and whether it was written before.
PathAt(list, p) == Normal(RouteAt(list, p).path)
Repeated(list, G, p) ==
  \/ PathAt(list, p) \in Reserved(list, G)
  \/ \E q \in Places(list, G) : WrittenBefore(list, G, q, p) /\ PathAt(list, q) = PathAt(list, p)

LEMMA ServerIs ==
  ASSUME NEW list, NEW G, NEW l
  PROVE  l \in writeServer(list, G) <=>
           \/ l \in Always
           \/ \E r \in Reserved(list, G) : l = GateLocation(r)
           \/ \E p \in Places(list, G) : ~ Repeated(list, G, p) /\ l = writeLocation(list, p)
BY DEF writeServer, Repeated, PathAt

LEMMA LocationIs ==
  ASSUME NEW list, NEW p
  PROVE  /\ writeLocation(list, p).path = PathAt(list, p)
         /\ writeLocation(list, p).to = "backend"
         /\ writeLocation(list, p).at = p
         /\ writeLocation(list, p).rule = RouteAt(list, p).rule
         /\ GateLocation(p).path = p
         /\ GateLocation(p).to = "gate"
BY DEF writeLocation, GateLocation, PathAt

\* The two locations that are always there.
LEMMA AlwaysIs ==
  ASSUME NEW l \in Always
  PROVE  /\ l.path \in AnyPath /\ l.to \in {"challenge", "internal"}
         /\ l.path \notin OwnPaths \cup {Admin}
         /\ l.path # Exactly(Login)
         /\ \A m \in Always : m.path = l.path => m = l
<1>1. Challenge \in AnyPath /\ Internal \in AnyPath /\ Login \in AnyPath
  BY ListsAssumption DEF OwnPaths, AnyPath
<1>2. Exactly(Internal) \in AnyPath
  BY <1>1, ExactIs
<1>3. Challenge[1] = "/" /\ Len(Challenge) = 5
  BY DEF Challenge
<1>4. Exactly(Internal)[1] = "= " /\ Exactly(Login)[1] = "= "
  BY <1>1, ExactIs
<1>5. Exactly(Internal)[3] = "__auth" /\ Exactly(Login)[3] = "login"
  <2>1. Len(Internal) = 2 /\ Internal[2] = "__auth" /\ Len(Login) = 2 /\ Login[2] = "login"
    BY DEF Internal, Login
  <2>2. ASSUME NEW p \in AnyPath, Len(p) = 2 PROVE Exactly(p)[2 + 1] = p[2]
    <3>1. \A i \in 1..Len(p) : Exactly(p)[i + 1] = p[i]
      BY ExactIs
    <3>2. \A n : n = 2 => 2 \in 1..n
      OBVIOUS
    <3> QED
      BY <2>2, <3>1, <3>2, Zenon
  <2>3. 2 + 1 = 3
    OBVIOUS
  <2> QED
    BY <1>1, <2>1, <2>2, <2>3
<1>6. Challenge \notin OwnPaths \cup {Admin} /\ Challenge # Exactly(Login)
  <2>1. \A r \in OwnPaths \cup {Admin} : Len(r) \in {2, 3}
    BY DEF OwnPaths, Admin, Login
  <2>2. Challenge # Exactly(Login)
    BY <1>3, <1>4
  <2> QED
    BY <1>3, <2>1, <2>2
<1>7. Exactly(Internal) \notin OwnPaths \cup {Admin} /\ Exactly(Internal) # Exactly(Login)
  <2>1. \A r \in OwnPaths \cup {Admin} : r[1] = "/"
    BY DEF OwnPaths, Admin, Login
  <2>2. Exactly(Internal) # Exactly(Login)
    BY <1>5
  <2> QED
    BY <1>4, <2>1, <2>2
<1>8. l.path \in {Challenge, Exactly(Internal)} /\ l.to \in {"challenge", "internal"}
  BY DEF Always
<1>9. Challenge # Exactly(Internal)
  BY <1>3, <1>4
<1>10. \A m \in Always : m.path = l.path => m = l
  BY <1>9 DEF Always
<1> QED
  BY <1>1, <1>2, <1>6, <1>7, <1>8, <1>10

\* One location to a path, whatever backends share the host, among those that are
\* always there and among the others.
LEMMA ServerDistinct ==
  ASSUME NEW list \in Seq(Backends), NEW G \in SUBSET (1..Len(list)),
         NEW l \in writeServer(list, G), NEW m \in writeServer(list, G), l.path = m.path,
         l \in Always <=> m \in Always
  PROVE  l = m
<1>1. ASSUME NEW r \in Reserved(list, G),
             NEW p \in Places(list, G), ~ Repeated(list, G, p)
      PROVE  GateLocation(r).path # writeLocation(list, p).path
  <2>1. PathAt(list, p) \notin Reserved(list, G)
    BY <1>1 DEF Repeated
  <2> QED
    BY <2>1, LocationIs
<1>2. ASSUME NEW p \in Places(list, G), ~ Repeated(list, G, p),
             NEW q \in Places(list, G), ~ Repeated(list, G, q),
             writeLocation(list, p).path = writeLocation(list, q).path
      PROVE  p = q
  <2>1. PathAt(list, p) = PathAt(list, q)
    BY <1>2, LocationIs
  <2>2. ~ WrittenBefore(list, G, p, q) /\ ~ WrittenBefore(list, G, q, p)
    BY <1>2, <2>1 DEF Repeated
  <2> QED
    BY <2>2, WrittenTotal
<1>3. ASSUME NEW r \in Reserved(list, G), l = GateLocation(r), l \notin Always PROVE l = m
  <2>1. PICK s \in Reserved(list, G) : m = GateLocation(s)
    BY <1>1, <1>3, ServerIs
  <2>2. r = s
    BY <1>3, <2>1, LocationIs
  <2> QED
    BY <1>3, <2>1, <2>2
<1>4. ASSUME NEW p \in Places(list, G), ~ Repeated(list, G, p), l = writeLocation(list, p),
             l \notin Always
      PROVE  l = m
  <2>1. PICK q \in Places(list, G) : ~ Repeated(list, G, q) /\ m = writeLocation(list, q)
    BY <1>1, <1>4, ServerIs
  <2> QED
    BY <1>2, <1>4, <2>1
<1>5. CASE l \in Always
  BY <1>5, AlwaysIs
<1> QED
  BY <1>3, <1>4, <1>5, ServerIs

\* The path of a location that is not always there is the gate's or a route's.
LEMMA OtherPaths ==
  ASSUME NEW list \in Seq(Backends), NEW G \in SUBSET (1..Len(list)),
         NEW l \in writeServer(list, G), l \notin Always
  PROVE  l.path \in OwnPaths \cup {Admin} \/ groupDeclaresPath(list, G, l.path)
<1>1. ASSUME NEW r \in Reserved(list, G), l = GateLocation(r) PROVE l.path \in OwnPaths \cup {Admin}
  BY <1>1, LocationIs DEF Reserved
<1>2. ASSUME NEW p \in Places(list, G), l = writeLocation(list, p)
      PROVE  groupDeclaresPath(list, G, l.path)
  <2>1. p[1] \in G /\ p[2] \in 1..Len(list[p[1]].routes)
    BY PlaceIs
  <2>2. p[2] \in DOMAIN list[p[1]].routes
    BY <2>1, BackendIs, LenProperties
  <2>3. RouteAt(list, p) \in ToSet(list[p[1]].routes)
    BY <2>2 DEF RouteAt, ToSet
  <2>4. l.path = Normal(RouteAt(list, p).path)
    BY <1>2, LocationIs DEF PathAt
  <2> QED
    BY <2>1, <2>3, <2>4 DEF groupDeclaresPath
<1> QED
  BY <1>1, <1>2, ServerIs

LEMMA GroupIs ==
  ASSUME NEW list \in Seq(Backends)
  PROVE  Group(list, Host) \in SUBSET (1..Len(list))
BY DEF Group

\* nginx -t never meets a location twice, for any list of services and any way they
\* share the host: the loop orders any two routes, whichever service becomes the
\* primary one, and drops the later of two equal paths (generate.go:72-87, 226-251),
\* except that it does not look at the two locations written before it begins.
THEOREM DistinctCorrect == Spec => []LocationsDistinct
<1>1. TypeOK => LocationsDistinct
  <2> SUFFICES ASSUME TypeOK,
                      \A l \in Always : ~ groupDeclaresPath(backends, Group(backends, Host), l.path),
                      NEW l \in Server(backends), NEW m \in Server(backends), l.path = m.path
               PROVE  l = m
    BY DEF LocationsDistinct, Accepted
  <2>1. PICK G : G = Group(backends, Host)
    OBVIOUS
  <2>2. backends \in Seq(Backends) /\ G \in SUBSET (1..Len(backends))
    BY <2>1, GroupIs DEF TypeOK
  <2>3. l \in writeServer(backends, G) /\ m \in writeServer(backends, G)
    BY <2>1 DEF Server
  <2>4. ASSUME NEW a \in Always, NEW o \in writeServer(backends, G), a.path = o.path
        PROVE  o \in Always
    <3>1. a.path \notin OwnPaths \cup {Admin} /\ ~ groupDeclaresPath(backends, G, a.path)
      BY <2>1, AlwaysIs
    <3> QED
      BY <2>2, <2>4, <3>1, OtherPaths
  <2>5. l \in Always <=> m \in Always
    BY <2>3, <2>4
  <2> QED
    BY <2>2, <2>3, <2>5, ServerDistinct
<1> QED
  BY <1>1, TypeCorrect, PTL

-----------------------------------------------------------------------------
(* The location NGINX picks.                                               *)

LEMMA ServerPaths ==
  ASSUME NEW list \in Seq(Backends), NEW G \in SUBSET (1..Len(list)),
         NEW l \in writeServer(list, G)
  PROVE  l.path \in AnyPath /\ l.to \in {"gate", "backend", "challenge", "internal"}
<1>1. ASSUME NEW r \in Reserved(list, G), l = GateLocation(r)
      PROVE  l.path \in AnyPath /\ l.to = "gate"
  <2>1. r \in OwnPaths \cup {Admin}
    BY DEF Reserved
  <2>2. r \in AnyPath
    BY <2>1, ListsAssumption DEF AnyPath
  <2> QED
    BY <1>1, <2>2, LocationIs
<1>2. ASSUME NEW p \in Places(list, G), l = writeLocation(list, p)
      PROVE  l.path \in AnyPath /\ l.to = "backend"
  <2>1. RouteAt(list, p).path \in AnyPath
    BY PlaceIs
  <2>2. PathAt(list, p) \in AnyPath
    BY <2>1, NormalIs DEF PathAt
  <2> QED
    BY <1>2, <2>2, LocationIs
<1> QED
  BY <1>1, <1>2, ServerIs, AlwaysIs

\* Of the locations the request begins with there is a longest.
LEMMA LongestIs ==
  ASSUME NEW L, L # {}, NEW req \in AnyPath, \A l \in L : l.path \in AnyPath /\ IsPrefix(l.path, req)
  PROVE  \E l \in L : \A m \in L : Len(l.path) >= Len(m.path)
<1> DEFINE T == {Len(l.path) : l \in L}
<1>1. Len(req) \in Nat
  BY LenProperties DEF AnyPath
<1>2. ASSUME NEW l \in L PROVE Len(l.path) \in 0..Len(req)
  <2>1. Len(l.path) \in Nat
    BY LenProperties DEF AnyPath
  <2>2. Len(l.path) <= Len(req)
    BY PrefixIs
  <2> QED
    BY <1>1, <2>1, <2>2
<1>3. T \subseteq 0..Len(req) /\ T # {}
  BY <1>2
<1>4. \E x \in T : \A y \in T : x >= y
  <2> HIDE DEF T
  <2> QED
    BY <1>1, <1>3, Greatest
<1> QED
  BY <1>4, Zenon

\* What Locate answers.
LEMMA LocateIs ==
  ASSUME NEW server, NEW req \in AnyPath, \A l \in server : l.path \in AnyPath
  PROVE  \/ /\ Locate(server, req) \in server
            /\ Locate(server, req).path = Exactly(req)
         \/ /\ Locate(server, req) = [to |-> "redirect"]
            /\ ~ \E l \in server : l.path = req
         \/ /\ Locate(server, req) = [to |-> "nowhere"]
            /\ ~ \E l \in server : IsPrefix(l.path, req)
         \/ /\ Locate(server, req) \in server
            /\ IsPrefix(Locate(server, req).path, req)
            /\ \A m \in server : IsPrefix(m.path, req)
                 => Len(Locate(server, req).path) >= Len(m.path)
            /\ (\E l \in server : l.path = req \o Root /\ l.to # "challenge") =>
                 \E l \in server : l.path = req
<1> DEFINE E == {l \in server : l.path = Exactly(req)}
           L == {l \in server : IsPrefix(l.path, req)}
           Turned == /\ \E l \in server : l.path = req \o Root /\ l.to # "challenge"
                     /\ ~ \E l \in server : l.path = req
<1>0. Locate(server, req) =
        IF E # {} THEN CHOOSE l \in E : TRUE
        ELSE IF Turned THEN [to |-> "redirect"]
        ELSE IF L = {} THEN [to |-> "nowhere"]
        ELSE CHOOSE l \in L : \A m \in L : Len(l.path) >= Len(m.path)
  BY Zenon DEF Locate
<1>e. CASE E # {}
  <2>1. Locate(server, req) = CHOOSE l \in E : TRUE
    BY <1>0, <1>e
  <2>2. Locate(server, req) \in E
    <3> HIDE DEF E
    <3> QED
      BY <1>e, <2>1
  <2> QED
    BY <2>2
<1> SUFFICES ASSUME E = {}
             PROVE  \/ /\ Locate(server, req) = [to |-> "redirect"]
                       /\ ~ \E l \in server : l.path = req
                    \/ /\ Locate(server, req) = [to |-> "nowhere"]
                       /\ ~ \E l \in server : IsPrefix(l.path, req)
                    \/ /\ Locate(server, req) \in server
                       /\ IsPrefix(Locate(server, req).path, req)
                       /\ \A m \in server : IsPrefix(m.path, req)
                            => Len(Locate(server, req).path) >= Len(m.path)
                       /\ (\E l \in server : l.path = req \o Root /\ l.to # "challenge") =>
                            \E l \in server : l.path = req
  BY <1>e
<1>1. Locate(server, req) =
        IF Turned THEN [to |-> "redirect"]
        ELSE IF L = {} THEN [to |-> "nowhere"]
        ELSE CHOOSE l \in L : \A m \in L : Len(l.path) >= Len(m.path)
  BY <1>0
<1>2. CASE Turned
  BY <1>1, <1>2
<1>3. CASE ~ Turned /\ L = {}
  <2>1. Locate(server, req) = [to |-> "nowhere"]
    BY <1>1, <1>3
  <2>2. ~ \E l \in server : IsPrefix(l.path, req)
    BY <1>3
  <2> QED
    BY <2>1, <2>2
<1>4. CASE ~ Turned /\ L # {}
  <2>1. Locate(server, req) = CHOOSE l \in L : \A m \in L : Len(l.path) >= Len(m.path)
    BY <1>1, <1>4
  <2>2. \A l \in L : l.path \in AnyPath /\ IsPrefix(l.path, req)
    OBVIOUS
  <2>3. /\ Locate(server, req) \in L
        /\ \A m \in L : Len(Locate(server, req).path) >= Len(m.path)
    <3> HIDE DEF L
    <3>1. \E l \in L : \A m \in L : Len(l.path) >= Len(m.path)
      BY <1>4, <2>2, LongestIs
    <3> QED
      BY <2>1, <3>1, Zenon
  <2> QED
    BY <1>4, <2>3
<1> QED
  BY <1>2, <1>3, <1>4

\* A request for a location's path gets that location, when no exact one answers it
\* and the path is not one of those that are always there.
LEMMA LocateExact ==
  ASSUME NEW list \in Seq(Backends), NEW G \in SUBSET (1..Len(list)),
         NEW l \in writeServer(list, G),
         \A m \in writeServer(list, G) : m.path # Exactly(l.path),
         \A m \in Always : m.path # l.path
  PROVE  Locate(writeServer(list, G), l.path) = l
<1>1. PICK server : server = writeServer(list, G)
  OBVIOUS
<1>2. PICK loc : loc = Locate(server, l.path)
  OBVIOUS
<1>3. \A m \in server : m.path \in AnyPath
  BY <1>1, ServerPaths
<1>4. l \in server /\ l.path \in AnyPath /\ Len(l.path) \in Nat /\ IsPrefix(l.path, l.path)
  <2>1. l.path \in AnyPath
    BY ServerPaths
  <2>2. Len(l.path) \in Nat
    BY <2>1, LenProperties DEF AnyPath
  <2> QED
    BY <1>1, <2>1, <2>2, PrefixIs
<1>5. /\ loc \in server /\ IsPrefix(loc.path, l.path)
      /\ Len(loc.path) >= Len(l.path)
  <2>1. PICK req : req = l.path
    OBVIOUS
  <2>2. \A m \in server : m.path # Exactly(req)
    BY <1>1, <2>1
  <2>3. ~ (~ \E m \in server : m.path = req) /\ ~ (~ \E m \in server : IsPrefix(m.path, req))
    BY <1>4, <2>1
  <2> QED
    BY <1>2, <1>3, <1>4, <2>1, <2>2, <2>3, LocateIs
<1>6. loc.path \in AnyPath /\ Len(loc.path) \in Nat /\ Len(loc.path) <= Len(l.path)
  <2>1. loc.path \in AnyPath
    BY <1>3, <1>5
  <2>2. Len(loc.path) \in Nat
    BY <2>1, LenProperties DEF AnyPath
  <2> QED
    BY <1>4, <1>5, <2>1, <2>2, PrefixIs
<1>7. Len(loc.path) = Len(l.path)
  BY <1>4, <1>5, <1>6
<1>8. loc.path = l.path
  BY <1>4, <1>5, <1>6, <1>7, PrefixesNest
<1>9. loc \notin Always /\ l \notin Always
  BY <1>8
<1> QED
  BY <1>1, <1>2, <1>5, <1>8, <1>9, ServerDistinct

\* Whoever is sent to the login page finds it on that host: a location that asks the
\* gate makes the block keep /login for the gate, and only an exact route can stand
\* before it (generate.go:236-251, 263-283), whatever the lists and however late NGINX
\* loads.
THEOREM LoginCorrect == Spec => []LoginReachable
<1>1. TypeOK => LoginReachable
  <2> SUFFICES ASSUME TypeOK, NEW req \in Requests, NEW addr \in Addrs,
                      Answer(Server(loaded), req, addr) = "login",
                      ~ groupDeclaresPath(loaded, Group(loaded, Host), Exactly(Login))
               PROVE  Locate(Server(loaded), Login).to = "gate"
    BY DEF LoginReachable
  <2>1. PICK G : G = Group(loaded, Host)
    OBVIOUS
  <2>2. loaded \in Seq(Backends) /\ G \in SUBSET (1..Len(loaded))
    BY <2>1, GroupIs DEF TypeOK
  <2>3. Server(loaded) = writeServer(loaded, G)
    BY <2>1 DEF Server
  <2>4. PICK loc : loc = Locate(writeServer(loaded, G), req)
    OBVIOUS
  <2>5. req \in AnyPath
    BY ListsAssumption DEF AnyPath
  <2>6. \A l \in writeServer(loaded, G) :
          l.path \in AnyPath /\ l.to \in {"gate", "backend", "challenge", "internal"}
    BY <2>2, ServerPaths
  <2>7. loc.to \in {"redirect", "nowhere"} \/ loc \in writeServer(loaded, G)
    BY <2>4, <2>5, <2>6, LocateIs
  <2>8. loc.to = "backend" /\ loc.rule # "public"
    BY <2>3, <2>4, <2>6, <2>7 DEF Answer
  <2>9. loc \in writeServer(loaded, G)
    BY <2>7, <2>8
  <2>10. PICK p \in Places(loaded, G) : loc = writeLocation(loaded, p)
    <3>1. \A r \in Reserved(loaded, G) : loc # GateLocation(r)
      BY <2>8, LocationIs
    <3>2. loc \notin Always
      BY <2>8, AlwaysIs
    <3> QED
      BY <2>9, <3>1, <3>2, ServerIs
  <2>11. RouteAt(loaded, p).rule # "public"
    BY <2>8, <2>10, LocationIs
  <2>12. groupUsesAuth(loaded, G)
    <3>1. p[1] \in G /\ p[2] \in 1..Len(loaded[p[1]].routes)
      BY <2>2, PlaceIs
    <3>2. p[2] \in DOMAIN loaded[p[1]].routes
      BY <2>2, <3>1, BackendIs, LenProperties
    <3>3. RouteAt(loaded, p) \in ToSet(loaded[p[1]].routes)
      BY <3>2 DEF RouteAt, ToSet
    <3> QED
      BY <2>11, <3>1, <3>3 DEF groupUsesAuth, backendUsesAuth
  <2>13. Login \in Reserved(loaded, G)
    BY <2>12 DEF Reserved, OwnPaths
  <2>14. GateLocation(Login) \in writeServer(loaded, G)
    BY <2>13, ServerIs
  <2>15. ASSUME NEW m \in writeServer(loaded, G) PROVE m.path # Exactly(Login)
    <3>1. Login \in AnyPath
      BY ListsAssumption DEF OwnPaths, AnyPath
    <3>2. \A r \in OwnPaths \cup {Admin} : r[1] = "/"
      BY DEF OwnPaths, Admin, Login
    <3>3. Exactly(Login) \notin OwnPaths \cup {Admin}
      BY <3>1, <3>2, ExactIs
    <3>4. m \notin Always => m.path # Exactly(Login)
      BY <2>1, <2>2, <3>3, OtherPaths
    <3> QED
      BY <3>4, AlwaysIs
  <2>16. \A m \in Always : m.path # Login
    BY AlwaysIs DEF OwnPaths
  <2>17. Locate(writeServer(loaded, G), GateLocation(Login).path) = GateLocation(Login)
    <3>1. GateLocation(Login).path = Login
      BY LocationIs
    <3> QED
      BY <2>2, <2>14, <2>15, <2>16, <3>1, LocateExact
  <2> QED
    BY <2>3, <2>17, LocationIs
<1> QED
  BY <1>1, TypeCorrect, PTL

-----------------------------------------------------------------------------
(* The grant a route asks for.                                             *)

\* What lies under a path begins with it.
LEMMA Under ==
  ASSUME NEW p \in AnyPath, NEW q \in AnyPath, IsPrefix(p \o Root, q)
  PROVE  IsPrefix(p, q) /\ Len(p) < Len(q) /\ q[Len(p) + 1] = "/"
<1>1. Len(p) \in Nat /\ Len(q) \in Nat
  BY LenProperties DEF AnyPath
<1>2. PICK s : s = p \o Root
  OBVIOUS
<1>3. /\ s \in AnyPath /\ Len(s) = Len(p) + 1 /\ s[Len(p) + 1] = "/"
      /\ \A i \in 1..Len(p) : s[i] = p[i]
  BY <1>2, Slashed
<1>4. Len(s) <= Len(q) /\ \A i \in 1..Len(s) : s[i] = q[i]
  BY <1>2, <1>3, PrefixIs
<1>5. Len(p) < Len(q)
  BY <1>1, <1>3, <1>4
<1>6. \A i \in 1..Len(p) : p[i] = q[i]
  BY <1>1, <1>3, <1>4
<1>7. IsPrefix(p, q)
  BY <1>1, <1>5, <1>6, PrefixIs
<1>8. q[Len(p) + 1] = "/"
  <2>1. Len(p) + 1 \in 1..Len(s)
    BY <1>1, <1>3
  <2> QED
    BY <1>3, <1>4, <2>1
<1> QED
  BY <1>5, <1>7, <1>8

\* A set of prefixes of one path has a longest, and it is under all the others.
LEMMA NearestIs ==
  ASSUME NEW A, A # {}, NEW t \in AnyPath, \A a \in A : a \in AnyPath /\ IsPrefix(a, t),
         NEW c, c = CHOOSE a \in A : \A b \in A : Len(a) >= Len(b)
  PROVE  c \in A /\ \A b \in A : IsPrefix(b, c)
<1> DEFINE T == {Len(a) : a \in A}
<1>1. Len(t) \in Nat
  BY LenProperties DEF AnyPath
<1>2. ASSUME NEW a \in A PROVE Len(a) \in 0..Len(t) /\ Len(a) \in Nat
  <2>1. Len(a) \in Nat
    BY LenProperties DEF AnyPath
  <2>2. Len(a) <= Len(t)
    BY PrefixIs
  <2> QED
    BY <1>1, <2>1, <2>2
<1>3. T \subseteq 0..Len(t) /\ T # {}
  BY <1>2
<1>4. \E x \in T : \A y \in T : x >= y
  <2> HIDE DEF T
  <2> QED
    BY <1>1, <1>3, Greatest
<1>5. \E a \in A : \A b \in A : Len(a) >= Len(b)
  BY <1>4, Zenon
<1>6. c \in A /\ \A b \in A : Len(c) >= Len(b)
  BY <1>5, Zenon
<1>7. ASSUME NEW b \in A PROVE IsPrefix(b, c)
  <2>1. Len(b) <= Len(c)
    BY <1>2, <1>6
  <2> QED
    BY <1>6, <2>1, PrefixesNest
<1> QED
  BY <1>6, <1>7

\* A route takes the list of its nearest ancestor that has one, for every service and
\* every set of routes, in whatever order they are written (models/config.go:323-346):
\* all that match begin the same path, so the longest is under all the others.
THEOREM NearestCorrect == Spec => []InheritsNearest
<1>1. TypeOK => InheritsNearest
  <2> SUFFICES ASSUME TypeOK, NEW be \in ToSet(backends), NEW rt \in ToSet(be.routes)
               PROVE  LET own == {r.path : r \in {r \in ToSet(be.routes) : r.own}} \ {<<>>, Root}
                          up == {p \in own : p = rt.path \/ IsPrefix(p \o Root, rt.path)}
                      IN  (\A p \in own : p = Trimmed(p)) =>
                            IF up = {} THEN EffectiveGrantID(be, rt) = <<be.id>>
                            ELSE \E p \in up : /\ EffectiveGrantID(be, rt) = <<be.id, p>>
                                               /\ \A q \in up : IsPrefix(q, p)
    BY DEF InheritsNearest
  <2> DEFINE own == {r.path : r \in {r \in ToSet(be.routes) : r.own}} \ {<<>>, Root}
             up == {p \in own : p = rt.path \/ IsPrefix(p \o Root, rt.path)}
             anc == {Trimmed(r.path) : r \in {r \in ToSet(be.routes) :
                       r.own /\ r.path \notin {<<>>, Root} /\ pathMatches(rt.path, r.path)}}
             c == CHOOSE a \in anc : \A b \in anc : Len(a) >= Len(b)
             id == EffectiveGrantID(be, rt)
  <2> SUFFICES ASSUME \A p \in own : p = Trimmed(p)
               PROVE  IF up = {} THEN id = <<be.id>>
                      ELSE \E p \in up : id = <<be.id, p>> /\ \A q \in up : IsPrefix(q, p)
    OBVIOUS
  <2>1. id = IF rt.own THEN GrantID(be.id, rt.path)
             ELSE IF anc = {} THEN <<be.id>> ELSE GrantID(be.id, c)
    BY Zenon DEF EffectiveGrantID
  <2>2. be.routes \in Seq(Routes)
    <3>1. backends \in Seq(Backends)
      BY DEF TypeOK
    <3>2. \A i \in DOMAIN backends : backends[i] \in Backends
      BY <3>1, LenProperties
    <3>3. be \in Backends
      BY <3>2 DEF ToSet
    <3> QED
      BY <3>3 DEF Backends
  <2>3. ASSUME NEW r \in ToSet(be.routes) PROVE r.path \in AnyPath /\ r.own \in BOOLEAN
    <3>1. \A i \in DOMAIN be.routes : be.routes[i] \in Routes
      BY <2>2, LenProperties
    <3>2. r \in Routes
      BY <3>1 DEF ToSet
    <3> QED
      BY <3>2 DEF Routes, AnyPath
  <2>4. \A p \in own : p \in AnyPath /\ p # <<>> /\ p # Root
    BY <2>3
  <2>5. anc = up
    <3>1. ASSUME NEW a \in anc PROVE a \in up
      <4>1. PICK r \in ToSet(be.routes) :
              r.own /\ r.path \notin {<<>>, Root} /\ pathMatches(rt.path, r.path) /\ a = Trimmed(r.path)
        OBVIOUS
      <4>2. r.path \in own
        BY <4>1
      <4>3. a = r.path
        BY <4>1, <4>2
      <4>4. rt.path = a \/ IsPrefix(a \o Root, rt.path)
        BY <4>1, <4>3 DEF pathMatches
      <4> QED
        BY <4>2, <4>3, <4>4
    <3>2. ASSUME NEW a \in up PROVE a \in anc
      <4>1. PICK r \in ToSet(be.routes) : r.own /\ a = r.path /\ r.path \notin {<<>>, Root}
        OBVIOUS
      <4>2. a = Trimmed(r.path)
        BY <4>1
      <4>3. pathMatches(rt.path, r.path)
        BY <4>1, <4>2 DEF pathMatches
      <4> QED
        BY <4>1, <4>2, <4>3
    <3> QED
      BY <3>1, <3>2
  <2>6. \A a \in up : a \in own /\ a \in AnyPath /\ IsPrefix(a, rt.path)
    <3> SUFFICES ASSUME NEW a \in up PROVE IsPrefix(a, rt.path)
      BY <2>4
    <3>1. a \in AnyPath /\ rt.path \in AnyPath
      BY <2>3, <2>4
    <3>2. CASE a = rt.path
      <4>1. Len(a) \in Nat
        BY <3>1, LenProperties DEF AnyPath
      <4> QED
        BY <3>1, <3>2, <4>1, PrefixIs
    <3>3. CASE IsPrefix(a \o Root, rt.path)
      BY <3>1, <3>3, Under
    <3> QED
      BY <3>2, <3>3
  <2>7. ASSUME NEW p \in own PROVE GrantID(be.id, p) = <<be.id, p>>
    BY <2>4 DEF GrantID
  <2>8. CASE rt.own /\ rt.path \in {<<>>, Root}
    <3>1. up = {}
      <4> SUFFICES ASSUME NEW a \in up PROVE FALSE
        OBVIOUS
      <4>1. a \in AnyPath /\ a # <<>> /\ a # rt.path
        BY <2>4, <2>8
      <4>2. Len(a) < Len(rt.path)
        BY <2>3, <4>1, Under
      <4>3. Len(rt.path) \in {0, 1}
        <5>1. CASE rt.path = <<>>
          BY <5>1, RootIs
        <5>2. CASE rt.path = Root
          BY <5>2, RootIs
        <5> QED
          BY <2>8, <5>1, <5>2
      <4>4. Len(a) \in Nat \ {0}
        BY <4>1, EmptySeq DEF AnyPath
      <4>5. \A m \in Nat \ {0}, n \in {0, 1} : ~ (m < n)
        OBVIOUS
      <4> QED
        BY <4>2, <4>3, <4>4, <4>5, Zenon
    <3>2. id = <<be.id>>
      BY <2>1, <2>8 DEF GrantID
    <3> QED
      BY <3>1, <3>2
  <2>9. CASE rt.own /\ rt.path \notin {<<>>, Root}
    <3>1. rt.path \in own
      BY <2>9
    <3>2. rt.path \in up
      BY <3>1
    <3>3. id = <<be.id, rt.path>>
      BY <2>1, <2>7, <2>9, <3>1
    <3> QED
      BY <2>6, <3>2, <3>3
  <2>10. CASE ~ rt.own /\ up = {}
    BY <2>1, <2>5, <2>10
  <2>11. CASE ~ rt.own /\ up # {}
    <3>1. rt.path \in AnyPath
      BY <2>3
    <3>2. PICK d : d = CHOOSE a \in up : \A b \in up : Len(a) >= Len(b)
      OBVIOUS
    <3>3. c = d
      BY <2>5, <3>2
    <3>4. d \in up /\ \A b \in up : IsPrefix(b, d)
      <4>1. \A a \in up : a \in AnyPath /\ IsPrefix(a, rt.path)
        BY <2>6
      <4> HIDE DEF up
      <4> QED
        BY <2>11, <3>1, <3>2, <4>1, NearestIs
    <3>5. id = GrantID(be.id, d)
      BY <2>1, <2>5, <2>11, <3>3
    <3>6. id = <<be.id, d>>
      BY <2>6, <2>7, <3>4, <3>5
    <3> QED
      BY <3>4, <3>6
  <2>12. rt.own \in BOOLEAN
    BY <2>3
  <2> QED
    BY <2>8, <2>9, <2>10, <2>11, <2>12
<1> QED
  BY <1>1, TypeCorrect, PTL

-----------------------------------------------------------------------------
(* The route the gate decides by.                                          *)

\* The gate takes the mark of an exact match for a part of the path, so that no
\* request falls under it.
LEMMA ExactNeverMatches ==
  ASSUME NEW path \in AnyPath, IsExact(path), NEW req \in AnyPath, IsPrefix(Root, req)
  PROVE  ~ pathMatches(req, path)
<1>1. path[1] = "= " /\ path # <<>> /\ path # Root
  BY RootIs DEF IsExact
<1>2. Len(path) \in Nat \ {0}
  BY <1>1, EmptySeq, LenProperties DEF AnyPath
<1>3. PICK n \in 0..Len(path) : /\ Trimmed(path) = SubSeq(path, 1, n)
                                /\ \A i \in 1..Len(path) : i > n => path[i] = "/"
  BY TrimmedIs
<1>4. n \in Nat \ {0} /\ 1 \in 1..n
  <2>1. n \in Nat /\ 1 \in 1..Len(path)
    BY <1>2
  <2>2. ~ (1 > n)
    BY <1>1, <1>3, <2>1
  <2> QED
    BY <2>1, <2>2
<1>5. PICK t : t = Trimmed(path)
  OBVIOUS
<1>6. t \in AnyPath /\ Len(t) = n /\ t[1] = "= "
  <2>1. /\ SubSeq(path, 1, n) \in AnyPath /\ Len(SubSeq(path, 1, n)) = n
        /\ \A i \in 1..n : SubSeq(path, 1, n)[i] = path[i]
    BY Cut
  <2> QED
    BY <1>1, <1>3, <1>4, <1>5, <2>1
<1>7. req[1] = "/"
  BY RootIs, PrefixIs
<1>8. ~ IsPrefix(t, req)
  <2>1. IsPrefix(t, req) => t[1] = req[1]
    BY <1>4, <1>6, PrefixIs
  <2> QED
    BY <1>6, <1>7, <2>1
<1>9. ~ IsPrefix(t \o Root, req)
  BY <1>6, <1>8, Under
<1>10. req # t
  BY <1>6, <1>7
<1> QED
  BY <1>1, <1>5, <1>9, <1>10 DEF pathMatches

\* A backend with no routes adds no place.
LEMMA MatchingIs ==
  ASSUME NEW list \in Seq(Backends), NEW req
  PROVE  Matching(list, Host, req) =
           {p \in Places(list, Group(list, Host)) : pathMatches(req, RouteAt(list, p).path)}
<1> DEFINE H == {i \in 1..Len(list) : list[i].host = Host}
<1>1. ASSUME NEW i \in H, NEW j \in 1..Len(list[i].routes) PROVE i \in Group(list, Host)
  <2>1. list[i].routes # <<>>
    BY <1>1, EmptySeq, BackendIs
  <2> QED
    BY <2>1 DEF Group
<1>2. Places(list, H) = Places(list, Group(list, Host))
  <2>1. ASSUME NEW p \in Places(list, H) PROVE p \in Places(list, Group(list, Host))
    BY <1>1, <2>1 DEF Places
  <2>2. Group(list, Host) \subseteq H
    BY DEF Group
  <2>3. Places(list, Group(list, Host)) \subseteq Places(list, H)
    <3> HIDE DEF H
    <3> QED
      BY <2>2 DEF Places
  <2> QED
    BY <2>1, <2>3
<1>3. Matching(list, Host, req) = {p \in Places(list, H) : pathMatches(req, RouteAt(list, p).path)}
  BY DEF Matching
<1> QED
  BY <1>2, <1>3, Zenon

\* A match that is longer than every other is the answer.
LEMMA ResolveIs ==
  ASSUME NEW list \in Seq(Backends), NEW req,
         NEW a \in Places(list, Group(list, Host)),
         pathMatches(req, RouteAt(list, a).path),
         \A q \in Places(list, Group(list, Host)) :
           q # a /\ pathMatches(req, RouteAt(list, q).path)
             => Len(RouteAt(list, a).path) > Len(RouteAt(list, q).path)
  PROVE  Resolve(list, Host, req) = a
<1> DEFINE len(p) == Len(RouteAt(list, p).path)
           Best(M, p) == \A q \in M \ {p} :
                           len(p) > len(q) \/ (len(p) = len(q) /\ Earlier(p, q))
<1>1. PICK M : M = Matching(list, Host, req)
  OBVIOUS
<1>2. /\ a \in M
      /\ \A q \in M \ {a} : len(a) > len(q)
      /\ \A q \in M : q \in Places(list, Group(list, Host))
  BY <1>1, MatchingIs
<1>3. \A q \in M : len(q) \in Nat
  <2> SUFFICES ASSUME NEW q \in M PROVE len(q) \in Nat
    OBVIOUS
  <2>1. RouteAt(list, q).path \in AnyPath
    BY <1>2, GroupIs, PlaceIs
  <2> QED
    BY <2>1, LenProperties DEF AnyPath
<1>4. Resolve(list, Host, req) = CHOOSE p \in M : Best(M, p)
  <2>1. M # {}
    BY <1>2
  <2> QED
    BY <1>1, <2>1, Zenon DEF Resolve
<1>5. Best(M, a)
  BY <1>2
<1>6. ASSUME NEW p \in M, Best(M, p), p # a PROVE FALSE
  <2>1. len(p) > len(a) \/ len(p) = len(a)
    BY <1>2, <1>6
  <2>2. len(a) > len(p)
    BY <1>2, <1>6
  <2>3. len(a) \in Nat /\ len(p) \in Nat
    BY <1>2, <1>3
  <2> HIDE DEF len
  <2> QED
    BY <2>1, <2>2, <2>3
<1>7. Resolve(list, Host, req) \in M /\ Best(M, Resolve(list, Host, req))
  <2> HIDE DEF Best
  <2> QED
    BY <1>2, <1>4, <1>5, Zenon
<1> QED
  BY <1>6, <1>7

\* What Tidy says of a route of the host whose path is no exact match.
LEMMA TidyIs ==
  ASSUME NEW list \in Seq(Backends), Tidy(list), NEW p \in Prefixed(list)
  PROVE  LET path == RouteAt(list, p).path
         IN  /\ p \in Places(list, Group(list, Host))
             /\ path \in AnyPath /\ Trimmed(path) \in AnyPath
             /\ path = <<>> \/ IsPrefix(Root, path)
             /\ path = Trimmed(path) \/ path = Trimmed(path) \o Root
             /\ \A q \in Prefixed(list) :
                  Trimmed(RouteAt(list, q).path) = Trimmed(path) => q = p
<1>0. p \in Places(list, Group(list, Host))
  BY DEF Prefixed
<1>1. RouteAt(list, p).path \in AnyPath
  BY <1>0, GroupIs, PlaceIs
<1>2. Trimmed(RouteAt(list, p).path) \in AnyPath
  BY <1>1, TrimmedFacts
<1> QED
  BY <1>0, <1>1, <1>2 DEF Tidy

\* A route that matches a request is no exact one.
LEMMA MatchPrefixed ==
  ASSUME NEW list \in Seq(Backends), NEW q \in Places(list, Group(list, Host)),
         NEW req \in AnyPath, IsPrefix(Root, req), pathMatches(req, RouteAt(list, q).path)
  PROVE  q \in Prefixed(list)
<1>1. RouteAt(list, q).path \in AnyPath
  BY GroupIs, PlaceIs
<1>2. ~ IsExact(RouteAt(list, q).path)
  BY <1>1, ExactNeverMatches
<1> QED
  BY <1>2 DEF Prefixed

\* The path of every such route is a location's, its own or the gate's.
LEMMA Written ==
  ASSUME NEW list \in Seq(Backends), Tidy(list), NEW q \in Prefixed(list)
  PROVE  \E l \in writeServer(list, Group(list, Host)) :
           l.path = PathAt(list, q) /\ l.to # "challenge"
<1>1. PICK G : G = Group(list, Host)
  OBVIOUS
<1>0. q \in Places(list, G) /\ RouteAt(list, q).path \in AnyPath
  BY <1>1, TidyIs
<1>2. CASE ~ Repeated(list, G, q)
  <2>1. writeLocation(list, q) \in writeServer(list, G)
    BY <1>0, <1>2, ServerIs
  <2> QED
    BY <1>1, <2>1, LocationIs
<1>3. CASE PathAt(list, q) \in Reserved(list, G)
  <2>1. GateLocation(PathAt(list, q)) \in writeServer(list, G)
    BY <1>3, ServerIs
  <2> QED
    BY <1>1, <2>1, LocationIs
<1>4. ASSUME NEW r \in Places(list, G), WrittenBefore(list, G, r, q),
             PathAt(list, r) = PathAt(list, q)
      PROVE  FALSE
  <2>1. RouteAt(list, r).path \in AnyPath
    BY <1>1, GroupIs, PlaceIs
  <2>2. Trimmed(RouteAt(list, r).path) = Trimmed(RouteAt(list, q).path)
    BY <1>0, <1>4, <2>1, NormalIs DEF PathAt
  <2>3. r \in Prefixed(list)
    <3>1. ~ IsExact(RouteAt(list, q).path)
      BY DEF Prefixed
    <3>2. RouteAt(list, r).path = RouteAt(list, q).path \/ RouteAt(list, r).path \in {<<>>, Root}
      BY <1>4 DEF PathAt, Normal
    <3>3. ~ IsExact(RouteAt(list, r).path)
      BY <3>1, <3>2, RootIs DEF IsExact
    <3> QED
      BY <1>1, <3>3 DEF Prefixed
  <2>4. r = q
    BY <1>1, <2>2, <2>3, TidyIs
  <2>5. q[2] \in Nat
    BY <1>0, <1>1, GroupIs, PlaceIs
  <2>6. q[2] < q[2]
    BY <1>4, <2>4 DEF WrittenBefore
  <2> QED
    BY <2>5, <2>6
<1> QED
  BY <1>2, <1>3, <1>4 DEF Repeated

\* The two matching rules agree: another route that matches is a shorter location, or
\* lacks the request's slash, and then NGINX turns the request away.
LEMMA RoutesAgree ==
  ASSUME NEW list \in Seq(Backends), Tidy(list), NEW req \in Requests, Aligned(list, req),
         Locate(Server(list), req).to = "backend", ~ IsExact(Locate(Server(list), req).path)
  PROVE  Resolve(list, Host, req) = Locate(Server(list), req).at
<1>1. PICK G, server, loc :
        /\ G = Group(list, Host) /\ server = writeServer(list, G) /\ loc = Locate(server, req)
  OBVIOUS
<1>2. Server(list) = server /\ loc = Locate(Server(list), req) /\ G \in SUBSET (1..Len(list))
  BY <1>1, GroupIs DEF Server
<1>3. req \in AnyPath /\ Len(req) \in Nat /\ IsPrefix(Root, req)
  BY ListsAssumption, LenProperties DEF AnyPath
<1>4. \A l \in server : l.path \in AnyPath /\ Len(l.path) \in Nat
  BY <1>1, <1>2, ServerPaths, LenProperties DEF AnyPath
<1>5. /\ loc \in server /\ IsPrefix(loc.path, req)
      /\ \A m \in server : IsPrefix(m.path, req) => Len(loc.path) >= Len(m.path)
      /\ (\E l \in server : l.path = req \o Root /\ l.to # "challenge") =>
           \E l \in server : l.path = req
  <2>1. loc.to = "backend" /\ ~ IsExact(loc.path) /\ loc.path # Exactly(req)
    BY <1>2, <1>3, ExactIs
  <2>2. loc # [to |-> "redirect"] /\ loc # [to |-> "nowhere"]
    BY <2>1
  <2>3. \A l \in server : l.path \in AnyPath
    BY <1>4
  <2> QED
    BY <1>1, <1>3, <2>1, <2>2, <2>3, LocateIs
<1>6. PICK a \in Places(list, G) : loc = writeLocation(list, a)
  <2>1. \A r \in Reserved(list, G) : loc # GateLocation(r)
    BY <1>2, LocationIs
  <2>2. loc \notin Always
    BY <1>2, AlwaysIs
  <2> QED
    BY <1>1, <1>5, <2>1, <2>2, ServerIs
<1>7. loc.at = a /\ loc.path = PathAt(list, a)
  BY <1>6, LocationIs
<1>8. PICK pa : pa = RouteAt(list, a).path
  OBVIOUS
<1>p. a \in Prefixed(list)
  <2>1. ~ IsExact(Normal(pa))
    BY <1>2, <1>7, <1>8 DEF PathAt
  <2>2. ~ IsExact(pa)
    BY <2>1 DEF Normal, IsExact
  <2> QED
    BY <1>1, <1>8, <2>2 DEF Prefixed
<1>9. /\ pa \in AnyPath /\ Len(pa) \in Nat
      /\ \A q \in Prefixed(list) : Trimmed(RouteAt(list, q).path) = Trimmed(pa) => q = a
      /\ loc.path = Normal(pa)
  BY <1>1, <1>7, <1>8, <1>p, TidyIs, LenProperties DEF PathAt, AnyPath
<1>10. pathMatches(req, pa)
  <2>1. CASE pa \in {<<>>, Root}
    BY <2>1 DEF pathMatches
  <2>2. CASE pa \notin {<<>>, Root}
    <3>1. IsPrefix(pa, req)
      BY <1>5, <1>9, <2>2 DEF Normal
    <3> QED
      BY <1>1, <1>8, <3>1 DEF Aligned
  <2> QED
    BY <2>1, <2>2
<1>11. ASSUME NEW q \in Places(list, G), q # a, pathMatches(req, RouteAt(list, q).path)
       PROVE  Len(pa) > Len(RouteAt(list, q).path)
  <2>1. PICK pq : pq = RouteAt(list, q).path
    OBVIOUS
  <2>2. PICK tq : tq = Trimmed(pq)
    OBVIOUS
  <2>p. q \in Prefixed(list)
    BY <1>1, <1>3, <1>11, MatchPrefixed
  <2>3. /\ pq \in AnyPath /\ tq \in AnyPath /\ Trimmed(pa) # tq
        /\ pq = tq \/ pq = tq \o Root
    BY <1>1, <1>9, <1>11, <2>1, <2>2, <2>p, TidyIs
  <2>4. Len(pq) \in Nat /\ Len(tq) \in Nat
    BY <2>3, LenProperties DEF AnyPath
  <2>5. PICK m \in server : m.path = Normal(pq) /\ m.to # "challenge"
    BY <1>1, <2>1, <2>p, Written DEF PathAt
  <2>6. CASE IsPrefix(Normal(pq), req)
    <3>1. Len(loc.path) >= Len(Normal(pq))
      BY <1>5, <2>5, <2>6
    <3>2. Normal(pq) \in AnyPath /\ Len(Normal(pq)) \in Nat /\ Len(Normal(pq)) >= 1
          /\ Len(Normal(pq)) >= Len(pq) /\ Trimmed(Normal(pq)) = tq
      <4>1. Len(Normal(pq)) = IF Len(pq) = 0 THEN 1 ELSE Len(pq)
        BY <2>3, NormalIs
      <4>2. Len(Normal(pq)) >= Len(pq)
        BY <2>4, <4>1
      <4> QED
        BY <2>2, <2>3, <4>2, NormalIs
    <3>3. loc.path # Normal(pq)
      BY <1>9, <2>3, <3>2, NormalIs
    <3>4. loc.path \in AnyPath /\ Len(loc.path) \in Nat
      BY <1>4, <1>5
    <3>5. Len(loc.path) # Len(Normal(pq))
      <4> SUFFICES ASSUME Len(loc.path) = Len(Normal(pq)) PROVE FALSE
        OBVIOUS
      <4>1. Len(loc.path) <= Len(Normal(pq))
        BY <3>4
      <4>2. loc.path = Normal(pq)
        BY <1>3, <1>5, <2>6, <3>2, <3>4, <4>1, PrefixesNest
      <4> QED
        BY <3>3, <4>2
    <3>6. Len(loc.path) = IF Len(pa) = 0 THEN 1 ELSE Len(pa)
      BY <1>9, NormalIs
    <3>7. Len(pa) > Len(pq)
      <4>1. \A x, y, z, w \in Nat :
              x >= y /\ x # y /\ y >= 1 /\ y >= z /\ x = (IF w = 0 THEN 1 ELSE w) => w > z
        OBVIOUS
      <4> QED
        BY <1>9, <2>4, <3>1, <3>2, <3>4, <3>5, <3>6, <4>1
    <3> QED
      BY <2>1, <3>7
  <2>7. CASE ~ IsPrefix(Normal(pq), req)
    <3>1. pq # <<>> /\ pq # Root /\ Normal(pq) = pq
      BY <1>3, <2>7 DEF Normal
    <3>2. req = tq \/ IsPrefix(tq \o Root, req)
      BY <1>11, <2>1, <2>2, <3>1 DEF pathMatches
    <3>3. ASSUME IsPrefix(tq \o Root, req) PROVE FALSE
      <4>1. IsPrefix(tq, req)
        BY <1>3, <2>3, <3>3, Under
      <4> QED
        BY <2>3, <2>7, <3>1, <3>3, <4>1
    <3>4. req = tq
      BY <3>2, <3>3
    <3>5. pq # tq
      <4>1. IsPrefix(req, req)
        BY <1>3, PrefixIs
      <4> QED
        BY <2>7, <3>1, <3>4, <4>1
    <3>6. m.path = req \o Root
      BY <2>3, <2>5, <3>1, <3>4, <3>5
    <3>7. PICK l \in server : l.path = req
      BY <1>5, <2>5, <3>6
    <3>8. Len(loc.path) >= Len(req)
      <4>1. IsPrefix(req, req)
        BY <1>3, PrefixIs
      <4> QED
        BY <1>5, <3>7, <4>1
    <3>9. loc.path \in AnyPath /\ Len(loc.path) \in Nat /\ Len(loc.path) <= Len(req)
      BY <1>3, <1>4, <1>5, PrefixIs
    <3>10. loc.path = req
      <4>1. Len(loc.path) = Len(req)
        BY <1>3, <3>8, <3>9
      <4>2. IsPrefix(req, req)
        BY <1>3, PrefixIs
      <4> QED
        BY <1>3, <1>5, <3>9, <4>1, <4>2, PrefixesNest
    <3>11. Trimmed(pa) = Trimmed(req)
      BY <1>9, <3>10, NormalIs
    <3>12. Trimmed(req) = tq
      BY <2>2, <2>3, <3>4, TrimmedFacts
    <3> QED
      BY <2>3, <3>11, <3>12
  <2> QED
    BY <2>6, <2>7
<1>12. Resolve(list, Host, req) = a
  BY <1>1, <1>8, <1>10, <1>11, ResolveIs
<1> QED
  BY <1>2, <1>7, <1>12

\* The gate decides by the route whose location NGINX serves, for every tidy list and
\* every aligned request that no exact location answers, exact routes beside them or
\* not, once NGINX has loaded it (matrix.go:51-93, generate.go:105-258).
THEOREM AgreeCorrect == Spec => []AgreeOnRoute
<1>1. TypeOK => AgreeOnRoute
  <2> SUFFICES ASSUME TypeOK, loaded = backends, Tidy(backends),
                      NEW req \in Requests, Aligned(backends, req),
                      Locate(Server(loaded), req).to = "backend",
                      ~ IsExact(Locate(Server(loaded), req).path)
               PROVE  Resolve(backends, Host, req) = Locate(Server(loaded), req).at
    BY DEF AgreeOnRoute
  <2>1. backends \in Seq(Backends)
    BY DEF TypeOK
  <2> QED
    BY <2>1, RoutesAgree
<1> QED
  BY <1>1, TypeCorrect, PTL

\* A route's own path, asked for without the slash at its end, is decided by the route.
LEMMA ResolveOwn ==
  ASSUME NEW list \in Seq(Backends), Tidy(list), NEW a \in Prefixed(list)
  PROVE  Resolve(list, Host, Normal(Trimmed(RouteAt(list, a).path))) = a
<1>1. PICK pa, ta : pa = RouteAt(list, a).path /\ ta = Trimmed(pa)
  OBVIOUS
<1>2. /\ pa \in AnyPath /\ ta \in AnyPath
      /\ pa = <<>> \/ IsPrefix(Root, pa)
      /\ pa = ta \/ pa = ta \o Root
      /\ a \in Places(list, Group(list, Host))
      /\ \A q \in Prefixed(list) : Trimmed(RouteAt(list, q).path) = ta => q = a
  BY <1>1, TidyIs
<1>3. Len(pa) \in Nat /\ Len(ta) \in Nat /\ Len(ta) <= Len(pa)
  BY <1>1, <1>2, TrimmedFacts, LenProperties DEF AnyPath
<1>4. PICK req : req = Normal(ta)
  OBVIOUS
<1>5. CASE ta = <<>>
  <2>1. pa \in {<<>>, Root}
    BY <1>2, <1>5, RootIs, ConcatEmptySeq DEF AnyPath
  <2>2. req = Root
    BY <1>4, <1>5 DEF Normal
  <2>3. ASSUME NEW q \in Places(list, Group(list, Host)), q # a,
               pathMatches(req, RouteAt(list, q).path)
        PROVE  FALSE
    <3>1. PICK pq, tq : pq = RouteAt(list, q).path /\ tq = Trimmed(pq)
      OBVIOUS
    <3>p. q \in Prefixed(list)
      BY <2>2, <2>3, RootIs, PrefixIs, MatchPrefixed
    <3>2. pq \in AnyPath /\ tq \in AnyPath /\ tq # <<>> /\ tq # Root
      BY <1>2, <1>5, <2>3, <3>1, <3>p, TidyIs, TrimmedFacts
    <3>3. pq \notin {<<>>, Root}
      BY <3>1, <3>2, TrimmedRoot
    <3>4. IsPrefix(tq \o Root, Root)
      BY <2>2, <2>3, <3>1, <3>2, <3>3 DEF pathMatches
    <3>5. Len(tq) < 1
      BY <3>2, <3>4, RootIs, Under
    <3>6. Len(tq) \in Nat \ {0}
      BY <3>2, EmptySeq DEF AnyPath
    <3> QED
      BY <3>5, <3>6
  <2>4. pathMatches(req, pa)
    BY <2>1 DEF pathMatches
  <2>5. Resolve(list, Host, req) = a
    BY <1>1, <1>2, <2>3, <2>4, ResolveIs
  <2> QED
    BY <1>1, <1>4, <2>5
<1>6. CASE ta # <<>>
  <2>1. req = ta
    BY <1>4, <1>6 DEF Normal
  <2>2. pathMatches(req, pa)
    BY <1>1, <2>1 DEF pathMatches
  <2>3. pa # <<>>
    BY <1>1, <1>6, TrimmedRoot
  <2>4. Len(ta) # 0 /\ ta[Len(ta)] # "/" /\ ta # Root /\ IsPrefix(ta, pa)
    BY <1>1, <1>2, <1>6, TrimmedFacts, EmptySeq DEF AnyPath
  <2>5. Len(ta) > 1
    <3>0. \A n \in Nat : n # 0 /\ n # 1 => n > 1
      OBVIOUS
    <3> SUFFICES ASSUME Len(ta) = 1 PROVE FALSE
      BY <1>3, <2>4, <3>0
    <3>1. IsPrefix(Root, pa)
      BY <1>2, <2>3
    <3>2. Len(Root) <= Len(ta) /\ Len(Root) = Len(ta)
      BY RootIs
    <3>3. Root = ta
      BY <1>2, <2>4, <3>1, <3>2, RootIs, PrefixesNest
    <3> QED
      BY <2>4, <3>3
  <2>6. ASSUME NEW q \in Places(list, Group(list, Host)), q # a,
               pathMatches(req, RouteAt(list, q).path)
        PROVE  Len(pa) > Len(RouteAt(list, q).path)
    <3>1. PICK pq, tq : pq = RouteAt(list, q).path /\ tq = Trimmed(pq)
      OBVIOUS
    <3>p. q \in Prefixed(list)
      <4>1. IsPrefix(Root, pa)
        BY <1>2, <2>3
      <4>2. Len(Root) <= Len(ta)
        BY <1>3, <2>5, RootIs
      <4>3. IsPrefix(Root, ta)
        BY <1>2, <2>4, <4>1, <4>2, RootIs, PrefixesNest
      <4> QED
        BY <1>2, <2>1, <2>6, <4>3, MatchPrefixed
    <3>2. pq \in AnyPath /\ tq \in AnyPath /\ tq # ta /\ (pq = tq \/ pq = tq \o Root)
      BY <1>2, <2>6, <3>1, <3>p, TidyIs
    <3>3. Len(tq) \in Nat /\ Len(pq) \in {Len(tq), Len(tq) + 1}
      BY <3>2, Slashed, LenProperties DEF AnyPath
    <3>4. CASE pq \in {<<>>, Root}
      <4>1. Len(pq) \in {0, 1}
        <5>1. CASE pq = <<>>
          BY <5>1, RootIs
        <5>2. CASE pq = Root
          BY <5>2, RootIs
        <5> QED
          BY <3>4, <5>1, <5>2
      <4>2. \A x, y \in Nat, z \in {0, 1} : y <= x /\ y > 1 => x > z
        OBVIOUS
      <4> QED
        BY <1>3, <2>5, <3>1, <4>1, <4>2
    <3>5. CASE pq \notin {<<>>, Root}
      <4>1. IsPrefix(tq \o Root, ta)
        BY <2>1, <2>6, <3>1, <3>2, <3>5 DEF pathMatches
      <4>2. Len(tq) < Len(ta) /\ ta[Len(tq) + 1] = "/"
        BY <1>2, <3>2, <4>1, Under
      <4>3. Len(tq) + 1 # Len(ta)
        BY <2>4, <4>2
      <4>4. \A x, y, z \in Nat : \A w \in {z, z + 1} : y <= x /\ z < y /\ z + 1 # y => x > w
        OBVIOUS
      <4>5. Len(pa) > Len(pq)
        BY <1>3, <3>3, <4>2, <4>3, <4>4
      <4> QED
        BY <3>1, <4>5
    <3> QED
      BY <3>4, <3>5
  <2>7. Resolve(list, Host, req) = a
    BY <1>1, <1>2, <2>2, <2>6, ResolveIs
  <2> QED
    BY <1>1, <1>4, <2>7
<1> QED
  BY <1>5, <1>6

\* A tile leads somewhere, for every tidy list, user and address the service admits:
\* the route that earned the tile, or the first, decides about its own path, and lets
\* in whoever sees the tile (server.go:411-455, 537-606).
THEOREM TileCorrect == Spec => []TileReachable
<1>1. TypeOK => TileReachable
  <2> SUFFICES ASSUME TypeOK, Tidy(backends),
                      NEW i \in Group(backends, Host), i \in tilesFor.services,
                      EffectiveGrantID(backends[i], backends[i].routes[1]) = <<backends[i].id>>,
                      \A rt \in ToSet(backends[i].routes) : ~ IsExact(rt.path),
                      NEW addr \in Addrs,
                      backends[i].allow = {} \/ addr \in backends[i].allow
               PROVE  \E rt \in ToSet(backends[i].routes) :
                        LET req == Normal(Trimmed(rt.path))
                        IN  /\ handleValidate(Host, req, addr) = "ok"
                            /\ Resolve(backends, Host, req)[1] = i
    BY Zenon DEF TileReachable
  <2>1. PICK be : be = backends[i]
    OBVIOUS
  <2>2. backends \in Seq(Backends) /\ i \in 1..Len(backends)
    BY DEF TypeOK, Group
  <2>3. be.routes \in Seq(Routes) /\ be.routes # <<>>
    BY <2>1, <2>2, BackendIs DEF Group
  <2>4. Len(be.routes) \in Nat \ {0} /\ DOMAIN be.routes = 1..Len(be.routes)
    BY <2>3, EmptySeq, LenProperties
  <2>5. sess = "full" /\ user # Gone /\ canSeeBackend(be)
    BY <2>1 DEF tilesFor
  <2>6. ASSUME NEW j \in 1..Len(be.routes), RuleAllows(be, be.routes[j]) = "ok"
        PROVE  \E rt \in ToSet(be.routes) :
                 LET req == Normal(Trimmed(rt.path))
                 IN  /\ handleValidate(Host, req, addr) = "ok"
                     /\ Resolve(backends, Host, req)[1] = i
    <3>1. PICK a, rt, req :
            a = <<i, j>> /\ rt = be.routes[j] /\ req = Normal(Trimmed(rt.path))
      OBVIOUS
    <3>2. a \in Places(backends, Group(backends, Host)) /\ RouteAt(backends, a) = rt
      BY <2>1, <3>1 DEF Places, RouteAt
    <3>p. rt \in ToSet(be.routes)
      BY <2>4, <3>1 DEF ToSet
    <3>q. a \in Prefixed(backends)
      BY <2>1, <3>2, <3>p DEF Prefixed
    <3>3. Resolve(backends, Host, req) = a
      BY <2>2, <3>1, <3>2, <3>q, ResolveOwn
    <3>4. a # <<>> /\ a[1] = i
      BY <3>1
    <3>5. clientIP(Proxy, addr) = addr
      BY BehindProxy
    <3>6. handleValidate(Host, req, addr) = "ok"
      BY <2>1, <2>6, <3>1, <3>2, <3>3, <3>4, <3>5 DEF handleValidate
    <3> QED
      BY <3>1, <3>3, <3>4, <3>6, <3>p
  <2>7. ASSUME NEW j \in 1..Len(be.routes)
        PROVE  be.routes[j].rule \in Rules
    <3>1. be.routes[j] \in Routes
      BY <2>3, ElementOfSeq
    <3> QED
      BY <3>1 DEF Routes
  <2>8. 1 \in 1..Len(be.routes)
    BY <2>4
  <2>9. CASE user.admin
    <3>1. RuleAllows(be, be.routes[1]) = "ok"
      BY <2>5, <2>7, <2>8, <2>9 DEF RuleAllows, Rules, CanonicalRule
    <3> QED
      BY <2>1, <2>6, <2>8, <3>1
  <2>10. CASE \E rt \in ToSet(be.routes) : rt.rule \in {"public", "authenticated"}
    <3>1. PICK j \in 1..Len(be.routes) : be.routes[j].rule \in {"public", "authenticated"}
      BY <2>4, <2>10 DEF ToSet
    <3>2. RuleAllows(be, be.routes[j]) = "ok"
      BY <2>5, <3>1 DEF RuleAllows, CanonicalRule
    <3> QED
      BY <2>1, <2>6, <3>1, <3>2
  <2>11. CASE Authorized(user, <<be.id>>)
    <3>1. EffectiveGrantID(be, be.routes[1]) = <<be.id>>
      BY <2>1
    <3>2. RuleAllows(be, be.routes[1]) = "ok"
      BY <2>5, <2>7, <2>8, <2>11, <3>1 DEF RuleAllows, Rules, CanonicalRule
    <3> QED
      BY <2>1, <2>6, <2>8, <3>2
  <2> QED
    BY <2>5, <2>9, <2>10, <2>11 DEF canSeeBackend
<1> QED
  BY <1>1, TypeCorrect, PTL

-----------------------------------------------------------------------------
(* Grants: sets as lists.                                                  *)

\* B puts any two members of S in one order.
StrictOrder(S, B) ==
  /\ \A x, y \in S : x # y => <<x, y>> \in B \/ <<y, x>> \in B
  /\ \A x \in S : <<x, x>> \notin B
  /\ \A x, y, z \in S : <<x, y>> \in B /\ <<y, z>> \in B => <<x, z>> \in B

\* Every member of a finite set has its place in the list, and no place is empty:
\* the numbers of members before them tell the members apart.
LEMMA ListedIs ==
  ASSUME NEW S, IsFiniteSet(S), NEW B, StrictOrder(S, B)
  PROVE  /\ Cardinality(S) \in Nat
         /\ Listed(S, B) \in [1..Cardinality(S) -> S]
         /\ \A x \in S : \E j \in 1..Cardinality(S) : Listed(S, B)[j] = x
<1> DEFINE Low(x) == {y \in S : <<y, x>> \in B}
           n == Cardinality(S)
           f == [x \in S |-> Cardinality(Low(x))]
<1>1. n \in Nat
  BY FS_CardinalityType
<1>2. ASSUME NEW x \in S
      PROVE  IsFiniteSet(Low(x)) /\ Cardinality(Low(x)) \in Nat /\ Cardinality(Low(x)) < n
  <2>1. x \notin Low(x)
    BY DEF StrictOrder
  <2>2. Low(x) \in SUBSET S /\ Low(x) # S
    BY <2>1
  <2> HIDE DEF Low
  <2>3. IsFiniteSet(Low(x)) /\ Cardinality(Low(x)) <= n /\ Cardinality(Low(x)) # n
    BY <2>2, FS_Subset
  <2>4. Cardinality(Low(x)) \in Nat
    BY <2>3, FS_CardinalityType
  <2> QED
    BY <1>1, <2>3, <2>4
<1>3. ASSUME NEW x \in S, NEW y \in S, <<x, y>> \in B
      PROVE  Cardinality(Low(x)) < Cardinality(Low(y))
  <2>1. Low(x) \in SUBSET Low(y)
    BY <1>3 DEF StrictOrder
  <2>2. x \in Low(y) /\ x \notin Low(x)
    BY <1>3 DEF StrictOrder
  <2>3. Low(x) # Low(y)
    BY <2>2
  <2>4. IsFiniteSet(Low(y)) /\ Cardinality(Low(x)) \in Nat /\ Cardinality(Low(y)) \in Nat
    BY <1>2
  <2> HIDE DEF Low
  <2>5. Cardinality(Low(x)) <= Cardinality(Low(y)) /\ Cardinality(Low(x)) # Cardinality(Low(y))
    BY <2>1, <2>3, <2>4, FS_Subset
  <2> QED
    BY <2>4, <2>5
<1>4. ASSUME NEW x \in S, NEW y \in S, x # y
      PROVE  Cardinality(Low(x)) # Cardinality(Low(y))
  <2>1. Cardinality(Low(x)) \in Nat /\ Cardinality(Low(y)) \in Nat
    BY <1>2
  <2>2. <<x, y>> \in B \/ <<y, x>> \in B
    BY <1>4 DEF StrictOrder
  <2> HIDE DEF Low
  <2> QED
    BY <1>3, <2>1, <2>2
<1> HIDE DEF Low
<1>5. f \in [S -> 0..(n - 1)]
  <2>1. \A x \in S : Cardinality(Low(x)) \in 0..(n - 1)
    BY <1>1, <1>2
  <2> QED
    BY <2>1
<1>6. f \in Injection(S, 0..(n - 1))
  BY <1>4, <1>5 DEF Injection, IsInjective
<1>7. IsFiniteSet(0..(n - 1)) /\ Cardinality(0..(n - 1)) = n
  BY <1>1, FS_Interval
<1>8. f \in Surjection(S, 0..(n - 1))
  <2> HIDE DEF f
  <2> QED
    BY <1>6, <1>7, FS_Injection
<1>9. ASSUME NEW j \in 1..n PROVE \E x \in S : Cardinality(Low(x)) = j - 1
  <2>1. j - 1 \in 0..(n - 1)
    BY <1>1
  <2>2. \E x \in S : f[x] = j - 1
    BY <1>8, <2>1 DEF Surjection
  <2> QED
    BY <2>2
<1>10. Listed(S, B) = [j \in 1..n |-> CHOOSE x \in S : Cardinality(Low(x)) = j - 1]
  BY DEF Listed, Low
<1>11. ASSUME NEW j \in 1..n
       PROVE  Listed(S, B)[j] \in S /\ Cardinality(Low(Listed(S, B)[j])) = j - 1
  <2>1. Listed(S, B)[j] = CHOOSE x \in S : Cardinality(Low(x)) = j - 1
    BY <1>10
  <2> QED
    BY <1>9, <2>1, Zenon
<1>12. ASSUME NEW x \in S PROVE \E j \in 1..n : Listed(S, B)[j] = x
  <2>1. PICK j : j = Cardinality(Low(x)) + 1
    OBVIOUS
  <2>2. j \in 1..n /\ Cardinality(Low(x)) = j - 1
    BY <1>1, <1>2, <2>1
  <2>3. Listed(S, B)[j] = x
    BY <1>4, <1>11, <2>2
  <2> QED
    BY <2>2, <2>3
<1> QED
  BY <1>1, <1>10, <1>11, <1>12

\* Some place of Order is the grant's own.
LEMMA RankIs ==
  ASSUME NEW g \in Grant
  PROVE  Rank(g) \in Nat /\ Rank(g) \in 1..Len(Order) /\ Order[Rank(g)] = g
<1>1. DOMAIN Order = 1..Len(Order) /\ Len(Order) \in Nat
  BY GrantsAssumption, LenProperties
<1>2. \E i \in 1..Len(Order) : Order[i] = g
  BY <1>1, GrantsAssumption DEF ToSet
<1>3. Rank(g) \in 1..Len(Order) /\ Order[Rank(g)] = g
  BY <1>2, Zenon DEF Rank
<1> QED
  BY <1>1, <1>3

LEMMA GrantsFinite ==
  ASSUME NEW G \in SUBSET Grant
  PROVE  IsFiniteSet(G)
<1> DEFINE f == [g \in G |-> Rank(g)]
<1>1. f \in Injection(G, 1..Len(Order))
  <2>1. f \in [G -> 1..Len(Order)]
    BY RankIs
  <2>2. \A g, h \in G : f[g] = f[h] => g = h
    BY RankIs
  <2> QED
    BY <2>1, <2>2 DEF Injection, IsInjective
<1>2. Len(Order) \in Nat
  BY GrantsAssumption, LenProperties
<1>3. IsFiniteSet(1..Len(Order))
  BY <1>2, FS_Interval
<1> HIDE DEF f
<1> QED
  BY <1>1, <1>3, FS_Injection

\* A set of grants as a list.
LEMMA ListOfIs ==
  ASSUME NEW G \in SUBSET Grant
  PROVE  ListOf(G) \in Seq(Grant) /\ ToSet(ListOf(G)) = G
<1> DEFINE B == {p \in G \X G : Rank(p[1]) < Rank(p[2])}
<1>1. ASSUME NEW g \in G, NEW h \in G
      PROVE  /\ <<g, h>> \in B <=> Rank(g) < Rank(h)
             /\ Rank(g) \in Nat /\ Rank(h) \in Nat /\ (g # h => Rank(g) # Rank(h))
  <2>1. <<g, h>> \in B <=> Rank(g) < Rank(h)
    OBVIOUS
  <2> QED
    BY <2>1, RankIs
<1>2. ListOf(G) = Listed(G, B)
  BY DEF ListOf
<1> HIDE DEF B
<1>3. StrictOrder(G, B)
  <2>1. \A x, y \in G : x # y => <<x, y>> \in B \/ <<y, x>> \in B
    BY <1>1
  <2>2. \A x \in G : <<x, x>> \notin B
    BY <1>1
  <2>3. \A x, y, z \in G : <<x, y>> \in B /\ <<y, z>> \in B => <<x, z>> \in B
    BY <1>1
  <2> QED
    BY <2>1, <2>2, <2>3 DEF StrictOrder
<1>4. PICK n \in Nat : /\ ListOf(G) \in [1..n -> G]
                       /\ \A x \in G : \E j \in 1..n : ListOf(G)[j] = x
  BY <1>2, <1>3, GrantsFinite, ListedIs
<1>5. ListOf(G) \in [1..n -> Grant]
  BY <1>4
<1>6. ListOf(G) \in Seq(Grant) /\ DOMAIN ListOf(G) = 1..n
  BY <1>5
<1>7. ToSet(ListOf(G)) = G
  BY <1>4, <1>6 DEF ToSet
<1> QED
  BY <1>6, <1>7

-----------------------------------------------------------------------------
(* Grants: the slices.                                                     *)

LEMMA CapacityIs ==
  ASSUME NEW n \in Nat
  PROVE  Capacity(n) \in Nat /\ Capacity(n) >= n
<1> DEFINE C == {0, 1, 2, 4, 8, 16}
           Fits(c) == c >= n /\ \A d \in C : d >= n => c <= d
<1>1. CASE n > 16
  BY <1>1 DEF Capacity
<1>2. CASE ~ (n > 16)
  <2>1. \E c \in C : Fits(c)
    <3>1. n = 0 => Fits(0)
      OBVIOUS
    <3>2. n = 1 => Fits(1)
      OBVIOUS
    <3>3. n = 2 => Fits(2)
      OBVIOUS
    <3>4. n > 2 /\ n <= 4 => Fits(4)
      OBVIOUS
    <3>5. n > 4 /\ n <= 8 => Fits(8)
      OBVIOUS
    <3>6. n > 8 => Fits(16)
      BY <1>2
    <3> HIDE DEF Fits
    <3> QED
      BY <3>1, <3>2, <3>3, <3>4, <3>5, <3>6
  <2>2. Capacity(n) = CHOOSE c \in C : Fits(c)
    BY <1>2 DEF Capacity
  <2>3. Capacity(n) \in C /\ Fits(Capacity(n))
    <3> HIDE DEF Fits, C
    <3> QED
      BY <2>1, <2>2, Zenon
  <2> QED
    BY <2>3
<1> QED
  BY <1>1, <1>2

\* A copy that is being edited, and the array that the first n places of the
\* live slice are in.
Sound(c, n) ==
  /\ c.arr \in Seq(Cell) /\ c.len \in Nat /\ c.len <= Len(c.arr)
  /\ \A i \in 1..c.len : c.arr[i] \in Grant
  /\ c.seen \in Seq(Cell) /\ n <= Len(c.seen)
  /\ \A i \in 1..n : c.seen[i] \in Grant
  /\ c.own \/ c.seen = c.arr

LEMMA SharedIs ==
  ASSUME NEW s \in Slices
  PROVE  Sound(Shared(s), s.len) /\ In(Shared(s)) = In(s) /\ s.len \in Nat
BY DEF Shared, Sound, Slices, In

LEMMA OwnedIs ==
  ASSUME NEW c, NEW n \in Nat, Sound(c, n)
  PROVE  Owned(c) \in Slices /\ In(Owned(c)) = In(c)
BY DEF Owned, Sound, Slices, In

\* Writing in place leaves the live slice whole when what is written is.
LEMMA InPlaceIs ==
  ASSUME NEW c, NEW n \in Nat, Sound(c, n), NEW arr \in Seq(Cell), NEW len \in Nat,
         Len(arr) = Len(c.arr), len <= Len(arr),
         \A i \in 1..len : arr[i] \in Grant,
         \A i \in 1..Len(arr) : c.arr[i] \in Grant => arr[i] \in Grant
  PROVE  /\ Sound(InPlace(c, arr, len), n)
         /\ In(InPlace(c, arr, len)) = {arr[i] : i \in 1..len}
<1> DEFINE d == InPlace(c, arr, len)
<1>1. d.arr = arr /\ d.len = len /\ d.own = c.own /\ d.seen = IF c.own THEN c.seen ELSE arr
  BY DEF InPlace
<1>2. In(d) = {arr[i] : i \in 1..len}
  BY <1>1 DEF In
<1> HIDE DEF d
<1>3. ASSUME c.own PROVE Sound(d, n)
  BY <1>1, <1>3 DEF Sound
<1>4. ASSUME ~ c.own PROVE Sound(d, n)
  <2>1. c.seen = c.arr /\ d.seen = arr
    BY <1>1, <1>4 DEF Sound
  <2>2. \A i \in 1..n : i \in 1..Len(arr) /\ c.arr[i] \in Grant
    BY <2>1 DEF Sound
  <2> QED
    BY <1>1, <1>4, <2>1, <2>2 DEF Sound
<1> QED
  BY <1>2, <1>3, <1>4 DEF d

\* What is at the places S comes to the front.
LEMMA ArrangedIs ==
  ASSUME NEW c, NEW n \in Nat, Sound(c, n), NEW S \in SUBSET (1..c.len),
         NEW B, StrictOrder(S, B)
  PROVE  /\ Sound(Arranged(c, S, B), n)
         /\ In(Arranged(c, S, B)) = {c.arr[i] : i \in S}
<1> DEFINE m == Cardinality(S)
           L == Listed(S, B)
           arr == [i \in 1..Len(c.arr) |-> IF i <= m THEN c.arr[L[i]] ELSE c.arr[i]]
<1>1. c.arr \in Seq(Cell) /\ c.len \in Nat /\ c.len <= Len(c.arr) /\ Len(c.arr) \in Nat
  BY DEF Sound
<1>2. IsFiniteSet(1..c.len) /\ Cardinality(1..c.len) = c.len
  <2>1. PICK k \in Nat : k = c.len
    BY <1>1
  <2>2. IsFiniteSet(1..k) /\ Cardinality(1..k) = k
    BY FS_Interval
  <2> QED
    BY <2>1, <2>2
<1>3. IsFiniteSet(S) /\ m <= c.len
  <2>1. IsFiniteSet(S) /\ Cardinality(S) <= Cardinality(1..c.len)
    BY <1>2, FS_Subset
  <2> QED
    BY <1>2, <2>1
<1>4. /\ m \in Nat /\ L \in [1..m -> S]
      /\ \A x \in S : \E j \in 1..m : L[j] = x
  BY <1>3, ListedIs
<1>5. Arranged(c, S, B) = InPlace(c, arr, m)
  BY DEF Arranged
<1> HIDE DEF L, m
<1>6. ASSUME NEW i \in 1..m
      PROVE  L[i] \in S /\ c.arr[L[i]] \in Grant /\ i \in 1..Len(c.arr) /\ arr[i] = c.arr[L[i]]
  <2>1. L[i] \in S /\ i \in 1..Len(c.arr)
    BY <1>1, <1>3, <1>4
  <2>2. c.arr[L[i]] \in Grant
    BY <2>1 DEF Sound
  <2> QED
    BY <2>1, <2>2
<1>7. ASSUME NEW i \in 1..Len(c.arr)
      PROVE  arr[i] \in Cell /\ (c.arr[i] \in Grant => arr[i] \in Grant)
  <2>1. CASE i <= m
    <3>1. i \in 1..m
      BY <1>1, <1>4, <2>1
    <3> QED
      BY <1>6, <3>1 DEF Cell
  <2>2. CASE ~ (i <= m)
    <3>1. c.arr[i] \in Cell
      BY <1>1
    <3> QED
      BY <2>2, <3>1
  <2> QED
    BY <2>1, <2>2
<1>8. arr \in Seq(Cell) /\ Len(arr) = Len(c.arr)
  <2>1. arr \in [1..Len(c.arr) -> Cell]
    BY <1>7
  <2> HIDE DEF arr
  <2> QED
    BY <1>1, <2>1
<1>9. {arr[i] : i \in 1..m} = {c.arr[i] : i \in S}
  <2>1. ASSUME NEW i \in 1..m PROVE arr[i] \in {c.arr[k] : k \in S}
    BY <1>6
  <2>2. ASSUME NEW k \in S PROVE c.arr[k] \in {arr[i] : i \in 1..m}
    <3>1. PICK j \in 1..m : L[j] = k
      BY <1>4
    <3> QED
      BY <1>6, <3>1
  <2> HIDE DEF arr
  <2> QED
    BY <2>1, <2>2
<1> HIDE DEF arr
<1>10. m <= Len(arr)
  BY <1>1, <1>3, <1>4, <1>8
<1>11. \A i \in 1..m : arr[i] \in Grant
  BY <1>6
<1>12. \A i \in 1..Len(arr) : c.arr[i] \in Grant => arr[i] \in Grant
  BY <1>7, <1>8
<1>13. Sound(InPlace(c, arr, m), n) /\ In(InPlace(c, arr, m)) = {arr[i] : i \in 1..m}
  BY <1>4, <1>8, <1>10, <1>11, <1>12, InPlaceIs
<1> QED
  BY <1>5, <1>9, <1>13

LEMMA KeptIs ==
  ASSUME NEW c, NEW n \in Nat, Sound(c, n), NEW stay
  PROVE  Sound(Kept(c, stay), n) /\ In(Kept(c, stay)) = In(c) \cap stay
<1> DEFINE S == {i \in 1..c.len : c.arr[i] \in stay}
           B == {p \in S \X S : p[1] < p[2]}
<1>1. c.len \in Nat
  BY DEF Sound
<1>2. \A i, j \in S : (<<i, j>> \in B <=> i < j) /\ i \in Nat /\ j \in Nat
  BY <1>1
<1>3. S \in SUBSET (1..c.len)
  OBVIOUS
<1>4. Kept(c, stay) = Arranged(c, S, B)
  BY DEF Kept
<1>5. {c.arr[i] : i \in S} = In(c) \cap stay
  BY DEF In
<1> HIDE DEF S, B
<1>6. StrictOrder(S, B)
  BY <1>2 DEF StrictOrder
<1> QED
  BY <1>3, <1>4, <1>5, <1>6, ArrangedIs

LEMMA SortedIs ==
  ASSUME NEW c, NEW n \in Nat, Sound(c, n)
  PROVE  Sound(Sorted(c), n) /\ In(Sorted(c)) = In(c)
<1> DEFINE S == 1..c.len
           r == [i \in S |-> Rank(c.arr[i])]
           B == ByRank(c.arr, S)
<1>1. c.len \in Nat /\ \A i \in S : c.arr[i] \in Grant
  BY DEF Sound
<1>2. \A i, j \in S : <<i, j>> \in B <=> (r[i] < r[j] \/ (c.arr[i] = c.arr[j] /\ i < j))
  BY DEF ByRank
<1>3. \A i \in S : i \in Nat /\ r[i] \in Nat
  BY <1>1, RankIs
<1>4. \A i, j \in S : r[i] = r[j] <=> c.arr[i] = c.arr[j]
  BY <1>1, RankIs
<1>5. Sorted(c) = Arranged(c, S, B)
  BY DEF Sorted
<1>6. {c.arr[i] : i \in S} = In(c)
  BY DEF In
<1>7. S \in SUBSET (1..c.len)
  OBVIOUS
<1> HIDE DEF S, B, r
<1>8. \A i, j \in S : <<i, j>> \in B <=> (r[i] < r[j] \/ (r[i] = r[j] /\ i < j))
  BY <1>2, <1>4
<1>9. StrictOrder(S, B)
  <2>1. \A x, y \in S : x # y => <<x, y>> \in B \/ <<y, x>> \in B
    BY <1>3, <1>8
  <2>2. \A x \in S : <<x, x>> \notin B
    BY <1>3, <1>8
  <2>3. \A x, y, z \in S : <<x, y>> \in B /\ <<y, z>> \in B => <<x, z>> \in B
    BY <1>3, <1>8
  <2> QED
    BY <2>1, <2>2, <2>3 DEF StrictOrder
<1> QED
  BY <1>5, <1>6, <1>7, <1>9, ArrangedIs

\* append, with or without an array of its own.
LEMMA AppendedIs ==
  ASSUME NEW c, NEW n \in Nat, Sound(c, n), NEW list \in Seq(Grant)
  PROVE  Sound(Appended(c, list), n) /\ In(Appended(c, list)) = In(c) \cup ToSet(list)
<1> DEFINE k == Len(list)
           m == c.len + k
           arr == [i \in 1..Len(c.arr) |->
                     IF i \in c.len + 1..m THEN list[i - c.len] ELSE c.arr[i]]
           new == [i \in 1..Capacity(m) |->
                     IF i <= c.len THEN c.arr[i]
                     ELSE IF i <= m THEN list[i - c.len] ELSE Blank]
<1>1. c.arr \in Seq(Cell) /\ c.len \in Nat /\ c.len <= Len(c.arr) /\ Len(c.arr) \in Nat
  BY DEF Sound
<1>2. k \in Nat /\ m \in Nat /\ DOMAIN list = 1..k
  BY <1>1, LenProperties
<1>3. ToSet(list) = {list[j] : j \in 1..k}
  BY <1>2 DEF ToSet
<1>4. Appended(c, list) =
        IF m <= Len(c.arr) THEN InPlace(c, arr, m)
        ELSE [arr |-> new, len |-> m, seen |-> IF c.own THEN c.seen ELSE arr, own |-> TRUE]
  BY DEF Appended
<1>5. \A i \in 1..c.len : c.arr[i] \in Grant
  BY DEF Sound
<1>6. \A j \in 1..k : list[j] \in Grant
  BY <1>2
<1>7. \A j \in 1..k : c.len + j \in c.len + 1..m /\ (c.len + j) - c.len = j
  BY <1>1, <1>2
<1>8. \A i \in c.len + 1..m : i - c.len \in 1..k
  BY <1>1, <1>2
<1>9. \A i \in 1..m : i \in 1..c.len \/ i \in c.len + 1..m
  BY <1>1, <1>2
<1>10. (1..c.len) \subseteq 1..m /\ c.len + 1..m \subseteq 1..m
  BY <1>1, <1>2
<1>11. \A i \in 1..c.len : i \notin c.len + 1..m
  BY <1>1, <1>2
<1> HIDE DEF k, m
<1>12. ASSUME NEW i \in 1..Len(c.arr)
       PROVE  /\ arr[i] \in Cell /\ (c.arr[i] \in Grant => arr[i] \in Grant)
              /\ i \in c.len + 1..m => arr[i] = list[i - c.len]
              /\ i \in 1..c.len => arr[i] = c.arr[i]
  <2>1. c.arr[i] \in Cell
    BY <1>1
  <2>2. CASE i \in c.len + 1..m
    BY <1>6, <1>8, <1>11, <2>2 DEF Cell
  <2>3. CASE i \notin c.len + 1..m
    BY <2>1, <2>3
  <2> QED
    BY <2>2, <2>3
<1>13. arr \in Seq(Cell) /\ Len(arr) = Len(c.arr)
  <2>1. arr \in [1..Len(c.arr) -> Cell]
    BY <1>12
  <2> HIDE DEF arr
  <2> QED
    BY <1>1, <2>1
<1>14. ASSUME NEW a,
              \A i \in 1..c.len : a[i] = c.arr[i],
              \A i \in c.len + 1..m : a[i] = list[i - c.len]
       PROVE  /\ \A i \in 1..m : a[i] \in Grant
              /\ {a[i] : i \in 1..m} = In(c) \cup ToSet(list)
  <2>1. ASSUME NEW i \in 1..m PROVE a[i] \in Grant /\ a[i] \in In(c) \cup ToSet(list)
    <3>1. CASE i \in 1..c.len
      BY <1>5, <1>14, <3>1 DEF In
    <3>2. CASE i \in c.len + 1..m
      BY <1>3, <1>6, <1>8, <1>14, <3>2
    <3> QED
      BY <1>9, <3>1, <3>2
  <2>2. ASSUME NEW g \in In(c) PROVE \E i \in 1..m : g = a[i]
    <3>1. PICK i \in 1..c.len : g = c.arr[i]
      BY DEF In
    <3> QED
      BY <1>10, <1>14, <3>1
  <2>3. ASSUME NEW g \in ToSet(list) PROVE \E i \in 1..m : g = a[i]
    <3>1. PICK j \in 1..k : g = list[j]
      BY <1>3
    <3>2. PICK i : i = c.len + j
      OBVIOUS
    <3>3. i \in c.len + 1..m /\ i - c.len = j
      BY <1>7, <3>2
    <3>4. a[i] = list[j]
      BY <1>14, <3>3
    <3> QED
      BY <1>10, <3>1, <3>3, <3>4
  <2> QED
    BY <2>1, <2>2, <2>3
<1>15. CASE m <= Len(c.arr)
  <2>1. \A i \in 1..m : i \in 1..Len(arr)
    BY <1>1, <1>2, <1>13, <1>15
  <2>2. \A i \in 1..c.len : arr[i] = c.arr[i]
    BY <1>10, <1>12, <1>13, <2>1
  <2>3. \A i \in c.len + 1..m : arr[i] = list[i - c.len]
    BY <1>10, <1>12, <1>13, <2>1
  <2> HIDE DEF arr
  <2>4. /\ \A i \in 1..m : arr[i] \in Grant
        /\ {arr[i] : i \in 1..m} = In(c) \cup ToSet(list)
    BY <1>14, <2>2, <2>3
  <2>5. m <= Len(arr)
    BY <1>13, <1>15
  <2>6. \A i \in 1..Len(arr) : c.arr[i] \in Grant => arr[i] \in Grant
    BY <1>12, <1>13
  <2>7. Sound(InPlace(c, arr, m), n) /\ In(InPlace(c, arr, m)) = {arr[i] : i \in 1..m}
    BY <1>2, <1>13, <2>4, <2>5, <2>6, InPlaceIs
  <2> QED
    BY <1>4, <1>15, <2>4, <2>7
<1>16. CASE ~ (m <= Len(c.arr))
  <2> DEFINE d == Appended(c, list)
  <2>1. /\ d.arr = new /\ d.len = m /\ d.own
        /\ d.seen = IF c.own THEN c.seen ELSE arr
    BY <1>4, <1>16
  <2>2. Capacity(m) \in Nat /\ Capacity(m) >= m
    BY <1>2, CapacityIs
  <2>3. \A i \in 1..m : i \in 1..Capacity(m)
    BY <1>2, <2>2
  <2>4. ASSUME NEW i \in 1..c.len PROVE new[i] = c.arr[i]
    BY <1>1, <1>10, <2>3
  <2>5. ASSUME NEW i \in c.len + 1..m PROVE new[i] = list[i - c.len]
    <3>1. i \in 1..Capacity(m) /\ ~ (i <= c.len) /\ i <= m
      BY <1>1, <1>2, <1>10, <2>3
    <3> QED
      BY <3>1
  <2>6. ASSUME NEW i \in 1..Capacity(m), i \notin 1..m PROVE new[i] = Blank
    <3>1. ~ (i <= m) /\ ~ (i <= c.len)
      BY <1>1, <1>2, <2>2, <2>6 DEF m
    <3> QED
      BY <3>1
  <2> HIDE DEF new
  <2>7. /\ \A i \in 1..m : new[i] \in Grant
        /\ {new[i] : i \in 1..m} = In(c) \cup ToSet(list)
    BY <1>14, <2>4, <2>5
  <2>8. new \in Seq(Cell) /\ Len(new) = Capacity(m)
    <3>1. \A i \in 1..Capacity(m) : new[i] \in Cell
      BY <2>6, <2>7 DEF Cell
    <3>2. new \in [1..Capacity(m) -> Cell]
      BY <3>1 DEF new
    <3> QED
      BY <2>2, <3>2
  <2>9. d.seen \in Seq(Cell) /\ n <= Len(d.seen) /\ \A i \in 1..n : d.seen[i] \in Grant
    <3>1. CASE c.own
      BY <2>1, <3>1 DEF Sound
    <3>2. CASE ~ c.own
      <4>1. c.seen = c.arr /\ d.seen = arr
        BY <2>1, <3>2 DEF Sound
      <4>2. \A i \in 1..n : i \in 1..Len(c.arr) /\ c.arr[i] \in Grant
        BY <4>1 DEF Sound
      <4>3. n <= Len(arr)
        BY <1>13, <4>1 DEF Sound
      <4> HIDE DEF arr, d
      <4> QED
        BY <1>12, <1>13, <4>1, <4>2, <4>3
    <3> QED
      BY <3>1, <3>2
  <2>10. m <= Len(new)
    BY <1>2, <2>2, <2>8
  <2> HIDE DEF d, arr
  <2>11. Sound(d, n)
    BY <1>2, <2>1, <2>7, <2>8, <2>9, <2>10 DEF Sound
  <2>12. In(d) = In(c) \cup ToSet(list)
    <3>1. In(d) = {d.arr[i] : i \in 1..d.len}
      BY DEF In
    <3> QED
      BY <2>1, <2>7, <3>1
  <2> QED
    BY <2>11, <2>12 DEF d
<1> QED
  BY <1>15, <1>16

\* Reading users.json, and writing it.
LEMMA DecodedIs ==
  ASSUME NEW list \in Seq(Grant)
  PROVE  Decoded(list) \in Slices /\ In(Decoded(list)) = ToSet(list)
<1> DEFINE k == Len(list)
           arr == [i \in 1..Capacity(k) |-> IF i <= k THEN list[i] ELSE Blank]
<1>1. k \in Nat /\ DOMAIN list = 1..k /\ \A i \in 1..k : list[i] \in Grant
  BY LenProperties
<1>2. Capacity(k) \in Nat /\ Capacity(k) >= k
  BY <1>1, CapacityIs
<1>3. Decoded(list) = [arr |-> arr, len |-> k]
  BY DEF Decoded
<1> HIDE DEF k
<1>4. \A i \in 1..k : i \in 1..Capacity(k) /\ arr[i] = list[i]
  BY <1>1, <1>2
<1>5. \A i \in 1..Capacity(k) : arr[i] \in Cell
  BY <1>1, <1>2 DEF Cell
<1>6. arr \in [1..Capacity(k) -> Cell]
  BY <1>5
<1> HIDE DEF arr
<1>7. arr \in Seq(Cell) /\ k <= Len(arr)
  BY <1>1, <1>2, <1>6
<1>8. Decoded(list) \in Slices
  <2>1. [arr |-> arr, len |-> k] \in [arr : Seq(Cell), len : Nat]
    BY <1>1, <1>7
  <2> QED
    BY <1>1, <1>3, <1>4, <1>7, <2>1 DEF Slices
<1>9. In(Decoded(list)) = ToSet(list)
  <2>1. In(Decoded(list)) = {arr[i] : i \in 1..k}
    BY <1>3 DEF In
  <2>2. ToSet(list) = {list[i] : i \in 1..k}
    BY <1>1 DEF ToSet
  <2> QED
    BY <1>4, <2>1, <2>2
<1> QED
  BY <1>8, <1>9

LEMMA ElemsIs ==
  ASSUME NEW s \in Slices
  PROVE  Elems(s) \in Seq(Grant) /\ ToSet(Elems(s)) = In(s) /\ In(s) \subseteq Grant
<1>1. /\ s.arr \in Seq(Cell) /\ s.len \in Nat /\ s.len <= Len(s.arr)
      /\ \A i \in 1..s.len : s.arr[i] \in Grant
  BY DEF Slices
<1>2. PICK a \in Seq(Cell), k \in Nat : a = s.arr /\ k = s.len
  BY <1>1
<1>3. Elems(s) = SubSeq(a, 1, k) /\ k <= Len(a) /\ Len(a) \in Nat
  BY <1>1, <1>2 DEF Elems
<1>4. DOMAIN SubSeq(a, 1, k) = 1..k /\ \A i \in 1..k : SubSeq(a, 1, k)[i] = a[i]
  BY <1>3
<1>5. Elems(s) = [i \in 1..k |-> a[i]]
  BY <1>3
<1>6. Elems(s) \in [1..k -> Grant]
  BY <1>1, <1>2, <1>5
<1>7. ToSet(Elems(s)) = {a[i] : i \in 1..k}
  BY <1>3, <1>4 DEF ToSet
<1>8. In(s) = {a[i] : i \in 1..k}
  BY <1>2 DEF In
<1> QED
  BY <1>1, <1>2, <1>6, <1>7, <1>8

-----------------------------------------------------------------------------
(* Grants: the two lists the editor changes.                               *)

\* What kinds of grants there are.
LEMMA GrantsAre ==
  /\ \A id \in Ids : <<id>> \in Grant /\ Len(<<id>>) = 1 /\ <<id>>[1] = id
  /\ \A id \in Ids, p \in Paths : GrantID(id, p) = <<id, p>> /\ <<id, p>> \in Grant
  /\ \A g \in Grant : Len(g) \in {1, 2} /\ g[1] \in Ids
  /\ \A g \in Grant : Len(g) = 1 => g = <<g[1]>>
  /\ \A g \in Grant : Len(g) = 2 => g[2] \in Paths /\ g = <<g[1], g[2]>>
<1>1. \A id \in Ids : <<id>> \in Grant /\ Len(<<id>>) = 1 /\ <<id>>[1] = id
  BY DEF Grant
<1>2. \A id \in Ids, p \in Paths : GrantID(id, p) = <<id, p>> /\ <<id, p>> \in Grant
  BY GrantsAssumption DEF Grant, GrantID
<1>3. ASSUME NEW g \in Grant
      PROVE  /\ Len(g) \in {1, 2} /\ g[1] \in Ids
             /\ Len(g) = 1 => g = <<g[1]>>
             /\ Len(g) = 2 => g[2] \in Paths /\ g = <<g[1], g[2]>>
  <2>1. CASE \E id \in Ids : g = <<id>>
    BY <2>1
  <2>2. CASE \E id \in Ids, p \in Paths : g = <<id, p>>
    BY <2>2
  <2> QED
    BY <2>1, <2>2 DEF Grant
<1> QED
  BY <1>1, <1>2, <1>3

\* Neither edit touches a place of the live slice that it does not refill.
LEMMA ServiceGrantsIs ==
  ASSUME NEW s \in Slices, NEW id \in Ids, NEW enabled \in BOOLEAN
  PROVE  /\ Sound(ServiceGrants(s, id, enabled), s.len)
         /\ In(ServiceGrants(s, id, enabled)) =
              IF enabled THEN In(s) \cup {<<id>>} ELSE In(s) \ {<<id>>}
<1> DEFINE c == Shared(s)
           has == <<id>> \in In(s)
           one == << <<id>> >>
<1>1. Sound(c, s.len) /\ In(c) = In(s) /\ s.len \in Nat /\ In(s) \subseteq Grant
  BY SharedIs, ElemsIs
<1>2. ServiceGrants(s, id, enabled) =
        IF enabled /\ ~ has THEN Appended(c, one)
        ELSE IF has /\ ~ enabled THEN Kept(c, Grant \ {<<id>>})
        ELSE c
  BY DEF ServiceGrants
<1>3. one \in Seq(Grant) /\ ToSet(one) = {<<id>>}
  <2>1. PICK g \in Grant : g = <<id>>
    BY GrantsAre
  <2>2. <<g>> \in Seq(Grant) /\ ToSet(<<g>>) = {g}
    BY DEF ToSet
  <2> QED
    BY <2>1, <2>2
<1> HIDE DEF c, one
<1>4. CASE enabled /\ ~ has
  BY <1>1, <1>2, <1>3, <1>4, AppendedIs
<1>5. CASE has /\ ~ enabled
  <2>1. In(c) \cap (Grant \ {<<id>>}) = In(s) \ {<<id>>}
    BY <1>1
  <2>2. ServiceGrants(s, id, enabled) = Kept(c, Grant \ {<<id>>})
    BY <1>2, <1>5
  <2> QED
    BY <1>1, <1>5, <2>1, <2>2, KeptIs
<1>6. CASE ~ (enabled /\ ~ has) /\ ~ (has /\ ~ enabled)
  BY <1>1, <1>2, <1>6
<1> QED
  BY <1>4, <1>5, <1>6

LEMMA PathGrantsIs ==
  ASSUME NEW s \in Slices, NEW id \in Ids, NEW paths \in SUBSET Paths
  PROVE  /\ Sound(PathGrants(s, id, paths), s.len)
         /\ In(PathGrants(s, id, paths)) =
              {g \in In(s) : ~ (Len(g) = 2 /\ g[1] = id)} \cup {<<id, p>> : p \in paths}
<1> DEFINE c == Shared(s)
           stay == {g \in Grant : ~ (Len(g) = 2 /\ g[1] = id)}
           G == {GrantID(id, p) : p \in paths}
<1>1. Sound(c, s.len) /\ In(c) = In(s) /\ s.len \in Nat /\ In(s) \subseteq Grant
  BY SharedIs, ElemsIs
<1>2. G \in SUBSET Grant /\ G = {<<id, p>> : p \in paths}
  <2>1. \A p \in paths : GrantID(id, p) = <<id, p>> /\ <<id, p>> \in Grant
    BY GrantsAre
  <2>2. G = {<<id, p>> : p \in paths}
    BY <2>1
  <2>3. {<<id, p>> : p \in paths} \in SUBSET Grant
    BY <2>1
  <2> QED
    BY <2>2, <2>3
<1>3. PathGrants(s, id, paths) = Sorted(Appended(Kept(c, stay), ListOf(G)))
  BY DEF PathGrants
<1>4. In(c) \cap stay = {g \in In(s) : ~ (Len(g) = 2 /\ g[1] = id)}
  BY <1>1
<1> HIDE DEF c, stay, G
<1>5. ListOf(G) \in Seq(Grant) /\ ToSet(ListOf(G)) = G
  BY <1>2, ListOfIs
<1>6. Sound(Kept(c, stay), s.len) /\ In(Kept(c, stay)) = In(c) \cap stay
  BY <1>1, KeptIs
<1>7. /\ Sound(Appended(Kept(c, stay), ListOf(G)), s.len)
      /\ In(Appended(Kept(c, stay), ListOf(G))) = (In(c) \cap stay) \cup G
  BY <1>1, <1>5, <1>6, AppendedIs
<1>8. /\ Sound(PathGrants(s, id, paths), s.len)
      /\ In(PathGrants(s, id, paths)) = In(Appended(Kept(c, stay), ListOf(G)))
  BY <1>1, <1>3, <1>7, SortedIs
<1> QED
  BY <1>2, <1>4, <1>7, <1>8

-----------------------------------------------------------------------------
(* Grants: types.                                                          *)

\* A request is at work only in a running core.
Serving == job # Idle => live # Down

LEMMA FormsAre ==
  ASSUME NEW id \in Ids, NEW f \in Forms(id)
  PROVE  /\ f.id = id /\ f.over \in Overrides /\ f.sent \in BOOLEAN
         /\ f \in UNION {Forms(i) : i \in Ids}
         /\ \A u \in Users : PathsFor(f, u) \in SUBSET Paths
<1>1. f.id = id /\ f.over \in Overrides /\ f.sent \in BOOLEAN
  BY DEF Forms
<1>2. f \in UNION {Forms(i) : i \in Ids}
  OBVIOUS
<1>3. \A u \in Users : PathsFor(f, u) \in SUBSET Paths
  BY DEF PathsFor
<1> QED
  BY <1>1, <1>2, <1>3

LEMMA JobsAre ==
  ASSUME GrantTypeOK
  PROVE  /\ job = Idle <=> job.pc = "idle"
         /\ job # Idle => job.pc \in {"commit", "edit", "save", "swap"} /\ job.copy \in Copies
                          /\ job.what \in {"authz", "service", "path"}
         /\ job \in AuthzJobs <=> job # Idle /\ job.what = "authz"
         /\ job \in EditorJobs <=> job # Idle /\ job.what \in {"service", "path"}
         /\ job \in AuthzJobs => job.pc \in {"save", "swap"}
         /\ job \in EditorJobs => /\ job.form.id \in Ids /\ job.form.over \in Overrides
                                  /\ \A u \in Users : PathsFor(job.form, u) \in SUBSET Paths
<1>1. CASE job = Idle
  BY <1>1 DEF Idle, AuthzJobs, EditorJobs
<1>2. CASE job \in AuthzJobs
  BY <1>2 DEF Idle, AuthzJobs, EditorJobs
<1>3. CASE job \in EditorJobs
  <2>1. PICK id \in Ids : job.form \in Forms(id)
    BY <1>3 DEF EditorJobs
  <2>2. /\ job.form.id \in Ids /\ job.form.over \in Overrides
        /\ \A u \in Users : PathsFor(job.form, u) \in SUBSET Paths
    BY <2>1, FormsAre
  <2> QED
    BY <1>3, <2>2 DEF Idle, AuthzJobs, EditorJobs
<1> QED
  BY <1>1, <1>2, <1>3 DEF GrantTypeOK

\* What the loop over the copies makes of a user's list.
Outcome(u) ==
  IF job.what = "service"
    THEN IF u \in job.form.enabled THEN Seen(u) \cup {<<job.form.id>>}
                                  ELSE Seen(u) \ {<<job.form.id>>}
    ELSE {g \in Seen(u) : ~ (Len(g) = 2 /\ g[1] = job.form.id)}
           \cup {<<job.form.id, p>> : p \in PathsFor(job.form, u)}

LEMMA EditCopyIs ==
  ASSUME GrantTypeOK, Serving, EditCopy
  PROVE  /\ job \in EditorJobs /\ live \in Copies /\ live' \in Copies /\ job' \in EditorJobs
         /\ job' # Idle /\ job'.pc = "save" /\ job'.what = job.what /\ job'.form = job.form
         /\ \A u \in Users : In(job'.copy[u]) = Outcome(u)
<1> DEFINE f == job.form
           Edited(u) == IF job.what = "service" THEN ServiceGrants(live[u], f.id, u \in f.enabled)
                                                ELSE PathGrants(live[u], f.id, PathsFor(f, u))
           ed == [u \in Users |-> Edited(u)]
<1>1. /\ job.pc = "edit"
      /\ job' = [job EXCEPT !.pc = "save", !.copy = [u \in Users |-> Owned(ed[u])]]
      /\ live' = [u \in Users |-> [live[u] EXCEPT !.arr = ed[u].seen]]
  BY DEF EditCopy
<1>2. /\ job \in EditorJobs /\ f.id \in Ids /\ live \in Copies
      /\ \A u \in Users : PathsFor(f, u) \in SUBSET Paths
  BY <1>1, JobsAre DEF Serving, GrantTypeOK
<1>3. ASSUME NEW u \in Users
      PROVE  /\ live[u] \in Slices /\ Sound(ed[u], live[u].len) /\ live[u].len \in Nat
             /\ In(ed[u]) = Outcome(u)
  <2>1. live[u] \in Slices
    BY <1>2 DEF Copies
  <2>2. live[u].len \in Nat
    BY <2>1, SharedIs
  <2>3. ed[u] = Edited(u)
    OBVIOUS
  <2>4. PICK e \in BOOLEAN : e <=> u \in f.enabled
    <3>1. CASE u \in f.enabled
      BY <3>1
    <3>2. CASE u \notin f.enabled
      BY <3>2
    <3> QED
      BY <3>1, <3>2
  <2>5. CASE job.what = "service"
    <3>1. ed[u] = ServiceGrants(live[u], f.id, e)
      BY <2>3, <2>4, <2>5 DEF ServiceGrants
    <3>2. /\ Sound(ed[u], live[u].len)
          /\ In(ed[u]) = IF e THEN Seen(u) \cup {<<f.id>>} ELSE Seen(u) \ {<<f.id>>}
      <4> HIDE DEF ed, f
      <4>1. /\ Sound(ServiceGrants(live[u], f.id, e), live[u].len)
            /\ In(ServiceGrants(live[u], f.id, e)) =
                 IF e THEN In(live[u]) \cup {<<f.id>>} ELSE In(live[u]) \ {<<f.id>>}
        BY <1>2, <2>1, ServiceGrantsIs, Zenon
      <4> QED
        BY <3>1, <4>1 DEF Seen
    <3>3. Outcome(u) = IF e THEN Seen(u) \cup {<<f.id>>} ELSE Seen(u) \ {<<f.id>>}
      BY <2>4, <2>5 DEF Outcome
    <3> QED
      BY <2>1, <2>2, <3>2, <3>3
  <2>6. CASE job.what # "service"
    <3>1. ed[u] = PathGrants(live[u], f.id, PathsFor(f, u))
      BY <2>3, <2>6
    <3>2. /\ Sound(ed[u], live[u].len)
          /\ In(ed[u]) = {g \in Seen(u) : ~ (Len(g) = 2 /\ g[1] = f.id)}
                            \cup {<<f.id, p>> : p \in PathsFor(f, u)}
      BY <1>2, <2>1, <3>1, PathGrantsIs DEF Seen
    <3> QED
      BY <2>1, <2>2, <2>6, <3>2 DEF Outcome
  <2> QED
    BY <2>5, <2>6
<1> HIDE DEF ed
<1>4. ASSUME NEW u \in Users
      PROVE  [live[u] EXCEPT !.arr = ed[u].seen] \in Slices
  <2>1. live[u] \in [arr : Seq(Cell), len : Nat]
    BY <1>3 DEF Slices
  <2>2. /\ ed[u].seen \in Seq(Cell) /\ live[u].len <= Len(ed[u].seen)
        /\ \A i \in 1..live[u].len : ed[u].seen[i] \in Grant
    BY <1>3 DEF Sound
  <2> QED
    BY <2>1, <2>2 DEF Slices
<1>5. live' \in Copies
  BY <1>1, <1>4 DEF Copies
<1>6. [u \in Users |-> Owned(ed[u])] \in Copies
  BY <1>3, OwnedIs DEF Copies
<1>7. /\ job' \in EditorJobs /\ job'.pc = "save" /\ job'.what = job.what /\ job'.form = job.form
      /\ job'.copy = [u \in Users |-> Owned(ed[u])]
  BY <1>1, <1>2, <1>6 DEF EditorJobs
<1>8. \A u \in Users : In(job'.copy[u]) = Outcome(u)
  BY <1>3, <1>7, OwnedIs
<1>9. job' # Idle
  BY <1>7 DEF Idle
<1> QED
  BY <1>2, <1>5, <1>7, <1>8, <1>9

\* The services and links a request may leave behind.
LEMMA ServicesAre ==
  ASSUME NEW svc \in Services, NEW id \in Ids
  PROVE  /\ \A L \in SUBSET Ids : [svc EXCEPT !.links = L] \in Services
         /\ \A o \in Overrides \cup {Absent} : [svc EXCEPT !.backends[id] = o] \in Services
         /\ [p \in Paths |-> "absent"] \in Overrides
BY DEF Services, Overrides

\* Each action keeps the types, and needs a running core for a request.
LEMMA GrantTypes ==
  ASSUME GrantTypeOK, Serving, [GrantNext]_grantVars
  PROVE  GrantTypeOK' /\ Serving'
<1> USE DEF Serving
<1>1. ASSUME NEW svc \in Services, SetServices(svc), tainted' \in BOOLEAN
      PROVE  GrantTypeOK' /\ Serving'
  BY <1>1, GrantsAssumption DEF GrantTypeOK, SetServices, Change
<1>2. ASSUME NEW id \in Ids, LinkAdd(id) \/ RunAddLink(id) PROVE GrantTypeOK' /\ Serving'
  <2>1. services.links \cup {id} \in SUBSET Ids /\ services \in Services
    BY DEF GrantTypeOK, Services
  <2>2. [services EXCEPT !.links = @ \cup {id}] \in Services
    BY <2>1, ServicesAre
  <2> QED
    BY <1>1, <1>2, <2>2 DEF LinkAdd, RunAddLink, GrantTypeOK
<1>3. ASSUME NEW id \in Ids, LinkDel(id) PROVE GrantTypeOK' /\ Serving'
  <2>1. services.links \ {id} \in SUBSET Ids /\ services \in Services
    BY DEF GrantTypeOK, Services
  <2>2. [services EXCEPT !.links = @ \ {id}] \in Services
    BY <2>1, ServicesAre
  <2> QED
    BY <1>1, <1>3, <2>2 DEF LinkDel, GrantTypeOK
<1>4. ASSUME NEW id \in Ids, BackendAdd(id) \/ RunAddBackend(id) PROVE GrantTypeOK' /\ Serving'
  <2>1. [services EXCEPT !.backends[id] = [p \in Paths |-> "absent"]] \in Services
    BY ServicesAre DEF GrantTypeOK
  <2> QED
    BY <1>1, <1>4, <2>1 DEF BackendAdd, RunAddBackend, GrantTypeOK
<1>5. ASSUME NEW id \in Ids, BackendDel(id) PROVE GrantTypeOK' /\ Serving'
  <2>1. [services EXCEPT !.backends[id] = Absent] \in Services
    BY ServicesAre DEF GrantTypeOK
  <2>2. tainted' \in BOOLEAN
    BY <1>5 DEF BackendDel
  <2> QED
    BY <1>1, <1>5, <2>1, <2>2 DEF BackendDel
<1>6. ASSUME NEW id \in Ids, NEW f \in Forms(id), BackendEdit(f) PROVE GrantTypeOK' /\ Serving'
  <2>1. live \in Copies
    BY <1>6 DEF BackendEdit, Panel, GrantTypeOK
  <2>2. f \in UNION {Forms(i) : i \in Ids}
    OBVIOUS
  <2>3. job' \in EditorJobs
    BY <1>6, <2>1, <2>2 DEF BackendEdit, EditorJobs
  <2> QED
    BY <1>6, <2>3, GrantsAssumption DEF BackendEdit, Panel, Change, GrantTypeOK, history
<1>7. ASSUME NEW u \in Users, NEW S \in SUBSET Ids, UserAuthz(u, S) PROVE GrantTypeOK' /\ Serving'
  <2> DEFINE G == {<<id>> : id \in S}
  <2>1. G \in SUBSET Grant
    BY GrantsAre
  <2> HIDE DEF G
  <2>2. Decoded(ListOf(G)) \in Slices
    BY <2>1, ListOfIs, DecodedIs
  <2>3. live \in Copies
    BY <1>7 DEF UserAuthz, Panel, GrantTypeOK
  <2>4. [live EXCEPT ![u] = Decoded(ListOf(G))] \in Copies
    BY <2>2, <2>3 DEF Copies
  <2>5. job' \in AuthzJobs
    BY <1>7, <2>4 DEF UserAuthz, AuthzJobs, G
  <2> QED
    BY <1>7, <2>5, GrantsAssumption DEF UserAuthz, Panel, Change, GrantTypeOK, history
<1>8. ASSUME Commit \/ CommitFails PROVE GrantTypeOK' /\ Serving'
  <2>1. job.pc = "commit"
    BY <1>8 DEF Commit, CommitFails
  <2>2. job \in EditorJobs /\ job.form.id \in Ids /\ job.form.over \in Overrides /\ live # Down
    BY <2>1, JobsAre DEF GrantTypeOK
  <2>3. [services EXCEPT !.backends[job.form.id] = job.form.over] \in Services
    BY <2>2, ServicesAre DEF GrantTypeOK
  <2>4. services' \in Services
    BY <1>8, <2>3 DEF Commit, CommitFails, GrantTypeOK
  <2>5. CASE Commit
    <3>1. job' \in EditorJobs
      BY <2>2, <2>5 DEF Commit, EditorJobs
    <3> QED
      BY <2>2, <2>4, <2>5, <3>1 DEF Commit, GrantTypeOK, history, bounds
  <2>6. CASE CommitFails
    BY <2>4, <2>6, GrantsAssumption DEF CommitFails, Fail, GrantTypeOK
  <2> QED
    BY <1>8, <2>5, <2>6
<1>9. CASE EditCopy
  <2>1. live' \in Copies /\ job' \in EditorJobs
    BY <1>9, EditCopyIs
  <2>2. live' # Down
    BY <2>1, DownAssumption DEF Copies
  <2>3. UNCHANGED <<services, disk, failed, tainted, edits, fails>>
    BY <1>9 DEF EditCopy, history, bounds
  <2> QED
    BY <2>1, <2>2, <2>3 DEF GrantTypeOK
<1>10. CASE SaveUsers
  <2>1. job # Idle /\ job.copy \in Copies
    BY <1>10, JobsAre DEF SaveUsers
  <2>2. \A u \in Users : job.copy[u] \in Slices
    BY <2>1 DEF Copies
  <2>3. disk' \in [Users -> Seq(Grant)]
    BY <1>10, <2>2, ElemsIs DEF SaveUsers
  <2>4. job' \in AuthzJobs \cup EditorJobs
    BY <1>10, <2>1 DEF SaveUsers, AuthzJobs, EditorJobs, GrantTypeOK
  <2> QED
    BY <1>10, <2>1, <2>3, <2>4 DEF SaveUsers, GrantTypeOK, history, bounds
<1>11. CASE SaveUsersFails
  BY <1>11, GrantsAssumption DEF SaveUsersFails, Fail, GrantTypeOK
<1>12. CASE Replace
  <2>1. job # Idle /\ job.copy \in Copies
    BY <1>12, JobsAre DEF Replace
  <2>2. live' \in Copies /\ live' # Down
    BY <1>12, <2>1, DownAssumption DEF Replace, Copies
  <2>3. job' \in {Idle} \cup EditorJobs
    <3>1. CASE job.what = "service"
      <4>1. job \in EditorJobs
        BY <2>1, <3>1, JobsAre
      <4> QED
        BY <1>12, <3>1, <4>1 DEF Replace, EditorJobs
    <3>2. CASE job.what # "service"
      BY <1>12, <3>2 DEF Replace
    <3> QED
      BY <3>1, <3>2
  <2> QED
    BY <1>12, <2>2, <2>3 DEF Replace, GrantTypeOK, history, bounds
<1>13. CASE Crash
  BY <1>13, GrantsAssumption DEF Crash, Fail, GrantTypeOK
<1>14. CASE Boot
  <2>1. \A u \in Users : disk[u] \in Seq(Grant)
    BY DEF GrantTypeOK
  <2>2. live' \in Copies
    BY <1>14, <2>1, DecodedIs DEF Boot, Copies
  <2>3. live' # Down
    BY <2>2, DownAssumption DEF Copies
  <2> QED
    BY <1>14, <2>2, <2>3 DEF Boot, GrantTypeOK, bounds
<1>15. CASE UNCHANGED grantVars
  BY <1>15 DEF grantVars, history, bounds, GrantTypeOK
<1> QED
  BY <1>2, <1>3, <1>4, <1>5, <1>6, <1>7, <1>8, <1>9, <1>10, <1>11, <1>12, <1>13, <1>14, <1>15
  DEF GrantNext

LEMMA GrantInitTypes ==
  ASSUME GrantInit
  PROVE  GrantTypeOK /\ Serving
<1>1. PICK S \in SUBSET (Ids \ Base) :
        /\ services = [backends |-> [id \in Ids |->
                         IF id \in S THEN [p \in Paths |-> "absent"] ELSE Absent],
                       links |-> {}]
        /\ disk \in [Users -> {ListOf(G) : G \in SUBSET {<<id>> : id \in S \cup Base}}]
  BY DEF GrantInit
<1>2. services \in Services
  BY <1>1 DEF Services, Overrides
<1>3. ASSUME NEW u \in Users PROVE disk[u] \in Seq(Grant)
  <2>1. PICK G \in SUBSET {<<id>> : id \in S \cup Base} : disk[u] = ListOf(G)
    BY <1>1
  <2>2. G \in SUBSET Grant
    BY <2>1, GrantsAssumption DEF Grant
  <2> QED
    BY <2>1, <2>2, ListOfIs
<1>4. disk \in [Users -> Seq(Grant)]
  BY <1>1, <1>3
<1>5. live \in Copies
  BY <1>3, DecodedIs DEF GrantInit, Copies
<1>6. job = Idle /\ failed = FALSE /\ tainted = FALSE /\ edits = 0 /\ fails = 0
  BY DEF GrantInit
<1>7. edits \in 0..MaxEdits /\ fails \in 0..MaxFails
  BY <1>6, GrantsAssumption
<1> QED
  BY <1>2, <1>4, <1>5, <1>6, <1>7 DEF GrantTypeOK, Serving

-----------------------------------------------------------------------------
(* Grants: the directory and users.json.                                   *)

\* Outside an edit and the save of it, the gate and the file agree.
Agreed ==
  live # Down /\ ~ failed /\ job.pc \in {"idle", "commit", "edit"} =>
    \A u \in Users : Seen(u) = Held(u)

\* What an editor is about to save differs from the file in grants on its own
\* service only.
OwnOnly ==
  job \in EditorJobs /\ job.pc = "save" /\ ~ failed =>
    \A u \in Users : \A g \in Grant :
      g[1] # job.form.id => (g \in Held(u) <=> g \in In(job.copy[u]))

\* What is about to become the directory is what was written.
AsWritten == job.pc = "swap" => \A u \in Users : In(job.copy[u]) = Held(u)

DirInv == Agreed /\ OwnOnly /\ AsWritten

\* The path of a grant has a list of its own.
OwnList(g) == services.backends[g[1]] # Absent /\ services.backends[g[1]][g[2]] = "own"

Fresh(G) == \A g \in G : Len(g) = 2 => OwnList(g)
FreshBut(G, id) == \A g \in G : Len(g) = 2 /\ g[1] # id => OwnList(g)

\* From the commit of a service on, and until its paths' grants are saved, only the
\* grants on that service's paths may be stale.
FreshInv ==
  /\ job.pc \in {"idle", "commit"} \/ job \in AuthzJobs => \A u \in Users : Fresh(Held(u))
  /\ job.pc \in {"save", "swap"} /\ job.what \in {"authz", "path"} =>
       \A u \in Users : Fresh(In(job.copy[u]))
  /\ job \in EditorJobs /\ job.pc # "commit" =>
       /\ services.backends[job.form.id] = job.form.over
       /\ \A u \in Users : FreshBut(Held(u), job.form.id)
  /\ job \in EditorJobs /\ job.pc \in {"save", "swap"} =>
       \A u \in Users : FreshBut(In(job.copy[u]), job.form.id)

PathInv == (failed => tainted) /\ (tainted \/ FreshInv)

LEMMA DirStep ==
  ASSUME GrantTypeOK, Serving, DirInv, [GrantNext]_grantVars
  PROVE  DirInv'
<1> USE DEF DirInv
<1>1. ASSUME UNCHANGED <<disk, live, job, failed>> PROVE DirInv'
  BY <1>1 DEF Agreed, OwnOnly, AsWritten, Seen, Held
<1>2. ASSUME NEW id \in Ids,
             \/ LinkAdd(id) \/ LinkDel(id) \/ BackendAdd(id) \/ BackendDel(id)
             \/ RunAddLink(id) \/ RunAddBackend(id)
      PROVE  DirInv'
  BY <1>1, <1>2 DEF LinkAdd, LinkDel, BackendAdd, BackendDel, RunAddLink, RunAddBackend, SetServices
<1>3. ASSUME NEW f, BackendEdit(f) PROVE DirInv'
  <2>1. job.pc = "idle" /\ job'.pc = "commit" /\ UNCHANGED <<disk, live, failed>>
    BY <1>3, JobsAre DEF BackendEdit, Panel, history
  <2>2. Agreed'
    BY <2>1 DEF Agreed, Seen, Held
  <2> QED
    BY <2>1, <2>2 DEF OwnOnly, AsWritten
<1>4. ASSUME NEW u, NEW S, UserAuthz(u, S) PROVE DirInv'
  <2>1. job'.pc = "save" /\ job'.what = "authz"
    BY <1>4 DEF UserAuthz
  <2>2. job' \notin EditorJobs
    BY <2>1 DEF EditorJobs
  <2> QED
    BY <2>1, <2>2 DEF Agreed, OwnOnly, AsWritten
<1>5. CASE Commit
  <2>1. job.pc = "commit" /\ UNCHANGED <<disk, live, failed>>
    BY <1>5 DEF Commit, history
  <2>2. job \in EditorJobs
    BY <2>1, JobsAre
  <2>3. job'.pc = "edit"
    BY <1>5, <2>2 DEF Commit, EditorJobs
  <2>4. Agreed'
    BY <2>1 DEF Agreed, Seen, Held
  <2> QED
    BY <2>3, <2>4 DEF OwnOnly, AsWritten
<1>6. CASE CommitFails
  <2>1. job.pc = "commit" /\ job'.pc = "idle" /\ UNCHANGED <<disk, live, failed>>
    BY <1>6 DEF CommitFails, Idle
  <2>2. Agreed'
    BY <2>1 DEF Agreed, Seen, Held
  <2> QED
    BY <2>1, <2>2 DEF OwnOnly, AsWritten
<1>7. CASE EditCopy
  <2>1. /\ job \in EditorJobs /\ live \in Copies /\ job'.pc = "save" /\ job'.form = job.form
        /\ \A u \in Users : In(job'.copy[u]) = Outcome(u)
    BY <1>7, EditCopyIs
  <2>2. job.pc = "edit" /\ UNCHANGED <<disk, failed>>
    BY <1>7 DEF EditCopy, history
  <2>3. live # Down
    BY <2>1, DownAssumption DEF Copies
  <2>4. ASSUME NEW u \in Users, NEW g \in Grant, ~ failed, g[1] # job.form.id
        PROVE  g \in Held(u) <=> g \in Outcome(u)
    <3>1. Seen(u) = Held(u)
      BY <2>2, <2>3, <2>4 DEF Agreed
    <3>2. g # <<job.form.id>>
      BY <2>4
    <3>3. \A p : g # <<job.form.id, p>>
      BY <2>4
    <3> QED
      BY <2>4, <3>1, <3>2, <3>3 DEF Outcome
  <2>5. OwnOnly'
    <3>1. ASSUME NEW u \in Users, NEW g \in Grant, ~ failed', g[1] # job'.form.id
          PROVE  g \in Held(u)' <=> g \in In(job'.copy[u])
      <4>1. Held(u)' = Held(u)
        BY <2>2 DEF Held
      <4> QED
        BY <2>1, <2>2, <2>4, <3>1, <4>1
    <3> QED
      BY <3>1 DEF OwnOnly
  <2> QED
    BY <2>1, <2>5 DEF Agreed, AsWritten
<1>8. CASE SaveUsers
  <2>1. job.pc = "save" /\ disk' = [u \in Users |-> Elems(job.copy[u])]
    BY <1>8 DEF SaveUsers
  <2>2. job # Idle /\ job.copy \in Copies
    BY <2>1, JobsAre
  <2>3. job'.pc = "swap" /\ job'.copy = job.copy
    BY <1>8, <2>2 DEF SaveUsers, GrantTypeOK, AuthzJobs, EditorJobs
  <2>4. ASSUME NEW u \in Users PROVE In(job'.copy[u]) = Held(u)'
    <3>1. job.copy[u] \in Slices
      BY <2>2 DEF Copies
    <3> QED
      BY <2>1, <2>3, <3>1, ElemsIs DEF Held
  <2> QED
    BY <2>3, <2>4 DEF Agreed, OwnOnly, AsWritten
<1>9. CASE SaveUsersFails
  <2>1. failed' /\ job'.pc = "idle"
    BY <1>9 DEF SaveUsersFails, Idle
  <2> QED
    BY <2>1 DEF Agreed, OwnOnly, AsWritten
<1>10. CASE Replace
  <2>1. job.pc = "swap" /\ live' = job.copy /\ UNCHANGED disk
    BY <1>10 DEF Replace
  <2>2. job # Idle
    BY <2>1, JobsAre
  <2>3. job'.pc \in {"idle", "edit"}
    <3>1. CASE job.what = "service"
      BY <1>10, <2>2, <3>1 DEF Replace, GrantTypeOK, AuthzJobs, EditorJobs
    <3>2. CASE job.what # "service"
      BY <1>10, <3>2 DEF Replace, Idle
    <3> QED
      BY <3>1, <3>2
  <2>4. Agreed'
    BY <2>1 DEF Agreed, AsWritten, Seen, Held
  <2> QED
    BY <2>3, <2>4 DEF OwnOnly, AsWritten
<1>11. CASE Crash
  <2>1. live' = Down /\ job'.pc = "idle"
    BY <1>11 DEF Crash, Idle
  <2> QED
    BY <2>1 DEF Agreed, OwnOnly, AsWritten
<1>12. CASE Boot
  <2>1. job'.pc = "idle"
    BY <1>12 DEF Boot, Serving, Idle
  <2>2. ASSUME NEW u \in Users PROVE Seen(u)' = Held(u)'
    <3>1. disk[u] \in Seq(Grant)
      BY DEF GrantTypeOK
    <3> QED
      BY <1>12, <3>1, DecodedIs DEF Boot, Seen, Held
  <2> QED
    BY <2>1, <2>2 DEF Agreed, OwnOnly, AsWritten
<1>13. CASE UNCHANGED grantVars
  BY <1>1, <1>13 DEF grantVars, history
<1> QED
  BY <1>2, <1>3, <1>4, <1>5, <1>6, <1>7, <1>8, <1>9, <1>10, <1>11, <1>12, <1>13 DEF GrantNext

LEMMA DirInit ==
  ASSUME GrantInit
  PROVE  DirInv
<1>1. job.pc = "idle" /\ live = [u \in Users |-> Decoded(disk[u])]
  BY DEF GrantInit, Idle
<1>2. ASSUME NEW u \in Users PROVE Seen(u) = Held(u)
  <2>1. disk[u] \in Seq(Grant)
    BY GrantInitTypes DEF GrantTypeOK
  <2> QED
    BY <1>1, <2>1, DecodedIs DEF Seen, Held
<1> QED
  BY <1>1, <1>2 DEF DirInv, Agreed, OwnOnly, AsWritten

-----------------------------------------------------------------------------
(* Grants: those on paths.                                                 *)

LEMMA PathStep ==
  ASSUME GrantTypeOK, Serving, DirInv, PathInv, [GrantNext]_grantVars
  PROVE  PathInv'
<1>0. ASSUME UNCHANGED <<services, disk, job>>, failed' => tainted' \/ failed, tainted => tainted'
      PROVE  PathInv'
  BY <1>0 DEF PathInv, FreshInv, Fresh, FreshBut, OwnList, Held
\* Between requests: only what happens to the services matters.
<1>1. ASSUME job = Idle, UNCHANGED <<disk, job, failed>>, tainted => tainted',
             tainted' \/ \A id \in Ids : services.backends[id] # Absent =>
                            services'.backends[id] = services.backends[id]
      PROVE  PathInv'
  <2>1. CASE tainted'
    BY <2>1 DEF PathInv
  <2>2. CASE ~ tainted'
    <3>1. ~ tainted /\ ~ failed /\ FreshInv
      BY <1>1, <2>2 DEF PathInv
    <3>2. job.pc = "idle" /\ job'.pc = "idle" /\ job' \notin AuthzJobs /\ job' \notin EditorJobs
      BY <1>1 DEF Idle, AuthzJobs, EditorJobs
    <3>3. ASSUME NEW u \in Users PROVE Fresh(Held(u))'
      <4>1. Fresh(Held(u)) /\ Held(u)' = Held(u)
        BY <1>1, <3>1, <3>2 DEF FreshInv, Held
      <4>2. Held(u) \subseteq Grant
        BY DEF Held, GrantTypeOK, ToSet
      <4>3. \A g \in Held(u) : Len(g) = 2 => g[1] \in Ids
        BY <4>2, GrantsAre
      <4> QED
        BY <1>1, <2>2, <4>1, <4>3 DEF Fresh, OwnList
    <3> QED
      BY <1>1, <3>1, <3>2, <3>3 DEF PathInv, FreshInv
  <2> QED
    BY <2>1, <2>2
<1>2. ASSUME NEW id \in Ids, LinkAdd(id) \/ LinkDel(id) \/ RunAddLink(id) PROVE PathInv'
  <2>1. services'.backends = services.backends
    BY <1>2 DEF LinkAdd, LinkDel, RunAddLink, SetServices, GrantTypeOK, Services
  <2> QED
    BY <1>1, <1>2, <2>1 DEF LinkAdd, LinkDel, RunAddLink, Panel, SetServices
<1>3. ASSUME NEW id \in Ids, BackendAdd(id) \/ RunAddBackend(id) PROVE PathInv'
  <2>1. services.backends[id] = Absent
    BY <1>3 DEF BackendAdd, RunAddBackend, idTaken, serviceIDExists, Published
  <2>2. \A i \in Ids : i # id => services'.backends[i] = services.backends[i]
    BY <1>3 DEF BackendAdd, RunAddBackend, SetServices, GrantTypeOK, Services
  <2> QED
    BY <1>1, <1>3, <2>1, <2>2 DEF BackendAdd, RunAddBackend, Panel, SetServices
<1>4. ASSUME NEW id \in Ids, BackendDel(id) PROVE PathInv'
  <2>1. \A i \in Ids : i # id => services'.backends[i] = services.backends[i]
    BY <1>4 DEF BackendDel, SetServices, GrantTypeOK, Services
  <2>2. (tainted' <=> (tainted \/ services.backends[id] # Absent))
    BY <1>4 DEF BackendDel
  <2> QED
    BY <1>1, <1>4, <2>1, <2>2 DEF BackendDel, Panel, SetServices
<1>5. ASSUME tainted' PROVE PathInv'
  BY <1>5 DEF PathInv
<1>6. CASE CommitFails \/ SaveUsersFails
  BY <1>5, <1>6 DEF CommitFails, SaveUsersFails
\* The rest leaves the history alone.
<1>7. ASSUME UNCHANGED <<failed, tainted>>, ~ tainted => FreshInv' PROVE PathInv'
  BY <1>7 DEF PathInv
<1>8. ASSUME ~ tainted PROVE ~ failed /\ FreshInv
  BY <1>8 DEF PathInv
<1>9. \A u \in Users : Held(u) \subseteq Grant
  BY DEF Held, GrantTypeOK, ToSet
<1>10. ASSUME NEW f, BackendEdit(f) PROVE PathInv'
  <2>1. /\ job.pc = "idle" /\ job'.pc = "commit"
        /\ UNCHANGED <<services, disk, failed, tainted>>
    BY <1>10, JobsAre DEF BackendEdit, Panel, history
  <2>2. ASSUME ~ tainted PROVE \A u \in Users : Fresh(Held(u))'
    BY <1>8, <2>1, <2>2 DEF FreshInv, Fresh, OwnList, Held
  <2>3. ASSUME ~ tainted PROVE FreshInv'
    BY <2>1, <2>2, <2>3 DEF FreshInv
  <2> QED
    BY <1>7, <2>1, <2>3
<1>11. ASSUME NEW u \in Users, NEW S \in SUBSET Ids, UserAuthz(u, S) PROVE PathInv'
  <2> DEFINE G == {<<id>> : id \in S}
             d == Decoded(ListOf(G))
  <2>1. /\ job.pc = "idle" /\ live # Down
        /\ job' = [pc |-> "save", what |-> "authz", copy |-> [live EXCEPT ![u] = d]]
        /\ UNCHANGED <<services, disk, failed, tainted>>
    BY <1>11, JobsAre DEF UserAuthz, Panel, history
  <2>2. G \in SUBSET Grant /\ \A g \in G : Len(g) # 2
    BY GrantsAre
  <2> HIDE DEF G
  <2>3. In(d) = G
    BY <2>2, ListOfIs, DecodedIs
  <2> HIDE DEF d
  <2>4. live \in [Users -> Slices]
    BY <2>1 DEF GrantTypeOK, Copies
  <2>5. /\ job'.pc = "save" /\ job'.what = "authz" /\ job'.copy = [live EXCEPT ![u] = d]
        /\ job' \notin EditorJobs
    BY <2>1 DEF EditorJobs
  <2>6. ASSUME ~ tainted, NEW v \in Users PROVE Fresh(Held(v))' /\ Fresh(In(job.copy[v]))'
    <3>1. Fresh(Held(v)) /\ Seen(v) = Held(v)
      BY <1>8, <2>1, <2>6 DEF FreshInv, DirInv, Agreed
    <3>2. Fresh(Held(v))'
      BY <2>1, <3>1 DEF Fresh, OwnList, Held
    <3>3. In(job'.copy[v]) = IF v = u THEN G ELSE Held(v)
      BY <2>3, <2>4, <2>5, <3>1 DEF Seen
    <3> QED
      BY <2>1, <2>2, <3>1, <3>2, <3>3 DEF Fresh, OwnList
  <2>7. ASSUME ~ tainted PROVE FreshInv'
    BY <2>5, <2>6, <2>7 DEF FreshInv
  <2> QED
    BY <1>7, <2>1, <2>7
<1>12. CASE Commit
  <2>1. /\ job.pc = "commit"
        /\ services' = [services EXCEPT !.backends[job.form.id] = job.form.over]
        /\ UNCHANGED <<disk, failed, tainted>>
    BY <1>12 DEF Commit, history
  <2>2. job \in EditorJobs /\ job.form.id \in Ids
    BY <2>1, JobsAre
  <2>3. /\ job'.pc = "edit" /\ job'.form = job.form /\ job' \notin AuthzJobs
    BY <1>12, <2>2 DEF Commit, AuthzJobs, EditorJobs
  <2>4. /\ services'.backends[job.form.id] = job.form.over
        /\ \A id \in Ids : id # job.form.id => services'.backends[id] = services.backends[id]
    BY <2>1, <2>2 DEF GrantTypeOK, Services
  <2>5. ASSUME ~ tainted, NEW u \in Users PROVE FreshBut(Held(u), job.form.id)'
    <3>1. Fresh(Held(u)) /\ Held(u)' = Held(u)
      BY <1>8, <2>1, <2>5 DEF FreshInv, Held
    <3>2. \A g \in Held(u) : g[1] \in Ids
      BY <1>9, GrantsAre
    <3> QED
      BY <2>3, <2>4, <3>1, <3>2 DEF Fresh, FreshBut, OwnList
  <2>6. ASSUME ~ tainted PROVE FreshInv'
    BY <2>3, <2>4, <2>5, <2>6 DEF FreshInv
  <2> QED
    BY <1>7, <2>1, <2>6
<1>13. CASE EditCopy
  <2>1. /\ job \in EditorJobs /\ live \in Copies /\ job' \in EditorJobs
        /\ job'.pc = "save" /\ job'.what = job.what /\ job'.form = job.form
        /\ \A u \in Users : In(job'.copy[u]) = Outcome(u)
    BY <1>13, EditCopyIs
  <2>2. job.pc = "edit" /\ UNCHANGED <<services, disk, failed, tainted>>
    BY <1>13 DEF EditCopy, history
  <2>3. live # Down
    BY <2>1, DownAssumption DEF Copies
  <2>4. job' \notin AuthzJobs
    BY <2>1 DEF AuthzJobs, EditorJobs
  <2>5. job.form.id \in Ids /\ job.form.over \in Overrides /\ job.what \in {"service", "path"}
    BY <2>1, JobsAre
  <2>6. ASSUME ~ tainted, NEW u \in Users
        PROVE  /\ FreshBut(Held(u), job.form.id)
               /\ FreshBut(Outcome(u), job.form.id)
               /\ job.what = "path" => Fresh(Outcome(u))
    <3>1. FreshBut(Held(u), job.form.id) /\ services.backends[job.form.id] = job.form.over
      BY <1>8, <2>1, <2>2, <2>6 DEF FreshInv
    <3>2. Seen(u) = Held(u)
      BY <1>8, <2>2, <2>3, <2>6 DEF DirInv, Agreed
    <3>3. CASE job.what = "service"
      <4>1. Outcome(u) \subseteq Held(u) \cup {<<job.form.id>>}
        BY <3>2, <3>3 DEF Outcome
      <4> QED
        BY <2>5, <3>1, <3>3, <4>1 DEF FreshBut
    <3>4. CASE job.what = "path"
      <4>1. Outcome(u) = {g \in Held(u) : ~ (Len(g) = 2 /\ g[1] = job.form.id)}
                           \cup {<<job.form.id, p>> : p \in PathsFor(job.form, u)}
        BY <3>2, <3>4 DEF Outcome
      <4>2. ASSUME NEW p \in PathsFor(job.form, u) PROVE OwnList(<<job.form.id, p>>)
        <5>1. job.form.over[p] = "own"
          BY DEF PathsFor
        <5>2. job.form.over # Absent
          BY <2>5, GrantsAssumption
        <5> QED
          BY <3>1, <5>1, <5>2 DEF OwnList
      <4>3. Fresh(Outcome(u))
        BY <3>1, <4>1, <4>2 DEF Fresh, FreshBut
      <4> QED
        BY <3>1, <4>3 DEF Fresh, FreshBut
    <3> QED
      BY <2>5, <3>3, <3>4
  <2>7. ASSUME ~ tainted, NEW u \in Users
        PROVE  /\ FreshBut(Held(u), job.form.id)'
               /\ FreshBut(In(job.copy[u]), job.form.id)'
               /\ job.what = "path" => Fresh(In(job.copy[u]))'
    <3>1. Held(u)' = Held(u) /\ In(job.copy[u])' = Outcome(u) /\ job'.form.id = job.form.id
      BY <2>1, <2>2 DEF Held
    <3> HIDE DEF Outcome
    <3> QED
      BY <2>2, <2>6, <2>7, <3>1 DEF Fresh, FreshBut, OwnList
  <2>8. ASSUME ~ tainted PROVE FreshInv'
    <3>1. services'.backends[job'.form.id] = job'.form.over
      BY <1>8, <2>1, <2>2, <2>8 DEF FreshInv
    <3> QED
      BY <2>1, <2>4, <2>5, <2>7, <2>8, <3>1 DEF FreshInv
  <2> QED
    BY <1>7, <2>2, <2>8
<1>14. CASE SaveUsers
  <2>1. /\ job.pc = "save" /\ disk' = [u \in Users |-> Elems(job.copy[u])]
        /\ UNCHANGED <<services, failed, tainted>>
    BY <1>14 DEF SaveUsers, history
  <2>2. job # Idle /\ job.copy \in Copies /\ job \in AuthzJobs \cup EditorJobs
    BY <2>1, JobsAre DEF GrantTypeOK
  <2>3. /\ job'.pc = "swap" /\ job'.copy = job.copy /\ job'.what = job.what
        /\ job' \in AuthzJobs => job.what = "authz"
        /\ job' \in EditorJobs => job \in EditorJobs /\ job'.form = job.form
    BY <1>14, <2>2 DEF SaveUsers, AuthzJobs, EditorJobs
  <2>4. ASSUME NEW u \in Users PROVE Held(u)' = In(job.copy[u]) /\ In(job.copy[u])' = In(job.copy[u])
    <3>1. job.copy[u] \in Slices
      BY <2>2 DEF Copies
    <3> QED
      BY <2>1, <2>3, <3>1, ElemsIs DEF Held
  <2>5. ASSUME ~ tainted, NEW u \in Users, job.what \in {"authz", "path"}
        PROVE  Fresh(Held(u))' /\ Fresh(In(job.copy[u]))'
    <3>1. Fresh(In(job.copy[u]))
      BY <1>8, <2>1, <2>5 DEF FreshInv
    <3> QED
      BY <2>1, <2>4, <3>1 DEF Fresh, OwnList
  <2>6. ASSUME ~ tainted, NEW u \in Users, job' \in EditorJobs
        PROVE  /\ FreshBut(Held(u), job.form.id)' /\ FreshBut(In(job.copy[u]), job.form.id)'
               /\ services'.backends[job'.form.id] = job'.form.over
    <3>1. /\ FreshBut(In(job.copy[u]), job.form.id) /\ job'.form = job.form
          /\ services.backends[job.form.id] = job.form.over
      BY <1>8, <2>1, <2>3, <2>6 DEF FreshInv
    <3> QED
      BY <2>1, <2>4, <3>1 DEF FreshBut, OwnList
  <2>7. ASSUME ~ tainted PROVE FreshInv'
    <3>1. job' \in EditorJobs => services'.backends[job'.form.id] = job'.form.over
      BY <1>8, <2>1, <2>3, <2>7 DEF FreshInv
    <3> QED
      BY <2>3, <2>5, <2>6, <2>7, <3>1 DEF FreshInv
  <2> QED
    BY <1>7, <2>1, <2>7
<1>15. CASE Replace
  <2>1. job.pc = "swap" /\ UNCHANGED <<services, disk, failed, tainted>>
    BY <1>15 DEF Replace, history
  <2>2. job # Idle /\ job.what \in {"authz", "service", "path"}
    BY <2>1, JobsAre
  <2>3. CASE job.what = "service"
    <3>1. job \in EditorJobs
      BY <2>2, <2>3, JobsAre
    <3>2. job'.pc = "edit" /\ job'.what = "path" /\ job'.form = job.form /\ job' \notin AuthzJobs
      BY <1>15, <2>3, <3>1 DEF Replace, EditorJobs, AuthzJobs
    <3>3. ASSUME ~ tainted, NEW u \in Users PROVE FreshBut(Held(u), job.form.id)'
      <4>1. FreshBut(Held(u), job.form.id) /\ Held(u)' = Held(u)
        BY <1>8, <2>1, <3>1, <3>3 DEF FreshInv, Held
      <4> QED
        BY <2>1, <3>2, <4>1 DEF FreshBut, OwnList
    <3>4. ASSUME ~ tainted PROVE FreshInv'
      <4>1. services'.backends[job'.form.id] = job'.form.over
        BY <1>8, <2>1, <3>1, <3>2, <3>4 DEF FreshInv
      <4> QED
        BY <3>2, <3>3, <3>4, <4>1 DEF FreshInv
    <3> QED
      BY <1>7, <2>1, <3>4
  <2>4. CASE job.what \in {"authz", "path"}
    <3>1. job'.pc = "idle" /\ job' \notin EditorJobs
      BY <1>15, <2>4 DEF Replace, Idle, EditorJobs
    <3>2. ASSUME ~ tainted, NEW u \in Users PROVE Fresh(Held(u))'
      <4>1. Fresh(Held(u)) /\ Held(u)' = Held(u)
        BY <1>8, <2>1, <2>4, <3>2 DEF FreshInv, DirInv, AsWritten, Held
      <4> QED
        BY <2>1, <4>1 DEF Fresh, OwnList
    <3>3. ASSUME ~ tainted PROVE FreshInv'
      BY <3>1, <3>2, <3>3 DEF FreshInv
    <3> QED
      BY <1>7, <2>1, <3>3
  <2> QED
    BY <2>2, <2>3, <2>4
<1>16. CASE Crash
  <2>1. CASE job = Idle
    BY <1>1, <1>16, <2>1 DEF Crash
  <2>2. CASE job # Idle
    BY <1>5, <1>16, <2>2 DEF Crash
  <2> QED
    BY <2>1, <2>2
<1>17. CASE Boot
  BY <1>0, <1>17 DEF Boot
<1>18. CASE UNCHANGED grantVars
  BY <1>0, <1>18 DEF grantVars, history
<1> QED
  BY <1>2, <1>3, <1>4, <1>6, <1>10, <1>11, <1>12, <1>13, <1>14, <1>15, <1>16, <1>17, <1>18 DEF GrantNext

LEMMA PathInit ==
  ASSUME GrantInit
  PROVE  PathInv
<1>1. PICK S \in SUBSET (Ids \ Base) :
        disk \in [Users -> {ListOf(G) : G \in SUBSET {<<id>> : id \in S \cup Base}}]
  BY DEF GrantInit
<1>2. job.pc = "idle" /\ job \notin EditorJobs /\ failed = FALSE
  BY DEF GrantInit, Idle, EditorJobs
<1>3. ASSUME NEW u \in Users PROVE Fresh(Held(u))
  <2>1. PICK G \in SUBSET {<<id>> : id \in S \cup Base} : disk[u] = ListOf(G)
    BY <1>1
  <2>2. G \in SUBSET Grant /\ \A g \in G : Len(g) # 2
    BY <2>1, GrantsAssumption DEF Grant
  <2>3. Held(u) = G
    BY <2>1, <2>2, ListOfIs DEF Held
  <2> QED
    BY <2>2, <2>3 DEF Fresh
<1> QED
  BY <1>2, <1>3 DEF PathInv, FreshInv

LEMMA GrantsInvariant ==
  GrantSpec => [](GrantTypeOK /\ Serving /\ DirInv /\ PathInv)
<1>1. GrantInit => GrantTypeOK /\ Serving /\ DirInv /\ PathInv
  BY GrantInitTypes, DirInit, PathInit
<1>2. GrantTypeOK /\ Serving /\ DirInv /\ PathInv /\ [GrantNext]_grantVars
        => (GrantTypeOK /\ Serving /\ DirInv /\ PathInv)'
  BY GrantTypes, DirStep, PathStep
<1> QED
  BY <1>1, <1>2, PTL DEF GrantSpec

\* What the slices hold below their length are grants, in the directory, in the
\* copies and in the arrays they share, whatever the edits did to them
\* (handlers/admin.go:1199-1270, 1343-1353).
THEOREM GrantTypeCorrect == GrantSpec => []GrantTypeOK
BY GrantsInvariant, PTL

\* Between requests the gate decides by the grants in users.json, for any number
\* of services, paths and users, although the edits work on arrays the gate is
\* reading (handlers/admin.go:1343-1353).
THEOREM DirectoryCorrect == GrantSpec => []DirectoryCurrent
<1>1. DirInv => DirectoryCurrent
  BY DEF DirInv, Agreed, DirectoryCurrent, Idle
<1> QED
  BY <1>1, GrantsInvariant, PTL

\* The editor of one service never changes a grant on another: what it saves was
\* made from copies that agreed with the file (handlers/admin.go:1218-1267).
THEOREM OthersKept == GrantSpec => EditorKeepsOthers
<1> DEFINE Keeps ==
      job # Idle /\ job.what \in {"service", "path"} /\ ~ failed =>
        \A u \in Users : \A g \in Grant :
          g[1] # job.form.id => (g \in Held(u) <=> g \in Held(u)')
<1>1. ASSUME GrantTypeOK, DirInv, [GrantNext]_grantVars PROVE [Keeps]_grantVars
  <2>1. CASE UNCHANGED disk
    BY <2>1 DEF Held
  <2>2. CASE SaveUsers
    <3> SUFFICES ASSUME job # Idle, job.what \in {"service", "path"}, ~ failed,
                        NEW u \in Users, NEW g \in Grant, g[1] # job.form.id
                 PROVE  g \in Held(u) <=> g \in Held(u)'
      OBVIOUS
    <3>1. job \in EditorJobs /\ job.copy \in Copies /\ job.pc = "save"
      BY <1>1, <2>2, JobsAre DEF SaveUsers
    <3>2. job.copy[u] \in Slices
      BY <3>1 DEF Copies
    <3>3. Held(u)' = In(job.copy[u])
      BY <2>2, <3>2, ElemsIs DEF SaveUsers, Held
    <3> QED
      BY <1>1, <3>1, <3>3 DEF DirInv, OwnOnly
  <2> QED
    BY <1>1, <2>1, <2>2
    DEF GrantNext, LinkAdd, LinkDel, BackendAdd, BackendDel, RunAddLink, RunAddBackend, SetServices,
        BackendEdit, UserAuthz, Commit, CommitFails, EditCopy, SaveUsersFails, Replace, Crash, Boot,
        grantVars
<1>2. EditorKeepsOthers <=> [][Keeps]_grantVars
  BY DEF EditorKeepsOthers
<1> QED
  BY <1>1, <1>2, GrantsInvariant, PTL DEF GrantSpec

\* A path that goes back to inheriting, or is removed, leaves no grant behind
\* (handlers/admin.go:1199-1202): from the commit on the editor owes the cleaning of
\* its own service's paths, and only that.
THEOREM PathsCorrect == GrantSpec => []NoStalePathGrant
<1>1. PathInv => NoStalePathGrant
  BY DEF PathInv, FreshInv, Fresh, OwnList, NoStalePathGrant, Idle
<1> QED
  BY <1>1, GrantsInvariant, PTL

\* A service's editor, opened and saved untouched, gives nothing and takes nothing
\* from anyone but an administrator, whatever grants there are
\* (handlers/admin.go:1015-1070, 1203-1270).
THEOREM RoundTripCorrect == GrantSpec => []RoundTrip
<1>1. ASSUME GrantTypeOK, DirInv, PathInv PROVE RoundTrip
  <2> SUFFICES ASSUME job = Idle, live # Down, ~ tainted,
                      NEW id \in Published(services), NEW u \in Users \ Admins
               PROVE  In(PathGrants(Owned(ServiceGrants(live[u], id, u \in EditForm(id).enabled)),
                                    id, PathsFor(EditForm(id), u))) = Seen(u)
    BY DEF RoundTrip
  <2> DEFINE e == u \in EditForm(id).enabled
             P == PathsFor(EditForm(id), u)
             s == Owned(ServiceGrants(live[u], id, e))
  <2>1. id \in Ids /\ services.backends[id] # Absent
    BY DEF Published
  <2>2. live[u] \in Slices /\ Seen(u) \subseteq Grant
    BY <1>1, ElemsIs DEF GrantTypeOK, Copies, Seen
  <2>3. e <=> <<id>> \in Seen(u)
    BY DEF EditForm, serviceUsers, Holds, Seen
  <2>4. s \in Slices /\ In(s) = Seen(u)
    <3>1. live[u].len \in Nat
      BY <2>2, SharedIs
    <3>2. PICK b \in BOOLEAN : b <=> <<id>> \in Seen(u)
      <4>1. CASE <<id>> \in Seen(u)
        BY <4>1
      <4>2. CASE <<id>> \notin Seen(u)
        BY <4>2
      <4> QED
        BY <4>1, <4>2
    <3>3. ServiceGrants(live[u], id, e) = ServiceGrants(live[u], id, b)
      BY <2>3, <3>2 DEF ServiceGrants
    <3>4. /\ Sound(ServiceGrants(live[u], id, b), live[u].len)
          /\ In(ServiceGrants(live[u], id, b)) =
               IF b THEN In(live[u]) \cup {<<id>>} ELSE In(live[u]) \ {<<id>>}
      BY <2>1, <2>2, ServiceGrantsIs, Zenon
    <3>5. In(ServiceGrants(live[u], id, b)) = Seen(u)
      BY <3>2, <3>4 DEF Seen
    <3> QED
      BY <3>1, <3>3, <3>4, <3>5, OwnedIs
  <2>5. P \in SUBSET Paths
    BY DEF PathsFor
  <2>6. \A p \in Paths : p \in P <=> services.backends[id][p] = "own" /\ <<id, p>> \in Seen(u)
    <3>1. \A p \in Paths : p \notin {<<>>, Root} /\ GrantID(id, p) = <<id, p>>
      BY <2>1, GrantsAre, GrantsAssumption
    <3>2. \A p \in Paths : EditForm(id).over[p] = services.backends[id][p]
      BY DEF EditForm
    <3>3. \A p \in Paths : EditForm(id).grantees[p] =
            IF services.backends[id][p] = "own" THEN {v \in Users : Holds(v, <<id, p>>)} ELSE {}
      BY <3>1 DEF EditForm, pathGrantees
    <3> QED
      BY <3>2, <3>3 DEF PathsFor, Holds, Seen
  <2>7. ASSUME NEW g \in Seen(u), Len(g) = 2, g[1] = id
        PROVE  g \in {<<id, p>> : p \in P}
    <3>1. ~ failed /\ FreshInv
      BY <1>1 DEF PathInv
    <3>2. Seen(u) = Held(u) /\ Fresh(Held(u))
      BY <1>1, <3>1 DEF DirInv, Agreed, FreshInv, Idle
    <3>3. services.backends[id][g[2]] = "own"
      BY <2>7, <3>2 DEF Fresh, OwnList
    <3>4. g[2] \in Paths /\ g = <<id, g[2]>>
      BY <2>2, <2>7, GrantsAre
    <3> QED
      BY <2>6, <3>3, <3>4
  <2> HIDE DEF s, P, e
  <2>8. In(PathGrants(s, id, P)) =
          {g \in In(s) : ~ (Len(g) = 2 /\ g[1] = id)} \cup {<<id, p>> : p \in P}
    BY <2>1, <2>4, <2>5, PathGrantsIs
  <2>9. In(PathGrants(s, id, P)) = Seen(u)
    BY <2>4, <2>5, <2>6, <2>7, <2>8
  <2> QED
    BY <2>9 DEF s, P, e
<1> QED
  BY <1>1, GrantsInvariant, PTL
=============================================================================
