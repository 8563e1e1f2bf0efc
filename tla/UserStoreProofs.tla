-------------------------- MODULE UserStoreProofs --------------------------
(***************************************************************************)
(* Proofs about UserStore, for any number of handlers, commands and users. *)
(***************************************************************************)
EXTENDS UserStore, TLAPS

HasAdmin(c) == c \in Directory => Admins(c) # {}

\* Without a deletion or a demotion by command, every directory that is held,
\* saved or about to be saved has an administrator.
AdminInv ==
  ~ forced =>
    /\ HasAdmin(ram)
    /\ HasAdmin(users)
    /\ HasAdmin(tmp)
    /\ \A w \in Savers : job[w] # Idle => Admins(job[w].dir) # {}

\* A saver that is alone finds its own work in the files.
Alone(w) ==
  /\ job[w].pc = "write" => job[w].fd = "tmp" /\ tmp = Empty
  /\ job[w].pc = "rename" => tmp = job[w].dir
  /\ job[w].pc = "replace" => users = job[w].dir

SerialInv ==
  ~ overlap =>
    /\ users \in Directory
    /\ \A v, w \in Savers : job[v] # Idle /\ job[w] # Idle => v = w
    /\ \A w \in Savers : job[w] # Idle => Alone(w)

-----------------------------------------------------------------------------
\* What a saver carries while it is at work.
LEMMA BusyJob ==
  ASSUME TypeOK, NEW w \in Savers, job[w] # Idle
  PROVE  /\ job[w] \in [pc : {"open", "write", "rename", "replace"}, dir : Directory,
                        asked : SUBSET Emails, fd : {"none", "tmp", "users", "gone"}]
         /\ job[w].dir \in Directory
  BY DEF TypeOK, Job

\* A job that has a program counter other than "idle" is at work.
LEMMA AtWork ==
  ASSUME NEW w \in Savers, job[w].pc # "idle"
  PROVE  job[w] # Idle
  BY DEF Idle

\* An edit of one record of a directory is a directory.
LEMMA EditTyped ==
  ASSUME NEW d \in Directory, NEW email \in Emails, NEW user \in User \cup {Absent}
  PROVE  [d EXCEPT ![email] = user] \in Directory
  BY DEF Directory

LEMMA StartTyped ==
  ASSUME TypeOK, NEW w \in Savers, NEW d \in Directory, NEW S \in SUBSET Emails,
         Start(w, d, S), forced' \in BOOLEAN
  PROVE  TypeOK'
  BY DEF TypeOK, Start, Job

LEMMA InitTyped == Init => TypeOK
  BY DEF Init, TypeOK, Content, Job

LEMMA HandleTyped ==
  ASSUME TypeOK, NEW w \in Handlers, Handle(w)
  PROVE  TypeOK'
<1> w \in Savers BY DEF Savers
<1> PICK email \in Emails :
      \/ UserDel(w, email)
      \/ UserAdmin(w, email)
      \/ \E neu \in Emails : UserEmail(w, email, neu)
      \/ \E list \in Lists : UserAuthz(w, email, list)
      \/ \E data \in Data :
           \/ UserTOTP(w, email, data)
           \/ UserPassword(w, email, data)
           \/ ProfileData(w, email, data)
           \/ FinalizeSetup(w, email, data)
      \/ \E data \in Data, list \in Lists : UserAdd(w, email, data, list)
    BY DEF Handle
<1>1. ASSUME NEW user \in User \cup {Absent}, ram # Down, Edit(w, email, user),
             forced' \in BOOLEAN
      PROVE  TypeOK'
  BY <1>1, EditTyped, StartTyped DEF Edit, TypeOK
<1>2. CASE UserDel(w, email)
  BY <1>1, <1>2 DEF UserDel
<1>3. CASE UserAdmin(w, email)
  <2>1. ram[email] \in User
    BY <1>3 DEF UserAdmin, Known, TypeOK, Directory
  <2>2. [ram[email] EXCEPT !.admin = ~ @] \in User
    BY <2>1 DEF User
  <2> QED BY <1>1, <1>3, <2>2 DEF UserAdmin, Known, TypeOK
<1>4. ASSUME NEW neu \in Emails, UserEmail(w, email, neu) PROVE TypeOK'
  <2>1. ram \in Directory /\ ram[email] \in User
    BY <1>4 DEF UserEmail, Known, TypeOK, Directory
  <2>2. [[ram EXCEPT ![email] = Absent] EXCEPT ![neu] = ram[email]] \in Directory
    BY <2>1 DEF Directory
  <2> QED BY <1>4, <2>2, StartTyped DEF UserEmail, TypeOK
<1>5. ASSUME NEW data \in Data, NEW list \in Lists, UserAdd(w, email, data, list)
      PROVE  TypeOK'
  BY <1>1, <1>5 DEF UserAdd, User, TypeOK
<1>6. ASSUME NEW data \in Data, SetData(w, email, data) PROVE TypeOK'
  <2>1. ram[email] \in User
    BY <1>6 DEF SetData, Known, TypeOK, Directory
  <2>2. [ram[email] EXCEPT !.data = data] \in User
    BY <2>1 DEF User
  <2> QED BY <1>1, <1>6, <2>2 DEF SetData, Known, TypeOK
<1>7. ASSUME NEW data \in Data, FinalizeSetup(w, email, data) PROVE TypeOK'
  BY <1>1, <1>7, UserStoreAssumption DEF FinalizeSetup, User, TypeOK
<1>8. ASSUME NEW list \in Lists, UserAuthz(w, email, list) PROVE TypeOK'
  <2>1. ram[email] \in User
    BY <1>8 DEF UserAuthz, Known, TypeOK, Directory
  <2>2. [ram[email] EXCEPT !.grants = list] \in User
    BY <2>1 DEF User
  <2> QED BY <1>1, <1>8, <2>2 DEF UserAuthz, Known, TypeOK
<1> QED BY <1>2, <1>3, <1>4, <1>5, <1>6, <1>7, <1>8 DEF UserTOTP, UserPassword, ProfileData

\* Other lists of grants leave a directory with the same users and the same
\* administrators.
LEMMA RelistTyped ==
  ASSUME NEW d \in Directory, NEW lists, \A email \in DOMAIN lists : lists[email] \in Lists
  PROVE  /\ Relist(d, lists) \in Directory
         /\ Admins(Relist(d, lists)) = Admins(d)
<1>1. ASSUME NEW email \in Emails
      PROVE  /\ Relist(d, lists)[email] \in User \cup {Absent}
             /\ Relist(d, lists)[email] # Absent <=> d[email] # Absent
             /\ d[email] # Absent => Relist(d, lists)[email].admin = d[email].admin
  <2>1. CASE d[email] = Absent
    BY <2>1 DEF Relist
  <2>2. CASE d[email] # Absent /\ email \notin DOMAIN lists
    BY <2>2 DEF Relist, Directory
  <2>3. CASE d[email] # Absent /\ email \in DOMAIN lists
    <3>1. d[email] \in User
      BY <2>3 DEF Directory
    <3>2. /\ [d[email] EXCEPT !.grants = lists[email]] \in User
          /\ [d[email] EXCEPT !.grants = lists[email]].admin = d[email].admin
      BY <2>3, <3>1 DEF User
    <3>3. Relist(d, lists)[email] = [d[email] EXCEPT !.grants = lists[email]]
      BY <2>3 DEF Relist
    <3> QED BY <2>3, <3>2, <3>3, UserStoreAssumption
  <2> QED BY <2>1, <2>2, <2>3
<1>2. Relist(d, lists) \in Directory
  BY <1>1 DEF Relist, Directory
<1>3. Admins(Relist(d, lists)) = Admins(d)
  BY <1>1 DEF Admins
<1> QED BY <1>2, <1>3

\* What an editor of grants does to the directory in RAM and to every saver: it is
\* about to save d, which differs from RAM, as RAM does from what it was, in S only.
Regranted(w, d, left, S) ==
  /\ ram \in Directory
  /\ job[w] = Idle
  /\ ram' = Relist(ram, left) /\ ram' \in Directory /\ Admins(ram') = Admins(ram)
  /\ job' \in [Savers -> Job]
  /\ job'[w] = [pc |-> "open", dir |-> d, asked |-> S, fd |-> "none"]
  /\ \A email \in Emails \ S : d[email] = ram[email] /\ ram'[email] = ram[email]
  /\ Admins(d) = Admins(ram)
  /\ \A v \in Savers \ {w} :
       \/ job'[v] = job[v]
       \/ /\ job[v] # Idle /\ job'[v] # Idle
          /\ Admins(job'[v].dir) = Admins(job[v].dir)
  /\ overlap' = (overlap \/ \E v \in Savers : job[v] # Idle)
  /\ UNCHANGED <<users, tmp, forced>>

LEMMA GrantSteps ==
  ASSUME TypeOK, NEW w \in Handlers, Grant(w)
  PROVE  \E d \in Directory, left \in [Emails -> Lists], S \in SUBSET Emails :
           Regranted(w, d, left, S)
<1> w \in Savers BY DEF Savers
<1>1. PICK S \in SUBSET Emails : \E f \in [S -> Lists], g \in [S -> Lists],
        views \in [Handlers \ {w} -> [Emails -> Lists]] : EditGrants(w, f, g, views)
  BY DEF Grant
<1>2. PICK f \in [S -> Lists], g \in [S -> Lists],
        views \in [Handlers \ {w} -> [Emails -> Lists]] : EditGrants(w, f, g, views)
  BY <1>1
<1>3. ram \in Directory
  BY <1>2 DEF EditGrants, TypeOK
\* The same change as lists for all emails.
<1> DEFINE All(h) == [email \in Emails |-> IF email \in S THEN h[email]
                                           ELSE IF ram[email] # Absent THEN ram[email].grants
                                           ELSE NoGrants]
<1>4. ASSUME NEW h \in [S -> Lists]
      PROVE  /\ All(h) \in [Emails -> Lists]
             /\ Relist(ram, h) = Relist(ram, All(h))
             /\ \A email \in Emails \ S : Relist(ram, h)[email] = ram[email]
  <2>1. \A email \in Emails : ram[email] # Absent =>
          ram[email] \in User /\ ram[email].grants \in Lists
    BY <1>3 DEF Directory, User
  <2>2. All(h) \in [Emails -> Lists]
    BY <2>1, UserStoreAssumption
  <2>3. ASSUME NEW email \in Emails, email \notin S, ram[email] # Absent
        PROVE  [ram[email] EXCEPT !.grants = All(h)[email]] = ram[email]
    BY <2>1, <2>3 DEF User
  <2>4. DOMAIN h = S /\ DOMAIN All(h) = Emails
    OBVIOUS
  <2>5. ASSUME NEW email \in Emails PROVE Relist(ram, h)[email] = Relist(ram, All(h))[email]
    BY <2>3, <2>4 DEF Relist
  <2>6. Relist(ram, h) = Relist(ram, All(h))
    BY <2>5 DEF Relist
  <2>7. \A email \in Emails \ S : Relist(ram, h)[email] = ram[email]
    BY <2>4 DEF Relist
  <2> QED BY <2>2, <2>6, <2>7
<1>5. /\ ram' = Relist(ram, g) /\ ram' = Relist(ram, All(g))
      /\ job[w] = Idle
      /\ overlap' = (overlap \/ \E v \in Savers : job[v] # Idle)
      /\ UNCHANGED <<users, tmp, forced>>
  BY <1>2, <1>4 DEF EditGrants
<1>6. job'[w] = [pc |-> "open", dir |-> Relist(ram, All(f)), asked |-> S, fd |-> "none"]
  BY <1>2, <1>4 DEF EditGrants
<1>7. /\ Relist(ram, All(f)) \in Directory /\ Admins(Relist(ram, All(f))) = Admins(ram)
      /\ Relist(ram, All(g)) \in Directory /\ Admins(Relist(ram, All(g))) = Admins(ram)
  BY <1>3, <1>4, RelistTyped
<1>8. ASSUME NEW v \in Savers, v # w
      PROVE  /\ job'[v] \in Job
             /\ \/ job'[v] = job[v]
                \/ /\ job[v] # Idle /\ job'[v] # Idle
                   /\ Admins(job'[v].dir) = Admins(job[v].dir)
  <2>1. CASE v \in Handlers /\ job[v] # Idle
    <3>1. job'[v] = [job[v] EXCEPT !.dir = Relist(job[v].dir, views[v])]
      BY <1>2, <1>8, <2>1 DEF EditGrants
    <3>2. /\ Relist(job[v].dir, views[v]) \in Directory
          /\ Admins(Relist(job[v].dir, views[v])) = Admins(job[v].dir)
      BY <1>8, <2>1, BusyJob, RelistTyped
    <3> QED BY <2>1, <3>1, <3>2, BusyJob DEF Job, Idle
  <2>2. CASE ~ (v \in Handlers /\ job[v] # Idle)
    <3>1. job'[v] = job[v]
      BY <1>2, <1>8, <2>2 DEF EditGrants
    <3> QED BY <3>1 DEF TypeOK
  <2> QED BY <2>1, <2>2
<1>9. job' \in [Savers -> Job]
  <2>1. job'[w] \in Job
    BY <1>6, <1>7 DEF Job
  <2>2. job' = [v \in Savers |-> job'[v]]
    BY <1>2 DEF EditGrants
  <2> QED BY <1>8, <2>1, <2>2
<1>10. \A email \in Emails \ S : /\ Relist(ram, All(f))[email] = ram[email]
                                  /\ ram'[email] = ram[email]
  BY <1>4, <1>5
<1>11. Relist(ram, All(f)) \in Directory /\ All(g) \in [Emails -> Lists]
  BY <1>4, <1>7
<1> HIDE DEF All
<1>12. Regranted(w, Relist(ram, All(f)), All(g), S)
  BY <1>3, <1>5, <1>6, <1>7, <1>8, <1>9, <1>10 DEF Regranted
<1> QED BY <1>11, <1>12

LEMMA GrantTyped ==
  ASSUME TypeOK, NEW w \in Handlers, Grant(w)
  PROVE  TypeOK'
  BY GrantSteps DEF Regranted, TypeOK

LEMMA SaveTyped ==
  ASSUME TypeOK, NEW w \in Savers, Save(w)
  PROVE  TypeOK'
<1>0. job[w] # Idle
  BY DEF Save, Open, Write, WriteFails, Put, Rename, SaveFails, Replace, Idle
<1>1. /\ job[w] \in [pc : {"open", "write", "rename", "replace"}, dir : Directory,
                     asked : SUBSET Emails, fd : {"none", "tmp", "users", "gone"}]
      /\ job[w].dir \in Directory
  BY <1>0, BusyJob
<1>2. CASE Open(w)
  BY <1>1, <1>2 DEF Open, Step, TypeOK, Job, Content, history
<1>3. CASE Write(w)
  BY <1>1, <1>3 DEF Write, Put, Overlay, Step, TypeOK, Job, Content, history
<1>4. CASE WriteFails(w)
  BY <1>1, <1>4 DEF WriteFails, Put, Cut, Return, TypeOK, Job, Content, history
<1>5. CASE Rename(w)
  <2>1. ASSUME NEW v \in Savers PROVE job'[v] \in Job
    <3>1. CASE v = w
      BY <1>1, <1>5, <3>1 DEF Rename, Job
    <3>2. CASE v # w /\ job[v] = Idle
      BY <1>5, <3>2 DEF Rename, Job
    <3>3. CASE v # w /\ job[v] # Idle
      BY <1>5, <3>3, BusyJob DEF Rename, Job, Follow
    <3> QED BY <3>1, <3>2, <3>3
  <2>2. job' \in [Savers -> Job]
    BY <1>5, <2>1 DEF Rename
  <2> QED BY <1>5, <2>2 DEF Rename, TypeOK, history
<1>6. CASE SaveFails(w)
  BY <1>1, <1>6 DEF SaveFails, Return, TypeOK, Job, history
<1>7. CASE Replace(w)
  BY <1>1, <1>7 DEF Replace, Return, TypeOK, Job, history
<1> QED BY <1>2, <1>3, <1>4, <1>5, <1>6, <1>7 DEF Save

\* The record a command writes: other flag and data, the grants of the file.
LEMMA CommandUser ==
  ASSUME users \in Directory, NEW email \in Emails, NEW admin \in BOOLEAN, NEW data \in Data
  PROVE  [admin |-> admin, data |-> data,
          grants |-> IF users[email] = Absent THEN NoGrants ELSE users[email].grants] \in User
  BY UserStoreAssumption DEF Directory, User

LEMMA TypeStep == TypeOK /\ [Next]_vars => TypeOK'
<1> SUFFICES ASSUME TypeOK, [Next]_vars PROVE TypeOK'
  OBVIOUS
<1>1. ASSUME NEW w \in Handlers, Handle(w) PROVE TypeOK'
  BY <1>1, HandleTyped
<1>7. ASSUME NEW w \in Handlers, Grant(w) PROVE TypeOK'
  BY <1>7, GrantTyped
<1>2. ASSUME NEW w \in Commands, Command(w) PROVE TypeOK'
  <2> w \in Savers BY DEF Savers
  <2>1. CASE Kill(w)
    BY <2>1 DEF Kill, Return, TypeOK, Job, history
  <2>2. ASSUME NEW email \in Emails, NEW admin \in BOOLEAN, NEW data \in Data,
               RunUser(w, email, admin, data)
        PROVE  TypeOK'
    BY <2>2, CommandUser, EditTyped, StartTyped DEF RunUser, TypeOK
  <2> QED BY <1>2, <2>1, <2>2 DEF Command
<1>3. ASSUME NEW w \in Savers, Save(w) PROVE TypeOK'
  BY <1>3, SaveTyped
<1>4. CASE Crash
  BY <1>4 DEF Crash, TypeOK, Job, history
<1>5. CASE Boot
  BY <1>5 DEF Boot, TypeOK, history
<1>6. CASE UNCHANGED vars
  BY <1>6 DEF TypeOK, vars
<1> QED BY <1>1, <1>2, <1>3, <1>4, <1>5, <1>6, <1>7 DEF Next

\* The directory, the files and the savers are always what TypeOK says.
THEOREM TypeCorrect == Spec => []TypeOK
  BY InitTyped, TypeStep, PTL DEF Spec

-----------------------------------------------------------------------------
(* Savers that work one at a time.                                         *)

\* The first step of a saver: from now on it is the only one, or overlap is set.
LEMMA StartSerial ==
  ASSUME TypeOK, SerialInv, NEW w \in Savers, NEW d, NEW S, Start(w, d, S)
  PROVE  SerialInv'
<1> SUFFICES ASSUME ~ overlap' PROVE SerialInv'
  BY DEF SerialInv
<1>1. ~ overlap /\ \A v \in Savers : job[v] = Idle
  BY DEF Start
<1>2. \A v \in Savers : v # w => job'[v] = Idle
  BY <1>1 DEF Start, TypeOK
<1>3. job'[w].pc = "open"
  BY DEF Start, TypeOK
<1> QED BY <1>1, <1>2, <1>3 DEF SerialInv, Alone, Start

LEMMA SaveSerial ==
  ASSUME TypeOK, TypeOK', SerialInv, NEW w \in Savers, Save(w)
  PROVE  SerialInv'
<1> SUFFICES ASSUME ~ overlap' PROVE SerialInv'
  BY DEF SerialInv
<1>0. ~ overlap
  BY DEF Save, Open, Write, WriteFails, Put, Rename, SaveFails, Replace, history
<1>1. job[w] # Idle
  BY DEF Save, Open, Write, WriteFails, Put, Rename, SaveFails, Replace, Idle
<1>2. /\ job[w] \in [pc : {"open", "write", "rename", "replace"}, dir : Directory,
                     asked : SUBSET Emails, fd : {"none", "tmp", "users", "gone"}]
      /\ job[w].dir \in Directory
  BY <1>1, BusyJob
<1>3. users \in Directory /\ Alone(w) /\ \A v \in Savers : v # w => job[v] = Idle
  BY <1>0, <1>1 DEF SerialInv
<1>4. \A v \in Savers : v # w => job'[v] = Idle
  <2>1. CASE Rename(w)
    BY <1>3, <2>1 DEF Rename
  <2>2. CASE ~ Rename(w)
    BY <1>3, <2>2 DEF Save, Open, Write, WriteFails, SaveFails, Replace, Step, Return,
                      TypeOK
  <2> QED BY <2>1, <2>2
<1>5. users' \in Directory /\ (job'[w] # Idle => Alone(w)')
  <2>1. CASE Open(w)
    BY <1>2, <1>3, <2>1 DEF Open, Step, Alone, TypeOK
  <2>2. CASE Write(w)
    BY <1>2, <1>3, <2>2 DEF Write, Put, Overlay, Step, Alone, TypeOK
  <2>3. CASE WriteFails(w)
    BY <1>2, <1>3, <2>3 DEF WriteFails, Put, Cut, Return, Alone, TypeOK
  <2>4. CASE Rename(w)
    <3>1. tmp = job[w].dir /\ users' = job[w].dir
      BY <1>3, <2>4 DEF Rename, Alone
    <3>2. job'[w] # Idle => job'[w] = [job[w] EXCEPT !.pc = "replace"]
      BY <2>4 DEF Rename
    <3>3. job'[w] # Idle => job'[w].dir = job[w].dir /\ job'[w].pc = "replace"
      BY <1>2, <3>2
    <3> QED BY <1>2, <3>1, <3>3 DEF Alone
  <2>5. CASE SaveFails(w)
    BY <1>3, <2>5 DEF SaveFails, Return, TypeOK
  <2>6. CASE Replace(w)
    BY <1>3, <2>6 DEF Replace, Return, TypeOK
  <2> QED BY <2>1, <2>2, <2>3, <2>4, <2>5, <2>6 DEF Save
<1> QED BY <1>4, <1>5 DEF SerialInv

LEMMA SerialStep == TypeOK /\ TypeOK' /\ SerialInv /\ [Next]_vars => SerialInv'
<1> SUFFICES ASSUME TypeOK, TypeOK', SerialInv, [Next]_vars PROVE SerialInv'
  OBVIOUS
<1>1. ASSUME NEW w \in Handlers, Handle(w) PROVE SerialInv'
  <2> w \in Savers BY DEF Savers
  <2>1. \E d, S : Start(w, d, S)
    BY <1>1 DEF Handle, UserDel, UserAdmin, UserEmail, UserAdd, UserAuthz, UserTOTP, UserPassword,
                ProfileData, FinalizeSetup, SetData, Edit
  <2> QED BY <2>1, StartSerial
<1>7. ASSUME NEW w \in Handlers, Grant(w) PROVE SerialInv'
  <2> SUFFICES ASSUME ~ overlap' PROVE SerialInv'
    BY DEF SerialInv
  <2>0. PICK d \in Directory, left \in [Emails -> Lists], S \in SUBSET Emails :
          Regranted(w, d, left, S)
    BY <1>7, GrantSteps
  <2>1. ~ overlap /\ \A v \in Savers : job[v] = Idle
    BY <2>0 DEF Regranted
  <2>2. \A v \in Savers \ {w} : job'[v] = Idle
    BY <2>0, <2>1 DEF Regranted
  <2>3. job'[w].pc = "open" /\ UNCHANGED users
    BY <2>0 DEF Regranted
  <2> QED BY <2>1, <2>2, <2>3 DEF SerialInv, Alone
<1>2. ASSUME NEW w \in Commands, Command(w) PROVE SerialInv'
  <2> w \in Savers BY DEF Savers
  <2>1. CASE Kill(w)
    BY <2>1 DEF Kill, Return, SerialInv, Alone, TypeOK, history
  <2>2. CASE \E d, S : Start(w, d, S)
    BY <2>2, StartSerial
  <2> QED BY <1>2, <2>1, <2>2 DEF Command, RunUser
<1>3. ASSUME NEW w \in Savers, Save(w) PROVE SerialInv'
  BY <1>3, SaveSerial
<1>4. CASE Crash
  BY <1>4 DEF Crash, SerialInv, Alone, TypeOK, history
<1>5. CASE Boot
  BY <1>5 DEF Boot, SerialInv, Alone, history
<1>6. CASE UNCHANGED vars
  BY <1>6 DEF SerialInv, Alone, vars
<1> QED BY <1>1, <1>2, <1>3, <1>4, <1>5, <1>6, <1>7 DEF Next

LEMMA InitSerial == Init => SerialInv
  BY DEF Init, SerialInv, Idle

\* As long as savers have worked one at a time, users.json is complete at every
\* moment: no failed save, kill or crash can leave it unreadable.
THEOREM WholeCorrect == Spec => []WholeUnlessOverlap
<1>1. SerialInv => WholeUnlessOverlap
  BY DEF SerialInv, WholeUnlessOverlap
<1> QED BY <1>1, InitTyped, TypeStep, InitSerial, SerialStep, PTL DEF Spec

\* Lists of grants aside, a change appears in RAM only when users.json holds that
\* very directory; a list changes before only as an editor of grants sets out.
THEOREM SeenCorrect == Spec => SeenIsSaved
<1>1. TypeOK /\ SerialInv /\ [Next]_vars
        => [ram' \in Directory /\ ram' # ram =>
              overlap \/ ram' = users' \/ \E w \in Handlers : Regrants(w)]_vars
  <2> SUFFICES ASSUME TypeOK, SerialInv, Next, ram' \in Directory, ram' # ram, ~ overlap
               PROVE  ram' = users' \/ \E w \in Handlers : Regrants(w)
    OBVIOUS
  <2>1. CASE Boot
    BY <2>1 DEF Boot
  <2>2. ASSUME NEW w \in Savers, Replace(w) PROVE ram' = users'
    BY <2>2 DEF Replace, SerialInv, Alone, Idle
  <2>3. ASSUME NEW w \in Savers, Save(w), ~ Replace(w) PROVE ram' = ram
    BY <2>3 DEF Save, Open, Write, WriteFails, Put, Rename, SaveFails
  <2>4. ASSUME NEW w, Handle(w) \/ Command(w) PROVE ram' = ram
    BY <2>4 DEF Handle, Command, Kill, RunUser, UserDel, UserAdmin, UserEmail, UserAdd,
                UserAuthz, UserTOTP, UserPassword, ProfileData, FinalizeSetup, SetData, Edit,
                Start
  <2>5. CASE Crash
    BY <2>5, UserStoreAssumption DEF Crash
  <2>6. ASSUME NEW w \in Handlers, Grant(w) PROVE Regrants(w)
    <3>0. PICK d \in Directory, left \in [Emails -> Lists], S \in SUBSET Emails :
            Regranted(w, d, left, S)
      BY <2>6, GrantSteps
    <3>1. job[w] = Idle /\ job'[w].pc = "open"
      BY <3>0 DEF Regranted
    <3>2. ram' = Relist(ram, left)
      BY <3>0 DEF Regranted
    <3> QED BY <3>1, <3>2 DEF Regrants, Idle
  <2> QED BY <2>1, <2>2, <2>3, <2>4, <2>5, <2>6 DEF Next
<1> QED BY <1>1, InitTyped, TypeStep, InitSerial, SerialStep, PTL DEF Spec, SeenIsSaved

-----------------------------------------------------------------------------
(* The last administrator.                                                 *)

\* An edit that keeps somebody else's flag, or gives this user one, leaves an
\* administrator.
LEMMA EditKeepsAdmin ==
  ASSUME NEW d \in Directory, Admins(d) # {}, NEW email \in Emails,
         NEW user \in User \cup {Absent},
         \/ email \notin Admins(d)
         \/ Admins(d) # {email}
         \/ user \in User /\ user.admin
  PROVE  Admins([d EXCEPT ![email] = user]) # {}
<1> DEFINE e == [d EXCEPT ![email] = user]
<1>1. CASE user \in User /\ user.admin
  <2>1. e[email] = user /\ user # Absent
    BY <1>1, UserStoreAssumption DEF Directory
  <2> QED BY <1>1, <2>1 DEF Admins
<1>2. CASE email \notin Admins(d) \/ Admins(d) # {email}
  <2>1. PICK a \in Admins(d) : a # email
    BY <1>2
  <2>2. a \in Emails /\ e[a] = d[a]
    BY <2>1 DEF Admins, Directory
  <2> QED BY <2>1, <2>2 DEF Admins
<1> QED BY <1>1, <1>2

LEMMA StartAdmin ==
  ASSUME TypeOK, AdminInv, NEW w \in Savers, NEW d, NEW S, Start(w, d, S),
         forced => forced', ~ forced' => Admins(d) # {}
  PROVE  AdminInv'
<1> SUFFICES ASSUME ~ forced' PROVE AdminInv'
  BY DEF AdminInv
<1>1. \A v \in Savers : job'[v] # Idle => Admins(job'[v].dir) # {}
  BY DEF Start, AdminInv, TypeOK
<1>2. UNCHANGED <<ram, users, tmp>>
  BY DEF Start
<1> QED BY <1>1, <1>2 DEF AdminInv, HasAdmin

\* What a handler starts to save has an administrator if the RAM has one.
LEMMA HandleAdmin ==
  ASSUME TypeOK, AdminInv, NEW w \in Handlers, Handle(w)
  PROVE  AdminInv'
<1> w \in Savers BY DEF Savers
<1> PICK email \in Emails :
      \/ UserDel(w, email)
      \/ UserAdmin(w, email)
      \/ \E neu \in Emails : UserEmail(w, email, neu)
      \/ \E list \in Lists : UserAuthz(w, email, list)
      \/ \E data \in Data :
           \/ UserTOTP(w, email, data)
           \/ UserPassword(w, email, data)
           \/ ProfileData(w, email, data)
           \/ FinalizeSetup(w, email, data)
      \/ \E data \in Data, list \in Lists : UserAdd(w, email, data, list)
    BY DEF Handle
<1>0. ram \in Directory /\ (~ forced => Admins(ram) # {})
  BY DEF UserDel, UserAdmin, UserEmail, UserAdd, UserAuthz, UserTOTP, UserPassword, ProfileData,
         SetData, FinalizeSetup, Known, TypeOK, AdminInv, HasAdmin
<1>1. ASSUME NEW user \in User \cup {Absent}, Edit(w, email, user), forced => forced',
             ~ forced' => \/ email \notin Admins(ram)
                          \/ Admins(ram) # {email}
                          \/ user \in User /\ user.admin
      PROVE  AdminInv'
  <2>1. ~ forced' => Admins([ram EXCEPT ![email] = user]) # {}
    BY <1>0, <1>1, EditKeepsAdmin
  <2> QED BY <1>1, <2>1, StartAdmin DEF Edit
<1>2. CASE UserDel(w, email)
  BY <1>1, <1>2 DEF UserDel
<1>3. CASE UserAdmin(w, email)
  <2>1. ram[email] \in User
    BY <1>0, <1>3 DEF UserAdmin, Known, Directory
  <2>2. [ram[email] EXCEPT !.admin = ~ @] \in User
    BY <2>1 DEF User
  <2> QED BY <1>1, <1>3, <2>2 DEF UserAdmin
<1>4. ASSUME NEW neu \in Emails, UserEmail(w, email, neu) PROVE AdminInv'
  <2> DEFINE d == [[ram EXCEPT ![email] = Absent] EXCEPT ![neu] = ram[email]]
  <2>1. ram[email] \in User /\ (neu # email => ram[neu] = Absent)
    BY <1>0, <1>4 DEF UserEmail, Known, Directory
  <2>2. d[neu] = ram[email] /\ \A a \in Emails : a # neu /\ a # email => d[a] = ram[a]
    BY <1>0 DEF Directory
  <2>3. ASSUME ~ forced PROVE Admins(d) # {}
    <3>1. PICK a \in Admins(ram) : TRUE
      BY <1>0, <2>3
    <3>2. CASE a = email
      BY <2>1, <2>2, <3>1, <3>2, UserStoreAssumption DEF Admins
    <3>3. CASE a # email
      BY <2>1, <2>2, <3>1, <3>3 DEF Admins
    <3> QED BY <3>2, <3>3
  <2> QED BY <1>4, <2>3, StartAdmin DEF UserEmail
<1>5. ASSUME NEW data \in Data, NEW list \in Lists, UserAdd(w, email, data, list)
      PROVE  AdminInv'
  BY <1>1, <1>5 DEF UserAdd, User, Admins
<1>6. ASSUME NEW data \in Data, SetData(w, email, data) PROVE AdminInv'
  <2>1. ram[email] \in User
    BY <1>0, <1>6 DEF SetData, Known, Directory
  <2>2. [ram[email] EXCEPT !.data = data] \in User
        /\ [ram[email] EXCEPT !.data = data].admin = ram[email].admin
    BY <2>1 DEF User
  <2> QED BY <1>1, <1>6, <2>2 DEF SetData, Admins
<1>7. ASSUME NEW data \in Data, FinalizeSetup(w, email, data) PROVE AdminInv'
  BY <1>1, <1>7, UserStoreAssumption DEF FinalizeSetup, User
<1>8. ASSUME NEW list \in Lists, UserAuthz(w, email, list) PROVE AdminInv'
  <2>1. ram[email] \in User
    BY <1>0, <1>8 DEF UserAuthz, Known, Directory
  <2>2. [ram[email] EXCEPT !.grants = list] \in User
        /\ [ram[email] EXCEPT !.grants = list].admin = ram[email].admin
    BY <2>1 DEF User
  <2> QED BY <1>1, <1>8, <2>2 DEF UserAuthz, Admins
<1> QED BY <1>2, <1>3, <1>4, <1>5, <1>6, <1>7, <1>8 DEF UserTOTP, UserPassword, ProfileData

LEMMA SaveAdmin ==
  ASSUME TypeOK, AdminInv, NEW w \in Savers, Save(w)
  PROVE  AdminInv'
<1> SUFFICES ASSUME ~ forced' PROVE AdminInv'
  BY DEF AdminInv
<1>0. ~ forced
  BY DEF Save, Open, Write, WriteFails, Put, Rename, SaveFails, Replace, history
<1>1. job[w] # Idle
  BY DEF Save, Open, Write, WriteFails, Put, Rename, SaveFails, Replace, Idle
<1>2. /\ job[w] \in [pc : {"open", "write", "rename", "replace"}, dir : Directory,
                     asked : SUBSET Emails, fd : {"none", "tmp", "users", "gone"}]
      /\ job[w].dir \in Directory
      /\ Admins(job[w].dir) # {}
  BY <1>0, <1>1, BusyJob DEF AdminInv
<1>3. HasAdmin(Empty) /\ HasAdmin(Torn) /\ HasAdmin(NoFile)
  BY UserStoreAssumption DEF HasAdmin, Content
<1>4. HasAdmin(ram) /\ HasAdmin(users) /\ HasAdmin(tmp) /\ HasAdmin(job[w].dir)
  BY <1>0, <1>2 DEF AdminInv, HasAdmin
<1>5. HasAdmin(ram') /\ HasAdmin(users') /\ HasAdmin(tmp')
  <2>1. CASE Open(w)
    BY <1>3, <1>4, <2>1 DEF Open
  <2>2. CASE Write(w)
    BY <1>3, <1>4, <2>2 DEF Write, Put, Overlay
  <2>3. CASE WriteFails(w)
    BY <1>3, <1>4, <2>3 DEF WriteFails, Put, Cut
  <2>4. CASE Rename(w)
    BY <1>3, <1>4, <2>4 DEF Rename
  <2>5. CASE SaveFails(w)
    BY <1>4, <2>5 DEF SaveFails
  <2>6. CASE Replace(w)
    BY <1>4, <2>6 DEF Replace
  <2> QED BY <2>1, <2>2, <2>3, <2>4, <2>5, <2>6 DEF Save
<1>6. ASSUME NEW v \in Savers, job'[v] # Idle
      PROVE  job[v] # Idle /\ job'[v].dir = job[v].dir
  <2>1. CASE Rename(w)
    <3>1. CASE v = w
      BY <1>1, <1>2, <1>6, <2>1, <3>1 DEF Rename
    <3>2. CASE v # w
      <4>1. job[v] # Idle
        BY <1>6, <2>1, <3>2 DEF Rename
      <4> QED BY <2>1, <3>2, <4>1, BusyJob DEF Rename
    <3> QED BY <3>1, <3>2
  <2>2. CASE ~ Rename(w)
    <3>1. CASE v = w
      BY <1>1, <1>2, <1>6, <2>2, <3>1
         DEF Save, Open, Write, WriteFails, SaveFails, Replace, Step, Return, TypeOK
    <3>2. CASE v # w
      BY <1>6, <2>2, <3>2
         DEF Save, Open, Write, WriteFails, SaveFails, Replace, Step, Return, TypeOK
    <3> QED BY <3>1, <3>2
  <2> QED BY <2>1, <2>2
<1>7. \A v \in Savers : job'[v] # Idle => Admins(job'[v].dir) # {}
  BY <1>0, <1>6 DEF AdminInv
<1> QED BY <1>5, <1>7 DEF AdminInv, HasAdmin

LEMMA AdminStep == TypeOK /\ AdminInv /\ [Next]_vars => AdminInv'
<1> SUFFICES ASSUME TypeOK, AdminInv, [Next]_vars PROVE AdminInv'
  OBVIOUS
<1>1. ASSUME NEW w \in Handlers, Handle(w) PROVE AdminInv'
  BY <1>1, HandleAdmin
<1>7. ASSUME NEW w \in Handlers, Grant(w) PROVE AdminInv'
  <2> SUFFICES ASSUME ~ forced' PROVE AdminInv'
    BY DEF AdminInv
  <2>0. PICK d \in Directory, left \in [Emails -> Lists], S \in SUBSET Emails :
          Regranted(w, d, left, S)
    BY <1>7, GrantSteps
  <2>1. ~ forced /\ UNCHANGED <<users, tmp>>
    BY <2>0 DEF Regranted
  <2>2. HasAdmin(ram')
    BY <2>0, <2>1 DEF Regranted, AdminInv, HasAdmin
  <2>3. job'[w] # Idle => Admins(job'[w].dir) # {}
    BY <2>0, <2>1 DEF Regranted, AdminInv, HasAdmin
  <2>4. ASSUME NEW v \in Savers \ {w}, job'[v] # Idle PROVE Admins(job'[v].dir) # {}
    BY <2>0, <2>1, <2>4 DEF Regranted, AdminInv
  <2> QED BY <2>1, <2>2, <2>3, <2>4 DEF AdminInv, HasAdmin
<1>2. ASSUME NEW w \in Commands, Command(w) PROVE AdminInv'
  <2> w \in Savers BY DEF Savers
  <2>1. CASE Kill(w)
    BY <2>1 DEF Kill, Return, AdminInv, HasAdmin, TypeOK, history
  <2>2. ASSUME NEW email \in Emails, NEW admin \in BOOLEAN, NEW data \in Data,
               RunUser(w, email, admin, data)
        PROVE  AdminInv'
    <3> DEFINE user == [admin |-> admin, data |-> data,
          grants |-> IF users[email] = Absent THEN NoGrants ELSE users[email].grants]
    <3>1. users \in Directory /\ (~ forced => Admins(users) # {})
      BY <2>2 DEF RunUser, AdminInv, HasAdmin
    <3>2. forced => forced'
      BY <2>2 DEF RunUser
    <3>4. user \in User /\ user.admin = admin
      BY <3>1, CommandUser
    <3>5. ~ forced' => email \notin Admins(users) \/ admin
      BY <2>2 DEF RunUser
    <3>6. Start(w, [users EXCEPT ![email] = user], {email})
      BY <2>2 DEF RunUser
    <3> HIDE DEF user
    <3>3. ~ forced' => Admins([users EXCEPT ![email] = user]) # {}
      BY <3>1, <3>2, <3>4, <3>5, EditKeepsAdmin
    <3> QED BY <3>2, <3>3, <3>6, StartAdmin
  <2> QED BY <1>2, <2>1, <2>2 DEF Command
<1>3. ASSUME NEW w \in Savers, Save(w) PROVE AdminInv'
  BY <1>3, SaveAdmin
<1>4. CASE Crash
  BY <1>4, UserStoreAssumption DEF Crash, AdminInv, HasAdmin, history
<1>5. CASE Boot
  BY <1>5 DEF Boot, AdminInv, HasAdmin, history
<1>6. CASE UNCHANGED vars
  BY <1>6 DEF AdminInv, HasAdmin, vars
<1> QED BY <1>1, <1>2, <1>3, <1>4, <1>5, <1>6, <1>7 DEF Next

LEMMA InitAdmin == Init => AdminInv
  BY UserStoreAssumption DEF Init, AdminInv, HasAdmin, Content

\* Handlers and commands may overwrite each other in any order: only a deletion
\* or a demotion by command can leave the gate without an administrator.
THEOREM AdminCorrect == Spec => []AdminKept
<1>1. AdminInv => AdminKept
  BY DEF AdminInv, HasAdmin, AdminKept
<1> QED BY <1>1, InitTyped, TypeStep, InitAdmin, AdminStep, PTL DEF Spec

-----------------------------------------------------------------------------
(* What a save leaves alone.                                               *)

\* d is the directory in RAM but for the emails in S.
Copy(d, S) == ram \in Directory /\ \A email \in Emails \ S : d[email] = ram[email]

\* While savers work one at a time, what a handler is about to save is the
\* directory in RAM but for the records it was asked to change.
CopyInv ==
  ~ overlap => \A w \in Handlers :
    job[w] # Idle /\ job[w].pc # "replace" => Copy(job[w].dir, job[w].asked)

\* Every handler starts from the directory in RAM.
LEMMA HandleCopies ==
  ASSUME TypeOK, NEW w \in Handlers, Handle(w)
  PROVE  \E d, S : Start(w, d, S) /\ Copy(d, S)
<1>1. ASSUME ram \in Directory, NEW email \in Emails, NEW user, Edit(w, email, user)
      PROVE  \E d, S : Start(w, d, S) /\ Copy(d, S)
  <2>1. Copy([ram EXCEPT ![email] = user], {email})
    BY <1>1 DEF Copy, Directory
  <2> QED
    BY <1>1, <2>1 DEF Edit
<1>2. ASSUME NEW email \in Emails, NEW neu \in Emails, UserEmail(w, email, neu)
      PROVE  \E d, S : Start(w, d, S) /\ Copy(d, S)
  <2>1. ram \in Directory
    BY <1>2 DEF UserEmail, Known, TypeOK
  <2>2. Copy([[ram EXCEPT ![email] = Absent] EXCEPT ![neu] = ram[email]], {email, neu})
    BY <2>1 DEF Copy, Directory
  <2> QED
    BY <1>2, <2>2 DEF UserEmail
<1>3. ram # Down => ram \in Directory
  BY DEF TypeOK
<1> QED
  BY <1>1, <1>2, <1>3 DEF Handle, UserDel, UserAdmin, UserAdd, UserAuthz, UserTOTP, UserPassword,
                          ProfileData, FinalizeSetup, SetData, Known

\* Every step keeps it: a saver that starts beside another overlaps with it.
LEMMA CopyStep == TypeOK /\ SerialInv /\ CopyInv /\ [Next]_vars => CopyInv'
<1> SUFFICES ASSUME TypeOK, SerialInv, CopyInv, [Next]_vars, ~ overlap' PROVE CopyInv'
  BY DEF CopyInv
<1>1. ASSUME NEW w \in Handlers, Handle(w) PROVE CopyInv'
  <2>1. PICK d, S : Start(w, d, S) /\ Copy(d, S)
    BY <1>1, HandleCopies
  <2>2. \A v \in Savers \ {w} : job'[v] = Idle
    BY <2>1 DEF Start, TypeOK, Savers
  <2>3. job'[w] = [pc |-> "open", dir |-> d, asked |-> S, fd |-> "none"]
    BY <2>1 DEF Start, TypeOK, Savers
  <2>4. Copy(d, S)'
    BY <2>1 DEF Start, Copy
  <2> QED
    BY <2>2, <2>3, <2>4 DEF CopyInv, Copy, Savers
<1>7. ASSUME NEW w \in Handlers, Grant(w) PROVE CopyInv'
  <2>0. PICK d \in Directory, left \in [Emails -> Lists], S \in SUBSET Emails :
          Regranted(w, d, left, S)
    BY <1>7, GrantSteps
  <2>1. \A v \in Handlers \ {w} : job'[v] = Idle
    BY <2>0 DEF Regranted, Savers
  <2>2. Copy(job[w].dir, job[w].asked)'
    BY <2>0 DEF Regranted, Copy
  <2> QED
    BY <2>1, <2>2 DEF CopyInv
<1>2. ASSUME NEW w \in Commands, Command(w) PROVE CopyInv'
  <2>1. CASE Kill(w)
    BY <2>1, UserStoreAssumption DEF Kill, Return, CopyInv, Copy, TypeOK, history, Savers
  <2>2. ASSUME NEW d, NEW S, Start(w, d, S) PROVE CopyInv'
    <3>1. \A v \in Handlers : job'[v] = Idle
      BY <2>2, UserStoreAssumption DEF Start, TypeOK, Savers
    <3> QED
      BY <3>1 DEF CopyInv
  <2> QED
    BY <1>2, <2>1, <2>2 DEF Command, RunUser
<1>3. ASSUME NEW w \in Savers, Save(w) PROVE CopyInv'
  <2>1. ~ overlap /\ job[w] # Idle
    BY <1>3 DEF Save, Open, Write, WriteFails, Put, Rename, SaveFails, Replace, history, Idle
  <2>2. \A v \in Savers \ {w} : job[v] = Idle
    BY <2>1 DEF SerialInv
  <2>3. CASE Rename(w)
    <3>1. \A v \in Savers : job'[v] = Idle \/ (v = w /\ job'[v] = [job[w] EXCEPT !.pc = "replace"])
      BY <2>2, <2>3 DEF Rename
    <3>2. [job[w] EXCEPT !.pc = "replace"].pc = "replace"
      BY <2>1, BusyJob
    <3> QED
      BY <3>1, <3>2 DEF CopyInv, Savers
  <2>4. CASE WriteFails(w) \/ SaveFails(w) \/ Replace(w)
    <3>1. \A v \in Savers : job'[v] = Idle
      BY <2>2, <2>4 DEF WriteFails, SaveFails, Replace, Return, TypeOK
    <3> QED
      BY <3>1 DEF CopyInv, Savers
  <2>5. CASE Open(w) \/ Write(w)
    <3>1. \A v \in Savers \ {w} : job'[v] = Idle
      BY <2>2, <2>5 DEF Open, Write, Step, TypeOK
    <3>2. job[w].pc # "replace" /\ UNCHANGED ram
      BY <2>5 DEF Open, Write, Put
    <3>3. job'[w].dir = job[w].dir /\ job'[w].asked = job[w].asked
      BY <2>1, <2>5, BusyJob DEF Open, Write, Step, TypeOK
    <3> QED
      BY <2>1, <3>1, <3>2, <3>3 DEF CopyInv, Copy, Savers
  <2> QED
    BY <1>3, <2>3, <2>4, <2>5 DEF Save
<1>4. CASE Crash
  BY <1>4 DEF Crash, CopyInv, Savers
<1>5. CASE Boot
  BY <1>5, UserStoreAssumption DEF Boot, CopyInv, Copy, history
<1>6. CASE UNCHANGED vars
  BY <1>6 DEF CopyInv, Copy, vars
<1> QED
  BY <1>1, <1>2, <1>3, <1>4, <1>5, <1>6, <1>7 DEF Next

\* A handler that has the store to itself, and finds users.json as the server
\* knows it, changes there only what it was asked to (handlers/admin.go:1343-1353).
THEOREM OthersCorrect == Spec => SaveKeepsOthers
<1>1. Init => CopyInv
  BY DEF Init, CopyInv, Savers
<1>2. TypeOK /\ SerialInv /\ CopyInv /\ [Next]_vars
        => [\A w \in Handlers :
              ~ overlap /\ ram = users /\ job[w] # Idle /\ job'[w] # Idle /\ users' # users =>
                \A email \in Emails \ job[w].asked : users'[email] = users[email]]_vars
  <2> SUFFICES ASSUME TypeOK, SerialInv, CopyInv, Next, NEW w \in Handlers, ~ overlap,
                      ram = users, job[w] # Idle, users' # users
               PROVE  \A email \in Emails \ job[w].asked : users'[email] = users[email]
    OBVIOUS
  <2>1. w \in Savers
    BY DEF Savers
  <2>2. ASSUME NEW v, Handle(v) \/ Grant(v) \/ Command(v) PROVE users' = users
    BY <2>2 DEF Handle, Grant, EditGrants, Command, Kill, RunUser, UserDel, UserAdmin,
                UserEmail, UserAdd, UserAuthz, UserTOTP, UserPassword, ProfileData,
                FinalizeSetup, SetData, Edit, Start
  <2>3. PICK v \in Savers : Save(v)
    BY <2>2 DEF Next, Crash, Boot
  <2>4. job[v] # Idle /\ v = w
    BY <2>1, <2>3 DEF Save, Open, Write, WriteFails, Put, Rename, SaveFails, Replace, Idle,
                      SerialInv
  <2>5. Alone(w)
    BY <2>1 DEF SerialInv
  <2>6. Rename(w)
    BY <2>3, <2>4, <2>5 DEF Save, Open, Write, WriteFails, Put, SaveFails, Replace, Alone
  <2>7. users' = job[w].dir /\ job[w].pc = "rename"
    BY <2>5, <2>6 DEF Rename, Alone
  <2>8. Copy(job[w].dir, job[w].asked)
    BY <2>7 DEF CopyInv
  <2> QED
    BY <2>7, <2>8 DEF Copy
<1> QED
  BY <1>1, <1>2, InitTyped, TypeStep, InitSerial, SerialStep, CopyStep, PTL
  DEF Spec, SaveKeepsOthers
=============================================================================
