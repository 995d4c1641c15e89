--------------------------- MODULE AccountsProofs ---------------------------
(***************************************************************************)
(* Proofs about Accounts, for any persons, projects, passkeys, sessions,   *)
(* ceremonies, invitations and requests.                                   *)
(***************************************************************************)
EXTENDS Accounts, TLAPS

LEMMA InitTypeOK == Init => TypeOK
  BY KnownAssumption, GrantedAssumption, Zenon, SMT
  DEF Init, TypeOK, KeyRow

LEMMA TypeStep == TypeOK /\ [Next]_vars => TypeOK'
<1> SUFFICES ASSUME TypeOK, [Next]_vars PROVE TypeOK'
  OBVIOUS
<1> USE DEF TypeOK, Goes, Rest, Idle, At, people, doors
<1>1. CASE UNCHANGED vars
  BY <1>1 DEF vars
<1>2. ASSUME NEW p \in Person, NEW x \in Project, NEW r \in Role, RoleTx(p, x, r)
      PROVE  role' \in [Person -> [Project -> Role]] /\ UNCHANGED <<account, doors, spent>>
  BY <1>2 DEF RoleTx, SetRole
<1>3. ASSUME NEW p \in Person, NEW x \in Project, NEW r \in Role, GrantByCommand(p, x, r)
      PROVE  TypeOK'
  BY <1>2, <1>3 DEF GrantByCommand
<1>4. ASSUME NEW i \in Invite, InviteExpires(i)
      PROVE  TypeOK'
  BY <1>4 DEF InviteExpires, Usable, InviteRow
<1>5. ASSUME NEW c \in Ceremony, NEW row \in CeremonyRow, Begin(c, row)
      PROVE  TypeOK'
  BY <1>5 DEF Begin
<1>6. ASSUME NEW c \in Ceremony, SigninBegin(c)
      PROVE  TypeOK'
  BY <1>5, <1>6 DEF SigninBegin, CeremonyRow
<1>7. ASSUME NEW c \in Ceremony, NEW s \in Cookie, AddBegin(c, s)
      PROVE  TypeOK'
  BY <1>5, <1>7 DEF AddBegin, CeremonyRow, SignedIn
<1>8. ASSUME NEW c \in Ceremony, NEW i \in Invite, RegisterBegin(c, i)
      PROVE  TypeOK'
  BY <1>5, <1>8 DEF RegisterBegin, CeremonyRow, Usable, InviteRow
<1>9. ASSUME NEW c \in Ceremony, CeremonyExpires(c)
       PROVE  TypeOK'
  BY <1>9 DEF CeremonyExpires
<1>10. ASSUME NEW s \in Cookie, SessionEnds(s)
       PROVE  TypeOK'
  BY <1>10 DEF SessionEnds
<1>11. ASSUME NEW h \in Hand, NEW s \in Cookie, NEW p \in Person, NEW x \in Project,
              NEW r \in Role, RoleByPage(h, s, p, x, r)
       PROVE  TypeOK'
  BY <1>11 DEF RoleByPage, Job
<1>12. ASSUME NEW h \in Hand, RoleWrite(h)
       PROVE  TypeOK'
  <2>1. job[h] \in [at : {"role"}, to : Person, project : Project, role : Role]
    BY <1>12 DEF RoleWrite, Job
  <2>2. QED
    BY <1>2, <1>12, <2>1 DEF RoleWrite
<1>13. ASSUME NEW h \in Hand, NEW s \in Cookie, NEW p \in Person, NEW undo \in BOOLEAN,
              DisableByPage(h, s, p, undo)
       PROVE  TypeOK'
  BY <1>13 DEF DisableByPage, Job
<1>14. ASSUME NEW h \in Hand, DisableWrite(h)
       PROVE  TypeOK'
  BY <1>14 DEF DisableWrite, SessionsEnded
<1>15. ASSUME NEW h \in Hand, NEW p \in Person, NEW x \in Project, NEW r \in Role \ {"none"},
              InviteByCommand(h, p, x, r)
       PROVE  TypeOK'
  BY <1>15 DEF InviteByCommand, Job
<1>16. ASSUME NEW h \in Hand, NEW i \in Invite, InviteWrite(h, i)
       PROVE  TypeOK'
  <2>1. job[h] \in [at : {"invite"}, to : Person, project : Project, role : Role \ {"none"}]
    BY <1>16 DEF InviteWrite, Job
  <2>2. QED
    BY <1>16, <2>1 DEF InviteWrite, InviteRow
<1>17. ASSUME NEW h \in Hand, NEW c \in Ceremony, NEW k \in Key, SigninFinish(h, c, k)
       PROVE  TypeOK'
  BY <1>17 DEF SigninFinish, Take, KeyRow, Job
<1>18. ASSUME NEW h \in Hand, NEW c \in Ceremony, NEW s \in Cookie, AddFinish(h, c, s)
       PROVE  TypeOK'
  <2>1. session[s] \in Person
    BY <1>18 DEF AddFinish, SignedIn
  <2>2. CASE BegunFor(ceremony[c], session[s])
    <3>1. ceremony[c].handle = session[s]
      BY <2>2 DEF BegunFor
    <3>2. job' = [job EXCEPT ![h] = [at |-> "key", who |-> session[s],
                                     begun |-> session[s], signs |-> FALSE]]
      BY <1>18, <2>2, <3>1 DEF AddFinish
    <3>3. job' \in [Hand -> Job \cup {None}]
      BY <2>1, <3>2 DEF Job
    <3>4. QED
      BY <1>18, <3>3 DEF AddFinish, Take
  <2>3. CASE ~BegunFor(ceremony[c], session[s])
    BY <1>18, <2>3 DEF AddFinish, Take
  <2>4. QED
    BY <2>2, <2>3
<1>19. ASSUME NEW h \in Hand, NEW c \in Ceremony, RegisterFinish(h, c)
       PROVE  TypeOK'
  <2>1. ceremony[c] \in CeremonyRow
    BY <1>19 DEF RegisterFinish, Take
  <2>2. ceremony[c].purpose = "register" /\ ceremony[c].invite # None
          => ceremony[c].invite \in Invite /\ ceremony[c].handle \in Person
    BY <2>1 DEF CeremonyRow
  <2>3. QED
    BY <1>19, <2>2 DEF RegisterFinish, Take, Job
<1>20. ASSUME NEW h \in Hand, Redeem(h)
       PROVE  TypeOK'
  <2>1. job[h] \in [at : {"redeem"}, invite : Invite, begun : Person]
    BY <1>20 DEF Redeem, Job
  <2> DEFINE i == job[h].invite
  <2>2. i \in Invite /\ job[h].begun \in Person
    BY <2>1
  <2>3. invite[i] \in InviteRow
    BY <1>20, <2>2 DEF Redeem, Unspent
  <2>4. invite[i].to \in Person /\ invite[i].project \in Project /\ invite[i].role \in Role
    BY <2>3 DEF InviteRow
  <2>5. invite' = [invite EXCEPT ![i].used = TRUE]
    BY <1>20 DEF Redeem
  <2>6. invite' \in [Invite -> InviteRow \cup {None}]
    BY <2>2, <2>3, <2>5 DEF InviteRow
  <2>10. account' \in [Person -> {"unknown", "enabled", "disabled"}]
    BY <1>20, <2>4 DEF Redeem
  <2>11. role' \in [Person -> [Project -> Role]]
    BY <1>20, <2>4 DEF Redeem
  <2>7. spent' \in [Invite -> Nat]
    BY <1>20, <2>2 DEF Redeem
  <2>8. job' \in [Hand -> Job \cup {None}]
    BY <1>20, <2>2, <2>4 DEF Redeem, Job
  <2>9. QED
    BY <1>20, <2>6, <2>7, <2>8, <2>10, <2>11 DEF Redeem
<1>21. ASSUME NEW h \in Hand, NEW k \in Key, AddCredential(h, k)
       PROVE  TypeOK'
  <2>1. job[h] \in [at : {"key"}, who : Person, begun : Person, signs : BOOLEAN]
    BY <1>21 DEF AddCredential, Job
  <2>2. key' \in [Key -> KeyRow \cup {None}]
    BY <1>21, <2>1 DEF AddCredential, KeyRow
  <2>3. job' = [job EXCEPT ![h] = [at |-> "session", who |-> job[h].who]]
        \/ job' = [job EXCEPT ![h] = None]
    BY <1>21 DEF AddCredential
  <2>4. job' \in [Hand -> Job \cup {None}]
    BY <2>1, <2>3 DEF Job
  <2>5. QED
    BY <1>21, <2>2, <2>4 DEF AddCredential
<1>22. ASSUME NEW h \in Hand, NEW s \in Cookie, StartSession(h, s)
       PROVE  TypeOK'
  <2>1. job[h] \in [at : {"session"}, who : Person]
    BY <1>22 DEF StartSession, Job
  <2>2. QED
    BY <1>22, <2>1 DEF StartSession
<1>23. ASSUME NEW h \in Hand, NEW s \in Cookie, NEW k \in Key, RemoveByPage(h, s, k)
       PROVE  TypeOK'
  BY <1>23 DEF RemoveByPage, SignedIn, Job
<1>24. ASSUME NEW h \in Hand, RemoveCredential(h)
       PROVE  TypeOK'
  BY <1>24 DEF RemoveCredential, KeysOf
<1>25. ASSUME NEW h \in Hand, HandEnds(h)
       PROVE  TypeOK'
  BY <1>25 DEF HandEnds
<1>26. QED
  BY <1>1, <1>3, <1>4, <1>6, <1>7, <1>8, <1>9, <1>10, <1>11, <1>12, <1>13, <1>14, <1>15,
     <1>16, <1>17, <1>18, <1>19, <1>20, <1>21, <1>22, <1>23, <1>24, <1>25, Zenon
  DEF Next, LooseStep, HandStep, PageStep, InviteByPage

\* The tables hold rows and each hand is at a known step.
THEOREM AccountsTyped == Spec => []TypeOK
  BY InitTypeOK, TypeStep, PTL DEF Spec

----------------------------------------------------------------------------
(* Which steps write which table.                                           *)

\* What neither an account page's handler nor a registration's begin changes.
Stays == <<account, role, invite, key, session, spent>>

LEMMA LooseWrites ==
  ASSUME LooseStep
  PROVE  \/ UNCHANGED Stays
         \/ \E p \in Person, x \in Project, r \in Role : GrantByCommand(p, x, r)
         \/ \E i \in Invite : InviteExpires(i)
         \/ \E s \in Cookie : SessionEnds(s)
<1>1. ASSUME NEW c, NEW row, Begin(c, row)
      PROVE  UNCHANGED Stays
  BY <1>1 DEF Begin, people, Stays
<1>2. ASSUME NEW c \in Ceremony,
             \/ SigninBegin(c) \/ CeremonyExpires(c)
             \/ \E s \in Cookie : AddBegin(c, s)
             \/ \E i \in Invite : RegisterBegin(c, i)
      PROVE  UNCHANGED Stays
  <2>1. CASE CeremonyExpires(c)
    BY <2>1 DEF CeremonyExpires, people, Stays
  <2>2. CASE SigninBegin(c)
    BY <1>1, <2>2 DEF SigninBegin
  <2>3. ASSUME NEW s \in Cookie, AddBegin(c, s) PROVE UNCHANGED Stays
    BY <1>1, <2>3 DEF AddBegin
  <2>4. ASSUME NEW i \in Invite, RegisterBegin(c, i) PROVE UNCHANGED Stays
    BY <1>1, <2>4 DEF RegisterBegin
  <2>5. QED
    BY <1>2, <2>1, <2>2, <2>3, <2>4
<1>3. QED
  BY <1>2, Zenon DEF LooseStep

LEMMA PageWrites ==
  ASSUME NEW h \in Hand, PageStep(h)
  PROVE  UNCHANGED Stays \/ \E s \in Cookie : StartSession(h, s)
<1>1. ASSUME NEW s \in Cookie, NEW p \in Person, NEW x \in Project, NEW r \in Role,
             RoleByPage(h, s, p, x, r)
      PROVE  UNCHANGED Stays
  BY <1>1 DEF RoleByPage, people, doors, Stays
<1>2. ASSUME NEW s \in Cookie, NEW p \in Person, NEW undo \in BOOLEAN,
             DisableByPage(h, s, p, undo)
      PROVE  UNCHANGED Stays
  BY <1>2 DEF DisableByPage, people, doors, Stays
<1>3. ASSUME NEW s \in Cookie, NEW p \in Person, NEW x \in Project, NEW r \in Role \ {"none"},
             InviteByPage(h, s, p, x, r)
      PROVE  UNCHANGED Stays
  BY <1>3 DEF InviteByPage, InviteByCommand, people, doors, Stays
<1>4. ASSUME NEW s \in Cookie, NEW k \in Key, RemoveByPage(h, s, k)
      PROVE  UNCHANGED Stays
  BY <1>4 DEF RemoveByPage, people, doors, Stays
<1>5. ASSUME NEW s \in Cookie, NEW c \in Ceremony, AddFinish(h, c, s)
      PROVE  UNCHANGED Stays
  BY <1>5 DEF AddFinish, Take, people, Stays
<1>6. QED
  BY <1>1, <1>2, <1>3, <1>4, <1>5, Zenon DEF PageStep

LEMMA HandWrites ==
  ASSUME NEW h \in Hand, HandStep(h)
  PROVE  \/ UNCHANGED Stays
         \/ RoleWrite(h) \/ DisableWrite(h) \/ Redeem(h) \/ RemoveCredential(h)
         \/ \E i \in Invite : InviteWrite(h, i)
         \/ \E k \in Key : AddCredential(h, k)
         \/ \E s \in Cookie : StartSession(h, s)
<1>1. CASE PageStep(h)
  BY <1>1, PageWrites
<1>2. ASSUME NEW p \in Person, NEW x \in Project, NEW r \in Role \ {"none"},
             InviteByCommand(h, p, x, r)
      PROVE  UNCHANGED Stays
  BY <1>2 DEF InviteByCommand, people, doors, Stays
<1>3. ASSUME NEW c \in Ceremony, NEW k \in Key, SigninFinish(h, c, k)
      PROVE  UNCHANGED Stays
  BY <1>3 DEF SigninFinish, Take, people, Stays
<1>4. ASSUME NEW c \in Ceremony, RegisterFinish(h, c)
      PROVE  UNCHANGED Stays
  BY <1>4 DEF RegisterFinish, Take, people, Stays
<1>5. CASE HandEnds(h)
  BY <1>5 DEF HandEnds, people, doors, Stays
<1>6. QED
  BY <1>1, <1>2, <1>3, <1>4, <1>5, Zenon DEF HandStep

\* Every step that writes a table but the ceremonies'.
LEMMA Writes ==
  ASSUME [Next]_vars
  PROVE  \/ UNCHANGED Stays
         \/ \E p \in Person, x \in Project, r \in Role : GrantByCommand(p, x, r)
         \/ \E i \in Invite : InviteExpires(i)
         \/ \E s \in Cookie : SessionEnds(s)
         \/ \E h \in Hand :
              \/ RoleWrite(h) \/ DisableWrite(h) \/ Redeem(h) \/ RemoveCredential(h)
              \/ \E i \in Invite : InviteWrite(h, i)
              \/ \E k \in Key : AddCredential(h, k)
              \/ \E s \in Cookie : StartSession(h, s)
<1>1. CASE UNCHANGED vars
  BY <1>1 DEF vars, people, doors, Stays
<1>2. CASE LooseStep
  BY <1>2, LooseWrites, Zenon
<1>3. ASSUME NEW h \in Hand, HandStep(h)
      PROVE  \/ UNCHANGED Stays
             \/ RoleWrite(h) \/ DisableWrite(h) \/ Redeem(h) \/ RemoveCredential(h)
             \/ \E i \in Invite : InviteWrite(h, i)
             \/ \E k \in Key : AddCredential(h, k)
             \/ \E s \in Cookie : StartSession(h, s)
  BY <1>3, HandWrites, Zenon
<1>4. QED
  BY <1>1, <1>2, <1>3, Zenon DEF Next

----------------------------------------------------------------------------
(* Owners.                                                                  *)

\* The check against soleOwner is made in the transaction that writes, so an
\* owned project keeps an owner whatever the handlers read before it.
LEMMA OwnedStep ==
  ASSUME TypeOK, [Next]_vars, NEW x \in Project, Owned(x)
  PROVE  Owned(x)'
<1>1. PICK p \in Person : Owns(p, x) /\ Enabled(p)
  BY DEF Owned
<1> USE DEF TypeOK, Owned, Owns, Enabled
<1>2. ASSUME UNCHANGED people PROVE Owned(x)'
  BY <1>1, <1>2 DEF people
<1>3. ASSUME NEW q \in Person, NEW y \in Project, NEW r \in Role, RoleTx(q, y, r)
      PROVE  Owned(x)'
  BY <1>1, <1>3 DEF RoleTx, SetRole, SoleOwner
<1>4. ASSUME NEW h \in Hand, RoleWrite(h)
      PROVE  Owned(x)'
  <2>1. job[h] \in [at : {"role"}, to : Person, project : Project, role : Role]
    BY <1>4 DEF RoleWrite, At, Idle, Job
  <2>2. QED
    BY <1>3, <1>4, <2>1 DEF RoleWrite
<1>5. ASSUME NEW h \in Hand, DisableWrite(h)
      PROVE  Owned(x)'
  <2>1. job[h].to \in Person
    BY <1>5 DEF DisableWrite, At, Idle, Job
  <2>2. CASE job[h].undo
    BY <1>1, <1>5, <2>1, <2>2 DEF DisableWrite
  <2>3. CASE ~job[h].undo
    <3>1. Enabled(job[h].to) => ~SoleOwner(job[h].to, x)
      BY <1>5, <2>3 DEF DisableWrite
    <3>2. PICK q \in Person : Owns(q, x) /\ Enabled(q) /\ q # job[h].to
      BY <1>1, <2>1, <3>1 DEF SoleOwner
    <3>3. role' = role /\ account' = [account EXCEPT ![job[h].to] = "disabled"]
      BY <1>5, <2>3 DEF DisableWrite
    <3>4. QED
      BY <3>2, <3>3, <2>1
  <2>4. QED
    BY <2>2, <2>3
<1>6. ASSUME NEW h \in Hand, Redeem(h)
      PROVE  Owned(x)'
  <2> DEFINE row == invite[job[h].invite]
  <2>1. row \in InviteRow
    BY <1>6 DEF Redeem, Unspent, At, Idle, Job
  <2>2. row.to \in Person /\ row.project \in Project /\ row.role \in Role
    BY <2>1 DEF InviteRow
  <2>3. /\ account[row.to] # "unknown" /\ row.role # "owner" => ~SoleOwner(row.to, row.project)
        /\ account' = [account EXCEPT ![row.to] = "enabled"]
        /\ role' = [role EXCEPT ![row.to][row.project] = row.role]
    BY <1>6 DEF Redeem
  <2> HIDE DEF row
  <2>4. QED
    BY <1>1, <2>2, <2>3 DEF SoleOwner
<1>7. QED
  BY <1>2, <1>3, <1>4, <1>5, <1>6, Writes
  DEF GrantByCommand, InviteExpires, InviteWrite, SessionEnds, RemoveCredential, AddCredential,
      StartSession, Stays, people

\* A project that has an owner who can sign in keeps one.
THEOREM OwnersRemain == Spec => OwnedStaysOwned
<1>1. TypeOK /\ [Next]_vars => [\A x \in Project : Owned(x) => Owned(x)']_vars
  BY OwnedStep
<1>2. QED
  BY <1>1, AccountsTyped, PTL DEF Spec, OwnedStaysOwned

----------------------------------------------------------------------------
(* Invitations.                                                             *)

\* How often an invitation was redeemed is what its row says.
SpentCount == \A i \in Invite : spent[i] = IF invite[i] # None /\ invite[i].used THEN 1 ELSE 0

LEMMA SpentStep == TypeOK /\ SpentCount /\ [Next]_vars => SpentCount'
<1> SUFFICES ASSUME TypeOK, SpentCount, [Next]_vars PROVE SpentCount'
  OBVIOUS
<1> USE DEF TypeOK, SpentCount
<1>1. ASSUME UNCHANGED <<invite, spent>> PROVE SpentCount'
  BY <1>1
<1>2. ASSUME NEW i \in Invite, InviteExpires(i) PROVE SpentCount'
  BY <1>2 DEF InviteExpires, Usable, InviteRow
<1>3. ASSUME NEW h \in Hand, NEW i \in Invite, InviteWrite(h, i) PROVE SpentCount'
  BY <1>3 DEF InviteWrite
<1>4. ASSUME NEW h \in Hand, Redeem(h) PROVE SpentCount'
  <2>1. job[h].invite \in Invite
    BY <1>4 DEF Redeem, At, Idle, Job
  <2> DEFINE i == job[h].invite
  <2>2. /\ invite[i] \in InviteRow /\ ~invite[i].used
        /\ invite' = [invite EXCEPT ![i].used = TRUE]
        /\ spent' = [spent EXCEPT ![i] = @ + 1]
    BY <1>4, <2>1 DEF Redeem, Unspent
  <2>3. invite'[i] \in InviteRow /\ invite'[i].used
    BY <2>1, <2>2 DEF InviteRow
  <2>4. invite'[i] # None /\ \A j \in Invite \ {i} : invite'[j] = invite[j]
    BY <2>1, <2>2, <2>3, NoneAssumption
  <2>5. spent[i] = 0
    BY <2>1, <2>2
  <2>6. spent'[i] = 1 /\ \A j \in Invite \ {i} : spent'[j] = spent[j]
    BY <2>1, <2>2, <2>5
  <2>7. QED
    BY <2>1, <2>3, <2>4, <2>6
<1>5. QED
  BY <1>1, <1>2, <1>3, <1>4, Writes
  DEF GrantByCommand, RoleTx, SetRole, RoleWrite, DisableWrite, SessionEnds, RemoveCredential,
      AddCredential, StartSession, Stays, doors

\* However many browsers open an invitation, it admits once.
THEOREM InvitationsSpentOnce == Spec => []InvitationSpentOnce
<1>1. Init => SpentCount
  BY DEF Init, SpentCount
<1>2. SpentCount => InvitationSpentOnce
  BY DEF SpentCount, InvitationSpentOnce
<1>3. QED
  BY <1>1, <1>2, SpentStep, AccountsTyped, PTL DEF Spec

----------------------------------------------------------------------------
(* What a request does next, and why.                                       *)

\* The steps on which the passkeys do not hang.
Aside == {"role", "disable", "invite", "remove"}

LEMMA JobOfOne ==
  ASSUME TypeOK, NEW h \in Hand, NEW g \in Hand, NEW j, Goes(h, j)
  PROVE  job'[g] = job[g] \/ (g = h /\ job'[g] = j)
  BY DEF TypeOK, Goes

LEMMA HandJobs ==
  ASSUME TypeOK, NEW h \in Hand, HandStep(h), NEW g \in Hand, job'[g] # job[g], job'[g] # None
  PROVE  \/ job'[g].at \in Aside
         \/ \E c \in Ceremony, k \in Key :
              SigninFinish(g, c, k) /\ key[k] # None /\ job'[g] = [at |-> "session", who |-> key[k].of]
         \/ \E c \in Ceremony, s \in Cookie :
              AddFinish(g, c, s) /\ job'[g].at = "key" /\ job'[g].who = job'[g].begun
         \/ \E c \in Ceremony :
              /\ RegisterFinish(g, c) /\ ceremony[c].purpose = "register" /\ ceremony[c].invite # None
              /\ job'[g] = [at |-> "redeem", invite |-> ceremony[c].invite, begun |-> ceremony[c].handle]
         \/ Redeem(g) /\ job'[g] = [at |-> "key", who |-> invite[job[g].invite].to,
                                   begun |-> job[g].begun, signs |-> TRUE]
         \/ \E k \in Key : AddCredential(g, k) /\ job'[g] = [at |-> "session", who |-> job[g].who]
<1>1. ASSUME NEW s \in Cookie, NEW p \in Person, NEW x \in Project, NEW r \in Role,
             RoleByPage(h, s, p, x, r)
      PROVE  job'[g].at \in Aside
  BY <1>1, JobOfOne DEF RoleByPage, Aside
<1>2. ASSUME NEW s \in Cookie, NEW p \in Person, NEW undo \in BOOLEAN,
             DisableByPage(h, s, p, undo)
      PROVE  job'[g].at \in Aside
  BY <1>2, JobOfOne DEF DisableByPage, Aside
<1>3. ASSUME NEW p \in Person, NEW x \in Project, NEW r \in Role \ {"none"},
             InviteByCommand(h, p, x, r)
      PROVE  job'[g].at \in Aside
  BY <1>3, JobOfOne DEF InviteByCommand, Aside
<1>4. ASSUME NEW s \in Cookie, NEW k \in Key, RemoveByPage(h, s, k)
      PROVE  job'[g].at \in Aside
  BY <1>4, JobOfOne DEF RemoveByPage, Aside
<1>5. ASSUME Rest(h)
      PROVE  FALSE
  BY <1>5, JobOfOne DEF Rest
<1>6. ASSUME NEW s \in Cookie, StartSession(h, s)
      PROVE  FALSE
  BY <1>5, <1>6 DEF StartSession
<1>7. ~RoleWrite(h) /\ ~DisableWrite(h) /\ ~RemoveCredential(h) /\ ~HandEnds(h)
  BY <1>5 DEF RoleWrite, DisableWrite, RemoveCredential, HandEnds
<1>8. ASSUME NEW i \in Invite, InviteWrite(h, i)
      PROVE  FALSE
  BY <1>5, <1>8 DEF InviteWrite
<1>9. ASSUME NEW s \in Cookie, NEW c \in Ceremony, AddFinish(h, c, s)
      PROVE  AddFinish(g, c, s) /\ job'[g].at = "key" /\ job'[g].who = job'[g].begun
  <2> DEFINE j == [at |-> "key", who |-> session[s], begun |-> ceremony[c].handle, signs |-> FALSE]
  <2>1. ceremony[c].handle = session[s] /\ Goes(h, j)
    BY <1>9 DEF AddFinish, BegunFor
  <2>2. g = h /\ job'[g] = j
    BY <2>1, JobOfOne
  <2>3. QED
    BY <1>9, <2>1, <2>2
<1>10. ASSUME NEW c \in Ceremony, NEW k \in Key, SigninFinish(h, c, k)
       PROVE  /\ SigninFinish(g, c, k) /\ key[k] # None
              /\ job'[g] = [at |-> "session", who |-> key[k].of]
  <2>1. key[k] # None /\ Goes(h, [at |-> "session", who |-> key[k].of])
    BY <1>10 DEF SigninFinish
  <2>2. g = h /\ job'[g] = [at |-> "session", who |-> key[k].of]
    BY <2>1, JobOfOne
  <2>3. QED
    BY <1>10, <2>1, <2>2
<1>11. ASSUME NEW c \in Ceremony, RegisterFinish(h, c)
       PROVE  /\ RegisterFinish(g, c) /\ ceremony[c].purpose = "register" /\ ceremony[c].invite # None
              /\ job'[g] = [at |-> "redeem", invite |-> ceremony[c].invite, begun |-> ceremony[c].handle]
  <2> DEFINE j == [at |-> "redeem", invite |-> ceremony[c].invite, begun |-> ceremony[c].handle]
  <2>1. ceremony[c].purpose = "register" /\ ceremony[c].invite # None /\ Goes(h, j)
    BY <1>11 DEF RegisterFinish
  <2>2. g = h /\ job'[g] = j
    BY <2>1, JobOfOne
  <2>3. QED
    BY <1>11, <2>1, <2>2
<1>12. ASSUME Redeem(h)
       PROVE  Redeem(g) /\ job'[g] = [at |-> "key", who |-> invite[job[g].invite].to,
                                    begun |-> job[g].begun, signs |-> TRUE]
  <2> DEFINE j == [at |-> "key", who |-> invite[job[h].invite].to, begun |-> job[h].begun, signs |-> TRUE]
  <2>1. Goes(h, j)
    BY <1>12 DEF Redeem
  <2>2. g = h /\ job'[g] = j
    BY <2>1, JobOfOne
  <2>3. QED
    BY <1>12, <2>2
<1>13. ASSUME NEW k \in Key, AddCredential(h, k)
       PROVE  AddCredential(g, k) /\ job'[g] = [at |-> "session", who |-> job[g].who]
  <2>1. Goes(h, [at |-> "session", who |-> job[h].who])
    BY <1>5, <1>13 DEF AddCredential
  <2>2. g = h /\ job'[g] = [at |-> "session", who |-> job[h].who]
    BY <2>1, JobOfOne
  <2>3. QED
    BY <1>13, <2>2
<1>14. CASE PageStep(h)
  BY <1>1, <1>2, <1>3, <1>4, <1>6, <1>9, <1>14, Zenon DEF PageStep, InviteByPage
<1>15. QED
  BY <1>3, <1>7, <1>8, <1>10, <1>11, <1>12, <1>13, <1>14, Zenon DEF HandStep

LEMMA LooseJobs == [Next]_vars => UNCHANGED job \/ \E h \in Hand : HandStep(h)
<1>1. ASSUME LooseStep PROVE UNCHANGED job
  BY <1>1
  DEF LooseStep, GrantByCommand, InviteExpires, SigninBegin, AddBegin, RegisterBegin, Begin,
      CeremonyExpires, SessionEnds
<1>2. QED
  BY <1>1 DEF Next, vars

----------------------------------------------------------------------------
(* Passkeys.                                                                *)

HasKey(p) == \E k \in Key : key[k] # None /\ key[k].of = p

\* An account that has a passkey keeps one: removing takes a spare.
LEMMA KeyKept ==
  ASSUME TypeOK, [Next]_vars, NEW p \in Person, HasKey(p)
  PROVE  HasKey(p)'
<1> USE DEF TypeOK, HasKey
<1>1. CASE UNCHANGED key
  BY <1>1
<1>2. ASSUME NEW h \in Hand, NEW k \in Key, AddCredential(h, k)
      PROVE  HasKey(p)'
  <2>1. PICK j \in Key : key[j] # None /\ key[j].of = p
    OBVIOUS
  <2>2. j # k /\ key'[j] = key[j]
    BY <1>2, <2>1 DEF AddCredential
  <2>3. QED
    BY <2>1, <2>2
<1>3. ASSUME NEW h \in Hand, RemoveCredential(h)
      PROVE  HasKey(p)'
  <2>1. PICK i, j \in KeysOf(job[h].who) : i # j
    BY <1>3 DEF RemoveCredential, Spare
  <2>2. job[h].key \in KeysOf(job[h].who) /\ key' = [key EXCEPT ![job[h].key] = None]
    BY <1>3 DEF RemoveCredential
  <2>3. PICK k \in Key : key[k] # None /\ key[k].of = p /\ k # job[h].key
    BY <2>1, <2>2 DEF KeysOf
  <2>4. key'[k] = key[k]
    BY <2>2, <2>3
  <2>5. QED
    BY <2>3, <2>4
<1>4. QED
  BY <1>1, <1>2, <1>3, Writes
  DEF Stays, doors, GrantByCommand, RoleTx, SetRole, InviteExpires, SessionEnds, RoleWrite,
      DisableWrite, Redeem, InviteWrite, StartSession

\* A request about to start a session found a passkey of the account, or has
\* just stored one.
SigningIn == \A h \in Hand : At(h, "session") => HasKey(job[h].who)
Signed    == \A s \in Cookie : session[s] # None => HasKey(session[s])

LEMMA SigningStep == TypeOK /\ SigningIn /\ [Next]_vars => SigningIn'
<1> SUFFICES ASSUME TypeOK, SigningIn, [Next]_vars, NEW g \in Hand, At(g, "session")'
             PROVE  HasKey(job[g].who)'
  BY DEF SigningIn
<1>1. job'[g] # None /\ job'[g].at = "session"
  BY DEF At, Idle
<1>2. CASE job'[g] = job[g]
  <2>1. At(g, "session") /\ HasKey(job[g].who)
    BY <1>1, <1>2 DEF At, Idle, SigningIn
  <2>2. job[g].who \in Person
    BY <2>1 DEF TypeOK, HasKey, KeyRow
  <2>3. HasKey(job[g].who)'
    <3> DEFINE p == job[g].who
    <3>1. ASSUME NEW q \in Person, HasKey(q) PROVE \E k \in Key : key'[k] # None /\ key'[k].of = q
      BY <3>1, KeyKept DEF HasKey
    <3>2. \E k \in Key : key'[k] # None /\ key'[k].of = job[g].who
      BY <2>1, <2>2, <3>1
    <3>3. QED
      BY <1>2, <3>2 DEF HasKey
  <2>4. QED
    BY <2>3
<1>3. CASE job'[g] # job[g]
  <2>1. PICK h \in Hand : HandStep(h)
    BY <1>3, LooseJobs
  <2>2. /\ job'[g].at \notin Aside
        /\ ~\E c \in Ceremony, s \in Cookie :
              AddFinish(g, c, s) /\ job'[g].at = "key" /\ job'[g].who = job'[g].begun
        /\ ~\E c \in Ceremony :
              /\ RegisterFinish(g, c) /\ ceremony[c].purpose = "register" /\ ceremony[c].invite # None
              /\ job'[g] = [at |-> "redeem", invite |-> ceremony[c].invite, begun |-> ceremony[c].handle]
        /\ ~(Redeem(g) /\ job'[g] = [at |-> "key", who |-> invite[job[g].invite].to,
                                     begun |-> job[g].begun, signs |-> TRUE])
    <3>1. job'[g].at \notin Aside /\ job'[g].at # "key" /\ job'[g].at # "redeem"
      BY <1>1 DEF Aside
    <3>2. ASSUME NEW i, NEW p, job'[g] = [at |-> "redeem", invite |-> i, begun |-> p] PROVE FALSE
      BY <3>1, <3>2
    <3>3. ASSUME NEW p, NEW q, job'[g] = [at |-> "key", who |-> p, begun |-> q, signs |-> TRUE] PROVE FALSE
      BY <3>1, <3>3
    <3>4. QED
      BY <3>1, <3>2, <3>3, Zenon
  <2>3. \/ \E c \in Ceremony, k \in Key :
             SigninFinish(g, c, k) /\ key[k] # None /\ job'[g] = [at |-> "session", who |-> key[k].of]
        \/ \E k \in Key : AddCredential(g, k) /\ job'[g] = [at |-> "session", who |-> job[g].who]
    BY <1>1, <1>3, <2>1, <2>2, HandJobs, Zenon
  <2>4. ASSUME NEW c \in Ceremony, NEW k \in Key, SigninFinish(g, c, k), key[k] # None,
               job'[g] = [at |-> "session", who |-> key[k].of]
        PROVE  HasKey(job[g].who)'
    <3>1. key' = key
      BY <2>4 DEF SigninFinish, Take
    <3>2. QED
      BY <2>4, <3>1 DEF HasKey
  <2>5. ASSUME NEW k \in Key, AddCredential(g, k),
               job'[g] = [at |-> "session", who |-> job[g].who]
        PROVE  HasKey(job[g].who)'
    <3>1. job[g] \in [at : {"key"}, who : Person, begun : Person, signs : BOOLEAN]
      BY <2>5 DEF AddCredential, At, Idle, TypeOK, Job
    <3>2. key'[k] = [of |-> job[g].who, begun |-> job[g].begun]
      BY <2>5 DEF AddCredential, TypeOK
    <3>3. key'[k] # None
      BY <3>1, <3>2, NoneAssumption DEF KeyRow
    <3>4. QED
      BY <2>5, <3>2, <3>3 DEF HasKey
  <2>6. QED
    BY <2>3, <2>4, <2>5
<1>4. QED
  BY <1>2, <1>3

LEMMA SignedStep == TypeOK /\ SigningIn /\ Signed /\ [Next]_vars => Signed'
<1> SUFFICES ASSUME TypeOK, SigningIn, Signed, [Next]_vars, NEW s \in Cookie, session'[s] # None
             PROVE  HasKey(session[s])'
  BY DEF Signed
<1>1. ASSUME NEW q \in Person, HasKey(q) PROVE \E k \in Key : key'[k] # None /\ key'[k].of = q
  BY <1>1, KeyKept DEF HasKey
<1>2. CASE session'[s] = session[s]
  <2>1. session[s] \in Person /\ HasKey(session[s])
    BY <1>2 DEF TypeOK, Signed
  <2>2. \E k \in Key : key'[k] # None /\ key'[k].of = session[s]
    BY <1>1, <2>1
  <2>3. QED
    BY <1>2, <2>2 DEF HasKey
<1>3. CASE session'[s] # session[s]
  <2>1. PICK h \in Hand : StartSession(h, s)
    BY <1>3, Writes
    DEF Stays, doors, TypeOK, GrantByCommand, RoleTx, SetRole, InviteExpires, SessionEnds, RoleWrite,
        DisableWrite, SessionsEnded, Redeem, InviteWrite, StartSession, RemoveCredential, AddCredential
  <2>2. session'[s] = job[h].who /\ At(h, "session")
    BY <2>1 DEF StartSession, TypeOK
  <2>3. HasKey(job[h].who) /\ job[h].who \in Person
    BY <2>2 DEF SigningIn, HasKey, TypeOK, KeyRow
  <2>4. \E k \in Key : key'[k] # None /\ key'[k].of = job[h].who
    BY <1>1, <2>3
  <2>5. QED
    BY <2>2, <2>4 DEF HasKey
<1>4. QED
  BY <1>2, <1>3

\* Whoever is signed in holds a passkey to sign in with again.
THEOREM SignedInHoldsPasskey == Spec => []SignedInHasPasskey
<1>1. Init => SigningIn /\ Signed
  BY DEF Init, SigningIn, Signed, At, Idle
<1>2. Signed => SignedInHasPasskey
  BY DEF Signed, HasKey, SignedInHasPasskey, KeysOf
<1>3. QED
  BY <1>1, <1>2, SigningStep, SignedStep, AccountsTyped, PTL DEF Spec

----------------------------------------------------------------------------
(* Whose passkey it becomes.                                                *)

\* A ceremony begun with an invitation, and a request about to redeem it, are
\* for the address the invitation was written to.
CeremonyFor ==
  \A c \in Ceremony :
    ceremony[c] # None /\ ceremony[c].purpose = "register" /\ ceremony[c].invite # None =>
      invite[ceremony[c].invite] # None /\ invite[ceremony[c].invite].to = ceremony[c].handle

Redeeming ==
  \A h \in Hand : At(h, "redeem") =>
    invite[job[h].invite] # None /\ invite[job[h].invite].to = job[h].begun

Keying == \A h \in Hand : At(h, "key") => job[h].who = job[h].begun

Begun == CeremonyFor /\ Redeeming /\ Keying /\ PasskeyWhereBegun

\* An invitation stays written to whom it was.
LEMMA InviteKept ==
  ASSUME TypeOK, [Next]_vars, NEW i \in Invite, invite[i] # None
  PROVE  invite'[i] # None /\ invite'[i].to = invite[i].to
<1> USE DEF TypeOK
<1>1. CASE UNCHANGED invite
  BY <1>1
<1>2. ASSUME NEW j \in Invite, InviteExpires(j)
      PROVE  invite'[i] # None /\ invite'[i].to = invite[i].to
  <2>1. invite'[i] \in InviteRow /\ invite'[i].to = invite[i].to
    BY <1>2 DEF InviteExpires, InviteRow
  <2>2. QED
    BY <2>1, NoneAssumption
<1>3. ASSUME NEW h \in Hand, NEW j \in Invite, InviteWrite(h, j)
      PROVE  invite'[i] # None /\ invite'[i].to = invite[i].to
  BY <1>3 DEF InviteWrite
<1>4. ASSUME NEW h \in Hand, Redeem(h)
      PROVE  invite'[i] # None /\ invite'[i].to = invite[i].to
  <2>1. job[h].invite \in Invite /\ invite' = [invite EXCEPT ![job[h].invite].used = TRUE]
    BY <1>4 DEF Redeem, At, Idle, Job
  <2>2. CASE i = job[h].invite
    <3>1. invite'[i] \in InviteRow /\ invite'[i].to = invite[i].to
      BY <2>1, <2>2 DEF InviteRow
    <3>2. QED
      BY <3>1, NoneAssumption
  <2>3. CASE i # job[h].invite
    BY <2>1, <2>3
  <2>4. QED
    BY <2>2, <2>3
<1>5. QED
  BY <1>1, <1>2, <1>3, <1>4, Writes
  DEF Stays, doors, GrantByCommand, RoleTx, SetRole, SessionEnds, RoleWrite, DisableWrite,
      RemoveCredential, AddCredential, StartSession

\* Only RegisterBegin makes a ceremony that carries an invitation.
LEMMA CeremonyWrites ==
  ASSUME TypeOK, [Next]_vars, NEW c \in Ceremony, ceremony'[c] # ceremony[c], ceremony'[c] # None,
         ceremony'[c].invite # None
  PROVE  \E i \in Invite : RegisterBegin(c, i)
<1> USE DEF TypeOK
<1>1. ASSUME NEW d \in Ceremony, NEW row, Begin(d, row)
      PROVE  c = d /\ ceremony'[c] = row
  BY <1>1 DEF Begin
<1>2. ASSUME LooseStep
      PROVE  \E i \in Invite : RegisterBegin(c, i)
  <2>1. ASSUME NEW d \in Ceremony, SigninBegin(d) PROVE FALSE
    BY <1>1, <2>1 DEF SigninBegin
  <2>2. ASSUME NEW d \in Ceremony, NEW s \in Cookie, AddBegin(d, s) PROVE FALSE
    BY <1>1, <2>2 DEF AddBegin
  <2>3. ASSUME NEW d \in Ceremony, NEW i \in Invite, RegisterBegin(d, i) PROVE RegisterBegin(c, i)
    BY <1>1, <2>3 DEF RegisterBegin
  <2>4. ASSUME NEW d \in Ceremony, CeremonyExpires(d) PROVE FALSE
    BY <2>4 DEF CeremonyExpires
  <2>5. ~\E p \in Person, x \in Project, r \in Role : GrantByCommand(p, x, r)
    BY DEF GrantByCommand, RoleTx, SetRole, doors
  <2>6. ~(\E i \in Invite : InviteExpires(i)) /\ ~\E s \in Cookie : SessionEnds(s)
    BY DEF InviteExpires, SessionEnds
  <2>7. QED
    BY <1>2, <2>1, <2>2, <2>3, <2>4, <2>5, <2>6, Zenon DEF LooseStep
<1>3. ASSUME NEW d \in Ceremony, Take(d) PROVE FALSE
  BY <1>3 DEF Take
<1>4. ASSUME NEW h \in Hand, HandStep(h) PROVE FALSE
  <2>1. ASSUME NEW s \in Cookie, NEW d \in Ceremony, AddFinish(h, d, s) PROVE FALSE
    BY <1>3, <2>1 DEF AddFinish
  <2>2. ASSUME NEW d \in Ceremony, NEW k \in Key, SigninFinish(h, d, k) PROVE FALSE
    BY <1>3, <2>2 DEF SigninFinish
  <2>3. ASSUME NEW d \in Ceremony, RegisterFinish(h, d) PROVE FALSE
    BY <1>3, <2>3 DEF RegisterFinish
  <2>4. CASE PageStep(h)
    BY <2>1, <2>4
    DEF PageStep, RoleByPage, DisableByPage, InviteByPage, InviteByCommand, RemoveByPage, StartSession,
        doors
  <2>5. ~RoleWrite(h) /\ ~DisableWrite(h) /\ ~Redeem(h) /\ ~RemoveCredential(h) /\ ~HandEnds(h)
    BY DEF RoleWrite, RoleTx, SetRole, DisableWrite, Redeem, RemoveCredential, HandEnds, doors
  <2>6. QED
    BY <1>4, <2>2, <2>3, <2>4, <2>5
    DEF HandStep, InviteByCommand, InviteWrite, AddCredential, doors
<1>5. QED
  BY <1>2, <1>4 DEF Next, vars, doors

LEMMA CeremonyStep == TypeOK /\ CeremonyFor /\ [Next]_vars => CeremonyFor'
<1> SUFFICES ASSUME TypeOK, CeremonyFor, [Next]_vars, NEW c \in Ceremony, ceremony'[c] # None,
                    ceremony'[c].purpose = "register", ceremony'[c].invite # None
             PROVE  /\ invite'[ceremony'[c].invite] # None
                    /\ invite'[ceremony'[c].invite].to = ceremony'[c].handle
  BY DEF CeremonyFor
<1>1. CASE ceremony'[c] = ceremony[c]
  <2>1. ceremony[c].invite \in Invite
    BY <1>1 DEF TypeOK, CeremonyRow
  <2>2. invite[ceremony[c].invite] # None /\ invite[ceremony[c].invite].to = ceremony[c].handle
    BY <1>1 DEF CeremonyFor
  <2>3. QED
    BY <1>1, <2>1, <2>2, InviteKept
<1>2. CASE ceremony'[c] # ceremony[c]
  <2>1. PICK i \in Invite : RegisterBegin(c, i)
    BY <1>2, CeremonyWrites
  <2>2. /\ invite' = invite /\ invite[i] # None
        /\ ceremony'[c] = [purpose |-> "register", handle |-> invite[i].to, invite |-> i]
    BY <2>1 DEF RegisterBegin, Begin, Usable, TypeOK
  <2>3. QED
    BY <2>2
<1>3. QED
  BY <1>1, <1>2

LEMMA RedeemingStep == TypeOK /\ CeremonyFor /\ Redeeming /\ [Next]_vars => Redeeming'
<1> SUFFICES ASSUME TypeOK, CeremonyFor, Redeeming, [Next]_vars, NEW g \in Hand,
                    job'[g] # None, job'[g].at = "redeem"
             PROVE  invite'[job'[g].invite] # None /\ invite'[job'[g].invite].to = job'[g].begun
  BY DEF Redeeming, At, Idle
<1>1. CASE job'[g] = job[g]
  <2>1. job[g].invite \in Invite
    BY <1>1 DEF TypeOK, Job
  <2>2. invite[job[g].invite] # None /\ invite[job[g].invite].to = job[g].begun
    BY <1>1 DEF Redeeming, At, Idle
  <2>3. QED
    BY <1>1, <2>1, <2>2, InviteKept
<1>2. CASE job'[g] # job[g]
  <2>1. PICK h \in Hand : HandStep(h)
    BY <1>2, LooseJobs
  <2>2. job'[g].at \notin Aside /\ job'[g].at # "key" /\ job'[g].at # "session"
    BY DEF Aside
  <2>3. ASSUME NEW p, job'[g] = [at |-> "session", who |-> p] PROVE FALSE
    BY <2>2, <2>3
  <2>4. ASSUME NEW p, NEW q, job'[g] = [at |-> "key", who |-> p, begun |-> q, signs |-> TRUE] PROVE FALSE
    BY <2>2, <2>4
  <2>5. PICK c \in Ceremony :
          /\ RegisterFinish(g, c) /\ ceremony[c].purpose = "register" /\ ceremony[c].invite # None
          /\ job'[g] = [at |-> "redeem", invite |-> ceremony[c].invite, begun |-> ceremony[c].handle]
    BY <1>2, <2>1, <2>2, <2>3, <2>4, HandJobs, Zenon
  <2>6. ceremony[c] # None /\ invite' = invite
    BY <2>5 DEF RegisterFinish, Take
  <2>7. invite[ceremony[c].invite] # None /\ invite[ceremony[c].invite].to = ceremony[c].handle
    BY <2>5, <2>6 DEF CeremonyFor
  <2>8. QED
    BY <2>5, <2>6, <2>7
<1>3. QED
  BY <1>1, <1>2

LEMMA KeyingStep == TypeOK /\ Redeeming /\ Keying /\ [Next]_vars => Keying'
<1> SUFFICES ASSUME TypeOK, Redeeming, Keying, [Next]_vars, NEW g \in Hand,
                    job'[g] # None, job'[g].at = "key"
             PROVE  job'[g].who = job'[g].begun
  BY DEF Keying, At, Idle
<1>1. CASE job'[g] = job[g]
  BY <1>1 DEF Keying, At, Idle
<1>2. CASE job'[g] # job[g]
  <2>1. PICK h \in Hand : HandStep(h)
    BY <1>2, LooseJobs
  <2>2. job'[g].at \notin Aside /\ job'[g].at # "redeem" /\ job'[g].at # "session"
    BY DEF Aside
  <2>3. ASSUME NEW p, job'[g] = [at |-> "session", who |-> p] PROVE FALSE
    BY <2>2, <2>3
  <2>4. ASSUME NEW i, NEW p, job'[g] = [at |-> "redeem", invite |-> i, begun |-> p] PROVE FALSE
    BY <2>2, <2>4
  <2>5. \/ job'[g].who = job'[g].begun
        \/ Redeem(g) /\ job'[g] = [at |-> "key", who |-> invite[job[g].invite].to,
                                  begun |-> job[g].begun, signs |-> TRUE]
    BY <1>2, <2>1, <2>2, <2>3, <2>4, HandJobs, Zenon
  <2>6. Redeem(g) => invite[job[g].invite].to = job[g].begun
    BY DEF Redeem, Redeeming
  <2>7. QED
    BY <2>5, <2>6
<1>3. QED
  BY <1>1, <1>2

LEMMA BegunStep == TypeOK /\ Keying /\ PasskeyWhereBegun /\ [Next]_vars => PasskeyWhereBegun'
<1> SUFFICES ASSUME TypeOK, Keying, PasskeyWhereBegun, [Next]_vars, NEW k \in Key, key'[k] # None
             PROVE  key'[k].of = key'[k].begun
  BY DEF PasskeyWhereBegun
<1>1. CASE key'[k] = key[k]
  BY <1>1 DEF PasskeyWhereBegun
<1>2. CASE key'[k] # key[k]
  <2>1. PICK h \in Hand : AddCredential(h, k)
    BY <1>2, Writes
    DEF TypeOK, Stays, doors, GrantByCommand, RoleTx, SetRole, InviteExpires, SessionEnds, RoleWrite,
        DisableWrite, Redeem, InviteWrite, StartSession, RemoveCredential, AddCredential
  <2>2. key'[k] = [of |-> job[h].who, begun |-> job[h].begun]
    BY <2>1 DEF AddCredential, TypeOK
  <2>3. job[h].who = job[h].begun
    BY <2>1 DEF AddCredential, Keying
  <2>4. QED
    BY <2>2, <2>3
<1>3. QED
  BY <1>1, <1>2

\* A passkey lands on the account its ceremony was begun for, whatever a
\* browser finishes it with.
THEOREM PasskeysWhereBegun == Spec => []PasskeyWhereBegun
<1>1. Init => Begun
  <2>1. ASSUME Init, NEW k \in Key, key[k] # None PROVE key[k].of = key[k].begun
    <3>1. \E p \in DOMAIN Known : key[k] = [of |-> p, begun |-> p]
      BY <2>1, Zenon DEF Init
    <3>2. QED
      BY <3>1
  <2>2. Init => CeremonyFor /\ Redeeming /\ Keying
    BY DEF Init, CeremonyFor, Redeeming, Keying, At, Idle
  <2>3. QED
    BY <2>1, <2>2 DEF Begun, PasskeyWhereBegun
<1>2. TypeOK /\ Begun /\ [Next]_vars => Begun'
  BY CeremonyStep, RedeemingStep, KeyingStep, BegunStep DEF Begun
<1>3. Begun => PasskeyWhereBegun
  BY DEF Begun
<1>4. QED
  BY <1>1, <1>2, <1>3, AccountsTyped, PTL DEF Spec
=============================================================================
