------------------------------ MODULE Accounts ------------------------------
(***************************************************************************)
(* Who may sign in and what they may do: invitations, passkeys, one-use    *)
(* ceremonies, browser sessions, roles per project and disabled accounts   *)
(* (internal/account, the handlers of internal/web/auth.go and             *)
(* accountpage.go, `mustur account`).                                      *)
(*                                                                         *)
(* A call of the account store is one step: each is one statement or one   *)
(* transaction.  A request makes several, and other requests run in        *)
(* between: a page asks whether the presser owns the project and then      *)
(* writes, a registration spends its invitation, stores the passkey and    *)
(* starts the session one after the other.  Any request may end early,     *)
(* its context being the connection's.                                     *)
(***************************************************************************)
EXTENDS Naturals

CONSTANTS
  Person,    \* email addresses: an account is one address's
  Project,
  Home,      \* the project this install serves
  Key,       \* passkeys
  Cookie,    \* secrets of browser sessions
  Ceremony,  \* identifiers of ceremonies under way at once; one is used again
             \* only after its row is gone
  Invite,    \* secrets of invitations
  Hand,      \* requests under way at once
  Known,     \* person -> the passkey of the account it has at the start
  Granted,   \* the roles at the start
  None       \* no value

Role == {"none", "reader", "owner"}

ASSUME HomeAssumption == Home \in Project
ASSUME KnownAssumption ==
  /\ DOMAIN Known \subseteq Person /\ \A p \in DOMAIN Known : Known[p] \in Key
  /\ \A p, q \in DOMAIN Known : Known[p] = Known[q] => p = q
ASSUME GrantedAssumption ==
  /\ Granted \in [Person -> [Project -> Role]]
  /\ \A p \in Person \ DOMAIN Known : \A x \in Project : Granted[p][x] = "none"

VARIABLES
  account,   \* person -> whether there is an account, and whether it is disabled
  role,      \* grant_role: person -> project -> role
  invite,    \* secret -> its row, or None
  key,       \* credential: passkey -> its row, or None
  session,   \* auth_session: secret -> the person signed in, or None
  ceremony,  \* webauthn_ceremony: identifier -> its row, or None
  job,       \* hand -> what its request does next, or None
  spent      \* history: secret -> how often it was redeemed

people == <<account, role>>
doors  == <<invite, key, session, ceremony>>
vars   == <<people, doors, job, spent>>

\* `expired`: the day an invitation lives is over.
InviteRow == [to : Person, project : Project, role : Role \ {"none"},
              used : BOOLEAN, expired : BOOLEAN]

\* `begun` is history: whom the ceremony that made the passkey was begun for.
KeyRow == [of : Person, begun : Person]

\* A registration commits to a user handle; one that redeems an invitation
\* carries it too.
CeremonyRow ==
  [purpose : {"signin"}, handle : {None}, invite : {None}]
    \cup [purpose : {"register"}, handle : Person, invite : Invite \cup {None}]

\* What a request does next.  `signs`: a registration goes on to sign in.
Job ==
  [at : {"role"}, to : Person, project : Project, role : Role]
    \cup [at : {"disable"}, to : Person, undo : BOOLEAN]
    \cup [at : {"invite"}, to : Person, project : Project, role : Role \ {"none"}]
    \cup [at : {"redeem"}, invite : Invite, begun : Person]
    \cup [at : {"key"}, who : Person, begun : Person, signs : BOOLEAN]
    \cup [at : {"session"}, who : Person]
    \cup [at : {"remove"}, who : Person, key : Key]

ASSUME NoneAssumption == None \notin Person \cup Invite \cup InviteRow \cup KeyRow \cup CeremonyRow

Idle(h) == job[h] = None

At(h, step) == ~Idle(h) /\ job[h].at = step
Goes(h, j) == job' = [job EXCEPT ![h] = j]
Rest(h) == Goes(h, None)

Init ==
  /\ account = [p \in Person |-> IF p \in DOMAIN Known THEN "enabled" ELSE "unknown"]
  /\ role = Granted
  /\ invite = [i \in Invite |-> None]
  /\ key = [k \in Key |-> IF \E p \in DOMAIN Known : Known[p] = k
                            THEN LET p == CHOOSE p \in DOMAIN Known : Known[p] = k
                                 IN  [of |-> p, begun |-> p]
                            ELSE None]
  /\ session = [s \in Cookie |-> None]
  /\ ceremony = [c \in Ceremony |-> None]
  /\ job = [h \in Hand |-> None]
  /\ spent = [i \in Invite |-> 0]

----------------------------------------------------------------------------
(* The store's reads.                                                       *)

Enabled(p) == account[p] = "enabled"

KeysOf(p) == {k \in Key : key[k] # None /\ key[k].of = p}

\* Session: who a cookie signs in, when it signs anybody in.
SignedIn(s) == session[s] # None /\ Enabled(session[s])

\* Invitation: what a secret would grant, unspent and in time.
Usable(i) == invite[i] # None /\ ~invite[i].used /\ ~invite[i].expired

Owns(p, x) == role[p][x] = "owner"

\* Mutant: a disabled owner counts as the other one.
SoleOwnerOfAll(p, x) == Owns(p, x) /\ \A q \in Person \ {p} : ~Owns(q, x)

\* soleOwner: p owns x and no other account that can sign in does.
SoleOwner(p, x) == Owns(p, x) /\ \A q \in Person \ {p} : ~(Owns(q, x) /\ Enabled(q))

----------------------------------------------------------------------------
(* Roles, written by the account page and by `mustur account`.              *)

SetRole(p, x, r) ==
  /\ role' = [role EXCEPT ![p][x] = r]
  /\ UNCHANGED <<account, doors, spent>>

\* Grant, for a role; Ungrant, for none: never over a project's last owner.
RoleTx(p, x, r) ==
  /\ r = "none" => role[p][x] # "none"
  /\ r # "owner" => ~SoleOwner(p, x)
  /\ SetRole(p, x, r)

GrantByCommand(p, x, r) ==
  /\ account[p] # "unknown"
  /\ RoleTx(p, x, r)
  /\ UNCHANGED job

\* The page's check that the presser owns the project it is about to change.
RoleByPage(h, s, p, x, r) ==
  /\ Idle(h) /\ SignedIn(s) /\ Owns(session[s], x)
  /\ account[p] # "unknown"
  /\ r = "none" => role[p][x] # "none"
  /\ Goes(h, [at |-> "role", to |-> p, project |-> x, role |-> r])
  /\ UNCHANGED <<people, doors, spent>>

RoleWrite(h) ==
  /\ At(h, "role")
  /\ RoleTx(job[h].to, job[h].project, job[h].role)
  /\ Rest(h)

----------------------------------------------------------------------------
(* Disabling and enabling.                                                  *)

\* Owners of the install's project alone may.
DisableByPage(h, s, p, undo) ==
  /\ Idle(h) /\ SignedIn(s) /\ Owns(session[s], Home)
  /\ account[p] # "unknown"
  /\ Goes(h, [at |-> "disable", to |-> p, undo |-> undo])
  /\ UNCHANGED <<people, doors, spent>>

\* DELETE FROM auth_session WHERE account_id = p.
SessionsEnded(p) == [s \in Cookie |-> IF session[s] = p THEN None ELSE session[s]]

\* Disable: refused for the only enabled owner of any project.
DisableWrite(h) ==
  /\ At(h, "disable")
  /\ LET p == job[h].to
     IN  IF job[h].undo
           THEN account' = [account EXCEPT ![p] = "enabled"] /\ UNCHANGED session
           ELSE /\ Enabled(p) => \A x \in Project : ~SoleOwner(p, x)
                /\ account' = [account EXCEPT ![p] = "disabled"]
                /\ session' = SessionsEnded(p)
  /\ Rest(h)
  /\ UNCHANGED <<role, invite, key, ceremony, spent>>

----------------------------------------------------------------------------
(* Invitations.                                                             *)

\* What Invite reads before it inserts: the address may not be a disabled
\* account's, nor the project's only owner for a lesser role.
Invitable(p, x, r) ==
  /\ account[p] # "disabled"
  /\ r # "owner" => ~SoleOwner(p, x)

InviteByCommand(h, p, x, r) ==
  /\ Idle(h) /\ Invitable(p, x, r)
  /\ Goes(h, [at |-> "invite", to |-> p, project |-> x, role |-> r])
  /\ UNCHANGED <<people, doors, spent>>

\* The presser's ownership is read just before.
InviteByPage(h, s, p, x, r) ==
  /\ SignedIn(s) /\ Owns(session[s], x)
  /\ InviteByCommand(h, p, x, r)

InviteWrite(h, i) ==
  /\ At(h, "invite") /\ invite[i] = None
  /\ invite' = [invite EXCEPT ![i] = [to |-> job[h].to, project |-> job[h].project,
                                      role |-> job[h].role, used |-> FALSE, expired |-> FALSE]]
  /\ Rest(h)
  /\ UNCHANGED <<people, key, session, ceremony, spent>>

InviteExpires(i) ==
  /\ Usable(i)
  /\ invite' = [invite EXCEPT ![i].expired = TRUE]
  /\ UNCHANGED <<people, key, session, ceremony, job, spent>>

----------------------------------------------------------------------------
(* Ceremonies: a challenge is issued by one request and spent by another.   *)

Begin(c, row) ==
  /\ ceremony[c] = None
  /\ ceremony' = [ceremony EXCEPT ![c] = row]
  /\ UNCHANGED <<people, invite, key, session, job, spent>>

SigninBegin(c) == Begin(c, [purpose |-> "signin", handle |-> None, invite |-> None])

AddBegin(c, s) ==
  /\ SignedIn(s)
  /\ Begin(c, [purpose |-> "register", handle |-> session[s], invite |-> None])

RegisterBegin(c, i) ==
  /\ Usable(i)
  /\ Begin(c, [purpose |-> "register", handle |-> invite[i].to, invite |-> i])

\* TakeCeremony deletes the row, whatever its purpose and whatever follows.
Take(c) ==
  /\ ceremony[c] # None
  /\ ceremony' = [ceremony EXCEPT ![c] = None]
  /\ UNCHANGED <<people, invite, key, session, spent>>

\* Sweep, or an end of its life that Take notices.
CeremonyExpires(c) ==
  /\ ceremony[c] # None
  /\ ceremony' = [ceremony EXCEPT ![c] = None]
  /\ UNCHANGED <<people, invite, key, session, job, spent>>

\* A browser answers with any passkey; ByCredential looks up whose it is.
SigninFinish(h, c, k) ==
  /\ Idle(h) /\ Take(c)
  /\ IF ceremony[c].purpose = "signin" /\ key[k] # None /\ Enabled(key[k].of)
       THEN Goes(h, [at |-> "session", who |-> key[k].of])
       ELSE UNCHANGED job

\* Mutant: a ceremony begun for anybody, or for an invitation, will do.
AnyCeremony(row, p) == row.purpose = "register"

\* A ceremony begun for somebody else cannot be finished as this account.
BegunFor(row, p) == row.purpose = "register" /\ row.handle = p /\ row.invite = None

AddFinish(h, c, s) ==
  /\ Idle(h) /\ SignedIn(s) /\ Take(c)
  /\ IF BegunFor(ceremony[c], session[s])
       THEN Goes(h, [at |-> "key", who |-> session[s], begun |-> ceremony[c].handle, signs |-> FALSE])
       ELSE UNCHANGED job

RegisterFinish(h, c) ==
  /\ Idle(h) /\ Take(c)
  /\ LET row == ceremony[c]
     IN  IF row.purpose = "register" /\ row.invite # None /\ Usable(row.invite)
           THEN Goes(h, [at |-> "redeem", invite |-> row.invite, begun |-> row.handle])
           ELSE UNCHANGED job

\* Mutant: the UPDATE without its "used IS NULL".
OpenedWhenever(i) == invite[i] # None

Unspent(i) == invite[i] # None /\ ~invite[i].used

\* Redeem.  It reads the invitation once more before its transaction, which
\* compares only whether it is spent: one that expires in between is taken.
Redeem(h) ==
  /\ At(h, "redeem")
  /\ LET i   == job[h].invite
         row == invite[i]
     IN  /\ Unspent(i)
         /\ account[row.to] # "disabled"
         /\ account[row.to] # "unknown" /\ row.role # "owner" => ~SoleOwner(row.to, row.project)
         /\ invite' = [invite EXCEPT ![i].used = TRUE]
         /\ account' = [account EXCEPT ![row.to] = "enabled"]
         /\ role' = [role EXCEPT ![row.to][row.project] = row.role]
         /\ spent' = [spent EXCEPT ![i] = @ + 1]
         /\ Goes(h, [at |-> "key", who |-> row.to, begun |-> job[h].begun, signs |-> TRUE])
  /\ UNCHANGED <<key, session, ceremony>>

----------------------------------------------------------------------------
(* Passkeys and sessions.                                                   *)

AddCredential(h, k) ==
  /\ At(h, "key") /\ key[k] = None
  /\ key' = [key EXCEPT ![k] = [of |-> job[h].who, begun |-> job[h].begun]]
  /\ IF job[h].signs THEN Goes(h, [at |-> "session", who |-> job[h].who]) ELSE Rest(h)
  /\ UNCHANGED <<people, invite, session, ceremony, spent>>

\* It asks nothing about the account.
StartSession(h, s) ==
  /\ At(h, "session") /\ session[s] = None
  /\ session' = [session EXCEPT ![s] = job[h].who]
  /\ Rest(h)
  /\ UNCHANGED <<people, invite, key, ceremony, spent>>

\* The page resolves the presser; which passkeys are theirs the store decides.
RemoveByPage(h, s, k) ==
  /\ Idle(h) /\ SignedIn(s)
  /\ Goes(h, [at |-> "remove", who |-> session[s], key |-> k])
  /\ UNCHANGED <<people, doors, spent>>

\* Mutant: an off-by-one that lets the last passkey go.
AnyLeft(p) == KeysOf(p) # {}

\* More than one passkey on the account.
Spare(p) == \E j, k \in KeysOf(p) : j # k

RemoveCredential(h) ==
  /\ At(h, "remove")
  /\ job[h].key \in KeysOf(job[h].who) /\ Spare(job[h].who)
  /\ key' = [key EXCEPT ![job[h].key] = None]
  /\ Rest(h)
  /\ UNCHANGED <<people, invite, session, ceremony, spent>>

\* EndSession, or a session's expiry.
SessionEnds(s) ==
  /\ session[s] # None
  /\ session' = [session EXCEPT ![s] = None]
  /\ UNCHANGED <<people, invite, key, ceremony, job, spent>>

\* The store refuses, or the connection goes and the context with it.
HandEnds(h) ==
  /\ ~Idle(h)
  /\ Rest(h)
  /\ UNCHANGED <<people, doors, spent>>

PageStep(h) ==
  \E s \in Cookie :
    \/ \E p \in Person, x \in Project, r \in Role : RoleByPage(h, s, p, x, r)
    \/ \E p \in Person, undo \in BOOLEAN : DisableByPage(h, s, p, undo)
    \/ \E p \in Person, x \in Project, r \in Role \ {"none"} : InviteByPage(h, s, p, x, r)
    \/ \E k \in Key : RemoveByPage(h, s, k)
    \/ \E c \in Ceremony : AddFinish(h, c, s)
    \/ StartSession(h, s)

HandStep(h) ==
  \/ PageStep(h)
  \/ RoleWrite(h)
  \/ DisableWrite(h)
  \/ \E p \in Person, x \in Project, r \in Role \ {"none"} : InviteByCommand(h, p, x, r)
  \/ \E i \in Invite : InviteWrite(h, i)
  \/ \E c \in Ceremony, k \in Key : SigninFinish(h, c, k)
  \/ \E c \in Ceremony : RegisterFinish(h, c)
  \/ Redeem(h)
  \/ \E k \in Key : AddCredential(h, k)
  \/ RemoveCredential(h)
  \/ HandEnds(h)

LooseStep ==
  \/ \E p \in Person, x \in Project, r \in Role : GrantByCommand(p, x, r)
  \/ \E i \in Invite : InviteExpires(i)
  \/ \E c \in Ceremony :
       \/ SigninBegin(c)
       \/ \E s \in Cookie : AddBegin(c, s)
       \/ \E i \in Invite : RegisterBegin(c, i)
       \/ CeremonyExpires(c)
  \/ \E s \in Cookie : SessionEnds(s)

Next == LooseStep \/ \E h \in Hand : HandStep(h)

Spec == Init /\ [][Next]_vars

----------------------------------------------------------------------------
(* Properties.                                                              *)

\* The tables hold rows and each hand is at a known step.
TypeOK ==
  /\ account \in [Person -> {"unknown", "enabled", "disabled"}]
  /\ role \in [Person -> [Project -> Role]]
  /\ invite \in [Invite -> InviteRow \cup {None}]
  /\ key \in [Key -> KeyRow \cup {None}]
  /\ session \in [Cookie -> Person \cup {None}]
  /\ ceremony \in [Ceremony -> CeremonyRow \cup {None}]
  /\ job \in [Hand -> Job \cup {None}]
  /\ spent \in [Invite -> Nat]

Owned(x) == \E p \in Person : Owns(p, x) /\ Enabled(p)

\* A project that has an owner who can sign in keeps one, whoever is demoted,
\* removed, disabled or invited to less, by whom and in what order (account.go:
\* "a change that would leave a project with nobody able to administer it").
OwnedStaysOwned == [][\A x \in Project : Owned(x) => Owned(x)']_vars

\* An invitation admits once, however many browsers open it ("an invitation
\* cannot be half-used by two requests arriving together").
InvitationSpentOnce == \A i \in Invite : spent[i] <= 1

\* Whoever is signed in can sign in again: the account holds a passkey
\* (ErrLastPasskey: "deleting the only one left is that risk arriving by the
\* front door").
SignedInHasPasskey == \A s \in Cookie : session[s] # None => KeysOf(session[s]) # {}

\* A passkey lands on the account its ceremony was begun for, whatever request
\* a browser finishes it with ("A ceremony begun for somebody else cannot be
\* finished as this account").
PasskeyWhereBegun == \A k \in Key : key[k] # None => key[k].of = key[k].begun

=============================================================================
