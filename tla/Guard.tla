------------------------------- MODULE Guard -------------------------------
(***************************************************************************)
(* The guard in front of every page (internal/web/guard.go) and the tokens *)
(* agents carry (internal/account/token.go).  A request is asked who it is *)
(* from in several reads of the store, while tokens are revoked and expire *)
(* and people's roles change, and one that stays open is asked again.      *)
(* What people's roles are is Accounts'; here they are what changes.       *)
(***************************************************************************)
EXTENDS Naturals

CONSTANTS
  Token,      \* agents' tokens
  Conn,       \* connections a request comes in on
  Absent,     \* no value
  MaxTime     \* bound: the clock

ASSUME GuardAssumption == MaxTime \in Nat /\ Absent \notin Token

VARIABLES
  issued,    \* agent_token: token -> its row, or Absent
  time,      \* the clock
  signed,    \* the browser's session is one of an account
  role,      \* that account's role on this project, or "none"
  request,   \* connection -> the request on it, or Absent
  had        \* history: connection -> what its caller had since it came

guardVars == <<issued, time, signed, role, request, had>>

Roles == {"owner", "reader"}

\* A class of paths each; "page" is every other.
Paths == {"public", "account", "mcp", "sessions", "compose", "intake", "page"}

\* "read" is GET and HEAD; "change" is every method but those and POST.
Methods == {"read", "post", "change"}

Request ==
  [path : Paths, method : Methods, bearer : Token \cup {Absent},
   at : {"came", "person", "role", "tool", "served", "refused"}]

GuardInit ==
  /\ issued = [k \in Token |-> Absent]
  /\ time = 0
  /\ signed = FALSE /\ role = "none"
  /\ request = [c \in Conn |-> Absent]
  /\ had = [c \in Conn |-> {}]

----------------------------------------------------------------------------
(* Tokens.                                                                  *)

\* LiveAt; one that expires at 0 never does.
Live(k) ==
  /\ issued[k] # Absent
  /\ ~issued[k].revoked
  /\ issued[k].expires = 0 \/ time < issued[k].expires

\* ByToken: revoked, expired and unknown are one answer.
ByToken(k) == k # Absent /\ Live(k)

\* What a caller has at this moment: the tool by its token, and a session and
\* the role of its account, which the guard reads one after the other.
Entitled(k) ==
  (IF ByToken(k) /\ issued[k].here THEN {"tool"} ELSE {})
    \cup (IF signed THEN {"signed"} ELSE {}) \cup {role}

Entitlements == [k \in Token \cup {Absent} |-> Entitled(k)]

\* Whatever changes, a request under way has had what its caller has now.
Remembered ==
  had' = [c \in Conn |-> IF request'[c] = Absent THEN {} ELSE had[c] \cup Entitlements'[request'[c].bearer]]

Issue(k, expires, here) ==
  /\ issued[k] = Absent
  /\ expires = 0 \/ expires > time
  /\ issued' = [issued EXCEPT ![k] = [revoked |-> FALSE, expires |-> expires, here |-> here]]
  /\ UNCHANGED <<time, signed, role, request>>
  /\ Remembered

Revoke(k) ==
  /\ issued[k] # Absent /\ ~issued[k].revoked
  /\ issued' = [issued EXCEPT ![k].revoked = TRUE]
  /\ UNCHANGED <<time, signed, role, request>>
  /\ Remembered

TimePasses ==
  /\ time < MaxTime
  /\ time' = time + 1
  /\ UNCHANGED <<issued, signed, role, request>>
  /\ Remembered

\* Signing in and out, granting and ungranting (Accounts).
PeopleChange ==
  /\ signed' \in BOOLEAN
  /\ role' \in Roles \cup {"none"}
  /\ UNCHANGED <<issued, time, request>>
  /\ Remembered

----------------------------------------------------------------------------
(* The guard.                                                               *)

\* Mutant: a live session is read by a GET like any page.
WritesByMethod(r) == r.path # "account" /\ r.method # "read"

\* Reading a session is no read: its page carries keystrokes back.
WritesOrTypes(r) == r.path # "account" /\ (r.method # "read" \/ r.path \in {"sessions", "compose"})

\* A reader's jot is held, not filed: the exact method and path.
Holds(r) == r.method = "post" /\ r.path = "intake"

Arrive(c, path, method, bearer) ==
  /\ request[c] = Absent
  /\ request' = [request EXCEPT ![c] = [path |-> path, method |-> method, bearer |-> bearer, at |-> "came"]]
  /\ UNCHANGED <<issued, time, signed, role>>
  /\ Remembered

GoesTo(c, at) ==
  /\ request' = [request EXCEPT ![c].at = at]
  /\ UNCHANGED <<issued, time, signed, role>>
  /\ Remembered

At(c, at) == request[c] # Absent /\ request[c].at = at

\* The tool call is asked for a token first; one that is not usable, and every
\* other page, is asked for a person.  UsedToken is left out: nothing reads it
\* but a listing.
Wrap(c) ==
  /\ At(c, "came")
  /\ GoesTo(c, IF request[c].path = "public" THEN "served"
               ELSE IF request[c].path # "mcp" \/ ~ByToken(request[c].bearer) THEN "person"
               ELSE IF issued[request[c].bearer].here THEN "tool"
               ELSE "refused")

\* Whoever: the session, in a read of its own.
AskPerson(c) ==
  /\ At(c, "person")
  /\ GoesTo(c, IF signed THEN "role" ELSE "refused")

\* RoleFor, and what the role stops.
AskRole(c) ==
  /\ At(c, "role")
  /\ GoesTo(c, IF role \in Roles /\ (WritesOrTypes(request[c]) => role = "owner" \/ Holds(request[c]))
                 THEN "served" ELSE "refused")

\* Mutant: only what was revoked is asked about again.
Unrevoked(k) == issued[k] # Absent /\ ~issued[k].revoked

\* The recheck asks what was asked at first.
StillUsable(k) == ByToken(k)

\* watch: every two seconds, for as long as the request lasts.
Recheck(c) ==
  /\ At(c, "tool")
  /\ ~StillUsable(request[c].bearer)
  /\ request' = [request EXCEPT ![c] = Absent]
  /\ UNCHANGED <<issued, time, signed, role>>
  /\ Remembered

\* A request ends of itself; a stream need not.
Finish(c) ==
  /\ At(c, "tool") \/ At(c, "served") \/ At(c, "refused")
  /\ request' = [request EXCEPT ![c] = Absent]
  /\ UNCHANGED <<issued, time, signed, role>>
  /\ Remembered

GuardNext ==
  \/ \E k \in Token : Revoke(k) \/ \E expires \in 0..MaxTime, here \in BOOLEAN : Issue(k, expires, here)
  \/ TimePasses
  \/ PeopleChange
  \/ \E c \in Conn :
       \/ \E path \in Paths, method \in Methods, bearer \in Token \cup {Absent} :
            Arrive(c, path, method, bearer)
       \/ Wrap(c) \/ AskPerson(c) \/ AskRole(c) \/ Recheck(c) \/ Finish(c)

----------------------------------------------------------------------------
(* Properties.                                                              *)

GuardTypeOK ==
  /\ issued \in [Token -> [revoked : BOOLEAN, expires : 0..MaxTime, here : BOOLEAN] \cup {Absent}]
  /\ time \in 0..MaxTime /\ signed \in BOOLEAN /\ role \in Roles \cup {"none"}
  /\ request \in [Conn -> Request \cup {Absent}]
  /\ had \in [Conn -> SUBSET (Roles \cup {"none", "signed", "tool"})]

\* What a reader may do: look at a page that types into nothing, see to the own
\* account, and post to the box that holds.
OfAReader(r) ==
  /\ r.path \notin {"sessions", "compose"}
  /\ \/ r.method = "read" \/ r.path = "account"
     \/ r.method = "post" /\ r.path = "intake"

\* Nothing is let in for a right its caller had at no moment of the request,
\* whatever changed between the guard's reads: a token opens the tool call
\* of its project and nothing else, an account without a role no page, and a
\* reader nothing that writes or types into an agent, but the box that holds.
LetInByRight ==
  \A c \in Conn :
    /\ At(c, "tool") => request[c].path = "mcp" /\ "tool" \in had[c]
    /\ At(c, "served") =>
         \/ request[c].path = "public"
         \/ /\ "signed" \in had[c]
            /\ \/ "owner" \in had[c]
               \/ "reader" \in had[c] /\ OfAReader(request[c])

\* A stream does not outlive its token, revoked or expired, by more than the
\* recheck ("one request had no end").
StreamEndsWithToken ==
  \A c \in Conn : (At(c, "tool") /\ ~ByToken(request[c].bearer)) ~> ~At(c, "tool")
=============================================================================
