------------------------------ MODULE Accounts ------------------------------
(***************************************************************************)
(* Users, sessions and sign-in (api: routes/auth.ts, routes/users.ts,      *)
(* passwordReset.ts, bootstrapAdmin.ts, auth/).  A request loads its       *)
(* session once, reads, awaits (Keycloak, bcrypt) and then writes, by the  *)
(* id it read; another request, on this or another replica, may act in     *)
(* between.  Who a session belongs to and with which role was fixed when   *)
(* it was made.                                                            *)
(*                                                                         *)
(* A handler is its steps that write; its load and its first read, which   *)
(* nothing separates but reads, are one step.  A request that is refused   *)
(* changes nothing and is left out, as are rate limits, audit events and   *)
(* names.  A link may have expired at any time: its use is then refused.   *)
(***************************************************************************)
EXTENDS Naturals, FiniteSets

CONSTANTS
    Ids,            \* ids a user row may get; a deleted one is not reused
    Email,          \* id -> the unique email of its row
    Boot,           \* BOOTSTRAP_ADMIN_EMAIL
    LocalAuth,      \* LOCAL_AUTH_ENABLED
    Sids,           \* session ids; one is never given twice
    Requests,       \* bound: requests in flight
    MaxRequests,    \* bound: requests in all
    MaxLinks,       \* bound: set-password links issued
    NoOne

Emails == {Email[u] : u \in Ids}

ASSUME AccountsAssumption ==
    /\ Boot \in Emails /\ LocalAuth \in BOOLEAN
    /\ MaxRequests \in Nat /\ MaxLinks \in Nat
    /\ NoOne \notin Ids \cup Sids

VARIABLES
    users,      \* id -> its row
    sess,       \* sid -> the session in Redis
    req,        \* request -> what its handler holds
    served,     \* requests begun
    issued,     \* links issued so far: the newest is the greatest
    void        \* history: links used, or pending when any password was set

accountVars == <<users, sess, req, served, issued, void>>

Roles == {"ADMIN", "VIEW"}     \* EDITOR is as VIEW here
Links == 0..MaxLinks     \* 0: no link is pending

Row == [state : {"unused", "live", "deleted"}, source : {"LOCAL", "OIDC"},
        role : Roles, active : BOOLEAN, pw : {"none", "env", "set"}, link : Links]
Unused == [state |-> "unused", source |-> "LOCAL", role |-> "VIEW",
           active |-> FALSE, pw |-> "none", link |-> 0]

\* pending: an OIDC sign-in was begun in it.
Session == [state : {"unused", "live", "gone"}, user : Ids \cup {NoOne},
            role : Roles, pending : BOOLEAN]
Anonymous == [state |-> "live", user |-> NoOne, role |-> "VIEW", pending |-> FALSE]

Steps == {"idle", "login", "callback", "signIn", "issue", "reset",
          "patch", "create", "delete", "setPassword"}
\* sid and kept: its session and what it loaded of it; actor: whose it is; id:
\* the row it is about; role, active: what it is to write, "same" for as it is.
Request == [op : Steps, sid : Sids \cup {NoOne}, kept : Session,
            actor : Ids \cup {NoOne}, id : Ids \cup {NoOne},
            role : Roles \cup {"same"}, active : {"same", "on", "off"}, link : Links]
Idle == [op |-> "idle", sid |-> NoOne, kept |-> Anonymous, actor |-> NoOne,
         id |-> NoOne, role |-> "same", active |-> "same", link |-> 0]

AccountTypeOK ==
    /\ users \in [Ids -> Row]
    /\ sess \in [Sids -> Session]
    /\ req \in [Requests -> Request]
    /\ served \in 0..MaxRequests
    /\ issued \in Links
    /\ void \subseteq Links \ {0}

Live(u) == users[u].state = "live"
Admins == {u \in Ids : Live(u) /\ users[u].role = "ADMIN" /\ users[u].active}
Holders(e) == {u \in Ids : Live(u) /\ Email[u] = e}
FreeIds(e) == {u \in Ids : users[u].state = "unused" /\ Email[u] = e}

\* A deployment in use: the built-in admin was synced or not, and the other user, if
\* there is one, came by SSO or was created here; a link sent to him may be pending.
AccountInit ==
    /\ \E boot \in {"unused", "live"}, a \in Roles, src \in {"LOCAL", "OIDC"},
          other \in Ids, link \in Links :
       /\ issued = link
       /\ link # 0 => src = "LOCAL" /\ Email[other] # Boot
       /\ users = [u \in Ids |->
              IF u = other /\ Email[u] # Boot
              THEN [Unused EXCEPT !.state = "live", !.source = src, !.role = a, !.active = TRUE,
                                  !.pw = IF src = "LOCAL" THEN "set" ELSE "none", !.link = link]
              ELSE IF Email[u] = Boot /\ boot = "live"
              THEN [Unused EXCEPT !.state = "live", !.role = "ADMIN", !.active = TRUE, !.pw = "env"]
              ELSE Unused]
    /\ \E whose \in [Sids -> Ids \cup {NoOne}] :
          /\ \A s \in Sids : whose[s] # NoOne => Live(whose[s])
          /\ \A s, t \in Sids : whose[s] = whose[t] /\ s # t => whose[s] = NoOne
          /\ sess = [s \in Sids |->
                IF whose[s] = NoOne THEN [Anonymous EXCEPT !.state = "unused"]
                ELSE [Anonymous EXCEPT !.user = whose[s], !.role = users[whose[s]].role]]
    /\ req = [q \in Requests |-> Idle]
    /\ served = 0 /\ void = {}

-----------------------------------------------------------------------------
(* Requests.                                                               *)

\* A request comes with a session of its own or, with no cookie of a live one,
\* gets one with a new sid.
Cookie(s) == s = NoOne \/ (s \in Sids /\ sess[s].state = "live")
FreeSids == {s \in Sids : sess[s].state = "unused"}

Begin(q, r) ==
    /\ req[q] = Idle /\ served < MaxRequests
    /\ req' = [req EXCEPT ![q] = r]
    /\ served' = served + 1

At(q, op) == req[q].op = op
Finish(q) == req' = [req EXCEPT ![q] = Idle]

\* requireAuth, requireAdmin: the role is the session's.
AdminSession(s) ==
    s \in Sids /\ sess[s].state = "live" /\ sess[s].user # NoOne /\ sess[s].role = "ADMIN"

ByAdmin(s, op, u) == [Idle EXCEPT !.op = op, !.actor = sess[s].user, !.id = u]

-----------------------------------------------------------------------------
(* Sign-in and sign-out.                                                   *)

\* GET /login loads the session of its cookie, or makes one, and awaits the
\* discovery of the realm.
BeginLogin(q, s) ==
    /\ Cookie(s)
    /\ Begin(q, [Idle EXCEPT !.op = "login", !.sid = s,
                    !.kept = IF s = NoOne THEN Anonymous ELSE sess[s]])
    /\ UNCHANGED <<users, sess, issued, void>>

\* The session is saved whole when the response ends; not when discovery fails.
SaveLogin(q) ==
    /\ At(q, "login")
    /\ Finish(q)
    /\ \/ \E s \in IF req[q].sid = NoOne THEN FreeSids ELSE {req[q].sid} :
             sess' = [sess EXCEPT ![s] = [req[q].kept EXCEPT !.pending = TRUE]]
       \/ UNCHANGED sess
    /\ UNCHANGED <<users, served, issued, void>>

\* GET /callback in a session with a pending sign-in; Keycloak is asked next.
BeginCallback(q, s) ==
    /\ sess[s].state = "live" /\ sess[s].pending
    /\ Begin(q, [Idle EXCEPT !.op = "callback", !.sid = s])
    /\ UNCHANGED <<users, sess, issued, void>>

\* The claims without the fallback.
ClaimedRole(c) == c

\* mapKeycloakRole: the highest role of the claims, VIEW if they have none.
MappedRole(c) == IF c \in Roles THEN c ELSE "VIEW"

\* The upsert by email writes that role over the role of the row.
UpsertSso(q, e, c) ==
    /\ At(q, "callback")
    /\ \E u \in IF Holders(e) = {} THEN FreeIds(e) ELSE Holders(e) :
          /\ users' = [users EXCEPT ![u] =
                IF Live(u) THEN [@ EXCEPT !.role = MappedRole(c)]
                ELSE [Unused EXCEPT !.state = "live", !.source = "OIDC",
                                    !.role = MappedRole(c), !.active = TRUE]]
          /\ req' = [req EXCEPT ![q] = [@ EXCEPT !.op = "signIn", !.id = u, !.role = MappedRole(c)]]
    /\ UNCHANGED <<sess, served, issued, void>>

\* POST /local-login reads the row, refuses what is no local account, no active
\* one or has no password, and compares the password it read.
MayLogIn(u) ==
    /\ LocalAuth \/ Email[u] = Boot
    /\ Live(u) /\ users[u].source = "LOCAL" /\ users[u].active /\ users[u].pw # "none"

LocalLogin(q, s, u) ==
    /\ MayLogIn(u) /\ Cookie(s)
    /\ Begin(q, [Idle EXCEPT !.op = "signIn", !.sid = s, !.id = u, !.role = users[u].role])
    /\ UNCHANGED <<users, sess, issued, void>>

NewSession(q) == [Anonymous EXCEPT !.user = req[q].id, !.role = req[q].role]

\* A sign-in that saves the session it came with.
SignInHere(q) ==
    /\ At(q, "signIn")
    /\ Finish(q)
    /\ \E s \in IF req[q].sid = NoOne THEN FreeSids ELSE {req[q].sid} :
          sess' = [sess EXCEPT ![s] = NewSession(q)]
    /\ UNCHANGED <<users, served, issued, void>>

\* regenerateSession destroys the session it came with and makes another, which
\* is saved when the response ends.
SignIn(q) ==
    /\ At(q, "signIn")
    /\ Finish(q)
    /\ \E new \in FreeSids :
          sess' = [s \in Sids |-> IF s = new THEN NewSession(q)
                                  ELSE IF s = req[q].sid THEN [sess[s] EXCEPT !.state = "gone"]
                                  ELSE sess[s]]
    /\ UNCHANGED <<users, served, issued, void>>

Logout(s) ==
    /\ sess[s].state = "live"
    /\ sess' = [sess EXCEPT ![s].state = "gone"]
    /\ UNCHANGED <<users, req, served, issued, void>>

-----------------------------------------------------------------------------
(* Passwords.                                                              *)

\* POST /local/forgot-password, by anyone.
ForgotPassword(q, u) ==
    /\ LocalAuth /\ Live(u) /\ users[u].source = "LOCAL" /\ users[u].active
    /\ Begin(q, [Idle EXCEPT !.op = "issue", !.id = u])
    /\ UNCHANGED <<users, sess, issued, void>>

\* POST /users/:id/send-password-reset.
SendPasswordReset(q, s, u) ==
    /\ AdminSession(s) /\ Live(u) /\ users[u].source = "LOCAL"
    /\ Begin(q, ByAdmin(s, "issue", u))
    /\ UNCHANGED <<users, sess, issued, void>>

\* issuePasswordResetEmail: the row's link is replaced, then mailed or not.
Issue(q) ==
    /\ At(q, "issue")
    /\ Finish(q)
    /\ \/ /\ Live(req[q].id) /\ issued < MaxLinks
          /\ issued' = issued + 1
          /\ users' = [users EXCEPT ![req[q].id].link = issued + 1]
       \/ ~Live(req[q].id) /\ UNCHANGED <<users, issued>>
    /\ UNCHANGED <<sess, served, void>>

\* POST /local/reset-password finds the row by the link, then hashes.
FindLink(q, u) ==
    /\ LocalAuth /\ Live(u) /\ users[u].link # 0
    /\ Begin(q, [Idle EXCEPT !.op = "reset", !.id = u, !.link = users[u].link])
    /\ UNCHANGED <<users, sess, issued, void>>

\* POST /users/:id/set-password reads the row, then hashes.
BeginSetPassword(q, s, u) ==
    /\ AdminSession(s) /\ Live(u) /\ users[u].source = "LOCAL"
    /\ Begin(q, ByAdmin(s, "setPassword", u))
    /\ UNCHANGED <<users, sess, issued, void>>

\* A password that leaves the link usable.
WritePasswordOnly(q) ==
    LET u == req[q].id IN
    /\ At(q, "reset") \/ At(q, "setPassword")
    /\ Finish(q)
    /\ IF Live(u)
       THEN /\ users' = [users EXCEPT ![u].pw = "set"]
            /\ void' = (void \cup {req[q].link, users[u].link}) \ {0}
       ELSE UNCHANGED <<users, void>>
    /\ UNCHANGED <<sess, served, issued>>

\* Both write by id and clear the pending link, whichever it now is.
WritePassword(q) ==
    LET u == req[q].id IN
    /\ At(q, "reset") \/ At(q, "setPassword")
    /\ Finish(q)
    /\ IF Live(u)
       THEN /\ users' = [users EXCEPT ![u].pw = "set", ![u].link = 0]
            /\ void' = (void \cup {req[q].link, users[u].link}) \ {0}
       ELSE UNCHANGED <<users, void>>
    /\ UNCHANGED <<sess, served, issued>>

-----------------------------------------------------------------------------
(* Administration.                                                         *)

\* Only a change of role is refused on one's own account.
MayPatchByRole(s, u, r, a) == u = sess[s].user => r \in {"ADMIN", "same"}

\* PATCH /users/:id: not to demote, not to deactivate one's own account.
MayPatch(s, u, r, a) == u = sess[s].user => r \in {"ADMIN", "same"} /\ a # "off"

BeginPatch(q, s, u, r, a) ==
    /\ AdminSession(s) /\ Live(u) /\ MayPatch(s, u, r, a)
    /\ Begin(q, [ByAdmin(s, "patch", u) EXCEPT !.role = r, !.active = a])
    /\ UNCHANGED <<users, sess, issued, void>>

Patch(q) ==
    LET p == req[q] IN
    /\ At(q, "patch")
    /\ Finish(q)
    /\ users' = IF Live(p.id)
                THEN [users EXCEPT ![p.id].role = IF p.role = "same" THEN @ ELSE p.role,
                                   ![p.id].active = IF p.active = "same" THEN @ ELSE p.active = "on"]
                ELSE users
    /\ UNCHANGED <<sess, served, issued, void>>

\* POST /users finds no row with the email; the unique index decides.
BeginCreate(q, s, u, r) ==
    /\ LocalAuth /\ AdminSession(s)
    /\ u \in FreeIds(Email[u]) /\ Holders(Email[u]) = {}
    /\ Begin(q, [ByAdmin(s, "create", u) EXCEPT !.role = r])
    /\ UNCHANGED <<users, sess, issued, void>>

\* The new account has no password: a link is issued to it in the same request.
Create(q) ==
    LET u == req[q].id IN
    /\ At(q, "create")
    /\ IF Holders(Email[u]) = {} /\ users[u].state = "unused"
       THEN /\ users' = [users EXCEPT ![u] =
                  [Unused EXCEPT !.state = "live", !.role = req[q].role, !.active = TRUE]]
            /\ req' = [req EXCEPT ![q].op = "issue"]
       ELSE Finish(q) /\ UNCHANGED users
    /\ UNCHANGED <<sess, served, issued, void>>

\* DELETE /users/:id, not of one's own account, counts what the row's owner
\* made, which the deletion itself counts again (Restrict).
BeginDelete(q, s, u) ==
    /\ AdminSession(s) /\ Live(u) /\ u # sess[s].user
    /\ Begin(q, ByAdmin(s, "delete", u))
    /\ UNCHANGED <<users, sess, issued, void>>

Delete(q) ==
    /\ At(q, "delete")
    /\ Finish(q)
    /\ \/ Live(req[q].id) /\ users' = [users EXCEPT ![req[q].id] = [Unused EXCEPT !.state = "deleted"]]
       \/ UNCHANGED users
    /\ UNCHANGED <<sess, served, issued, void>>

\* syncBootstrapAdmin, when an API process starts with BOOTSTRAP_ADMIN_PASSWORD: a
\* link that is pending stays.
SyncBootstrapAdmin ==
    /\ \E u \in IF Holders(Boot) = {} THEN FreeIds(Boot) ELSE Holders(Boot) :
          /\ users' = [users EXCEPT ![u] = [IF Live(u) THEN @ ELSE Unused EXCEPT
                !.state = "live", !.role = "ADMIN", !.active = TRUE, !.pw = "env"]]
          /\ void' = (void \cup {users[u].link}) \ {0}
    /\ UNCHANGED <<sess, req, served, issued>>

\* A process ends with a request in it.
Abort(q) ==
    /\ req[q] # Idle
    /\ Finish(q)
    /\ UNCHANGED <<users, sess, served, issued, void>>

-----------------------------------------------------------------------------
Arrive(q) ==
    \/ \E s \in Sids \cup {NoOne} : BeginLogin(q, s) \/ \E u \in Ids : LocalLogin(q, s, u)
    \/ \E s \in Sids : BeginCallback(q, s)
    \/ \E u \in Ids : ForgotPassword(q, u) \/ FindLink(q, u)
    \/ \E s \in Sids, u \in Ids :
          \/ SendPasswordReset(q, s, u) \/ BeginSetPassword(q, s, u) \/ BeginDelete(q, s, u)
          \/ \E r \in Roles : BeginCreate(q, s, u, r)
          \/ \E r \in Roles \cup {"same"}, a \in {"same", "on", "off"} : BeginPatch(q, s, u, r, a)

Resume(q) ==
    \/ SaveLogin(q) \/ SignIn(q) \/ Issue(q) \/ WritePassword(q)
    \/ Patch(q) \/ Create(q) \/ Delete(q) \/ Abort(q)
    \/ \E e \in Emails, c \in Roles \cup {"none"} : UpsertSso(q, e, c)

AccountNext ==
    \/ \E q \in Requests : Arrive(q) \/ Resume(q)
    \/ \E s \in Sids : Logout(s)
    \/ SyncBootstrapAdmin

AccountSpec == AccountInit /\ [][AccountNext]_accountVars

-----------------------------------------------------------------------------
(* Properties.                                                             *)

\* The last active admin goes only by the hand of somebody who was no longer one
\* himself (his session outlives his role), or by the role an SSO sign-in brings:
\* the three self-checks of users.ts and the writes they precede add up to that.
AdminRemains ==
    [][Admins # {} /\ Admins' = {} =>
         \E q \in Requests :
            \/ At(q, "callback")
            \/ req'[q] = Idle /\ req[q].actor \notin Admins \cup {NoOne}]_accountVars

\* A link through which a password was set, or that was pending when one was set, can
\* be found by no later reset (users.ts:251: "so a stale emailed link can't still be used
\* afterward"), whatever was issued or hashed meanwhile.  Only the startup's password
\* leaves a pending link as it was: a row with a void link has that one.  A reset that
\* had found its link before is not stopped: it writes over the later password.
VoidLinkStays == \A u \in Ids : users[u].link \in void => users[u].pw = "env"

\* A session that ended is in Redis again only by the save of a GET /login that
\* had loaded it before; sign-in always makes a new one (auth/session.ts).
LoggedOutStaysOut ==
    [][\A s \in Sids :
         sess[s].state = "gone" /\ sess'[s].state = "live" =>
           \E q \in Requests : At(q, "login") /\ req[q].sid = s]_accountVars

\* bootstrapAdmin.ts:9-12: starting with BOOTSTRAP_ADMIN_PASSWORD "is how an
\* operator recovers access without touching the database".
SyncRestoresAccess ==
    [][SyncBootstrapAdmin => (\E u \in Ids : Email[u] = Boot /\ MayLogIn(u))']_accountVars
=============================================================================
