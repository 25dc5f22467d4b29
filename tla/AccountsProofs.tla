--------------------------- MODULE AccountsProofs ---------------------------
(***************************************************************************)
(* Accounts and keys for any users, links, sessions, keys, jobs and        *)
(* requests in progress.                                                   *)
(***************************************************************************)
EXTENDS ApiKeys, Accounts, TLAPS

-----------------------------------------------------------------------------
(***************************************************************************)
(* Keys: JobsKeepTheirKeys. What a handler found when it began is worth    *)
(* nothing by its write; each write is safe by what the foreign keys look  *)
(* at: the owner of a key that is added, the key and the creator of a job  *)
(* that is written, the keys and the jobs of an owner that goes.           *)
(***************************************************************************)

\* A key that is there has its owner there too.
OwnersStay == \A k \in KeyIds : KeyExists(k) => keys[k].owner \in entities
KeyInv == KeyTypeOK /\ OwnersStay /\ JobsKeepTheirKeys

-----------------------------------------------------------------------------
LEMMA NoAskIsAsk == NoAsk \in Ask /\ NoAsk.op = "idle"
BY DEF NoAsk, Ask

LEMMA KeyStart == KeyInit => KeyInv
<1> SUFFICES ASSUME KeyInit PROVE KeyInv
  OBVIOUS
<1>1. KeyTypeOK
  BY NoAskIsAsk, KeyAssumption DEF KeyInit, KeyTypeOK, KeyRow, JobRow, KeyOwners
<1>2. OwnersStay /\ JobsKeepTheirKeys
  BY DEF KeyInit, OwnersStay, JobsKeepTheirKeys, KeyExists
<1> QED
  BY <1>1, <1>2 DEF KeyInv

\* The requests as a step leaves them.
AsksTyped == asks' \in [KeyRequests -> Ask] /\ asked' \in 0..MaxKeyCalls

LEMMA Closing == ASSUME KeyInv, NEW r \in KeyRequests, Closed(r), UNCHANGED asked PROVE AsksTyped
BY NoAskIsAsk DEF Closed, KeyInv, KeyTypeOK, AsksTyped

\* A handler that only reads and begins.
LEMMA Posing ==
    ASSUME KeyInv, NEW r \in KeyRequests, NEW a \in Ask, Pose(r, a), UNCHANGED <<keys, entities, crew, jobKeys>>
    PROVE  KeyInv'
<1>1. AsksTyped
  BY KeyAssumption DEF Pose, KeyInv, KeyTypeOK, AsksTyped
<1> QED
  BY <1>1 DEF KeyInv, KeyTypeOK, AsksTyped, OwnersStay, JobsKeepTheirKeys, KeyExists

\* A write that takes no key and no owner away and leaves the jobs alone.
LEMMA KeysGrow ==
    ASSUME KeyInv, AsksTyped, keys' \in [KeyIds -> KeyRow], UNCHANGED <<entities, crew, jobKeys>>,
           \A k \in KeyIds : KeyExists(k) => KeyExists(k)' /\ keys'[k].owner = keys[k].owner,
           \A k \in KeyIds : KeyExists(k)' => keys'[k].owner \in entities
    PROVE  KeyInv'
<1>1. KeyTypeOK' /\ OwnersStay'
  BY DEF KeyInv, KeyTypeOK, AsksTyped, OwnersStay
<1>2. ASSUME NEW j \in KeyJobs, jobKeys[j].state = "live"
      PROVE  KeyExists(jobKeys[j].key)' /\ keys'[jobKeys[j].key].owner \in entities /\ jobKeys[j].by \in entities
  <2>1. KeyExists(jobKeys[j].key) /\ jobKeys[j].by \in entities
    BY <1>2 DEF KeyInv, JobsKeepTheirKeys
  <2>2. jobKeys[j].key \in KeyIds
    BY <2>1 DEF KeyExists
  <2>3. KeyExists(jobKeys[j].key)'
    BY <2>1, <2>2 DEF KeyExists
  <2> QED
    BY <2>1, <2>2, <2>3
<1>3. JobsKeepTheirKeys'
  BY <1>2 DEF JobsKeepTheirKeys, KeyExists
<1> QED
  BY <1>1, <1>3 DEF KeyInv

\* A write of jobs, each with its key and its creator there.
LEMMA JobsWritten ==
    ASSUME KeyInv, AsksTyped, UNCHANGED <<keys, entities>>, jobKeys' \in [KeyJobs -> JobRow],
           crew' \subseteq KeyUsers \cap entities,
           \A j \in KeyJobs : jobKeys'[j].state = "live" =>
                KeyExists(jobKeys'[j].key) /\ jobKeys'[j].by \in entities
    PROVE  KeyInv'
<1>1. KeyTypeOK' /\ OwnersStay'
  BY DEF KeyInv, KeyTypeOK, AsksTyped, OwnersStay, KeyExists
<1>2. JobsKeepTheirKeys'
  BY DEF KeyInv, OwnersStay, JobsKeepTheirKeys, KeyExists
<1> QED
  BY <1>1, <1>2 DEF KeyInv

-----------------------------------------------------------------------------
LEMMA BeginsKeep ==
    ASSUME KeyInv, NEW r \in KeyRequests, NEW u \in KeyUsers \cup {Overseer},
           \/ \E e \in KeyOwners : BeginAddKey(r, u, e)
           \/ \E k \in KeyIds : BeginRevoke(r, u, k) \/ \E j \in KeyJobs : BeginJobKey(r, u, j, k)
           \/ BeginDropUser(r, u) \/ BeginDropTeam(r, u)
    PROVE  KeyInv'
<1>1. ASSUME NEW e \in KeyOwners, BeginAddKey(r, u, e) PROVE KeyInv'
  <2>1. [NoAsk EXCEPT !.op = "addKey", !.user = u, !.what = e] \in Ask
    BY DEF NoAsk, Ask
  <2> QED
    BY <1>1, <2>1, Posing DEF BeginAddKey
<1>2. ASSUME NEW k \in KeyIds, BeginRevoke(r, u, k) PROVE KeyInv'
  <2>1. [NoAsk EXCEPT !.op = "revoke", !.user = u, !.what = k] \in Ask
    BY DEF NoAsk, Ask
  <2> QED
    BY <1>2, <2>1, Posing DEF BeginRevoke
<1>3. ASSUME NEW k \in KeyIds, NEW j \in KeyJobs, BeginJobKey(r, u, j, k) PROVE KeyInv'
  <2> DEFINE a == [op |-> IF jobKeys[j].state = "live" THEN "switchKey" ELSE "addJob",
                   user |-> u, what |-> k, under |-> j]
  <2>1. a \in Ask
    BY DEF Ask
  <2>2. Pose(r, a) /\ UNCHANGED <<keys, entities, crew, jobKeys>>
    BY <1>3 DEF BeginJobKey
  <2> HIDE DEF a
  <2> QED
    BY <2>1, <2>2, Posing
<1>4. ASSUME BeginDropUser(r, u) PROVE KeyInv'
  <2>1. [NoAsk EXCEPT !.op = "dropUser", !.user = Overseer, !.what = u] \in Ask
    BY DEF NoAsk, Ask, KeyOwners
  <2> QED
    BY <1>4, <2>1, Posing DEF BeginDropUser
<1>5. ASSUME BeginDropTeam(r, u) PROVE KeyInv'
  <2>1. [NoAsk EXCEPT !.op = "dropTeam", !.user = u, !.what = ApiTeam] \in Ask
    BY DEF NoAsk, Ask, KeyOwners
  <2> QED
    BY <1>5, <2>1, Posing DEF BeginDropTeam
<1> QED
  BY <1>1, <1>2, <1>3, <1>4, <1>5

LEMMA AddKeyKeeps == ASSUME KeyInv, NEW r \in KeyRequests, NEW k \in KeyIds, AddKey(r, k) PROVE KeyInv'
<1>1. AsksTyped
  BY Closing DEF AddKey
<1>2. CASE asks[r].what \in entities
  <2>1. keys' = [keys EXCEPT ![k] = [owner |-> asks[r].what, status |-> "ACTIVE"]]
    BY <1>2 DEF AddKey
  <2>2. asks[r].what \in KeyOwners
    BY <1>2 DEF KeyInv, KeyTypeOK
  <2>3. keys' \in [KeyIds -> KeyRow]
    BY <2>1, <2>2 DEF KeyInv, KeyTypeOK, KeyRow
  <2>4. \A i \in KeyIds : KeyExists(i) => KeyExists(i)' /\ keys'[i].owner = keys[i].owner
    BY <2>1 DEF AddKey, KeyInv, KeyTypeOK, KeyExists
  <2>5. \A i \in KeyIds : KeyExists(i)' => keys'[i].owner \in entities
    BY <1>2, <2>1 DEF KeyInv, KeyTypeOK, KeyExists, OwnersStay
  <2> QED
    BY <1>1, <2>3, <2>4, <2>5, KeysGrow DEF AddKey
<1>3. CASE asks[r].what \notin entities
  <2>1. UNCHANGED keys
    BY <1>3 DEF AddKey
  <2> QED
    BY <1>1, <2>1, KeysGrow DEF AddKey, KeyInv, KeyTypeOK, KeyExists, OwnersStay
<1> QED
  BY <1>2, <1>3

LEMMA RevokeKeeps == ASSUME KeyInv, NEW r \in KeyRequests, Revoke(r) PROVE KeyInv'
<1>1. AsksTyped
  BY Closing DEF Revoke
<1>2. CASE KeyExists(asks[r].what)
  <2> DEFINE k == asks[r].what
  <2>1. k \in KeyIds /\ keys' = [keys EXCEPT ![k].status = "REVOKED"]
    BY <1>2 DEF Revoke, KeyExists
  <2> HIDE DEF k
  <2>2. keys' \in [KeyIds -> KeyRow]
    BY <2>1 DEF KeyInv, KeyTypeOK, KeyRow
  <2>3. \A i \in KeyIds : keys'[i].owner = keys[i].owner /\ (KeyExists(i) <=> KeyExists(i)')
    BY <1>2, <2>1 DEF KeyInv, KeyTypeOK, KeyRow, KeyExists, k
  <2> QED
    BY <1>1, <2>2, <2>3, KeysGrow DEF Revoke, KeyInv, OwnersStay
<1>3. CASE ~KeyExists(asks[r].what)
  <2>1. UNCHANGED keys
    BY <1>3 DEF Revoke
  <2> QED
    BY <1>1, <2>1, KeysGrow DEF Revoke, KeyInv, KeyTypeOK, KeyExists, OwnersStay
<1> QED
  BY <1>2, <1>3

LEMMA JobKeeps == ASSUME KeyInv, NEW r \in KeyRequests, WriteJobKey(r) PROVE KeyInv'
<1> DEFINE j == asks[r].under
           k == asks[r].what
           u == asks[r].user
<1>1. AsksTyped /\ UNCHANGED <<keys, entities, crew>>
  BY Closing DEF WriteJobKey
<1>2. \/ jobKeys' = jobKeys
      \/ /\ j \in KeyJobs /\ KeyExists(k) /\ u \in entities
         /\ jobKeys' = [jobKeys EXCEPT ![j] = [state |-> "live", key |-> k, by |-> u]]
      \/ /\ j \in KeyJobs /\ jobKeys[j].state = "live" /\ KeyExists(k)
         /\ jobKeys' = [jobKeys EXCEPT ![j].key = k]
  <2>1. jobKeys \in [KeyJobs -> JobRow] /\ asks[r] \in Ask
    BY DEF KeyInv, KeyTypeOK
  <2>2. CASE j \in KeyJobs
    BY <2>2 DEF WriteJobKey
  <2>3. CASE j \notin KeyJobs
    <3>1. [jobKeys EXCEPT ![j] = [state |-> "live", key |-> k, by |-> u]] = jobKeys /\ [jobKeys EXCEPT ![j].key = k] = jobKeys
      BY <2>1, <2>3
    <3> QED
      BY <3>1 DEF WriteJobKey
  <2> QED
    BY <2>2, <2>3
<1>3. crew' \subseteq KeyUsers \cap entities
  BY <1>1 DEF KeyInv, KeyTypeOK
<1>4. CASE jobKeys' = jobKeys
  BY <1>1, <1>3, <1>4, JobsWritten DEF KeyInv, KeyTypeOK, JobsKeepTheirKeys
<1>5. CASE /\ j \in KeyJobs /\ KeyExists(k) /\ u \in entities
           /\ jobKeys' = [jobKeys EXCEPT ![j] = [state |-> "live", key |-> k, by |-> u]]
  <2>1. k \in KeyIds /\ u \in KeyOwners
    BY <1>5 DEF KeyExists, KeyInv, KeyTypeOK
  <2>2. jobKeys' \in [KeyJobs -> JobRow]
    BY <1>5, <2>1 DEF KeyInv, KeyTypeOK, JobRow
  <2>3. \A i \in KeyJobs : jobKeys'[i].state = "live" => KeyExists(jobKeys'[i].key) /\ jobKeys'[i].by \in entities
    BY <1>5 DEF KeyInv, KeyTypeOK, JobsKeepTheirKeys
  <2> QED
    BY <1>1, <1>3, <2>2, <2>3, JobsWritten
<1>6. CASE /\ j \in KeyJobs /\ jobKeys[j].state = "live" /\ KeyExists(k)
           /\ jobKeys' = [jobKeys EXCEPT ![j].key = k]
  <2>1. k \in KeyIds
    BY <1>6 DEF KeyExists
  <2>2. jobKeys' \in [KeyJobs -> JobRow]
    BY <1>6, <2>1 DEF KeyInv, KeyTypeOK, JobRow
  <2>3. \A i \in KeyJobs : jobKeys'[i].state = "live" => KeyExists(jobKeys'[i].key) /\ jobKeys'[i].by \in entities
    BY <1>6 DEF KeyInv, KeyTypeOK, JobRow, JobsKeepTheirKeys
  <2> QED
    BY <1>1, <1>3, <2>2, <2>3, JobsWritten
<1> QED
  BY <1>2, <1>4, <1>5, <1>6

\* No job names the owner, and no key of the owner has a job.
LEMMA CascadeKeeps ==
    ASSUME KeyInv, AsksTyped, UNCHANGED jobKeys, NEW e \in entities, Cascade(e),
           \A k \in KeysOf(e) : UsedBy(k) = {},
           \A j \in KeyJobs : jobKeys[j].state = "live" => jobKeys[j].by # e
    PROVE  KeyInv'
<1>1. keys' \in [KeyIds -> KeyRow]
  BY DEF KeyInv, KeyTypeOK, KeyRow, Cascade
<1>2. KeyTypeOK'
  BY <1>1 DEF KeyInv, KeyTypeOK, AsksTyped, Cascade
<1>3. \A k \in KeyIds : KeyExists(k) /\ keys[k].owner # e => keys'[k] = keys[k]
  BY DEF Cascade, KeysOf
<1>4. \A k \in KeyIds : KeyExists(k)' => KeyExists(k) /\ keys[k].owner # e
  BY DEF Cascade, KeysOf, KeyExists, KeyInv, KeyTypeOK, KeyRow
<1>5. OwnersStay'
  BY <1>3, <1>4 DEF KeyInv, OwnersStay, Cascade
<1>6. ASSUME NEW j \in KeyJobs, jobKeys[j].state = "live"
      PROVE  KeyExists(jobKeys[j].key)' /\ keys'[jobKeys[j].key].owner \in entities' /\ jobKeys[j].by \in entities'
  <2> DEFINE k == jobKeys[j].key
  <2>1. KeyExists(k) /\ keys[k].owner \in entities /\ jobKeys[j].by \in entities /\ jobKeys[j].by # e
    BY <1>6 DEF KeyInv, JobsKeepTheirKeys
  <2>2. k \in KeyIds /\ keys[k].owner # e
    BY <1>6, <2>1 DEF KeyExists, KeysOf, UsedBy
  <2>3. keys'[k] = keys[k]
    BY <1>3, <2>1, <2>2
  <2>4. KeyExists(k)'
    BY <2>1, <2>2, <2>3 DEF KeyExists
  <2>5. keys'[k].owner \in entities' /\ jobKeys[j].by \in entities'
    BY <2>1, <2>2, <2>3 DEF Cascade
  <2> QED
    BY <2>4, <2>5
<1>7. JobsKeepTheirKeys'
  BY <1>6 DEF JobsKeepTheirKeys, KeyExists
<1> QED
  BY <1>2, <1>5, <1>7 DEF KeyInv

LEMMA DropKeeps == ASSUME KeyInv, NEW r \in KeyRequests, DropOwner(r) PROVE KeyInv'
<1> DEFINE e == asks[r].what
           free == /\ e \in entities
                   /\ \A k \in KeysOf(e) : UsedBy(k) = {}
                   /\ \A j \in KeyJobs : jobKeys[j].state = "live" => jobKeys[j].by # e
<1>1. AsksTyped /\ UNCHANGED jobKeys
  BY Closing DEF DropOwner
<1>2. CASE free
  BY <1>1, <1>2, CascadeKeeps DEF DropOwner
<1>3. CASE ~free
  <2>1. UNCHANGED <<keys, entities, crew>>
    BY <1>3 DEF DropOwner
  <2> QED
    BY <1>1, <2>1, KeysGrow DEF KeyInv, KeyTypeOK, KeyExists, OwnersStay
<1> QED
  BY <1>2, <1>3

LEMMA KeyStep == KeyInv /\ [KeyNext]_keyVars => KeyInv'
<1> SUFFICES ASSUME KeyInv, [KeyNext]_keyVars PROVE KeyInv'
  OBVIOUS
<1>1. ASSUME NEW r \in KeyRequests, KeyRequest(r) PROVE KeyInv'
  BY <1>1, BeginsKeep, AddKeyKeeps, RevokeKeeps, JobKeeps, DropKeeps DEF KeyRequest
<1>2. ASSUME NEW j \in KeyJobs, DropJob(j) PROVE KeyInv'
  <2>1. AsksTyped /\ crew' \subseteq KeyUsers \cap entities
    BY <1>2 DEF DropJob, KeyInv, KeyTypeOK, AsksTyped
  <2>2. jobKeys' \in [KeyJobs -> JobRow]
    BY <1>2 DEF DropJob, KeyInv, KeyTypeOK, JobRow
  <2>3. \A i \in KeyJobs : jobKeys'[i].state = "live" => KeyExists(jobKeys'[i].key) /\ jobKeys'[i].by \in entities
    BY <1>2 DEF DropJob, KeyInv, KeyTypeOK, JobRow, JobsKeepTheirKeys
  <2> QED
    BY <1>2, <2>1, <2>2, <2>3, JobsWritten DEF DropJob
<1>3. ASSUME NEW u \in KeyUsers, JoinOrLeave(u) PROVE KeyInv'
  <2>1. AsksTyped /\ crew' \subseteq KeyUsers \cap entities
    BY <1>3 DEF JoinOrLeave, KeyInv, KeyTypeOK, AsksTyped
  <2> QED
    BY <1>3, <2>1, JobsWritten DEF JoinOrLeave, KeyInv, KeyTypeOK, JobsKeepTheirKeys
<1>4. CASE UNCHANGED keyVars
  BY <1>4 DEF keyVars, KeyInv, KeyTypeOK, OwnersStay, JobsKeepTheirKeys, KeyExists
<1> QED
  BY <1>1, <1>2, <1>3, <1>4 DEF KeyNext

\* Whichever deletion of an owner is under way, a job that is there has its key,
\* the key's owner and its creator (apiKeys.ts, jobs.ts, users.ts, teams.ts).
THEOREM KeysKept == KeySpec => []JobsKeepTheirKeys
<1>1. KeyInv => JobsKeepTheirKeys
  BY DEF KeyInv
<1> QED
  BY <1>1, KeyStart, KeyStep, PTL DEF KeySpec

-----------------------------------------------------------------------------
(***************************************************************************)
(* Accounts: VoidLinkStays, LoggedOutStaysOut and AdminRemains. A link is  *)
(* of one row and, once spent or voided, of none; a handler's self-checks  *)
(* bound what it may take from the admin it runs for.                      *)
(***************************************************************************)

\* The pending link of each row.
Pending == [u \in Ids |-> users[u].link]

\* What a handler holds, given the pending links K and the number n of links issued:
\* a link it found is of no other row, and an admin's self-checks were made.
RequestInv(r, K, n) ==
    /\ r.link \in 0..n
    /\ \A v \in Ids : r.link # 0 /\ K[v] = r.link => v = r.id
    /\ r.op \in {"issue", "reset", "setPassword", "patch", "create", "delete", "signIn"} => r.id \in Ids
    /\ r.op \in {"signIn", "create"} => r.role \in Roles
    /\ r.op \in {"idle", "callback"} => r.link = 0
    /\ r.op = "patch" => /\ r.actor \in Ids
                         /\ r.id = r.actor => r.role \in {"ADMIN", "same"} /\ r.active # "off"
    /\ r.op = "delete" => r.actor \in Ids /\ r.id # r.actor

\* No link is of two rows, or beyond those issued; a void one only beside the
\* startup's password.
LinksInv ==
    /\ \A u \in Ids : Pending[u] \in 0..issued
    /\ \A u \in Ids : Pending[u] \in void => users[u].pw = "env"
    /\ \A u, v \in Ids : Pending[u] = Pending[v] /\ Pending[u] # 0 => u = v
    /\ void \subseteq 1..issued

RequestsInv == \A q \in Requests : RequestInv(req[q], Pending, issued)

AccountInv == AccountTypeOK /\ LinksInv /\ RequestsInv

-----------------------------------------------------------------------------
(* Rows.                                                                   *)

LEMMA UnusedIsRow == Unused \in Row /\ Unused.link = 0 /\ Unused.state = "unused"
BY AccountsAssumption DEF Unused, Row, Roles, Links

LEMMA RowWithRole ==
    ASSUME NEW w \in Row, NEW x \in Roles
    PROVE  LET n == [w EXCEPT !.role = x]
           IN  n \in Row /\ n.link = w.link /\ n.pw = w.pw
BY DEF Row

LEMMA RowWithLink ==
    ASSUME NEW w \in Row, NEW k \in Links
    PROVE  LET n == [w EXCEPT !.link = k]
           IN  n \in Row /\ n.link = k /\ n.state = w.state /\ n.role = w.role /\ n.active = w.active
BY DEF Row

LEMMA RowWithPassword ==
    ASSUME NEW w \in Row
    PROVE  LET n == [w EXCEPT !.pw = "set", !.link = 0]
           IN  n \in Row /\ n.link = 0 /\ n.state = w.state /\ n.role = w.role /\ n.active = w.active
<1>1. 0 \in Links
  BY AccountsAssumption DEF Links
<1> QED
  BY <1>1 DEF Row

\* What PATCH makes of a row: it stays an active admin's unless it is told otherwise.
PatchedRow(w, x, a) == [w EXCEPT !.role = IF x = "same" THEN @ ELSE x,
                                 !.active = IF a = "same" THEN @ ELSE a = "on"]

LEMMA RowPatched ==
    ASSUME NEW w \in Row, NEW x \in Roles \cup {"same"}, NEW a \in {"same", "on", "off"}
    PROVE  LET n == PatchedRow(w, x, a)
           IN  /\ n \in Row /\ n.link = w.link /\ n.pw = w.pw /\ n.state = w.state
               /\ x \in {"ADMIN", "same"} /\ w.role = "ADMIN" => n.role = "ADMIN"
               /\ a # "off" /\ w.active => n.active
<1> DEFINE n == PatchedRow(w, x, a)
           b == IF a = "same" THEN w.active ELSE a = "on"
           y == IF x = "same" THEN w.role ELSE x
<1>1. n = [w EXCEPT !.role = y, !.active = b]
  BY DEF PatchedRow
<1>2. b \in BOOLEAN
  <2>1. w.active \in BOOLEAN
    BY DEF Row
  <2>2. (a = "on") \in BOOLEAN
    BY SMT
  <2> QED
    BY <2>1, <2>2, Zenon
<1>3. y \in Roles /\ (x \in {"ADMIN", "same"} /\ w.role = "ADMIN" => y = "ADMIN")
  BY DEF Row
<1>4. a # "off" /\ w.active => b
  BY Zenon
<1> HIDE DEF n, b, y
<1>5. n \in Row /\ n.link = w.link /\ n.pw = w.pw /\ n.state = w.state /\ n.role = y
  BY <1>1, <1>2, <1>3 DEF Row
<1>6. n.active = b
  BY <1>1, Zenon DEF Row
<1> QED
  BY <1>3, <1>4, <1>5, <1>6, Zenon DEF n

LEMMA RowSynced ==
    ASSUME NEW w \in Row
    PROVE  LET n == [w EXCEPT !.state = "live", !.role = "ADMIN", !.active = TRUE, !.pw = "env"]
           IN  n \in Row /\ n.link = w.link /\ n.pw = "env"
BY DEF Row, Roles

LEMMA RowSso ==
    ASSUME NEW x \in Roles
    PROVE  LET n == [Unused EXCEPT !.state = "live", !.source = "OIDC", !.role = x, !.active = TRUE]
           IN  n \in Row /\ n.link = 0
BY UnusedIsRow DEF Row

LEMMA RowCreated ==
    ASSUME NEW x \in Roles
    PROVE  LET n == [Unused EXCEPT !.state = "live", !.role = x, !.active = TRUE]
           IN  n \in Row /\ n.link = 0
BY UnusedIsRow DEF Row

LEMMA RowDeleted ==
    LET n == [Unused EXCEPT !.state = "deleted"]
    IN  n \in Row /\ n.link = 0 /\ n.state = "deleted"
BY UnusedIsRow DEF Row

-----------------------------------------------------------------------------
(* Sessions and requests.                                                  *)

LEMMA AnonymousIsSession == Anonymous \in Session
BY DEF Anonymous, Session, Roles

LEMMA SessionIn ==
    ASSUME NEW w \in Session, NEW st \in {"unused", "live", "gone"}
    PROVE  [w EXCEPT !.state = st] \in Session /\ [w EXCEPT !.state = st].state = st
BY DEF Session

LEMMA SessionPending ==
    ASSUME NEW w \in Session
    PROVE  [w EXCEPT !.pending = TRUE] \in Session
BY DEF Session

LEMMA IdleIsRequest == /\ Idle \in Request /\ Idle.op = "idle" /\ Idle.link = 0 /\ Idle.actor = NoOne
                       /\ Idle.role = "same" /\ Idle.active = "same"
BY AnonymousIsSession, AccountsAssumption DEF Idle, Request, Steps, Links

LEMMA IdleInv == \A K, n : n \in Nat => RequestInv(Idle, K, n)
BY IdleIsRequest DEF RequestInv

-----------------------------------------------------------------------------
(* How the links and what handlers hold of them change.                    *)

LEMMA PendingOf == ASSUME AccountTypeOK, NEW u \in Ids PROVE Pending[u] = users[u].link /\ Pending[u] \in Links
BY DEF Pending, AccountTypeOK, Row

\* Rows lose their links, or get new ones: what a handler holds of them stays true.
LEMMA RequestStays ==
    ASSUME NEW K, NEW M, NEW n \in Nat, NEW m \in Nat, n <= m,
           \A u \in Ids : M[u] = K[u] \/ M[u] = 0 \/ M[u] = n + 1,
           NEW r, RequestInv(r, K, n)
    PROVE  RequestInv(r, M, m)
<1>1. r.link \in 0..n /\ r.link \in 0..m
  BY DEF RequestInv
<1>2. \A v \in Ids : r.link # 0 /\ M[v] = r.link => K[v] = r.link
  BY <1>1
<1> QED
  BY <1>1, <1>2 DEF RequestInv

\* One handler goes on to r, whatever rows lose their links.
LEMMA RequestsGoOn ==
    ASSUME AccountInv, NEW q \in Requests, NEW r \in Request, req' = [req EXCEPT ![q] = r],
           issued' \in Nat, issued <= issued',
           \A u \in Ids : Pending'[u] = Pending[u] \/ Pending'[u] = 0 \/ Pending'[u] = issued + 1,
           RequestInv(r, Pending', issued')
    PROVE  req' \in [Requests -> Request] /\ RequestsInv'
<1>1. req' \in [Requests -> Request] /\ req'[q] = r /\ \A p \in Requests \ {q} : req'[p] = req[p]
  BY DEF AccountInv, AccountTypeOK
<1>2. issued \in Nat
  BY AccountsAssumption DEF AccountInv, AccountTypeOK, Links
<1>3. \A p \in Requests : RequestInv(req[p], Pending', issued')
  <2> SUFFICES ASSUME NEW p \in Requests PROVE RequestInv(req[p], Pending', issued')
    OBVIOUS
  <2>1. RequestInv(req[p], Pending, issued)
    BY DEF AccountInv, RequestsInv
  <2> QED
    BY <1>2, <2>1, RequestStays
<1> QED
  BY <1>1, <1>3 DEF RequestsInv

\* A request that begins, or goes on, beside rows that stay.
LEMMA GoesOn ==
    ASSUME AccountInv, NEW q \in Requests, NEW r \in Request, req' = [req EXCEPT ![q] = r],
           RequestInv(r, Pending, issued), UNCHANGED <<users, issued, void>>,
           sess' \in [Sids -> Session], served' \in 0..MaxRequests
    PROVE  AccountInv'
<1>1. Pending' = Pending /\ issued' \in Nat
  BY AccountsAssumption DEF Pending, AccountInv, AccountTypeOK, Links
<1>2. issued <= issued'
  BY AccountsAssumption DEF AccountInv, AccountTypeOK, Links
<1>3. req' \in [Requests -> Request] /\ RequestsInv'
  BY <1>1, <1>2, RequestsGoOn
<1>4. LinksInv'
  BY <1>1 DEF AccountInv, LinksInv
<1> QED
  BY <1>3, <1>4 DEF AccountInv, AccountTypeOK

\* The link stays, and the password, or it goes.
KeepsLink(u, n) == n.link = 0 \/ (n.link = users[u].link /\ n.pw \in {users[u].pw, "env"})

\* A row is written, and its link stays or goes.
LEMMA RowWritten ==
    ASSUME AccountInv, NEW u \in Ids, NEW n \in Row, users' = [users EXCEPT ![u] = n],
           KeepsLink(u, n), UNCHANGED <<issued, void>>
    PROVE  /\ users' \in [Ids -> Row] /\ LinksInv'
           /\ \A v \in Ids : Pending'[v] = Pending[v] \/ Pending'[v] = 0
<1>1. users' \in [Ids -> Row] /\ users'[u] = n /\ \A v \in Ids \ {u} : users'[v] = users[v]
  BY DEF AccountInv, AccountTypeOK
<1>2. \A v \in Ids : Pending'[v] = users'[v].link /\ Pending[v] = users[v].link
  BY DEF Pending
<1>3. \A v \in Ids : Pending'[v] = Pending[v] \/ Pending'[v] = 0
  BY <1>1, <1>2 DEF KeepsLink
<1>4. 0 \in 0..issued /\ 0 \notin void
  BY AccountsAssumption DEF AccountInv, AccountTypeOK, Links
<1>5. \A v \in Ids : Pending'[v] \in void => users'[v].pw = "env"
  BY <1>1, <1>2, <1>4 DEF KeepsLink, AccountInv, LinksInv
<1>6. LinksInv'
  BY <1>3, <1>4, <1>5 DEF AccountInv, LinksInv
<1> QED
  BY <1>1, <1>3, <1>6

\* A handler writes a row without touching its link, and goes on.
LEMMA Writes ==
    ASSUME AccountInv, NEW q \in Requests, NEW r \in Request, req' = [req EXCEPT ![q] = r],
           RequestInv(r, Pending', issued), NEW u \in Ids, NEW n \in Row, users' = [users EXCEPT ![u] = n],
           KeepsLink(u, n), UNCHANGED <<sess, served, issued, void>>
    PROVE  AccountInv'
<1>1. /\ users' \in [Ids -> Row] /\ LinksInv'
      /\ \A v \in Ids : Pending'[v] = Pending[v] \/ Pending'[v] = 0
  BY RowWritten
<1>2. issued' \in Nat /\ issued <= issued' /\ issued' = issued
  BY AccountsAssumption DEF AccountInv, AccountTypeOK, Links
<1>3. req' \in [Requests -> Request] /\ RequestsInv'
  BY <1>1, <1>2, RequestsGoOn
<1> QED
  BY <1>1, <1>3 DEF AccountInv, AccountTypeOK

LEMMA AccountStart == AccountInit => AccountInv
<1> SUFFICES ASSUME AccountInit PROVE AccountInv
  OBVIOUS
<1>1. PICK boot \in {"unused", "live"}, a \in Roles, src \in {"LOCAL", "OIDC"}, other \in Ids, link \in Links :
         /\ issued = link
         /\ link # 0 => src = "LOCAL" /\ Email[other] # Boot
         /\ users = [u \in Ids |->
              IF u = other /\ Email[u] # Boot
              THEN [Unused EXCEPT !.state = "live", !.source = src, !.role = a, !.active = TRUE,
                                  !.pw = IF src = "LOCAL" THEN "set" ELSE "none", !.link = link]
              ELSE IF Email[u] = Boot /\ boot = "live"
              THEN [Unused EXCEPT !.state = "live", !.role = "ADMIN", !.active = TRUE, !.pw = "env"]
              ELSE Unused]
  BY Zenon DEF AccountInit
<1> DEFINE first == [Unused EXCEPT !.state = "live", !.source = src, !.role = a, !.active = TRUE,
                                   !.pw = IF src = "LOCAL" THEN "set" ELSE "none", !.link = link]
           admin == [Unused EXCEPT !.state = "live", !.role = "ADMIN", !.active = TRUE, !.pw = "env"]
<1>2. first \in Row /\ first.link = link
  <2> DEFINE p == IF src = "LOCAL" THEN "set" ELSE "none"
  <2>1. p \in {"set", "none"} /\ link \in Links
    OBVIOUS
  <2>2. first = [Unused EXCEPT !.state = "live", !.source = src, !.role = a, !.active = TRUE, !.pw = p, !.link = link]
    OBVIOUS
  <2> HIDE DEF p, first
  <2> QED
    BY <2>1, <2>2, UnusedIsRow DEF Row
<1>3. admin \in Row /\ admin.link = 0
  BY UnusedIsRow, RowSynced
<1>30. users = [u \in Ids |-> IF u = other /\ Email[u] # Boot THEN first
                            ELSE IF Email[u] = Boot /\ boot = "live" THEN admin ELSE Unused]
  BY <1>1
<1> HIDE DEF first, admin
<1>4. users \in [Ids -> Row]
  BY <1>30, <1>2, <1>3, UnusedIsRow
<1>5. \A u \in Ids : users[u].link = 0 \/ (u = other /\ users[u].link = link)
  BY <1>30, <1>2, <1>3, UnusedIsRow
<1>6. PICK whose \in [Sids -> Ids \cup {NoOne}] :
         sess = [s \in Sids |-> IF whose[s] = NoOne THEN [Anonymous EXCEPT !.state = "unused"]
                              ELSE [Anonymous EXCEPT !.user = whose[s], !.role = users[whose[s]].role]]
  BY DEF AccountInit
<1>7. sess \in [Sids -> Session]
  <2>1. ASSUME NEW s \in Sids PROVE sess[s] \in Session
    <3>0. sess[s] = IF whose[s] = NoOne THEN [Anonymous EXCEPT !.state = "unused"]
                    ELSE [Anonymous EXCEPT !.user = whose[s], !.role = users[whose[s]].role]
      BY <1>6, Zenon
    <3>1. CASE whose[s] = NoOne
      <4>1. sess[s] = [Anonymous EXCEPT !.state = "unused"]
        BY <3>0, <3>1, Zenon
      <4> QED
        BY <4>1, AnonymousIsSession, SessionIn
    <3>2. CASE whose[s] # NoOne
      <4>1. whose[s] \in Ids /\ users[whose[s]].role \in Roles
        BY <1>4, <3>2 DEF Row
      <4>2. sess[s] = [Anonymous EXCEPT !.user = whose[s], !.role = users[whose[s]].role]
        BY <3>0, <3>2, Zenon
      <4> QED
        BY <4>1, <4>2, AnonymousIsSession DEF Session
    <3> QED
      BY <3>1, <3>2
  <2>2. sess = [s \in Sids |-> sess[s]]
    BY <1>6
  <2> QED
    BY <2>1, <2>2
<1>8. req = [q \in Requests |-> Idle] /\ served = 0 /\ void = {} /\ issued \in Links /\ issued \in Nat
  <2>1. req = [q \in Requests |-> Idle] /\ served = 0 /\ void = {}
    BY Zenon DEF AccountInit
  <2> QED
    BY <1>1, <2>1, AccountsAssumption DEF Links
<1>9. AccountTypeOK
  BY <1>4, <1>7, <1>8, IdleIsRequest, AccountsAssumption DEF AccountTypeOK
<1>10. LinksInv
  <2>1. \A u \in Ids : Pending[u] = 0 \/ (u = other /\ Pending[u] = issued)
    BY <1>1, <1>5 DEF Pending
  <2> QED
    BY <1>8, <2>1 DEF LinksInv
<1>11. RequestsInv
  BY <1>8, IdleInv DEF RequestsInv
<1> QED
  BY <1>9, <1>10, <1>11 DEF AccountInv

\* Requests come.
LEMMA ArriveStep ==
    ASSUME AccountInv, NEW q \in Requests, Arrive(q)
    PROVE  AccountInv'
<1> DEFINE G(r) == Begin(q, r) /\ UNCHANGED <<users, sess, issued, void>>
<1>1. ASSUME NEW r \in Request, G(r), RequestInv(r, Pending, issued) PROVE AccountInv'
  <2>1. req' = [req EXCEPT ![q] = r] /\ served' \in 0..MaxRequests
    BY <1>1, AccountsAssumption DEF Begin, AccountInv, AccountTypeOK
  <2> QED
    BY <1>1, <2>1, GoesOn DEF AccountInv, AccountTypeOK
<1>2. issued \in Nat
  BY AccountsAssumption DEF AccountInv, AccountTypeOK, Links
<1>3. ASSUME NEW s \in Sids \cup {NoOne}, BeginLogin(q, s) PROVE AccountInv'
  <2> DEFINE k == IF s = NoOne THEN Anonymous ELSE sess[s]
             r == [Idle EXCEPT !.op = "login", !.sid = s, !.kept = k]
  <2>1. k \in Session
    BY AnonymousIsSession DEF AccountInv, AccountTypeOK
  <2>2. r \in Request /\ r.op = "login" /\ r.link = 0
    BY <2>1, IdleIsRequest DEF Request, Steps
  <2>3. G(r)
    BY <1>3 DEF BeginLogin
  <2> HIDE DEF r, G
  <2> QED
    BY <1>1, <1>2, <2>2, <2>3 DEF RequestInv
<1>4. ASSUME NEW s \in Sids \cup {NoOne}, NEW u \in Ids, LocalLogin(q, s, u) PROVE AccountInv'
  <2> DEFINE r == [Idle EXCEPT !.op = "signIn", !.sid = s, !.id = u, !.role = users[u].role]
  <2>1. users[u].role \in Roles
    BY DEF AccountInv, AccountTypeOK, Row
  <2>2. r \in Request /\ r.op = "signIn" /\ r.link = 0 /\ r.id = u /\ r.role \in Roles
    BY <2>1, IdleIsRequest DEF Request, Steps
  <2>3. G(r)
    BY <1>4 DEF LocalLogin
  <2> HIDE DEF r, G
  <2> QED
    BY <1>1, <1>2, <2>2, <2>3 DEF RequestInv
<1>5. ASSUME NEW s \in Sids, BeginCallback(q, s) PROVE AccountInv'
  <2> DEFINE r == [Idle EXCEPT !.op = "callback", !.sid = s]
  <2>2. r \in Request /\ r.op = "callback" /\ r.link = 0
    BY IdleIsRequest DEF Request, Steps
  <2>3. G(r)
    BY <1>5 DEF BeginCallback
  <2> HIDE DEF r, G
  <2> QED
    BY <1>1, <1>2, <2>2, <2>3 DEF RequestInv
<1>6. ASSUME NEW u \in Ids, ForgotPassword(q, u) PROVE AccountInv'
  <2> DEFINE r == [Idle EXCEPT !.op = "issue", !.id = u]
  <2>2. r \in Request /\ r.op = "issue" /\ r.link = 0 /\ r.id = u
    BY IdleIsRequest DEF Request, Steps
  <2>3. G(r)
    BY <1>6 DEF ForgotPassword
  <2> HIDE DEF r, G
  <2> QED
    BY <1>1, <1>2, <2>2, <2>3 DEF RequestInv
<1>7. ASSUME NEW u \in Ids, FindLink(q, u) PROVE AccountInv'
  <2> DEFINE r == [Idle EXCEPT !.op = "reset", !.id = u, !.link = users[u].link]
  <2>1. users[u].link \in Links /\ users[u].link = Pending[u]
    BY PendingOf DEF AccountInv
  <2>2. r \in Request /\ r.op = "reset" /\ r.link = Pending[u] /\ r.id = u
    BY <2>1, IdleIsRequest DEF Request, Steps
  <2>3. G(r)
    BY <1>7 DEF FindLink
  <2> HIDE DEF r, G
  <2>4. RequestInv(r, Pending, issued)
    BY <2>2 DEF AccountInv, LinksInv, RequestInv
  <2> QED
    BY <1>1, <2>2, <2>3, <2>4
<1>8. ASSUME NEW s \in Sids, AdminSession(s) PROVE sess[s].user \in Ids
  BY <1>8 DEF AdminSession, AccountInv, AccountTypeOK, Session
<1>9. ASSUME NEW s \in Sids, NEW u \in Ids, NEW r \in Request, AdminSession(s),
             r.op \in {"issue", "setPassword", "delete", "create", "patch"},
             r.link = 0, r.id = u, r.actor = sess[s].user,
             r.op = "create" => r.role \in Roles,
             r.op = "patch" => MayPatch(s, u, r.role, r.active), r.op = "delete" => u # sess[s].user,
             G(r)
      PROVE  AccountInv'
  <2>1. sess[s].user \in Ids
    BY <1>8, <1>9
  <2>2. RequestInv(r, Pending, issued)
    BY <1>2, <1>9, <2>1 DEF RequestInv, MayPatch
  <2> HIDE DEF G
  <2> QED
    BY <1>1, <1>9, <2>2
<1>10. ASSUME NEW s \in Sids, NEW u \in Ids,
              SendPasswordReset(q, s, u) \/ BeginSetPassword(q, s, u) \/ BeginDelete(q, s, u)
       PROVE  AccountInv'
  <2>1. PICK op \in {"issue", "setPassword", "delete"} :
           G(ByAdmin(s, op, u)) /\ AdminSession(s) /\ (op = "delete" => u # sess[s].user)
    BY <1>10 DEF SendPasswordReset, BeginSetPassword, BeginDelete
  <2> DEFINE r == ByAdmin(s, op, u)
  <2>2. r \in Request /\ r.op = op /\ r.link = 0 /\ r.id = u /\ r.actor = sess[s].user
    BY <1>8, <2>1, IdleIsRequest DEF Request, Steps, ByAdmin
  <2> HIDE DEF G
  <2>3. G(r)
    BY <2>1
  <2> HIDE DEF r
  <2> QED
    BY <1>9, <2>1, <2>2, <2>3
<1>11. ASSUME NEW s \in Sids, NEW u \in Ids, NEW x \in Roles, BeginCreate(q, s, u, x) PROVE AccountInv'
  <2> DEFINE r == [ByAdmin(s, "create", u) EXCEPT !.role = x]
  <2>1. G(r) /\ AdminSession(s)
    BY <1>11 DEF BeginCreate
  <2>2. r \in Request /\ r.op = "create" /\ r.link = 0 /\ r.id = u /\ r.actor = sess[s].user /\ r.role = x
    BY <1>8, <2>1, IdleIsRequest DEF Request, Steps, ByAdmin
  <2> HIDE DEF G, r
  <2> QED
    BY <1>9, <2>1, <2>2
<1>12. ASSUME NEW s \in Sids, NEW u \in Ids, NEW x \in Roles \cup {"same"}, NEW a \in {"same", "on", "off"},
              BeginPatch(q, s, u, x, a)
       PROVE  AccountInv'
  <2> DEFINE r == [ByAdmin(s, "patch", u) EXCEPT !.role = x, !.active = a]
  <2>1. G(r) /\ AdminSession(s) /\ MayPatch(s, u, x, a)
    BY <1>12 DEF BeginPatch
  <2>2. /\ r \in Request /\ r.op = "patch" /\ r.link = 0 /\ r.id = u /\ r.actor = sess[s].user
        /\ r.role = x /\ r.active = a
    BY <1>8, <2>1, IdleIsRequest DEF Request, Steps, ByAdmin
  <2> HIDE DEF G, r
  <2> QED
    BY <1>9, <2>1, <2>2
<1> QED
  BY <1>3, <1>4, <1>5, <1>6, <1>7, <1>10, <1>11, <1>12 DEF Arrive

\* A handler that ends, or writes a session only.
LEMMA SessionSteps ==
    ASSUME AccountInv, NEW q \in Requests, SaveLogin(q) \/ SignIn(q) \/ Abort(q)
    PROVE  AccountInv'
<1>1. req' = [req EXCEPT ![q] = Idle] /\ UNCHANGED <<users, issued, void, served>>
  BY DEF SaveLogin, SignIn, Abort, Finish
<1>2. req[q] \in Request /\ req[q].kept \in Session /\ req[q].role \in Roles \cup {"same"}
      /\ req[q].id \in Ids \cup {NoOne}
  BY DEF AccountInv, AccountTypeOK, Request
<1>3. sess' \in [Sids -> Session]
  <2>1. CASE SaveLogin(q)
    <3> DEFINE w == [req[q].kept EXCEPT !.pending = TRUE]
    <3>1. w \in Session
      BY <1>2, SessionPending
    <3> HIDE DEF w
    <3>2. UNCHANGED sess \/ \E s \in Sids \cup {NoOne} : sess' = [sess EXCEPT ![s] = w]
      BY <1>2, <2>1 DEF SaveLogin, FreeSids, AccountInv, AccountTypeOK, Request, w
    <3> QED
      BY <3>1, <3>2 DEF AccountInv, AccountTypeOK
  <2>2. CASE SignIn(q)
    <3> DEFINE gone(s) == [sess[s] EXCEPT !.state = "gone"]
    <3>1. NewSession(q) \in Session
      <4>1. req[q].op = "signIn" /\ req[q].role \in Roles
        BY <2>2 DEF SignIn, At, AccountInv, RequestsInv, RequestInv
      <4> QED
        BY <1>2, <4>1, AnonymousIsSession DEF NewSession, Session
    <3>2. \A s \in Sids : gone(s) \in Session
      BY SessionIn DEF AccountInv, AccountTypeOK
    <3>3. PICK new \in FreeSids :
             sess' = [s \in Sids |-> IF s = new THEN NewSession(q)
                                   ELSE IF s = req[q].sid THEN gone(s) ELSE sess[s]]
      BY <2>2 DEF SignIn
    <3> HIDE DEF gone
    <3> QED
      BY <3>1, <3>2, <3>3 DEF AccountInv, AccountTypeOK
  <2>3. CASE Abort(q)
    BY <2>3 DEF Abort, AccountInv, AccountTypeOK
  <2> QED
    BY <2>1, <2>2, <2>3
<1>4. issued \in Nat /\ served' \in 0..MaxRequests
  BY <1>1, AccountsAssumption DEF AccountInv, AccountTypeOK, Links
<1> QED
  BY <1>1, <1>3, <1>4, IdleIsRequest, IdleInv, GoesOn

\* A new link is greater than any before, and of one row.
LEMMA IssueStep ==
    ASSUME AccountInv, NEW q \in Requests, Issue(q)
    PROVE  AccountInv'
<1> DEFINE u == req[q].id
           n == [users[u] EXCEPT !.link = issued + 1]
<1>1. req' = [req EXCEPT ![q] = Idle] /\ UNCHANGED <<sess, served, void>>
  BY DEF Issue, Finish
<1>2. u \in Ids /\ issued \in Nat
  BY AccountsAssumption DEF Issue, At, AccountInv, RequestsInv, RequestInv, AccountTypeOK, Links
<1>3. CASE UNCHANGED <<users, issued>>
  BY <1>1, <1>2, <1>3, IdleIsRequest, IdleInv, GoesOn DEF AccountInv, AccountTypeOK
<1>4. CASE ~UNCHANGED <<users, issued>>
  <2>1. issued < MaxLinks /\ issued' = issued + 1 /\ users' = [users EXCEPT ![u] = n]
    BY <1>4, <1>2 DEF Issue, AccountInv, AccountTypeOK
  <2>2. issued + 1 \in Links /\ users[u] \in Row
    BY <1>2, <2>1, AccountsAssumption DEF Links, AccountInv, AccountTypeOK
  <2>3. n \in Row /\ n.link = issued + 1
    BY <2>2, RowWithLink
  <2> HIDE DEF n
  <2>4. users' \in [Ids -> Row] /\ users'[u] = n /\ \A v \in Ids \ {u} : users'[v] = users[v]
    BY <1>2, <2>1, <2>3 DEF AccountInv, AccountTypeOK
  <2>5. Pending'[u] = issued + 1 /\ \A v \in Ids \ {u} : Pending'[v] = Pending[v]
    BY <1>2, <2>3, <2>4 DEF Pending
  <2>6. req' \in [Requests -> Request] /\ RequestsInv'
    <3>1. RequestInv(Idle, Pending', issued') /\ issued <= issued' /\ issued' \in Nat
      BY <1>2, <2>1, IdleInv
    <3>2. \A v \in Ids : Pending'[v] = Pending[v] \/ Pending'[v] = 0 \/ Pending'[v] = issued + 1
      BY <2>5
    <3> QED
      BY <1>1, <3>1, <3>2, IdleIsRequest, RequestsGoOn
  <2>7. LinksInv'
    <3>0. \A v \in Ids : Pending'[v] \in 0..issued'
      BY <1>1, <1>2, <2>1, <2>5 DEF AccountInv, LinksInv
    <3>1. \A v \in Ids : Pending'[v] \in void' => users'[v].pw = "env"
      BY <1>1, <1>2, <2>4, <2>5 DEF AccountInv, LinksInv
    <3>2. \A v, w \in Ids : Pending'[v] = Pending'[w] /\ Pending'[v] # 0 => v = w
      BY <1>2, <2>5 DEF AccountInv, LinksInv
    <3>3. void' \subseteq 1..issued'
      BY <1>1, <1>2, <2>1 DEF AccountInv, LinksInv
    <3> QED
      BY <3>0, <3>1, <3>2, <3>3 DEF LinksInv
  <2> QED
    BY <1>1, <2>1, <2>2, <2>4, <2>6, <2>7 DEF AccountInv, AccountTypeOK
<1> QED
  BY <1>3, <1>4

\* Setting a password voids the link it came by and the one that was pending: no
\* other row has either of them.
LEMMA PasswordStep ==
    ASSUME AccountInv, NEW q \in Requests, WritePassword(q)
    PROVE  AccountInv'
<1> DEFINE k == req[q]
           u == k.id
           n == [users[u] EXCEPT !.pw = "set", !.link = 0]
<1>1. req' = [req EXCEPT ![q] = Idle] /\ UNCHANGED <<sess, served, issued>>
  BY DEF WritePassword, Finish
<1>2. u \in Ids /\ issued \in Nat /\ RequestInv(k, Pending, issued)
  BY AccountsAssumption DEF WritePassword, At, AccountInv, RequestsInv, RequestInv, AccountTypeOK, Links
<1>3. CASE UNCHANGED <<users, void>>
  BY <1>1, <1>2, <1>3, IdleIsRequest, IdleInv, GoesOn DEF AccountInv, AccountTypeOK
<1>4. CASE ~UNCHANGED <<users, void>>
  <2>1. users' = [users EXCEPT ![u] = n] /\ void' = (void \cup {k.link, users[u].link}) \ {0}
    BY <1>4, <1>2 DEF WritePassword, AccountInv, AccountTypeOK
  <2>2. n \in Row /\ n.link = 0
    BY <1>2, RowWithPassword DEF AccountInv, AccountTypeOK
  <2> HIDE DEF n
  <2>3. users' \in [Ids -> Row] /\ users'[u] = n /\ \A v \in Ids \ {u} : users'[v] = users[v]
    BY <1>2, <2>1, <2>2 DEF AccountInv, AccountTypeOK
  <2>4. Pending'[u] = 0 /\ \A v \in Ids \ {u} : Pending'[v] = Pending[v]
    BY <1>2, <2>2, <2>3 DEF Pending
  <2>5. users[u].link = Pending[u]
    BY <1>2 DEF Pending
  <2>6. req' \in [Requests -> Request] /\ RequestsInv'
    <3>1. RequestInv(Idle, Pending', issued') /\ issued <= issued' /\ issued' \in Nat
      BY <1>1, <1>2, IdleInv
    <3>2. \A v \in Ids : Pending'[v] = Pending[v] \/ Pending'[v] = 0 \/ Pending'[v] = issued + 1
      BY <2>4
    <3> QED
      BY <1>1, <3>1, <3>2, IdleIsRequest, RequestsGoOn
  <2>7. LinksInv'
    <3>1. \A v \in Ids \ {u} : Pending'[v] \in void' => Pending'[v] \in void /\ users'[v] = users[v]
      BY <1>2, <2>1, <2>3, <2>4, <2>5 DEF AccountInv, LinksInv, RequestInv
    <3>0. \A v \in Ids : Pending'[v] \in 0..issued'
      BY <1>1, <1>2, <2>4 DEF AccountInv, LinksInv
    <3>2. \A v \in Ids : Pending'[v] \in void' => users'[v].pw = "env"
      BY <2>1, <2>4, <3>1 DEF AccountInv, LinksInv
    <3>3. \A v, w \in Ids : Pending'[v] = Pending'[w] /\ Pending'[v] # 0 => v = w
      BY <2>4 DEF AccountInv, LinksInv
    <3>4. void' \subseteq 1..issued'
      <4>1. k.link \in 0..issued
        BY <1>2 DEF RequestInv
      <4>2. users[u].link \in 0..issued /\ void \subseteq 1..issued
        BY <1>2, <2>5 DEF AccountInv, LinksInv
      <4>3. \A x \in 0..issued : x # 0 => x \in 1..issued
        BY <1>2
      <4> HIDE DEF k, u
      <4> QED
        BY <1>1, <2>1, <4>1, <4>2, <4>3
    <3> QED
      BY <3>0, <3>2, <3>3, <3>4 DEF LinksInv
  <2>8. void' \subseteq Links \ {0}
    <3>1. k.link \in Links /\ users[u].link \in Links
      BY <1>2 DEF AccountInv, AccountTypeOK, Request, Row
    <3> QED
      BY <2>1, <3>1 DEF AccountInv, AccountTypeOK
  <2> QED
    BY <1>1, <2>3, <2>6, <2>7, <2>8 DEF AccountInv, AccountTypeOK
<1> QED
  BY <1>3, <1>4

\* The other steps that write a row.
LEMMA RowSteps ==
    ASSUME AccountInv, NEW q \in Requests,
           \/ Patch(q) \/ Create(q) \/ Delete(q)
           \/ \E e \in Emails, c \in Roles \cup {"none"} : UpsertSso(q, e, c)
    PROVE  AccountInv'
<1> DEFINE k == req[q]
<1>1. /\ k \in Request /\ RequestInv(k, Pending, issued) /\ issued \in Nat
      /\ users \in [Ids -> Row] /\ sess \in [Sids -> Session] /\ served \in 0..MaxRequests
  BY AccountsAssumption DEF AccountInv, AccountTypeOK, RequestsInv, Links
<1>2. ASSUME Finish(q), UNCHANGED <<users, sess, served, issued, void>> PROVE AccountInv'
  BY <1>1, <1>2, IdleIsRequest, IdleInv, GoesOn DEF Finish
<1>3. CASE Patch(q)
  <2> DEFINE n == PatchedRow(users[k.id], k.role, k.active)
  <2>1. CASE Live(k.id)
    <3>1. k.id \in Ids
      BY <1>1, <1>3 DEF Patch, At, RequestInv
    <3>2. users' = [users EXCEPT ![k.id] = n]
      BY <1>1, <1>3, <2>1, <3>1 DEF Patch, PatchedRow
    <3>3. n \in Row /\ KeepsLink(k.id, n)
      <4>1. k.role \in Roles \cup {"same"} /\ k.active \in {"same", "on", "off"} /\ users[k.id] \in Row
        BY <1>1, <3>1 DEF Request
      <4> QED
        BY <4>1, RowPatched DEF KeepsLink
    <3> HIDE DEF n
    <3>4. Finish(q) /\ UNCHANGED <<sess, served, issued, void>>
      BY <1>3 DEF Patch
    <3>5. RequestInv(Idle, Pending', issued)
      BY <1>1, IdleInv
    <3> QED
      BY <3>1, <3>2, <3>3, <3>4, <3>5, IdleIsRequest, Writes DEF Finish
  <2>2. CASE ~Live(k.id)
    BY <1>2, <1>3, <2>2 DEF Patch
  <2> QED
    BY <2>1, <2>2
<1>4. CASE Create(q)
  <2>0. k.id \in Ids /\ k.role \in Roles /\ k.op = "create"
    BY <1>1, <1>4 DEF Create, At, RequestInv
  <2>1. CASE Finish(q) /\ UNCHANGED users
    BY <1>2, <1>4, <2>1 DEF Create
  <2>2. CASE ~ (Finish(q) /\ UNCHANGED users)
    <3> DEFINE n == [Unused EXCEPT !.state = "live", !.role = k.role, !.active = TRUE]
               r == [k EXCEPT !.op = "issue"]
    <3>1. users' = [users EXCEPT ![k.id] = n] /\ req' = [req EXCEPT ![q] = r]
      BY <1>4, <2>2 DEF Create, AccountInv, AccountTypeOK
    <3>2. n \in Row /\ KeepsLink(k.id, n)
      BY <2>0, RowCreated DEF KeepsLink
    <3>3. r \in Request /\ r.op = "issue" /\ r.link = k.link /\ r.id = k.id
      BY <1>1 DEF Request, Steps
    <3>4. UNCHANGED <<sess, served, issued, void>>
      BY <1>4 DEF Create
    <3> HIDE DEF n, r
    <3>5. \A v \in Ids : Pending'[v] = Pending[v] \/ Pending'[v] = 0
      BY <2>0, <3>1, <3>2, <3>4, RowWritten
    <3>6. RequestInv(k, Pending', issued)
      BY <1>1, <3>5, RequestStays
    <3>7. RequestInv(r, Pending', issued)
      BY <2>0, <3>3, <3>6 DEF RequestInv
    <3> QED
      BY <2>0, <3>1, <3>2, <3>3, <3>4, <3>7, Writes
  <2> QED
    BY <2>1, <2>2
<1>5. CASE Delete(q)
  <2> DEFINE n == [Unused EXCEPT !.state = "deleted"]
  <2>1. CASE UNCHANGED users
    BY <1>2, <1>5, <2>1 DEF Delete
  <2>2. CASE ~UNCHANGED users
    <3>1. k.id \in Ids
      BY <1>1, <1>5 DEF Delete, At, RequestInv
    <3>2. users' = [users EXCEPT ![k.id] = n] /\ Finish(q) /\ UNCHANGED <<sess, served, issued, void>>
      BY <1>5, <2>2 DEF Delete
    <3>3. n \in Row /\ KeepsLink(k.id, n)
      BY RowDeleted DEF KeepsLink
    <3> HIDE DEF n
    <3>4. RequestInv(Idle, Pending', issued)
      BY <1>1, IdleInv
    <3> QED
      BY <3>1, <3>2, <3>3, <3>4, IdleIsRequest, Writes DEF Finish
  <2> QED
    BY <2>1, <2>2
<1>6. ASSUME NEW e \in Emails, NEW c \in Roles \cup {"none"}, UpsertSso(q, e, c) PROVE AccountInv'
  <2> DEFINE x == MappedRole(c)
             old(u) == [users[u] EXCEPT !.role = x]
             new == [Unused EXCEPT !.state = "live", !.source = "OIDC", !.role = x, !.active = TRUE]
             r(u) == [k EXCEPT !.op = "signIn", !.id = u, !.role = x]
  <2>0. x \in Roles /\ k.op = "callback" /\ UNCHANGED <<sess, served, issued, void>>
    BY <1>6 DEF MappedRole, Roles, UpsertSso, At
  <2>1. PICK u \in Ids : /\ users' = [users EXCEPT ![u] = IF Live(u) THEN old(u) ELSE new]
                         /\ req' = [req EXCEPT ![q] = r(u)]
    BY <1>1, <1>6 DEF UpsertSso, Holders, FreeIds, AccountInv, AccountTypeOK
  <2>2. old(u) \in Row /\ old(u).link = users[u].link /\ old(u).pw = users[u].pw
    BY <1>1, <2>0, RowWithRole
  <2>3. new \in Row /\ new.link = 0
    BY <2>0, RowSso
  <2> DEFINE n == IF Live(u) THEN old(u) ELSE new
  <2>4. n \in Row /\ KeepsLink(u, n)
    <3> HIDE DEF old, new
    <3> QED
      BY <2>2, <2>3 DEF KeepsLink
  <2>5. /\ r(u) \in Request /\ r(u).op = "signIn" /\ r(u).link = k.link /\ r(u).id = u /\ r(u).role = x
    BY <1>1, <2>0 DEF Request, Steps
  <2> HIDE DEF n, r, x
  <2>6. users' = [users EXCEPT ![u] = n]
    BY <2>1 DEF n
  <2>7. \A v \in Ids : Pending'[v] = Pending[v] \/ Pending'[v] = 0
    BY <2>0, <2>4, <2>6, RowWritten
  <2>8. k.link = 0
    BY <1>1, <2>0 DEF RequestInv
  <2>9. RequestInv(r(u), Pending', issued)
    BY <1>1, <2>0, <2>5, <2>8 DEF RequestInv
  <2> QED
    BY <2>0, <2>1, <2>4, <2>5, <2>6, <2>9, Writes
<1> QED
  BY <1>3, <1>4, <1>5, <1>6

\* Steps of no handler.
LEMMA OtherSteps ==
    ASSUME AccountInv, (\E s \in Sids : Logout(s)) \/ SyncBootstrapAdmin \/ UNCHANGED accountVars
    PROVE  AccountInv'
<1>1. ASSUME NEW s \in Sids, Logout(s) PROVE AccountInv'
  <2> DEFINE w == [sess[s] EXCEPT !.state = "gone"]
  <2>1. sess' = [sess EXCEPT ![s] = w] /\ UNCHANGED <<users, req, served, issued, void>>
    BY <1>1 DEF Logout, AccountInv, AccountTypeOK
  <2>2. w \in Session
    BY SessionIn DEF AccountInv, AccountTypeOK
  <2> HIDE DEF w
  <2>3. Pending' = Pending /\ sess' \in [Sids -> Session]
    BY <2>1, <2>2 DEF Pending, AccountInv, AccountTypeOK
  <2> QED
    BY <2>1, <2>3 DEF AccountInv, AccountTypeOK, LinksInv, RequestsInv
<1>2. CASE SyncBootstrapAdmin
  <2> DEFINE old(u) == [users[u] EXCEPT !.state = "live", !.role = "ADMIN", !.active = TRUE, !.pw = "env"]
             new == [Unused EXCEPT !.state = "live", !.role = "ADMIN", !.active = TRUE, !.pw = "env"]
  <2>1. PICK u \in Ids : /\ users' = [users EXCEPT ![u] = IF Live(u) THEN old(u) ELSE new]
                         /\ void' = (void \cup {users[u].link}) \ {0}
    <3>1. PICK u \in Ids :
             /\ users' = [users EXCEPT ![u] = [IF Live(u) THEN @ ELSE Unused EXCEPT
                         !.state = "live", !.role = "ADMIN", !.active = TRUE, !.pw = "env"]]
             /\ void' = (void \cup {users[u].link}) \ {0}
      BY <1>2 DEF SyncBootstrapAdmin, Holders, FreeIds
    <3> QED
      BY <3>1 DEF AccountInv, AccountTypeOK
  <2>2. old(u) \in Row /\ old(u).link = users[u].link /\ old(u).pw = "env"
    BY RowSynced DEF AccountInv, AccountTypeOK
  <2>3. new \in Row /\ new.link = 0 /\ new.pw = "env"
    BY UnusedIsRow, RowSynced
  <2> DEFINE n == IF Live(u) THEN old(u) ELSE new
  <2>4. n \in Row /\ n.link \in {users[u].link, 0} /\ n.pw = "env"
    <3> HIDE DEF old, new
    <3> QED
      BY <2>2, <2>3
  <2> HIDE DEF n
  <2>5. users' = [users EXCEPT ![u] = n] /\ UNCHANGED <<sess, req, served, issued>>
    BY <1>2, <2>1 DEF n, SyncBootstrapAdmin
  <2>6. users' \in [Ids -> Row] /\ users'[u] = n /\ \A v \in Ids \ {u} : users'[v] = users[v]
    BY <2>4, <2>5 DEF AccountInv, AccountTypeOK
  <2>7. \A v \in Ids : Pending'[v] = users'[v].link /\ Pending[v] = users[v].link
    BY DEF Pending
  <2>8. \A v \in Ids : Pending'[v] = Pending[v] \/ Pending'[v] = 0
    BY <2>4, <2>6, <2>7
  <2>9. issued \in Nat /\ issued \in Links
    BY AccountsAssumption DEF AccountInv, AccountTypeOK, Links
  <2>10. LinksInv'
    <3>1. \A v \in Ids : Pending'[v] \in 0..issued'
      BY <2>5, <2>8, <2>9 DEF AccountInv, LinksInv
    <3>2. \A v \in Ids : Pending'[v] \in void' => users'[v].pw = "env"
      BY <2>1, <2>4, <2>6, <2>7, <2>8 DEF AccountInv, LinksInv
    <3>3. \A v, w \in Ids : Pending'[v] = Pending'[w] /\ Pending'[v] # 0 => v = w
      BY <2>8 DEF AccountInv, LinksInv
    <3>4. void' \subseteq 1..issued'
      <4>1. users[u].link \in 0..issued /\ void \subseteq 1..issued
        BY <2>7 DEF AccountInv, LinksInv
      <4>2. \A x \in 0..issued : x # 0 => x \in 1..issued
        BY <2>9
      <4> QED
        BY <2>1, <2>5, <4>1, <4>2
    <3> QED
      BY <3>1, <3>2, <3>3, <3>4 DEF LinksInv
  <2>11. RequestsInv'
    <3> SUFFICES ASSUME NEW q \in Requests PROVE RequestInv(req[q], Pending', issued)
      BY <2>5 DEF RequestsInv
    <3>1. RequestInv(req[q], Pending, issued)
      BY DEF AccountInv, RequestsInv
    <3> QED
      BY <2>8, <2>9, <3>1, RequestStays
  <2>12. void' \subseteq Links \ {0}
    <3>1. users[u].link \in Links
      BY DEF AccountInv, AccountTypeOK, Row
    <3> QED
      BY <2>1, <3>1 DEF AccountInv, AccountTypeOK
  <2> QED
    BY <2>5, <2>6, <2>10, <2>11, <2>12 DEF AccountInv, AccountTypeOK
<1>3. CASE UNCHANGED accountVars
  <2>1. Pending' = Pending
    BY <1>3 DEF Pending, accountVars
  <2> QED
    BY <1>3, <2>1 DEF accountVars, AccountInv, AccountTypeOK, LinksInv, RequestsInv
<1> QED
  BY <1>1, <1>2, <1>3

LEMMA AccountStep == AccountInv /\ [AccountNext]_accountVars => AccountInv'
BY ArriveStep, SessionSteps, IssueStep, PasswordStep, RowSteps, OtherSteps DEF AccountNext, Resume

\* The links and what the handlers hold of them keep together, for any users,
\* sessions and requests in progress.
THEOREM AccountInvariance == AccountSpec => []AccountInv
BY AccountStart, AccountStep, PTL DEF AccountSpec

\* A link through which a password was set, or that was pending when one was set, is
\* the link of a row only while that row's last password is the startup's: nobody else
\* can begin a reset by it.
THEOREM VoidLinksStay == AccountSpec => []VoidLinkStays
<1>1. AccountInv => VoidLinkStays
  BY DEF AccountInv, LinksInv, Pending, VoidLinkStays
<1> QED
  BY <1>1, AccountInvariance, PTL

\* A session that ended comes back only by the save of a GET /login that had it.
THEOREM LoggedOutStay == AccountSpec => LoggedOutStaysOut
<1>1. ASSUME AccountInv, [AccountNext]_accountVars, NEW s \in Sids,
             sess[s].state = "gone", sess'[s].state = "live"
      PROVE  \E q \in Requests : At(q, "login") /\ req[q].sid = s
  <2>1. sess \in [Sids -> Session] /\ sess'[s] # sess[s] /\ s \notin FreeSids
    BY <1>1 DEF AccountInv, AccountTypeOK, FreeSids
  <2>2. ASSUME NEW t \in Sids, Logout(t) PROVE FALSE
    <3>1. sess' = [sess EXCEPT ![t].state = "gone"]
      BY <2>2 DEF Logout
    <3>2. s = t
      BY <2>1, <3>1
    <3> QED
      BY <1>1, <2>1, <3>1, <3>2 DEF Session
  <2>3. PICK q \in Requests : SaveLogin(q) \/ SignIn(q)
    <3>1. ASSUME UNCHANGED sess PROVE FALSE
      BY <2>1, <3>1
    <3>2. ASSUME NEW q \in Requests, Arrive(q) PROVE UNCHANGED sess
      BY <3>2 DEF Arrive, BeginLogin, LocalLogin, BeginCallback, ForgotPassword, FindLink, SendPasswordReset,
         BeginSetPassword, BeginDelete, BeginCreate, BeginPatch
    <3>3. ASSUME NEW q \in Requests, Issue(q) \/ WritePassword(q) \/ Patch(q) \/ Create(q) \/ Delete(q) \/ Abort(q)
          PROVE  UNCHANGED sess
      BY <3>3 DEF Issue, WritePassword, Patch, Create, Delete, Abort
    <3>4. ASSUME NEW q \in Requests, NEW e, NEW c, UpsertSso(q, e, c) PROVE UNCHANGED sess
      BY <3>4 DEF UpsertSso
    <3> QED
      BY <1>1, <2>2, <3>1, <3>2, <3>3, <3>4 DEF AccountNext, accountVars, Resume, SyncBootstrapAdmin
  <2>4. CASE SaveLogin(q)
    <3>1. PICK t \in (IF req[q].sid = NoOne THEN FreeSids ELSE {req[q].sid}) :
             sess' = [sess EXCEPT ![t] = [req[q].kept EXCEPT !.pending = TRUE]]
      BY <2>1, <2>4 DEF SaveLogin
    <3>2. t = s
      BY <2>1, <3>1
    <3>3. req[q].sid = s
      BY <2>1, <3>1, <3>2
    <3> QED
      BY <2>4, <3>3 DEF SaveLogin
  <2>5. CASE SignIn(q)
    <3>1. PICK new \in FreeSids :
             sess' = [t \in Sids |-> IF t = new THEN NewSession(q)
                                   ELSE IF t = req[q].sid THEN [sess[t] EXCEPT !.state = "gone"] ELSE sess[t]]
      BY <2>5 DEF SignIn
    <3>2. sess'[s] = [sess[s] EXCEPT !.state = "gone"]
      BY <2>1, <3>1
    <3> QED
      BY <1>1, <2>1, <3>2 DEF Session
  <2> QED
    BY <2>3, <2>4, <2>5
<1>2. AccountInv /\ [AccountNext]_accountVars =>
        [\A s \in Sids : sess[s].state = "gone" /\ sess'[s].state = "live" =>
            \E q \in Requests : At(q, "login") /\ req[q].sid = s]_accountVars
  BY <1>1
<1> QED
  BY <1>2, AccountInvariance, PTL DEF LoggedOutStaysOut, AccountSpec

\* What makes a row an active admin's.
IsAdmin(w) == w.state = "live" /\ w.role = "ADMIN" /\ w.active

LEMMA AdminsAre == \A u : u \in Admins <=> u \in Ids /\ IsAdmin(users[u])
BY DEF Admins, Live, IsAdmin

\* An admin whose row stays one's remains.
LEMMA AdminStays ==
    ASSUME AccountInv, NEW u \in Ids, NEW n, users' = [users EXCEPT ![u] = n],
           NEW a \in Admins, a = u => IsAdmin(n)
    PROVE  a \in Admins'
<1>1. users'[u] = n /\ \A v \in Ids \ {u} : users'[v] = users[v]
  BY DEF AccountInv, AccountTypeOK
<1>2. a \in Ids /\ IsAdmin(users[a])
  BY AdminsAre
<1>3. CASE a = u
  BY <1>1, <1>2, <1>3, Zenon DEF Admins, Live, IsAdmin
<1>4. CASE a # u
  <2>1. users'[a] = users[a]
    BY <1>1, <1>2, <1>4
  <2> QED
    BY <2>1, <1>2, Zenon DEF Admins, Live, IsAdmin
<1> QED
  BY <1>3, <1>4

\* Steps that leave no admin less.
LEMMA AdminsKept ==
    ASSUME AccountInv, NEW a \in Admins,
           \/ UNCHANGED users
           \/ \E q \in Requests : Issue(q) \/ WritePassword(q) \/ Create(q)
           \/ SyncBootstrapAdmin
    PROVE  a \in Admins'
<1>1. users \in [Ids -> Row] /\ a \in Ids /\ IsAdmin(users[a])
  BY AdminsAre DEF AccountInv, AccountTypeOK
<1>2. CASE UNCHANGED users
  BY <1>2, Zenon DEF Admins, Live
<1>3. ASSUME NEW q \in Requests, Issue(q), ~UNCHANGED users PROVE a \in Admins'
  <2> DEFINE u == req[q].id
             n == [users[u] EXCEPT !.link = issued + 1]
  <2>1. u \in Ids
    BY <1>3 DEF Issue, At, AccountInv, RequestsInv, RequestInv
  <2>2. users' = [users EXCEPT ![u] = n] /\ issued + 1 \in Links
    BY <1>1, <1>3, <2>1, AccountsAssumption DEF Issue, Links, AccountInv, AccountTypeOK
  <2>3. n.state = users[u].state /\ n.role = users[u].role /\ n.active = users[u].active
    BY <1>1, <2>1, <2>2, RowWithLink
  <2> HIDE DEF n
  <2>4. a = u => IsAdmin(n)
    BY <1>1, <2>3, Zenon DEF IsAdmin
  <2> QED
    BY <2>1, <2>2, <2>4, AdminStays
<1>4. ASSUME NEW q \in Requests, WritePassword(q), ~UNCHANGED users PROVE a \in Admins'
  <2> DEFINE u == req[q].id
             n == [users[u] EXCEPT !.pw = "set", !.link = 0]
  <2>1. u \in Ids
    BY <1>4 DEF WritePassword, At, AccountInv, RequestsInv, RequestInv
  <2>2. users' = [users EXCEPT ![u] = n]
    BY <1>1, <1>4, <2>1 DEF WritePassword
  <2>3. n.state = users[u].state /\ n.role = users[u].role /\ n.active = users[u].active
    BY <1>1, <2>1, RowWithPassword
  <2> HIDE DEF n
  <2>4. a = u => IsAdmin(n)
    BY <1>1, <2>3, Zenon DEF IsAdmin
  <2> QED
    BY <2>1, <2>2, <2>4, AdminStays
<1>5. ASSUME NEW q \in Requests, Create(q), ~UNCHANGED users PROVE a \in Admins'
  <2> DEFINE u == req[q].id
             n == [Unused EXCEPT !.state = "live", !.role = req[q].role, !.active = TRUE]
  <2>1. u \in Ids
    BY <1>5 DEF Create, At, AccountInv, RequestsInv, RequestInv
  <2>2. users' = [users EXCEPT ![u] = n] /\ users[u].state = "unused"
    BY <1>5 DEF Create
  <2>3. a # u
    BY <1>1, <2>2 DEF IsAdmin
  <2> HIDE DEF n
  <2> QED
    BY <2>1, <2>2, <2>3, AdminStays
<1>6. CASE SyncBootstrapAdmin
  <2>1. PICK u \in Ids :
             users' = [users EXCEPT ![u] = [IF Live(u) THEN @ ELSE Unused EXCEPT
                         !.state = "live", !.role = "ADMIN", !.active = TRUE, !.pw = "env"]]
    BY <1>6 DEF SyncBootstrapAdmin, Holders, FreeIds
  <2> DEFINE w == IF Live(u) THEN users[u] ELSE Unused
             n == [w EXCEPT !.state = "live", !.role = "ADMIN", !.active = TRUE, !.pw = "env"]
  <2>2. w \in Row
    BY <1>1, UnusedIsRow
  <2>3. users' = [users EXCEPT ![u] = n]
    BY <1>1, <2>1
  <2> HIDE DEF w
  <2>4. IsAdmin(n)
    BY <2>2 DEF Row, IsAdmin
  <2> HIDE DEF n
  <2> QED
    BY <2>3, <2>4, AdminStays
<1> QED
  BY <1>2, <1>3, <1>4, <1>5, <1>6

\* An admin does not take the role from himself.
LEMMA ActorRemains ==
    ASSUME AccountInv, NEW q \in Requests, Patch(q) \/ Delete(q), req[q].actor \in Admins
    PROVE  req[q].actor \in Admins'
<1> DEFINE k == req[q]
           a == k.actor
<1>1. /\ users \in [Ids -> Row] /\ a \in Ids /\ IsAdmin(users[a])
      /\ k \in Request /\ RequestInv(k, Pending, issued)
  BY AdminsAre DEF AccountInv, AccountTypeOK, RequestsInv
<1>2. CASE UNCHANGED users
  BY <1>2, AdminsKept
<1>3. CASE Patch(q) /\ ~UNCHANGED users
  <2> DEFINE n == PatchedRow(users[k.id], k.role, k.active)
  <2>1. k.id \in Ids /\ k.op = "patch"
    BY <1>1, <1>3 DEF Patch, At, RequestInv
  <2>2. users' = [users EXCEPT ![k.id] = n] /\ Live(k.id)
    BY <1>1, <1>3, <2>1 DEF Patch, PatchedRow
  <2>3. k.role \in Roles \cup {"same"} /\ k.active \in {"same", "on", "off"} /\ users[k.id] \in Row
    BY <1>1, <2>1 DEF Request
  <2>4. /\ n.state = users[k.id].state
        /\ k.role \in {"ADMIN", "same"} /\ users[k.id].role = "ADMIN" => n.role = "ADMIN"
        /\ k.active # "off" /\ users[k.id].active => n.active
    BY <2>3, RowPatched
  <2>5. a = k.id => k.role \in {"ADMIN", "same"} /\ k.active # "off"
    BY <1>1, <2>1 DEF RequestInv
  <2> HIDE DEF n
  <2>6. a = k.id => IsAdmin(n)
    BY <1>1, <2>4, <2>5, Zenon DEF IsAdmin
  <2> QED
    BY <2>1, <2>2, <2>6, AdminStays
<1>4. CASE Delete(q) /\ ~UNCHANGED users
  <2> DEFINE n == [Unused EXCEPT !.state = "deleted"]
  <2>1. k.id \in Ids /\ k.id # a
    BY <1>1, <1>4 DEF Delete, At, RequestInv
  <2>2. users' = [users EXCEPT ![k.id] = n]
    BY <1>4 DEF Delete
  <2> HIDE DEF n
  <2> QED
    BY <2>1, <2>2, AdminStays
<1> QED
  BY <1>2, <1>3, <1>4

\* The last active admin goes only by somebody who was none any more, or by the
\* role that a sign-in through SSO brings.
THEOREM LastAdminRemains == AccountSpec => AdminRemains
<1>1. ASSUME AccountInv, [AccountNext]_accountVars, Admins # {}, Admins' = {}
      PROVE  \E q \in Requests :
                \/ At(q, "callback")
                \/ req'[q] = Idle /\ req[q].actor \notin Admins \cup {NoOne}
  <2>1. ~UNCHANGED users
    BY <1>1, AdminsKept
  <2>2. ASSUME NEW q \in Requests, Patch(q) \/ Delete(q)
        PROVE  req'[q] = Idle /\ req[q].actor \notin Admins \cup {NoOne}
    <3>1. req'[q] = Idle
      BY <1>1, <2>2 DEF Patch, Delete, Finish, AccountInv, AccountTypeOK
    <3>2. req[q].actor \in Ids
      BY <1>1, <2>2 DEF Patch, Delete, At, AccountInv, RequestsInv, RequestInv
    <3>3. req[q].actor \notin Admins
      BY <1>1, <2>2, ActorRemains
    <3> QED
      BY <3>1, <3>2, <3>3, AccountsAssumption
  <2>3. ASSUME NEW q \in Requests, NEW e, NEW c, UpsertSso(q, e, c) PROVE At(q, "callback")
    BY <2>3 DEF UpsertSso
  <2>4. ASSUME NEW q \in Requests, Arrive(q) \/ SaveLogin(q) \/ SignIn(q) \/ Abort(q) PROVE FALSE
    BY <2>1, <2>4 DEF Arrive, BeginLogin, LocalLogin, BeginCallback, ForgotPassword, FindLink, SendPasswordReset,
       BeginSetPassword, BeginDelete, BeginCreate, BeginPatch, SaveLogin, SignIn, Abort
  <2>5. ASSUME NEW s \in Sids, Logout(s) PROVE FALSE
    BY <2>1, <2>5 DEF Logout
  <2>6. ASSUME (\E q \in Requests : Issue(q) \/ WritePassword(q) \/ Create(q)) \/ SyncBootstrapAdmin PROVE FALSE
    BY <1>1, <2>6, AdminsKept
  <2> QED
    BY <1>1, <2>1, <2>2, <2>3, <2>4, <2>5, <2>6 DEF AccountNext, Resume, accountVars
<1>2. AccountInv /\ [AccountNext]_accountVars =>
        [Admins # {} /\ Admins' = {} =>
            \E q \in Requests :
                \/ At(q, "callback")
                \/ req'[q] = Idle /\ req[q].actor \notin Admins \cup {NoOne}]_accountVars
  BY <1>1
<1> QED
  BY <1>2, AccountInvariance, PTL DEF AdminRemains, AccountSpec

=============================================================================
