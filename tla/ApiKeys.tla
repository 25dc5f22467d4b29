------------------------------- MODULE ApiKeys -------------------------------
(***************************************************************************)
(* LibreChat keys and the jobs that run under them (api: routes/apiKeys.ts,*)
(* the key checks of routes/jobs.ts, the deletions of users.ts and teams.ts*)
(* that would take keys along).                                            *)
(* A handler reads what it checks and then writes; another request may act *)
(* in between.  Foreign keys hold at the write: a key goes with its owner, *)
(* and a key some job uses stops the whole deletion.                       *)
(*                                                                         *)
(* There is one team, whose members may use its keys.  A label, a name and *)
(* an expiry date decide nothing and are left out: no code compares        *)
(* expiresAt with the clock, and none reads status back.                   *)
(***************************************************************************)
EXTENDS Naturals

CONSTANTS
    KeyUsers,       \* users who may hold a key
    Overseer,       \* one more user, an ADMIN
    ApiTeam,        \* the team
    KeyIds,         \* ids a key may get; a deleted one is not reused
    KeyJobs,        \* ids a job may get; likewise
    KeyRequests,    \* bound: API requests in flight
    MaxKeyCalls,    \* bound: requests in all
    NoKey

KeyOwners == KeyUsers \cup {Overseer, ApiTeam}
ASSUME KeyAssumption ==
    /\ Overseer \notin KeyUsers /\ ApiTeam \notin KeyUsers \cup {Overseer}
    /\ NoKey \notin KeyIds /\ MaxKeyCalls \in Nat

VARIABLES
    keys,       \* key -> its row: owner and status
    entities,   \* the users and the team that have a row
    crew,       \* users with a membership of the team
    jobKeys,    \* job -> its row: the key it runs under and its creator
    asks,       \* request -> what its handler holds
    asked       \* requests begun

keyVars == <<keys, entities, crew, jobKeys, asks, asked>>

KeyRow == [owner : KeyOwners \cup {NoKey}, status : {"unused", "ACTIVE", "REVOKED", "deleted"}]
JobRow == [state : {"unused", "live", "deleted"}, key : KeyIds \cup {NoKey}, by : KeyOwners \cup {NoKey}]
Ask == [op : {"idle", "addKey", "revoke", "addJob", "switchKey", "dropUser", "dropTeam"},
        user : KeyUsers \cup {Overseer, NoKey}, what : KeyOwners \cup KeyIds \cup {NoKey},
        under : KeyJobs \cup {NoKey}]
NoAsk == [op |-> "idle", user |-> NoKey, what |-> NoKey, under |-> NoKey]

KeyTypeOK ==
    /\ keys \in [KeyIds -> KeyRow] /\ jobKeys \in [KeyJobs -> JobRow]
    /\ entities \subseteq KeyOwners /\ crew \subseteq KeyUsers \cap entities
    /\ asks \in [KeyRequests -> Ask] /\ asked \in 0..MaxKeyCalls

KeyInit ==
    /\ keys = [k \in KeyIds |-> [owner |-> NoKey, status |-> "unused"]]
    /\ entities = KeyOwners /\ crew = KeyUsers
    /\ jobKeys = [j \in KeyJobs |-> [state |-> "unused", key |-> NoKey, by |-> NoKey]]
    /\ asks = [r \in KeyRequests |-> NoAsk] /\ asked = 0

KeyExists(k) == k \in KeyIds /\ keys[k].status \in {"ACTIVE", "REVOKED"}
UsedBy(k) == {j \in KeyJobs : jobKeys[j].state = "live" /\ jobKeys[j].key = k}
KeysOf(e) == {k \in KeyIds : KeyExists(k) /\ keys[k].owner = e}

\* ADMIN, the owner, or a member of the owning team.
CanUse(u, k) ==
    \/ u = Overseer
    \/ keys[k].owner = u
    \/ keys[k].owner = ApiTeam /\ u \in crew

Pose(r, a) ==
    /\ asks[r] = NoAsk /\ asked < MaxKeyCalls
    /\ asks' = [asks EXCEPT ![r] = a]
    /\ asked' = asked + 1
Closed(r) == asks' = [asks EXCEPT ![r] = NoAsk]
Posed(r, op) == asks[r].op = op

-----------------------------------------------------------------------------
(* Keys.                                                                   *)

\* POST /api-keys: one's own, or the team's for a member.
BeginAddKey(r, u, e) ==
    /\ u \in entities
    /\ e = u \/ (e = ApiTeam /\ u \in crew)
    /\ Pose(r, [NoAsk EXCEPT !.op = "addKey", !.user = u, !.what = e])
    /\ UNCHANGED <<keys, entities, crew, jobKeys>>

\* The owner must still be there (foreign key).
AddKey(r, k) ==
    /\ Posed(r, "addKey") /\ keys[k].status = "unused"
    /\ Closed(r)
    /\ keys' = IF asks[r].what \in entities
               THEN [keys EXCEPT ![k] = [owner |-> asks[r].what, status |-> "ACTIVE"]] ELSE keys
    /\ UNCHANGED <<entities, crew, jobKeys, asked>>

BeginRevoke(r, u, k) ==
    /\ u \in entities /\ KeyExists(k) /\ CanUse(u, k)
    /\ Pose(r, [NoAsk EXCEPT !.op = "revoke", !.user = u, !.what = k])
    /\ UNCHANGED <<keys, entities, crew, jobKeys>>

\* Marks the row; jobs and schedules are not looked at.
Revoke(r) ==
    /\ Posed(r, "revoke")
    /\ Closed(r)
    /\ keys' = IF KeyExists(asks[r].what)
               THEN [keys EXCEPT ![asks[r].what].status = "REVOKED"] ELSE keys
    /\ UNCHANGED <<entities, crew, jobKeys, asked>>

-----------------------------------------------------------------------------
(* Jobs.                                                                   *)

\* POST and PATCH of a job name a key the caller may use, whatever its status.
BeginJobKey(r, u, j, k) ==
    /\ u \in entities /\ jobKeys[j].state \in {"unused", "live"}
    /\ KeyExists(k) /\ CanUse(u, k)
    /\ Pose(r, [op |-> IF jobKeys[j].state = "live" THEN "switchKey" ELSE "addJob",
                user |-> u, what |-> k, under |-> j])
    /\ UNCHANGED <<keys, entities, crew, jobKeys>>

\* Both ends of the reference must be there at the write.
WriteJobKey(r) ==
    LET j == asks[r].under  k == asks[r].what  u == asks[r].user IN
    /\ \/ /\ Posed(r, "addJob")
          /\ jobKeys' = IF jobKeys[j].state = "unused" /\ KeyExists(k) /\ u \in entities
                        THEN [jobKeys EXCEPT ![j] = [state |-> "live", key |-> k, by |-> u]]
                        ELSE jobKeys
       \/ /\ Posed(r, "switchKey")
          /\ jobKeys' = IF jobKeys[j].state = "live" /\ KeyExists(k)
                        THEN [jobKeys EXCEPT ![j].key = k] ELSE jobKeys
    /\ Closed(r)
    /\ UNCHANGED <<keys, entities, crew, asked>>

DropJob(j) ==
    /\ jobKeys[j].state = "live"
    /\ jobKeys' = [jobKeys EXCEPT ![j].state = "deleted"]
    /\ UNCHANGED <<keys, entities, crew, asks, asked>>

-----------------------------------------------------------------------------
(* Owners.                                                                 *)

\* DELETE /users/:id counts the jobs the user made and those under a key of theirs.
BeginDropUser(r, u) ==
    /\ u \in entities \cap KeyUsers
    /\ \A j \in KeyJobs : jobKeys[j].state = "live" =>
          jobKeys[j].by # u /\ jobKeys[j].key \notin KeysOf(u)
    /\ Pose(r, [NoAsk EXCEPT !.op = "dropUser", !.user = Overseer, !.what = u])
    /\ UNCHANGED <<keys, entities, crew, jobKeys>>

\* DELETE /teams/:id counts other references, not the jobs.
BeginDropTeam(r, u) ==
    /\ ApiTeam \in entities /\ u \in crew \cup {Overseer}
    /\ Pose(r, [NoAsk EXCEPT !.op = "dropTeam", !.user = u, !.what = ApiTeam])
    /\ UNCHANGED <<keys, entities, crew, jobKeys>>

\* The owner's keys go along.
Cascade(e) ==
    /\ keys' = [k \in KeyIds |-> IF k \in KeysOf(e) THEN [keys[k] EXCEPT !.status = "deleted"]
                                 ELSE keys[k]]
    /\ entities' = entities \ {e}
    /\ crew' = IF e = ApiTeam THEN {} ELSE crew \ {e}

\* A deletion that trusts the counts it made.
DropAsCounted(r) ==
    /\ asks[r].op \in {"dropUser", "dropTeam"}
    /\ Closed(r)
    /\ IF asks[r].what \in entities THEN Cascade(asks[r].what) ELSE UNCHANGED <<keys, entities, crew>>
    /\ UNCHANGED <<jobKeys, asked>>

\* A key in use, or a job of the user's, refuses the statement as a whole
\* (onDelete: Restrict).
DropOwner(r) ==
    LET e == asks[r].what IN
    /\ asks[r].op \in {"dropUser", "dropTeam"}
    /\ Closed(r)
    /\ IF /\ e \in entities
          /\ \A k \in KeysOf(e) : UsedBy(k) = {}
          /\ \A j \in KeyJobs : jobKeys[j].state = "live" => jobKeys[j].by # e
       THEN Cascade(e)
       ELSE UNCHANGED <<keys, entities, crew>>
    /\ UNCHANGED <<jobKeys, asked>>

JoinOrLeave(u) ==
    /\ ApiTeam \in entities /\ u \in entities \cap KeyUsers
    /\ crew' = IF u \in crew THEN crew \ {u} ELSE crew \cup {u}
    /\ UNCHANGED <<keys, entities, jobKeys, asks, asked>>

-----------------------------------------------------------------------------
KeyRequest(r) ==
    \/ \E u \in KeyUsers \cup {Overseer} :
          \/ \E e \in KeyOwners : BeginAddKey(r, u, e)
          \/ \E k \in KeyIds : BeginRevoke(r, u, k) \/ \E j \in KeyJobs : BeginJobKey(r, u, j, k)
          \/ BeginDropUser(r, u) \/ BeginDropTeam(r, u)
    \/ \E k \in KeyIds : AddKey(r, k)
    \/ Revoke(r) \/ WriteJobKey(r) \/ DropOwner(r)

KeyNext ==
    \/ \E r \in KeyRequests : KeyRequest(r)
    \/ \E j \in KeyJobs : DropJob(j)
    \/ \E u \in KeyUsers : JoinOrLeave(u)

KeySpec == KeyInit /\ [][KeyNext]_keyVars

-----------------------------------------------------------------------------
(* Properties.                                                             *)

\* A job always has a key and a creator with a row, whichever deletion of an
\* owner was under way when the job was made or moved to the key: processRun
\* includes the key without asking whether it is there.
JobsKeepTheirKeys ==
    \A j \in KeyJobs : jobKeys[j].state = "live" =>
        KeyExists(jobKeys[j].key) /\ keys[jobKeys[j].key].owner \in entities
        /\ jobKeys[j].by \in entities
=============================================================================
